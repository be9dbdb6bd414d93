SPECIFICATION FairSpec
CONSTANTS
  Nil = Nil
  Pipelines = {p1, p2}
  Faults = {"listen", "start", "accept", "read"}
INVARIANT TypeOK
INVARIANT NoFrameAfterClose
INVARIANT OneChild
INVARIANT OwnChild
PROPERTY CloseReturns
PROPERTY KeepsFeed
CHECK_DEADLOCK FALSE
