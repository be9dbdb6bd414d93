SPECIFICATION FairSpec
CONSTANTS
  NoOne = NoOne
  Callers = {c1, c2}
  Ws = {w1}
  CallbackOps = {"send"}
  PeerFrames = {"text"}
PROPERTY DeadlineStopsRead
CHECK_DEADLOCK FALSE
