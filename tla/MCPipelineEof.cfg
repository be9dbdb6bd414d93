SPECIFICATION FairSpec
CONSTANTS
  Nil = Nil
  Pipelines = {p1}
  Faults = {}
PROPERTY EofEndsRead
CHECK_DEADLOCK FALSE
