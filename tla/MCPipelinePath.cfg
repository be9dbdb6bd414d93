SPECIFICATION Spec
CONSTANTS
  Nil = Nil
  Pipelines = {p1, p2}
  Faults = {}
INVARIANT OpenIsReachable
SYMMETRY Symmetry
CHECK_DEADLOCK FALSE
