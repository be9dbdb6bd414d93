SPECIFICATION Spec
CONSTANTS
  Nil = Nil
  Absent = Absent
  Torn = Torn
  Callers = {c1, c2}
  MaxGrants = 3
  Faults = {"crash", "http", "body", "json", "data", "omit", "save", "expire"}
INVARIANT TypeOK
INVARIANT StaysSignedIn
INVARIANT KeepsIdentity
INVARIANT FileFollows
INVARIANT NeverEmpty
SYMMETRY Symmetry
CHECK_DEADLOCK FALSE
