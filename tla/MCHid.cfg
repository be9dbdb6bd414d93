SPECIFICATION FairSpec
CONSTANTS
  Nil = Nil
  Channels = {c1, c2}
  Closers = {k1}
  Files = {f1, f2}
  KeyCode <- Keys
  Messages <- Sent
  Faults = {"open", "write", "asleep"}
INVARIANT TypeOK
INVARIANT OneFile
INVARIANT HostAgrees
PROPERTY CloseReturns
CHECK_DEADLOCK FALSE
