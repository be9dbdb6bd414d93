SPECIFICATION Spec
CONSTANTS
  Nil = Nil
  Ws = {w1, w2}
  Rtc = {r1, r2}
  Messages = {"webrtc-start"}
  Faults = {}
  MediaSources = {1}
  Overlap = 1
SYMMETRY Symmetry
INVARIANT ClosedByPeer
CHECK_DEADLOCK FALSE
