SPECIFICATION Spec
CONSTANTS
  Nil = Nil
  Ws = {w1}
  Rtc = {r1}
  Messages = {"webrtc-start", "webrtc-stop", "use", "bare", "other", "close"}
  Faults = {"dial", "refresh", "peer", "video", "asleep"}
  MediaSources = {1, 2, 3}
  Overlap = 1
INVARIANT TypeOK
PROPERTY SelfClosedStaysDead
PROPERTY UsesWebSockets
CHECK_DEADLOCK FALSE
