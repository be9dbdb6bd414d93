SPECIFICATION FairSpec
CONSTANTS
  Nil = Nil
  Ws = {w1}
  Rtc = {r1}
  Messages = {"webrtc-start", "webrtc-stop"}
  Faults = {}
  MediaSources = {1}
  Overlap = 0
PROPERTY StopStops
CHECK_DEADLOCK FALSE
