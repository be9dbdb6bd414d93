SPECIFICATION FairSpec
CONSTANTS
  Nil = Nil
  Ws = {w1, w2}
  Rtc = {r1, r2}
  Messages = {"webrtc-start", "use", "bare", "other"}
  Faults = {"dial", "refresh", "peer", "video", "asleep"}
  MediaSources = {1, 2}
  Overlap = 0
INVARIANT CrashesAreNamed
INVARIANT NothingLeaks
PROPERTY KeepsSession
PROPERTY WsNotReplaced
PROPERTY LostIsReleased
PROPERTY StopFrees
PROPERTY KeepsFeed
CHECK_DEADLOCK FALSE
