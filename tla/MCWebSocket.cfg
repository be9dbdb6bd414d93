SPECIFICATION FairSpec
CONSTANTS
  NoOne = NoOne
  Callers = {c1, c2, c3}
  Ws = {w1}
  CallbackOps = {"return", "send", "close"}
  PeerFrames = {"text", "close"}
INVARIANT TypeOK
INVARIANT OpenWhileInUse
INVARIANT QuietAfterClose
INVARIANT OnlyCallbacksBlock
INVARIANT OnlyRacesPanic
PROPERTY SelfCloseStuck
PROPERTY CloseReturns
CHECK_DEADLOCK FALSE
