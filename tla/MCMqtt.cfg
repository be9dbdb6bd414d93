SPECIFICATION FairSpec
CONSTANTS
  MaxRequests = 3
  MaxLosses = 2
  Faults = {"connect", "subscribe", "publish", "handler"}
INVARIANT TypeOK
INVARIANT HearsUntilLoss
INVARIANT FailedIsSilent
INVARIANT OnlyEarlyRequestsCrash
INVARIANT AnswersInOrder
INVARIANT ClosedIsOffline
PROPERTY RequestsAreAnswered
PROPERTY CloseReturns
CHECK_DEADLOCK FALSE
