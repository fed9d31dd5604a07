CONSTANTS
  Calls = {c1, c2, c3}
  NoCall = NoCall
  Errors = {"transient", "domain", "application"}
  Retried = {"transient"}
  Counted = {"transient"}
  Letters = {"transient", "application"}
  MaxRetries = 1
  Threshold = 2
  SendToDlqAfterAttempts = 1
CHECK_DEADLOCK FALSE
SPECIFICATION FairSpec
INVARIANT ProbeInFlight
INVARIANT ClosedBelowThreshold
INVARIANT LettersAreFinal
INVARIANT BreakerJustified
PROPERTY ContractSpec
PROPERTY CallsEnd
PROPERTY HalfOpenSettles
