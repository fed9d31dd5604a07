CONSTANTS
  Calls = {c1, c2}
  NoCall = NoCall
  Errors = {"transient", "domain", "application"}
  Retried = {"transient"}
  Counted = {"transient"}
  Letters = {"transient", "application"}
  MaxRetries = 2
  Threshold = 3
  SendToDlqAfterAttempts = 2
CHECK_DEADLOCK FALSE
SPECIFICATION Spec
INVARIANT DlqAfterAttempts
