CONSTANTS
  verify1 = verify1
  verify2 = verify2
  update1 = update1
  update2 = update2
  bad = bad
  video = video
  Videos = {video}
  Commands = {verify1, verify2, update1, update2, bad}
  KindOf <- MCKindOf
  VideoOf <- MCVideoOf
  Invalid = {bad}
  Drafted = Drafted
  MaxRetries = 1
  MaxFaults = 2
CHECK_DEADLOCK FALSE
SPECIFICATION Spec
INVARIANT ProcessingIsUploaded
INVARIANT KeptUnlessOverlapped
INVARIANT VerifiedOnce
INVARIANT DraftsLostOnlyByFault
PROPERTY SerialUnlessOverlapped
