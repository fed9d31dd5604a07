CONSTANTS
  s1 = s1
  s2 = s2
  s3 = s3
  Signups = {s1, s2, s3}
  AuthOf <- MCAuthOf
  EmailOf <- MCEmailOf
  HandleOf <- MCHandleOf
  Partitions = {1, 2}
  PartitionOf <- MCPartitionOf
  MaxRetries = 1
CHECK_DEADLOCK FALSE
CONSTANT MaxFaults = 2
SPECIFICATION FairSpec
INVARIANT FactsHappened
INVARIANT LostOnlyByFault
INVARIANT SmoothWithoutFault
PROPERTY ReadDelivers
PROPERTY EmailDelivers
PROPERTY MailsGetThrough
PROPERTY EverybodyArrives
