CONSTANTS
  u1 = u1
  u2 = u2
  v1 = v1
  r1 = r1
  r2 = r2
  r3 = r3
  Users = {u1, u2}
  Videos = {v1}
  Shards = {0, 1}
  ShardOf <- MCShardOf
  Requests = {r1, r2, r3}
  UserOf <- MCUserOf
  VideoOf <- MCVideoOf
  Flushes = {f1, f2}
  BatchSize = 2
  MaxRetries = 1
  MaxFaults = 3
  Resends = TRUE
CHECK_DEADLOCK FALSE
SPECIFICATION Spec
INVARIANT CounterMatchesSet
INVARIANT CommentedIsBuffered
