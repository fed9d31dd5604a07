CONSTANTS
  watch1 = watch1
  watch2 = watch2
  Commands <- MCCommands
  Users = {"ana", "bob"}
  Videos = {"film"}
  Shards = {0, 1}
  OpOf <- MCOpOf
  UserOf <- MCUserOf
  VideoOf <- MCVideoOf
  ShardOf <- MCShardOf
  Builds <- MCBuilds
  MaxFaults = 2
SYMMETRY WatchesAlike
CHECK_DEADLOCK FALSE
SPECIFICATION Spec
INVARIANT CountersExact
INVARIANT StreamTellsSets
INVARIANT AlreadyHasReason
