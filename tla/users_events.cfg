CONSTANTS
  profile1 = profile1
  profile2 = profile2
  theme = theme
  verify = verify
  language = language
  bad = bad
  user = user
  KindOf <- MCKindOf
  UserOf <- MCUserOf
  Gives <- MCGives
  Users = {user}
  Signup = Signup
  MaxRetries = 1
CHECK_DEADLOCK FALSE
CONSTANT Commands = {profile1}
CONSTANT Invalid = {}
CONSTANT Recursive <- MCRecursive
CONSTANT MaxFaults = 1
SPECIFICATION FairSpec
PROPERTY UpdatesAreAnnounced
