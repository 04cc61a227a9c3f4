CONSTANTS
  o = o
  a = a
  b = b
  Users = {o, a, b}
  Owner = o
  FirstMembers = {o, a, b}
  MaxKicks = 2
  MaxJoins = 2
  MaxDrops = 1
  MaxRestarts = 1
  MaxFailures = 1
SPECIFICATION ScenesSpec
CHECK_DEADLOCK FALSE
SYMMETRY Friends
INVARIANTS WrapsOnlyForMembers KeysStayWithMembers OneKeyPerEpochOnce MembersKeptUpCalm RotatedAfterRemovalCalm
PROPERTIES FirstWrapWins
