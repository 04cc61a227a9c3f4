CONSTANTS
  u1 = u1
  u2 = u2
  Users = {u1, u2}
  Owner = u2
  Conns <- OnlyFirst
  ConnUser <- MCConnUser
  Channels = {"ch"}
  FirstMembers = {u2}
  Workers = 2
  MaxMemberChanges = 2
SPECIFICATION FairHubSpec
INVARIANTS JoinedIsOnRoster
PROPERTIES ImplementsRoster GhostsGoAway
