CONSTANTS
  u1 = u1
  u2 = u2
  Users = {u1, u2}
  Owner = u2
  Conns <- OneEach
  ConnUser <- MCConnUser
  Channels = {"ch1", "ch2"}
  FirstMembers = {u1, u2}
  Workers = 2
  MaxMemberChanges = 2
SPECIFICATION ToldSpec
INVARIANTS RosterFresh PresenceFresh
