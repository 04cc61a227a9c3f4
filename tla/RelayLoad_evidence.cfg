SPECIFICATION FairSpec
CONSTANTS
  Viewers = {a, b}
  Root = root
  None = none
  Reasons = {game}
  Full <- Uploads
  Bitrate = 2
  Calm = 1
  Silent = 1
  Dead = 3
  Settle = 2
  CutGap = 1
  Quiet = 2
  Regrow = 1
  MaxDoublings = 1
  Judge = 1
  Again = 1
  MoveGap = 2
  BanFor = 3
  WeakFor = 3
  OrphanBan = 1
  MaxUpsets = 2
INVARIANTS SparedFeedNobody
PROPERTIES GrowsBack BadPathLeft
