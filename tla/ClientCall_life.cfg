CONSTANTS
  CallChannels <- OneChannel
  MaxIds = 3
  MaxActs = 5
  MaxShares = 2
  MaxDrops = 1
SPECIFICATION CallSpec
CHECK_DEADLOCK FALSE
INVARIANTS MicsOwnedCalm MutedIsSilent ScreenOwned ShareIsToldCalm
