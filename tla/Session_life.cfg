CONSTANTS
  MaxIds = 2
  MaxNonces = 2
  MaxCrashes = 1
  MaxFails = 1
  MaxDrops = 1
SPECIFICATION Spec
CHECK_DEADLOCK FALSE
INVARIANTS ChallengeOnce KeysKept Forgotten OneConnection
PROPERTIES Reconnects
