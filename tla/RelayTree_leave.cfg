CONSTANTS
  r = r
  a = a
  b = b
  Viewers = {a, b}
  Root = r
  None = None
  MaxToggles = 3
  MaxStreams = 2
  MaxUpsets = 1
  MaxCuts = 1
SPECIFICATION ScenesSpec
CHECK_DEADLOCK FALSE
INVARIANTS InSync
PROPERTIES EveryoneFed
