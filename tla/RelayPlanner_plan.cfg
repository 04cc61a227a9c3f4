CONSTANTS
  Viewers <- MCViewers
  Inputs <- MCInputs
  Bitrate = 10
  DefaultRtt = 30
  HopMs = 3
  StickyMs = 8
  MaxDepth = 2
SPECIFICATION PlannerSpec
INVARIANTS TreeOK BannedLastResort RoomForAll Stable
