CONSTANTS
  MaxFrames = 4
SPECIFICATION StreamFairSpec
CHECK_DEADLOCK FALSE
INVARIANTS AskedWhenCut NothingNeededSkipped
PROPERTIES KeyframeGetsThrough
