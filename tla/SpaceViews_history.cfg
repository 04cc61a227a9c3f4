CONSTANTS
  Users = {1, 2}
  Stickers = {1}
  Bounds <- Some
SPECIFICATION HistorySpec
CHECK_DEADLOCK FALSE
INVARIANTS HistoryReadable
