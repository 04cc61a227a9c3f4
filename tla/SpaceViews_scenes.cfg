CONSTANTS
  Users = {1, 2}
  Stickers = {1}
  Bounds <- Some
SPECIFICATION ViewsSpec
CHECK_DEADLOCK FALSE
INVARIANTS NoDuplicates UrlsOwned ViewsAgree
