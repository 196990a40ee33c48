SPECIFICATION PagesSpec
CONSTANTS
  Rows = {1, 2, 3}
  Key <- Namesakes
  Size = 1
  Sort <- ByName
  Bookmarks = {}
  MaxWrites = 0
INVARIANT EveryRowOnce
