SPECIFICATION
  ListSpec
CONSTANTS
  Keys = {1, 2, 3, 4, 5, 6}
  Blank = Blank
  ItemsPerPage = 2
  Granularity = 2
INVARIANT
  GrowsWithItsItems
CHECK_DEADLOCK FALSE
