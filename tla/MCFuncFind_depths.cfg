SPECIFICATION FindSpec
CONSTANTS
  Size = 17
  Limit = 20
  Slots = 6
  Family = "functions"
  Undef = Undef
  Original = Original
  None = None
  Programs <- MCPrograms
  Uninitialized <- MCUninitialized
INVARIANTS
  DepthsAreKnown
CHECK_DEADLOCK FALSE
