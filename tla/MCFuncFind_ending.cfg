SPECIFICATION FindSpec
CONSTANTS
  Size = 12
  Limit = 20
  Slots = 6
  Family = "functions"
  Undef = Undef
  Original = Original
  None = None
  Programs <- MCPrograms
  Uninitialized <- MCUninitialized
PROPERTIES
  ProgramEnds
CHECK_DEADLOCK FALSE
