SPECIFICATION Spec
CONSTANTS
  Size = 11
  Limit = 20
  Slots = 7
  Family = "handlers"
  Undef = Undef
  Original = Original
  None = None
  Programs <- MCPrograms
  Uninitialized <- MCUninitialized
PROPERTIES
  InsertedOutside
