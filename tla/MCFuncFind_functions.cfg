SPECIFICATION FindSpec
CONSTANTS
  Size = 20
  Limit = 20
  Slots = 7
  Family = "functions"
  Undef = Undef
  Original = Original
  None = None
  Programs <- MCPrograms
  Uninitialized <- MCUninitialized
INVARIANTS
  FuncTypeOK
  ContinuedBlocksGoOn
  BlocksAreNotShared
  NoFunctionRefused
  ReturnsAgree
  FunctionsAreClosed
CHECK_DEADLOCK FALSE
