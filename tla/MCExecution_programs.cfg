SPECIFICATION ExecSpec
CONSTANTS
  Size = 7
  Limit = 20
  Depth = 4
  Slots = 4
  Family = "executables"
  Undef = Undef
  Original = Original
  None = None
  Programs <- MCPrograms
  Uninitialized <- MCUninitialized
INVARIANTS
  NeverRefused
  Converges
  ExecutedCodeIsInBlocks
CHECK_DEADLOCK FALSE
