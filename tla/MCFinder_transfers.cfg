SPECIFICATION Spec
CONSTANTS
  Size = 9
  Limit = 3
  Slots = 4
  Family = "transfers"
  Undef = Undef
  Original = Original
  None = None
  Programs <- MCPrograms
  Uninitialized <- MCUninitialized
INVARIANTS
  Inductive
  DisjointBlocks
  JumpsAreCode
  ContinuesAnother
  NothingPending
  NoEmptyBlocks
PROPERTIES
  OriginsOnlyLose
  NewOriginsAreNoticed
  ImplementsWorklist
  OverlapsAreDisturbances
  RefusalsAreDisturbances
  NeverDisturbed
