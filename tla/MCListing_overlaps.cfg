SPECIFICATION
  Spec
CONSTANTS
  Byte <- MCByte
  Length <- MCLength
  FarJump <- MCFarJump
  Text <- MCText
  Images <- MCImages
  Segments <- MCSegments
  Dollar = "and"
  Size = 5
  MaxMessage = 2
  MaxVariables = 2
  MaxBlocks = 2
INVARIANTS
  TypeOK
  Complete
  InOrder
  LabelsAreKept
PROPERTIES
  DumpEnds
