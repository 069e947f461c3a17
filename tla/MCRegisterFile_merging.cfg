SPECIFICATION Spec
CONSTANTS
  Base = 2
  Length = 2
  Machines = 2
  None = None
  Immediate <- MCImmediate
  Garbage <- MCGarbage
  Moves <- NoFrames
INVARIANTS
  TypeOK
  RelativeAgrees
PROPERTIES
  MergeSettles
CHECK_DEADLOCK FALSE
