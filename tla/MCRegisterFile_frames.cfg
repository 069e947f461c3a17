SPECIFICATION Spec
CONSTANTS
  Base = 2
  Length = 3
  Machines = 1
  None = None
  Immediate <- MCImmediate
  Garbage <- MCGarbage
  Moves <- FrameMoves
INVARIANTS
  TiedStackAgrees
CHECK_DEADLOCK FALSE
