\* The arithmetic and shift instructions against their meaning on numbers.
SPECIFICATION Spec
CONSTANTS
  Heap    <- MCHeap
  Stdin   <- MCStdin
  Images  <- MCImages
  PowerOn <- MCPowerOn
  Garbage <- MCGarbage
PROPERTIES
  AdditionExact
  SubtractionExact
  CompareIsSubtraction
  ShiftExact
\* The emulator stops at a trap.
CHECK_DEADLOCK FALSE
