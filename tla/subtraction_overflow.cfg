\* The overflow flag of SBC.
SPECIFICATION Spec
CONSTANTS
  Heap    <- MCHeap
  Stdin   <- MCStdin
  Images  <- MCImages
  PowerOn <- MCPowerOn
  Garbage <- MCGarbage
PROPERTY SubtractionOverflow
\* The emulator stops at a trap.
CHECK_DEADLOCK FALSE
