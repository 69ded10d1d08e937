\* The zero-page mode that is indexed by Y.
SPECIFICATION Spec
CONSTANTS
  Heap    <- MCHeap
  Stdin   <- MCStdin
  Images  <- MCImages
  PowerOn <- MCPowerOn
  Garbage <- MCGarbage
PROPERTY ZeroPageYIsIndexed
\* The emulator stops at a trap.
CHECK_DEADLOCK FALSE
