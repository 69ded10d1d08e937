\* The test programs of roms/, from reset.
SPECIFICATION LiveSpec
CONSTANTS
  Heap    <- MCHeap
  Stdin   <- MCStdin
  Images  <- MCImages
  PowerOn <- MCPowerOn
  Garbage <- MCGarbage
INVARIANT FibonacciTable
PROPERTY ForCycleEnds
\* The emulator stops at a trap.
CHECK_DEADLOCK FALSE
