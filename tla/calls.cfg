\* Nested calls, pushes, pulls and interrupts on nearly full and empty stacks.
SPECIFICATION CallSpec
CONSTANTS
  Heap    <- MCHeap
  Stdin   <- MCStdin
  Images  <- MCImages
  PowerOn <- MCPowerOn
  Garbage <- MCGarbage
INVARIANTS
  FramesOK
  FramesIntact
PROPERTIES
  ReturnMatchesCall
  StatusSurvivesInterrupt
\* The emulator stops at a trap.
CHECK_DEADLOCK FALSE
