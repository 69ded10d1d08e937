\* The loop of cycles and renderings, to each of the traps.
SPECIFICATION ComposedSpec
CONSTANTS
  Heap    <- MCHeap
  Stdin   <- MCStdin
  Images  <- MCImages
  PowerOn <- MCPowerOn
  Garbage <- MCGarbage
INVARIANTS
  EmulatorTypeOK
  ScreenCurrent
  DrawnBeforeEnd
  LoopNeverStuck
PROPERTIES
  RequestShowsPage
  ImplementsCpu
  LoopImplementsIsa
\* The emulator stops at a trap.
CHECK_DEADLOCK FALSE
