\* Opcodes of the 6502 that the table of instructions_data.c lacks.
SPECIFICATION Spec
CONSTANTS
  Heap    <- MCHeap
  Stdin   <- MCStdin
  Images  <- MCImages
  PowerOn <- MCPowerOn
  Garbage <- MCGarbage
INVARIANT OfficialOpcodesSupported
\* The emulator stops at a trap.
CHECK_DEADLOCK FALSE
