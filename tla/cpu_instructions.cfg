\* Every opcode, with operands at the page edges, and every short I/O sequence.
SPECIFICATION LiveSpec
CONSTANTS
  Heap    <- MCHeap
  Stdin   <- MCStdin
  Images  <- MCImages
  PowerOn <- MCPowerOn
  Garbage <- MCGarbage
INVARIANTS
  TypeOK
  PipelineConsistent
  OnlyProgramTraps
  InstructionIsInMemory
  NeverStuck
PROPERTIES
  LegalInstructionCompletes
  ROMIsReadOnly
  KeyHeldUntilStrobe
  JumpReadsCommute
  ZeroPageConfined
\* The emulator stops at a trap.
CHECK_DEADLOCK FALSE
