\* The address RTI comes back to after BRK.
SPECIFICATION CallSpec
CONSTANTS
  Heap    <- MCHeap
  Stdin   <- MCStdin
  Images  <- InterruptImages
  PowerOn <- MCPowerOn
  Garbage <- MCGarbage
PROPERTY InterruptReturns
CHECK_DEADLOCK FALSE
