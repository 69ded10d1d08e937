\* Whole instructions against cycles.
SPECIFICATION PipelineSpec
CONSTANTS
  Heap    <- MCHeap
  Stdin   <- MCStdin
  Images  <- MCImages
  PowerOn <- MCPowerOn
  Garbage <- MCGarbage
PROPERTY
  ImplementsIsa
\* A trapped machine stops.
CHECK_DEADLOCK FALSE
