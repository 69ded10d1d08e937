\* A frame drawn after a log message.
SPECIFICATION StartupSpec
CONSTANTS
  CommandLines <- MCCommandLines
  FileSizes    <- MCFileSizes
INVARIANT
  FramePlain
\* The program ends.
CHECK_DEADLOCK FALSE
