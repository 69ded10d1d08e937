\* From the command line to the loop of cycles and to the end.
SPECIFICATION StartupSpec
CONSTANTS
  CommandLines <- MCCommandLines
  FileSizes    <- MCFileSizes
INVARIANTS
  StartupTypeOK
  ParsedAsMeant
  RunsOnlyLoaded
  CrashOnlyOutOfMemory
  FileReleased
  EveryEndIsFailure
  ColoursReset
  StartupNeverStuck
PROPERTIES
  StartupEnds
\* The program ends.
CHECK_DEADLOCK FALSE
