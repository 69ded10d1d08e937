--------------------------- MODULE StartupProofs ---------------------------
(***************************************************************************)
(* Proofs of the properties of Startup, for all command lines and file     *)
(* sizes: its safety properties, how its steps lead to the end, and that   *)
(* parse_args reads every command line as it is meant, whatever the number *)
(* of its arguments.                                                       *)
(***************************************************************************)
EXTENDS Startup, TLAPS, WellFoundedInduction, FiniteSetTheorems

-----------------------------------------------------------------------------
(* The console.                                                            *)

\* Logging, flushing and drawing give a console, and the picture is plain if it
\* was before.
LEMMA ConsoleType ==
  ASSUME NEW c \in Consoles
  PROVE  /\ \A log_level \in NO_LOG .. INFO, level \in ERROR .. INFO :
              /\ Logged(c, log_level, level) \in Consoles
              /\ Logged(c, log_level, level).frame = c.frame
         /\ Flushed(c) \in Consoles /\ Flushed(c).frame = c.frame
         /\ Drawn(c) \in Consoles
<1>1. \A level \in ERROR .. INFO : Colour[level] \in Colours
  BY DEF Colour, Colours, ERROR, WARN, INFO
<1>2. Flushed(c) \in Consoles /\ Flushed(c).frame = c.frame
  BY DEF Flushed, Consoles, Colours
<1>3. Drawn(c) \in Consoles
  BY <1>2 DEF Drawn, Flushed, Consoles, Colours
<1> QED BY <1>1, <1>2, <1>3 DEF Logged, Consoles

\* A colour that is not plain waits to be reset, and the picture is not in it.
Good(c) ==
  /\ c \in Consoles
  /\ c.colour = "PLAIN" \/ c.reset_pending
  /\ c.frame.picture \in {"PLAIN", "NONE"}

\* Whatever is logged or drawn, the next newline that goes through stdio resets
\* the colour.
LEMMA GoodConsole ==
  ASSUME NEW c, Good(c), options.log_level \in NO_LOG .. INFO
  PROVE  /\ Good(Info(c)) /\ Good(Error(c)) /\ Good(Log(c, WARN))
         /\ Good(Flushed(c)) /\ Flushed(c).colour = "PLAIN"
         /\ Good(Drawn(c))
<1>1. \A level \in ERROR .. INFO : Good(Log(c, level))
  BY ConsoleType DEF Good, Log, Logged, Consoles
<1>2. Good(Flushed(c)) /\ Flushed(c).colour = "PLAIN"
  BY ConsoleType DEF Good, Flushed, Consoles
<1>3. Good(Drawn(c))
  BY ConsoleType DEF Good, Drawn, Flushed, Consoles
<1> QED BY <1>1, <1>2, <1>3 DEF Info, Error, ERROR, WARN, INFO

-----------------------------------------------------------------------------
(* The inductive invariant.                                                *)

\* What has been allocated, read and copied when main is at pc.
Progress ==
  /\ pc \in {"parse", "memory", "data", "rom", "size", "read", "load"} => image = NO_IMAGE
  /\ pc \in {"parse", "memory"} => heap = {}
  /\ pc = "data" => heap \subseteq {"memory"}
  /\ pc = "rom" => heap \subseteq {"memory", "ap_data"}
  /\ pc = "size" => heap \subseteq {"memory", "ap_data", "stream"}
  /\ pc \in {"parse", "memory", "data", "rom", "size"} => size = 0
  /\ pc \in {"memory", "data"} => valid
  /\ pc \in {"rom", "size", "read", "load"} => (valid <=> "ap_data" \in heap)
  /\ pc = "load" => "stream" \notin heap /\ (size # 0 => "contents" \in heap)
  /\ pc \in {"ready", "cycle", "render", "shutdown", "exited"} => "stream" \notin heap

\* The loop and the check before it find an emulator that is loaded, or not valid.
Loaded ==
  /\ {"memory", "ap_data"} \subseteq heap /\ "contents" \notin heap
  /\ image.first = options.origin
  /\ image.first <= image.last /\ image.last < MEMORY_SIZE

Ending ==
  /\ pc = "ready" /\ valid => Loaded
  /\ pc \in {"cycle", "render"} => valid /\ Loaded
  /\ pc \in {"ready", "shutdown", "exited"} /\ "contents" \in heap => image = NO_IMAGE /\ ~valid
  /\ pc \in {"parse", "shutdown", "exited"} => ~valid
  /\ pc \in {"shutdown", "exited"} => exit_code = 1

ConsoleOK ==
  /\ Good(console)
  /\ pc = "exited" => console.colour = "PLAIN"

Types ==
  /\ pc \in {"parse", "memory", "data", "rom", "size", "read", "load", "ready", "cycle",
             "render", "shutdown", "exited", "crashed"}
  /\ valid \in BOOLEAN /\ heap \subseteq Heap
  /\ size \in FileSizes \cup {0}
  /\ exit_code \in {0, 1}

\* The command line and what the parser has made of it.
Command ==
  /\ argv \in CommandLines
  /\ i \in 1 .. Len(argv) + 1 /\ parsing \in BOOLEAN
  /\ options \in Options(Len(argv))

StartupInv == Command /\ Types /\ Progress /\ Ending /\ ConsoleOK /\ CrashOnlyOutOfMemory

\* The options keep their type when a field is set to a value of its type.
LEMMA SetOption ==
  ASSUME NEW n, NEW o \in Options(n)
  PROVE  LET seen == [o EXCEPT !.empty = FALSE]
         IN  /\ seen \in Options(n)
             /\ \A level \in NO_LOG .. INFO : [seen EXCEPT !.log_level = level] \in Options(n)
             /\ \A w \in Word : [seen EXCEPT !.origin = w] \in Options(n)
             /\ \A j \in NULL .. n : [seen EXCEPT !.rom_file = j] \in Options(n)
             /\ \A m \in Messages : [seen EXCEPT !.error_msg = m] \in Options(n)
BY DEF Options

LEMMA InitInvariant == StartupInit => StartupInv
<1> SUFFICES ASSUME StartupInit PROVE StartupInv
  OBVIOUS
<1> USE DEF StartupInit
<1>1. argv \in CommandLines /\ Len(argv) \in Nat
  BY CommandLinesAreArguments DEF CommandInit
<1>2. Good(console)
  BY DEF FreshConsole, Good, Consoles, Colours, NO_FRAME
<1>3. options \in Options(Len(argv))
  <2>1. 0 \in Word /\ 0 \in NO_LOG .. INFO /\ 0 \in NULL .. Len(argv)
    BY <1>1 DEF Word, NO_LOG, INFO, NULL
  <2> QED BY <2>1 DEF CommandInit, NoOptions, Options, NO_LOG, NULL
<1>4. i \in 1 .. Len(argv) + 1 /\ parsing \in BOOLEAN
  BY <1>1 DEF CommandInit
<1>5. Types /\ Progress /\ Ending /\ CrashOnlyOutOfMemory
  BY DEF Types, Progress, Ending, CrashOnlyOutOfMemory
<1> QED BY <1>1, <1>2, <1>3, <1>4, <1>5 DEF StartupInv, Command, ConsoleOK

\* The origin is a word whatever number the user gives.
LEMMA OriginIsWord ==
  ASSUME NEW n \in Int
  PROVE  Origin(n) \in Word
BY DEF Origin, ToWord, Word

\* A turn of the parser's loop keeps the index in argv and the options in type.
LEMMA CommandStep ==
  ASSUME Command, CommandNext
  PROVE  Command'
<1>1. argv \in Seq(Argument) /\ Len(argv) \in Nat
  BY CommandLinesAreArguments DEF Command
<1>2. ASSUME InLoop, ~Dangling, argv[i].flag # "NONE"
      PROVE  i + 1 \in 1 .. Len(argv) /\ argv[i + 1] \in Argument
  <2>1. i \in 1 .. Len(argv)
    BY <1>1, <1>2 DEF InLoop, Command
  <2>2. argv[i].dash
    BY <1>1, <1>2, <2>1, CommandLinesAreArguments DEF Command
  <2>3. i + 1 \in 1 .. Len(argv)
    BY <1>1, <1>2, <2>1, <2>2 DEF Dangling
  <2> QED BY <1>1, <2>3
<1>3. options \in Options(Len(argv)) /\ i \in 1 .. Len(argv) + 1
  BY DEF Command
<1>10. Len(argv) \in Nat
  BY <1>1
<1>4. CASE FlagWithoutValue
  <2>1. options' \in Options(Len(argv))
    BY <1>3, <1>4, SetOption DEF FlagWithoutValue, Seen, Messages
  <2> QED BY <1>4, <2>1 DEF FlagWithoutValue, Command
<1>5. CASE ParseLogLevel
  <2>1. i + 1 \in 1 .. Len(argv) /\ argv[i + 1].level \in NO_LOG .. INFO
    BY <1>2, <1>5 DEF ParseLogLevel, Argument
  <2>2. options' \in Options(Len(argv))
    BY <1>3, <1>5, <2>1, SetOption DEF ParseLogLevel, Seen
  <2>3. i' \in 1 .. Len(argv) + 1
    <3>1. i' = i + 2
      BY <1>5 DEF ParseLogLevel
    <3> QED BY <1>10, <2>1, <1>3, <3>1
  <2> QED BY <1>5, <2>2, <2>3 DEF ParseLogLevel, Command
<1>6. CASE ParseOrigin
  <2>1. i + 1 \in 1 .. Len(argv) /\ argv[i + 1].number \in Int
    BY <1>2, <1>6 DEF ParseOrigin, Argument
  <2>2. Origin(argv[i + 1].number) \in Word
    BY <2>1, OriginIsWord
  <2>3. options' \in Options(Len(argv))
    BY <1>3, <1>6, <2>2, SetOption DEF ParseOrigin, Seen, Messages
  <2>4. i' \in 1 .. Len(argv) + 1
    <3>1. i' = i + 2
      BY <1>6 DEF ParseOrigin
    <3> QED BY <1>10, <2>1, <1>3, <3>1
  <2> QED BY <1>6, <2>3, <2>4 DEF ParseOrigin, Command
<1>7. CASE ParseRomFile
  <2>1. i \in 1 .. Len(argv)
    <3>1. i <= Len(argv)
      BY <1>7 DEF ParseRomFile, InLoop
    <3> QED BY <1>3, <1>10, <3>1
  <2>2. options' \in Options(Len(argv))
    <3>1. i \in NULL .. Len(argv)
      BY <2>1 DEF NULL
    <3> QED BY <1>3, <1>7, <3>1, SetOption DEF ParseRomFile, Seen, Messages
  <2>3. i' \in 1 .. Len(argv) + 1
    <3>1. i' = i \/ i' = i + 1
      BY <1>7 DEF ParseRomFile
    <3> QED BY <1>10, <2>1, <3>1
  <2> QED BY <1>7, <2>2, <2>3 DEF ParseRomFile, Command
<1>8. CASE EndOfArguments
  BY <1>8 DEF EndOfArguments, Command
<1> QED BY <1>4, <1>5, <1>6, <1>7, <1>8 DEF CommandNext

-----------------------------------------------------------------------------
(* Each action keeps the invariant.                                        *)

\* All of the invariant but the command line.
State == Types /\ Progress /\ Ending /\ ConsoleOK /\ CrashOnlyOutOfMemory

\* What is logged, flushed or drawn by a step leaves a good console.
LEMMA GoodSteps ==
  ASSUME StartupInv, NEW c, Good(c)
  PROVE  /\ Good(Info(c)) /\ Good(Error(c)) /\ Good(Log(c, WARN))
         /\ Good(Flushed(c)) /\ Flushed(c).colour = "PLAIN"
         /\ Good(Drawn(c))
<1>1. options.log_level \in NO_LOG .. INFO
  BY DEF StartupInv, Command, Options
<1> QED BY <1>1, GoodConsole

\* From the command line to the allocations.
LEMMA InitialisationStep ==
  ASSUME StartupInv, Parse \/ Usage \/ LoadPlatformInterface \/ MemoryInit \/ LoadComputerData
  PROVE  State'
<1> USE DEF StartupInv, State, Types, Progress, Ending, ConsoleOK, CrashOnlyOutOfMemory
<1>1. CASE Parse
  BY <1>1 DEF Parse, Loaded
<1>2. CASE Usage
  BY <1>2, GoodSteps DEF Usage, Exit
<1>3. CASE LoadPlatformInterface
  BY <1>3, GoodSteps DEF LoadPlatformInterface
<1>4. CASE MemoryInit
  BY <1>4 DEF MemoryInit, Heap
<1>5. CASE LoadComputerData
  BY <1>5, GoodSteps DEF LoadComputerData, Heap
<1> QED BY <1>1, <1>2, <1>3, <1>4, <1>5

\* Reading the file and copying it.
LEMMA RomFileStep ==
  ASSUME StartupInv, LoadRomFile
  PROVE  State'
<1> USE DEF StartupInv, State, Types, Progress, Ending, ConsoleOK, CrashOnlyOutOfMemory
<1>0. options.origin \in Nat /\ size \in Nat
  <2>1. options.origin \in Word
    BY DEF Command, Options
  <2>2. \A w \in Word : w \in Nat
    BY DEF Word
  <2>3. size \in Nat
    BY FileSizesAreNat
  <2> QED BY <2>1, <2>2, <2>3
<1>1. CASE NoRomFile
  BY <1>1, GoodSteps DEF NoRomFile
<1>2. CASE OpenFile
  BY <1>2 DEF OpenFile, Heap
<1>3. CASE EmptyFile
  BY <1>3 DEF EmptyFile
<1>4. CASE AllocateContents
  BY <1>4 DEF AllocateContents, Heap
<1>5. CASE ReadFile
  BY <1>5 DEF ReadFile
<1>6. CASE ShortRead
  BY <1>6 DEF ShortRead
<1>7. CASE ReadIntoNull
  BY <1>7 DEF ReadIntoNull
<1>8. CASE NothingRead
  BY <1>8, GoodSteps DEF NothingRead
<1>9. CASE TooLarge
  BY <1>9, GoodSteps DEF TooLarge
<1>10. CASE CopyImage
  <2>1. valid => Loaded'
    <3>1. heap' = heap \ {"contents"} /\ options' = options
      BY <1>10 DEF CopyImage, commandVars
    <3>2. image' = [first |-> options.origin, last |-> options.origin + size - 1]
      BY <1>10 DEF CopyImage
    <3>3. "memory" \in heap /\ options.origin + size <= MEMORY_SIZE /\ size # 0
      BY <1>10 DEF CopyImage, CopyDefined
    <3>4. image'.first <= image'.last /\ image'.last < MEMORY_SIZE
      BY <1>0, <3>2, <3>3 DEF MEMORY_SIZE
    <3>5. valid => "ap_data" \in heap
      BY <1>10 DEF CopyImage
    <3> QED BY <3>1, <3>2, <3>3, <3>4, <3>5 DEF Loaded
  <2> QED BY <1>10, <2>1, GoodSteps DEF CopyImage
<1>11. CASE CopyOutside
  <2>1. ~({"memory", "contents"} \subseteq heap)
    BY <1>0, <1>11 DEF CopyOutside, CopyDefined, Fits, KB_64, MEMORY_SIZE
  <2> QED BY <1>11, <2>1, GoodSteps DEF CopyOutside
<1> QED BY <1>1, <1>2, <1>3, <1>4, <1>5, <1>6, <1>7, <1>8, <1>9, <1>10, <1>11 DEF LoadRomFile

\* The run and its end.
LEMMA RunStep ==
  ASSUME StartupInv, NotValid \/ StartEmulation \/ Cycle \/ Render \/ Trap \/ Shutdown
  PROVE  State'
<1> USE DEF StartupInv, State, Types, Progress, Ending, ConsoleOK, CrashOnlyOutOfMemory, Loaded
<1>1. CASE NotValid
  BY <1>1, GoodSteps DEF NotValid
<1>2. CASE StartEmulation
  BY <1>2, GoodSteps DEF StartEmulation, commandVars
<1>3. CASE Cycle
  BY <1>3, GoodSteps DEF Cycle, commandVars
<1>4. CASE Render
  BY <1>4, GoodSteps DEF Render, commandVars
<1>5. CASE Trap
  BY <1>5, GoodSteps DEF Trap
<1>6. CASE Shutdown
  BY <1>6, GoodSteps DEF Shutdown, Exit
<1> QED BY <1>1, <1>2, <1>3, <1>4, <1>5, <1>6

LEMMA NextInvariant == StartupInv /\ [StartupNext]_startupVars => StartupInv'
<1> SUFFICES ASSUME StartupInv, [StartupNext]_startupVars PROVE StartupInv'
  OBVIOUS
<1>1. CASE UNCHANGED startupVars
  BY <1>1 DEF startupVars, commandVars, StartupInv, Command, Types, Progress, Ending, Loaded,
              ConsoleOK, CrashOnlyOutOfMemory
<1>2. CASE StartupNext
  <2>1. Command'
    <3>1. CASE Parse
      BY <3>1, CommandStep DEF Parse, StartupInv
    <3>2. CASE UNCHANGED commandVars
      BY <3>2 DEF StartupInv, Command, commandVars
    <3> QED
      BY <1>2, <3>1, <3>2 DEF StartupNext, Usage, LoadPlatformInterface, MemoryInit,
        LoadComputerData, LoadRomFile, NoRomFile, OpenFile, EmptyFile, AllocateContents,
        ReadFile, ShortRead, ReadIntoNull, NothingRead, TooLarge, CopyImage, CopyOutside,
        NotValid, StartEmulation, Cycle, Render, Trap, Shutdown
  <2>2. State'
    BY <1>2, InitialisationStep, RomFileStep, RunStep DEF StartupNext
  <2> QED BY <2>1, <2>2 DEF StartupInv, State
<1> QED BY <1>1, <1>2

-----------------------------------------------------------------------------
(* The theorems.                                                           *)

\* The invariant holds for all command lines, file sizes and failures.
THEOREM StartupInvariance == StartupSpec => []StartupInv
BY InitInvariant, NextInvariant, PTL DEF StartupSpec

\* Every variable has its type, the origin a word whatever number is given.
THEOREM StartupTypeCorrect == StartupSpec => []StartupTypeOK
<1>1. StartupInv => StartupTypeOK
  BY DEF StartupInv, Command, Types, ConsoleOK, Good, StartupTypeOK
<1> QED BY <1>1, StartupInvariance, PTL

\* The loop runs nothing but a loaded image.
THEOREM OnlyLoadedRuns == StartupSpec => []RunsOnlyLoaded
<1>1. StartupInv => RunsOnlyLoaded
  BY DEF StartupInv, Ending, Loaded, RunsOnlyLoaded
<1> QED BY <1>1, StartupInvariance, PTL

\* Only a malloc without memory can kill the program.
THEOREM CrashNeedsNoMemory == StartupSpec => []CrashOnlyOutOfMemory
<1>1. StartupInv => CrashOnlyOutOfMemory
  BY DEF StartupInv
<1> QED BY <1>1, StartupInvariance, PTL

\* The ROM file is closed, and its contents are kept only where no image was copied and
\* the loop is never entered.
THEOREM FilesReleased == StartupSpec => []FileReleased
<1>1. StartupInv => FileReleased
  BY DEF StartupInv, Progress, Ending, Loaded, FileReleased
<1> QED BY <1>1, StartupInvariance, PTL

\* The exit code is 1, and emulator_shutdown frees nothing.
THEOREM AlwaysFailure == StartupSpec => []EveryEndIsFailure
<1>1. StartupInv => EveryEndIsFailure
  BY DEF StartupInv, Ending, EveryEndIsFailure
<1> QED BY <1>1, StartupInvariance, PTL

\* The terminal gets its colour back, and the rows of a frame have no other.
THEOREM ColoursAreReset == StartupSpec => []ColoursReset
<1>1. StartupInv => ColoursReset
  BY DEF StartupInv, ConsoleOK, Good, ColoursReset
<1> QED BY <1>1, StartupInvariance, PTL

-----------------------------------------------------------------------------
(* Liveness, as far as it can be said without ENABLED and without induction  *)
(* over the number of arguments.                                           *)

\* The places of main after the command line is parsed.
Parsed     == pc = "parse" /\ ~parsing
AtMemory   == pc = "memory"
AtData     == pc = "data"
AtRom      == pc = "rom"
AtSize     == pc = "size"
AtRead     == pc = "read"
AtLoad     == pc = "load"
AtReady    == pc = "ready"
AtRender   == pc = "render"
AtShutdown == pc = "shutdown"
Ended      == pc \in {"cycle", "exited", "crashed"}

\* Each step of the initialisation leads on, whichever call fails.
LEMMA StartupProgress ==
  StartupNext => /\ Parsed => AtMemory' \/ Ended'
                 /\ AtMemory => AtData'
                 /\ AtData => AtRom'
                 /\ AtRom => AtSize' \/ AtLoad' \/ AtReady'
                 /\ AtSize => AtRead' \/ AtLoad'
                 /\ AtRead => AtLoad' \/ Ended'
                 /\ AtLoad => AtReady' \/ Ended'
                 /\ AtReady => AtShutdown' \/ Ended'
                 /\ AtRender => Ended'
                 /\ AtShutdown => Ended'
<1> USE DEF Parsed, AtMemory, AtData, AtRom, AtSize, AtRead, AtLoad, AtReady, AtRender,
            AtShutdown, Ended
<1> DEFINE Step == /\ Parsed => AtMemory' \/ Ended'
                   /\ AtMemory => AtData'
                   /\ AtData => AtRom'
                   /\ AtRom => AtSize' \/ AtLoad' \/ AtReady'
                   /\ AtSize => AtRead' \/ AtLoad'
                   /\ AtRead => AtLoad' \/ Ended'
                   /\ AtLoad => AtReady' \/ Ended'
                   /\ AtReady => AtShutdown' \/ Ended'
                   /\ AtRender => Ended'
                   /\ AtShutdown => Ended'
<1>1. Parse => Step
  BY DEF Parse, CommandNext, FlagWithoutValue, ParseLogLevel, ParseOrigin, ParseRomFile,
         EndOfArguments, InLoop
<1>2. Usage \/ LoadPlatformInterface \/ MemoryInit \/ LoadComputerData => Step
  BY DEF Usage, Exit, LoadPlatformInterface, MemoryInit, LoadComputerData
<1>3. NoRomFile \/ OpenFile \/ EmptyFile \/ AllocateContents \/ ReadFile \/ ShortRead
        \/ ReadIntoNull => Step
  BY DEF NoRomFile, OpenFile, EmptyFile, AllocateContents, ReadFile, ShortRead, ReadIntoNull
<1>4. NothingRead \/ TooLarge \/ CopyImage \/ CopyOutside => Step
  BY DEF NothingRead, TooLarge, CopyImage, CopyOutside
<1>5. NotValid \/ StartEmulation \/ Cycle \/ Render \/ Trap \/ Shutdown => Step
  BY DEF NotValid, StartEmulation, Cycle, Render, Trap, Shutdown, Exit
<1> QED BY <1>1, <1>2, <1>3, <1>4, <1>5 DEF StartupNext, LoadRomFile

\* Once the command line is parsed, main gets to the loop or to its end, whichever
\* call fails, as long as it is never stuck, which the run startup checks.
THEOREM EndsOnceParsed ==
  StartupSpec /\ []StartupNeverStuck /\ <>(~parsing) => StartupEnds
<1>1. StartupInv =>
        \/ parsing \/ Parsed \/ AtMemory \/ AtData \/ AtRom \/ AtSize \/ AtRead \/ AtLoad
        \/ AtReady \/ AtRender \/ AtShutdown \/ Ended
  BY DEF StartupInv, Types, Parsed, AtMemory, AtData, AtRom, AtSize, AtRead, AtLoad, AtReady,
         AtRender, AtShutdown, Ended
<1>2. UNCHANGED startupVars =>
        /\ Parsed => Parsed'
        /\ AtMemory => AtMemory'
        /\ AtData => AtData'
        /\ AtRom => AtRom'
        /\ AtSize => AtSize'
        /\ AtRead => AtRead'
        /\ AtLoad => AtLoad'
        /\ AtReady => AtReady'
        /\ AtRender => AtRender'
        /\ AtShutdown => AtShutdown'
  BY DEF startupVars, commandVars, Parsed, AtMemory, AtData, AtRom, AtSize, AtRead, AtLoad,
         AtReady, AtRender, AtShutdown
<1>3. [StartupNext]_startupVars => StartupNext \/ UNCHANGED startupVars
  OBVIOUS
<1>4. <<StartupNext>>_startupVars => StartupNext
  OBVIOUS
<1>5. StartupNeverStuck /\ ~Ended => ENABLED <<StartupNext>>_startupVars
  BY DEF StartupNeverStuck, Ended
<1>6. /\ Parsed => ~Ended
      /\ AtMemory => ~Ended
      /\ AtData => ~Ended
      /\ AtRom => ~Ended
      /\ AtSize => ~Ended
      /\ AtRead => ~Ended
      /\ AtLoad => ~Ended
      /\ AtReady => ~Ended
      /\ AtRender => ~Ended
      /\ AtShutdown => ~Ended
  BY DEF Parsed, AtMemory, AtData, AtRom, AtSize, AtRead, AtLoad, AtReady, AtRender,
         AtShutdown, Ended
<1>7. Ended => pc \in {"cycle", "exited", "crashed"}
  BY DEF Ended
<1> QED BY <1>1, <1>2, <1>3, <1>4, <1>5, <1>6, <1>7, StartupProgress, StartupInvariance, PTL
        DEF StartupSpec, StartupEnds

\* There are n turns left at most, and fewer.
TurnsLeft(n)  == pc = "parse" /\ parsing /\ Len(argv) + 1 - i = n
FewerLeft(n) == ~parsing \/ Len(argv) + 1 - i < n

\* Each turn of the loop over the arguments leaves fewer for the next, so that the
\* arguments come to an end, however many there are and whatever they are: with an
\* induction over n, which says that the loop returns, and EndsOnceParsed this
\* is StartupEnds.
THEOREM ParsingAdvances ==
  ASSUME NEW n \in Nat
  PROVE  StartupSpec /\ []StartupNeverStuck => (TurnsLeft(n) ~> FewerLeft(n))
<1>1. ASSUME StartupInv, StartupNext, TurnsLeft(n) PROVE FewerLeft(n)'
  <2>1. i \in Int /\ Len(argv) \in Int
    BY <1>1, CommandLinesAreArguments DEF StartupInv, Command
  <2>2. CommandNext
    BY <1>1 DEF TurnsLeft, StartupNext, Parse, Usage, LoadPlatformInterface, MemoryInit,
       LoadComputerData, LoadRomFile, NoRomFile, OpenFile, EmptyFile, AllocateContents,
       ReadFile, ShortRead, ReadIntoNull, NothingRead, TooLarge, CopyImage, CopyOutside,
       NotValid, StartEmulation, Cycle, Render, Trap, Shutdown
  <2>3. parsing' = FALSE \/ (argv' = argv /\ i' \in {i + 1, i + 2})
    BY <2>2 DEF CommandNext, FlagWithoutValue, ParseLogLevel, ParseOrigin, ParseRomFile,
       EndOfArguments
  <2> QED BY <1>1, <2>1, <2>3 DEF TurnsLeft, FewerLeft
<1>2. TurnsLeft(n) /\ UNCHANGED startupVars => TurnsLeft(n)'
  BY DEF startupVars, commandVars, TurnsLeft
<1>3. StartupInv /\ TurnsLeft(n) /\ [StartupNext]_startupVars => TurnsLeft(n)' \/ FewerLeft(n)'
  BY <1>1, <1>2
<1>4. StartupInv /\ TurnsLeft(n) /\ <<StartupNext>>_startupVars => FewerLeft(n)'
  BY <1>1
<1>5. StartupNeverStuck /\ TurnsLeft(n) => ENABLED <<StartupNext>>_startupVars
  BY DEF StartupNeverStuck, TurnsLeft
<1> QED BY <1>3, <1>4, <1>5, StartupInvariance, PTL DEF StartupSpec

-----------------------------------------------------------------------------
(* Which arguments are flags.                                              *)

\* A set of naturals that is not empty has a smallest element.
LEMMA Smallest ==
  ASSUME NEW T, T \subseteq Nat, T # {}
  PROVE  \E n \in T : \A m \in T : n <= m
<1>1. PICK n \in T : \A m \in T : ~(<<m, n>> \in OpToRel(<, Nat))
  BY NatLessThanWellFounded, WFMin
<1>2. ASSUME NEW m \in T PROVE n <= m
  <2>1. m \in Nat /\ n \in Nat
    OBVIOUS
  <2>2. m < n => <<m, n>> \in OpToRel(<, Nat)
    BY <2>1 DEF OpToRel
  <2>3. ~(m < n)
    BY <1>1, <2>2, Zenon
  <2> QED BY <2>1, <2>3
<1> QED BY <1>2

\* Whether argument j is a flag, given which of the others are.
Rule(f, j) == argv[j].flag # "NONE" /\ (j = 1 \/ ~f[j - 1])

\* The recursion has a solution for arguments of any number.
LEMMA RuleHasSolution ==
  ASSUME NEW k \in Nat
  PROVE  \E f \in [1 .. k -> BOOLEAN] : \A j \in 1 .. k : f[j] <=> Rule(f, j)
<1> DEFINE Solves(f, n) == f \in [1 .. n -> BOOLEAN] /\ \A j \in 1 .. n : f[j] <=> Rule(f, j)
           T == {n \in Nat : ~ \E f : Solves(f, n)}
<1>1. ASSUME T # {} PROVE FALSE
  <2>1. PICK n \in T : \A m \in T : n <= m
    <3>1. T \subseteq Nat
      OBVIOUS
    <3> QED BY <1>1, <3>1, Smallest, Zenon
  <2>2. n \in Nat /\ ~ \E f : Solves(f, n)
    BY <2>1
  <2>3. n # 0
    <3> SUFFICES ASSUME n = 0 PROVE Solves([j \in 1 .. 0 |-> TRUE], 0)
      BY <2>2
    <3> QED OBVIOUS
  <2>4. n - 1 \in Nat /\ n - 1 \notin T
    <3>1. n - 1 \in Nat /\ ~(n <= n - 1)
      BY <2>2, <2>3
    <3> HIDE DEF T
    <3> QED BY <2>1, <3>1
  <2>5. PICK g : Solves(g, n - 1)
    BY <2>4
  <2> DEFINE f == [j \in 1 .. n |-> IF j < n THEN g[j] ELSE Rule(g, n)]
  <2>6. f \in [1 .. n -> BOOLEAN]
    <3>1. Rule(g, n) \in BOOLEAN
      BY DEF Rule
    <3>2. \A j \in 1 .. n : j < n => j \in 1 .. n - 1
      BY <2>2
    <3> HIDE DEF Solves
    <3>3. \A j \in 1 .. n - 1 : g[j] \in BOOLEAN
      BY <2>5 DEF Solves
    <3>4. \A j \in 1 .. n : (IF j < n THEN g[j] ELSE Rule(g, n)) \in BOOLEAN
      BY <3>1, <3>2, <3>3
    <3> QED BY <3>4
  <2>7. ASSUME NEW j \in 1 .. n PROVE f[j] <=> Rule(f, j)
    <3>1. j = 1 \/ f[j - 1] = g[j - 1]
      BY <2>2, <2>7
    <3>2. Rule(f, j) <=> Rule(g, j)
      BY <3>1 DEF Rule
    <3>3. f[j] <=> Rule(g, j)
      BY <2>2, <2>5, <2>7
    <3> QED BY <3>2, <3>3
  <2> QED BY <2>2, <2>6, <2>7
<1> QED BY <1>1

\* IsFlag is defined by its recursion.
LEMMA FlagRule ==
  ASSUME Len(argv) \in Nat, DOMAIN argv = 1 .. Len(argv)
  PROVE  \A j \in DOMAIN argv : IsFlag[j] <=> Rule(IsFlag, j)
<1>1. PICK f \in [DOMAIN argv -> BOOLEAN] : \A j \in DOMAIN argv : f[j] <=> Rule(f, j)
  BY RuleHasSolution
<1>2. \A g, j : Rule(g, j) \in BOOLEAN
  BY DEF Rule
<1>3. f = [j \in DOMAIN argv |-> Rule(f, j)]
  BY <1>1, <1>2
<1>4. IsFlag = CHOOSE g : g = [j \in DOMAIN argv |-> Rule(g, j)]
  BY Zenon DEF IsFlag, Rule
<1>5. IsFlag = [j \in DOMAIN argv |-> Rule(IsFlag, j)]
  BY <1>3, <1>4, Zenon
<1> QED BY <1>2, <1>5
-----------------------------------------------------------------------------
(* Flags, values and files up to a place.                                  *)

\* A command line is a sequence of arguments.
LEMMA Line ==
  ASSUME argv \in CommandLines
  PROVE  /\ Len(argv) \in Nat /\ DOMAIN argv = 1 .. Len(argv)
         /\ \A j \in DOMAIN argv : argv[j] \in Argument /\ (argv[j].flag # "NONE" => argv[j].dash)
BY CommandLinesAreArguments

\* The flags and files before place n that Meaning looks at.
Levels(n)  == {j \in Flags : j < n /\ argv[j].flag = "-L" /\ argv[j + 1].level # NO_LOG}
Origins(n) == {j \in Flags : j < n /\ argv[j].flag = "-O"}
Roms(n)    == {j \in Files : j < n}

\* Place n is not the value of a flag.
Boundary(n) == n = 1 \/ ~IsFlag[n - 1]

\* What the argument at a boundary is.
LEMMA AtBoundary ==
  ASSUME argv \in CommandLines, NEW n \in 1 .. Len(argv), Boundary(n)
  PROVE  /\ argv[n].flag # "NONE" => n \in Flags
         /\ argv[n].flag = "NONE" => n \in Files
<1>1. n \in DOMAIN argv /\ DOMAIN argv = 1 .. Len(argv) /\ Len(argv) \in Nat
  BY Line
<1>2. IsFlag[n] <=> argv[n].flag # "NONE"
  BY <1>1, FlagRule DEF Boundary, Rule
<1>3. n \notin Values
  BY <1>1 DEF Boundary, Values, Flags
<1> QED BY <1>1, <1>2, <1>3 DEF Flags, Files

\* A flag and its value are read, and the next argument is at a boundary.
LEMMA AfterFlag ==
  ASSUME argv \in CommandLines, NEW n \in Flags, n < Len(argv)
  PROVE  /\ Boundary(n + 2)
         /\ Levels(n + 2) = IF argv[n].flag = "-L" /\ argv[n + 1].level # NO_LOG
                            THEN Levels(n) \cup {n} ELSE Levels(n)
         /\ Origins(n + 2) = IF argv[n].flag = "-O" THEN Origins(n) \cup {n} ELSE Origins(n)
         /\ Roms(n + 2) = Roms(n)
<1>1. /\ Len(argv) \in Nat /\ DOMAIN argv = 1 .. Len(argv)
      /\ n \in 1 .. Len(argv) /\ n + 1 \in DOMAIN argv /\ n \in Int
  BY Line DEF Flags
<1>2. n + 1 \notin Flags /\ ~IsFlag[n + 1]
  BY <1>1, FlagRule DEF Rule, Flags
<1>3. n + 1 \in Values /\ n \notin Files /\ n + 1 \notin Files
  BY DEF Values, Files
<1>4. \A j \in DOMAIN argv : j < n + 2 <=> j < n \/ j = n \/ j = n + 1
  BY <1>1
<1>5. Flags \subseteq DOMAIN argv /\ Files \subseteq DOMAIN argv
  BY DEF Flags, Files
<1>6. Boundary(n + 2)
  BY <1>1, <1>2 DEF Boundary
<1>7. /\ Levels(n + 2) = IF argv[n].flag = "-L" /\ argv[n + 1].level # NO_LOG
                         THEN Levels(n) \cup {n} ELSE Levels(n)
      /\ Origins(n + 2) = IF argv[n].flag = "-O" THEN Origins(n) \cup {n} ELSE Origins(n)
  BY <1>2, <1>4, <1>5 DEF Levels, Origins
<1>8. Roms(n + 2) = Roms(n)
  BY <1>3, <1>4, <1>5 DEF Roms
<1> QED BY <1>6, <1>7, <1>8

\* A file is read, and the next argument is at a boundary.
LEMMA AfterFile ==
  ASSUME argv \in CommandLines, NEW n \in Files
  PROVE  /\ Boundary(n + 1)
         /\ Levels(n + 1) = Levels(n)
         /\ Origins(n + 1) = Origins(n)
         /\ Roms(n + 1) = Roms(n) \cup {n}
<1>1. Len(argv) \in Nat /\ DOMAIN argv = 1 .. Len(argv) /\ n \in DOMAIN argv /\ n \in Int
  BY Line DEF Files
<1>2. n \notin Flags /\ ~IsFlag[n]
  BY <1>1 DEF Files, Flags
<1>3. \A j \in DOMAIN argv : j < n + 1 <=> j < n \/ j = n
  BY <1>1
<1>4. Flags \subseteq DOMAIN argv /\ Files \subseteq DOMAIN argv
  BY DEF Flags, Files
<1>5. Boundary(n + 1)
  BY <1>1, <1>2 DEF Boundary
<1> QED BY <1>2, <1>3, <1>4, <1>5 DEF Levels, Origins, Roms

\* The last of a set of places is the one above all others.
LEMMA MaxIsLast ==
  ASSUME NEW T, T \subseteq Nat, NEW n \in Nat, \A j \in T : j < n
  PROVE  Max(T \cup {n}) = n
<1>1. \A x \in T \cup {n} : (\A y \in T \cup {n} : x >= y) <=> x = n
  OBVIOUS
<1> QED BY <1>1 DEF Max
LEMMA LastRead ==
  ASSUME argv \in CommandLines, NEW n \in Nat
  PROVE  /\ Max(Levels(n) \cup {n}) = n
         /\ Max(Origins(n) \cup {n}) = n
         /\ Max(Roms(n) \cup {n}) = n
<1>1. Flags \subseteq Nat /\ Files \subseteq Nat
  BY Line DEF Flags, Files
<1>2. /\ Levels(n) \subseteq Nat /\ \A j \in Levels(n) : j < n
      /\ Origins(n) \subseteq Nat /\ \A j \in Origins(n) : j < n
      /\ Roms(n) \subseteq Nat /\ \A j \in Roms(n) : j < n
  BY <1>1 DEF Levels, Origins, Roms
<1> QED BY <1>2, MaxIsLast
-----------------------------------------------------------------------------
(* Well-formed command lines.                                              *)

\* The three things that make a command line one that is refused.
LEMMA Malformed ==
  ASSUME argv \in CommandLines
  PROVE  /\ Boundary(Len(argv)) /\ argv # <<>> /\ argv[Len(argv)].dash => ~WellFormed
         /\ \A n \in Flags : argv[n].flag = "-O" /\ ~argv[n + 1].hex => ~WellFormed
         /\ \A m, n \in Files : m # n => ~WellFormed
<1>1. Len(argv) \in Nat /\ DOMAIN argv = 1 .. Len(argv)
  BY Line
<1>2. ASSUME Boundary(Len(argv)), argv # <<>>, argv[Len(argv)].dash, WellFormed PROVE FALSE
  <2>1. Len(argv) \in 1 .. Len(argv)
    <3>1. Len(argv) # 0
      BY <1>2, CommandLinesAreArguments
    <3> QED BY <1>1, <3>1
  <2>2. CASE Len(argv) \in Flags
    <3>1. Len(argv) + 1 \in Values
      BY <2>2 DEF Values
    <3> QED BY <1>1, <1>2, <3>1 DEF WellFormed
  <2>3. CASE Len(argv) \in Files
    BY <1>2, <2>3 DEF WellFormed
  <2> QED BY <1>2, <2>1, <2>2, <2>3, AtBoundary
<1>3. ASSUME NEW m \in Files, NEW n \in Files, m # n, WellFormed PROVE FALSE
  <2>1. IsFiniteSet(Files)
    <3>1. IsFiniteSet(1 .. Len(argv)) /\ Files \in SUBSET (1 .. Len(argv))
      BY <1>1, FS_Interval DEF Files
    <3> QED BY <3>1, FS_Subset
  <2>2. Cardinality(Files) \in Nat /\ Cardinality(Files) <= 1
    BY <1>3, <2>1, FS_CardinalityType DEF WellFormed
  <2>3. Cardinality(Files) = 0 \/ Cardinality(Files) = 1
    BY <2>2
  <2>4. Files = {} \/ \E x : Files = {x}
    BY <2>1, <2>3, FS_EmptySet, FS_Singleton
  <2> QED BY <1>3, <2>4
<1>4. \A n \in Flags : argv[n].flag = "-O" /\ ~argv[n + 1].hex => ~WellFormed
  BY DEF WellFormed
<1> QED BY <1>2, <1>3, <1>4

\* The options are what the arguments before place n mean, and these are well formed.
LevelRead(n)  == IF Levels(n) = {} THEN NO_LOG ELSE argv[Max(Levels(n)) + 1].level
OriginRead(n) == IF Origins(n) = {} THEN 0 ELSE argv[Max(Origins(n)) + 1].number % \h10000
FileRead(n)   == IF Roms(n) = {} THEN NULL ELSE Max(Roms(n))

ReadSoFar(n, o) ==
  /\ o = [log_level |-> LevelRead(n), origin |-> OriginRead(n), rom_file |-> FileRead(n),
          error_msg |-> NO_MESSAGE, empty |-> n = 1]
  /\ \A j, k \in Roms(n) : j = k
  /\ \A j \in Roms(n) : j = Len(argv) => ~argv[j].dash
  /\ \A j \in Origins(n) : argv[j + 1].hex

\* At the end, this is the meaning of a well-formed command line.
LEMMA ReadToTheEnd ==
  ASSUME argv \in CommandLines, NEW o, Boundary(Len(argv) + 1), ReadSoFar(Len(argv) + 1, o)
  PROVE  WellFormed /\ o = Meaning
<1> DEFINE n == Len(argv) + 1
<1>1. Len(argv) \in Nat /\ DOMAIN argv = 1 .. Len(argv)
  BY Line
<1>2. \A j \in DOMAIN argv : j < n
  BY <1>1
<1>3. Flags \subseteq DOMAIN argv /\ Files \subseteq DOMAIN argv
  BY DEF Flags, Files
<1>4. /\ Levels(n) = {j \in Flags : argv[j].flag = "-L" /\ argv[j + 1].level # NO_LOG}
      /\ Origins(n) = {j \in Flags : argv[j].flag = "-O"}
      /\ Roms(n) = Files
  BY <1>2, <1>3 DEF Levels, Origins, Roms
<1>5. Values \subseteq DOMAIN argv
  <2>1. ASSUME NEW j \in Flags PROVE j + 1 \in DOMAIN argv
    <3>1. j # Len(argv)
      BY <1>1 DEF Boundary, Flags
    <3> QED BY <1>1, <1>3, <3>1
  <2> QED BY <2>1 DEF Values
<1>6. Cardinality(Files) <= 1
  <2>1. \A j, k \in Files : j = k
    BY <1>4 DEF ReadSoFar
  <2>2. CASE Files = {}
    <3>1. Cardinality(Files) = 0
      BY <2>2, FS_EmptySet
    <3> QED BY <3>1
  <2>3. ASSUME NEW x \in Files PROVE Cardinality(Files) <= 1
    <3>1. Files = {x}
      BY <2>1, <2>3
    <3>2. Cardinality({x}) = 1
      BY FS_Singleton
    <3>3. Cardinality(Files) = 1
      BY <3>1, <3>2, Zenon
    <3> QED BY <3>3
  <2> QED BY <2>2, <2>3
<1>7. WellFormed
  BY <1>4, <1>5, <1>6 DEF WellFormed, ReadSoFar
<1>8. n = 1 <=> argv = <<>>
  BY <1>1, CommandLinesAreArguments
<1> HIDE DEF n
<1>9. o = Meaning
  <2>1. o = [log_level |-> LevelRead(n), origin |-> OriginRead(n),
             rom_file |-> FileRead(n), error_msg |-> NO_MESSAGE, empty |-> n = 1]
    BY DEF ReadSoFar, n
  <2>2. Meaning = [log_level |-> LevelRead(n), origin |-> OriginRead(n),
                   rom_file |-> FileRead(n), error_msg |-> NO_MESSAGE,
                   empty |-> argv = <<>>]
    <3> DEFINE L == {j \in Flags : argv[j].flag = "-L" /\ argv[j + 1].level # NO_LOG}
               O == {j \in Flags : argv[j].flag = "-O"}
    <3>1. Meaning = [log_level |-> IF L = {} THEN NO_LOG ELSE argv[Max(L) + 1].level,
                     origin    |-> IF O = {} THEN 0
                                   ELSE argv[Max(O) + 1].number % \h10000,
                     rom_file  |-> IF Files = {} THEN NULL ELSE Max(Files),
                     error_msg |-> NO_MESSAGE,
                     empty     |-> argv = <<>>]
      BY DEF Meaning, LastOf
    <3>2. Levels(n) = L /\ Origins(n) = O /\ Roms(n) = Files
      BY <1>4
    <3> DEFINE l == IF L = {} THEN NO_LOG ELSE argv[Max(L) + 1].level
               w == IF O = {} THEN 0 ELSE argv[Max(O) + 1].number % \h10000
               f == IF Files = {} THEN NULL ELSE Max(Files)
    <3> HIDE DEF L, O
    <3>3. LevelRead(n) = l /\ OriginRead(n) = w /\ FileRead(n) = f
      BY <3>2 DEF LevelRead, OriginRead, FileRead
    <3>4. Meaning = [log_level |-> l, origin |-> w, rom_file |-> f,
                     error_msg |-> NO_MESSAGE, empty |-> argv = <<>>]
      BY <3>1
    <3> HIDE DEF l, w, f
    <3> QED BY <3>3, <3>4, Zenon
  <2>3. (n = 1) = (argv = <<>>)
    BY <1>8
  <2> QED BY <2>1, <2>2, <2>3, Zenon
<1> QED BY <1>7, <1>9
-----------------------------------------------------------------------------
(* The turns of the loop.                                                  *)

\* What parse_args has made of the command line when it is at place n: without an
\* error it has read all that is before n, to the end once it has returned; with
\* an error the command line is not well formed.
Reading(n, o, in_loop) ==
  /\ o.error_msg # NO_MESSAGE => ~WellFormed
  /\ o.error_msg = NO_MESSAGE => /\ Boundary(n) /\ ReadSoFar(n, o)
                                 /\ in_loop \/ n = Len(argv) + 1

\* Nothing is before the first argument.
LEMMA NothingReadYet ==
  ASSUME argv \in CommandLines, i = 1, options = NoOptions
  PROVE  Reading(i, options, TRUE)
<1>1. Levels(1) = {} /\ Origins(1) = {} /\ Roms(1) = {}
  <2>1. \A j \in DOMAIN argv : ~(j < 1)
    BY Line
  <2> QED BY <2>1 DEF Levels, Origins, Roms, Flags, Files
<1>2. options = [log_level |-> LevelRead(1), origin |-> OriginRead(1), rom_file |-> FileRead(1),
                 error_msg |-> NO_MESSAGE, empty |-> TRUE]
  BY <1>1 DEF LevelRead, OriginRead, FileRead, NoOptions
<1>3. ReadSoFar(1, options)
  BY <1>1, <1>2 DEF ReadSoFar
<1>4. options.error_msg = NO_MESSAGE
  BY DEF NoOptions
<1> QED BY <1>3, <1>4 DEF Reading, Boundary

\* A '-' at the end of the command line, with or without a flag's letter.
LEMMA ReadFlagWithoutValue ==
  ASSUME Command, Reading(i, options, parsing), FlagWithoutValue
  PROVE  Reading(i', options', parsing')
<1>1. options'.error_msg # NO_MESSAGE
  BY DEF FlagWithoutValue, Command, Options, Seen, NO_MESSAGE
<1>2. ~WellFormed
  <2>1. argv \in CommandLines /\ i = Len(argv) /\ argv[i].dash /\ i <= Len(argv) /\ i \in Nat
    BY Line DEF Command, FlagWithoutValue, InLoop, Dangling
  <2>2. argv # <<>>
    BY <2>1 DEF Command
  <2> QED BY <2>1, <2>2, Malformed DEF Reading
<1> QED BY <1>1, <1>2 DEF Reading

\* The argument that the loop takes with the next one is a flag.
LEMMA FlagWithValue ==
  ASSUME Command, InLoop, ~Dangling, argv[i].flag # "NONE", Boundary(i)
  PROVE  i \in Flags /\ i < Len(argv) /\ i \in Nat
<1>1. argv \in CommandLines /\ i \in 1 .. Len(argv) /\ Len(argv) \in Nat
  BY Line DEF Command, InLoop
<1>2. argv[i].dash
  BY <1>1, Line
<1>3. i # Len(argv)
  BY <1>2 DEF Dangling
<1> QED BY <1>1, <1>3, AtBoundary

\* What it takes to have read to a place after the first.
LEMMA ReadOn ==
  ASSUME NEW n \in Nat, n > 1, NEW o,
         o = [log_level |-> LevelRead(n), origin |-> OriginRead(n), rom_file |-> FileRead(n),
              error_msg |-> NO_MESSAGE, empty |-> FALSE],
         \A j, k \in Roms(n) : j = k,
         \A j \in Roms(n) : j = Len(argv) => ~argv[j].dash,
         \A j \in Origins(n) : argv[j + 1].hex
  PROVE  ReadSoFar(n, o)
<1>1. (n = 1) = FALSE
  OBVIOUS
<1>2. o = [log_level |-> LevelRead(n), origin |-> OriginRead(n), rom_file |-> FileRead(n),
           error_msg |-> NO_MESSAGE, empty |-> n = 1]
  BY <1>1, Zenon
<1> QED BY <1>2, Zenon DEF ReadSoFar

\* -L
LEMMA ReadLogLevel ==
  ASSUME Command, Reading(i, options, parsing), ParseLogLevel
  PROVE  Reading(i', options', parsing')
<1> USE DEF ParseLogLevel
<1>1. options'.error_msg = options.error_msg
  BY DEF Command, Options, Seen
<1>2. CASE options.error_msg # NO_MESSAGE
  BY <1>1, <1>2 DEF Reading
<1>3. CASE options.error_msg = NO_MESSAGE
  <2>1. Boundary(i) /\ ReadSoFar(i, options) /\ argv \in CommandLines
    BY <1>3 DEF Reading, Command
  <2>2. i \in Flags /\ i < Len(argv) /\ i \in Nat
    BY <2>1, FlagWithValue
  <2>3. /\ Boundary(i + 2)
        /\ Levels(i + 2) = IF argv[i + 1].level # NO_LOG THEN Levels(i) \cup {i} ELSE Levels(i)
        /\ Origins(i + 2) = Origins(i) /\ Roms(i + 2) = Roms(i)
    BY <2>1, <2>2, AfterFlag
  <2>4. Max(Levels(i) \cup {i}) = i
    BY <2>1, <2>2, LastRead
  <2>5. LevelRead(i + 2) = IF argv[i + 1].level # NO_LOG THEN argv[i + 1].level ELSE LevelRead(i)
    BY <2>3, <2>4 DEF LevelRead
  <2>6. OriginRead(i + 2) = OriginRead(i) /\ FileRead(i + 2) = FileRead(i)
    BY <2>3 DEF OriginRead, FileRead
  <2>7. options' = [log_level |-> LevelRead(i + 2), origin |-> OriginRead(i + 2),
                    rom_file |-> FileRead(i + 2), error_msg |-> NO_MESSAGE, empty |-> FALSE]
    BY <2>1, <2>5, <2>6 DEF ReadSoFar, Seen
  <2>8. ReadSoFar(i + 2, options')
    <3>1. /\ \A j, k \in Roms(i + 2) : j = k
          /\ \A j \in Roms(i + 2) : j = Len(argv) => ~argv[j].dash
          /\ \A j \in Origins(i + 2) : argv[j + 1].hex
      BY <2>1, <2>3 DEF ReadSoFar
    <3> QED BY <2>2, <2>7, <3>1, ReadOn
  <2> QED BY <1>1, <1>3, <2>3, <2>8 DEF Reading, InLoop
<1> QED BY <1>2, <1>3

\* -O: the origin, or an error after which the loop goes on.
LEMMA ReadOrigin ==
  ASSUME Command, Reading(i, options, parsing), ParseOrigin
  PROVE  Reading(i', options', parsing')
<1>0. /\ InLoop /\ ~Dangling /\ argv[i].flag = "-O"
      /\ argv[i + 1].hex => options' = [Seen EXCEPT !.origin = Origin(argv[i + 1].number)]
      /\ ~argv[i + 1].hex => options' = [Seen EXCEPT !.error_msg = "Unable to parse origin"]
      /\ i' = i + 2 /\ parsing' = parsing
  BY DEF ParseOrigin
<1>1. CASE options.error_msg # NO_MESSAGE
  <2>1. options'.error_msg # NO_MESSAGE
    BY <1>0, <1>1 DEF Command, Options, Seen, NO_MESSAGE
  <2> QED BY <1>1, <2>1 DEF Reading
<1>2. CASE options.error_msg = NO_MESSAGE
  <2>1. Boundary(i) /\ ReadSoFar(i, options) /\ argv \in CommandLines
    BY <1>2 DEF Reading, Command
  <2>2. i \in Flags /\ i < Len(argv) /\ i \in Nat
    BY <1>0, <2>1, FlagWithValue
  <2>3. CASE ~argv[i + 1].hex
    <3>1. options'.error_msg # NO_MESSAGE
      BY <1>0, <2>3 DEF Command, Options, Seen, NO_MESSAGE
    <3>2. ~WellFormed
      BY <1>0, <2>1, <2>2, <2>3, Malformed
    <3> QED BY <3>1, <3>2 DEF Reading
  <2>4. CASE argv[i + 1].hex
    <3>1. /\ Boundary(i + 2)
          /\ Levels(i + 2) = Levels(i)
          /\ Origins(i + 2) = Origins(i) \cup {i}
          /\ Roms(i + 2) = Roms(i)
      BY <1>0, <2>1, <2>2, AfterFlag
    <3>2. Max(Origins(i) \cup {i}) = i
      BY <2>1, <2>2, LastRead
    <3>3. OriginRead(i + 2) = Origin(argv[i + 1].number)
      BY <3>1, <3>2 DEF OriginRead, Origin, ToWord
    <3>4. LevelRead(i + 2) = LevelRead(i) /\ FileRead(i + 2) = FileRead(i)
      BY <3>1 DEF LevelRead, FileRead
    <3>5. options' = [log_level |-> LevelRead(i + 2), origin |-> OriginRead(i + 2),
                      rom_file |-> FileRead(i + 2), error_msg |-> NO_MESSAGE, empty |-> FALSE]
      BY <1>0, <2>1, <2>4, <3>3, <3>4 DEF ReadSoFar, Seen
    <3>6. /\ \A j, k \in Roms(i + 2) : j = k
          /\ \A j \in Roms(i + 2) : j = Len(argv) => ~argv[j].dash
          /\ \A j \in Origins(i + 2) : argv[j + 1].hex
      BY <2>1, <2>4, <3>1 DEF ReadSoFar
    <3>7. ReadSoFar(i + 2, options')
      BY <2>2, <3>5, <3>6, ReadOn
    <3>8. options'.error_msg = NO_MESSAGE
      BY <3>5
    <3> QED BY <1>0, <3>1, <3>7, <3>8 DEF Reading, InLoop
  <2> QED BY <2>3, <2>4
<1> QED BY <1>1, <1>2

\* The ROM file, or an error that ends the loop.
LEMMA ReadRomFile ==
  ASSUME Command, Reading(i, options, parsing), ParseRomFile
  PROVE  Reading(i', options', parsing')
<1>0. /\ InLoop /\ ~Dangling /\ argv[i].flag = "NONE"
      /\ options.rom_file # NULL =>
           options' = [Seen EXCEPT !.error_msg = "The ROM file has been already specified"]
      /\ options.rom_file = NULL =>
           options' = [Seen EXCEPT !.rom_file = i] /\ i' = i + 1 /\ parsing' = parsing
  BY DEF ParseRomFile
<1>1. CASE options.error_msg # NO_MESSAGE
  <2>1. options'.error_msg # NO_MESSAGE
    BY <1>0, <1>1 DEF Command, Options, Seen, NO_MESSAGE
  <2> QED BY <1>1, <2>1 DEF Reading
<1>2. CASE options.error_msg = NO_MESSAGE
  <2>1. Boundary(i) /\ ReadSoFar(i, options) /\ argv \in CommandLines
    BY <1>2 DEF Reading, Command
  <2>2. i \in Files /\ i \in 1 .. Len(argv) /\ Len(argv) \in Nat
    <3>1. i \in 1 .. Len(argv) /\ Len(argv) \in Nat
      <4>1. InLoop
        BY <1>0
      <4> QED BY <2>1, <4>1, Line DEF Command, InLoop
    <3> QED BY <1>0, <2>1, <3>1, AtBoundary
  <2>3. CASE options.rom_file # NULL
    <3>1. options'.error_msg # NO_MESSAGE
      BY <1>0, <2>3 DEF Command, Options, Seen, NO_MESSAGE
    <3>2. Roms(i) # {}
      BY <2>1, <2>3 DEF ReadSoFar, FileRead
    <3>3. ~WellFormed
      BY <2>1, <2>2, <3>2, Malformed, Line DEF Roms, Files
    <3> QED BY <3>1, <3>3 DEF Reading
  <2>4. CASE options.rom_file = NULL
    <3>1. Roms(i) = {}
      <4>1. ASSUME NEW j \in Roms(i) PROVE FALSE
        <5>1. j \in Nat \ {0} /\ \A k \in Roms(i) : k = j
          BY <2>1, Line DEF Roms, Files, ReadSoFar
        <5>2. Roms(i) = {} \cup {j}
          BY <4>1, <5>1
        <5>3. Max({} \cup {j}) = j
          BY <5>1, MaxIsLast
        <5>4. FileRead(i) = j
          BY <4>1, <5>2, <5>3 DEF FileRead
        <5> QED BY <2>1, <2>4, <5>1, <5>4 DEF ReadSoFar, NULL
      <4> QED BY <4>1
    <3>2. /\ Boundary(i + 1)
          /\ Levels(i + 1) = Levels(i)
          /\ Origins(i + 1) = Origins(i)
          /\ Roms(i + 1) = Roms(i) \cup {i}
      BY <2>1, <2>2, AfterFile
    <3>3. Max(Roms(i) \cup {i}) = i
      <4>1. i \in Nat
        BY <2>2
      <4> QED BY <2>1, <4>1, LastRead
    <3>4. FileRead(i + 1) = i
      BY <3>2, <3>3 DEF FileRead
    <3>5. LevelRead(i + 1) = LevelRead(i) /\ OriginRead(i + 1) = OriginRead(i)
      BY <3>2 DEF LevelRead, OriginRead
    <3>6. options' = [log_level |-> LevelRead(i + 1), origin |-> OriginRead(i + 1),
                      rom_file |-> FileRead(i + 1), error_msg |-> NO_MESSAGE, empty |-> FALSE]
      BY <1>0, <2>1, <2>4, <3>4, <3>5 DEF ReadSoFar, Seen
    <3>7. /\ \A j, k \in Roms(i + 1) : j = k
          /\ \A j \in Roms(i + 1) : j = Len(argv) => ~argv[j].dash
          /\ \A j \in Origins(i + 1) : argv[j + 1].hex
      <4>1. Roms(i + 1) = {i} /\ Origins(i + 1) = Origins(i)
        BY <3>1, <3>2
      <4>2. i = Len(argv) => ~argv[i].dash
        BY <1>0 DEF Dangling
      <4> QED BY <2>1, <4>1, <4>2 DEF ReadSoFar
    <3>8. ReadSoFar(i + 1, options')
      BY <2>2, <3>6, <3>7, ReadOn
    <3>9. options'.error_msg = NO_MESSAGE
      BY <3>6
    <3> QED BY <1>0, <2>4, <3>2, <3>8, <3>9 DEF Reading, InLoop
  <2> QED BY <2>3, <2>4
<1> QED BY <1>1, <1>2

\* A turn of the loop, or its end.
LEMMA ReadStep ==
  ASSUME Command, Reading(i, options, parsing), CommandNext
  PROVE  Reading(i', options', parsing') /\ argv' = argv
<1>1. CASE EndOfArguments
  <2>1. i = Len(argv) + 1
    BY <1>1, Line DEF EndOfArguments, Command
  <2> QED BY <1>1, <2>1 DEF EndOfArguments, Reading
<1>2. argv' = argv
  BY DEF CommandNext, FlagWithoutValue, ParseLogLevel, ParseOrigin, ParseRomFile, EndOfArguments
<1> QED BY <1>1, <1>2, ReadFlagWithoutValue, ReadLogLevel, ReadOrigin, ReadRomFile
        DEF CommandNext

\* What has been read depends on no variable but argv.
FlagOf(line) ==
  CHOOSE f : f = [j \in DOMAIN line |-> line[j].flag # "NONE" /\ (j = 1 \/ ~f[j - 1])]

LEMMA SameLine ==
  ASSUME argv' = argv
  PROVE  Reading(i', options', parsing') => Reading(i, options, parsing)'
<1>1. IsFlag = FlagOf(argv) /\ IsFlag' = FlagOf(argv')
  BY Zenon DEF IsFlag, FlagOf
<1>2. IsFlag' = IsFlag
  BY <1>1, Zenon
<1>3. Flags' = Flags
  BY <1>2 DEF Flags
<1>4. Values' = Values
  BY <1>3 DEF Values
<1>5. Files' = Files
  BY <1>3, <1>4 DEF Files
<1>6. WellFormed' <=> WellFormed
  BY <1>3, <1>4, <1>5 DEF WellFormed
<1>7. /\ Levels(i)' = Levels(i')
      /\ Origins(i)' = Origins(i')
      /\ Roms(i)' = Roms(i')
  BY <1>3, <1>5 DEF Levels, Origins, Roms
<1>8. /\ LevelRead(i)' = LevelRead(i')
      /\ OriginRead(i)' = OriginRead(i')
      /\ FileRead(i)' = FileRead(i')
  BY <1>7 DEF LevelRead, OriginRead, FileRead
<1>9. Boundary(i)' <=> Boundary(i')
  BY <1>2 DEF Boundary
<1>10. ReadSoFar(i', options') => ReadSoFar(i, options)'
  BY <1>7, <1>8 DEF ReadSoFar
<1> QED BY <1>6, <1>9, <1>10 DEF Reading
-----------------------------------------------------------------------------
(* The theorem.                                                            *)

\* Reading is an invariant of the parser.
ParserReading == Reading(i, options, parsing)

LEMMA ReadingInit == StartupInit => ParserReading
<1> SUFFICES ASSUME StartupInit PROVE ParserReading
  OBVIOUS
<1>1. /\ argv \in CommandLines /\ i = 1
      /\ options = NoOptions /\ parsing = TRUE
  BY DEF StartupInit, CommandInit
<1>2. Reading(i, options, TRUE)
  BY <1>1, NothingReadYet
<1> QED BY <1>1, <1>2, Zenon DEF ParserReading

LEMMA ReadingNext ==
  ASSUME StartupInv, ParserReading, [StartupNext]_startupVars
  PROVE  ParserReading'
<1>1. CASE Parse
  <2>1. Reading(i', options', parsing') /\ argv' = argv
    BY <1>1, ReadStep DEF Parse, StartupInv, ParserReading
  <2> QED BY <2>1, SameLine DEF ParserReading
<1>2. CASE UNCHANGED commandVars
  <2>1. argv' = argv /\ i' = i /\ options' = options /\ parsing' = parsing
    BY <1>2 DEF commandVars
  <2>2. Reading(i', options', parsing')
    BY <2>1, Zenon DEF ParserReading
  <2> QED BY <2>1, <2>2, SameLine DEF ParserReading
<1> QED
  BY <1>1, <1>2 DEF startupVars, StartupNext, Usage, LoadPlatformInterface, MemoryInit,
    LoadComputerData, LoadRomFile, NoRomFile, OpenFile, EmptyFile, AllocateContents,
    ReadFile, ShortRead, ReadIntoNull, NothingRead, TooLarge, CopyImage, CopyOutside,
    NotValid, StartEmulation, Cycle, Render, Trap, Shutdown

\* Once the loop has ended, the options are what the command line means, and there
\* is an error just when it means nothing.
LEMMA ReadingMeans ==
  ASSUME StartupInv, ParserReading
  PROVE  ParsedAsMeant
<1> SUFFICES ASSUME ~parsing
             PROVE  /\ options.error_msg = NO_MESSAGE <=> WellFormed
                    /\ WellFormed => options = Meaning
  BY DEF ParsedAsMeant
<1>1. CASE options.error_msg # NO_MESSAGE
  BY <1>1 DEF ParserReading, Reading
<1>2. CASE options.error_msg = NO_MESSAGE
  <2>1. i = Len(argv) + 1 /\ Boundary(i) /\ ReadSoFar(i, options)
    BY <1>2 DEF ParserReading, Reading
  <2>2. Boundary(Len(argv) + 1) /\ ReadSoFar(Len(argv) + 1, options)
    BY <2>1, Zenon
  <2>3. WellFormed /\ options = Meaning
    BY <2>2, ReadToTheEnd DEF StartupInv, Command
  <2> QED BY <1>2, <2>3
<1> QED BY <1>1, <1>2

\* parse_args accepts the well-formed command lines, of any length, and reads them
\* as they are meant; it refuses all others.
THEOREM CommandLineCorrect == StartupSpec => []ParsedAsMeant
<1>1. StartupInv /\ ParserReading /\ [StartupNext]_startupVars => ParserReading'
  BY ReadingNext
<1>2. StartupInv /\ ParserReading => ParsedAsMeant
  BY ReadingMeans
<1> QED BY <1>1, <1>2, ReadingInit, StartupInvariance, PTL DEF StartupSpec
=============================================================================
