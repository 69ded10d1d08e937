------------------------------ MODULE Startup ------------------------------
(***************************************************************************)
(* main.c and what it calls before and after the loop of cycles: the       *)
(* command line, emulator_init with the allocations and the ROM file, the  *)
(* end of emulator_run, emulator_shutdown.  Every call of the C library    *)
(* that may fail does.  A cycle and a rendering are seen here only as what *)
(* they log, draw and return; Emulator has the rest.                       *)
(***************************************************************************)
EXTENDS CommandLine

CONSTANT FileSizes   \* sizes a ROM file may have

ASSUME FileSizesAreNat == FileSizes \subseteq Nat

VARIABLES
  pc,         \* where main is; "crashed" after a store outside what is allocated
  valid,      \* emu.valid
  heap,       \* what is allocated or open
  size,       \* file_content.size
  image,      \* the part of memory the ROM file was copied to
  exit_code,
  console

startupVars == <<commandVars, pc, valid, heap, size, image, exit_code, console>>

KB_64       == \h10000
MEMORY_SIZE == \h10000   \* of the block memory_init allocates

Heap     == {"memory", "ap_data", "stream", "contents"}
NO_IMAGE == [first |-> 0, last |-> -1]

StartupInit ==
  /\ CommandInit
  /\ pc = "parse"
  /\ valid = FALSE
  /\ heap = {}
  /\ size = 0
  /\ image = NO_IMAGE
  /\ exit_code = 0
  /\ console = FreshConsole

\* emu_log after emu_log, at the level of the command line.
Log(c, level) == Logged(c, options.log_level, level)
Info(c)  == Log(c, INFO)
Error(c) == Log(c, ERROR)

\* The process ends, which sends off what stdio still holds.
Exit(code) ==
  /\ pc' = "exited"
  /\ exit_code' = code
  /\ console' = Flushed(console)

-----------------------------------------------------------------------------
Parse ==
  /\ pc = "parse"
  /\ CommandNext
  /\ UNCHANGED <<pc, valid, heap, size, image, exit_code, console>>

Usage ==
  /\ pc = "parse" /\ ~parsing
  /\ options.error_msg # NO_MESSAGE \/ options.empty
  /\ Exit(1)
  /\ UNCHANGED <<commandVars, valid, heap, size, image>>

\* The beginning of emulator_init, with load_platform_interface for APPLE2.
LoadPlatformInterface ==
  /\ pc = "parse" /\ ~parsing
  /\ options.error_msg = NO_MESSAGE /\ ~options.empty
  /\ valid' = TRUE
  /\ console' = Info(console)
  /\ pc' = "memory"
  /\ UNCHANGED <<commandVars, heap, size, image, exit_code>>

\* memory_init, whose result nobody looks at.
MemoryInit ==
  /\ pc = "memory"
  /\ heap' \in {heap, heap \cup {"memory"}}
  /\ pc' = "data"
  /\ UNCHANGED <<commandVars, valid, size, image, exit_code, console>>

\* A faulty variant of LoadComputerData: a failed malloc is only logged.
LoadComputerData_Ignored ==
  /\ pc = "data"
  /\ \/ heap' = heap \cup {"ap_data"} /\ console' = console
     \/ heap' = heap /\ console' = Error(console)
  /\ pc' = "rom"
  /\ UNCHANGED <<commandVars, valid, size, image, exit_code>>

\* load_computer_data; after a failure the ROM is still read.
LoadComputerData ==
  /\ pc = "data"
  /\ \/ heap' = heap \cup {"ap_data"} /\ UNCHANGED <<valid, console>>
     \/ heap' = heap /\ valid' = FALSE /\ console' = Error(console)
  /\ pc' = "rom"
  /\ UNCHANGED <<commandVars, size, image, exit_code>>

-----------------------------------------------------------------------------
(* emulator_read_rom_image_into_memory and read_bin_file.                  *)

NoRomFile ==
  /\ pc = "rom" /\ options.rom_file = NULL
  /\ valid' = FALSE
  /\ console' = Error(console)
  /\ pc' = "ready"
  /\ UNCHANGED <<commandVars, heap, size, image, exit_code>>

OpenFile ==
  /\ pc = "rom" /\ options.rom_file # NULL
  /\ \/ heap' = heap \cup {"stream"} /\ pc' = "size"
     \/ heap' = heap /\ pc' = "load"
  /\ UNCHANGED <<commandVars, valid, size, image, exit_code, console>>

\* A faulty variant of EmptyFile: the stream stays open.
EmptyFile_KeepOpen ==
  /\ pc = "size"
  /\ pc' = "load"
  /\ UNCHANGED <<commandVars, valid, heap, size, image, exit_code, console>>

\* The file is empty or fseek fails.
EmptyFile ==
  /\ pc = "size"
  /\ heap' = heap \ {"stream"}
  /\ pc' = "load"
  /\ UNCHANGED <<commandVars, valid, size, image, exit_code, console>>

\* malloc for the contents; its result is not looked at before fread.
AllocateContents ==
  /\ pc = "size"
  /\ size' \in FileSizes \ {0}
  /\ heap' \in {heap, heap \cup {"contents"}}
  /\ pc' = "read"
  /\ UNCHANGED <<commandVars, valid, image, exit_code, console>>

ReadFile ==
  /\ pc = "read" /\ "contents" \in heap
  /\ heap' = heap \ {"stream"}
  /\ pc' = "load"
  /\ UNCHANGED <<commandVars, valid, size, image, exit_code, console>>

\* fread returns too little, as it may also do with the null pointer.  data is
\* cleared before it is freed.
ShortRead ==
  /\ pc = "read"
  /\ heap' = heap \ {"stream"}
  /\ size' = 0
  /\ pc' = "load"
  /\ UNCHANGED <<commandVars, valid, image, exit_code, console>>

\* fread stores through the null pointer.
ReadIntoNull ==
  /\ pc = "read" /\ "contents" \notin heap
  /\ pc' = "crashed"
  /\ UNCHANGED <<commandVars, valid, heap, size, image, exit_code, console>>

\* A faulty variant of Fits: off by one.
Fits_OffByOne == size + options.origin <= KB_64 + 1

Fits == size + options.origin <= KB_64

NothingRead ==
  /\ pc = "load" /\ size = 0
  /\ valid' = FALSE
  /\ console' = Error(Info(console))
  /\ pc' = "ready"
  /\ UNCHANGED <<commandVars, heap, size, image, exit_code>>

\* The contents are not freed.
TooLarge ==
  /\ pc = "load" /\ size # 0 /\ ~Fits
  /\ valid' = FALSE
  /\ console' = Error(Info(console))
  /\ pc' = "ready"
  /\ UNCHANGED <<commandVars, heap, size, image, exit_code>>

\* What memcpy may do: both blocks are there, and the image ends in the 64K.
CopyDefined ==
  {"memory", "contents"} \subseteq heap /\ options.origin + size <= MEMORY_SIZE

CopyImage ==
  /\ pc = "load" /\ size # 0 /\ Fits /\ CopyDefined
  /\ image' = [first |-> options.origin, last |-> options.origin + size - 1]
  /\ heap' = heap \ {"contents"}
  /\ console' = Info(console)
  /\ pc' = "ready"
  /\ UNCHANGED <<commandVars, valid, size, exit_code>>

\* memcpy to an address in the unmapped first 64K.
CopyOutside ==
  /\ pc = "load" /\ size # 0 /\ Fits /\ ~CopyDefined
  /\ console' = Info(console)
  /\ pc' = "crashed"
  /\ UNCHANGED <<commandVars, valid, heap, size, image, exit_code>>

LoadRomFile ==
  \/ NoRomFile \/ OpenFile \/ EmptyFile \/ AllocateContents \/ ReadFile \/ ShortRead
  \/ ReadIntoNull \/ NothingRead \/ TooLarge \/ CopyImage \/ CopyOutside

-----------------------------------------------------------------------------
\* emulator_init returns early, and emulator_run at once.
NotValid ==
  /\ pc = "ready" /\ ~valid
  /\ console' = Error(console)
  /\ exit_code' = 1
  /\ pc' = "shutdown"
  /\ UNCHANGED <<commandVars, valid, heap, size, image>>

\* cpu_init, the end of emulator_init and the beginning of emulator_run.
StartEmulation ==
  /\ pc = "ready" /\ valid
  /\ console' = Info(console)
  /\ pc' = "cycle"
  /\ UNCHANGED <<commandVars, valid, heap, size, image, exit_code>>

\* A cycle logs at most one message of the device; getchar() may flush stdout.
Cycle ==
  /\ pc = "cycle"
  /\ LET logged == {console, Info(console), Log(console, WARN)}
     IN  console' \in logged \cup {Flushed(c) : c \in logged}
  /\ pc' = "render"
  /\ UNCHANGED <<commandVars, valid, heap, size, image, exit_code>>

Render ==
  /\ pc = "render"
  /\ console' \in {console, Drawn(console)}
  /\ pc' = "cycle"
  /\ UNCHANGED <<commandVars, valid, heap, size, image, exit_code>>

\* A faulty variant of Trap: the break alone ends the loop.
Trap_KeepValid ==
  /\ pc = "cycle"
  /\ console' = Info(Error(console))
  /\ exit_code' = IF valid THEN 0 ELSE 1
  /\ pc' = "shutdown"
  /\ UNCHANGED <<commandVars, valid, heap, size, image>>

\* The cycle returns a trap, which ends emulator_run.
Trap ==
  /\ pc = "cycle"
  /\ valid' = FALSE
  /\ console' = Info(Error(console))
  /\ exit_code' = IF valid' THEN 0 ELSE 1
  /\ pc' = "shutdown"
  /\ UNCHANGED <<commandVars, heap, size, image>>

\* emulator_shutdown and the end of main.
Shutdown ==
  /\ pc = "shutdown"
  /\ heap' = IF valid THEN heap \ {"memory"} ELSE heap
  /\ Exit(exit_code)
  /\ UNCHANGED <<commandVars, valid, size, image>>

StartupNext ==
  \/ Parse \/ Usage \/ LoadPlatformInterface \/ MemoryInit \/ LoadComputerData
  \/ LoadRomFile \/ NotValid \/ StartEmulation \/ Cycle \/ Render \/ Trap \/ Shutdown

\* There is one thread and, before the loop, no call that waits.
StartupSpec == StartupInit /\ [][StartupNext]_startupVars /\ WF_startupVars(StartupNext)

-----------------------------------------------------------------------------
\* Every variable has its type; in particular the origin is a word, whatever
\* number the user gives, and a copied image lies in the 64K.
StartupTypeOK ==
  /\ i \in 1 .. Len(argv) + 1 /\ parsing \in BOOLEAN
  /\ options \in Options(Len(argv))
  /\ pc \in {"parse", "memory", "data", "rom", "size", "read", "load", "ready", "cycle",
             "render", "shutdown", "exited", "crashed"}
  /\ valid \in BOOLEAN /\ heap \subseteq Heap
  /\ size \in FileSizes \cup {0}
  /\ exit_code \in {0, 1}
  /\ console \in Consoles

\* The loop only runs with both allocations made and a whole image in memory at
\* the origin of the command line, although a failed allocation does not stop the
\* initialisation and valid is set and cleared in five places.
RunsOnlyLoaded ==
  pc \in {"cycle", "render"} =>
    /\ valid /\ {"memory", "ap_data"} \subseteq heap
    /\ image.first = options.origin
    /\ image.first <= image.last /\ image.last < MEMORY_SIZE

\* The program is only killed when malloc gave no memory, for the 64K or for the
\* contents of the file, the two results that nobody looks at in time: no size and
\* origin bring the copy past the end of the memory.
CrashOnlyOutOfMemory ==
  pc = "crashed" => ~({"memory", "contents"} \subseteq heap)

\* After the ROM file is read no stream is open, and the copy of the contents is
\* only kept, for ever, by an emulator that will not run: the leaks after a short
\* read and after an image that is too large are the only ones.
FileReleased ==
  pc \in {"ready", "cycle", "render", "shutdown", "exited"} =>
    /\ "stream" \notin heap
    /\ "contents" \in heap => image = NO_IMAGE /\ ~valid

\* However the program ends, by the usage, a failed start or a trap, it returns 1
\* and emulator_shutdown finds valid false, so that the memory is never freed.
EveryEndIsFailure ==
  pc \in {"shutdown", "exited"} => ~valid /\ (pc = "exited" => exit_code = 1)

\* A program that returns leaves the terminal in its own colour, and the rows of
\* a frame are never in the colour of a message, which stays on the terminal
\* until the next newline that goes through stdio.
ColoursReset ==
  /\ pc = "exited" => console.colour = "PLAIN"
  /\ console.frame.picture \in {"PLAIN", "NONE"}

\* Whatever the command line and whichever call fails, main gets to the loop or
\* to its end.
StartupEnds == <>(pc \in {"cycle", "exited", "crashed"})

\* Until the program has ended, main has a next step, and the loop over the arguments
\* never turns on the spot: every argument and every result of a call has a case.
StartupNeverStuck ==
  pc \notin {"exited", "crashed"} => ENABLED <<StartupNext>>_startupVars

-----------------------------------------------------------------------------
(* A statement of the repository about its behaviour.                      *)

\* log.c:38: the colour is reset after a message, so that a frame, its header
\* included, has none of the log's colours.
FramePlain == console.frame.header \in {"PLAIN", "NONE"}
=============================================================================
