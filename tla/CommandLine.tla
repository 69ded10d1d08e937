---------------------------- MODULE CommandLine ----------------------------
(***************************************************************************)
(* parse_args (args.c), one action per turn of its loop.  argv has the     *)
(* arguments after the program's name, and an argument is what the parser  *)
(* can tell of its text:                                                   *)
(*   dash    it starts with '-'                                            *)
(*   flag    it starts with -L or -O                                       *)
(*   level   the log level it starts with, or NO_LOG                       *)
(*   hex     strtol reads all of it                                        *)
(*   number  what strtol makes of it                                       *)
(***************************************************************************)
EXTENDS Base, Console, Sequences, FiniteSetsExt

CONSTANT CommandLines   \* the sequences of arguments the user may give

Argument == [dash : BOOLEAN, flag : {"-L", "-O", "NONE"}, level : NO_LOG .. INFO,
             hex : BOOLEAN, number : Int]

ASSUME CommandLinesAreArguments ==
  /\ CommandLines \subseteq Seq(Argument)
  /\ \A line \in CommandLines : \A j \in DOMAIN line :
       line[j].flag # "NONE" => line[j].dash

VARIABLES
  argv,
  i,
  options,
  parsing     \* parse_args has not returned

commandVars == <<argv, i, options, parsing>>

\* options.rom_file is the position of the argument, error_msg the message.
NULL       == 0
NO_MESSAGE == ""
Messages   == {"Flag without value", "Unable to parse origin",
               "The ROM file has been already specified"}

\* options_t, for n arguments.
Options(n) == [log_level : NO_LOG .. INFO, origin : Word, rom_file : NULL .. n,
               error_msg : Messages \cup {NO_MESSAGE}, empty : BOOLEAN]

NoOptions == [log_level |-> NO_LOG, origin |-> 0, rom_file |-> NULL,
              error_msg |-> NO_MESSAGE, empty |-> TRUE]

CommandInit ==
  /\ argv \in CommandLines
  /\ i = 1
  /\ options = NoOptions
  /\ parsing = TRUE

InLoop   == parsing /\ i <= Len(argv)
Seen     == [options EXCEPT !.empty = FALSE]
Dangling == argv[i].dash /\ i = Len(argv)

FlagWithoutValue ==
  /\ InLoop /\ Dangling
  /\ options' = [Seen EXCEPT !.error_msg = "Flag without value"]
  /\ parsing' = FALSE
  /\ UNCHANGED <<argv, i>>

\* A flag takes the next argument with it, whatever that is.
ParseLogLevel ==
  /\ InLoop /\ ~Dangling /\ argv[i].flag = "-L"
  /\ options' = IF argv[i + 1].level = NO_LOG THEN Seen
                ELSE [Seen EXCEPT !.log_level = argv[i + 1].level]
  /\ i' = i + 2
  /\ UNCHANGED <<argv, parsing>>

\* A faulty variant of Origin: the number is not cut to a word.
Origin_Wide(number) == number

\* The conversion of strtol's int to word_t.
Origin(number) == ToWord(number)

\* A faulty variant of ParseOrigin: the value is read as an argument again.
ParseOrigin_NoSkip ==
  /\ InLoop /\ ~Dangling /\ argv[i].flag = "-O"
  /\ options' = IF argv[i + 1].hex THEN [Seen EXCEPT !.origin = Origin(argv[i + 1].number)]
                ELSE [Seen EXCEPT !.error_msg = "Unable to parse origin"]
  /\ i' = i + 1
  /\ UNCHANGED <<argv, parsing>>

\* A bad origin is an error, but the loop goes on.
ParseOrigin ==
  /\ InLoop /\ ~Dangling /\ argv[i].flag = "-O"
  /\ options' = IF argv[i + 1].hex THEN [Seen EXCEPT !.origin = Origin(argv[i + 1].number)]
                ELSE [Seen EXCEPT !.error_msg = "Unable to parse origin"]
  /\ i' = i + 2
  /\ UNCHANGED <<argv, parsing>>

\* A faulty variant of ParseRomFile: the loop does not go on to the next argument.
ParseRomFile_Stay ==
  /\ InLoop /\ ~Dangling /\ argv[i].flag = "NONE"
  /\ options' = [Seen EXCEPT !.rom_file = i]
  /\ UNCHANGED <<argv, i, parsing>>

ParseRomFile ==
  /\ InLoop /\ ~Dangling /\ argv[i].flag = "NONE"
  /\ IF options.rom_file # NULL
     THEN /\ options' = [Seen EXCEPT !.error_msg = "The ROM file has been already specified"]
          /\ parsing' = FALSE
          /\ i' = i
     ELSE /\ options' = [Seen EXCEPT !.rom_file = i]
          /\ i' = i + 1
          /\ UNCHANGED parsing
  /\ UNCHANGED argv

EndOfArguments ==
  /\ parsing /\ i > Len(argv)
  /\ parsing' = FALSE
  /\ UNCHANGED <<argv, i, options>>

CommandNext ==
  FlagWithoutValue \/ ParseLogLevel \/ ParseOrigin \/ ParseRomFile \/ EndOfArguments

-----------------------------------------------------------------------------
(* What a command line means, without a loop: which arguments are flags,   *)
(* which are their values, and which name a file.                          *)

IsFlag[j \in DOMAIN argv] == argv[j].flag # "NONE" /\ (j = 1 \/ ~IsFlag[j - 1])

Flags  == {j \in DOMAIN argv : IsFlag[j]}
Values == {j + 1 : j \in Flags}
Files  == DOMAIN argv \ (Flags \cup Values)

WellFormed ==
  /\ Values \subseteq DOMAIN argv
  /\ Cardinality(Files) <= 1
  /\ Len(argv) \in Files => ~argv[Len(argv)].dash
  /\ \A j \in Flags : argv[j].flag = "-O" => argv[j + 1].hex

\* The last argument at one of the positions counts.
LastOf(positions, Value(_), default) ==
  IF positions = {} THEN default ELSE Value(Max(positions))

Meaning ==
  [log_level |-> LastOf({j \in Flags : argv[j].flag = "-L" /\ argv[j + 1].level # NO_LOG},
                        LAMBDA j : argv[j + 1].level, NO_LOG),
   origin    |-> LastOf({j \in Flags : argv[j].flag = "-O"},
                        LAMBDA j : argv[j + 1].number % \h10000, 0),
   rom_file  |-> LastOf(Files, LAMBDA j : j, NULL),
   error_msg |-> NO_MESSAGE,
   empty     |-> argv = <<>>]

\* The loop, which skips values by counting i twice and leaves in three places,
\* refuses just the command lines that are not well formed and reads the others
\* as meant, whatever the order of the arguments.
ParsedAsMeant ==
  ~parsing =>
    /\ options.error_msg = NO_MESSAGE <=> WellFormed
    /\ WellFormed => options = Meaning
=============================================================================
