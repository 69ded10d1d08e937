------------------------------ MODULE Console ------------------------------
(***************************************************************************)
(* What reaches the terminal by two ways: emu_log and putchar through the  *)
(* line buffer of stdio, and render's calls of write past it.  Of the text *)
(* only its colour is kept.  stdout is a terminal.                         *)
(***************************************************************************)
EXTENDS Integers

NO_LOG == 0
ERROR  == 1
WARN   == 2
INFO   == 3

\* The colour the escape sequence of a level sets.
Colour == [level \in ERROR .. INFO |->
             CASE level = ERROR -> "RED" [] level = WARN -> "YELLOW" [] level = INFO -> "GREEN"]
Colours == {"PLAIN", "RED", "YELLOW", "GREEN"}

\* colour: of what is written next; reset_pending: the buffer holds the sequence
\* that ends a log message; frame: the colours of the last frame's two parts.
NO_FRAME == [header |-> "NONE", picture |-> "NONE"]
Consoles == [colour : Colours, reset_pending : BOOLEAN,
             frame : [header : Colours, picture : Colours] \cup {NO_FRAME}]
FreshConsole == [colour |-> "PLAIN", reset_pending |-> FALSE, frame |-> NO_FRAME]

\* emu_log.  Every message ends in a newline, which sends the buffer off; the
\* reset comes after the newline and stays.
Logged(c, log_level, level) ==
  IF level > log_level THEN c
  ELSE [c EXCEPT !.colour = Colour[level], !.reset_pending = TRUE]

\* A newline from putchar, or the end of the program.
Flushed(c) ==
  [c EXCEPT !.colour = IF c.reset_pending THEN "PLAIN" ELSE @, !.reset_pending = FALSE]

\* A faulty variant of Drawn: the newline between the two parts is written directly.
Drawn_NoFlush(c) == Flushed([c EXCEPT !.frame = [header |-> c.colour, picture |-> c.colour]])

\* The output of render: header and separator by write, a newline by putchar,
\* then the rows and the second separator by write and a newline by putchar.
Drawn(c) ==
  LET after == Flushed(c)
  IN  [after EXCEPT !.frame = [header |-> c.colour, picture |-> after.colour]]
=============================================================================
