----------------------------- MODULE MCStartup -----------------------------
(***************************************************************************)
(* Every command line of up to four arguments out of nine.                 *)
(***************************************************************************)
EXTENDS Startup

Text == [dash |-> FALSE, flag |-> "NONE", level |-> NO_LOG, hex |-> FALSE, number |-> 0]

\* a.rom, -L, -O, -x, warn, err, D000, 1D000, -1 and the empty argument, which
\* strtol reads as 0.
Arguments ==
  {Text,
   [Text EXCEPT !.dash = TRUE, !.flag = "-L"],
   [Text EXCEPT !.dash = TRUE, !.flag = "-O"],
   [Text EXCEPT !.level = INFO],
   [Text EXCEPT !.level = ERROR],
   [Text EXCEPT !.hex = TRUE, !.number = \hD000],
   [Text EXCEPT !.hex = TRUE, !.number = \h1D000],
   [Text EXCEPT !.dash = TRUE, !.hex = TRUE, !.number = -1],
   [Text EXCEPT !.hex = TRUE]}

MCCommandLines == UNION {[1 .. n -> Arguments] : n \in 0 .. 4}

\* One byte, the room above D000, one more, all of the memory, and more.
MCFileSizes == {0, 1, \h3000, \h3001, \h10000, \h10001}
=============================================================================
