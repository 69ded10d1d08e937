----------------------------- MODULE MCEmulator -----------------------------
(***************************************************************************)
(* Programs of a few instructions that store to the text pages, switch the *)
(* page, read the keyboard, and end in each of the traps.                  *)
(***************************************************************************)
EXTENDS Composition, Sequences, TLC

ORIGIN == \h0300

MCHeap    == [a \in Word |-> \h02]
MCStdin   == {-1, \h48}
MCGarbage == {\h00}

MCPowerOn ==
  {[video_mode |-> "TEXT", page |-> page, res |-> "LO", term_render_request |-> FALSE,
    keyboard_latch |-> \h41, keyboard_ready |-> FALSE] : page \in {"PRIM", "SEC"}}

\* LDX #pointer, TXS, LDA #byte and the code.
Image(pointer, byte, code) ==
  LET program == <<\hA2, pointer, \h9A, \hA9, byte>> \o code
  IN  [a \in ORIGIN .. ORIGIN + Len(program) - 1 |-> program[a - ORIGIN + 1]]
      @@ \hFFFC :> Low(ORIGIN) @@ \hFFFD :> High(ORIGIN)

\* STA of the first and last bytes of both pages and of their neighbours, which
\* are not text, and of a byte of a page that is not on the screen; INC of a
\* text byte; the two page switches; a read of the keyboard.
Accesses ==
  {<<\h8D, Low(w), High(w)>> :
     w \in {\h03FF, \h0400, \h0478, \h07F7, \h07FF, \h0800, \h0BF7, \h0BFF, \h0C00}}
  \cup {<<\hEE, \h00, \h04>>, <<\hAD, \h54, \hC0>>, <<\hAD, \h55, \hC0>>, <<\hAD, \h00, \hC0>>}

\* What may come between a store and the end: the switches, a key, another store.
Second == {<<\hAD, \h54, \hC0>>, <<\hAD, \h55, \hC0>>, <<\hAD, \h00, \hC0>>, <<\h8D, \h00, \h08>>}

\* JSR to a text page, PHA, PLA, BRK; an illegal opcode follows each program.
Ends == {<<\h20, \h00, \h04>>, <<\h48>>, <<\h68>>, <<\h00>>}

\* The bytes that render treats differently: letters, control codes with and
\* without the high bit, DEL and NOP.
Bytes == {\hC1, \h01, \h9F, \h7F, \hEA}

MCImages ==
       {Image(pointer, \hC1, i \o j \o end) :
          pointer \in {\h01, \hFF}, i \in Accesses, j \in Second, end \in Ends}
  \cup {Image(\hFF, byte, i) : byte \in Bytes, i \in Accesses}
=============================================================================
