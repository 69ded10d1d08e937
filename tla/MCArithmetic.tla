---------------------------- MODULE MCArithmetic ----------------------------
(***************************************************************************)
(* Each arithmetic, compare and shift instruction on the bytes where a     *)
(* carry, a borrow, a sign or a half of the byte changes.                  *)
(***************************************************************************)
EXTENDS Arithmetic, Sequences, TLC

ORIGIN == \h0300

MCHeap    == [a \in Word |-> \h02]
MCStdin   == {-1}
MCGarbage == {\h00}

MCPowerOn ==
  {[video_mode |-> "TEXT", page |-> "PRIM", res |-> "LO", term_render_request |-> TRUE,
    keyboard_latch |-> \h00, keyboard_ready |-> FALSE]}

CLC == \h18
SEC == \h38

\* The code and the byte v in the zero-page cell 0x0040.
Image(code, v) ==
     [a \in ORIGIN .. ORIGIN + Len(code) - 1 |-> code[a - ORIGIN + 1]]
  @@ \hFFFC :> Low(ORIGIN) @@ \hFFFD :> High(ORIGIN) @@ \h0040 :> v

Edges == {\h00, \h01, \h40, \h55, \h7F, \h80, \h81, \hAA, \hC0, \hFE, \hFF}

\* LDA, LDX and LDY #a; then ADC, SBC, CMP, CPX, CPY of the cell.
BinaryTests ==
  {Image(<<\hA9, a, \hA2, a, \hA0, a, carry, op, \h40>>, v) :
     a, v \in Edges, carry \in {CLC, SEC}, op \in {\h65, \hE5, \hC5, \hE4, \hC4}}

\* ADC and SBC of an immediate operand, twice, so that the second starts from
\* the flags the first has left.
ChainTests ==
  {Image(<<\hA9, a, carry, op, v, op, v>>, v) :
     a, v \in Edges, carry \in {CLC, SEC}, op \in {\h69, \hE9}}

\* ASL, LSR, ROL, ROR of the cell, then of the accumulator.
ShiftTests ==
  {Image(<<\hA9, v, carry, ops[1], \h40, ops[2]>>, v) :
     v \in Edges, carry \in {CLC, SEC},
     ops \in {<<\h06, \h0A>>, <<\h46, \h4A>>, <<\h26, \h2A>>, <<\h66, \h6A>>}}

MCImages == BinaryTests \cup ChainTests \cup ShiftTests
=============================================================================
