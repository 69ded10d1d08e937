------------------------------ MODULE MCCalls ------------------------------
(***************************************************************************)
(* Programs of three instructions that call, push, pull and interrupt, on  *)
(* a stack with room for two bytes, a little more, or empty.                *)
(***************************************************************************)
EXTENDS Calls, Sequences, TLC

ORIGIN  == \h0310   \* its low byte does not fit in four bits
HANDLER == \h0400

MCHeap    == [a \in Word |-> \h02]
MCStdin   == {-1}
MCGarbage == {\h00}

MCPowerOn ==
  {[video_mode |-> "TEXT", page |-> "PRIM", res |-> "LO", term_render_request |-> TRUE,
    keyboard_latch |-> \h00, keyboard_ready |-> FALSE]}

CellsAt(origin, code) ==
  [a \in origin .. origin + Len(code) - 1 |-> code[a - origin + 1]]

\* LDX #pointer, TXS, and three slots of three bytes; BRK goes to the handler.
Image(pointer, slots, handler) ==
     CellsAt(ORIGIN, <<\hA2, pointer, \h9A>> \o slots[1] \o slots[2] \o slots[3])
  @@ CellsAt(HANDLER, handler)
  @@ \hFFFC :> Low(ORIGIN) @@ \hFFFD :> High(ORIGIN)
  @@ \hFFFE :> Low(HANDLER) @@ \hFFFF :> High(HANDLER)

NOP == \hEA

\* JSR to each slot, RTS, PHA, PLA, PHP, PLP and BRK.
Slots ==
  {<<\h20, Low(ORIGIN + 3 * i), High(ORIGIN)>> : i \in 1 .. 3}
  \cup {<<op, NOP, NOP>> : op \in {\h60, \h48, \h68, \h08, \h28, \h00}}

\* SEC and RTI, and a handler that pushes a byte too many.
Handlers == {<<\h38, \h40>>, <<\h48, \h40>>}

\* With an empty stack the slots hold no JSR, which could fill it.
MCImages ==
       {Image(pointer, slots, handler) : pointer \in {\h02, \h05, \h0A},
          slots \in [1 .. 3 -> Slots], handler \in Handlers}
  \cup {Image(\hFF, slots, handler) :
          slots \in [1 .. 3 -> {s \in Slots : s[1] # \h20}], handler \in Handlers}

\* A single BRK on an empty stack, for the run about its return address.
InterruptImages ==
  {Image(\hFF, <<(<<\h00, NOP, NOP>>), (<<NOP, NOP, op>>), (<<NOP, NOP, NOP>>)>>, <<\h40>>) :
     op \in {NOP, \h38, \h18, \hE8}}
=============================================================================
