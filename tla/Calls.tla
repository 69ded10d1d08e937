------------------------------- MODULE Calls -------------------------------
(***************************************************************************)
(* The stack as a program sees it: the CPU with a history variable that    *)
(* remembers each subroutine call and interrupt whose return address is    *)
(* still on the stack.  A program that stores into the stack page by other *)
(* means than the stack instructions is left out by the choice of Images.  *)
(***************************************************************************)
EXTENDS Cpu

VARIABLE frames   \* the calls and interrupts not yet returned from

callVars == <<vars, frames>>

Frames ==
  [kind : {"call", "interrupt"}, SP : Byte, ret : Word, status : Byte]

FrameKinds == [jump_subroutine_instr |-> "call", force_interrupt_instr |-> "interrupt"]

CallInit == Init /\ frames = {}

\* The frame a step pushes, with the address and status it must come back to.
Pushed ==
  {[kind |-> FrameKinds[impl], SP |-> regs'.SP, ret |-> regs.IP, status |-> regs.P] :
     impl \in {i \in DOMAIN FrameKinds : Executing(i) /\ last_trap' = "OK"}}

\* A frame is gone once the pointer has moved above it.
CallNext ==
  /\ Next
  /\ frames' = {f \in frames : regs'.SP <= f.SP} \cup Pushed

CallSpec == CallInit /\ [][CallNext]_callVars

-----------------------------------------------------------------------------
\* Each frame is a record of the right shape, at a height of its own.
FramesOK ==
  /\ frames \subseteq Frames
  /\ \A f, g \in frames : f.SP = g.SP => f = g
  /\ \A f \in frames : regs.SP <= f.SP

\* The return addresses of all calls still open are in the stack page as JSR
\* left them: nothing pushed or pulled since has written over one, even when the
\* stack is full, where push_onto_stack_instr must trap before reg_SP wraps.
FramesIntact ==
  \A f \in frames : f.kind = "call" =>
    LET top == STACK_LOWEST_ADDRESS + f.SP
    IN  MakeWord(Peek(memory, top + 2), Peek(memory, top + 1)) = ToWord(f.ret - 1)

\* RTS, when the pointer is back where JSR left it, goes on with the instruction
\* after the JSR, however calls, pushes and interrupts nested in between.
ReturnMatchesCall ==
  [][\A f \in frames :
       /\ Executing("return_from_subroutine_instr")
       /\ f.kind = "call" /\ f.SP = regs.SP
       => regs'.IP = f.ret /\ regs'.SP = f.SP + 2 /\ last_trap' = "OK"]_callVars

\* RTI, when the pointer is back where BRK left it, restores the flags that BRK
\* found, BREAK included.
StatusSurvivesInterrupt ==
  [][\A f \in frames :
       /\ Executing("return_from_interrupt")
       /\ f.kind = "interrupt" /\ f.SP = regs.SP
       => regs'.P = f.status /\ last_trap' = "OK"]_callVars

\* README.md claims full accordance to the 6502 specification, where RTI takes
\* the program back to the interrupted code: to the byte after BRK or, as on the
\* 6502 itself, the one that follows it.
InterruptReturns ==
  [][\A f \in frames :
       /\ Executing("return_from_interrupt")
       /\ f.kind = "interrupt" /\ f.SP = regs.SP
       => regs'.IP \in {f.ret, ToWord(f.ret + 1)}]_callVars
=============================================================================
