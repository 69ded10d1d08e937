---------------------------- MODULE Composition -----------------------------
(***************************************************************************)
(* The loop of emulator_run against the abstract machines: Cpu, and Isa,   *)
(* which executes a whole instruction in one step.  The rendering leaves   *)
(* the machine alone but for the request to redraw, which no instruction   *)
(* looks at and the processor alone never clears.  So Machine is the       *)
(* emulator's state with that request always set.                          *)
(*                                                                         *)
(* Machine instantiates the proofs about Pipeline and not Pipeline alone:  *)
(* what they show of every behaviour of cpu_do_cycle holds under the       *)
(* mapping too.                                                            *)
(***************************************************************************)
EXTENDS Emulator

VARIABLE ap_data_before   \* the history variable of Pipeline, as Machine has it

composedVars == <<emulatorVars, ap_data_before>>

\* What Machine takes the device to be.
Masked(d) == [d EXCEPT !.term_render_request = TRUE]

ComposedInit == EmulatorInit /\ ap_data_before = Masked(ap_data)

ComposedCycle ==
  /\ Cycle
  /\ ap_data_before' = IF state' = "FETCH" THEN Masked(ap_data') ELSE ap_data_before

ComposedRender == Render /\ UNCHANGED ap_data_before

ComposedNext == ComposedCycle \/ ComposedRender

ComposedSpec ==
  ComposedInit /\ [][ComposedNext]_composedVars /\ EmulatorFairness

-----------------------------------------------------------------------------
Machine ==
  INSTANCE PipelineProofs WITH ap_data <- [ap_data EXCEPT !.term_render_request = TRUE]

\* Every behaviour of the emulator is one of cpu_do_cycle called over and over: the
\* renderings in between neither lose a store nor touch a key or a switch.  So what
\* is proved of Cpu holds of the emulator.
ImplementsCpu == Machine!Spec

\* Every behaviour of the emulator, with two to four cycles to an instruction and a
\* rendering after each, is one of the machine that executes a whole instruction in
\* one step.
LoopImplementsIsa == Machine!ImplementsIsa
=============================================================================
