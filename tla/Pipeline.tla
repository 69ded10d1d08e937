------------------------------ MODULE Pipeline ------------------------------
(***************************************************************************)
(* cpu_do_cycle implements Isa: whatever the cycles of an instruction do   *)
(* in between, at its end they have executed it as in one step.            *)
(*                                                                         *)
(* Seen from Isa, an instruction that is under way has not begun: reg_IP   *)
(* still points to it, and what its fetches did to the device is not done. *)
(* The latter cannot be computed from the state, so ap_data_before is a    *)
(* history variable that keeps it.                                         *)
(***************************************************************************)
EXTENDS CpuProperties

VARIABLE ap_data_before   \* the device when the current instruction began

pipelineVars == <<vars, ap_data_before>>

PipelineInit == Init /\ ap_data_before = ap_data

PipelineNext ==
  /\ Next
  /\ ap_data_before' = IF state' = "FETCH" THEN ap_data' ELSE ap_data_before

PipelineSpec == PipelineInit /\ [][PipelineNext]_pipelineVars

-----------------------------------------------------------------------------
\* No instruction is under way; one whose opcode is illegal ends in the DECODE
\* case.
BetweenSteps == state = "FETCH" \/ last_trap # "OK"

\* The address of the instruction under way.
Start == ToWord(regs.IP - 1 - operands_buffer_index)

Atomic ==
  INSTANCE Isa WITH
    regs    <- IF BetweenSteps THEN regs ELSE [regs EXCEPT !.IP = Start],
    ap_data <- IF BetweenSteps THEN ap_data ELSE ap_data_before

\* Every behaviour of the pipeline is one of the machine that executes a whole
\* instruction in one step: with the opcode and operands that memory holds, from
\* the registers the last instruction left, and with every access to the device
\* in the order of the bytes and exactly once.
ImplementsIsa == Atomic!Spec
=============================================================================
