-------------------------------- MODULE Cpu --------------------------------
(***************************************************************************)
(* The CPU component: cpu.c and the instruction implementations under      *)
(* cpu/instructions.  Each action is one call of cpu_do_cycle: a fetch, a  *)
(* decode, the fetch of one operand byte, or the execution of the fetched  *)
(* instruction by the function the table names, with the whole of what     *)
(* that function does; Instructions has what those functions compute.      *)
(* emulator_run calls cpu_do_cycle until it returns a trap, so every       *)
(* action waits for last_trap = "OK".                                      *)
(***************************************************************************)
EXTENDS Instructions

CONSTANTS
  Images,   \* the cells a ROM image sets before cpu_init runs
  PowerOn,  \* what malloc may leave in apple2_data_t
  Garbage   \* what an uninitialised byte of emulator_t may hold

ASSUME ImagesAssumption  == \A f \in Images : IsCells(f)
ASSUME PowerOnAssumption == PowerOn \subseteq AppleData
ASSUME GarbageAssumption == Garbage \subseteq Byte

VARIABLES
  regs,                   \* reg_A, reg_X, reg_Y, reg_P, reg_SP and reg_IP
  reg_IR,                 \* the opcode being executed
  state,                  \* what the next cycle does
  remaining_bytes,        \* operand bytes still to fetch
  operands_buffer,        \* operand bytes fetched
  operands_buffer_index,
  last_trap,
  memory,                 \* struct Memory, see Apple2
  ap_data                 \* apple2_data_t, see Apple2

vars == <<regs, reg_IR, state, remaining_bytes, operands_buffer,
          operands_buffer_index, last_trap, memory, ap_data>>

OPERANDS_BUFFER_SIZE == 8

EmptyBuffer == [i \in 0 .. OPERANDS_BUFFER_SIZE - 1 |-> 0]

-----------------------------------------------------------------------------
(* Operands.                                                               *)

Mode == OpcodeData[reg_IR].mode

\* The pointer in two zero-page cells, the second one after the wrap.
ZeroPagePointer(z) ==
  MakeWord(Peek(memory, ZeroPageIndexed(z, 1)), Peek(memory, z))

\* A faulty variant of FirstOperand: an index is added without the carry.
FirstOperand_NoCarry(mode) ==
  LET lo    == operands_buffer[0]
      index == [ABSOLUTE_X |-> regs.X, ABSOLUTE_Y |-> regs.Y, ABSOLUTE |-> 0]
  IN  IF mode \in DOMAIN index
      THEN MakeWord(operands_buffer[1], ToByte(lo + index[mode]))
      ELSE lo

\* cpu_resolve_first_operand.  INDIRECT, whose reads may touch the device, is
\* resolved in JumpIndirect; the modes its switch lacks resolve to 0.
FirstOperand(mode) ==
  LET byte     == operands_buffer[0]
      absolute == MakeWord(operands_buffer[1], operands_buffer[0])
  IN  CASE mode = "ACCUMULATOR" -> regs.A
        [] mode \in {"IMMEDIATE", "RELATIVE", "ZERO_PAGE"} -> byte
        [] mode = "ZERO_PAGE_X" -> ZeroPageIndexed(byte, regs.X)
        [] mode = "ABSOLUTE"    -> absolute
        [] mode = "ABSOLUTE_X"  -> ToWord(absolute + regs.X)
        [] mode = "ABSOLUTE_Y"  -> ToWord(absolute + regs.Y)
        [] mode = "INDIRECT_Y"  -> ToWord(ZeroPagePointer(byte) + regs.Y)
        [] mode = "INDIRECT_X"  -> ZeroPagePointer(ZeroPageIndexed(byte, regs.X))
        [] OTHER -> 0

\* cpu_real_operand, for each character the user may type if it waits for one.
RealOperands ==
  IF IsAddress(Mode)
  THEN {MemoryRead(memory, ap_data, FirstOperand(Mode), chr) : chr \in Stdin}
  ELSE {[success |-> TRUE, value |-> FirstOperand(Mode), data |-> ap_data]}

-----------------------------------------------------------------------------
(* cpu_init, which leaves reg_IR and remaining_bytes as it finds them.     *)

\* A faulty variant of Init: the device data is left as malloc gives it.
Init_NoRequest ==
  /\ \E cells \in Images : memory = [cells |-> cells, size |-> MEMORY_SIZE]
  /\ ap_data \in PowerOn
  /\ regs = [A |-> 0, X |-> 0, Y |-> 0, P |-> EMPTY_STATUS, SP |-> EMPTY_STACK_PTR,
             IP |-> MakeWord(Peek(memory, RESET_VECTOR_HIGH),
                             Peek(memory, RESET_VECTOR_LOW))]
  /\ reg_IR \in Garbage
  /\ remaining_bytes \in Garbage
  /\ operands_buffer = EmptyBuffer
  /\ operands_buffer_index = 0
  /\ state = "FETCH"
  /\ last_trap = "OK"

Init ==
  /\ \E cells \in Images : memory = [cells |-> cells, size |-> MEMORY_SIZE]
  /\ ap_data \in {[d EXCEPT !.term_render_request = TRUE] : d \in PowerOn}
  /\ regs = [A |-> 0, X |-> 0, Y |-> 0, P |-> EMPTY_STATUS, SP |-> EMPTY_STACK_PTR,
             IP |-> MakeWord(Peek(memory, RESET_VECTOR_HIGH),
                             Peek(memory, RESET_VECTOR_LOW))]
  /\ reg_IR \in Garbage
  /\ remaining_bytes \in Garbage
  /\ operands_buffer = EmptyBuffer
  /\ operands_buffer_index = 0
  /\ state = "FETCH"
  /\ last_trap = "OK"

-----------------------------------------------------------------------------
(* cpu_do_cycle: fetching and decoding.                                    *)

Running(s) == last_trap = "OK" /\ state = s

\* A faulty variant of IncrementIP: the counter is wider than a word.
IncrementIP_Wide == regs' = [regs EXCEPT !.IP = @ + 1]

\* cpu_fetch: the byte at reg_IP++.
IncrementIP == regs' = [regs EXCEPT !.IP = ToWord(@ + 1)]

Fetch ==
  /\ Running("FETCH")
  /\ \E chr \in Stdin :
       LET fetched == MemoryRead(memory, ap_data, regs.IP, chr)
       IN  /\ ap_data' = fetched.data
           /\ reg_IR' = fetched.value
           /\ state' = IF fetched.success THEN "DECODE" ELSE state
           /\ last_trap' = IF fetched.success THEN last_trap ELSE "SEGMENTATION_FAULT"
  /\ IncrementIP
  /\ UNCHANGED <<remaining_bytes, operands_buffer, operands_buffer_index, memory>>

\* A faulty variant of Decode: the byte count of the last instruction is kept.
Decode_KeepCount ==
  /\ Running("DECODE")
  /\ state' = IF remaining_bytes = 0 THEN "EXECUTE" ELSE "FETCH_OPERAND"
  /\ last_trap' = IF Legal(reg_IR) THEN last_trap ELSE "ILLEGAL_OPCODE"
  /\ UNCHANGED <<regs, reg_IR, remaining_bytes, operands_buffer,
                 operands_buffer_index, memory, ap_data>>

\* An illegal opcode leaves remaining_bytes alone; the state changes anyway.
Decode ==
  /\ Running("DECODE")
  /\ IF Legal(reg_IR)
     THEN remaining_bytes' = BytesForOperands(Mode) /\ last_trap' = last_trap
     ELSE remaining_bytes' = remaining_bytes /\ last_trap' = "ILLEGAL_OPCODE"
  /\ state' = IF remaining_bytes' = 0 THEN "EXECUTE" ELSE "FETCH_OPERAND"
  /\ UNCHANGED <<regs, reg_IR, operands_buffer, operands_buffer_index, memory, ap_data>>

\* A faulty variant of OperandFetched: the byte count is not decremented.
OperandFetched_NoCount(fetched) ==
  /\ operands_buffer' = [operands_buffer EXCEPT ![operands_buffer_index] = fetched.value]
  /\ operands_buffer_index' = operands_buffer_index + 1
  /\ ap_data' = fetched.data
  /\ IncrementIP
  /\ UNCHANGED <<remaining_bytes, state, last_trap>>

\* A faulty variant of OperandFetched: reg_IP stays where it is.
OperandFetched_NoAdvance(fetched) ==
  /\ operands_buffer' = [operands_buffer EXCEPT ![operands_buffer_index] = fetched.value]
  /\ operands_buffer_index' = operands_buffer_index + 1
  /\ ap_data' = fetched.data
  /\ regs' = regs
  /\ remaining_bytes' = ToByte(remaining_bytes - 1)
  /\ state' = IF remaining_bytes' = 0 THEN "EXECUTE" ELSE state
  /\ last_trap' = last_trap

\* The byte is kept and counted before the success of the read is looked at.
OperandFetched(fetched) ==
  /\ operands_buffer' = [operands_buffer EXCEPT ![operands_buffer_index] = fetched.value]
  /\ operands_buffer_index' = operands_buffer_index + 1
  /\ ap_data' = fetched.data
  /\ IncrementIP
  /\ IF fetched.success
     THEN /\ remaining_bytes' = ToByte(remaining_bytes - 1)
          /\ state' = IF remaining_bytes' = 0 THEN "EXECUTE" ELSE state
          /\ last_trap' = last_trap
     ELSE /\ last_trap' = "SEGMENTATION_FAULT"
          /\ UNCHANGED <<remaining_bytes, state>>

FetchOperand ==
  /\ Running("FETCH_OPERAND")
  /\ IF operands_buffer_index = OPERANDS_BUFFER_SIZE
     THEN /\ last_trap' = "INTERNAL_BUF_OVERFLOW"
          /\ UNCHANGED <<regs, state, remaining_bytes, operands_buffer,
                         operands_buffer_index, ap_data>>
     ELSE \E chr \in Stdin : OperandFetched(MemoryRead(memory, ap_data, regs.IP, chr))
  /\ UNCHANGED <<reg_IR, memory>>

-----------------------------------------------------------------------------
(* cpu_do_cycle: executing.  An instruction that gets past its guard ends  *)
(* in one of the operators below, each of which includes FinishExecute.    *)

Executing(impl) == Running("EXECUTE") /\ OpcodeData[reg_IR].impl = impl

\* A faulty variant of FinishExecute: the operand buffer keeps its index.
FinishExecute_KeepIndex ==
  /\ state' = "FETCH"
  /\ operands_buffer' = EmptyBuffer
  /\ remaining_bytes' = 0
  /\ UNCHANGED <<reg_IR, operands_buffer_index>>

\* A faulty variant of FinishExecute: the state stays EXECUTE.
FinishExecute_Again ==
  /\ operands_buffer' = EmptyBuffer
  /\ operands_buffer_index' = 0
  /\ remaining_bytes' = 0
  /\ UNCHANGED <<reg_IR, state>>

\* What the EXECUTE case does after cpu_exec returns.
FinishExecute ==
  /\ state' = "FETCH"
  /\ operands_buffer' = EmptyBuffer
  /\ operands_buffer_index' = 0
  /\ remaining_bytes' = 0
  /\ UNCHANGED reg_IR

SetRegisters(r) ==
  /\ regs' = r
  /\ UNCHANGED <<last_trap, memory, ap_data>>
  /\ FinishExecute

\* An instruction that reads an operand and returns early if the read failed.
UseOperand(operand, r) ==
  /\ regs' = IF operand.success THEN r ELSE regs
  /\ last_trap' = IF operand.success THEN last_trap ELSE "SEGMENTATION_FAULT"
  /\ ap_data' = operand.data
  /\ UNCHANGED memory
  /\ FinishExecute

\* cpu_exec's own branch for a NULL entry leaves what nop_instr leaves.
Nop ==
  \E impl \in {"nop_instr", NULL_IMPL} :
    /\ Executing(impl)
    /\ last_trap' = IF impl = NULL_IMPL THEN "ILLEGAL_OPCODE" ELSE last_trap
    /\ UNCHANGED <<regs, memory, ap_data>>
    /\ FinishExecute

-----------------------------------------------------------------------------
(* load_store.c and transfer.c                                             *)

LoadRegister ==
  \E impl \in DOMAIN Loads :
    /\ Executing(impl)
    /\ \E operand \in RealOperands :
         UseOperand(operand, Assigned(regs, Loads[impl], operand.value))

StoreRegister ==
  \E impl \in DOMAIN Stores :
    /\ Executing(impl)
    /\ memory' = MemoryAfterWrite(memory, FirstOperand(Mode), regs[Stores[impl]])
    /\ ap_data' = DataAfterWrite(memory, ap_data, FirstOperand(Mode))
    /\ UNCHANGED <<regs, last_trap>>
    /\ FinishExecute

TransferRegisters ==
  \E impl \in DOMAIN Transfers :
    /\ Executing(impl)
    /\ SetRegisters(Assigned(regs, Transfers[impl][2], regs[Transfers[impl][1]]))

-----------------------------------------------------------------------------
(* arithmetic.c, logical.c and compare.c, for the instructions that read   *)
(* an operand.                                                             *)

AddToAccumulator ==
  /\ Executing("add_to_accumulator_instr")
  /\ \E operand \in RealOperands : UseOperand(operand, Added(regs, operand.value))

SubFromAccumulator ==
  /\ Executing("sub_from_accumulator_instr")
  /\ \E operand \in RealOperands : UseOperand(operand, Subtracted(regs, operand.value))

Logical ==
  \E impl \in Logicals :
    /\ Executing(impl)
    /\ \E operand \in RealOperands :
         UseOperand(operand, Assigned(regs, "A", Combined(impl, regs.A, operand.value)))

TestBit ==
  /\ Executing("test_bit_instr")
  /\ \E operand \in RealOperands : UseOperand(operand, Tested(regs, operand.value))

Compare ==
  \E impl \in DOMAIN Comparisons :
    /\ Executing(impl)
    /\ \E operand \in RealOperands :
         UseOperand(operand, Compared(regs, Comparisons[impl], operand.value))

-----------------------------------------------------------------------------
(* The instructions that write back what they read: change_by_one and      *)
(* shifts.c.  A failed read gives 0 and a trap, and they go on.            *)

WriteBack(operand, value, p) ==
  /\ regs' = [regs EXCEPT !.P = p]
  /\ memory' = MemoryAfterWrite(memory, FirstOperand(Mode), value)
  /\ ap_data' = DataAfterWrite(memory, operand.data, FirstOperand(Mode))
  /\ last_trap' = IF operand.success THEN last_trap ELSE "SEGMENTATION_FAULT"
  /\ FinishExecute

StepMemory ==
  \E impl \in DOMAIN MemorySteps :
    /\ Executing(impl)
    /\ \E operand \in RealOperands :
         LET value == ToByte(operand.value + MemorySteps[impl])
         IN  WriteBack(operand, value, ZeroNegative(regs.P, value))

Shift ==
  \E impl \in Shifts :
    /\ Executing(impl)
    /\ \E operand \in RealOperands :
         LET shifted == Shifted(impl, operand.value, CarryOf(regs.P))
             p == ZeroNegative(UpdateFlag(regs.P, CARRY, shifted.carry), shifted.value)
         IN  IF IsAddress(Mode)
             THEN WriteBack(operand, shifted.value, p)
             ELSE SetRegisters([regs EXCEPT !.A = shifted.value, !.P = p])

-----------------------------------------------------------------------------
(* inc_register_instr and dec_register_instr, the flag instructions, and   *)
(* branch.c.                                                               *)

StepRegister ==
  \E impl \in DOMAIN RegisterSteps :
    LET register == RegisterSteps[impl][1]
    IN  /\ Executing(impl)
        /\ SetRegisters(Assigned(regs, register,
                                 ToByte(regs[register] + RegisterSteps[impl][2])))

ChangeFlag ==
  \E impl \in DOMAIN FlagChanges :
    /\ Executing(impl)
    /\ SetRegisters([regs EXCEPT
         !.P = UpdateFlag(@, FlagChanges[impl][1], FlagChanges[impl][2])])

\* A faulty variant of BranchOnFlag: the offset is taken as unsigned.
BranchOnFlag_Unsigned ==
  \E impl \in DOMAIN Branches :
    LET taken == Bit(regs.P, Branches[impl][1]) = Branches[impl][2]
    IN  /\ Executing(impl)
        /\ SetRegisters(
             IF taken THEN [regs EXCEPT !.IP = ToWord(@ + FirstOperand("RELATIVE"))]
                      ELSE regs)

BranchOnFlag ==
  \E impl \in DOMAIN Branches :
    LET taken == Bit(regs.P, Branches[impl][1]) = Branches[impl][2]
    IN  /\ Executing(impl)
        /\ SetRegisters(
             IF taken THEN [regs EXCEPT !.IP = ToWord(@ + Signed(FirstOperand("RELATIVE")))]
                      ELSE regs)

-----------------------------------------------------------------------------
(* stack.c and interrupts.c                                                *)

Stack == [SP |-> regs.SP, memory |-> memory, trap |-> last_trap, value |-> 0]

\* An instruction that leaves the stack s and the registers r, but for SP.
UseStack(s, r) ==
  /\ regs' = [r EXCEPT !.SP = s.SP]
  /\ memory' = s.memory
  /\ last_trap' = s.trap
  /\ UNCHANGED ap_data
  /\ FinishExecute

PushRegister ==
  \E impl \in DOMAIN Pushes :
    /\ Executing(impl)
    /\ UseStack(Push(Stack, regs[Pushes[impl]]), regs)

PullRegister ==
  LET s == Pull(Stack)
  IN  \/ /\ Executing("pull_a_instr")
         /\ UseStack(s, Assigned(regs, "A", s.value))
      \/ /\ Executing("pull_processor_status_instr")
         /\ UseStack(s, [regs EXCEPT !.P = s.value])

JumpSubroutine ==
  LET pushing_address == ToWord(regs.IP - 1)
  IN  /\ Executing("jump_subroutine_instr")
      /\ UseStack(Push(Push(Stack, High(pushing_address)), Low(pushing_address)),
                  [regs EXCEPT !.IP = FirstOperand("ABSOLUTE")])

\* A faulty variant of ReturnFromSubroutine: the pulled address is not counted up.
ReturnFromSubroutine_NoIncrement ==
  LET low  == Pull(Stack)
      high == Pull(low)
  IN  /\ Executing("return_from_subroutine_instr")
      /\ UseStack(high, [regs EXCEPT !.IP = MakeWord(high.value, low.value)])

ReturnFromSubroutine ==
  LET low  == Pull(Stack)
      high == Pull(low)
  IN  /\ Executing("return_from_subroutine_instr")
      /\ UseStack(high, [regs EXCEPT !.IP = ToWord(MakeWord(high.value, low.value) + 1)])

\* A faulty variant of ForceInterrupt: BREAK is set before the flags are pushed.
ForceInterrupt_BreakFirst ==
  LET s == Push(PushWord(Stack, regs.IP), UpdateFlag(regs.P, BREAK, TRUE))
  IN  /\ Executing("force_interrupt_instr")
      /\ UseStack(s, [regs EXCEPT !.IP = IrqVector(s.memory),
                                  !.P = UpdateFlag(@, BREAK, TRUE)])

ForceInterrupt ==
  LET s == Push(PushWord(Stack, regs.IP), regs.P)
  IN  /\ Executing("force_interrupt_instr")
      /\ UseStack(s, [regs EXCEPT !.IP = IrqVector(s.memory),
                                  !.P = UpdateFlag(@, BREAK, TRUE)])

ReturnFromInterrupt ==
  LET status == Pull(Stack)
      low    == Pull(status)
      high   == Pull(low)
  IN  /\ Executing("return_from_interrupt")
      /\ UseStack(high, [regs EXCEPT !.P = status.value,
                                     !.IP = MakeWord(high.value, low.value)])

-----------------------------------------------------------------------------
(* jump_instr.  The two reads of the INDIRECT pointer are operands of one  *)
(* C operator: the compiler chooses which is first, and either may reach   *)
(* the device.                                                             *)

Jump ==
  /\ Executing("jump_instr") /\ Mode = "ABSOLUTE"
  /\ SetRegisters([regs EXCEPT !.IP = FirstOperand("ABSOLUTE")])

JumpIndirect ==
  LET lowAddress  == FirstOperand("ABSOLUTE")
      highAddress == HighPartAddress(lowAddress)
  IN  /\ Executing("jump_instr") /\ Mode = "INDIRECT"
      /\ \E lowFirst \in BOOLEAN, chr \in Stdin :
           LET first  == MemoryRead(memory, ap_data,
                                    IF lowFirst THEN lowAddress ELSE highAddress, chr)
               second == MemoryRead(memory, first.data,
                                    IF lowFirst THEN highAddress ELSE lowAddress, chr)
           IN  /\ regs' = [regs EXCEPT
                    !.IP = IF lowFirst THEN MakeWord(second.value, first.value)
                                       ELSE MakeWord(first.value, second.value)]
               /\ ap_data' = second.data
  /\ UNCHANGED <<last_trap, memory>>
  /\ FinishExecute

-----------------------------------------------------------------------------
Next ==
  \/ Fetch \/ Decode \/ FetchOperand
  \/ Nop \/ LoadRegister \/ StoreRegister \/ TransferRegisters
  \/ AddToAccumulator \/ SubFromAccumulator \/ Logical \/ TestBit \/ Compare
  \/ StepMemory \/ Shift \/ StepRegister \/ ChangeFlag \/ BranchOnFlag
  \/ PushRegister \/ PullRegister \/ JumpSubroutine \/ ReturnFromSubroutine
  \/ ForceInterrupt \/ ReturnFromInterrupt \/ Jump \/ JumpIndirect

Spec == Init /\ [][Next]_vars

\* The addresses outside the zero page and the stack that the next cycle reads.
NextReads ==
  CASE state \in {"FETCH", "FETCH_OPERAND"} -> {regs.IP}
    [] state = "EXECUTE" /\ Mode = "INDIRECT" ->
         {FirstOperand("ABSOLUTE"), HighPartAddress(FirstOperand("ABSOLUTE"))}
    [] state = "EXECUTE" /\ IsAddress(Mode)
         /\ OpcodeData[reg_IR].impl \notin
              DOMAIN Stores \cup {"jump_instr", "jump_subroutine_instr"} ->
         {FirstOperand(Mode)}
    [] OTHER -> {}

\* The next cycle will wait in getchar() until the user types.
WaitingForKey ==
  /\ last_trap = "OK"
  /\ \E address \in NextReads : WaitsForKey(memory, ap_data, address)

\* emulator_run calls cpu_do_cycle again and again, and only getchar() can keep
\* a call from returning; nothing is assumed of the user.
Fairness == WF_vars(Next /\ ~WaitingForKey)

LiveSpec == Spec /\ Fairness
=============================================================================
