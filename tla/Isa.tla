-------------------------------- MODULE Isa --------------------------------
(***************************************************************************)
(* The machine a program is written for: each step executes one whole      *)
(* instruction.  It reads the opcode and the operand bytes at reg_IP, in   *)
(* this order, and does what the instruction does; there is no pipeline,   *)
(* no operand buffer and nothing left over from the instruction before.    *)
(* Cpu, which spreads an instruction over up to four calls of              *)
(* cpu_do_cycle, implements it: see Pipeline.                              *)
(***************************************************************************)
EXTENDS Instructions

CONSTANTS Images, PowerOn

VARIABLES regs, memory, ap_data, last_trap

isaVars == <<regs, memory, ap_data, last_trap>>

Init ==
  /\ memory.cells \in Images
  /\ memory = [cells |-> memory.cells, size |-> MEMORY_SIZE]
  /\ ap_data \in {[d EXCEPT !.term_render_request = TRUE] : d \in PowerOn}
  /\ regs = [A |-> 0, X |-> 0, Y |-> 0, P |-> EMPTY_STATUS, SP |-> EMPTY_STACK_PTR,
             IP |-> MakeWord(ByteAt(memory, RESET_VECTOR_HIGH),
                             ByteAt(memory, RESET_VECTOR_LOW))]
  /\ last_trap = "OK"

-----------------------------------------------------------------------------
\* What a read of address by a device in state d may return.
Reads(d, address) == {MemoryRead(memory, d, address, chr) : chr \in Stdin}

\* Nothing is read: an instruction has fewer operand bytes.
NoRead(d) == {[value |-> 0, data |-> d]}

\* The address that an operand of one or two bytes, lo and hi, stands for in the
\* modes that have one; the table has no other but ZERO_PAGE_Y, which gives 0.
Effective(mode, lo, hi) ==
  LET pointer(z) == MakeWord(ByteAt(memory, ToByte(z + 1)), ByteAt(memory, ToByte(z)))
      index == [ABSOLUTE_X |-> regs.X, ABSOLUTE_Y |-> regs.Y]
  IN  CASE mode = "ZERO_PAGE"    -> lo
        [] mode = "ZERO_PAGE_X"  -> ToByte(lo + regs.X)
        [] mode = "ABSOLUTE"     -> MakeWord(hi, lo)
        [] mode \in DOMAIN index -> ToWord(MakeWord(hi, lo) + index[mode])
        [] mode = "INDIRECT_X"   -> pointer(lo + regs.X)
        [] mode = "INDIRECT_Y"   -> ToWord(pointer(lo) + regs.Y)
        [] OTHER -> 0

\* The registers after an instruction that only uses the value v of its operand.
Uses == DOMAIN Loads \cup DOMAIN Comparisons \cup Logicals
        \cup {"add_to_accumulator_instr", "sub_from_accumulator_instr", "test_bit_instr"}

Used(impl, r, v) ==
  CASE impl \in DOMAIN Loads       -> Assigned(r, Loads[impl], v)
    [] impl \in DOMAIN Comparisons -> Compared(r, Comparisons[impl], v)
    [] impl \in Logicals           -> Assigned(r, "A", Combined(impl, r.A, v))
    [] impl = "add_to_accumulator_instr"   -> Added(r, v)
    [] impl = "sub_from_accumulator_instr" -> Subtracted(r, v)
    [] impl = "test_bit_instr"             -> Tested(r, v)

\* The byte and the flags of an instruction that changes its operand in place.
Changes == DOMAIN MemorySteps \cup Shifts

Changed(impl, p, v) ==
  IF impl \in Shifts
  THEN LET shifted == Shifted(impl, v, CarryOf(p))
       IN  [value |-> shifted.value,
            P |-> ZeroNegative(UpdateFlag(p, CARRY, shifted.carry), shifted.value)]
  ELSE LET value == ToByte(v + MemorySteps[impl])
       IN  [value |-> value, P |-> ZeroNegative(p, value)]

\* The registers after an instruction that has to do with registers only.
Internal == DOMAIN Transfers \cup DOMAIN RegisterSteps \cup DOMAIN FlagChanges
            \cup DOMAIN Branches \cup {"nop_instr"}

Internally(impl, r, offset) ==
  CASE impl \in DOMAIN Transfers ->
         Assigned(r, Transfers[impl][2], r[Transfers[impl][1]])
    [] impl \in DOMAIN RegisterSteps ->
         LET x == RegisterSteps[impl][1]
         IN  Assigned(r, x, ToByte(r[x] + RegisterSteps[impl][2]))
    [] impl \in DOMAIN FlagChanges ->
         [r EXCEPT !.P = UpdateFlag(@, FlagChanges[impl][1], FlagChanges[impl][2])]
    [] impl \in DOMAIN Branches ->
         IF Bit(r.P, Branches[impl][1]) = Branches[impl][2]
         THEN [r EXCEPT !.IP = ToWord(@ + Signed(offset))] ELSE r
    [] impl = "nop_instr" -> r

\* The registers and the stack after an instruction that pushes or pulls, given
\* the stack s before it and the operand address of JSR.
Stacking ==
  DOMAIN Pushes \cup {"pull_a_instr", "pull_processor_status_instr",
    "jump_subroutine_instr", "return_from_subroutine_instr",
    "force_interrupt_instr", "return_from_interrupt"}

Stacked(impl, r, s, target) ==
  LET after(stack, registers) == [stack |-> stack, regs |-> registers]
      one   == Pull(s)
      two   == Pull(one)
      three == Pull(two)
      back  == ToWord(r.IP - 1)
      saved == Push(PushWord(s, r.IP), r.P)
  IN  CASE impl \in DOMAIN Pushes -> after(Push(s, r[Pushes[impl]]), r)
        [] impl = "pull_a_instr"  -> after(one, Assigned(r, "A", one.value))
        [] impl = "pull_processor_status_instr" -> after(one, [r EXCEPT !.P = one.value])
        [] impl = "jump_subroutine_instr" ->
             after(Push(Push(s, High(back)), Low(back)), [r EXCEPT !.IP = target])
        [] impl = "return_from_subroutine_instr" ->
             after(two, [r EXCEPT !.IP = ToWord(MakeWord(two.value, one.value) + 1)])
        [] impl = "force_interrupt_instr" ->
             after(saved, [r EXCEPT !.IP = IrqVector(saved.memory),
                                    !.P = UpdateFlag(@, BREAK, TRUE)])
        [] impl = "return_from_interrupt" ->
             after(three, [r EXCEPT !.P = one.value,
                                    !.IP = MakeWord(three.value, two.value)])

-----------------------------------------------------------------------------
\* The instruction in row of the table, with its operand bytes; r are the
\* registers after the fetch, which has left the device in state d.
Execute(row, lo, hi, r, d) ==
  LET impl    == row.impl
      address == Effective(row.mode, lo, hi)
  IN  \/ /\ impl \in Uses
         /\ \E v \in IF IsAddress(row.mode) THEN Reads(d, address)
                     ELSE {[value |-> lo, data |-> d]} :
              regs' = Used(impl, r, v.value) /\ ap_data' = v.data
         /\ UNCHANGED <<memory, last_trap>>
      \/ /\ impl \in DOMAIN Stores
         /\ memory' = MemoryAfterWrite(memory, address, r[Stores[impl]])
         /\ ap_data' = DataAfterWrite(memory, d, address)
         /\ regs' = r
         /\ UNCHANGED last_trap
      \/ /\ impl \in Changes /\ row.mode = "ACCUMULATOR"
         /\ LET result == Changed(impl, r.P, r.A)
            IN  regs' = [r EXCEPT !.A = result.value, !.P = result.P]
         /\ ap_data' = d
         /\ UNCHANGED <<memory, last_trap>>
      \/ /\ impl \in Changes /\ row.mode # "ACCUMULATOR"
         /\ \E v \in Reads(d, address) :
              LET result == Changed(impl, r.P, v.value)
              IN  /\ regs' = [r EXCEPT !.P = result.P]
                  /\ memory' = MemoryAfterWrite(memory, address, result.value)
                  /\ ap_data' = DataAfterWrite(memory, v.data, address)
         /\ UNCHANGED last_trap
      \/ /\ impl \in Internal
         /\ regs' = Internally(impl, r, lo)
         /\ ap_data' = d
         /\ UNCHANGED <<memory, last_trap>>
      \/ /\ impl \in Stacking
         /\ LET s == [SP |-> r.SP, memory |-> memory, trap |-> last_trap, value |-> 0]
                result == Stacked(impl, r, s, MakeWord(hi, lo))
            IN  /\ regs' = [result.regs EXCEPT !.SP = result.stack.SP]
                /\ memory' = result.stack.memory
                /\ last_trap' = result.stack.trap
         /\ ap_data' = d
      \/ /\ impl = "jump_instr" /\ row.mode = "ABSOLUTE"
         /\ regs' = [r EXCEPT !.IP = address]
         /\ ap_data' = d
         /\ UNCHANGED <<memory, last_trap>>
      \/ /\ impl = "jump_instr" /\ row.mode = "INDIRECT"
         /\ LET at == [lo |-> MakeWord(hi, lo), hi |-> HighPartAddress(MakeWord(hi, lo))]
            IN  \E order \in {<<"lo", "hi">>, <<"hi", "lo">>} :
                  \E first \in Reads(d, at[order[1]]) :
                    \E second \in Reads(first.data, at[order[2]]) :
                      LET part == [p \in DOMAIN at |-> IF p = order[1] THEN first.value
                                                           ELSE second.value]
                      IN  /\ regs' = [r EXCEPT !.IP = MakeWord(part.hi, part.lo)]
                          /\ ap_data' = second.data
         /\ UNCHANGED <<memory, last_trap>>

\* One instruction, with the fetch of its bytes.
Instruction ==
  /\ last_trap = "OK"
  /\ \E opcode \in Reads(ap_data, regs.IP) :
       LET row   == OpcodeData[opcode.value]
           bytes == BytesForOperands(row.mode)
           Operand(i, d) == IF i <= bytes THEN Reads(d, ToWord(regs.IP + i)) ELSE NoRead(d)
       IN  /\ Legal(opcode.value)
           /\ \E lo \in Operand(1, opcode.data) :
                \E hi \in Operand(2, lo.data) :
                  Execute(row, lo.value, hi.value,
                          [regs EXCEPT !.IP = ToWord(@ + 1 + bytes)], hi.data)

\* A byte that is no instruction stops the machine after it.
IllegalOpcode ==
  /\ last_trap = "OK"
  /\ \E opcode \in Reads(ap_data, regs.IP) :
       /\ ~Legal(opcode.value)
       /\ ap_data' = opcode.data
  /\ regs' = [regs EXCEPT !.IP = ToWord(@ + 1)]
  /\ last_trap' = "ILLEGAL_OPCODE"
  /\ UNCHANGED memory

Next == Instruction \/ IllegalOpcode

Spec == Init /\ [][Next]_isaVars
=============================================================================
