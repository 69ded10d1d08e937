---------------------------- MODULE Instructions ----------------------------
(***************************************************************************)
(* The part of the instructions that is a function of what they are given: *)
(* the flags (cpu.c), the tables of which register or flag an instruction  *)
(* is about, the results of arithmetic, logic and shifts, and the stack    *)
(* (cpu/instructions).  When an instruction runs is for Cpu and Isa.       *)
(***************************************************************************)
EXTENDS Apple2, Opcodes

Registers == [A : Byte, X : Byte, Y : Byte, P : Byte, SP : Byte, IP : Word]

Traps == {"OK", "ILLEGAL_OPCODE", "SEGMENTATION_FAULT", "STACK_OVERFLOW",
          "STACK_UNDERFLOW", "INTERNAL_BUF_OVERFLOW"}

-----------------------------------------------------------------------------
(* The status register: a flag is its mask.                                *)

CARRY        == \h01
ZERO         == \h02
INTERRUPT    == \h04
DECIMAL      == \h08
BREAK        == \h10
EMPTY_STATUS == \h20
OVERFLOW_    == \h40
NEGATIVE     == \h80

\* A faulty variant of UpdateFlag: a flag once set is never cleared.
UpdateFlag_SetOnly(p, flag, cond) == IF cond THEN SetBit(p, flag) ELSE p

\* cpu_status_flag_set if cond holds, cpu_status_flag_clear if not.
UpdateFlag(p, flag, cond) == IF cond THEN SetBit(p, flag) ELSE ClearBit(p, flag)

\* cpu_update_zero_and_negative_flags
ZeroNegative(p, value) ==
  UpdateFlag(UpdateFlag(p, ZERO, value = 0), NEGATIVE, Bit(value, NEGATIVE))

\* The condition of cpu_update_overflow_flag_in_arithmetic.
OverflowCondition(a, result, value) ==
  /\ Bit(value, NEGATIVE) = Bit(a, NEGATIVE)
  /\ Bit(result, NEGATIVE) # Bit(value, NEGATIVE)

CarryOf(p) == IF Bit(p, CARRY) THEN 1 ELSE 0

\* A register given a value, with the flags that follow it.
Assigned(r, register, value) ==
  [r EXCEPT ![register] = value, !.P = ZeroNegative(r.P, value)]

-----------------------------------------------------------------------------
(* Addresses, and the registers and vectors with a meaning of their own.   *)

\* *return_value_is_address after cpu_resolve_first_operand.
IsAddress(mode) == mode \notin {"ACCUMULATOR", "IMMEDIATE", "RELATIVE"}

\* A faulty variant of ZeroPageIndexed: the sum is not cut to the zero page.
ZeroPageIndexed_Overrun(base, index) == base + index

ZeroPageIndexed(base, index) == ToByte(base + index)

\* calculate_buggy_address_of_hi_part
HighPartAddress(address) ==
  IF Low(address) # \hFF THEN address + 1 ELSE address - \hFF

RESET_VECTOR_LOW  == \hFFFC
RESET_VECTOR_HIGH == \hFFFD
EMPTY_STACK_PTR   == \hFF

-----------------------------------------------------------------------------
(* load_store.c and transfer.c                                             *)

Loads  == [load_a_instr |-> "A", load_x_instr |-> "X", load_y_instr |-> "Y"]
Stores == [store_a_instr |-> "A", store_x_instr |-> "X", store_y_instr |-> "Y"]

Transfers == [
  transfer_a_to_x_instr  |-> <<"A", "X">>,  transfer_a_to_y_instr  |-> <<"A", "Y">>,
  transfer_x_to_a_instr  |-> <<"X", "A">>,  transfer_y_to_a_instr  |-> <<"Y", "A">>,
  transfer_sp_to_x_instr |-> <<"SP", "X">>, transfer_x_to_sp_instr |-> <<"X", "SP">>]

-----------------------------------------------------------------------------
(* arithmetic.c, logical.c and compare.c, for the instructions that read   *)
(* an operand: the registers after each as a function of those before, r,  *)
(* and of the operand, v.  DECIMAL is not looked at.                       *)

\* A register set to the low part of a result, with all four flags.
ArithmeticResult(r, result, v, carry) ==
  LET flags == UpdateFlag(UpdateFlag(r.P, OVERFLOW_,
                                     OverflowCondition(r.A, Low(result), v)),
                          CARRY, carry)
  IN  Assigned([r EXCEPT !.P = flags], "A", Low(result))

\* A faulty variant of Added: the carry of the last addition is ignored.
Added_NoCarry(r, v) ==
  LET result == v + r.A
  IN  ArithmeticResult(r, result, v, result > \hFF)

Added(r, v) ==
  LET result == v + r.A + CarryOf(r.P)
  IN  ArithmeticResult(r, result, v, result > \hFF)

\* A faulty variant of Subtracted: the carry is set when there is a borrow.
Subtracted_Borrow(r, v) ==
  LET result == ToWord(r.A - v - (1 - CarryOf(r.P)))
  IN  ArithmeticResult(r, result, v, result >= \h100)

\* A borrow makes the word_t result wrap past 0xFF.
Subtracted(r, v) ==
  LET result == ToWord(r.A - v - (1 - CarryOf(r.P)))
  IN  ArithmeticResult(r, result, v, result < \h100)

Logicals == {"and_with_accumulator_instr", "or_with_accumulator_instr",
             "exclusive_or_instr"}

Combined(impl, a, v) ==
  CASE impl = "and_with_accumulator_instr" -> And(a, v)
    [] impl = "or_with_accumulator_instr"  -> Or(a, v)
    [] impl = "exclusive_or_instr"         -> Xor(a, v)

Tested(r, v) ==
  LET flags == UpdateFlag(UpdateFlag(r.P, ZERO, And(r.A, v) = 0), NEGATIVE, Bit(v, NEGATIVE))
  IN  [r EXCEPT !.P = UpdateFlag(flags, OVERFLOW_, Bit(v, \h40))]

Comparisons == [cmp_instr |-> "A", cpx_instr |-> "X", cpy_instr |-> "Y"]

\* A faulty variant of Compared: equal operands clear the carry.
Compared_Strict(r, register, v) ==
  [r EXCEPT !.P = UpdateFlag(ZeroNegative(r.P, ToByte(r[register] - v)),
                             CARRY, r[register] > v)]

Compared(r, register, v) ==
  [r EXCEPT !.P = UpdateFlag(ZeroNegative(r.P, ToByte(r[register] - v)),
                             CARRY, r[register] >= v)]

-----------------------------------------------------------------------------
(* change_by_one, shifts.c, the flag instructions of flags.h and branch.c. *)

MemorySteps == [inc_memory_instr |-> 1, dec_memory_instr |-> -1]

RegisterSteps == [inc_x_instr |-> <<"X", 1>>, inc_y_instr |-> <<"Y", 1>>,
                  dec_x_instr |-> <<"X", -1>>, dec_y_instr |-> <<"Y", -1>>]

Shifts == {"arithmetic_shift_left", "logical_shift_right_instr",
           "rotate_left", "rotate_right"}

\* A faulty variant of Shifted: a rotation takes in the bit it shifts out.
Shifted_Circular(impl, v, carryIn) ==
  LET left == impl \in {"arithmetic_shift_left", "rotate_left"}
      carry == Bit(v, IF left THEN \h80 ELSE 1)
  IN  [carry |-> carry,
       value |-> (IF left THEN ToByte(2 * v) ELSE v \div 2)
                 + (IF impl \in {"rotate_left", "rotate_right"} /\ carry
                    THEN IF left THEN 1 ELSE \h80 ELSE 0)]

\* The byte a shift leaves and the bit it shifts out.
Shifted(impl, v, carryIn) ==
  CASE impl = "arithmetic_shift_left" ->
         [value |-> ToByte(2 * v), carry |-> Bit(v, \h80)]
    [] impl = "logical_shift_right_instr" ->
         [value |-> v \div 2, carry |-> Bit(v, 1)]
    [] impl = "rotate_left" ->
         [value |-> ToByte(2 * v) + carryIn, carry |-> Bit(v, \h80)]
    [] impl = "rotate_right" ->
         [value |-> (v \div 2) + \h80 * carryIn, carry |-> Bit(v, 1)]

FlagChanges == [
  clc_instr |-> <<CARRY, FALSE>>,     sec_instr |-> <<CARRY, TRUE>>,
  cld_instr |-> <<DECIMAL, FALSE>>,   sed_instr |-> <<DECIMAL, TRUE>>,
  cli_instr |-> <<INTERRUPT, FALSE>>, sei_instr |-> <<INTERRUPT, TRUE>>,
  clv_instr |-> <<OVERFLOW_, FALSE>>]

Branches == [
  bcc_instr |-> <<CARRY, FALSE>>,     bcs_instr |-> <<CARRY, TRUE>>,
  bne_instr |-> <<ZERO, FALSE>>,      beq_instr |-> <<ZERO, TRUE>>,
  bpl_instr |-> <<NEGATIVE, FALSE>>,  bmi_instr |-> <<NEGATIVE, TRUE>>,
  bvc_instr |-> <<OVERFLOW_, FALSE>>, bvs_instr |-> <<OVERFLOW_, TRUE>>]

-----------------------------------------------------------------------------
(* stack.c and interrupts.c.  A push or pull takes and returns a record of *)
(* what it works on: the pointer, the memory, the trap, and for a pull the *)
(* byte read.  A trap does not stop the instruction that pushes.           *)

STACK_LOWEST_ADDRESS == \h0100
FULL_STACK_PTR       == 0

\* A faulty variant of Push: a full stack is not noticed.
Push_Wrap(s, value) ==
  [s EXCEPT !.SP = ToByte(@ - 1),
            !.memory = MemoryAfterWrite(@, STACK_LOWEST_ADDRESS + s.SP, value)]

\* A faulty variant of Push: the pointer stays where it is.
Push_KeepPointer(s, value) ==
  IF s.SP = FULL_STACK_PTR
  THEN [s EXCEPT !.trap = "STACK_OVERFLOW"]
  ELSE [s EXCEPT !.memory = MemoryAfterWrite(@, STACK_LOWEST_ADDRESS + s.SP, value)]

\* push_onto_stack_instr
Push(s, value) ==
  IF s.SP = FULL_STACK_PTR
  THEN [s EXCEPT !.trap = "STACK_OVERFLOW"]
  ELSE [s EXCEPT !.SP = @ - 1,
                 !.memory = MemoryAfterWrite(@, STACK_LOWEST_ADDRESS + s.SP, value)]

\* pull_from_stack_instr
Pull(s) ==
  LET address == STACK_LOWEST_ADDRESS + s.SP + 1
  IN  IF s.SP = EMPTY_STACK_PTR
      THEN [s EXCEPT !.trap = "STACK_UNDERFLOW", !.value = 0]
      ELSE [s EXCEPT !.SP = @ + 1,
                     !.value = Peek(s.memory, address),
                     !.trap = IF Accessible(s.memory, address) THEN @
                              ELSE "SEGMENTATION_FAULT"]

Pushes == [push_a_instr |-> "A", push_processor_status_instr |-> "P"]

IRQ_VECTOR_LOW  == \hFFFE
IRQ_VECTOR_HIGH == \hFFFF

\* read_irq_vector; the ROM page has no effect on the device.
IrqVector(m) ==
  IF Accessible(m, IRQ_VECTOR_HIGH)
  THEN MakeWord(Peek(m, IRQ_VECTOR_HIGH), Peek(m, IRQ_VECTOR_LOW)) ELSE 0

\* push_word_onto_stack: the low part is cut to four bits.
PushWord(s, word) == Push(Push(s, High(word)), Low(word) % 16)
=============================================================================
