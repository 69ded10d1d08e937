----------------------------- MODULE Arithmetic -----------------------------
(***************************************************************************)
(* What the arithmetic and shift instructions compute, stated on numbers.  *)
(***************************************************************************)
EXTENDS Cpu

\* The operand of the instruction being executed; what the I/O page gives is
\* left to CpuProperties.
Operand ==
  IF IsAddress(Mode) THEN Peek(memory, FirstOperand(Mode)) ELSE FirstOperand(Mode)

Plain == IsAddress(Mode) => FirstOperand(Mode) \notin IO_START .. ROM_START - 1

Carry == CarryOf(regs.P)

SignedRange == -128 .. 127

\* ADC adds without losing a bit: accumulator and carry together hold the sum,
\* N and Z describe the accumulator, and V tells that the signed sum does not
\* fit, whatever flags the last instruction left.
AdditionExact ==
  [][Executing("add_to_accumulator_instr") /\ Plain =>
       /\ regs'.A + 256 * CarryOf(regs'.P) = regs.A + Operand + Carry
       /\ Bit(regs'.P, OVERFLOW_)
            = (Signed(regs.A) + Signed(Operand) + Carry \notin SignedRange)
       /\ Bit(regs'.P, ZERO) = (regs'.A = 0)
       /\ Bit(regs'.P, NEGATIVE) = (Signed(regs'.A) < 0)]_vars

\* SBC subtracts without losing a bit: the accumulator less 256 for each borrow,
\* a clear carry, is the difference.
SubtractionExact ==
  [][Executing("sub_from_accumulator_instr") /\ Plain =>
       regs'.A - 256 * (1 - CarryOf(regs'.P)) = regs.A - Operand - (1 - Carry)]_vars

\* On the 6502 V tells, after SBC as after ADC, that the signed result does not
\* fit; README.md claims full accordance.
SubtractionOverflow ==
  [][Executing("sub_from_accumulator_instr") /\ Plain =>
       Bit(regs'.P, OVERFLOW_)
         = (Signed(regs.A) - Signed(Operand) - (1 - Carry) \notin SignedRange)]_vars

\* The compare instructions set N, Z and C as the subtraction of the operand
\* from the register would with the carry set, and leave the registers alone.
CompareIsSubtraction ==
  [][\A impl \in DOMAIN Comparisons :
       Executing(impl) /\ Plain =>
         LET minuend == [regs EXCEPT !.A = regs[Comparisons[impl]],
                                     !.P = SetBit(regs.P, CARRY)]
             difference == Subtracted(minuend, Operand)
         IN  /\ \A flag \in {CARRY, ZERO, NEGATIVE} :
                  Bit(regs'.P, flag) = Bit(difference.P, flag)
             /\ [regs' EXCEPT !.P = regs.P] = regs]_vars

\* The byte a shift or rotation has left where it took it from.
Left ==
  IF IsAddress(Mode) THEN Peek(memory', FirstOperand(Mode)) ELSE regs'.A

\* Shifts and rotations lose no bit: the byte and the carry after one are the
\* nine-bit number the byte and the carry before it were, moved by one place.
ShiftExact ==
  [][Plain /\ (IsAddress(Mode) => FirstOperand(Mode) < IO_START) =>
       /\ Executing("arithmetic_shift_left") =>
            256 * CarryOf(regs'.P) + Left = 2 * Operand
       /\ Executing("logical_shift_right_instr") =>
            2 * Left + CarryOf(regs'.P) = Operand
       /\ Executing("rotate_left") =>
            256 * CarryOf(regs'.P) + Left = 2 * Operand + Carry
       /\ Executing("rotate_right") =>
            2 * Left + CarryOf(regs'.P) = Operand + 256 * Carry]_vars
=============================================================================
