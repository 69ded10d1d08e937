-------------------------- MODULE ArithmeticProofs --------------------------
(***************************************************************************)
(* Proofs of the properties of Arithmetic: what ADC, SBC, the compare and  *)
(* the shift instructions compute is exact, for every operand, every       *)
(* accumulator and whatever flags the last instruction left.               *)
(***************************************************************************)
EXTENDS Arithmetic, CpuProofs

-----------------------------------------------------------------------------
(* The flags of a byte.                                                    *)

\* The flags that arithmetic is about.
ArithmeticFlags == {CARRY, ZERO, OVERFLOW_, NEGATIVE}

\* Setting or clearing one of them does so, and leaves the others alone.
LEMMA FlagBits ==
  ASSUME NEW x \in Byte, NEW f \in ArithmeticFlags, NEW g \in ArithmeticFlags
  PROVE  /\ Bit(SetBit(x, f), f) /\ ~Bit(ClearBit(x, f), f)
         /\ f # g => /\ Bit(SetBit(x, f), g) <=> Bit(x, g)
                     /\ Bit(ClearBit(x, f), g) <=> Bit(x, g)
<1> DEFINE own(m) == Bit(SetBit(x, m), m) /\ ~Bit(ClearBit(x, m), m)
           same(m, k) == /\ Bit(SetBit(x, m), k) <=> Bit(x, k)
                         /\ Bit(ClearBit(x, m), k) <=> Bit(x, k)
<1>1. own(1)
  BY DEF SetBit, ClearBit, Bit, Byte
<1>2. own(2)
  BY DEF SetBit, ClearBit, Bit, Byte
<1>3. own(64)
  BY DEF SetBit, ClearBit, Bit, Byte
<1>4. own(128)
  BY DEF SetBit, ClearBit, Bit, Byte
<1>5. same(1, 2)
  BY DEF SetBit, ClearBit, Bit, Byte
<1>6. same(1, 64)
  BY DEF SetBit, ClearBit, Bit, Byte
<1>7. same(1, 128)
  BY DEF SetBit, ClearBit, Bit, Byte
<1>8. same(2, 1)
  BY DEF SetBit, ClearBit, Bit, Byte
<1>9. same(2, 64)
  BY DEF SetBit, ClearBit, Bit, Byte
<1>10. same(2, 128)
  BY DEF SetBit, ClearBit, Bit, Byte
<1>11. same(64, 1)
  BY DEF SetBit, ClearBit, Bit, Byte
<1>12. same(64, 2)
  BY DEF SetBit, ClearBit, Bit, Byte
<1>13. same(64, 128)
  BY DEF SetBit, ClearBit, Bit, Byte
<1>14. same(128, 1)
  BY DEF SetBit, ClearBit, Bit, Byte
<1>15. same(128, 2)
  BY DEF SetBit, ClearBit, Bit, Byte
<1>16. same(128, 64)
  BY DEF SetBit, ClearBit, Bit, Byte
<1> HIDE DEF own, same
<1>17. f \in {1, 2, 64, 128} /\ g \in {1, 2, 64, 128}
  BY DEF ArithmeticFlags, CARRY, ZERO, OVERFLOW_, NEGATIVE
<1>18. own(f) /\ (f # g => same(f, g))
  BY <1>1, <1>2, <1>3, <1>4, <1>5, <1>6, <1>7, <1>8, <1>9, <1>10, <1>11, <1>12, <1>13, <1>14, <1>15, <1>16, <1>17
<1> QED BY <1>18 DEF own, same

\* What cpu_status_flag_set or cpu_status_flag_clear has done to such a flag.
LEMMA UpdatedFlag ==
  ASSUME NEW p \in Byte, NEW f \in ArithmeticFlags, NEW g \in ArithmeticFlags,
         NEW cond \in BOOLEAN
  PROVE  /\ UpdateFlag(p, f, cond) \in Byte
         /\ Bit(UpdateFlag(p, f, cond), f) <=> cond
         /\ f # g => (Bit(UpdateFlag(p, f, cond), g) <=> Bit(p, g))
<1>1. f \in Masks
  BY FlagMasks DEF ArithmeticFlags
<1>2. UpdateFlag(p, f, cond) \in Byte
  BY <1>1, UpdateFlagByte
<1>3. CASE cond
  BY <1>2, <1>3, FlagBits DEF UpdateFlag
<1>4. CASE ~cond
  BY <1>2, <1>4, FlagBits DEF UpdateFlag
<1> QED BY <1>3, <1>4

\* The flags of arithmetic are four different bits.
LEMMA FlagsDiffer ==
  /\ {CARRY, ZERO, OVERFLOW_, NEGATIVE} = ArithmeticFlags
  /\ CARRY # ZERO /\ CARRY # OVERFLOW_ /\ CARRY # NEGATIVE
  /\ ZERO # OVERFLOW_ /\ ZERO # NEGATIVE /\ OVERFLOW_ # NEGATIVE
BY DEF ArithmeticFlags, CARRY, ZERO, OVERFLOW_, NEGATIVE

\* cpu_update_zero_and_negative_flags sets these two by the value and no other.
LEMMA ZeroNegativeBits ==
  ASSUME NEW p \in Byte, NEW value \in Byte
  PROVE  LET q == ZeroNegative(p, value)
         IN  /\ q \in Byte
             /\ Bit(q, ZERO) <=> value = 0
             /\ Bit(q, NEGATIVE) <=> Bit(value, NEGATIVE)
             /\ Bit(q, CARRY) <=> Bit(p, CARRY)
             /\ Bit(q, OVERFLOW_) <=> Bit(p, OVERFLOW_)
<1> DEFINE zero == value = 0
           negative == Bit(value, NEGATIVE)
           inner == UpdateFlag(p, ZERO, zero)
           outer == UpdateFlag(inner, NEGATIVE, negative)
<1>1. zero \in BOOLEAN /\ negative \in BOOLEAN
  BY DEF Bit
<1>2. ZeroNegative(p, value) = outer
  BY DEF ZeroNegative
<1>3. zero <=> value = 0
  OBVIOUS
<1>4. negative <=> Bit(value, NEGATIVE)
  OBVIOUS
<1> HIDE DEF zero, negative
<1>5. /\ inner \in Byte
      /\ Bit(inner, ZERO) <=> zero
      /\ Bit(inner, CARRY) <=> Bit(p, CARRY)
      /\ Bit(inner, OVERFLOW_) <=> Bit(p, OVERFLOW_)
  BY <1>1, UpdatedFlag, FlagsDiffer
<1> HIDE DEF inner
<1>6. /\ outer \in Byte
      /\ Bit(outer, NEGATIVE) <=> negative
      /\ Bit(outer, ZERO) <=> Bit(inner, ZERO)
      /\ Bit(outer, CARRY) <=> Bit(inner, CARRY)
      /\ Bit(outer, OVERFLOW_) <=> Bit(inner, OVERFLOW_)
  BY <1>1, <1>5, UpdatedFlag, FlagsDiffer
<1> HIDE DEF outer
<1> QED BY <1>2, <1>3, <1>4, <1>5, <1>6

-----------------------------------------------------------------------------
(* The operand.                                                            *)

\* Outside the I/O page the operand an instruction reads is the byte there.
LEMMA PlainOperand ==
  ASSUME Sound, Plain, NEW operand \in RealOperands
  PROVE  /\ operand.success /\ operand.value = Operand
         /\ Operand \in Byte
<1>1. operand.success /\ operand.value \in Byte
  BY RealOperandsType DEF Sound
<1>2. CASE IsAddress(Mode)
  <2> DEFINE address == FirstOperand(Mode)
  <2>1. PICK chr \in Stdin : operand = MemoryRead(memory, ap_data, address, chr)
    BY <1>2 DEF RealOperands
  <2>2. address \in Word /\ address \notin IO_START .. ROM_START - 1
    BY <1>2, FirstOperandType DEF Plain, Sound
  <2>3. Accessible(memory, address)
    BY <2>2, WordRange DEF Sound, Accessible, MEMORY_SIZE
  <2>4. address # KEYBOARD_DATA
    BY <2>2 DEF KEYBOARD_DATA, IO_START, ROM_START
  <2> HIDE DEF address
  <2>5. operand.value = Peek(memory, address)
    BY <2>1, <2>2, <2>3, <2>4 DEF MemoryRead, Peek
  <2> QED BY <1>1, <1>2, <2>5 DEF Operand, address
<1>3. CASE ~IsAddress(Mode)
  <2>1. operand.value = FirstOperand(Mode)
    BY <1>3 DEF RealOperands
  <2> QED BY <1>1, <1>3, <2>1 DEF Operand
<1> QED BY <1>2, <1>3

\* An instruction that uses its operand leaves the registers that its function
\* computes from the byte there.
LEMMA PlainUse ==
  ASSUME Sound, Plain, NEW operand \in RealOperands, NEW r, UseOperand(operand, r)
  PROVE  regs' = r
BY PlainOperand DEF UseOperand

-----------------------------------------------------------------------------
(* ADC and SBC.                                                            *)

\* The accumulator and the flags that a result of arithmetic leaves.
LEMMA ArithmeticFlagsExact ==
  ASSUME NEW r \in Registers, NEW result \in Word, NEW v \in Byte,
         NEW carry \in BOOLEAN
  PROVE  LET s == ArithmeticResult(r, result, v, carry)
         IN  /\ s.A = Low(result)
             /\ Bit(s.P, CARRY) <=> carry
             /\ Bit(s.P, OVERFLOW_) <=> OverflowCondition(r.A, Low(result), v)
             /\ Bit(s.P, ZERO) <=> s.A = 0
             /\ Bit(s.P, NEGATIVE) <=> Bit(s.A, NEGATIVE)
<1> DEFINE overflow == OverflowCondition(r.A, Low(result), v)
           inner == UpdateFlag(r.P, OVERFLOW_, overflow)
           flags == UpdateFlag(inner, CARRY, carry)
           q == ZeroNegative(flags, Low(result))
           s == ArithmeticResult(r, result, v, carry)
<1>1. overflow \in BOOLEAN
  BY DEF OverflowCondition
<1>2. r.P \in Byte /\ Low(result) \in Byte
  BY WordParts DEF Registers
<1>3. s.A = Low(result) /\ s.P = q
  BY DEF ArithmeticResult, Assigned, Registers
<1>4. overflow <=> OverflowCondition(r.A, Low(result), v)
  OBVIOUS
<1> HIDE DEF overflow, s
<1>5. inner \in Byte /\ (Bit(inner, OVERFLOW_) <=> overflow)
  BY <1>1, <1>2, UpdatedFlag, FlagsDiffer
<1> HIDE DEF inner
<1>6. /\ flags \in Byte
      /\ Bit(flags, CARRY) <=> carry
      /\ Bit(flags, OVERFLOW_) <=> Bit(inner, OVERFLOW_)
  BY <1>5, UpdatedFlag, FlagsDiffer
<1> HIDE DEF flags
<1>7. /\ Bit(q, ZERO) <=> Low(result) = 0
      /\ Bit(q, NEGATIVE) <=> Bit(Low(result), NEGATIVE)
      /\ Bit(q, CARRY) <=> Bit(flags, CARRY)
      /\ Bit(q, OVERFLOW_) <=> Bit(flags, OVERFLOW_)
  BY <1>2, <1>6, ZeroNegativeBits
<1> HIDE DEF q
<1>8. /\ s.A = Low(result)
      /\ Bit(s.P, CARRY) <=> carry
      /\ Bit(s.P, OVERFLOW_) <=> OverflowCondition(r.A, Low(result), v)
      /\ Bit(s.P, ZERO) <=> s.A = 0
      /\ Bit(s.P, NEGATIVE) <=> Bit(s.A, NEGATIVE)
  BY <1>3, <1>4, <1>5, <1>6, <1>7
<1> QED BY <1>8 DEF s

\* NEGATIVE is the sign.
LEMMA SignBit ==
  ASSUME NEW b \in Byte
  PROVE  /\ Bit(b, NEGATIVE) <=> b >= 128
         /\ Bit(b, NEGATIVE) <=> Signed(b) < 0
BY DEF Bit, NEGATIVE, Signed, Byte

\* The low byte of a sum and its carry are the sum, and the condition that sets V
\* says that the sum of the signed bytes does not fit.
LEMMA SumExact ==
  ASSUME NEW a \in Byte, NEW v \in Byte, NEW c \in {0, 1}
  PROVE  LET sum == v + a + c
         IN  /\ sum \in Word
             /\ Low(sum) + 256 * (IF sum > \hFF THEN 1 ELSE 0) = a + v + c
             /\ OverflowCondition(a, Low(sum), v)
                  <=> Signed(a) + Signed(v) + c \notin SignedRange
<1> DEFINE sum == v + a + c
           low == Low(sum)
<1>1. /\ a \in Int /\ 0 <= a /\ a <= \hFF
      /\ v \in Int /\ 0 <= v /\ v <= \hFF
      /\ c \in Int /\ 0 <= c /\ c <= 1
  BY ByteRange
<1>2. sum \in Int /\ 0 <= sum /\ sum <= 511
  BY <1>1
<1>3. sum \in Word
  BY <1>2, WordRange
<1>4. low = IF sum > \hFF THEN sum - 256 ELSE sum
  BY <1>2 DEF Low
<1>5. low \in Byte
  BY <1>3, WordParts
<1>6. /\ Bit(a, NEGATIVE) <=> a >= 128
      /\ Bit(v, NEGATIVE) <=> v >= 128
      /\ Bit(low, NEGATIVE) <=> low >= 128
  BY <1>5, SignBit
<1>7. low + 256 * (IF sum > \hFF THEN 1 ELSE 0) = a + v + c
  BY <1>1, <1>4
<1>8. /\ Signed(a) = IF a < 128 THEN a ELSE a - 256
      /\ Signed(v) = IF v < 128 THEN v ELSE v - 256
  BY DEF Signed
<1>9. OverflowCondition(a, low, v)
        <=> (v >= 128 <=> a >= 128) /\ ~(low >= 128 <=> v >= 128)
  <2>1. /\ Bit(a, NEGATIVE) \in BOOLEAN /\ Bit(v, NEGATIVE) \in BOOLEAN
        /\ Bit(low, NEGATIVE) \in BOOLEAN
    BY DEF Bit
  <2>2. OverflowCondition(a, low, v)
          <=> /\ Bit(v, NEGATIVE) <=> Bit(a, NEGATIVE)
              /\ ~(Bit(low, NEGATIVE) <=> Bit(v, NEGATIVE))
    BY <2>1 DEF OverflowCondition
  <2> QED BY <1>6, <2>2
<1> DEFINE exact == Signed(a) + Signed(v) + c
<1>10. exact \in SignedRange <=> -128 <= exact /\ exact <= 127
  BY <1>1, <1>8 DEF SignedRange
<1>11. (v >= 128 <=> a >= 128) /\ ~(low >= 128 <=> v >= 128)
         <=> ~(-128 <= exact /\ exact <= 127)
  <2> HIDE DEF low
  <2> QED BY <1>1, <1>4, <1>8
<1> QED BY <1>3, <1>7, <1>9, <1>10, <1>11

\* The carry as a number is the flag as a truth value.
LEMMA CarryExact ==
  ASSUME NEW p, NEW cond \in BOOLEAN, Bit(p, CARRY) <=> cond
  PROVE  CarryOf(p) = IF cond THEN 1 ELSE 0
BY DEF CarryOf

\* ADC, on any registers and operand.
LEMMA AddedExact ==
  ASSUME NEW r \in Registers, NEW v \in Byte
  PROVE  LET s == Added(r, v)
         IN  /\ s.A + 256 * CarryOf(s.P) = r.A + v + CarryOf(r.P)
             /\ Bit(s.P, OVERFLOW_)
                  <=> Signed(r.A) + Signed(v) + CarryOf(r.P) \notin SignedRange
             /\ Bit(s.P, ZERO) <=> s.A = 0
             /\ Bit(s.P, NEGATIVE) <=> Signed(s.A) < 0
<1> DEFINE c == CarryOf(r.P)
           sum == v + r.A + c
           carry == sum > \hFF
           s == Added(r, v)
<1>1. r.A \in Byte /\ c \in {0, 1}
  BY CarryType DEF Registers
<1>2. s = ArithmeticResult(r, sum, v, carry)
  BY DEF Added
<1>3. carry \in BOOLEAN
  OBVIOUS
<1> HIDE DEF c, s
<1>4. /\ sum \in Word
      /\ Low(sum) + 256 * (IF carry THEN 1 ELSE 0) = r.A + v + c
      /\ OverflowCondition(r.A, Low(sum), v)
           <=> Signed(r.A) + Signed(v) + c \notin SignedRange
  BY <1>1, SumExact
<1> HIDE DEF sum, carry
<1>5. /\ s.A = Low(sum)
      /\ Bit(s.P, CARRY) <=> carry
      /\ Bit(s.P, OVERFLOW_) <=> OverflowCondition(r.A, Low(sum), v)
      /\ Bit(s.P, ZERO) <=> s.A = 0
      /\ Bit(s.P, NEGATIVE) <=> Bit(s.A, NEGATIVE)
  BY <1>2, <1>3, <1>4, ArithmeticFlagsExact
<1>6. CarryOf(s.P) = IF carry THEN 1 ELSE 0
  BY <1>3, <1>5, CarryExact
<1>7. Bit(s.A, NEGATIVE) <=> Signed(s.A) < 0
  BY <1>4, <1>5, WordParts, SignBit
<1>8. /\ s.A + 256 * CarryOf(s.P) = r.A + v + c
      /\ Bit(s.P, OVERFLOW_) <=> Signed(r.A) + Signed(v) + c \notin SignedRange
      /\ Bit(s.P, ZERO) <=> s.A = 0
      /\ Bit(s.P, NEGATIVE) <=> Signed(s.A) < 0
  BY <1>4, <1>5, <1>6, <1>7
<1> QED BY <1>8 DEF s, c

\* An ADC or SBC cycle is the action of that name.
LEMMA ArithmeticSteps ==
  /\ Next /\ Executing("add_to_accumulator_instr") => AddToAccumulator
  /\ Next /\ Executing("sub_from_accumulator_instr") => SubFromAccumulator
BY ImplOfAction DEF Next, Executing, Running, Impl

\* ADC is exact: the sum, its signed range, zero and sign are all in what it leaves.
THEOREM AdditionCorrect == Spec => AdditionExact
<1> DEFINE exact ==
      Executing("add_to_accumulator_instr") /\ Plain =>
        /\ regs'.A + 256 * CarryOf(regs'.P) = regs.A + Operand + Carry
        /\ Bit(regs'.P, OVERFLOW_)
             = (Signed(regs.A) + Signed(Operand) + Carry \notin SignedRange)
        /\ Bit(regs'.P, ZERO) = (regs'.A = 0)
        /\ Bit(regs'.P, NEGATIVE) = (Signed(regs'.A) < 0)
<1>1. Inv /\ [Next]_vars => [exact]_vars
  <2> SUFFICES ASSUME Inv, Next, Executing("add_to_accumulator_instr"), Plain
               PROVE  exact
    OBVIOUS
  <2>1. Sound /\ regs \in Registers
    BY DEF Inv, Sound, TypeOK
  <2>2. PICK operand \in RealOperands : UseOperand(operand, Added(regs, operand.value))
    BY ArithmeticSteps DEF AddToAccumulator
  <2>3. Operand \in Byte /\ regs' = Added(regs, Operand)
    BY <2>1, <2>2, PlainOperand, PlainUse
  <2>4. /\ regs'.A + 256 * CarryOf(regs'.P) = regs.A + Operand + Carry
        /\ Bit(regs'.P, OVERFLOW_)
             <=> Signed(regs.A) + Signed(Operand) + Carry \notin SignedRange
        /\ Bit(regs'.P, ZERO) <=> regs'.A = 0
        /\ Bit(regs'.P, NEGATIVE) <=> Signed(regs'.A) < 0
    BY <2>1, <2>3, AddedExact DEF Carry
  <2>5. \A flag : Bit(regs'.P, flag) \in BOOLEAN
    BY DEF Bit
  <2> QED BY <2>4, <2>5
<1> HIDE DEF exact
<1>2. Spec => [][exact]_vars
  BY <1>1, Invariance, PTL DEF Spec
<1> QED BY <1>2 DEF AdditionExact, exact

\* SBC, on any registers and operand.
LEMMA SubtractedExact ==
  ASSUME NEW r \in Registers, NEW v \in Byte
  PROVE  LET s == Subtracted(r, v)
         IN  s.A - 256 * (1 - CarryOf(s.P)) = r.A - v - (1 - CarryOf(r.P))
<1> DEFINE c == CarryOf(r.P)
           exact == r.A - v - (1 - c)
           result == ToWord(exact)
           carry == result < \h100
           s == Subtracted(r, v)
<1>1. r.A \in Byte /\ c \in {0, 1}
  BY CarryType DEF Registers
<1>2. s = ArithmeticResult(r, result, v, carry)
  BY DEF Subtracted
<1>3. carry \in BOOLEAN
  OBVIOUS
<1> HIDE DEF c, s
<1>4. exact \in Int /\ -256 <= exact /\ exact <= \hFF
  BY <1>1, ByteRange
<1> HIDE DEF exact
<1>5. result \in Word /\ result = IF exact < 0 THEN exact + 65536 ELSE exact
  <2>1. exact < 0 => exact % 65536 = exact + 65536
    BY <1>4
  <2>2. exact >= 0 => exact % 65536 = exact
    BY <1>4
  <2>3. result \in Word
    BY <1>4, WordParts
  <2> QED BY <1>4, <2>1, <2>2, <2>3 DEF ToWord
<1>6. Low(result) - 256 * (1 - (IF carry THEN 1 ELSE 0)) = exact
  <2> HIDE DEF result
  <2>1. Low(result) = IF exact < 0 THEN exact + 256 ELSE exact
    BY <1>4, <1>5 DEF Low
  <2>2. carry <=> exact >= 0
    BY <1>4, <1>5
  <2> QED BY <1>4, <2>1, <2>2
<1> HIDE DEF result, carry
<1>7. s.A = Low(result) /\ (Bit(s.P, CARRY) <=> carry)
  BY <1>2, <1>3, <1>5, ArithmeticFlagsExact
<1>8. CarryOf(s.P) = IF carry THEN 1 ELSE 0
  BY <1>3, <1>7, CarryExact
<1>9. s.A - 256 * (1 - CarryOf(s.P)) = exact
  BY <1>6, <1>7, <1>8
<1> QED BY <1>9 DEF s, exact, c

\* SBC is exact: the accumulator and the borrow are the difference.
THEOREM SubtractionCorrect == Spec => SubtractionExact
<1> DEFINE exact ==
      Executing("sub_from_accumulator_instr") /\ Plain =>
        regs'.A - 256 * (1 - CarryOf(regs'.P)) = regs.A - Operand - (1 - Carry)
<1>1. Inv /\ [Next]_vars => [exact]_vars
  <2> SUFFICES ASSUME Inv, Next, Executing("sub_from_accumulator_instr"), Plain
               PROVE  exact
    OBVIOUS
  <2>1. Sound /\ regs \in Registers
    BY DEF Inv, Sound, TypeOK
  <2>2. PICK operand \in RealOperands :
          UseOperand(operand, Subtracted(regs, operand.value))
    BY ArithmeticSteps DEF SubFromAccumulator
  <2>3. Operand \in Byte /\ regs' = Subtracted(regs, Operand)
    BY <2>1, <2>2, PlainOperand, PlainUse
  <2> QED BY <2>1, <2>3, SubtractedExact DEF Carry
<1> HIDE DEF exact
<1>2. Spec => [][exact]_vars
  BY <1>1, Invariance, PTL DEF Spec
<1> QED BY <1>2 DEF SubtractionExact, exact

-----------------------------------------------------------------------------
(* CMP, CPX and CPY.                                                       *)

\* What CMP, CPX and CPY compare, as the accumulator of a subtraction.
Minuend(r, register) == [r EXCEPT !.A = r[register], !.P = SetBit(r.P, CARRY)]

\* The flags of a comparison are those of a subtraction without a borrow, and
\* nothing but the flags changes.
LEMMA ComparedExact ==
  ASSUME NEW r \in Registers, NEW register \in {"A", "X", "Y"}, NEW v \in Byte
  PROVE  LET after      == Compared(r, register, v)
             difference == Subtracted(Minuend(r, register), v)
         IN  /\ \A flag \in {CARRY, ZERO, NEGATIVE} :
                  Bit(after.P, flag) <=> Bit(difference.P, flag)
             /\ [after EXCEPT !.P = r.P] = r
<1> DEFINE after == Compared(r, register, v)
           p == SetBit(r.P, CARRY)
           minuend == Minuend(r, register)
           difference == Subtracted(minuend, v)
           a == r[register]
           low == ToByte(a - v)
           notLess == a >= v
           inner == ZeroNegative(r.P, low)
           flags == UpdateFlag(inner, CARRY, notLess)
<1>1. r.P \in Byte /\ a \in Byte
  BY DEF Registers
<1>2. p \in Byte /\ Bit(p, CARRY)
  BY <1>1, FlagBits, FlagByte, FlagMasks, FlagsDiffer
<1> HIDE DEF p
<1>3. minuend \in Registers /\ minuend.A = a /\ minuend.P = p
  BY <1>1, <1>2 DEF Registers, Minuend, p
<1>4. after = [r EXCEPT !.P = flags] /\ notLess \in BOOLEAN
  BY DEF Compared
<1>5. after.P = flags /\ [after EXCEPT !.P = r.P] = r
  BY <1>4 DEF Registers
<1> HIDE DEF after, minuend
<1>6. a \in Int /\ 0 <= a /\ a <= \hFF /\ v \in Int /\ 0 <= v /\ v <= \hFF
  BY <1>1, ByteRange
<1> HIDE DEF a
<1>7. low \in Byte
  BY <1>6, WordParts
<1>8. /\ Bit(flags, CARRY) <=> notLess
      /\ Bit(flags, ZERO) <=> low = 0
      /\ Bit(flags, NEGATIVE) <=> Bit(low, NEGATIVE)
  <2> HIDE DEF low, notLess
  <2>1. /\ inner \in Byte
        /\ Bit(inner, ZERO) <=> low = 0
        /\ Bit(inner, NEGATIVE) <=> Bit(low, NEGATIVE)
    BY <1>1, <1>7, ZeroNegativeBits
  <2> HIDE DEF inner
  <2> QED BY <1>4, <2>1, UpdatedFlag, FlagsDiffer DEF notLess
<1> HIDE DEF flags
<1> DEFINE result == ToWord(a - v)
           carry == result < \h100
<1>9. difference = ArithmeticResult(minuend, result, v, carry)
  <2>1. CarryOf(p) = 1
    BY <1>2 DEF CarryOf
  <2>2. a - v - (1 - 1) = a - v
    BY <1>6
  <2> QED BY <1>3, <2>1, <2>2 DEF Subtracted
<1>10. /\ result \in Word
       /\ Low(result) = low
       /\ carry <=> notLess
  <2>1. a - v >= 0 => ToWord(a - v) = a - v
    BY <1>6 DEF ToWord
  <2>2. a - v < 0 => ToWord(a - v) = a - v + 65536
    BY <1>6 DEF ToWord
  <2>3. result \in Word
    BY <1>6, WordParts
  <2>4. Low(result) = low
    BY <1>6, <2>1, <2>2 DEF Low, ToByte
  <2> QED BY <1>6, <2>1, <2>2, <2>3, <2>4
<1>11. carry \in BOOLEAN
  OBVIOUS
<1> HIDE DEF difference, result, low, carry, notLess
<1>12. /\ difference.A = low
       /\ Bit(difference.P, CARRY) <=> carry
       /\ Bit(difference.P, ZERO) <=> difference.A = 0
       /\ Bit(difference.P, NEGATIVE) <=> Bit(difference.A, NEGATIVE)
  BY <1>3, <1>9, <1>10, <1>11, ArithmeticFlagsExact
<1>13. \A flag \in {CARRY, ZERO, NEGATIVE} :
         Bit(after.P, flag) <=> Bit(difference.P, flag)
  BY <1>5, <1>8, <1>10, <1>12
<1> QED BY <1>5, <1>13 DEF after, difference, minuend

\* A compare instruction is a subtraction that only sets flags.
THEOREM CompareCorrect == Spec => CompareIsSubtraction
<1> DEFINE exact ==
      \A impl \in DOMAIN Comparisons :
        Executing(impl) /\ Plain =>
          LET minuend == [regs EXCEPT !.A = regs[Comparisons[impl]],
                                      !.P = SetBit(regs.P, CARRY)]
              difference == Subtracted(minuend, Operand)
          IN  /\ \A flag \in {CARRY, ZERO, NEGATIVE} :
                   Bit(regs'.P, flag) = Bit(difference.P, flag)
              /\ [regs' EXCEPT !.P = regs.P] = regs
<1>1. Inv /\ [Next]_vars => [exact]_vars
  <2> SUFFICES ASSUME Inv, Next, NEW impl \in DOMAIN Comparisons, Executing(impl), Plain
               PROVE  LET minuend == [regs EXCEPT !.A = regs[Comparisons[impl]],
                                                  !.P = SetBit(regs.P, CARRY)]
                          difference == Subtracted(minuend, Operand)
                      IN  /\ \A flag \in {CARRY, ZERO, NEGATIVE} :
                               Bit(regs'.P, flag) = Bit(difference.P, flag)
                          /\ [regs' EXCEPT !.P = regs.P] = regs
    OBVIOUS
  <2>1. Sound /\ regs \in Registers
    BY DEF Inv, Sound, TypeOK
  <2>2. impl \in {"cmp_instr", "cpx_instr", "cpy_instr"} /\ Impl = impl
    BY DEF Comparisons, Executing, Impl
  <2>3. Compare
    BY <2>2, ImplOfAction DEF Next, Executing, Running
  <2>4. PICK operand \in RealOperands :
          UseOperand(operand, Compared(regs, Comparisons[impl], operand.value))
    BY <2>2, <2>3 DEF Compare, Executing, Impl
  <2> DEFINE register == Comparisons[impl]
             difference == Subtracted(Minuend(regs, register), Operand)
  <2>5. Operand \in Byte /\ regs' = Compared(regs, register, Operand)
    BY <2>1, <2>4, PlainOperand, PlainUse
  <2>6. register \in {"A", "X", "Y"}
    BY DEF Comparisons
  <2> HIDE DEF register
  <2>7. /\ \A flag \in {CARRY, ZERO, NEGATIVE} :
             Bit(regs'.P, flag) <=> Bit(difference.P, flag)
        /\ [regs' EXCEPT !.P = regs.P] = regs
    <3>1. LET after == Compared(regs, register, Operand)
          IN  /\ \A flag \in {CARRY, ZERO, NEGATIVE} :
                   Bit(after.P, flag) <=> Bit(difference.P, flag)
              /\ [after EXCEPT !.P = regs.P] = regs
      BY <2>1, <2>5, <2>6, ComparedExact
    <3> HIDE DEF difference
    <3> QED BY <2>5, <3>1
  <2>8. \A x, flag : Bit(x, flag) \in BOOLEAN
    BY DEF Bit
  <2> HIDE DEF difference
  <2>9. \A flag \in {CARRY, ZERO, NEGATIVE} :
          Bit(regs'.P, flag) = Bit(difference.P, flag)
    BY <2>7, <2>8
  <2> QED BY <2>7, <2>9 DEF difference, Minuend, register
<1> HIDE DEF exact
<1>2. Spec => [][exact]_vars
  BY <1>1, Invariance, PTL DEF Spec
<1> QED BY <1>2 DEF CompareIsSubtraction, exact

-----------------------------------------------------------------------------
(* ASL, LSR, ROL and ROR.                                                  *)

\* What "no bit is lost" means for each of the four: v is the byte before, c the
\* carry before, and byte and out are those after.
NineBits(impl, v, c, byte, out) ==
  /\ impl = "arithmetic_shift_left"     => 256 * out + byte = 2 * v
  /\ impl = "logical_shift_right_instr" => 2 * byte + out = v
  /\ impl = "rotate_left"               => 256 * out + byte = 2 * v + c
  /\ impl = "rotate_right"              => 2 * byte + out = v + 256 * c

\* The byte and the bit that Shifted gives.
LEMMA ShiftedExact ==
  ASSUME NEW impl \in Shifts, NEW v \in Byte, NEW c \in {0, 1}
  PROVE  LET s == Shifted(impl, v, c)
         IN  /\ s.carry \in BOOLEAN
             /\ NineBits(impl, v, c, s.value, IF s.carry THEN 1 ELSE 0)
<1> DEFINE s == Shifted(impl, v, c)
<1>1. v \in Int /\ 0 <= v /\ v <= \hFF
  BY ByteRange
<1>2. /\ Bit(v, \h80) <=> v >= 128
      /\ Bit(v, 1) <=> v % 2 = 1
  BY <1>1 DEF Bit
<1>3. ToByte(2 * v) = IF v >= 128 THEN 2 * v - 256 ELSE 2 * v
  BY <1>1 DEF ToByte
<1>4. v = 2 * (v \div 2) + (v % 2) /\ v % 2 \in {0, 1} /\ v \div 2 \in Int
  BY <1>1
<1>5. Bit(v, \h80) \in BOOLEAN /\ Bit(v, 1) \in BOOLEAN
  BY DEF Bit
<1>6. CASE impl = "arithmetic_shift_left"
  <2>1. s.value = ToByte(2 * v) /\ s.carry = Bit(v, \h80)
    BY <1>6 DEF Shifted
  <2> HIDE DEF s
  <2>2. 256 * (IF s.carry THEN 1 ELSE 0) + s.value = 2 * v
    BY <1>1, <1>2, <1>3, <1>5, <2>1
  <2>3. s.carry \in BOOLEAN
    BY <1>5, <2>1
  <2> QED BY <1>6, <2>2, <2>3 DEF NineBits, s
<1>7. CASE impl = "logical_shift_right_instr"
  <2>1. s.value = v \div 2 /\ s.carry = Bit(v, 1)
    BY <1>7 DEF Shifted
  <2> HIDE DEF s
  <2>2. 2 * s.value + (IF s.carry THEN 1 ELSE 0) = v
    BY <1>1, <1>2, <1>4, <1>5, <2>1
  <2>3. s.carry \in BOOLEAN
    BY <1>5, <2>1
  <2> QED BY <1>7, <2>2, <2>3 DEF NineBits, s
<1>8. CASE impl = "rotate_left"
  <2>1. s.value = ToByte(2 * v) + c /\ s.carry = Bit(v, \h80)
    BY <1>8 DEF Shifted
  <2> HIDE DEF s
  <2>2. 256 * (IF s.carry THEN 1 ELSE 0) + s.value = 2 * v + c
    BY <1>1, <1>2, <1>3, <1>5, <2>1
  <2>3. s.carry \in BOOLEAN
    BY <1>5, <2>1
  <2> QED BY <1>8, <2>2, <2>3 DEF NineBits, s
<1>9. CASE impl = "rotate_right"
  <2>1. s.value = (v \div 2) + \h80 * c /\ s.carry = Bit(v, 1)
    BY <1>9 DEF Shifted
  <2> HIDE DEF s
  <2>2. 2 * s.value + (IF s.carry THEN 1 ELSE 0) = v + 256 * c
    BY <1>1, <1>2, <1>4, <1>5, <2>1
  <2>3. s.carry \in BOOLEAN
    BY <1>5, <2>1
  <2> QED BY <1>9, <2>2, <2>3 DEF NineBits, s
<1> QED BY <1>6, <1>7, <1>8, <1>9 DEF Shifts

\* The carry a shift leaves.
LEMMA ShiftCarry ==
  ASSUME NEW p \in Byte, NEW carry \in BOOLEAN, NEW value \in Byte
  PROVE  CarryOf(ZeroNegative(UpdateFlag(p, CARRY, carry), value))
           = IF carry THEN 1 ELSE 0
<1> DEFINE inner == UpdateFlag(p, CARRY, carry)
<1>1. inner \in Byte /\ (Bit(inner, CARRY) <=> carry)
  BY UpdatedFlag, FlagsDiffer
<1> HIDE DEF inner
<1>2. Bit(ZeroNegative(inner, value), CARRY) <=> carry
  BY <1>1, ZeroNegativeBits
<1> QED BY <1>2, CarryExact DEF inner

\* A shift or rotation of the accumulator or of a byte in RAM.
LEMMA ShiftStep ==
  ASSUME Sound, Plain, IsAddress(Mode) => FirstOperand(Mode) < IO_START,
         NEW impl \in Shifts, Impl = impl, Shift
  PROVE  NineBits(impl, Operand, Carry, Left, CarryOf(regs'.P))
<1> DEFINE s(v) == Shifted(impl, v, Carry)
           p(v) == ZeroNegative(UpdateFlag(regs.P, CARRY, s(v).carry), s(v).value)
<1>1. PICK operand \in RealOperands :
        IF IsAddress(Mode)
        THEN WriteBack(operand, s(operand.value).value, p(operand.value))
        ELSE SetRegisters([regs EXCEPT !.A = s(operand.value).value,
                                       !.P = p(operand.value)])
  BY DEF Shift, Executing, Impl, Carry
<1>2. operand.value = Operand /\ Operand \in Byte
  BY PlainOperand
<1> DEFINE byte == s(Operand).value
           out == s(Operand).carry
           q == p(Operand)
<1>3. IF IsAddress(Mode) THEN WriteBack(operand, byte, q)
      ELSE SetRegisters([regs EXCEPT !.A = byte, !.P = q])
  BY <1>1, <1>2
<1>4. regs \in Registers /\ regs.P \in Byte /\ Carry \in {0, 1}
  BY CarryType DEF Sound, TypeOK, Registers, Carry
<1>5. out \in BOOLEAN /\ NineBits(impl, Operand, Carry, byte, IF out THEN 1 ELSE 0)
  BY <1>2, <1>4, ShiftedExact
<1>6. byte \in Byte
  BY <1>2, <1>4, ShiftedType
<1>7. q = ZeroNegative(UpdateFlag(regs.P, CARRY, out), byte)
  OBVIOUS
<1> HIDE DEF byte, out, q
<1>8. CarryOf(q) = IF out THEN 1 ELSE 0
  BY <1>4, <1>5, <1>6, <1>7, ShiftCarry
<1>9. regs'.P = q /\ Left = byte
  <2>1. CASE IsAddress(Mode)
    <3> DEFINE address == FirstOperand(Mode)
    <3>1. address \in Word /\ IsMemory(memory) /\ address < IO_START
      BY <2>1, FirstOperandType DEF Sound, TypeOK
    <3>2. Accessible(memory, address)
      BY <3>1, WordRange DEF Sound, Accessible, MEMORY_SIZE
    <3>3. memory' = MemoryAfterWrite(memory, address, byte) /\ regs'.P = q
      BY <1>3, <1>4, <2>1 DEF WriteBack, Registers
    <3> HIDE DEF address
    <3>4. Peek(memory', address) = byte
      BY <3>1, <3>2, <3>3, WrittenByte
    <3> QED BY <2>1, <3>3, <3>4 DEF Left, address
  <2>2. CASE ~IsAddress(Mode)
    <3>1. regs' = [regs EXCEPT !.A = byte, !.P = q]
      BY <1>3, <2>2 DEF SetRegisters
    <3> QED BY <1>4, <2>2, <3>1 DEF Left, Registers
  <2> QED BY <2>1, <2>2
<1> QED BY <1>5, <1>8, <1>9

\* Shifts and rotations lose no bit.
THEOREM ShiftCorrect == Spec => ShiftExact
<1> DEFINE exact ==
      Plain /\ (IsAddress(Mode) => FirstOperand(Mode) < IO_START) =>
        /\ Executing("arithmetic_shift_left") =>
             256 * CarryOf(regs'.P) + Left = 2 * Operand
        /\ Executing("logical_shift_right_instr") =>
             2 * Left + CarryOf(regs'.P) = Operand
        /\ Executing("rotate_left") =>
             256 * CarryOf(regs'.P) + Left = 2 * Operand + Carry
        /\ Executing("rotate_right") =>
             2 * Left + CarryOf(regs'.P) = Operand + 256 * Carry
<1>1. Inv /\ [Next]_vars => [exact]_vars
  <2> SUFFICES ASSUME Inv, Next, Plain, IsAddress(Mode) => FirstOperand(Mode) < IO_START
               PROVE  exact
    OBVIOUS
  <2>1. ASSUME NEW impl \in Shifts, Executing(impl)
        PROVE  NineBits(impl, Operand, Carry, Left, CarryOf(regs'.P))
    <3>1. Impl = impl /\ Shift
      BY <2>1, ImplOfAction DEF Next, Executing, Running, Impl, Shifts
    <3> QED BY <3>1, ShiftStep DEF Inv
  <2> QED BY <2>1 DEF NineBits, Shifts
<1> HIDE DEF exact
<1>2. Spec => [][exact]_vars
  BY <1>1, Invariance, PTL DEF Spec
<1> QED BY <1>2 DEF ShiftExact, exact
=============================================================================
