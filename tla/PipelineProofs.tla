--------------------------- MODULE PipelineProofs ---------------------------
(***************************************************************************)
(* Proof that the cycles of cpu_do_cycle implement the machine of Isa,     *)
(* which executes a whole instruction in one step.                         *)
(***************************************************************************)
EXTENDS Pipeline, CpuProofs

-----------------------------------------------------------------------------
(* The definitions that are not about the variables are the same in Atomic. *)

\* Tables, and C's arithmetic.
LEMMA SameTables ==
  /\ Atomic!OpcodeData = OpcodeData /\ Atomic!NULL_IMPL = NULL_IMPL
  /\ Atomic!Loads = Loads /\ Atomic!Stores = Stores
  /\ Atomic!Transfers = Transfers /\ Atomic!Pushes = Pushes
  /\ Atomic!Logicals = Logicals /\ Atomic!Comparisons = Comparisons
  /\ Atomic!MemorySteps = MemorySteps /\ Atomic!RegisterSteps = RegisterSteps
  /\ Atomic!Shifts = Shifts
  /\ Atomic!FlagChanges = FlagChanges /\ Atomic!Branches = Branches
BY DEF OpcodeData, Atomic!OpcodeData, Table, Atomic!Table, Row, Atomic!Row,
       Implied, Atomic!Implied, Relative, Atomic!Relative,
       Addressed, Atomic!Addressed, Byte, Atomic!Byte, NULL_IMPL, Atomic!NULL_IMPL,
       Loads, Atomic!Loads, Stores, Atomic!Stores, Transfers, Atomic!Transfers,
       Pushes, Atomic!Pushes, Logicals, Atomic!Logicals,
       Comparisons, Atomic!Comparisons, MemorySteps, Atomic!MemorySteps,
       RegisterSteps, Atomic!RegisterSteps, Shifts, Atomic!Shifts,
       FlagChanges, Atomic!FlagChanges, Branches, Atomic!Branches,
       CARRY, Atomic!CARRY, ZERO, Atomic!ZERO, INTERRUPT, Atomic!INTERRUPT,
       DECIMAL, Atomic!DECIMAL, OVERFLOW_, Atomic!OVERFLOW_,
       NEGATIVE, Atomic!NEGATIVE

LEMMA SameArithmetic ==
  ASSUME NEW m, NEW n
  PROVE  /\ Atomic!ToByte(n) = ToByte(n) /\ Atomic!ToWord(n) = ToWord(n)
         /\ Atomic!Signed(n) = Signed(n) /\ Atomic!MakeWord(m, n) = MakeWord(m, n)
         /\ Atomic!High(n) = High(n) /\ Atomic!Low(n) = Low(n)
         /\ Atomic!HighPartAddress(n) = HighPartAddress(n)
BY DEF ToByte, Atomic!ToByte, ToWord, Atomic!ToWord, Signed, Atomic!Signed,
       MakeWord, Atomic!MakeWord, High, Atomic!High, Low, Atomic!Low,
       HighPartAddress, Atomic!HighPartAddress

\* What the instructions compute.
LEMMA SameFlags ==
  ASSUME NEW p, NEW flag, NEW cond
  PROVE  /\ Atomic!Bit(p, flag) = Bit(p, flag)
         /\ Atomic!UpdateFlag(p, flag, cond) = UpdateFlag(p, flag, cond)
         /\ Atomic!ZeroNegative(p, flag) = ZeroNegative(p, flag)
         /\ Atomic!CarryOf(p) = CarryOf(p)
BY DEF CarryOf, Atomic!CarryOf, UpdateFlag, Atomic!UpdateFlag,
       ZeroNegative, Atomic!ZeroNegative, CARRY, Atomic!CARRY, ZERO, Atomic!ZERO,
       NEGATIVE, Atomic!NEGATIVE, Bit, Atomic!Bit, SetBit, Atomic!SetBit,
       ClearBit, Atomic!ClearBit

LEMMA SameArithmeticResult ==
  ASSUME NEW r, NEW result, NEW v, NEW c
  PROVE  Atomic!ArithmeticResult(r, result, v, c) = ArithmeticResult(r, result, v, c)
<1>1. Atomic!OverflowCondition(r.A, Low(result), v) = OverflowCondition(r.A, Low(result), v)
  BY DEF OverflowCondition, Atomic!OverflowCondition, Bit, Atomic!Bit,
         NEGATIVE, Atomic!NEGATIVE
<1>2. Atomic!OVERFLOW_ = OVERFLOW_ /\ Atomic!CARRY = CARRY
  BY DEF OVERFLOW_, Atomic!OVERFLOW_, CARRY, Atomic!CARRY
<1>3. \A q, a, w : Atomic!Assigned(q, a, w) = Assigned(q, a, w)
  BY SameFlags DEF Assigned, Atomic!Assigned
<1> QED BY <1>1, <1>2, <1>3, SameArithmetic, SameFlags
        DEF ArithmeticResult, Atomic!ArithmeticResult

LEMMA SameResults ==
  ASSUME NEW r, NEW a, NEW v, NEW c
  PROVE  /\ Atomic!Assigned(r, a, v) = Assigned(r, a, v)
         /\ Atomic!Added(r, v) = Added(r, v)
         /\ Atomic!Subtracted(r, v) = Subtracted(r, v)
         /\ Atomic!Combined(c, a, v) = Combined(c, a, v)
         /\ Atomic!Tested(r, v) = Tested(r, v)
         /\ Atomic!Compared(r, a, v) = Compared(r, a, v)
         /\ Atomic!Shifted(a, v, c) = Shifted(a, v, c)
<1>1. Atomic!Assigned(r, a, v) = Assigned(r, a, v)
  BY SameFlags DEF Assigned, Atomic!Assigned
<1>2. Atomic!Added(r, v) = Added(r, v) /\ Atomic!Subtracted(r, v) = Subtracted(r, v)
  BY SameArithmeticResult, SameArithmetic, SameFlags
     DEF Added, Atomic!Added, Subtracted, Atomic!Subtracted
<1>3. \A x, y : /\ Atomic!And(x, y) = And(x, y)
                /\ Atomic!Or(x, y) = Or(x, y)
                /\ Atomic!Xor(x, y) = Xor(x, y)
  <2> TAKE x, y
  <2> QED BY DEF And, Atomic!And, Or, Atomic!Or, Xor, Atomic!Xor, BitsOf, Atomic!BitsOf,
                 ByteOf, Atomic!ByteOf, Masks, Atomic!Masks, Bit, Atomic!Bit
<1>4. Atomic!Combined(c, a, v) = Combined(c, a, v)
  BY <1>3 DEF Combined, Atomic!Combined
<1>5. Atomic!Tested(r, v) = Tested(r, v)
  BY <1>3, SameFlags DEF Tested, Atomic!Tested, ZERO, Atomic!ZERO, NEGATIVE,
     Atomic!NEGATIVE, OVERFLOW_, Atomic!OVERFLOW_
<1>6. Atomic!Compared(r, a, v) = Compared(r, a, v)
  BY SameFlags, SameArithmetic DEF Compared, Atomic!Compared, CARRY, Atomic!CARRY
<1>7. Atomic!Shifted(a, v, c) = Shifted(a, v, c)
  BY SameFlags, SameArithmetic DEF Shifted, Atomic!Shifted
<1> QED BY <1>1, <1>2, <1>4, <1>5, <1>6, <1>7

\* Memory and stack.
LEMMA SameMemory ==
  ASSUME NEW m, NEW a, NEW v
  PROVE  /\ Atomic!Peek(m, a) = Peek(m, a)
         /\ Atomic!MemoryAfterWrite(m, a, v) = MemoryAfterWrite(m, a, v)
BY DEF Accessible, Atomic!Accessible, ByteAt, Atomic!ByteAt, Peek, Atomic!Peek,
       MemoryAfterWrite, Atomic!MemoryAfterWrite, Store, Atomic!Store,
       IO_START, Atomic!IO_START

LEMMA SameStack ==
  ASSUME NEW s, NEW v
  PROVE  /\ Atomic!Push(s, v) = Push(s, v)
         /\ Atomic!Pull(s) = Pull(s)
         /\ Atomic!PushWord(s, v) = PushWord(s, v)
         /\ Atomic!IrqVector(v) = IrqVector(v)
BY DEF PushWord, Atomic!PushWord, High, Atomic!High, Low, Atomic!Low,
       IrqVector, Atomic!IrqVector, IRQ_VECTOR_LOW, Atomic!IRQ_VECTOR_LOW,
       IRQ_VECTOR_HIGH, Atomic!IRQ_VECTOR_HIGH, MakeWord, Atomic!MakeWord,
       Push, Atomic!Push, Pull, Atomic!Pull,
       STACK_LOWEST_ADDRESS, Atomic!STACK_LOWEST_ADDRESS,
       FULL_STACK_PTR, Atomic!FULL_STACK_PTR,
       EMPTY_STACK_PTR, Atomic!EMPTY_STACK_PTR, Accessible, Atomic!Accessible,
       ByteAt, Atomic!ByteAt, Peek, Atomic!Peek,
       MemoryAfterWrite, Atomic!MemoryAfterWrite, Store, Atomic!Store,
       IO_START, Atomic!IO_START


-----------------------------------------------------------------------------
(* The fetches.                                                            *)

\* A conversion to a word may be done before a sum or after it.
LEMMA WordOfSum ==
  ASSUME NEW n \in Int, NEW k \in Int
  PROVE  ToWord(ToWord(n) + k) = ToWord(n + k)
BY DEF ToWord

\* The address of the instruction under way, of n operand bytes so far, and the
\* program counter w are found from each other, across the wrap of the counter.
LEMMA StartPlaces ==
  ASSUME NEW w \in Word, NEW n \in {0, 1, 2}
  PROVE  /\ ToWord(ToWord(w - 1 - n) + 1 + n) = w
         /\ ToWord(ToWord(w - 1 - n) + (n + 1)) = w
         /\ ToWord(ToWord(w + 1) - 1 - (n + 1)) = ToWord(w - 1 - n)
         /\ ToWord(ToWord(w + 1) - 1 - 0) = w
<1>1. w \in Int /\ ToWord(w) = w
  BY WordRange, WordIsWord
<1>2. \A m \in Int : ToWord(m) \in Int
  BY DEF ToWord
<1> DEFINE start == ToWord(w - 1 - n)
           next == ToWord(w + 1)
<1>3. start \in Int /\ next \in Int
  BY <1>1, <1>2
<1>4. ToWord(start + (n + 1)) = ToWord(w - 1 - n + (n + 1))
  BY <1>1, WordOfSum
<1>5. ToWord(next + (-1 - (n + 1))) = ToWord(w + 1 + (-1 - (n + 1)))
  BY <1>1, WordOfSum
<1>6. ToWord(next + -1) = ToWord(w + 1 + -1)
  BY <1>1, WordOfSum
<1> HIDE DEF start, next
<1>7. /\ start + 1 + n = start + (n + 1)
      /\ w - 1 - n + (n + 1) = w
      /\ next - 1 - (n + 1) = next + (-1 - (n + 1))
      /\ w + 1 + (-1 - (n + 1)) = w - 1 - n
      /\ next - 1 - 0 = next + -1 /\ w + 1 + -1 = w
  BY <1>1, <1>3
<1> QED BY <1>1, <1>4, <1>5, <1>6, <1>7 DEF start, next

\* What a read of address by a device in state d may return, and what the k-th
\* operand byte may be when n have been fetched.
ReadsOf(d, address) == {MemoryRead(memory, d, address, chr) : chr \in Stdin}

Given(k, n, d) ==
  IF k <= n THEN ReadsOf(d, ToWord(Start + k)) ELSE {[value |-> 0, data |-> d]}

\* The fetches so far are reads, in this order, of the opcode and the operand
\* bytes of the instruction under way, from the device as it was when it began.
FetchedInOrder ==
  \E opcode \in ReadsOf(ap_data_before, Start) :
    /\ opcode.value = reg_IR
    /\ \E lo \in Given(1, operands_buffer_index, opcode.data) :
         \E hi \in Given(2, operands_buffer_index, lo.data) :
           /\ operands_buffer[0] = lo.value /\ operands_buffer[1] = hi.value
           /\ ap_data = hi.data

History ==
  last_trap = "OK" =>
    IF state = "FETCH" THEN ap_data_before = ap_data ELSE FetchedInOrder

\* Fetching an opcode.
LEMMA FetchHistory ==
  ASSUME Inv, History, Fetch, PipelineNext
  PROVE  History' /\ UNCHANGED Atomic!isaVars
<1>1. Sound /\ regs \in Registers /\ regs.IP \in Word /\ last_trap = "OK" /\ state = "FETCH"
  BY DEF Inv, Sound, TypeOK, Registers, Fetch, Running
<1>2. PICK fetched \in ReadsOf(ap_data, regs.IP) :
        /\ fetched.success
        /\ ap_data' = fetched.data
        /\ reg_IR' = fetched.value
        /\ state' = IF fetched.success THEN "DECODE" ELSE state
        /\ last_trap' = IF fetched.success THEN last_trap ELSE "SEGMENTATION_FAULT"
  BY <1>1, FetchedByte DEF Fetch, ReadsOf
<1>3. /\ ap_data' = fetched.data /\ reg_IR' = fetched.value
      /\ state' = "DECODE" /\ last_trap' = "OK"
  BY <1>1, <1>2
<1>4. /\ operands_buffer = EmptyBuffer /\ operands_buffer_index = 0
      /\ operands_buffer' = EmptyBuffer /\ operands_buffer_index' = 0
      /\ memory' = memory
  BY DEF Inv, PipelineConsistent, BetweenInstructions, Fetch, Running
<1>5. regs' = [regs EXCEPT !.IP = ToWord(@ + 1)]
  BY DEF Fetch, IncrementIP
<1>6. Start' = regs.IP
  <2>1. regs'.IP = ToWord(regs.IP + 1)
    BY <1>1, <1>5 DEF Registers
  <2> QED BY <1>1, <1>4, <2>1, StartPlaces DEF Start
<1>7. ap_data_before' = ap_data
  BY <1>1, <1>3 DEF PipelineNext, History
<1>8. FetchedInOrder'
  <2>1. fetched \in ReadsOf(ap_data_before, Start)'
    BY <1>4, <1>6, <1>7 DEF ReadsOf
  <2> DEFINE none == [value |-> 0, data |-> fetched.data]
  <2>2. none \in Given(1, operands_buffer_index, fetched.data)'
    BY <1>4 DEF Given
  <2>3. none \in Given(2, operands_buffer_index, none.data)'
    BY <1>4 DEF Given
  <2>4. /\ operands_buffer'[0] = none.value /\ operands_buffer'[1] = none.value
        /\ ap_data' = none.data
    BY <1>3, <1>4 DEF EmptyBuffer, OPERANDS_BUFFER_SIZE
  <2> HIDE DEF none
  <2> QED BY <1>3, <2>1, <2>2, <2>3, <2>4 DEF FetchedInOrder
<1>9. ~BetweenSteps' /\ BetweenSteps
  BY <1>1, <1>3 DEF BetweenSteps
<1>10. [regs' EXCEPT !.IP = Start'] = regs
  BY <1>1, <1>5, <1>6 DEF Registers
<1> QED BY <1>1, <1>3, <1>4, <1>7, <1>8, <1>9, <1>10 DEF History, Atomic!isaVars

\* What has been fetched stays so in a cycle that fetches nothing.
LEMMA SameFetched ==
  ASSUME FetchedInOrder,
         UNCHANGED <<regs, reg_IR, operands_buffer, operands_buffer_index, memory, ap_data,
                     ap_data_before>>
  PROVE  FetchedInOrder' /\ Start' = Start
<1>1. Start' = Start
  BY DEF Start
<1>2. \A d, a : ReadsOf(d, a)' = ReadsOf(d, a)
  BY DEF ReadsOf
<1>3. \A k, n, d : Given(k, n, d)' = Given(k, n, d)
  BY <1>1, <1>2 DEF Given
<1> QED BY <1>1, <1>2, <1>3 DEF FetchedInOrder

\* Decoding a legal opcode.
LEMMA DecodeHistory ==
  ASSUME Inv, History, Decode, Legal(reg_IR), PipelineNext
  PROVE  History' /\ UNCHANGED Atomic!isaVars
<1>1. /\ last_trap = "OK" /\ last_trap' = "OK"
      /\ state = "DECODE" /\ state' \in {"EXECUTE", "FETCH_OPERAND"}
      /\ UNCHANGED <<regs, reg_IR, operands_buffer, operands_buffer_index, memory, ap_data>>
  BY DEF Decode, Running
<1>2. ap_data_before' = ap_data_before
  BY <1>1 DEF PipelineNext
<1>3. FetchedInOrder' /\ Start' = Start
  BY <1>1, <1>2, SameFetched DEF History
<1>4. ~BetweenSteps /\ ~BetweenSteps'
  BY <1>1 DEF BetweenSteps
<1> QED BY <1>1, <1>2, <1>3, <1>4 DEF History, Atomic!isaVars

\* What has been read is what Isa reads.
LEMMA SameReads ==
  ASSUME NEW d, NEW address
  PROVE  Atomic!Reads(d, address) = ReadsOf(d, address)
<1>1. \A chr : Atomic!MemoryRead(memory, d, address, chr) = MemoryRead(memory, d, address, chr)
  <2> TAKE chr
  <2> QED BY DEF MemoryRead, Atomic!MemoryRead, Accessible, Atomic!Accessible, ByteAt, Atomic!ByteAt,
     DataAfterRead, Atomic!DataAfterRead, Latched, Atomic!Latched, ToByte, Atomic!ToByte,
     SetBit, Atomic!SetBit, Bit, Atomic!Bit, KEYBOARD_READY_MASK, Atomic!KEYBOARD_READY_MASK,
     KEYBOARD_DATA, Atomic!KEYBOARD_DATA, KEYBOARD_STROBE, Atomic!KEYBOARD_STROBE,
     SET_GRAPHICS, Atomic!SET_GRAPHICS, SET_TEXT, Atomic!SET_TEXT, SET_PRIM, Atomic!SET_PRIM,
     SET_SEC, Atomic!SET_SEC, SET_LO, Atomic!SET_LO, SET_HI, Atomic!SET_HI,
     IO_START, Atomic!IO_START, ROM_START, Atomic!ROM_START
<1> QED BY <1>1 DEF Atomic!Reads, ReadsOf

\* Decoding an opcode that is none.
LEMMA DecodeIllegal ==
  ASSUME Inv, History, Decode, ~Legal(reg_IR), PipelineNext
  PROVE  History' /\ Atomic!IllegalOpcode
<1>1. /\ last_trap = "OK" /\ last_trap' = "ILLEGAL_OPCODE" /\ state = "DECODE"
      /\ UNCHANGED <<regs, reg_IR, operands_buffer, operands_buffer_index, memory, ap_data>>
  BY DEF Decode, Running
<1>2. operands_buffer_index = 0 /\ regs.IP \in Word /\ regs \in Registers
  BY <1>1 DEF Inv, PipelineConsistent, BetweenInstructions, Sound, TypeOK, Registers
<1>3. ~BetweenSteps /\ BetweenSteps'
  BY <1>1 DEF BetweenSteps
<1>4. PICK opcode \in ReadsOf(ap_data_before, Start) :
        opcode.value = reg_IR /\ ap_data = opcode.data
  BY <1>1, <1>2 DEF History, FetchedInOrder, Given
<1>5. ~Atomic!Legal(reg_IR)
  BY SameTables DEF Legal, Atomic!Legal
<1>6. ToWord(Start + 1) = regs.IP
  <2>1. ToWord(ToWord(regs.IP - 1 - 0) + (0 + 1)) = regs.IP
    BY <1>2, StartPlaces
  <2>2. ToWord(regs.IP - 1 - 0) = Start /\ 0 + 1 = 1
    BY <1>2 DEF Start
  <2> QED BY <2>1, <2>2, Zenon
<1>7. regs' = [[regs EXCEPT !.IP = Start] EXCEPT !.IP = ToWord(Start + 1)]
  BY <1>1, <1>2, <1>6 DEF Registers
<1>8. [regs EXCEPT !.IP = Start].IP = Start
  BY <1>2 DEF Registers
<1>9. opcode \in Atomic!Reads(ap_data_before, [regs EXCEPT !.IP = Start].IP)
  BY <1>4, <1>8, SameReads
<1>10. Atomic!ToWord(Start + 1) = ToWord(Start + 1)
  BY SameArithmetic
<1>11. Atomic!IllegalOpcode
  BY <1>1, <1>3, <1>4, <1>5, <1>7, <1>8, <1>9, <1>10 DEF Atomic!IllegalOpcode
<1> QED BY <1>1, <1>11 DEF History

\* Fetching an operand byte.
LEMMA FetchOperandHistory ==
  ASSUME Inv, History, FetchOperand, PipelineNext
  PROVE  History' /\ UNCHANGED Atomic!isaVars
<1> DEFINE index == operands_buffer_index
<1>1. /\ Sound /\ regs \in Registers /\ regs.IP \in Word
      /\ operands_buffer \in [0 .. OPERANDS_BUFFER_SIZE - 1 -> Byte]
      /\ last_trap = "OK" /\ state = "FETCH_OPERAND" /\ UNCHANGED <<reg_IR, memory>>
  BY DEF Inv, Sound, TypeOK, Registers, FetchOperand, Running
<1>2. index \in {0, 1}
  <2>1. /\ index + remaining_bytes = BytesForOperands(Mode)
        /\ remaining_bytes \in Int /\ remaining_bytes > 0
        /\ index \in Int /\ index >= 0
    BY <1>1 DEF Inv, Sound, TypeOK, PipelineConsistent, OperandsPending, Byte,
                OPERANDS_BUFFER_SIZE
  <2> QED BY <2>1, CountType
<1>3. PICK fetched \in ReadsOf(ap_data, regs.IP) : OperandFetched(fetched) /\ fetched.success
  BY <1>1, <1>2, FetchedByte DEF FetchOperand, OPERANDS_BUFFER_SIZE, ReadsOf
<1>4. /\ operands_buffer' = [operands_buffer EXCEPT ![index] = fetched.value]
      /\ index' = index + 1
      /\ ap_data' = fetched.data
      /\ regs' = [regs EXCEPT !.IP = ToWord(@ + 1)]
      /\ last_trap' = "OK" /\ state' \in {"EXECUTE", "FETCH_OPERAND"}
  BY <1>1, <1>3 DEF OperandFetched, IncrementIP
<1>5. ap_data_before' = ap_data_before
  BY <1>4 DEF PipelineNext
<1>6. Start' = Start /\ ToWord(Start + (index + 1)) = regs.IP
  <2>1. regs'.IP = ToWord(regs.IP + 1)
    BY <1>1, <1>4 DEF Registers
  <2> QED BY <1>1, <1>2, <1>4, <2>1, StartPlaces DEF Start
<1>7. \A d, a : ReadsOf(d, a)' = ReadsOf(d, a)
  BY <1>1 DEF ReadsOf
<1>8. PICK opcode \in ReadsOf(ap_data_before, Start) :
        /\ opcode.value = reg_IR
        /\ \E lo \in Given(1, index, opcode.data) :
             \E hi \in Given(2, index, lo.data) :
               /\ operands_buffer[0] = lo.value /\ operands_buffer[1] = hi.value
               /\ ap_data = hi.data
  BY <1>1 DEF History, FetchedInOrder
<1>9. PICK lo \in Given(1, index, opcode.data) :
        \E hi \in Given(2, index, lo.data) :
          /\ operands_buffer[0] = lo.value /\ operands_buffer[1] = hi.value
          /\ ap_data = hi.data
  BY <1>8
<1>10. PICK hi \in Given(2, index, lo.data) :
         /\ operands_buffer[0] = lo.value /\ operands_buffer[1] = hi.value
         /\ ap_data = hi.data
  BY <1>9
<1>11. opcode \in ReadsOf(ap_data_before, Start)' /\ opcode.value = reg_IR'
  BY <1>1, <1>5, <1>6, <1>7, <1>8
<1>12. ASSUME index = 0 PROVE FetchedInOrder'
  <2>1. lo = [value |-> 0, data |-> opcode.data] /\ hi = [value |-> 0, data |-> lo.data]
    BY <1>9, <1>10, <1>12 DEF Given
  <2>2. fetched \in Given(1, operands_buffer_index, opcode.data)'
    BY <1>3, <1>4, <1>6, <1>7, <1>10, <1>12, <2>1 DEF Given
  <2>3. [value |-> 0, data |-> fetched.data] \in Given(2, operands_buffer_index, fetched.data)'
    BY <1>4, <1>12 DEF Given
  <2>4. operands_buffer'[0] = fetched.value /\ operands_buffer'[1] = 0
    BY <1>1, <1>4, <1>10, <1>12, <2>1 DEF OPERANDS_BUFFER_SIZE
  <2> QED BY <1>4, <1>11, <2>2, <2>3, <2>4 DEF FetchedInOrder
<1>13. ASSUME index = 1 PROVE FetchedInOrder'
  <2>1. lo \in Given(1, operands_buffer_index, opcode.data)'
    BY <1>4, <1>6, <1>7, <1>9, <1>13 DEF Given
  <2>2. hi = [value |-> 0, data |-> lo.data]
    BY <1>10, <1>13 DEF Given
  <2>3. fetched \in Given(2, operands_buffer_index, lo.data)'
    BY <1>3, <1>4, <1>6, <1>7, <1>10, <1>13, <2>2 DEF Given
  <2>4. operands_buffer'[0] = lo.value /\ operands_buffer'[1] = fetched.value
    BY <1>1, <1>4, <1>10, <1>13 DEF OPERANDS_BUFFER_SIZE
  <2> QED BY <1>4, <1>11, <2>1, <2>3, <2>4 DEF FetchedInOrder
<1>14. FetchedInOrder'
  BY <1>2, <1>12, <1>13
<1>15. ~BetweenSteps /\ ~BetweenSteps'
  BY <1>1, <1>4 DEF BetweenSteps
<1>16. [regs' EXCEPT !.IP = Start'] = [regs EXCEPT !.IP = Start]
  BY <1>1, <1>4, <1>6 DEF Registers
<1> QED BY <1>1, <1>4, <1>5, <1>14, <1>15, <1>16 DEF History, Atomic!isaVars
-----------------------------------------------------------------------------
(* The operands.                                                           *)

\* An instruction is executed.
Ready == Inv /\ Running("EXECUTE")

\* What Isa executes for it.
Completed ==
  Atomic!Execute(OpcodeData[reg_IR], operands_buffer[0], operands_buffer[1], regs, ap_data)

\* The modes of the instructions that have an operand in more than one.
LEMMA AddressedModes ==
  ASSUME NEW i \in DOMAIN Addressed
  PROVE  /\ "ACCUMULATOR" \in DOMAIN Addressed[i] => i \in Shifts
         /\ "RELATIVE" \notin DOMAIN Addressed[i]
         /\ "IMMEDIATE" \in DOMAIN Addressed[i] =>
              i \notin DOMAIN Stores \cup DOMAIN MemorySteps \cup Shifts
<1>1. "ACCUMULATOR" \in DOMAIN Addressed[i] => i \in Shifts
  BY DEF Addressed, Shifts
<1>2. "RELATIVE" \notin DOMAIN Addressed[i]
  BY SMTT(60) DEF Addressed
<1>3. i \in DOMAIN Stores => "IMMEDIATE" \notin DOMAIN Addressed[i]
  BY DEF Addressed, Stores
<1>4. i \in DOMAIN MemorySteps => "IMMEDIATE" \notin DOMAIN Addressed[i]
  BY DEF Addressed, MemorySteps
<1>5. i \in Shifts => "IMMEDIATE" \notin DOMAIN Addressed[i]
  BY DEF Addressed, Shifts
<1> QED BY <1>1, <1>2, <1>3, <1>4, <1>5

\* Which operands the table allows.
LEMMA OperandModes ==
  ASSUME NEW op \in Byte
  PROVE  /\ OpcodeData[op].mode = "ACCUMULATOR" => OpcodeData[op].impl \in Shifts
         /\ OpcodeData[op].mode = "RELATIVE" => OpcodeData[op].impl \in DOMAIN Branches
         /\ OpcodeData[op].mode = "IMMEDIATE" =>
              OpcodeData[op].impl \notin DOMAIN Stores \cup DOMAIN MemorySteps \cup Shifts
<1> DEFINE row == OpcodeData[op]
<1>1. CASE row = Row(op, NULL_IMPL, "IMPLIED")
  BY <1>1 DEF Row
<1>2. CASE row \in Table
  <2> HIDE DEF row
  <2>1. CASE \E i \in DOMAIN Implied : row = Row(Implied[i], i, "IMPLIED")
    BY <2>1 DEF Row, row
  <2>2. CASE \E i \in DOMAIN Relative : row = Row(Relative[i], i, "RELATIVE")
    BY <2>2 DEF Row, row, Relative, Branches
  <2>3. CASE \E i \in DOMAIN Addressed : \E m \in DOMAIN Addressed[i] :
               row = Row(Addressed[i][m], i, m)
    <3>1. PICK i \in DOMAIN Addressed : \E m \in DOMAIN Addressed[i] :
            row = Row(Addressed[i][m], i, m)
      BY <2>3
    <3>2. PICK m \in DOMAIN Addressed[i] : row = Row(Addressed[i][m], i, m)
      BY <3>1
    <3>3. row.impl = i /\ row.mode = m
      BY <3>2 DEF Row
    <3>4. /\ "ACCUMULATOR" \in DOMAIN Addressed[i] => i \in Shifts
          /\ "RELATIVE" \notin DOMAIN Addressed[i]
          /\ "IMMEDIATE" \in DOMAIN Addressed[i] =>
               i \notin DOMAIN Stores \cup DOMAIN MemorySteps \cup Shifts
      BY AddressedModes
    <3> QED BY <3>2, <3>3, <3>4 DEF row
  <2> QED BY <1>2, <2>1, <2>2, <2>3 DEF Table
<1> QED BY <1>1, <1>2, OpcodeRow DEF row

\* The address of an operand is the one Isa gives it.
LEMMA SameAddress ==
  ASSUME Ready, IsAddress(Mode)
  PROVE  /\ Atomic!Effective(Mode, operands_buffer[0], operands_buffer[1])
              = FirstOperand(Mode)
         /\ Atomic!IsAddress(Mode)
<1> DEFINE lo == operands_buffer[0]
           hi == operands_buffer[1]
           seen == [regs EXCEPT !.IP = Start]
<1>1. /\ lo \in Byte /\ hi \in Byte /\ regs \in Registers
      /\ memory.size = MEMORY_SIZE /\ IsMemory(memory)
  BY DEF Ready, Inv, Sound, TypeOK, OPERANDS_BUFFER_SIZE
<1>2. ~BetweenSteps
  BY DEF Ready, Running, BetweenSteps
<1>3. seen.X = regs.X /\ seen.Y = regs.Y /\ regs.X \in Byte /\ regs.Y \in Byte
  BY <1>1 DEF Registers
<1>4. Atomic!IsAddress(Mode)
  BY DEF IsAddress, Atomic!IsAddress
<1>5. ASSUME NEW z \in Int
      PROVE  Atomic!MakeWord(Atomic!ByteAt(memory, Atomic!ToByte(z + 1)),
                             Atomic!ByteAt(memory, Atomic!ToByte(z)))
               = ZeroPagePointer(ToByte(z))
  <2>1. \A n \in Int : 0 <= ToByte(n) /\ ToByte(n) < MEMORY_SIZE
    BY DEF ToByte, MEMORY_SIZE
  <2>2. \A n \in Int : Peek(memory, ToByte(n)) = ByteAt(memory, ToByte(n))
    BY <1>1, <2>1 DEF Peek, Accessible
  <2>3. ToByte(ToByte(z) + 1) = ToByte(z + 1)
    BY DEF ToByte
  <2>4. \A a : Atomic!ByteAt(memory, a) = ByteAt(memory, a)
    BY DEF ByteAt, Atomic!ByteAt
  <2> QED BY <2>2, <2>3, <2>4, SameArithmetic DEF ZeroPagePointer, ZeroPageIndexed
<1>6. lo \in Int /\ regs.X \in Int /\ regs.Y \in Int /\ ToByte(lo) = lo
  BY <1>1, <1>3 DEF Byte, ToByte
<1>7. ASSUME NEW mode
      PROVE  Atomic!Effective(mode, lo, hi) =
               CASE mode = "ZERO_PAGE"   -> lo
                 [] mode = "ZERO_PAGE_X" -> ToByte(lo + regs.X)
                 [] mode = "ABSOLUTE"    -> MakeWord(hi, lo)
                 [] mode = "ABSOLUTE_X"  -> ToWord(MakeWord(hi, lo) + regs.X)
                 [] mode = "ABSOLUTE_Y"  -> ToWord(MakeWord(hi, lo) + regs.Y)
                 [] mode = "INDIRECT_X"  -> ZeroPagePointer(ToByte(lo + regs.X))
                 [] mode = "INDIRECT_Y"  -> ToWord(ZeroPagePointer(ToByte(lo)) + regs.Y)
                 [] OTHER -> 0
  <2> HIDE DEF lo, hi
  <2> QED BY <1>2, <1>3, <1>5, <1>6, SameArithmetic DEF Atomic!Effective
<1> HIDE DEF lo, hi
<1>8. Atomic!Effective(Mode, lo, hi) = FirstOperand(Mode)
  BY <1>6, <1>7 DEF FirstOperand, ZeroPageIndexed, IsAddress, lo, hi
<1> QED BY <1>4, <1>8 DEF lo, hi

-----------------------------------------------------------------------------
(* The instructions that use the value of their operand.                   *)

LEMMA SameUses ==
  Atomic!Uses = DOMAIN Loads \cup DOMAIN Comparisons \cup Logicals
    \cup {"add_to_accumulator_instr", "sub_from_accumulator_instr", "test_bit_instr"}
BY SameTables DEF Atomic!Uses

LEMMA SameUsed ==
  ASSUME NEW impl, NEW r, NEW v
  PROVE  /\ impl \in DOMAIN Loads => Atomic!Used(impl, r, v) = Assigned(r, Loads[impl], v)
         /\ impl \in DOMAIN Comparisons =>
              Atomic!Used(impl, r, v) = Compared(r, Comparisons[impl], v)
         /\ impl \in Logicals =>
              Atomic!Used(impl, r, v) = Assigned(r, "A", Combined(impl, r.A, v))
         /\ Atomic!Used("add_to_accumulator_instr", r, v) = Added(r, v)
         /\ Atomic!Used("sub_from_accumulator_instr", r, v) = Subtracted(r, v)
         /\ Atomic!Used("test_bit_instr", r, v) = Tested(r, v)
<1>1. /\ DOMAIN Loads = {"load_a_instr", "load_x_instr", "load_y_instr"}
      /\ DOMAIN Comparisons = {"cmp_instr", "cpx_instr", "cpy_instr"}
      /\ Logicals = {"and_with_accumulator_instr", "or_with_accumulator_instr",
                     "exclusive_or_instr"}
  BY DEF Loads, Comparisons, Logicals
<1>2. \A a, w : Atomic!Assigned(r, a, w) = Assigned(r, a, w)
  BY SameResults
<1>3. /\ Atomic!Compared(r, Comparisons[impl], v) = Compared(r, Comparisons[impl], v)
      /\ Atomic!Combined(impl, r.A, v) = Combined(impl, r.A, v)
      /\ Atomic!Added(r, v) = Added(r, v)
      /\ Atomic!Subtracted(r, v) = Subtracted(r, v)
      /\ Atomic!Tested(r, v) = Tested(r, v)
  BY SameResults
<1> QED BY <1>1, <1>2, <1>3, SameTables DEF Atomic!Used

LEMMA OperandUsed ==
  ASSUME Ready, Impl \in Atomic!Uses, NEW operand \in RealOperands,
         UseOperand(operand, Atomic!Used(Impl, regs, operand.value))
  PROVE  Completed
<1> DEFINE lo == operands_buffer[0]
           hi == operands_buffer[1]
           used == Atomic!Used(Impl, regs, operand.value)
<1>1. operand.success /\ reg_IR \in Byte
  BY RealOperandsType DEF Ready, Inv, Sound, TypeOK
<1>2. /\ regs' = used /\ ap_data' = operand.data
      /\ UNCHANGED <<memory, last_trap>> /\ BetweenSteps'
  BY <1>1 DEF UseOperand, FinishExecute, BetweenSteps
<1>3. PICK v \in (IF Atomic!IsAddress(Mode) THEN Atomic!Reads(ap_data, Atomic!Effective(Mode, lo, hi))
                  ELSE {[value |-> lo, data |-> ap_data]}) :
        v.value = operand.value /\ v.data = operand.data
  <2>1. CASE IsAddress(Mode)
    BY <2>1, SameAddress, SameReads DEF RealOperands, ReadsOf
  <2>2. CASE ~IsAddress(Mode)
    <3>1. Mode # "ACCUMULATOR"
      BY <1>1, OperandModes, SameUses
         DEF Mode, Impl, Shifts, Loads, Comparisons, Logicals
    <3>2. operand = [success |-> TRUE, value |-> lo, data |-> ap_data]
      BY <2>2, <3>1 DEF RealOperands, FirstOperand, IsAddress
    <3>3. ~Atomic!IsAddress(Mode)
      BY <2>2 DEF IsAddress, Atomic!IsAddress
    <3> QED BY <3>2, <3>3
  <2> QED BY <2>1, <2>2
<1> HIDE DEF lo, hi, used
<1>4. Completed
  BY <1>2, <1>3 DEF Completed, Atomic!Execute, Mode, Impl, lo, hi, used
<1> QED BY <1>4

LEMMA UsesRefine ==
  ASSUME Ready,
         \/ LoadRegister \/ AddToAccumulator \/ SubFromAccumulator \/ Logical
         \/ TestBit \/ Compare
  PROVE  Completed
<1>1. ASSUME LoadRegister PROVE Completed
  <2>1. PICK impl \in DOMAIN Loads : Executing(impl) /\ \E operand \in RealOperands :
          UseOperand(operand, Assigned(regs, Loads[impl], operand.value))
    BY <1>1 DEF LoadRegister
  <2>2. PICK operand \in RealOperands :
          UseOperand(operand, Assigned(regs, Loads[impl], operand.value))
    BY <2>1
  <2>3. impl = Impl /\ Impl \in Atomic!Uses
    BY <2>1, SameUses DEF Executing, Impl
  <2> QED BY <2>1, <2>2, <2>3, SameUsed, OperandUsed
<1>2. ASSUME Compare PROVE Completed
  <2>1. PICK impl \in DOMAIN Comparisons : Executing(impl) /\ \E operand \in RealOperands :
          UseOperand(operand, Compared(regs, Comparisons[impl], operand.value))
    BY <1>2 DEF Compare
  <2>2. PICK operand \in RealOperands :
          UseOperand(operand, Compared(regs, Comparisons[impl], operand.value))
    BY <2>1
  <2>3. impl = Impl /\ Impl \in Atomic!Uses
    BY <2>1, SameUses DEF Executing, Impl
  <2> QED BY <2>1, <2>2, <2>3, SameUsed, OperandUsed
<1>3. ASSUME Logical PROVE Completed
  <2>1. PICK impl \in Logicals : Executing(impl) /\ \E operand \in RealOperands :
          UseOperand(operand, Assigned(regs, "A", Combined(impl, regs.A, operand.value)))
    BY <1>3 DEF Logical
  <2>2. PICK operand \in RealOperands :
          UseOperand(operand, Assigned(regs, "A", Combined(impl, regs.A, operand.value)))
    BY <2>1
  <2>3. impl = Impl /\ Impl \in Atomic!Uses
    BY <2>1, SameUses DEF Executing, Impl
  <2> QED BY <2>1, <2>2, <2>3, SameUsed, OperandUsed
<1>4. ASSUME AddToAccumulator PROVE Completed
  <2>1. PICK operand \in RealOperands : UseOperand(operand, Added(regs, operand.value))
    BY <1>4 DEF AddToAccumulator
  <2>2. Impl = "add_to_accumulator_instr" /\ Impl \in Atomic!Uses
    BY <1>4, SameUses DEF AddToAccumulator, Executing, Impl
  <2> QED BY <2>1, <2>2, SameUsed, OperandUsed
<1>5. ASSUME SubFromAccumulator PROVE Completed
  <2>1. PICK operand \in RealOperands : UseOperand(operand, Subtracted(regs, operand.value))
    BY <1>5 DEF SubFromAccumulator
  <2>2. Impl = "sub_from_accumulator_instr" /\ Impl \in Atomic!Uses
    BY <1>5, SameUses DEF SubFromAccumulator, Executing, Impl
  <2> QED BY <2>1, <2>2, SameUsed, OperandUsed
<1>6. ASSUME TestBit PROVE Completed
  <2>1. PICK operand \in RealOperands : UseOperand(operand, Tested(regs, operand.value))
    BY <1>6 DEF TestBit
  <2>2. Impl = "test_bit_instr" /\ Impl \in Atomic!Uses
    BY <1>6, SameUses DEF TestBit, Executing, Impl
  <2> QED BY <2>1, <2>2, SameUsed, OperandUsed
<1> QED BY <1>1, <1>2, <1>3, <1>4, <1>5, <1>6

-----------------------------------------------------------------------------
(* The instructions that write to memory, and the shifts.                  *)

LEMMA SameWrites ==
  ASSUME NEW m, NEW a, NEW v, NEW d
  PROVE  /\ Atomic!MemoryAfterWrite(m, a, v) = MemoryAfterWrite(m, a, v)
         /\ Atomic!DataAfterWrite(m, d, a) = DataAfterWrite(m, d, a)
<1>1. Atomic!DataAfterWrite(m, d, a) = DataAfterWrite(m, d, a)
  BY DEF DataAfterWrite, Atomic!DataAfterWrite, Accessible, Atomic!Accessible,
     TEXT_START_PRIM, Atomic!TEXT_START_PRIM, TEXT_END_PRIM, Atomic!TEXT_END_PRIM,
     TEXT_START_SEC, Atomic!TEXT_START_SEC, TEXT_END_SEC, Atomic!TEXT_END_SEC
<1> QED BY <1>1, SameMemory

LEMMA StoreRefines ==
  ASSUME Ready, StoreRegister
  PROVE  Completed
<1> DEFINE lo == operands_buffer[0]
           hi == operands_buffer[1]
<1>1. PICK impl \in DOMAIN Stores :
        /\ Executing(impl)
        /\ memory' = MemoryAfterWrite(memory, FirstOperand(Mode), regs[Stores[impl]])
        /\ ap_data' = DataAfterWrite(memory, ap_data, FirstOperand(Mode))
        /\ UNCHANGED <<regs, last_trap>>
        /\ FinishExecute
  BY DEF StoreRegister
<1>2. impl = Impl /\ reg_IR \in Byte /\ BetweenSteps'
  BY <1>1 DEF Executing, Impl, FinishExecute, BetweenSteps, Ready, Inv, Sound, TypeOK
<1>3. IsAddress(Mode)
  BY <1>2, OperandModes DEF Impl, Mode, Stores, Shifts, Branches, IsAddress
<1>4. Atomic!Effective(Mode, lo, hi) = FirstOperand(Mode)
  BY <1>3, SameAddress
<1> HIDE DEF lo, hi
<1>5. /\ memory' = Atomic!MemoryAfterWrite(memory, Atomic!Effective(Mode, lo, hi),
                                           regs[Atomic!Stores[Impl]])
      /\ ap_data' = Atomic!DataAfterWrite(memory, ap_data, Atomic!Effective(Mode, lo, hi))
      /\ Impl \in DOMAIN Atomic!Stores
  BY <1>1, <1>2, <1>4, SameWrites, SameTables
<1> QED BY <1>1, <1>2, <1>5 DEF Completed, Atomic!Execute, Mode, Impl, lo, hi

LEMMA SameChanged ==
  ASSUME NEW impl, NEW p, NEW v
  PROVE  /\ Atomic!Changes = DOMAIN MemorySteps \cup Shifts
         /\ impl \in Shifts =>
              LET shifted == Shifted(impl, v, CarryOf(p))
              IN  Atomic!Changed(impl, p, v) =
                    [value |-> shifted.value,
                     P |-> ZeroNegative(UpdateFlag(p, CARRY, shifted.carry), shifted.value)]
         /\ impl \in DOMAIN MemorySteps =>
              Atomic!Changed(impl, p, v) =
                [value |-> ToByte(v + MemorySteps[impl]),
                 P |-> ZeroNegative(p, ToByte(v + MemorySteps[impl]))]
<1>1. Atomic!Changes = DOMAIN MemorySteps \cup Shifts
  BY SameTables DEF Atomic!Changes
<1>2. DOMAIN MemorySteps \cap Shifts = {}
  BY DEF MemorySteps, Shifts
<1>3. /\ Atomic!CarryOf(p) = CarryOf(p)
      /\ \A a, c : Atomic!Shifted(impl, a, c) = Shifted(impl, a, c)
      /\ \A q, c : Atomic!UpdateFlag(q, Atomic!CARRY, c) = UpdateFlag(q, CARRY, c)
      /\ \A q, a : Atomic!ZeroNegative(q, a) = ZeroNegative(q, a)
      /\ \A n : Atomic!ToByte(n) = ToByte(n)
  <2>1. Atomic!CARRY = CARRY
    BY DEF CARRY, Atomic!CARRY
  <2> QED BY <2>1, SameFlags, SameResults, SameArithmetic
<1>4. impl \in DOMAIN MemorySteps => impl \notin Shifts
  BY <1>2
<1> QED BY <1>1, <1>3, <1>4, SameTables DEF Atomic!Changed

LEMMA WriteBackRefines ==
  ASSUME Ready, Impl \in Atomic!Changes, IsAddress(Mode), NEW operand \in RealOperands,
         WriteBack(operand, Atomic!Changed(Impl, regs.P, operand.value).value,
                            Atomic!Changed(Impl, regs.P, operand.value).P)
  PROVE  Completed
<1> DEFINE lo == operands_buffer[0]
           hi == operands_buffer[1]
           address == FirstOperand(Mode)
           result == Atomic!Changed(Impl, regs.P, operand.value)
<1>1. operand.success
  BY RealOperandsType DEF Ready, Inv, Sound
<1>2. /\ regs' = [regs EXCEPT !.P = result.P]
      /\ memory' = MemoryAfterWrite(memory, address, result.value)
      /\ ap_data' = DataAfterWrite(memory, operand.data, address)
      /\ UNCHANGED last_trap
      /\ BetweenSteps'
  BY <1>1 DEF WriteBack, FinishExecute, BetweenSteps
<1>3. Atomic!Effective(Mode, lo, hi) = address /\ Mode # "ACCUMULATOR"
  BY SameAddress DEF IsAddress
<1>4. operand \in Atomic!Reads(ap_data, address)
  BY SameReads DEF RealOperands, ReadsOf
<1> HIDE DEF lo, hi, address
<1>5. /\ memory' = Atomic!MemoryAfterWrite(memory, address, result.value)
      /\ ap_data' = Atomic!DataAfterWrite(memory, operand.data, address)
  BY <1>2, SameWrites
<1> QED BY <1>2, <1>3, <1>4, <1>5 DEF Completed, Atomic!Execute, Mode, Impl, lo, hi

LEMMA StepMemoryRefines ==
  ASSUME Ready, StepMemory
  PROVE  Completed
<1>1. PICK impl \in DOMAIN MemorySteps :
        /\ Executing(impl)
        /\ \E operand \in RealOperands :
             LET value == ToByte(operand.value + MemorySteps[impl])
             IN  WriteBack(operand, value, ZeroNegative(regs.P, value))
  BY DEF StepMemory
<1>2. impl = Impl /\ reg_IR \in Byte
  BY <1>1 DEF Executing, Impl, Ready, Inv, Sound, TypeOK
<1>3. PICK operand \in RealOperands :
        WriteBack(operand, ToByte(operand.value + MemorySteps[Impl]),
                  ZeroNegative(regs.P, ToByte(operand.value + MemorySteps[Impl])))
  BY <1>1, <1>2
<1>4. IsAddress(Mode)
  BY <1>1, <1>2, OperandModes DEF Impl, Mode, MemorySteps, Shifts, Branches, IsAddress
<1>5. /\ Impl \in Atomic!Changes
      /\ Atomic!Changed(Impl, regs.P, operand.value) =
           [value |-> ToByte(operand.value + MemorySteps[Impl]),
            P |-> ZeroNegative(regs.P, ToByte(operand.value + MemorySteps[Impl]))]
  BY <1>1, <1>2, SameChanged
<1> QED BY <1>3, <1>4, <1>5, WriteBackRefines

LEMMA ShiftRefines ==
  ASSUME Ready, Shift
  PROVE  Completed
<1>1. PICK impl \in Shifts :
        /\ Executing(impl)
        /\ \E operand \in RealOperands :
             LET shifted == Shifted(impl, operand.value, CarryOf(regs.P))
                 p == ZeroNegative(UpdateFlag(regs.P, CARRY, shifted.carry), shifted.value)
             IN  IF IsAddress(Mode)
                 THEN WriteBack(operand, shifted.value, p)
                 ELSE SetRegisters([regs EXCEPT !.A = shifted.value, !.P = p])
  BY Zenon DEF Shift
<1>2. impl = Impl /\ reg_IR \in Byte
  BY <1>1 DEF Executing, Impl, Ready, Inv, Sound, TypeOK
<1>3. PICK operand \in RealOperands :
             LET shifted == Shifted(Impl, operand.value, CarryOf(regs.P))
                 p == ZeroNegative(UpdateFlag(regs.P, CARRY, shifted.carry), shifted.value)
             IN  IF IsAddress(Mode)
                 THEN WriteBack(operand, shifted.value, p)
                 ELSE SetRegisters([regs EXCEPT !.A = shifted.value, !.P = p])
  BY <1>1, <1>2, Zenon
<1> DEFINE shifted == Shifted(Impl, operand.value, CarryOf(regs.P))
           p == ZeroNegative(UpdateFlag(regs.P, CARRY, shifted.carry), shifted.value)
           result == Atomic!Changed(Impl, regs.P, operand.value)
<1>4. IF IsAddress(Mode)
      THEN WriteBack(operand, shifted.value, p)
      ELSE SetRegisters([regs EXCEPT !.A = shifted.value, !.P = p])
  BY <1>3
<1>5. Impl \in Atomic!Changes /\ result.value = shifted.value /\ result.P = p
  BY <1>1, <1>2, SameChanged
<1> HIDE DEF shifted, p
<1>6. CASE IsAddress(Mode)
  BY <1>4, <1>5, <1>6, WriteBackRefines
<1>7. CASE ~IsAddress(Mode)
  <2>1. Mode = "ACCUMULATOR"
    BY <1>1, <1>2, <1>7, OperandModes DEF Impl, Mode, Shifts, Branches, IsAddress
  <2>2. operand.value = regs.A
    BY <1>7, <2>1 DEF RealOperands, FirstOperand
  <2>3. /\ regs' = [regs EXCEPT !.A = result.value, !.P = result.P]
        /\ UNCHANGED <<memory, ap_data, last_trap>>
        /\ BetweenSteps'
    BY <1>4, <1>5, <1>7 DEF SetRegisters, FinishExecute, BetweenSteps
  <2> QED BY <1>5, <2>1, <2>2, <2>3 DEF Completed, Atomic!Execute, Mode, Impl
<1> QED BY <1>6, <1>7

-----------------------------------------------------------------------------
(* The instructions that have to do with registers only.                   *)

\* Each has a disjunct of its own in Atomic!Internally.
LEMMA SameInternal ==
  ASSUME NEW impl, NEW r, NEW offset
  PROVE  /\ Atomic!Internal = DOMAIN Transfers \cup DOMAIN RegisterSteps
              \cup DOMAIN FlagChanges \cup DOMAIN Branches \cup {"nop_instr"}
         /\ impl \in DOMAIN Transfers =>
              Atomic!Internally(impl, r, offset) =
                Assigned(r, Transfers[impl][2], r[Transfers[impl][1]])
         /\ impl \in DOMAIN RegisterSteps =>
              Atomic!Internally(impl, r, offset) =
                Assigned(r, RegisterSteps[impl][1],
                         ToByte(r[RegisterSteps[impl][1]] + RegisterSteps[impl][2]))
         /\ impl \in DOMAIN FlagChanges =>
              Atomic!Internally(impl, r, offset) =
                [r EXCEPT !.P = UpdateFlag(@, FlagChanges[impl][1], FlagChanges[impl][2])]
         /\ impl \in DOMAIN Branches =>
              Atomic!Internally(impl, r, offset) =
                IF Bit(r.P, Branches[impl][1]) = Branches[impl][2]
                THEN [r EXCEPT !.IP = ToWord(@ + Signed(offset))] ELSE r
         /\ Atomic!Internally("nop_instr", r, offset) = r
<1>1. /\ DOMAIN Transfers \cap DOMAIN RegisterSteps = {}
      /\ (DOMAIN Transfers \cup DOMAIN RegisterSteps) \cap DOMAIN FlagChanges = {}
      /\ (DOMAIN Transfers \cup DOMAIN RegisterSteps \cup DOMAIN FlagChanges)
           \cap DOMAIN Branches = {}
      /\ "nop_instr" \notin DOMAIN Transfers \cup DOMAIN RegisterSteps
                            \cup DOMAIN FlagChanges \cup DOMAIN Branches
  BY DEF Transfers, RegisterSteps, FlagChanges, Branches
<1>2. Atomic!Internal = DOMAIN Transfers \cup DOMAIN RegisterSteps
              \cup DOMAIN FlagChanges \cup DOMAIN Branches \cup {"nop_instr"}
  BY SameTables DEF Atomic!Internal
<1>3. /\ \A a, w : Atomic!Assigned(r, a, w) = Assigned(r, a, w)
      /\ \A n : Atomic!ToByte(n) = ToByte(n) /\ Atomic!ToWord(n) = ToWord(n)
      /\ Atomic!Signed(offset) = Signed(offset)
      /\ \A p, flag, c : Atomic!UpdateFlag(p, flag, c) = UpdateFlag(p, flag, c)
      /\ \A p, flag : Atomic!Bit(p, flag) = Bit(p, flag)
  BY SameResults, SameArithmetic, SameFlags
<1>4. CASE impl \in DOMAIN Transfers
  BY <1>1, <1>2, <1>3, <1>4, SameTables DEF Atomic!Internally
<1>5. CASE impl \in DOMAIN RegisterSteps
  BY <1>1, <1>2, <1>3, <1>5, SameTables DEF Atomic!Internally
<1>6. CASE impl \in DOMAIN FlagChanges
  BY <1>1, <1>2, <1>3, <1>6, SameTables DEF Atomic!Internally
<1>7. CASE impl \in DOMAIN Branches
  BY <1>1, <1>2, <1>3, <1>7, SameTables DEF Atomic!Internally
<1>8. Atomic!Internally("nop_instr", r, offset) = r
  BY <1>1, SameTables DEF Atomic!Internally
<1> QED BY <1>1, <1>2, <1>4, <1>5, <1>6, <1>7, <1>8

LEMMA InternallyCompleted ==
  ASSUME Ready, Impl \in Atomic!Internal,
         SetRegisters(Atomic!Internally(Impl, regs, operands_buffer[0]))
  PROVE  Completed
<1>1. /\ regs' = Atomic!Internally(Impl, regs, operands_buffer[0])
      /\ UNCHANGED <<memory, ap_data, last_trap>>
      /\ BetweenSteps'
  BY DEF SetRegisters, FinishExecute, BetweenSteps
<1> QED BY <1>1 DEF Completed, Atomic!Execute, Impl

LEMMA InternalRefines ==
  ASSUME Ready,
         TransferRegisters \/ StepRegister \/ ChangeFlag \/ BranchOnFlag \/ Nop
  PROVE  Completed
<1> DEFINE offset == operands_buffer[0]
<1>1. ASSUME TransferRegisters PROVE Completed
  <2>1. PICK impl \in DOMAIN Transfers :
          /\ Executing(impl)
          /\ SetRegisters(Assigned(regs, Transfers[impl][2], regs[Transfers[impl][1]]))
    BY <1>1 DEF TransferRegisters
  <2>2. impl = Impl
    BY <2>1 DEF Executing, Impl
  <2>3. /\ Atomic!Internally(impl, regs, offset)
             = Assigned(regs, Transfers[impl][2], regs[Transfers[impl][1]])
        /\ impl \in Atomic!Internal
    BY <2>1, SameInternal
  <2> QED BY <2>1, <2>2, <2>3, InternallyCompleted
<1>2. ASSUME StepRegister PROVE Completed
  <2>1. PICK impl \in DOMAIN RegisterSteps :
          /\ Executing(impl)
          /\ SetRegisters(Assigned(regs, RegisterSteps[impl][1],
               ToByte(regs[RegisterSteps[impl][1]] + RegisterSteps[impl][2])))
    BY <1>2 DEF StepRegister
  <2>2. impl = Impl
    BY <2>1 DEF Executing, Impl
  <2>3. /\ Atomic!Internally(impl, regs, offset)
             = Assigned(regs, RegisterSteps[impl][1],
                        ToByte(regs[RegisterSteps[impl][1]] + RegisterSteps[impl][2]))
        /\ impl \in Atomic!Internal
    BY <2>1, SameInternal
  <2> QED BY <2>1, <2>2, <2>3, InternallyCompleted
<1>3. ASSUME ChangeFlag PROVE Completed
  <2>1. PICK impl \in DOMAIN FlagChanges :
          /\ Executing(impl)
          /\ SetRegisters([regs EXCEPT
               !.P = UpdateFlag(@, FlagChanges[impl][1], FlagChanges[impl][2])])
    BY <1>3, Zenon DEF ChangeFlag
  <2>2. impl = Impl
    BY <2>1 DEF Executing, Impl
  <2>3. /\ Atomic!Internally(impl, regs, offset)
             = [regs EXCEPT !.P = UpdateFlag(@, FlagChanges[impl][1], FlagChanges[impl][2])]
        /\ impl \in Atomic!Internal
    BY <2>1, SameInternal, Zenon
  <2> QED BY <2>1, <2>2, <2>3, InternallyCompleted, Zenon
<1>4. ASSUME BranchOnFlag PROVE Completed
  <2>1. FirstOperand("RELATIVE") = offset
    BY DEF FirstOperand
  <2>2. PICK impl \in DOMAIN Branches :
          /\ Executing(impl)
          /\ SetRegisters(
               IF Bit(regs.P, Branches[impl][1]) = Branches[impl][2]
               THEN [regs EXCEPT !.IP = ToWord(@ + Signed(offset))] ELSE regs)
    BY <1>4, <2>1, Zenon DEF BranchOnFlag
  <2>3. impl = Impl
    BY <2>2 DEF Executing, Impl
  <2>4. impl \in Atomic!Internal
    BY <2>2, SameInternal
  <2>5. Atomic!Internally(impl, regs, offset)
          = IF Bit(regs.P, Branches[impl][1]) = Branches[impl][2]
            THEN [regs EXCEPT !.IP = ToWord(@ + Signed(offset))] ELSE regs
    <3> HIDE DEF offset
    <3> QED BY <2>2, SameInternal
  <2> QED BY <2>2, <2>3, <2>4, <2>5, InternallyCompleted, Zenon
<1>5. ASSUME Nop PROVE Completed
  <2>1. Impl # NULL_IMPL
    BY DEF Ready, Running, Inv, PipelineConsistent, OperandsComplete, Legal, Impl
  <2>2. PICK impl \in {"nop_instr", NULL_IMPL} :
          /\ Executing(impl)
          /\ last_trap' = IF impl = NULL_IMPL THEN "ILLEGAL_OPCODE" ELSE last_trap
          /\ UNCHANGED <<regs, memory, ap_data>>
          /\ FinishExecute
    BY <1>5 DEF Nop
  <2>3. Impl = "nop_instr" /\ UNCHANGED last_trap
    BY <2>1, <2>2 DEF Executing, Impl
  <2>4. Impl \in Atomic!Internal /\ Atomic!Internally(Impl, regs, offset) = regs
    BY <2>3, SameInternal
  <2> QED BY <2>2, <2>3, <2>4, InternallyCompleted DEF SetRegisters
<1> QED BY <1>1, <1>2, <1>3, <1>4, <1>5

-----------------------------------------------------------------------------
(* The instructions that push or pull.                                     *)

LEMMA SameStacking ==
  /\ Atomic!Stacking = DOMAIN Pushes \cup {"pull_a_instr", "pull_processor_status_instr",
       "jump_subroutine_instr", "return_from_subroutine_instr",
       "force_interrupt_instr", "return_from_interrupt"}
  /\ DOMAIN Pushes = {"push_a_instr", "push_processor_status_instr"}
BY SameTables DEF Atomic!Stacking, Pushes

\* What Atomic!Stacked is made of.
LEMMA SameStacked ==
  /\ \A x, v : Atomic!Push(x, v) = Push(x, v) /\ Atomic!PushWord(x, v) = PushWord(x, v)
  /\ \A x : Atomic!Pull(x) = Pull(x) /\ Atomic!IrqVector(x) = IrqVector(x)
  /\ \A r, x, v : Atomic!Assigned(r, x, v) = Assigned(r, x, v)
  /\ \A m, n : /\ Atomic!MakeWord(m, n) = MakeWord(m, n)
               /\ Atomic!ToWord(n) = ToWord(n)
               /\ Atomic!High(n) = High(n) /\ Atomic!Low(n) = Low(n)
  /\ \A p, flag, c : Atomic!UpdateFlag(p, flag, c) = UpdateFlag(p, flag, c)
  /\ Atomic!BREAK = BREAK /\ Atomic!Pushes = Pushes
  /\ DOMAIN Pushes = {"push_a_instr", "push_processor_status_instr"}
BY SMTT(30), SameStack, SameResults, SameArithmetic, SameFlags, SameTables
   DEF Pushes, BREAK, Atomic!BREAK

LEMMA StackedCompleted ==
  ASSUME Ready, Impl \in Atomic!Stacking, NEW result,
         result = Atomic!Stacked(Impl, regs, Stack,
                                 MakeWord(operands_buffer[1], operands_buffer[0])),
         UseStack(result.stack, result.regs)
  PROVE  Completed
<1>1. /\ regs' = [result.regs EXCEPT !.SP = result.stack.SP]
      /\ memory' = result.stack.memory
      /\ last_trap' = result.stack.trap
      /\ UNCHANGED ap_data
      /\ BetweenSteps'
  BY DEF UseStack, FinishExecute, BetweenSteps
<1>2. Atomic!MakeWord(operands_buffer[1], operands_buffer[0])
        = MakeWord(operands_buffer[1], operands_buffer[0])
  BY SameArithmetic
<1> QED BY <1>1, <1>2 DEF Completed, Atomic!Execute, Impl, Stack

LEMMA StackingRefines ==
  ASSUME Ready,
         \/ PushRegister \/ PullRegister \/ JumpSubroutine \/ ReturnFromSubroutine
         \/ ForceInterrupt \/ ReturnFromInterrupt
  PROVE  Completed
<1> DEFINE target == MakeWord(operands_buffer[1], operands_buffer[0])
           low    == Pull(Stack)
           high   == Pull(low)
<1>1. ASSUME PushRegister PROVE Completed
  <2>1. PICK impl \in DOMAIN Pushes :
          Executing(impl) /\ UseStack(Push(Stack, regs[Pushes[impl]]), regs)
    BY <1>1 DEF PushRegister
  <2> DEFINE result == [stack |-> Push(Stack, regs[Pushes[impl]]), regs |-> regs]
  <2>2. impl = Impl
    BY <2>1 DEF Executing, Impl
  <2>3. impl \in Atomic!Stacking
    BY <2>1, SameStacking
  <2>4. Atomic!Stacked(impl, regs, Stack, target) = result
    BY <2>1, SameStacked DEF Atomic!Stacked
  <2> QED BY <2>1, <2>2, <2>3, <2>4, StackedCompleted
<1>2. ASSUME Executing("pull_a_instr"), UseStack(low, Assigned(regs, "A", low.value))
      PROVE  Completed
  <2> DEFINE result == [stack |-> low, regs |-> Assigned(regs, "A", low.value)]
  <2>1. Impl = "pull_a_instr"
    BY <1>2 DEF Executing, Impl
  <2>2. Impl \in Atomic!Stacking
    BY <2>1, SameStacking
  <2>3. Atomic!Stacked("pull_a_instr", regs, Stack, target) = result
    BY SameStacked DEF Atomic!Stacked
  <2> HIDE DEF low
  <2> QED BY <1>2, <2>1, <2>2, <2>3, StackedCompleted
<1>3. ASSUME Executing("pull_processor_status_instr"),
             UseStack(low, [regs EXCEPT !.P = low.value])
      PROVE  Completed
  <2> DEFINE result == [stack |-> low, regs |-> [regs EXCEPT !.P = low.value]]
  <2>1. Impl = "pull_processor_status_instr"
    BY <1>3 DEF Executing, Impl
  <2>2. Impl \in Atomic!Stacking
    BY <2>1, SameStacking
  <2>3. Atomic!Stacked("pull_processor_status_instr", regs, Stack, target) = result
    BY SameStacked DEF Atomic!Stacked
  <2> HIDE DEF low
  <2> QED BY <1>3, <2>1, <2>2, <2>3, StackedCompleted
<1>4. ASSUME JumpSubroutine PROVE Completed
  <2> DEFINE back == ToWord(regs.IP - 1)
             stack == Push(Push(Stack, High(back)), Low(back))
             result == [stack |-> stack, regs |-> [regs EXCEPT !.IP = target]]
  <2>1. FirstOperand("ABSOLUTE") = target
    BY DEF FirstOperand
  <2>2. Executing("jump_subroutine_instr") /\ UseStack(stack, [regs EXCEPT !.IP = target])
    BY <1>4, <2>1, Zenon DEF JumpSubroutine
  <2>3. Impl = "jump_subroutine_instr"
    BY <2>2 DEF Executing, Impl
  <2>4. Impl \in Atomic!Stacking
    BY <2>3, SameStacking
  <2>5. Atomic!Stacked("jump_subroutine_instr", regs, Stack, target) = result
    BY SameStacked DEF Atomic!Stacked
  <2> HIDE DEF stack
  <2> QED BY <2>2, <2>3, <2>4, <2>5, StackedCompleted
<1>5. ASSUME ReturnFromSubroutine PROVE Completed
  <2> DEFINE registers == [regs EXCEPT !.IP = ToWord(MakeWord(high.value, low.value) + 1)]
             result == [stack |-> high, regs |-> registers]
  <2>1. Executing("return_from_subroutine_instr") /\ UseStack(high, registers)
    BY <1>5, Zenon DEF ReturnFromSubroutine
  <2>2. Impl = "return_from_subroutine_instr"
    BY <2>1 DEF Executing, Impl
  <2>3. Impl \in Atomic!Stacking
    BY <2>2, SameStacking
  <2>4. Atomic!Stacked("return_from_subroutine_instr", regs, Stack, target) = result
    BY SameStacked DEF Atomic!Stacked
  <2> HIDE DEF registers, high
  <2> QED BY <2>1, <2>2, <2>3, <2>4, StackedCompleted
<1>6. ASSUME ForceInterrupt PROVE Completed
  <2> DEFINE saved == Push(PushWord(Stack, regs.IP), regs.P)
             registers == [regs EXCEPT !.IP = IrqVector(saved.memory),
                                       !.P = UpdateFlag(@, BREAK, TRUE)]
             result == [stack |-> saved, regs |-> registers]
  <2>1. Executing("force_interrupt_instr") /\ UseStack(saved, registers)
    BY <1>6, Zenon DEF ForceInterrupt
  <2>2. Impl = "force_interrupt_instr"
    BY <2>1 DEF Executing, Impl
  <2>3. Impl \in Atomic!Stacking
    BY <2>2, SameStacking
  <2>4. Atomic!Stacked("force_interrupt_instr", regs, Stack, target) = result
    BY SameStacked DEF Atomic!Stacked
  <2> HIDE DEF registers, saved
  <2> QED BY <2>1, <2>2, <2>3, <2>4, StackedCompleted
<1>7. ASSUME ReturnFromInterrupt PROVE Completed
  <2> DEFINE three == Pull(high)
             registers == [regs EXCEPT !.P = low.value,
                                       !.IP = MakeWord(three.value, high.value)]
             result == [stack |-> three, regs |-> registers]
  <2>1. Executing("return_from_interrupt") /\ UseStack(three, registers)
    BY <1>7, Zenon DEF ReturnFromInterrupt
  <2>2. Impl = "return_from_interrupt"
    BY <2>1 DEF Executing, Impl
  <2>3. Impl \in Atomic!Stacking
    BY <2>2, SameStacking
  <2>4. Atomic!Stacked("return_from_interrupt", regs, Stack, target) = result
    BY SameStacked DEF Atomic!Stacked
  <2> HIDE DEF registers, three
  <2> QED BY <2>1, <2>2, <2>3, <2>4, StackedCompleted
<1>8. PullRegister =>
        \/ Executing("pull_a_instr") /\ UseStack(low, Assigned(regs, "A", low.value))
        \/ /\ Executing("pull_processor_status_instr")
           /\ UseStack(low, [regs EXCEPT !.P = low.value])
  BY Zenon DEF PullRegister
<1> HIDE DEF low
<1> QED BY <1>1, <1>2, <1>3, <1>4, <1>5, <1>6, <1>7, <1>8

-----------------------------------------------------------------------------
(* The jumps.                                                              *)

LEMMA JumpRefines ==
  ASSUME Ready, Jump
  PROVE  Completed
<1> DEFINE lo == operands_buffer[0]
           hi == operands_buffer[1]
<1>1. /\ Impl = "jump_instr" /\ Mode = "ABSOLUTE"
      /\ regs' = [regs EXCEPT !.IP = FirstOperand(Mode)]
      /\ UNCHANGED <<memory, ap_data, last_trap>>
      /\ BetweenSteps'
  BY DEF Jump, Executing, Impl, SetRegisters, FinishExecute, BetweenSteps
<1>2. Atomic!Effective(Mode, lo, hi) = FirstOperand(Mode)
  BY <1>1, SameAddress DEF IsAddress
<1> HIDE DEF lo, hi
<1> QED BY <1>1, <1>2 DEF Completed, Atomic!Execute, Mode, Impl, lo, hi

LEMMA JumpIndirectRefines ==
  ASSUME Ready, JumpIndirect
  PROVE  Completed
<1> DEFINE low  == MakeWord(operands_buffer[1], operands_buffer[0])
           high == HighPartAddress(low)
<1>1. FirstOperand("ABSOLUTE") = low
  BY DEF FirstOperand
<1>2. /\ Impl = "jump_instr" /\ Mode = "INDIRECT"
      /\ UNCHANGED <<memory, last_trap>>
      /\ BetweenSteps'
  BY DEF JumpIndirect, Executing, Impl, FinishExecute, BetweenSteps
<1>3. PICK lowFirst \in BOOLEAN, chr \in Stdin :
        LET first  == MemoryRead(memory, ap_data, IF lowFirst THEN low ELSE high, chr)
            second == MemoryRead(memory, first.data, IF lowFirst THEN high ELSE low, chr)
        IN  /\ regs' = [regs EXCEPT !.IP = IF lowFirst THEN MakeWord(second.value, first.value)
                                                       ELSE MakeWord(first.value, second.value)]
            /\ ap_data' = second.data
  BY <1>1, Zenon DEF JumpIndirect
<1> DEFINE first  == MemoryRead(memory, ap_data, IF lowFirst THEN low ELSE high, chr)
           second == MemoryRead(memory, first.data, IF lowFirst THEN high ELSE low, chr)
           order  == IF lowFirst THEN <<"lo", "hi">> ELSE <<"hi", "lo">>
           at     == [lo |-> low, hi |-> high]
           part   == [p \in DOMAIN at |-> IF p = order[1] THEN first.value ELSE second.value]
<1>4. /\ order \in {<<"lo", "hi">>, <<"hi", "lo">>}
      /\ at[order[1]] = IF lowFirst THEN low ELSE high
      /\ at[order[2]] = IF lowFirst THEN high ELSE low
  <2> HIDE DEF low, high
  <2> QED BY <1>3
<1>5. /\ first \in Atomic!Reads(ap_data, at[order[1]])
      /\ second \in Atomic!Reads(first.data, at[order[2]])
  BY <1>3, <1>4, SameReads DEF ReadsOf
<1>6. regs' = [regs EXCEPT !.IP = Atomic!MakeWord(part.hi, part.lo)] /\ ap_data' = second.data
  <2>1. /\ lowFirst => part.lo = first.value /\ part.hi = second.value
        /\ ~lowFirst => part.lo = second.value /\ part.hi = first.value
    <3> HIDE DEF first, second
    <3> QED OBVIOUS
  <2> HIDE DEF first, second, part
  <2> QED BY <1>3, <2>1, SameArithmetic DEF first, second
<1>7. /\ at.lo = Atomic!MakeWord(operands_buffer[1], operands_buffer[0])
      /\ at.hi = Atomic!HighPartAddress(
                   Atomic!MakeWord(operands_buffer[1], operands_buffer[0]))
  BY SameArithmetic
<1> HIDE DEF first, second, order, low, high
<1> QED BY <1>2, <1>4, <1>5, <1>6, <1>7 DEF Completed, Atomic!Execute, Mode, Impl

-----------------------------------------------------------------------------
(* The steps of the pipeline.                                              *)

\* Whatever the instruction is, Isa executes it too.
LEMMA ExecuteCompletes ==
  ASSUME Inv, Execute
  PROVE  Ready /\ Completed
<1>1. Running("EXECUTE")
  <2>1. CASE \/ Nop \/ LoadRegister \/ StoreRegister \/ TransferRegisters
             \/ AddToAccumulator \/ SubFromAccumulator \/ Logical \/ TestBit \/ Compare
    BY <2>1, Zenon
       DEF Nop, LoadRegister, StoreRegister, TransferRegisters, AddToAccumulator,
           SubFromAccumulator, Logical, TestBit, Compare, Executing
  <2>2. CASE StepMemory \/ Shift \/ StepRegister \/ ChangeFlag \/ BranchOnFlag
    BY <2>2, Zenon
       DEF StepMemory, Shift, StepRegister, ChangeFlag, BranchOnFlag, Executing
  <2>3. CASE \/ PushRegister \/ PullRegister \/ JumpSubroutine \/ ReturnFromSubroutine
             \/ ForceInterrupt \/ ReturnFromInterrupt \/ Jump \/ JumpIndirect
    BY <2>3, Zenon
       DEF PushRegister, PullRegister, JumpSubroutine, ReturnFromSubroutine,
           ForceInterrupt, ReturnFromInterrupt, Jump, JumpIndirect, Executing
  <2> QED BY <2>1, <2>2, <2>3 DEF Execute
<1>2. Ready
  BY <1>1 DEF Ready
<1> QED BY <1>2, UsesRefine, StoreRefines, StepMemoryRefines, ShiftRefines, InternalRefines,
           StackingRefines, JumpRefines, JumpIndirectRefines DEF Execute

\* The cycle that executes an instruction is the step of Isa.
LEMMA ExecuteHistory ==
  ASSUME Inv, History, Execute, PipelineNext
  PROVE  History' /\ Atomic!Instruction
<1> DEFINE n == operands_buffer_index
           seen == [regs EXCEPT !.IP = Start]
<1>1. Ready /\ Completed
  BY ExecuteCompletes
<1>2. /\ last_trap = "OK" /\ ~BetweenSteps /\ FetchedInOrder
      /\ Legal(reg_IR) /\ n = BytesForOperands(Mode)
      /\ regs \in Registers /\ regs.IP \in Word
  BY <1>1 DEF Ready, Running, BetweenSteps, History, Inv, PipelineConsistent,
              OperandsComplete, Sound, TypeOK, Registers
<1>3. state' = "FETCH"
  BY ExecuteExecuted DEF Inv, Executed, FinishExecute
<1>4. History'
  BY <1>3 DEF PipelineNext, History
<1>5. PICK opcode \in ReadsOf(ap_data_before, Start) :
        /\ opcode.value = reg_IR
        /\ \E lo \in Given(1, n, opcode.data) :
             \E hi \in Given(2, n, lo.data) :
               /\ operands_buffer[0] = lo.value /\ operands_buffer[1] = hi.value
               /\ ap_data = hi.data
  BY <1>2 DEF FetchedInOrder
<1>6. PICK lo \in Given(1, n, opcode.data) :
        \E hi \in Given(2, n, lo.data) :
          /\ operands_buffer[0] = lo.value /\ operands_buffer[1] = hi.value
          /\ ap_data = hi.data
  BY <1>5
<1>7. PICK hi \in Given(2, n, lo.data) :
        /\ operands_buffer[0] = lo.value /\ operands_buffer[1] = hi.value
        /\ ap_data = hi.data
  BY <1>6
<1>8. /\ Atomic!OpcodeData[opcode.value] = OpcodeData[reg_IR]
      /\ Atomic!BytesForOperands(Atomic!OpcodeData[opcode.value].mode) = n
      /\ Atomic!Legal(opcode.value)
  <2>1. Atomic!BytesForOperands(Mode) = BytesForOperands(Mode)
    BY DEF BytesForOperands, Atomic!BytesForOperands
  <2> QED BY <1>2, <1>5, <2>1, SameTables DEF Mode, Legal, Atomic!Legal
<1>9. seen.IP = Start
  BY <1>2 DEF Registers
<1>10. [seen EXCEPT !.IP = Atomic!ToWord(Start + 1 + n)] = regs
  <2>1. n \in {0, 1, 2}
    BY <1>2, CountType
  <2>2. ToWord(Start + 1 + n) = regs.IP
    BY <1>2, <2>1, StartPlaces DEF Start
  <2>3. Atomic!ToWord(Start + 1 + n) = regs.IP
    BY <2>2, SameArithmetic, Zenon
  <2> QED BY <1>2, <2>3 DEF Registers
<1>11. /\ opcode \in Atomic!Reads(ap_data_before, Start)
       /\ lo \in IF 1 <= n THEN Atomic!Reads(opcode.data, Atomic!ToWord(Start + 1))
                           ELSE Atomic!NoRead(opcode.data)
       /\ hi \in IF 2 <= n THEN Atomic!Reads(lo.data, Atomic!ToWord(Start + 2))
                           ELSE Atomic!NoRead(lo.data)
  BY <1>5, <1>6, <1>7, SameReads, SameArithmetic DEF Given, Atomic!NoRead
<1>12. Atomic!Execute(OpcodeData[reg_IR], lo.value, hi.value, regs, hi.data)
  BY <1>1, <1>7 DEF Completed
<1> HIDE DEF n, seen
<1>13. Atomic!Instruction
  <2> DEFINE Bytes(byte) == Atomic!BytesForOperands(Atomic!OpcodeData[byte].mode)
             Operand(byte, i, d) ==
               IF i <= Bytes(byte) THEN Atomic!Reads(d, Atomic!ToWord(seen.IP + i))
                                   ELSE Atomic!NoRead(d)
  <2>1. SUFFICES
          \E op \in Atomic!Reads(ap_data_before, seen.IP) :
            /\ Atomic!Legal(op.value)
            /\ \E l \in Operand(op.value, 1, op.data) :
                 \E h \in Operand(op.value, 2, l.data) :
                   Atomic!Execute(Atomic!OpcodeData[op.value], l.value, h.value,
                     [seen EXCEPT !.IP = Atomic!ToWord(@ + 1 + Bytes(op.value))], h.data)
    BY <1>2, Zenon DEF Atomic!Instruction, seen
  <2>2. /\ opcode \in Atomic!Reads(ap_data_before, seen.IP)
        /\ lo \in Operand(opcode.value, 1, opcode.data)
        /\ hi \in Operand(opcode.value, 2, lo.data)
    BY <1>8, <1>9, <1>11
  <2>3. Atomic!Execute(Atomic!OpcodeData[opcode.value], lo.value, hi.value,
          [seen EXCEPT !.IP = Atomic!ToWord(@ + 1 + Bytes(opcode.value))], hi.data)
    BY <1>8, <1>9, <1>10, <1>12, Zenon
  <2> HIDE DEF Bytes, Operand
  <2> QED BY <1>8, <2>2, <2>3
<1> QED BY <1>4, <1>13

LEMMA PipelineInitHistory == PipelineInit => History /\ Atomic!Init
<1> SUFFICES ASSUME PipelineInit PROVE History /\ Atomic!Init
  OBVIOUS
<1>1. /\ state = "FETCH" /\ ap_data_before = ap_data /\ BetweenSteps
  BY DEF PipelineInit, Init, BetweenSteps
<1>2. PICK cells \in Images : memory = [cells |-> cells, size |-> MEMORY_SIZE]
  BY DEF PipelineInit, Init
<1>3. /\ memory.cells \in Images
      /\ memory = [cells |-> memory.cells, size |-> Atomic!MEMORY_SIZE]
  BY <1>2 DEF MEMORY_SIZE, Atomic!MEMORY_SIZE
<1>4. regs = [A |-> 0, X |-> 0, Y |-> 0, P |-> Atomic!EMPTY_STATUS,
              SP |-> Atomic!EMPTY_STACK_PTR,
              IP |-> Atomic!MakeWord(Atomic!ByteAt(memory, Atomic!RESET_VECTOR_HIGH),
                                     Atomic!ByteAt(memory, Atomic!RESET_VECTOR_LOW))]
  <2>1. /\ Atomic!RESET_VECTOR_HIGH = RESET_VECTOR_HIGH
        /\ Atomic!RESET_VECTOR_LOW = RESET_VECTOR_LOW
        /\ Atomic!EMPTY_STATUS = EMPTY_STATUS /\ Atomic!EMPTY_STACK_PTR = EMPTY_STACK_PTR
    BY DEF RESET_VECTOR_HIGH, Atomic!RESET_VECTOR_HIGH, RESET_VECTOR_LOW,
           Atomic!RESET_VECTOR_LOW, EMPTY_STATUS, Atomic!EMPTY_STATUS,
           EMPTY_STACK_PTR, Atomic!EMPTY_STACK_PTR
  <2>2. \A a : Atomic!ByteAt(memory, a) = ByteAt(memory, a)
    BY DEF ByteAt, Atomic!ByteAt
  <2>3. /\ Peek(memory, RESET_VECTOR_LOW) = ByteAt(memory, RESET_VECTOR_LOW)
        /\ Peek(memory, RESET_VECTOR_HIGH) = ByteAt(memory, RESET_VECTOR_HIGH)
    BY <1>2 DEF Peek, Accessible, RESET_VECTOR_LOW, RESET_VECTOR_HIGH, MEMORY_SIZE
  <2> QED BY <2>1, <2>2, <2>3, SameArithmetic DEF PipelineInit, Init
<1>5. Atomic!Init
  BY <1>1, <1>3, <1>4 DEF PipelineInit, Init, Atomic!Init
<1> QED BY <1>1, <1>5 DEF History

\* Each cycle keeps the history, and is a step of Isa or none.
LEMMA PipelineStep ==
  Inv /\ History /\ [PipelineNext]_pipelineVars => History' /\ [Atomic!Next]_(Atomic!isaVars)
<1> SUFFICES ASSUME Inv, History, [PipelineNext]_pipelineVars
             PROVE  History' /\ [Atomic!Next]_(Atomic!isaVars)
  OBVIOUS
<1>1. CASE PipelineNext
  <2>1. Next
    BY <1>1 DEF PipelineNext
  <2>2. CASE Fetch
    BY <1>1, <2>2, FetchHistory
  <2>3. CASE Decode
    BY <1>1, <2>3, DecodeHistory, DecodeIllegal DEF Atomic!Next
  <2>4. CASE FetchOperand
    BY <1>1, <2>4, FetchOperandHistory
  <2>5. CASE Execute
    BY <1>1, <2>5, ExecuteHistory DEF Atomic!Next
  <2> QED BY <2>1, <2>2, <2>3, <2>4, <2>5 DEF Next, Execute
<1>2. CASE UNCHANGED pipelineVars
  <2>1. /\ UNCHANGED <<regs, reg_IR, operands_buffer, operands_buffer_index, memory, ap_data,
                       ap_data_before, state, last_trap>>
    BY <1>2 DEF pipelineVars, vars
  <2>2. History'
    BY <2>1, SameFetched DEF History
  <2>3. BetweenSteps' = BetweenSteps /\ Start' = Start
    BY <2>1 DEF BetweenSteps, Start
  <2> QED BY <2>1, <2>2, <2>3 DEF Atomic!isaVars
<1> QED BY <1>1, <1>2

\* The pipeline of cpu_do_cycle implements the machine that executes a whole
\* instruction in one step, for every program, whatever the user types, the
\* memory holds at the start and the compiler makes of jump_instr's two reads.
THEOREM PipelineRefinesIsa == PipelineSpec => ImplementsIsa
<1>1. PipelineInit => Inv /\ History /\ Atomic!Init
  BY InitInv, PipelineInitHistory DEF PipelineInit
<1>2. Inv /\ History /\ [PipelineNext]_pipelineVars
        => (Inv /\ History)' /\ [Atomic!Next]_(Atomic!isaVars)
  <2>1. [PipelineNext]_pipelineVars => [Next]_vars
    BY DEF PipelineNext, pipelineVars
  <2> QED BY <2>1, NextInv, PipelineStep
<1> QED BY <1>1, <1>2, PTL DEF PipelineSpec, ImplementsIsa, Atomic!Spec
=============================================================================
