-------------------------- MODULE RefinementProofs --------------------------
(***************************************************************************)
(* Proof that the loop of emulator_run implements Cpu, and Isa: with the   *)
(* request to redraw hidden, every cpu_do_cycle of the loop is a step of   *)
(* Cpu and every rendering a stutter.  Machine!X is X with that request    *)
(* always set.                                                             *)
(***************************************************************************)
EXTENDS EmulatorProofs, Composition

\* A read operand as Machine sees it.
MaskedRead(read) ==
  [success |-> read.success, value |-> read.value, data |-> Masked(read.data)]

-----------------------------------------------------------------------------
(* The definitions that are not about the device are the same in Machine.  *)

\* Tables, and C's arithmetic.
LEMMA SameTables ==
  /\ Machine!OpcodeData = OpcodeData /\ Machine!NULL_IMPL = NULL_IMPL
  /\ Machine!Loads = Loads /\ Machine!Stores = Stores
  /\ Machine!Transfers = Transfers /\ Machine!Pushes = Pushes
  /\ Machine!Logicals = Logicals /\ Machine!Comparisons = Comparisons
  /\ Machine!MemorySteps = MemorySteps /\ Machine!RegisterSteps = RegisterSteps
  /\ Machine!Shifts = Shifts
  /\ Machine!FlagChanges = FlagChanges /\ Machine!Branches = Branches
BY DEF OpcodeData, Machine!OpcodeData, Table, Machine!Table, Row, Machine!Row,
       Implied, Machine!Implied, Relative, Machine!Relative,
       Addressed, Machine!Addressed, Byte, Machine!Byte, NULL_IMPL, Machine!NULL_IMPL,
       Loads, Machine!Loads, Stores, Machine!Stores, Transfers, Machine!Transfers,
       Pushes, Machine!Pushes, Logicals, Machine!Logicals,
       Comparisons, Machine!Comparisons, MemorySteps, Machine!MemorySteps,
       RegisterSteps, Machine!RegisterSteps, Shifts, Machine!Shifts,
       FlagChanges, Machine!FlagChanges, Branches, Machine!Branches,
       CARRY, Machine!CARRY, ZERO, Machine!ZERO, INTERRUPT, Machine!INTERRUPT,
       DECIMAL, Machine!DECIMAL, OVERFLOW_, Machine!OVERFLOW_,
       NEGATIVE, Machine!NEGATIVE

LEMMA SameArithmetic ==
  ASSUME NEW m, NEW n
  PROVE  /\ Machine!ToByte(n) = ToByte(n) /\ Machine!ToWord(n) = ToWord(n)
         /\ Machine!Signed(n) = Signed(n) /\ Machine!MakeWord(m, n) = MakeWord(m, n)
         /\ Machine!High(n) = High(n) /\ Machine!Low(n) = Low(n)
         /\ Machine!HighPartAddress(n) = HighPartAddress(n)
BY DEF ToByte, Machine!ToByte, ToWord, Machine!ToWord, Signed, Machine!Signed,
       MakeWord, Machine!MakeWord, High, Machine!High, Low, Machine!Low,
       HighPartAddress, Machine!HighPartAddress

\* What the instructions compute.
LEMMA SameFlags ==
  ASSUME NEW p, NEW flag, NEW cond
  PROVE  /\ Machine!Bit(p, flag) = Bit(p, flag)
         /\ Machine!UpdateFlag(p, flag, cond) = UpdateFlag(p, flag, cond)
         /\ Machine!ZeroNegative(p, flag) = ZeroNegative(p, flag)
         /\ Machine!CarryOf(p) = CarryOf(p)
BY DEF CarryOf, Machine!CarryOf, UpdateFlag, Machine!UpdateFlag,
       ZeroNegative, Machine!ZeroNegative, CARRY, Machine!CARRY, ZERO, Machine!ZERO,
       NEGATIVE, Machine!NEGATIVE, Bit, Machine!Bit, SetBit, Machine!SetBit,
       ClearBit, Machine!ClearBit

LEMMA SameArithmeticResult ==
  ASSUME NEW r, NEW result, NEW v, NEW c
  PROVE  Machine!ArithmeticResult(r, result, v, c) = ArithmeticResult(r, result, v, c)
<1>1. Machine!OverflowCondition(r.A, Low(result), v) = OverflowCondition(r.A, Low(result), v)
  BY DEF OverflowCondition, Machine!OverflowCondition, Bit, Machine!Bit,
         NEGATIVE, Machine!NEGATIVE
<1>2. Machine!OVERFLOW_ = OVERFLOW_ /\ Machine!CARRY = CARRY
  BY DEF OVERFLOW_, Machine!OVERFLOW_, CARRY, Machine!CARRY
<1>3. \A q, a, w : Machine!Assigned(q, a, w) = Assigned(q, a, w)
  BY SameFlags DEF Assigned, Machine!Assigned
<1> QED BY <1>1, <1>2, <1>3, SameArithmetic, SameFlags
        DEF ArithmeticResult, Machine!ArithmeticResult

LEMMA SameResults ==
  ASSUME NEW r, NEW a, NEW v, NEW c
  PROVE  /\ Machine!Assigned(r, a, v) = Assigned(r, a, v)
         /\ Machine!Added(r, v) = Added(r, v)
         /\ Machine!Subtracted(r, v) = Subtracted(r, v)
         /\ Machine!Combined(c, a, v) = Combined(c, a, v)
         /\ Machine!Tested(r, v) = Tested(r, v)
         /\ Machine!Compared(r, a, v) = Compared(r, a, v)
         /\ Machine!Shifted(a, v, c) = Shifted(a, v, c)
<1>1. Machine!Assigned(r, a, v) = Assigned(r, a, v)
  BY SameFlags DEF Assigned, Machine!Assigned
<1>2. Machine!Added(r, v) = Added(r, v) /\ Machine!Subtracted(r, v) = Subtracted(r, v)
  BY SameArithmeticResult, SameArithmetic, SameFlags
     DEF Added, Machine!Added, Subtracted, Machine!Subtracted
<1>3. \A x, y : /\ Machine!And(x, y) = And(x, y)
                /\ Machine!Or(x, y) = Or(x, y)
                /\ Machine!Xor(x, y) = Xor(x, y)
  <2> TAKE x, y
  <2> QED BY DEF And, Machine!And, Or, Machine!Or, Xor, Machine!Xor, BitsOf, Machine!BitsOf,
                 ByteOf, Machine!ByteOf, Masks, Machine!Masks, Bit, Machine!Bit
<1>4. Machine!Combined(c, a, v) = Combined(c, a, v)
  BY <1>3 DEF Combined, Machine!Combined
<1>5. Machine!Tested(r, v) = Tested(r, v)
  BY <1>3, SameFlags DEF Tested, Machine!Tested, ZERO, Machine!ZERO, NEGATIVE,
     Machine!NEGATIVE, OVERFLOW_, Machine!OVERFLOW_
<1>6. Machine!Compared(r, a, v) = Compared(r, a, v)
  BY SameFlags, SameArithmetic DEF Compared, Machine!Compared, CARRY, Machine!CARRY
<1>7. Machine!Shifted(a, v, c) = Shifted(a, v, c)
  BY SameFlags, SameArithmetic DEF Shifted, Machine!Shifted
<1> QED BY <1>1, <1>2, <1>4, <1>5, <1>6, <1>7

\* Memory and stack.
LEMMA SameMemory ==
  ASSUME NEW m, NEW a, NEW v
  PROVE  /\ Machine!Peek(m, a) = Peek(m, a)
         /\ Machine!MemoryAfterWrite(m, a, v) = MemoryAfterWrite(m, a, v)
BY DEF Accessible, Machine!Accessible, ByteAt, Machine!ByteAt, Peek, Machine!Peek,
       MemoryAfterWrite, Machine!MemoryAfterWrite, Store, Machine!Store,
       IO_START, Machine!IO_START

LEMMA SameStack ==
  ASSUME NEW s, NEW v
  PROVE  /\ Machine!Push(s, v) = Push(s, v)
         /\ Machine!Pull(s) = Pull(s)
         /\ Machine!PushWord(s, v) = PushWord(s, v)
         /\ Machine!IrqVector(v) = IrqVector(v)
         /\ Machine!Stack = Stack
BY DEF PushWord, Machine!PushWord, High, Machine!High, Low, Machine!Low,
       IrqVector, Machine!IrqVector, IRQ_VECTOR_LOW, Machine!IRQ_VECTOR_LOW,
       IRQ_VECTOR_HIGH, Machine!IRQ_VECTOR_HIGH, MakeWord, Machine!MakeWord,
       Stack, Machine!Stack, Push, Machine!Push, Pull, Machine!Pull,
       STACK_LOWEST_ADDRESS, Machine!STACK_LOWEST_ADDRESS,
       FULL_STACK_PTR, Machine!FULL_STACK_PTR,
       EMPTY_STACK_PTR, Machine!EMPTY_STACK_PTR, Accessible, Machine!Accessible,
       ByteAt, Machine!ByteAt, Peek, Machine!Peek,
       MemoryAfterWrite, Machine!MemoryAfterWrite, Store, Machine!Store,
       IO_START, Machine!IO_START

\* Operands, and which instruction is executed.
LEMMA SameMode ==
  ASSUME NEW mode
  PROVE  /\ Machine!Mode = Mode
         /\ Machine!IsAddress(mode) = IsAddress(mode)
         /\ Machine!BytesForOperands(mode) = BytesForOperands(mode)
<1>1. Machine!Mode = Mode
  BY SameTables DEF Mode, Machine!Mode
<1>2. Machine!IsAddress(mode) = IsAddress(mode)
  BY DEF IsAddress, Machine!IsAddress
<1>3. Machine!BytesForOperands(mode) = BytesForOperands(mode)
  BY DEF BytesForOperands, Machine!BytesForOperands
<1> QED BY <1>1, <1>2, <1>3

LEMMA SameFirstOperand ==
  ASSUME NEW mode
  PROVE  Machine!FirstOperand(mode) = FirstOperand(mode)
BY DEF FirstOperand, Machine!FirstOperand, ZeroPageIndexed, Machine!ZeroPageIndexed,
       ZeroPagePointer, Machine!ZeroPagePointer, Peek, Machine!Peek,
       Accessible, Machine!Accessible, ByteAt, Machine!ByteAt,
       MakeWord, Machine!MakeWord, ToWord, Machine!ToWord, ToByte, Machine!ToByte

LEMMA SameExecuting ==
  ASSUME NEW s, NEW impl
  PROVE  /\ Machine!Running(s) <=> Running(s)
         /\ Machine!Executing(impl) <=> Executing(impl)
         /\ Machine!FinishExecute <=> FinishExecute
<1>1. Machine!Running(s) <=> Running(s)
  BY DEF Running, Machine!Running
<1>2. Machine!Executing(impl) <=> Executing(impl)
  BY SameTables DEF Running, Machine!Running, Executing, Machine!Executing
<1>3. Machine!FinishExecute <=> FinishExecute
  BY DEF FinishExecute, Machine!FinishExecute, EmptyBuffer, Machine!EmptyBuffer,
         OPERANDS_BUFFER_SIZE, Machine!OPERANDS_BUFFER_SIZE
<1> QED BY <1>1, <1>2, <1>3
-----------------------------------------------------------------------------
(* The device with the request hidden.                                     *)

\* The device d with one field set.
Set(d, field, v) == [d EXCEPT ![field] = v]

\* Hiding the request leaves the other fields alone, and may be done before or
\* after they are set.
LEMMA MaskedDevice ==
  ASSUME NEW d \in AppleData
  PROVE  /\ Masked(d) \in AppleData
         /\ Masked(d).keyboard_ready <=> d.keyboard_ready
         /\ Masked(d).keyboard_latch = d.keyboard_latch
BY DEF Masked, AppleData

LEMMA MaskedSet ==
  ASSUME NEW d \in AppleData, NEW f, f # "term_render_request", NEW v
  PROVE  Set(Masked(d), f, v) = Masked(Set(d, f, v))
<1>1. d = [x \in DOMAIN d |-> d[x]]
  BY DEF AppleData
<1> QED BY <1>1 DEF Masked, Set

\* The addresses whose reads switch a field of the device.
Switches ==
  {SET_GRAPHICS, SET_TEXT, SET_PRIM, SET_SEC, SET_LO, SET_HI, KEYBOARD_STROBE}

LEMMA SwitchRead ==
  ASSUME NEW address \in Switches, NEW chr
  PROVE  \E f, v : f # "term_render_request" /\ \A d : DataAfterRead(d, address, chr) = Set(d, f, v)
<1> DEFINE Does(a, f, v) == \A d : DataAfterRead(d, a, chr) = [d EXCEPT ![f] = v]
<1>1. /\ Does(SET_GRAPHICS, "video_mode", "GRAPHICS")
      /\ Does(SET_TEXT, "video_mode", "TEXT")
      /\ Does(SET_PRIM, "page", "PRIM")
      /\ Does(SET_SEC, "page", "SEC")
      /\ Does(SET_LO, "res", "LO")
      /\ Does(SET_HI, "res", "HI")
      /\ \A d : DataAfterRead(d, KEYBOARD_STROBE, chr) = [d EXCEPT !.keyboard_ready = FALSE]
  <2> USE DEF DataAfterRead, KEYBOARD_DATA, KEYBOARD_STROBE, SET_GRAPHICS, SET_TEXT,
              SET_PRIM, SET_SEC, SET_LO, SET_HI
  <2>1. Does(SET_GRAPHICS, "video_mode", "GRAPHICS")
    OBVIOUS
  <2>2. Does(SET_TEXT, "video_mode", "TEXT")
    OBVIOUS
  <2>3. Does(SET_PRIM, "page", "PRIM")
    OBVIOUS
  <2>4. Does(SET_SEC, "page", "SEC")
    OBVIOUS
  <2>5. Does(SET_LO, "res", "LO")
    OBVIOUS
  <2>6. Does(SET_HI, "res", "HI")
    OBVIOUS
  <2>7. \A d : DataAfterRead(d, KEYBOARD_STROBE, chr) = [d EXCEPT !.keyboard_ready = FALSE]
    OBVIOUS
  <2> QED BY <2>1, <2>2, <2>3, <2>4, <2>5, <2>6, <2>7
<1>2. CASE address = SET_GRAPHICS
  <2> WITNESS "video_mode", "GRAPHICS"
  <2> QED BY <1>1, <1>2, Zenon DEF Set
<1>3. CASE address = SET_TEXT
  <2> WITNESS "video_mode", "TEXT"
  <2> QED BY <1>1, <1>3, Zenon DEF Set
<1>4. CASE address = SET_PRIM
  <2> WITNESS "page", "PRIM"
  <2> QED BY <1>1, <1>4, Zenon DEF Set
<1>5. CASE address = SET_SEC
  <2> WITNESS "page", "SEC"
  <2> QED BY <1>1, <1>5, Zenon DEF Set
<1>6. CASE address = SET_LO
  <2> WITNESS "res", "LO"
  <2> QED BY <1>1, <1>6, Zenon DEF Set
<1>7. CASE address = SET_HI
  <2> WITNESS "res", "HI"
  <2> QED BY <1>1, <1>7, Zenon DEF Set
<1>8. CASE address = KEYBOARD_STROBE
  <2> WITNESS "keyboard_ready", FALSE
  <2> QED BY <1>1, <1>8, Zenon DEF Set
<1> QED BY <1>2, <1>3, <1>4, <1>5, <1>6, <1>7, <1>8 DEF Switches

LEMMA KeyboardRead ==
  ASSUME NEW d \in AppleData, NEW chr
  PROVE  /\ d.keyboard_ready => DataAfterRead(d, KEYBOARD_DATA, chr) = d
         /\ ~d.keyboard_ready =>
              DataAfterRead(d, KEYBOARD_DATA, chr)
                = Set(Set(d, "keyboard_latch", Latched(chr)), "keyboard_ready", TRUE)
<1>1. CASE d.keyboard_ready
  BY <1>1 DEF Set, DataAfterRead, KEYBOARD_DATA, KEYBOARD_STROBE, SET_GRAPHICS, SET_TEXT,
         SET_PRIM, SET_SEC, SET_LO, SET_HI
<1>2. CASE ~d.keyboard_ready
  <2>1. DataAfterRead(d, KEYBOARD_DATA, chr)
          = [d EXCEPT !.keyboard_latch = Latched(chr), !.keyboard_ready = TRUE]
    BY <1>2 DEF DataAfterRead, KEYBOARD_DATA, KEYBOARD_STROBE, SET_GRAPHICS, SET_TEXT,
           SET_PRIM, SET_SEC, SET_LO, SET_HI
  <2> QED BY <1>2, <2>1, Zenon DEF Set
<1> QED BY <1>1, <1>2

\* No read looks at the request, or changes it.
LEMMA DataAfterReadMasked ==
  ASSUME NEW d \in AppleData, NEW address, NEW chr
  PROVE  DataAfterRead(Masked(d), address, chr) = Masked(DataAfterRead(d, address, chr))
<1>1. CASE address \in Switches
  <2>1. PICK f, v : f # "term_render_request" /\ \A e : DataAfterRead(e, address, chr) = Set(e, f, v)
    BY <1>1, SwitchRead, Zenon
  <2>2. Set(Masked(d), f, v) = Masked(Set(d, f, v))
    BY <2>1, MaskedSet, Zenon
  <2> QED BY <2>1, <2>2, Zenon
<1>2. CASE address = KEYBOARD_DATA
  <2>1. Masked(d) \in AppleData /\ (Masked(d).keyboard_ready <=> d.keyboard_ready)
    BY MaskedDevice
  <2>2. CASE d.keyboard_ready
    BY <1>2, <2>1, <2>2, KeyboardRead, Zenon
  <2>3. CASE ~d.keyboard_ready
    <3> DEFINE latched(e) == Set(e, "keyboard_latch", Latched(chr))
    <3>1. latched(Masked(d)) = Masked(latched(d))
      BY MaskedSet
    <3>2. Set(Masked(latched(d)), "keyboard_ready", TRUE)
            = Masked(Set(latched(d), "keyboard_ready", TRUE))
      BY DEF Masked, Set, AppleData
    <3> HIDE DEF latched
    <3>3. DataAfterRead(d, KEYBOARD_DATA, chr) = Set(latched(d), "keyboard_ready", TRUE)
      BY <2>3, KeyboardRead, Zenon DEF latched
    <3>4. DataAfterRead(Masked(d), KEYBOARD_DATA, chr)
            = Set(latched(Masked(d)), "keyboard_ready", TRUE)
      BY <2>1, <2>3, KeyboardRead, Zenon DEF latched
    <3> QED BY <1>2, <3>1, <3>2, <3>3, <3>4, Zenon
  <2> QED BY <2>2, <2>3
<1>3. CASE address \notin Switches \cup {KEYBOARD_DATA}
  BY <1>3 DEF DataAfterRead, Switches
<1> QED BY <1>1, <1>2, <1>3

\* Nor is the key that a read returns another one.
LEMMA LatchMasked ==
  ASSUME NEW d \in AppleData, NEW address, NEW chr
  PROVE  DataAfterRead(Masked(d), address, chr).keyboard_latch
           = DataAfterRead(d, address, chr).keyboard_latch
<1> DEFINE after == DataAfterRead(d, address, chr)
<1>1. "keyboard_latch" \in DOMAIN after
  <2>1. CASE address \in Switches
    BY <2>1, SwitchRead DEF Set, AppleData
  <2>2. CASE address = KEYBOARD_DATA
    BY <2>2, KeyboardRead DEF Set, AppleData
  <2>3. CASE address \notin Switches \cup {KEYBOARD_DATA}
    BY <2>3 DEF DataAfterRead, Switches, AppleData
  <2> QED BY <2>1, <2>2, <2>3
<1>2. DataAfterRead(Masked(d), address, chr) = Masked(after)
  BY DataAfterReadMasked
<1> HIDE DEF after
<1>3. Masked(after).keyboard_latch = after.keyboard_latch
  BY <1>1 DEF Masked
<1> QED BY <1>2, <1>3 DEF after

LEMMA ReadMasked ==
  ASSUME NEW m, NEW d \in AppleData, NEW address, NEW chr
  PROVE  Machine!MemoryRead(m, Masked(d), address, chr)
           = MaskedRead(MemoryRead(m, d, address, chr))
<1>1. Machine!MemoryRead(m, Masked(d), address, chr) = MemoryRead(m, Masked(d), address, chr)
  BY DEF MemoryRead, Machine!MemoryRead, Accessible, Machine!Accessible, ByteAt, Machine!ByteAt,
     DataAfterRead, Machine!DataAfterRead, Latched, Machine!Latched, ToByte, Machine!ToByte,
     SetBit, Machine!SetBit, Bit, Machine!Bit, KEYBOARD_READY_MASK, Machine!KEYBOARD_READY_MASK,
     KEYBOARD_DATA, Machine!KEYBOARD_DATA, KEYBOARD_STROBE, Machine!KEYBOARD_STROBE,
     SET_GRAPHICS, Machine!SET_GRAPHICS, SET_TEXT, Machine!SET_TEXT, SET_PRIM, Machine!SET_PRIM,
     SET_SEC, Machine!SET_SEC, SET_LO, Machine!SET_LO, SET_HI, Machine!SET_HI,
     IO_START, Machine!IO_START, ROM_START, Machine!ROM_START
<1> DEFINE after  == DataAfterRead(d, address, chr)
           masked == DataAfterRead(Masked(d), address, chr)
<1>2. masked = Masked(after)
  BY DataAfterReadMasked
<1>3. masked.keyboard_latch = after.keyboard_latch
  BY LatchMasked
<1>4. CASE Accessible(m, address)
  BY <1>1, <1>2, <1>3, <1>4 DEF MemoryRead, MaskedRead
<1>5. CASE ~Accessible(m, address)
  BY <1>1, <1>5 DEF MemoryRead, MaskedRead
<1> QED BY <1>4, <1>5

\* A write sets the request if it does anything to the device.
LEMMA WriteMasked ==
  ASSUME NEW m, NEW d \in AppleData, NEW address
  PROVE  Machine!DataAfterWrite(m, Masked(d), address) = Masked(DataAfterWrite(m, d, address))
<1>1. Machine!DataAfterWrite(m, Masked(d), address) = DataAfterWrite(m, Masked(d), address)
  BY DEF DataAfterWrite, Machine!DataAfterWrite, Accessible, Machine!Accessible,
     TEXT_START_PRIM, Machine!TEXT_START_PRIM, TEXT_END_PRIM, Machine!TEXT_END_PRIM,
     TEXT_START_SEC, Machine!TEXT_START_SEC, TEXT_END_SEC, Machine!TEXT_END_SEC
<1> QED BY <1>1 DEF DataAfterWrite, Masked, AppleData

-----------------------------------------------------------------------------
(* What the instructions end in.                                           *)

LEMMA SetRegistersMasked ==
  ASSUME NEW r, SetRegisters(r)
  PROVE  Machine!SetRegisters(r)
BY SameExecuting DEF SetRegisters, Machine!SetRegisters

LEMMA UseOperandMasked ==
  ASSUME NEW operand, NEW r, UseOperand(operand, r)
  PROVE  Machine!UseOperand(MaskedRead(operand), r)
BY SameExecuting DEF UseOperand, Machine!UseOperand, MaskedRead, Masked

LEMMA UseStackMasked ==
  ASSUME NEW s, NEW r, UseStack(s, r)
  PROVE  Machine!UseStack(s, r)
BY SameExecuting DEF UseStack, Machine!UseStack

LEMMA WriteBackMasked ==
  ASSUME NEW operand, operand.data \in AppleData, NEW value, NEW p, WriteBack(operand, value, p)
  PROVE  Machine!WriteBack(MaskedRead(operand), value, p)
<1>1. Machine!DataAfterWrite(memory, Masked(operand.data), FirstOperand(Mode))
        = Masked(ap_data')
  BY WriteMasked DEF WriteBack
<1> QED BY <1>1, SameExecuting, SameMode, SameFirstOperand, SameMemory
        DEF WriteBack, Machine!WriteBack, MaskedRead, Masked

\* Machine reads the same operands.
LEMMA OperandMasked ==
  ASSUME ap_data \in AppleData, NEW operand \in RealOperands
  PROVE  MaskedRead(operand) \in Machine!RealOperands
<1>1. CASE IsAddress(Mode)
  <2>1. PICK chr \in Stdin : operand = MemoryRead(memory, ap_data, FirstOperand(Mode), chr)
    BY <1>1 DEF RealOperands
  <2>2. MaskedRead(operand)
          = Machine!MemoryRead(memory, Masked(ap_data), Machine!FirstOperand(Machine!Mode), chr)
    BY <2>1, ReadMasked, SameMode, SameFirstOperand
  <2> QED BY <1>1, <2>2, SameMode DEF Machine!RealOperands, Masked
<1>2. CASE ~IsAddress(Mode)
  BY <1>2, SameMode, SameFirstOperand DEF RealOperands, Machine!RealOperands, MaskedRead, Masked
<1> QED BY <1>1, <1>2
-----------------------------------------------------------------------------
(* The actions.                                                            *)

LEMMA FetchMasked ==
  ASSUME ap_data \in AppleData, Fetch
  PROVE  Machine!Fetch
<1> DEFINE Fetches(fetched) ==
      /\ reg_IR' = fetched.value
      /\ state' = IF fetched.success THEN "DECODE" ELSE state
      /\ last_trap' = IF fetched.success THEN last_trap ELSE "SEGMENTATION_FAULT"
<1>1. PICK chr \in Stdin :
        /\ ap_data' = MemoryRead(memory, ap_data, regs.IP, chr).data
        /\ Fetches(MemoryRead(memory, ap_data, regs.IP, chr))
  BY DEF Fetch
<1> DEFINE masked == Machine!MemoryRead(memory, Masked(ap_data), regs.IP, chr)
<1>2. masked = MaskedRead(MemoryRead(memory, ap_data, regs.IP, chr))
  BY ReadMasked
<1>3. Masked(ap_data') = masked.data /\ Fetches(masked)
  BY <1>1, <1>2 DEF MaskedRead
<1>4. Machine!IncrementIP
  BY SameArithmetic DEF Fetch, IncrementIP, Machine!IncrementIP
<1>5. Machine!Running("FETCH")
  BY SameExecuting DEF Fetch
<1>6. UNCHANGED <<remaining_bytes, operands_buffer, operands_buffer_index, memory>>
  BY DEF Fetch
<1> QED BY <1>3, <1>4, <1>5, <1>6, Zenon DEF Machine!Fetch, Masked

LEMMA DecodeMasked ==
  ASSUME Decode
  PROVE  Machine!Decode
<1>1. Machine!Legal(reg_IR) <=> Legal(reg_IR)
  BY SameTables DEF Legal, Machine!Legal
<1> QED BY <1>1, SameExecuting, SameMode DEF Decode, Machine!Decode

LEMMA FetchOperandMasked ==
  ASSUME ap_data \in AppleData, FetchOperand
  PROVE  Machine!FetchOperand
<1>1. Machine!OPERANDS_BUFFER_SIZE = OPERANDS_BUFFER_SIZE
  BY DEF OPERANDS_BUFFER_SIZE, Machine!OPERANDS_BUFFER_SIZE
<1>2. CASE operands_buffer_index = OPERANDS_BUFFER_SIZE
  BY <1>1, <1>2, SameExecuting DEF FetchOperand, Machine!FetchOperand
<1>3. CASE operands_buffer_index # OPERANDS_BUFFER_SIZE
  <2>1. PICK chr \in Stdin : OperandFetched(MemoryRead(memory, ap_data, regs.IP, chr))
    BY <1>3 DEF FetchOperand
  <2> DEFINE fetched == MemoryRead(memory, ap_data, regs.IP, chr)
  <2>2. Machine!MemoryRead(memory, Masked(ap_data), regs.IP, chr) = MaskedRead(fetched)
    BY ReadMasked
  <2> HIDE DEF fetched
  <2>3. Machine!OperandFetched(MaskedRead(fetched))
    BY <2>1, SameArithmetic DEF OperandFetched, Machine!OperandFetched, IncrementIP,
       Machine!IncrementIP, MaskedRead, Masked, fetched
  <2> QED BY <1>1, <1>3, <2>2, <2>3, SameExecuting DEF FetchOperand, Machine!FetchOperand, Masked
<1> QED BY <1>2, <1>3

LEMMA NopMasked ==
  ASSUME Nop
  PROVE  Machine!Nop
BY SameExecuting, SameTables DEF Nop, Machine!Nop

LEMMA LoadRegisterMasked ==
  ASSUME ap_data \in AppleData, LoadRegister
  PROVE  Machine!LoadRegister
<1>1. PICK impl \in DOMAIN Loads, operand \in RealOperands :
        /\ Executing(impl)
        /\ UseOperand(operand, Assigned(regs, Loads[impl], operand.value))
  BY DEF LoadRegister
<1>2. MaskedRead(operand) \in Machine!RealOperands /\ MaskedRead(operand).value = operand.value
  BY OperandMasked DEF MaskedRead
<1>3. Machine!UseOperand(MaskedRead(operand), Assigned(regs, Loads[impl], operand.value))
  BY <1>1, UseOperandMasked
<1> QED BY <1>1, <1>2, <1>3, SameExecuting, SameTables, SameResults, Zenon DEF Machine!LoadRegister

LEMMA StoreRegisterMasked ==
  ASSUME ap_data \in AppleData, StoreRegister
  PROVE  Machine!StoreRegister
<1>1. Machine!DataAfterWrite(memory, Masked(ap_data), FirstOperand(Mode))
        = Masked(DataAfterWrite(memory, ap_data, FirstOperand(Mode)))
  BY WriteMasked
<1> QED BY <1>1, SameExecuting, SameTables, SameMode, SameFirstOperand, SameMemory
        DEF StoreRegister, Machine!StoreRegister, Masked

LEMMA RegistersMasked ==
  /\ TransferRegisters => Machine!TransferRegisters
  /\ StepRegister => Machine!StepRegister
  /\ ChangeFlag => Machine!ChangeFlag
  /\ BranchOnFlag => Machine!BranchOnFlag
  /\ Jump => Machine!Jump
<1>1. TransferRegisters => Machine!TransferRegisters
  BY SetRegistersMasked, SameExecuting, SameTables, SameResults
     DEF TransferRegisters, Machine!TransferRegisters
<1>2. StepRegister => Machine!StepRegister
  BY SetRegistersMasked, SameExecuting, SameTables, SameResults, SameArithmetic
     DEF StepRegister, Machine!StepRegister
<1>3. ChangeFlag => Machine!ChangeFlag
  BY SetRegistersMasked, SameExecuting, SameTables, SameFlags
     DEF ChangeFlag, Machine!ChangeFlag
<1>4. BranchOnFlag => Machine!BranchOnFlag
  BY SetRegistersMasked, SameExecuting, SameTables, SameFlags, SameArithmetic, SameFirstOperand
     DEF BranchOnFlag, Machine!BranchOnFlag
<1>5. Jump => Machine!Jump
  BY SetRegistersMasked, SameExecuting, SameMode, SameFirstOperand DEF Jump, Machine!Jump
<1> QED BY <1>1, <1>2, <1>3, <1>4, <1>5

\* The instructions that read an operand and put a result into the registers.
LEMMA OperandUsersMasked ==
  ASSUME ap_data \in AppleData
  PROVE  /\ AddToAccumulator => Machine!AddToAccumulator
         /\ SubFromAccumulator => Machine!SubFromAccumulator
         /\ Logical => Machine!Logical
         /\ TestBit => Machine!TestBit
         /\ Compare => Machine!Compare
<1>1. \A operand \in RealOperands : MaskedRead(operand) \in Machine!RealOperands
  BY OperandMasked
<1>2. \A operand, r : UseOperand(operand, r) => Machine!UseOperand(MaskedRead(operand), r)
  BY UseOperandMasked
<1>3. \A operand : MaskedRead(operand).value = operand.value
  BY DEF MaskedRead
<1>4. ASSUME AddToAccumulator PROVE Machine!AddToAccumulator
  <2>1. PICK operand \in RealOperands :
          Executing("add_to_accumulator_instr") /\ UseOperand(operand, Added(regs, operand.value))
    BY <1>4 DEF AddToAccumulator
  <2> QED BY <1>1, <1>2, <1>3, <2>1, SameExecuting, SameResults, Zenon
          DEF Machine!AddToAccumulator
<1>5. ASSUME SubFromAccumulator PROVE Machine!SubFromAccumulator
  <2>1. PICK operand \in RealOperands :
          /\ Executing("sub_from_accumulator_instr")
          /\ UseOperand(operand, Subtracted(regs, operand.value))
    BY <1>5 DEF SubFromAccumulator
  <2> QED BY <1>1, <1>2, <1>3, <2>1, SameExecuting, SameResults, Zenon
          DEF Machine!SubFromAccumulator
<1>6. ASSUME Logical PROVE Machine!Logical
  <2>1. PICK impl \in Logicals, operand \in RealOperands :
          /\ Executing(impl)
          /\ UseOperand(operand, Assigned(regs, "A", Combined(impl, regs.A, operand.value)))
    BY <1>6 DEF Logical
  <2> DEFINE result == Assigned(regs, "A", Combined(impl, regs.A, operand.value))
  <2>2. result = Machine!Assigned(regs, "A", Machine!Combined(impl, regs.A, operand.value))
    BY SameResults
  <2> QED BY <1>1, <1>2, <1>3, <2>1, <2>2, SameExecuting, SameTables, Zenon
          DEF Machine!Logical
<1>7. ASSUME TestBit PROVE Machine!TestBit
  <2>1. PICK operand \in RealOperands :
          Executing("test_bit_instr") /\ UseOperand(operand, Tested(regs, operand.value))
    BY <1>7 DEF TestBit
  <2> QED BY <1>1, <1>2, <1>3, <2>1, SameExecuting, SameResults, Zenon DEF Machine!TestBit
<1>8. ASSUME Compare PROVE Machine!Compare
  <2>1. PICK impl \in DOMAIN Comparisons, operand \in RealOperands :
          /\ Executing(impl)
          /\ UseOperand(operand, Compared(regs, Comparisons[impl], operand.value))
    BY <1>8 DEF Compare
  <2> QED BY <1>1, <1>2, <1>3, <2>1, SameExecuting, SameResults, SameTables, Zenon
          DEF Machine!Compare
<1> QED BY <1>4, <1>5, <1>6, <1>7, <1>8

LEMMA StepMemoryMasked ==
  ASSUME Sound, StepMemory
  PROVE  Machine!StepMemory
<1> DEFINE stepped(impl, operand) == ToByte(operand.value + MemorySteps[impl])
<1>1. PICK impl \in DOMAIN MemorySteps, operand \in RealOperands :
        /\ Executing(impl)
        /\ WriteBack(operand, stepped(impl, operand),
                     ZeroNegative(regs.P, stepped(impl, operand)))
  BY DEF StepMemory
<1>2. MaskedRead(operand) \in Machine!RealOperands /\ MaskedRead(operand).value = operand.value
  BY OperandMasked DEF MaskedRead, Sound, TypeOK
<1>3. Machine!WriteBack(MaskedRead(operand), stepped(impl, operand),
                        ZeroNegative(regs.P, stepped(impl, operand)))
  BY <1>1, RealOperandsType, WriteBackMasked DEF Sound
<1> QED BY <1>1, <1>2, <1>3, SameExecuting, SameTables, SameFlags, SameArithmetic, Zenon
        DEF Machine!StepMemory

LEMMA ShiftMasked ==
  ASSUME Sound, Shift
  PROVE  Machine!Shift
<1> DEFINE shifted(impl, operand) == Shifted(impl, operand.value, CarryOf(regs.P))
           p(impl, operand) ==
             ZeroNegative(UpdateFlag(regs.P, CARRY, shifted(impl, operand).carry),
                          shifted(impl, operand).value)
<1>1. PICK impl \in Shifts, operand \in RealOperands :
        /\ Executing(impl)
        /\ IF IsAddress(Mode)
           THEN WriteBack(operand, shifted(impl, operand).value, p(impl, operand))
           ELSE SetRegisters([regs EXCEPT !.A = shifted(impl, operand).value,
                                          !.P = p(impl, operand)])
  BY DEF Shift
<1>2. MaskedRead(operand) \in Machine!RealOperands /\ MaskedRead(operand).value = operand.value
  BY OperandMasked DEF MaskedRead, Sound, TypeOK
<1>3. IF IsAddress(Mode)
      THEN Machine!WriteBack(MaskedRead(operand), shifted(impl, operand).value, p(impl, operand))
      ELSE Machine!SetRegisters([regs EXCEPT !.A = shifted(impl, operand).value,
                                             !.P = p(impl, operand)])
  BY <1>1, RealOperandsType, WriteBackMasked, SetRegistersMasked DEF Sound
<1>4. Machine!CARRY = CARRY
  BY DEF CARRY, Machine!CARRY
<1>5. shifted(impl, operand)
        = Machine!Shifted(impl, MaskedRead(operand).value, Machine!CarryOf(regs.P))
  BY <1>2, SameFlags, SameResults
<1>6. p(impl, operand)
        = Machine!ZeroNegative(
            Machine!UpdateFlag(regs.P, Machine!CARRY, shifted(impl, operand).carry),
            shifted(impl, operand).value)
  BY <1>4, SameFlags
<1> HIDE DEF p, shifted
<1> QED BY <1>1, <1>2, <1>3, <1>5, <1>6, SameExecuting, SameTables, SameMode, Zenon
        DEF Machine!Shift

\* The instructions of the stack.
LEMMA StackUsersMasked ==
  /\ PushRegister => Machine!PushRegister
  /\ PullRegister => Machine!PullRegister
  /\ JumpSubroutine => Machine!JumpSubroutine
  /\ ReturnFromSubroutine => Machine!ReturnFromSubroutine
  /\ ForceInterrupt => Machine!ForceInterrupt
  /\ ReturnFromInterrupt => Machine!ReturnFromInterrupt
<1>1. PushRegister => Machine!PushRegister
  BY UseStackMasked, SameExecuting, SameTables, SameStack DEF PushRegister, Machine!PushRegister
<1>2. PullRegister => Machine!PullRegister
  BY UseStackMasked, SameExecuting, SameStack, SameResults DEF PullRegister, Machine!PullRegister
<1>3. JumpSubroutine => Machine!JumpSubroutine
  BY UseStackMasked, SameExecuting, SameStack, SameArithmetic, SameFirstOperand
     DEF JumpSubroutine, Machine!JumpSubroutine
<1>4. ReturnFromSubroutine => Machine!ReturnFromSubroutine
  BY UseStackMasked, SameExecuting, SameStack, SameArithmetic
     DEF ReturnFromSubroutine, Machine!ReturnFromSubroutine
<1>5. Machine!BREAK = BREAK
  BY DEF BREAK, Machine!BREAK
<1>6. ASSUME ForceInterrupt PROVE Machine!ForceInterrupt
  <2> DEFINE s == Push(PushWord(Stack, regs.IP), regs.P)
  <2>1. /\ Machine!Executing("force_interrupt_instr")
        /\ Machine!UseStack(s, [regs EXCEPT !.IP = IrqVector(s.memory),
                                            !.P = UpdateFlag(regs.P, BREAK, TRUE)])
    BY <1>6, UseStackMasked, SameExecuting DEF ForceInterrupt
  <2>2. /\ s = Machine!Push(Machine!PushWord(Machine!Stack, regs.IP), regs.P)
        /\ IrqVector(s.memory) = Machine!IrqVector(s.memory)
    BY SameStack
  <2>3. UpdateFlag(regs.P, BREAK, TRUE) = Machine!UpdateFlag(regs.P, Machine!BREAK, TRUE)
    BY <1>5, SameFlags, Zenon
  <2> HIDE DEF s
  <2> QED BY <2>1, <2>2, <2>3, Zenon DEF Machine!ForceInterrupt
<1>7. ReturnFromInterrupt => Machine!ReturnFromInterrupt
  BY UseStackMasked, SameExecuting, SameStack, SameArithmetic
     DEF ReturnFromInterrupt, Machine!ReturnFromInterrupt
<1> QED BY <1>1, <1>2, <1>3, <1>4, <1>6, <1>7

\* Both reads of the pointer, in either order.
LEMMA JumpIndirectMasked ==
  ASSUME Sound, JumpIndirect
  PROVE  Machine!JumpIndirect
<1> DEFINE lo == FirstOperand("ABSOLUTE")
           hi == HighPartAddress(lo)
           first(lowFirst, chr) ==
             MemoryRead(memory, ap_data, IF lowFirst THEN lo ELSE hi, chr)
           second(lowFirst, chr) ==
             MemoryRead(memory, first(lowFirst, chr).data,
                        IF lowFirst THEN hi ELSE lo, chr)
           jump(lowFirst, one, two) ==
             [regs EXCEPT !.IP = IF lowFirst THEN MakeWord(two, one) ELSE MakeWord(one, two)]
<1>1. PICK lowFirst \in BOOLEAN, chr \in Stdin :
        /\ regs' = jump(lowFirst, first(lowFirst, chr).value, second(lowFirst, chr).value)
        /\ ap_data' = second(lowFirst, chr).data
  BY DEF JumpIndirect
<1> DEFINE one == Machine!MemoryRead(memory, Masked(ap_data), IF lowFirst THEN lo ELSE hi, chr)
           two == Machine!MemoryRead(memory, one.data, IF lowFirst THEN hi ELSE lo, chr)
<1>2. one = MaskedRead(first(lowFirst, chr))
  BY ReadMasked DEF Sound, TypeOK
<1>3. first(lowFirst, chr).data \in AppleData
  <2>1. (IF lowFirst THEN lo ELSE hi) \in Word
    BY FirstOperandType, HighPartType DEF Sound
  <2> QED BY <2>1, ReadType DEF Sound, TypeOK
<1>4. two = MaskedRead(second(lowFirst, chr))
  <2>1. one.data = Masked(first(lowFirst, chr).data)
    BY <1>2 DEF MaskedRead
  <2> HIDE DEF one, first, lo, hi
  <2> QED BY <1>3, <2>1, ReadMasked
<1>5. regs' = jump(lowFirst, one.value, two.value) /\ Masked(ap_data') = two.data
  <2> HIDE DEF one, two, first, second
  <2> QED BY <1>1, <1>2, <1>4 DEF MaskedRead
<1>6. lo = Machine!FirstOperand("ABSOLUTE") /\ hi = Machine!HighPartAddress(lo)
  BY SameFirstOperand, SameArithmetic
<1>7. /\ Machine!Executing("jump_instr") /\ Machine!Mode = "INDIRECT"
      /\ UNCHANGED <<last_trap, memory>>
      /\ Machine!FinishExecute
  BY SameExecuting, SameMode DEF JumpIndirect
<1>8. \A a, b : Machine!MakeWord(a, b) = MakeWord(a, b)
  BY SameArithmetic
<1> HIDE DEF lo, hi
<1> QED BY <1>5, <1>6, <1>7, <1>8, Zenon DEF Machine!JumpIndirect, Masked

\* Every cycle of a sound machine is one of Machine.
LEMMA NextMasked ==
  ASSUME Sound, Next
  PROVE  Machine!Next
<1>1. ap_data \in AppleData
  BY DEF Sound, TypeOK
<1> QED BY <1>1, FetchMasked, DecodeMasked, FetchOperandMasked, NopMasked, LoadRegisterMasked,
           StoreRegisterMasked, RegistersMasked, OperandUsersMasked, StepMemoryMasked,
           ShiftMasked, StackUsersMasked, JumpIndirectMasked, Zenon
        DEF Next, Machine!Next

-----------------------------------------------------------------------------
(* The refinement.                                                         *)

\* Machine starts as the emulator does: cpu_init has set the request.
LEMMA InitMasked == EmulatorInit => Machine!Init
<1> SUFFICES ASSUME Init PROVE Machine!Init
  BY DEF EmulatorInit
<1>1. Masked(ap_data) \in {[d EXCEPT !.term_render_request = TRUE] : d \in PowerOn}
  <2>1. PICK d \in PowerOn : ap_data = [d EXCEPT !.term_render_request = TRUE]
    BY DEF Init
  <2>2. Masked(ap_data) = [d EXCEPT !.term_render_request = TRUE]
    BY <2>1, PowerOnAssumption DEF Masked, AppleData
  <2> QED BY <2>2
<1>2. Machine!Peek(memory, RESET_VECTOR_HIGH) = Peek(memory, RESET_VECTOR_HIGH)
      /\ Machine!Peek(memory, RESET_VECTOR_LOW) = Peek(memory, RESET_VECTOR_LOW)
  BY SameMemory
<1> QED BY SMTT(30), <1>1, <1>2, SameArithmetic
        DEF Init, Machine!Init, Masked, EmptyBuffer, Machine!EmptyBuffer, OPERANDS_BUFFER_SIZE,
            Machine!OPERANDS_BUFFER_SIZE, MEMORY_SIZE, Machine!MEMORY_SIZE, EMPTY_STATUS,
            Machine!EMPTY_STATUS, EMPTY_STACK_PTR, Machine!EMPTY_STACK_PTR,
            RESET_VECTOR_HIGH, Machine!RESET_VECTOR_HIGH, RESET_VECTOR_LOW,
            Machine!RESET_VECTOR_LOW

\* A rendering clears the request only, which Machine does not see.
LEMMA RenderMasked ==
  ASSUME Sound, Render
  PROVE  UNCHANGED Machine!vars
<1>1. Masked(ap_data') = Masked(ap_data)
  BY DEF Render, Redraw, Masked, Sound, TypeOK, AppleData
<1> QED BY <1>1 DEF Render, Machine!vars, Masked

\* A turn of the loop is a cycle of the processor, or nothing.
LEMMA EmulatorNextMasked ==
  EmulatorInv /\ [EmulatorNext]_emulatorVars => [Machine!Next]_(Machine!vars)
<1> SUFFICES ASSUME EmulatorInv, [EmulatorNext]_emulatorVars
             PROVE  [Machine!Next]_(Machine!vars)
  OBVIOUS
<1>1. Sound
  BY DEF EmulatorInv, Inv
<1>2. CASE Cycle
  BY <1>1, <1>2, NextMasked DEF Cycle
<1>3. CASE Render
  BY <1>1, <1>3, RenderMasked
<1>4. CASE UNCHANGED emulatorVars
  BY <1>4 DEF emulatorVars, vars, Machine!vars
<1> QED BY <1>2, <1>3, <1>4 DEF EmulatorNext

\* The emulator implements the processor: with the request hidden, every behaviour of
\* the loop of emulator_run is one of cpu_do_cycle alone, whatever the program.
THEOREM EmulatorRefinesCpu == EmulatorSpec => ImplementsCpu
BY InitMasked, EmulatorNextMasked, EmulatorInvariance, PTL
   DEF EmulatorSpec, ImplementsCpu, Machine!Spec

-----------------------------------------------------------------------------
(* The loop and the machine of whole instructions.                          *)

\* The constants are the same in Machine, and so are the assumptions on them.
LEMMA MachineAssumptions ==
  /\ Machine!HeapAssumption /\ Machine!StdinAssumption /\ Machine!ImagesAssumption
  /\ Machine!PowerOnAssumption /\ Machine!GarbageAssumption
<1>1. Machine!Word = Word /\ Machine!Byte = Byte
  BY DEF Word, Machine!Word, Byte, Machine!Byte
<1>2. Machine!HeapAssumption
  BY <1>1, HeapAssumption
<1>3. Machine!StdinAssumption
  BY StdinAssumption
<1>4. Machine!ImagesAssumption
  BY <1>1, ImagesAssumption DEF IsCells, Machine!IsCells
<1>5. Machine!PowerOnAssumption
  BY <1>1, PowerOnAssumption DEF AppleData, Machine!AppleData
<1>6. Machine!GarbageAssumption
  BY <1>1, GarbageAssumption
<1> QED BY <1>2, <1>3, <1>4, <1>5, <1>6

\* The history variable changes nothing about the loop.
LEMMA ComposedIsEmulator == ComposedSpec => EmulatorSpec
<1>1. ComposedInit => EmulatorInit
  BY DEF ComposedInit
<1>2. [ComposedNext]_composedVars => [EmulatorNext]_emulatorVars
  BY DEF ComposedNext, ComposedCycle, ComposedRender, EmulatorNext, composedVars
<1> QED BY <1>1, <1>2, PTL DEF ComposedSpec, EmulatorSpec

\* A turn of the loop is a step of the pipeline with its history, or nothing.
LEMMA ComposedNextMasked ==
  EmulatorInv /\ [ComposedNext]_composedVars => [Machine!PipelineNext]_(Machine!pipelineVars)
<1> SUFFICES ASSUME EmulatorInv, [ComposedNext]_composedVars
             PROVE  [Machine!PipelineNext]_(Machine!pipelineVars)
  OBVIOUS
<1>1. Sound
  BY DEF EmulatorInv, Inv
<1>2. CASE ComposedCycle
  <2>1. Machine!Next
    BY <1>1, <1>2, NextMasked DEF ComposedCycle, Cycle
  <2> QED BY <1>2, <2>1 DEF ComposedCycle, Machine!PipelineNext, Masked
<1>3. CASE ComposedRender
  <2>1. UNCHANGED Machine!vars
    BY <1>1, <1>3, RenderMasked DEF ComposedRender
  <2> QED BY <1>3, <2>1 DEF ComposedRender, Machine!pipelineVars
<1>4. CASE UNCHANGED composedVars
  BY <1>4 DEF composedVars, emulatorVars, vars, Machine!pipelineVars, Machine!vars
<1> QED BY <1>2, <1>3, <1>4 DEF ComposedNext

\* So the loop implements the pipeline with its history.
LEMMA ComposedRefinesPipeline == ComposedSpec => Machine!PipelineSpec
<1>1. ComposedInit => Machine!PipelineInit
  BY InitMasked DEF ComposedInit, Machine!PipelineInit, Masked
<1> QED BY <1>1, ComposedNextMasked, ComposedIsEmulator, EmulatorInvariance, PTL
        DEF ComposedSpec, Machine!PipelineSpec

\* The emulator executes whole instructions: cycles, fetches through the device and
\* renderings between them show in nothing but the request to redraw.
THEOREM EmulatorRefinesIsa == ComposedSpec => LoopImplementsIsa
BY ComposedRefinesPipeline, Machine!PipelineRefinesIsa, MachineAssumptions, PTL
   DEF LoopImplementsIsa

\* So what is proved of the processor alone holds of the emulator, without a word about
\* rendering: its ROM, its keys and its zero page are as safe.
THEOREM LoopInheritsProcessor ==
  EmulatorSpec => Machine!ROMIsReadOnly /\ Machine!KeyHeldUntilStrobe /\ Machine!ZeroPageConfined
BY EmulatorRefinesCpu, Machine!ROMProtected, Machine!KeyHeld, Machine!ZeroPageIsConfined,
   MachineAssumptions, PTL DEF ImplementsCpu
=============================================================================
