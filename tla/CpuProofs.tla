----------------------------- MODULE CpuProofs -----------------------------
(***************************************************************************)
(* Proofs of the invariants and action properties of CpuProperties.        *)
(***************************************************************************)
EXTENDS CpuProperties, TLAPS

-----------------------------------------------------------------------------
(* Bytes, words and flags.                                                 *)

\* A flag set or cleared in a byte leaves a byte.
LEMMA FlagByte ==
  ASSUME NEW x \in Byte, NEW m \in Masks
  PROVE  SetBit(x, m) \in Byte /\ ClearBit(x, m) \in Byte
<1> DEFINE goal(k) == SetBit(x, k) \in Byte /\ ClearBit(x, k) \in Byte
<1>1. goal(1)   BY DEF SetBit, ClearBit, Bit, Byte
<1>2. goal(2)   BY DEF SetBit, ClearBit, Bit, Byte
<1>3. goal(4)   BY DEF SetBit, ClearBit, Bit, Byte
<1>4. goal(8)   BY DEF SetBit, ClearBit, Bit, Byte
<1>5. goal(16)  BY DEF SetBit, ClearBit, Bit, Byte
<1>6. goal(32)  BY DEF SetBit, ClearBit, Bit, Byte
<1>7. goal(64)  BY DEF SetBit, ClearBit, Bit, Byte
<1>8. goal(128) BY DEF SetBit, ClearBit, Bit, Byte
<1> QED BY <1>1, <1>2, <1>3, <1>4, <1>5, <1>6, <1>7, <1>8 DEF Masks

\* cpu_status_flag_set and cpu_status_flag_clear leave reg_P a byte.
LEMMA UpdateFlagByte ==
  ASSUME NEW p \in Byte, NEW flag \in Masks, NEW cond
  PROVE  UpdateFlag(p, flag, cond) \in Byte
BY FlagByte DEF UpdateFlag

\* The flag masks of cpu.c are single bits.
LEMMA FlagMasks ==
  /\ CARRY \in Masks /\ ZERO \in Masks /\ INTERRUPT \in Masks /\ DECIMAL \in Masks
  /\ BREAK \in Masks /\ OVERFLOW_ \in Masks /\ NEGATIVE \in Masks
  /\ KEYBOARD_READY_MASK \in Masks
BY DEF CARRY, ZERO, INTERRUPT, DECIMAL, BREAK, OVERFLOW_, NEGATIVE,
       KEYBOARD_READY_MASK, Masks

\* The flags after cpu_update_zero_and_negative_flags are a byte.
LEMMA ZeroNegativeByte ==
  ASSUME NEW p \in Byte, NEW value
  PROVE  ZeroNegative(p, value) \in Byte
<1>1. UpdateFlag(p, ZERO, value = 0) \in Byte
  BY UpdateFlagByte, FlagMasks
<1> QED BY <1>1, UpdateFlagByte, FlagMasks DEF ZeroNegative

\* What a word is, as a pair of bounds.
LEMMA WordRange ==
  /\ \A n \in Int : n \in Word <=> 0 <= n /\ n <= \hFFFF
  /\ \A w \in Word : w \in Int /\ 0 <= w /\ w <= \hFFFF
<1> DEFINE max == \hFFFF
<1>1. Word = 0 .. max /\ max \in Int
  BY DEF Word
<1>2. SUFFICES /\ \A n \in Int : n \in Word <=> 0 <= n /\ n <= max
               /\ \A w \in Word : w \in Int /\ 0 <= w /\ w <= max
  OBVIOUS
<1> HIDE DEF max
<1> QED BY <1>1

\* What a byte is, as a pair of bounds.
LEMMA ByteRange ==
  /\ \A n \in Int : n \in Byte <=> 0 <= n /\ n <= \hFF
  /\ \A b \in Byte : b \in Int /\ 0 <= b /\ b <= \hFF
<1> DEFINE max == \hFF
<1>1. Byte = 0 .. max /\ max \in Int
  BY DEF Byte
<1>2. SUFFICES /\ \A n \in Int : n \in Byte <=> 0 <= n /\ n <= max
               /\ \A b \in Byte : b \in Int /\ 0 <= b /\ b <= max
  OBVIOUS
<1> HIDE DEF max
<1> QED BY <1>1

\* The bytes of a word, and the conversions to a byte and to a word.
LEMMA WordParts ==
  /\ \A w \in Word : High(w) \in Byte /\ Low(w) \in Byte
  /\ \A hi, lo \in Byte : MakeWord(hi, lo) \in Word
  /\ \A n \in Int : ToByte(n) \in Byte /\ ToWord(n) \in Word
  /\ \A b \in Byte : b \in Word
<1>1. ASSUME NEW w \in Word
      PROVE  High(w) \in Byte /\ Low(w) \in Byte
  <2>1. w \in Int /\ 0 <= w /\ w <= \hFFFF
    BY WordRange
  <2>2. /\ High(w) \in Int /\ 0 <= High(w) /\ High(w) <= \hFF
        /\ Low(w) \in Int /\ 0 <= Low(w) /\ Low(w) <= \hFF
    BY <2>1 DEF High, Low
  <2> QED BY <2>2, ByteRange
<1>2. ASSUME NEW hi \in Byte, NEW lo \in Byte
      PROVE  MakeWord(hi, lo) \in Word
  <2>1. hi \in Int /\ 0 <= hi /\ hi <= \hFF /\ lo \in Int /\ 0 <= lo /\ lo <= \hFF
    BY ByteRange
  <2>2. MakeWord(hi, lo) \in Int /\ 0 <= MakeWord(hi, lo) /\ MakeWord(hi, lo) <= \hFFFF
    BY <2>1 DEF MakeWord
  <2> QED BY <2>2, WordRange
<1>3. ASSUME NEW n \in Int
      PROVE  ToByte(n) \in Byte /\ ToWord(n) \in Word
  <2>1. /\ ToByte(n) \in Int /\ 0 <= ToByte(n) /\ ToByte(n) <= \hFF
        /\ ToWord(n) \in Int /\ 0 <= ToWord(n) /\ ToWord(n) <= \hFFFF
    BY DEF ToByte, ToWord
  <2> QED BY <2>1, ByteRange, WordRange
<1>4. ASSUME NEW b \in Byte
      PROVE  b \in Word
  <2>1. b \in Int /\ 0 <= b /\ b <= \hFF
    BY ByteRange
  <2>2. b <= \hFFFF
    BY <2>1
  <2> QED BY <2>1, <2>2, WordRange
<1> QED BY <1>1, <1>2, <1>3, <1>4

\* A sum of weights is a byte, so the bitwise operations yield bytes.
LEMMA BitwiseByte ==
  ASSUME NEW x, NEW y
  PROVE  And(x, y) \in Byte /\ Or(x, y) \in Byte /\ Xor(x, y) \in Byte
<1>1. \A S : ByteOf(S) \in Byte
  BY DEF ByteOf, Byte
<1> QED BY <1>1 DEF And, Or, Xor

-----------------------------------------------------------------------------
(* Memory and the device.                                                  *)

\* Every byte of memory, set or left by malloc, is a byte.
LEMMA ByteAtType ==
  ASSUME NEW m, IsMemory(m), NEW address \in Word
  PROVE  ByteAt(m, address) \in Byte /\ Peek(m, address) \in Byte
<1>1. Heap[address] \in Byte
  BY HeapAssumption
<1>2. address \in DOMAIN m.cells => m.cells[address] \in Byte
  BY DEF IsMemory, IsCells
<1>3. 0 \in Byte
  BY DEF Byte
<1> QED BY <1>1, <1>2, <1>3 DEF ByteAt, Peek

\* A read gives a byte and leaves the device well formed; with the whole 64K
\* there it succeeds at every address.
LEMMA ReadType ==
  ASSUME NEW m, IsMemory(m), NEW d \in AppleData, NEW address \in Word,
         NEW chr \in Stdin
  PROVE  LET r == MemoryRead(m, d, address, chr)
         IN  /\ r.success \in BOOLEAN
             /\ r.value \in Byte
             /\ r.data \in AppleData
             /\ m.size = MEMORY_SIZE => r.success
<1>1. Latched(chr) \in Byte
  <2>1. chr \in Int
    BY StdinAssumption
  <2> DEFINE typed == IF chr = 10 THEN 13 ELSE chr
  <2>2. typed \in Int
    BY <2>1
  <2> HIDE DEF typed
  <2>3. ToByte(typed) \in Byte
    BY <2>2, WordParts
  <2> QED BY <2>3, FlagByte, FlagMasks DEF Latched, typed
<1>2. DataAfterRead(d, address, chr) \in AppleData
  BY <1>1 DEF DataAfterRead, AppleData
<1>3. DataAfterRead(d, address, chr).keyboard_latch \in Byte
  BY <1>2 DEF AppleData
<1>4. 0 \in Byte
  BY DEF Byte
<1>5. m.size = MEMORY_SIZE => Accessible(m, address)
  BY WordRange DEF MEMORY_SIZE, Accessible
<1>6. CASE Accessible(m, address)
  BY <1>2, <1>3, <1>4, <1>6, ByteAtType DEF MemoryRead
<1>7. CASE ~Accessible(m, address)
  BY <1>4, <1>5, <1>7 DEF MemoryRead
<1> QED BY <1>6, <1>7

\* n is well formed, and has the size and the bytes above the RAM that m has.
SameAboveRAM(m, n) ==
  /\ IsMemory(n)
  /\ n.size = m.size
  /\ \A a \in Word : a >= IO_START => ByteAt(n, a) = ByteAt(m, a)

\* A write leaves the memory as large and its I/O page and ROM as they were.
LEMMA WriteType ==
  ASSUME NEW m, IsMemory(m), NEW address \in Word, NEW value \in Byte
  PROVE  SameAboveRAM(m, MemoryAfterWrite(m, address, value))
<1> DEFINE cells == Store(m.cells, address, value)
<1>1. IsCells(cells)
  BY DEF IsMemory, IsCells, Store
<1> HIDE DEF cells
<1>2. m = [cells |-> m.cells, size |-> m.size]
  BY DEF IsMemory
<1>3. [m EXCEPT !.cells = cells] = [cells |-> cells, size |-> m.size]
  BY <1>2
<1>4. IsMemory([cells |-> cells, size |-> m.size])
  BY <1>1 DEF IsMemory
<1>5. ASSUME address < IO_START, NEW a \in Word, a >= IO_START
      PROVE  ByteAt([cells |-> cells, size |-> m.size], a) = ByteAt(m, a)
  <2>1. a # address
    BY <1>5, WordRange DEF IO_START
  <2>2. DOMAIN cells = DOMAIN m.cells \cup {address}
    BY DEF cells, Store
  <2>3. a \in DOMAIN m.cells => cells[a] = m.cells[a]
    BY <2>1 DEF cells, Store
  <2> QED BY <2>1, <2>2, <2>3 DEF ByteAt
<1>6. CASE Accessible(m, address) /\ address < IO_START
  <2>1. MemoryAfterWrite(m, address, value) = [cells |-> cells, size |-> m.size]
    BY <1>3, <1>6 DEF MemoryAfterWrite, cells
  <2> QED BY <1>4, <1>5, <1>6, <2>1 DEF SameAboveRAM
<1>7. CASE ~(Accessible(m, address) /\ address < IO_START)
  BY <1>7 DEF MemoryAfterWrite, SameAboveRAM
<1> QED BY <1>6, <1>7

\* A byte written to RAM is what is read there next.
LEMMA WrittenByte ==
  ASSUME NEW m, IsMemory(m), NEW address, NEW value,
         Accessible(m, address), address < IO_START
  PROVE  Peek(MemoryAfterWrite(m, address, value), address) = value
<1> DEFINE cells == Store(m.cells, address, value)
           after == MemoryAfterWrite(m, address, value)
<1>1. address \in DOMAIN cells /\ cells[address] = value
  BY DEF Store
<1> HIDE DEF cells
<1>2. after = [cells |-> cells, size |-> m.size]
  <2>1. m = [cells |-> m.cells, size |-> m.size]
    BY DEF IsMemory
  <2>2. after = [m EXCEPT !.cells = cells]
    BY DEF MemoryAfterWrite, cells
  <2> QED BY <2>1, <2>2
<1> HIDE DEF after
<1>3. Peek(after, address) = value
  BY <1>1, <1>2 DEF Peek, ByteAt, Accessible
<1> QED BY <1>3 DEF after

\* A write leaves every other byte alone.
LEMMA OtherByte ==
  ASSUME NEW m, IsMemory(m), NEW address, NEW value, NEW a, a # address
  PROVE  Peek(MemoryAfterWrite(m, address, value), a) = Peek(m, a)
<1> DEFINE cells == Store(m.cells, address, value)
<1>1. /\ a \in DOMAIN cells <=> a \in DOMAIN m.cells
      /\ a \in DOMAIN m.cells => cells[a] = m.cells[a]
  BY DEF Store
<1> HIDE DEF cells
<1>2. [m EXCEPT !.cells = cells] = [cells |-> cells, size |-> m.size]
  BY DEF IsMemory
<1>3. Peek([cells |-> cells, size |-> m.size], a) = Peek(m, a)
  BY <1>1 DEF Peek, ByteAt, Accessible
<1> QED BY <1>2, <1>3 DEF MemoryAfterWrite, cells

\* A write keeps the device well formed.
LEMMA WriteDataType ==
  ASSUME NEW m, NEW d \in AppleData, NEW address
  PROVE  DataAfterWrite(m, d, address) \in AppleData
BY DEF DataAfterWrite, AppleData

-----------------------------------------------------------------------------
(* Registers and operands.                                                 *)

ByteRegisters == {"A", "X", "Y", "P", "SP"}

\* A register given a byte, with the flags that follow it, leaves a well-formed
\* register file.
LEMMA AssignedType ==
  ASSUME NEW r \in Registers, NEW register \in ByteRegisters, NEW value \in Byte
  PROVE  Assigned(r, register, value) \in Registers
<1>1. ZeroNegative(r.P, value) \in Byte
  BY ZeroNegativeByte DEF Registers
<1>2. CASE register = "A"
  BY <1>1, <1>2 DEF Registers, Assigned
<1>3. CASE register = "X"
  BY <1>1, <1>3 DEF Registers, Assigned
<1>4. CASE register = "Y"
  BY <1>1, <1>4 DEF Registers, Assigned
<1>5. CASE register = "P"
  BY <1>1, <1>5 DEF Registers, Assigned
<1>6. CASE register = "SP"
  BY <1>1, <1>6 DEF Registers, Assigned
<1> QED BY <1>2, <1>3, <1>4, <1>5, <1>6 DEF ByteRegisters

\* Each register but reg_IP holds a byte.
LEMMA RegisterType ==
  ASSUME NEW r \in Registers, NEW register \in ByteRegisters
  PROVE  r[register] \in Byte
BY DEF Registers, ByteRegisters

\* cpu_resolve_first_operand gives a word, and a byte where it gives no address.
LEMMA FirstOperandType ==
  ASSUME TypeOK, NEW mode
  PROVE  /\ FirstOperand(mode) \in Word
         /\ ~IsAddress(mode) => FirstOperand(mode) \in Byte
<1> DEFINE b0 == operands_buffer[0]
           b1 == operands_buffer[1]
<1>1. b0 \in Byte /\ b1 \in Byte
  BY DEF TypeOK, OPERANDS_BUFFER_SIZE
<1>2. regs.A \in Byte /\ regs.X \in Byte /\ regs.Y \in Byte
  BY DEF TypeOK, Registers
<1>3. MakeWord(b1, b0) \in Word
  BY <1>1, WordParts
<1>4. ASSUME NEW w \in Word, NEW b \in Byte PROVE ToWord(w + b) \in Word
  <2>1. w + b \in Int
    BY WordRange, ByteRange
  <2> QED BY <2>1, WordParts
<1>5. \A a, b \in Byte : ToByte(a + b) \in Byte
  BY DEF ToByte, Byte
<1>6. \A b \in Byte : ZeroPagePointer(b) \in Word
  <2> TAKE b \in Byte
  <2> DEFINE next == ToByte(b + 1)
  <2>1. next \in Byte
    BY DEF ToByte, Byte
  <2> HIDE DEF next
  <2>2. b \in Word /\ next \in Word
    BY <2>1, WordParts
  <2>3. Peek(memory, b) \in Byte /\ Peek(memory, next) \in Byte
    BY <2>2, ByteAtType DEF TypeOK
  <2> QED BY <2>3, WordParts DEF ZeroPagePointer, ZeroPageIndexed, next
<1>7. 0 \in Word
  BY DEF Word
<1>8. b0 \in Word /\ regs.A \in Word /\ ToByte(b0 + regs.X) \in Word
  BY <1>1, <1>2, <1>5, WordParts
<1> HIDE DEF b0, b1
<1>9. FirstOperand(mode) \in Word
  BY <1>1, <1>2, <1>3, <1>4, <1>5, <1>6, <1>7, <1>8
     DEF FirstOperand, ZeroPageIndexed, b0, b1
<1>10. ~IsAddress(mode) => FirstOperand(mode) \in Byte
  BY <1>1, <1>2 DEF FirstOperand, IsAddress, b0
<1> QED BY <1>9, <1>10

\* cpu_real_operand gives a byte, and succeeds on a machine that has its memory.
LEMMA RealOperandsType ==
  ASSUME TypeOK, NEW operand \in RealOperands
  PROVE  /\ operand.success \in BOOLEAN
         /\ operand.value \in Byte
         /\ operand.data \in AppleData
         /\ memory.size = MEMORY_SIZE => operand.success
<1>1. CASE IsAddress(Mode)
  <2>1. PICK chr \in Stdin :
          operand = MemoryRead(memory, ap_data, FirstOperand(Mode), chr)
    BY <1>1 DEF RealOperands
  <2>2. FirstOperand(Mode) \in Word /\ IsMemory(memory) /\ ap_data \in AppleData
    BY FirstOperandType DEF TypeOK
  <2> QED BY <2>1, <2>2, ReadType
<1>2. CASE ~IsAddress(Mode)
  <2>1. operand = [success |-> TRUE, value |-> FirstOperand(Mode), data |-> ap_data]
    BY <1>2 DEF RealOperands
  <2>2. FirstOperand(Mode) \in Byte /\ ap_data \in AppleData
    BY <1>2, FirstOperandType DEF TypeOK
  <2> QED BY <2>1, <2>2
<1> QED BY <1>1, <1>2

-----------------------------------------------------------------------------
(* What an instruction may do.                                             *)

ProgramTraps == {"OK", "ILLEGAL_OPCODE", "STACK_OVERFLOW", "STACK_UNDERFLOW"}

\* What the instructions rely on.
Sound == TypeOK /\ memory.size = MEMORY_SIZE /\ OnlyProgramTraps

\* What every instruction guarantees.
Executed ==
  /\ FinishExecute
  /\ regs' \in Registers
  /\ last_trap' \in ProgramTraps
  /\ SameAboveRAM(memory, memory')
  /\ ap_data' \in AppleData

\* A machine that has not trapped so far is within what instructions guarantee.
LEMMA SoundTrap ==
  ASSUME Sound
  PROVE  last_trap \in ProgramTraps /\ SameAboveRAM(memory, memory)
BY DEF Sound, TypeOK, Traps, OnlyProgramTraps, ProgramTraps, SameAboveRAM

\* An instruction that only sets registers.
LEMMA SetRegistersExecuted ==
  ASSUME Sound, NEW r \in Registers, SetRegisters(r)
  PROVE  Executed
<1>1. ap_data \in AppleData
  BY DEF Sound, TypeOK
<1> QED BY <1>1, SoundTrap DEF SetRegisters, Executed

\* An instruction that reads an operand.
LEMMA UseOperandExecuted ==
  ASSUME Sound, NEW operand \in RealOperands, NEW r \in Registers,
         UseOperand(operand, r)
  PROVE  Executed
<1>1. operand.success /\ operand.data \in AppleData
  BY RealOperandsType DEF Sound
<1> QED BY <1>1, SoundTrap DEF UseOperand, Executed

\* An instruction that writes back what it read.
LEMMA WriteBackExecuted ==
  ASSUME Sound, NEW operand \in RealOperands, NEW value \in Byte, NEW p \in Byte,
         WriteBack(operand, value, p)
  PROVE  Executed
<1>1. operand.success /\ operand.data \in AppleData
  BY RealOperandsType DEF Sound
<1>2. FirstOperand(Mode) \in Word /\ IsMemory(memory) /\ regs \in Registers
  BY FirstOperandType DEF Sound, TypeOK
<1>3. [regs EXCEPT !.P = p] \in Registers
  BY <1>2 DEF Registers
<1>4. SameAboveRAM(memory, memory')
  BY <1>2, WriteType DEF WriteBack
<1>5. ap_data' \in AppleData
  BY <1>1, WriteDataType DEF WriteBack
<1> QED BY <1>1, <1>3, <1>4, <1>5, SoundTrap DEF WriteBack, Executed

(* load_store.c and transfer.c                                             *)

\* LDA, LDX and LDY.
LEMMA LoadRegisterExecuted == Sound /\ LoadRegister => Executed
<1> SUFFICES ASSUME Sound, LoadRegister PROVE Executed
  OBVIOUS
<1>1. PICK impl \in DOMAIN Loads, operand \in RealOperands :
        UseOperand(operand, Assigned(regs, Loads[impl], operand.value))
  BY DEF LoadRegister
<1>2. Loads[impl] \in ByteRegisters
  BY DEF Loads, ByteRegisters
<1>3. Assigned(regs, Loads[impl], operand.value) \in Registers
  BY <1>2, AssignedType, RealOperandsType DEF Sound, TypeOK
<1> QED BY <1>1, <1>3, UseOperandExecuted

\* STA, STX and STY.
LEMMA StoreRegisterExecuted == Sound /\ StoreRegister => Executed
<1> SUFFICES ASSUME Sound, StoreRegister PROVE Executed
  OBVIOUS
<1>1. PICK impl \in DOMAIN Stores :
        /\ memory' = MemoryAfterWrite(memory, FirstOperand(Mode), regs[Stores[impl]])
        /\ ap_data' = DataAfterWrite(memory, ap_data, FirstOperand(Mode))
        /\ UNCHANGED <<regs, last_trap>>
        /\ FinishExecute
  BY DEF StoreRegister
<1>2. Stores[impl] \in ByteRegisters
  BY DEF Stores, ByteRegisters
<1>3. /\ regs \in Registers /\ ap_data \in AppleData /\ IsMemory(memory)
      /\ FirstOperand(Mode) \in Word
  BY FirstOperandType DEF Sound, TypeOK
<1>4. regs[Stores[impl]] \in Byte
  BY <1>2, <1>3, RegisterType
<1>5. SameAboveRAM(memory, memory')
  BY <1>1, <1>3, <1>4, WriteType
<1>6. ap_data' \in AppleData
  BY <1>1, <1>3, WriteDataType
<1> QED BY <1>1, <1>3, <1>5, <1>6, SoundTrap DEF Executed

\* TAX, TAY, TXA, TYA, TSX and TXS.
LEMMA TransferRegistersExecuted == Sound /\ TransferRegisters => Executed
<1> SUFFICES ASSUME Sound, TransferRegisters PROVE Executed
  OBVIOUS
<1>1. PICK impl \in DOMAIN Transfers :
        SetRegisters(Assigned(regs, Transfers[impl][2], regs[Transfers[impl][1]]))
  BY DEF TransferRegisters
<1>2. Transfers[impl][1] \in ByteRegisters /\ Transfers[impl][2] \in ByteRegisters
  BY DEF Transfers, ByteRegisters
<1>3. Assigned(regs, Transfers[impl][2], regs[Transfers[impl][1]]) \in Registers
  BY <1>2, AssignedType, RegisterType DEF Sound, TypeOK
<1> QED BY <1>1, <1>3, SetRegistersExecuted

(* arithmetic.c, logical.c, compare.c and shifts.c                         *)

\* The carry is one bit.
LEMMA CarryType ==
  ASSUME NEW p
  PROVE  CarryOf(p) \in {0, 1}
BY DEF CarryOf

\* A result of arithmetic leaves a well-formed register file, whatever its width.
LEMMA ArithmeticResultType ==
  ASSUME NEW r \in Registers, NEW result \in Word, NEW v, NEW carry
  PROVE  ArithmeticResult(r, result, v, carry) \in Registers
<1> DEFINE inner == UpdateFlag(r.P, OVERFLOW_, OverflowCondition(r.A, Low(result), v))
           flags == UpdateFlag(inner, CARRY, carry)
           s == [r EXCEPT !.P = flags]
<1>1. inner \in Byte
  BY UpdateFlagByte, FlagMasks DEF Registers
<1> HIDE DEF inner
<1>2. flags \in Byte
  BY <1>1, UpdateFlagByte, FlagMasks
<1> HIDE DEF flags
<1>3. s \in Registers
  BY <1>2 DEF Registers
<1>4. Low(result) \in Byte /\ "A" \in ByteRegisters
  BY WordParts DEF ByteRegisters
<1> HIDE DEF s
<1>5. Assigned(s, "A", Low(result)) \in Registers
  BY <1>3, <1>4, AssignedType
<1> QED BY <1>5 DEF ArithmeticResult, s, flags, inner

\* The sum of ADC and the difference of SBC fit in a word.
LEMMA SumType ==
  ASSUME NEW r \in Registers, NEW v \in Byte
  PROVE  Added(r, v) \in Registers /\ Subtracted(r, v) \in Registers
<1>1. r.A \in Byte /\ CarryOf(r.P) \in {0, 1}
  BY CarryType DEF Registers
<1>2. v + r.A + CarryOf(r.P) \in Word
  <2>1. ASSUME NEW a \in Byte, NEW b \in Byte, NEW c \in {0, 1}
        PROVE  b + a + c \in Word
    <3>1. /\ a \in Int /\ 0 <= a /\ a <= \hFF
          /\ b \in Int /\ 0 <= b /\ b <= \hFF
      BY ByteRange
    <3>2. b + a + c \in Int /\ 0 <= b + a + c /\ b + a + c <= \hFFFF
      BY <3>1
    <3> QED BY <3>2, WordRange
  <2> QED BY <1>1, <2>1
<1>3. ToWord(r.A - v - (1 - CarryOf(r.P))) \in Word
  <2> DEFINE n == r.A - v - (1 - CarryOf(r.P))
  <2>1. \A a, b \in Byte, c \in {0, 1} : a - b - (1 - c) \in Int
    BY DEF Byte
  <2>2. n \in Int
    BY <1>1, <2>1
  <2> HIDE DEF n
  <2>3. ToWord(n) \in Word
    BY <2>2, WordParts
  <2> QED BY <2>3 DEF n
<1>4. Added(r, v) \in Registers
  BY <1>2, ArithmeticResultType DEF Added
<1>5. Subtracted(r, v) \in Registers
  BY <1>3, ArithmeticResultType DEF Subtracted
<1> QED BY <1>4, <1>5

\* ADC.
LEMMA AddToAccumulatorExecuted == Sound /\ AddToAccumulator => Executed
<1> SUFFICES ASSUME Sound, AddToAccumulator PROVE Executed
  OBVIOUS
<1>1. PICK operand \in RealOperands : UseOperand(operand, Added(regs, operand.value))
  BY DEF AddToAccumulator
<1>2. Added(regs, operand.value) \in Registers
  BY SumType, RealOperandsType DEF Sound, TypeOK
<1> QED BY <1>1, <1>2, UseOperandExecuted

\* SBC.
LEMMA SubFromAccumulatorExecuted == Sound /\ SubFromAccumulator => Executed
<1> SUFFICES ASSUME Sound, SubFromAccumulator PROVE Executed
  OBVIOUS
<1>1. PICK operand \in RealOperands : UseOperand(operand, Subtracted(regs, operand.value))
  BY DEF SubFromAccumulator
<1>2. Subtracted(regs, operand.value) \in Registers
  BY SumType, RealOperandsType DEF Sound, TypeOK
<1> QED BY <1>1, <1>2, UseOperandExecuted

\* AND, ORA and EOR.
LEMMA LogicalExecuted == Sound /\ Logical => Executed
<1> SUFFICES ASSUME Sound, Logical PROVE Executed
  OBVIOUS
<1>1. PICK impl \in Logicals, operand \in RealOperands :
        UseOperand(operand, Assigned(regs, "A", Combined(impl, regs.A, operand.value)))
  BY DEF Logical
<1> DEFINE value == Combined(impl, regs.A, operand.value)
<1>2. value \in Byte
  BY BitwiseByte DEF Combined, Logicals
<1>3. "A" \in ByteRegisters /\ regs \in Registers
  BY DEF ByteRegisters, Sound, TypeOK
<1> HIDE DEF value
<1>4. Assigned(regs, "A", value) \in Registers
  BY <1>2, <1>3, AssignedType
<1> QED BY <1>1, <1>4, UseOperandExecuted DEF value

\* BIT.
LEMMA TestBitExecuted == Sound /\ TestBit => Executed
<1> SUFFICES ASSUME Sound, TestBit PROVE Executed
  OBVIOUS
<1>1. PICK operand \in RealOperands : UseOperand(operand, Tested(regs, operand.value))
  BY DEF TestBit
<1> DEFINE v == operand.value
           zero == UpdateFlag(regs.P, ZERO, And(regs.A, v) = 0)
           negative == UpdateFlag(zero, NEGATIVE, Bit(v, NEGATIVE))
           overflow == UpdateFlag(negative, OVERFLOW_, Bit(v, \h40))
<1>2. regs \in Registers /\ regs.P \in Byte
  BY DEF Sound, TypeOK, Registers
<1>3. zero \in Byte
  BY <1>2, UpdateFlagByte, FlagMasks
<1> HIDE DEF zero
<1>4. negative \in Byte
  BY <1>3, UpdateFlagByte, FlagMasks
<1> HIDE DEF negative
<1>5. overflow \in Byte
  BY <1>4, UpdateFlagByte, FlagMasks
<1> HIDE DEF overflow
<1>6. [regs EXCEPT !.P = overflow] \in Registers
  BY <1>2, <1>5 DEF Registers
<1>7. Tested(regs, v) = [regs EXCEPT !.P = overflow]
  BY DEF Tested, overflow, negative, zero
<1> QED BY <1>1, <1>6, <1>7, UseOperandExecuted

\* CMP, CPX and CPY.
LEMMA CompareExecuted == Sound /\ Compare => Executed
<1> SUFFICES ASSUME Sound, Compare PROVE Executed
  OBVIOUS
<1>1. PICK impl \in DOMAIN Comparisons, operand \in RealOperands :
        UseOperand(operand, Compared(regs, Comparisons[impl], operand.value))
  BY DEF Compare
<1> DEFINE register == Comparisons[impl]
           inner == ZeroNegative(regs.P, ToByte(regs[register] - operand.value))
           flags == UpdateFlag(inner, CARRY, regs[register] >= operand.value)
<1>2. regs \in Registers /\ regs.P \in Byte
  BY DEF Sound, TypeOK, Registers
<1>3. inner \in Byte
  BY <1>2, ZeroNegativeByte
<1> HIDE DEF inner
<1>4. flags \in Byte
  BY <1>3, UpdateFlagByte, FlagMasks
<1> HIDE DEF flags
<1>5. [regs EXCEPT !.P = flags] \in Registers
  BY <1>2, <1>4 DEF Registers
<1>6. Compared(regs, register, operand.value) = [regs EXCEPT !.P = flags]
  BY DEF Compared, flags, inner
<1> QED BY <1>1, <1>5, <1>6, UseOperandExecuted

\* INC and DEC of a memory cell.
LEMMA StepMemoryExecuted == Sound /\ StepMemory => Executed
<1> SUFFICES ASSUME Sound, StepMemory PROVE Executed
  OBVIOUS
<1>1. PICK impl \in DOMAIN MemorySteps, operand \in RealOperands :
        WriteBack(operand, ToByte(operand.value + MemorySteps[impl]),
                  ZeroNegative(regs.P, ToByte(operand.value + MemorySteps[impl])))
  BY DEF StepMemory
<1> DEFINE value == ToByte(operand.value + MemorySteps[impl])
<1>2. MemorySteps[impl] \in Int /\ operand.value \in Byte
  BY RealOperandsType DEF MemorySteps, Sound
<1>3. value \in Byte
  <2>1. \A b \in Byte, n \in Int : ToByte(b + n) \in Byte
    BY DEF ToByte, Byte
  <2> QED BY <1>2, <2>1
<1> HIDE DEF value
<1>4. ZeroNegative(regs.P, value) \in Byte
  BY ZeroNegativeByte DEF Sound, TypeOK, Registers
<1> QED BY <1>1, <1>3, <1>4, WriteBackExecuted DEF value

\* A shifted byte is a byte.
LEMMA ShiftedType ==
  ASSUME NEW impl \in Shifts, NEW v \in Byte, NEW carryIn \in {0, 1}
  PROVE  Shifted(impl, v, carryIn).value \in Byte
<1>1. CASE impl = "arithmetic_shift_left"
  BY <1>1 DEF Shifted, ToByte, Byte
<1>2. CASE impl = "logical_shift_right_instr"
  BY <1>2 DEF Shifted, Byte
<1>3. CASE impl = "rotate_left"
  <2>1. ToByte(2 * v) <= \hFE /\ ToByte(2 * v) \in Nat
    BY DEF ToByte, Byte
  <2> QED BY <1>3, <2>1 DEF Shifted, Byte
<1>4. CASE impl = "rotate_right"
  <2>1. v \div 2 <= \h7F /\ v \div 2 \in Nat
    BY DEF Byte
  <2> QED BY <1>4, <2>1 DEF Shifted, Byte
<1> QED BY <1>1, <1>2, <1>3, <1>4 DEF Shifts

\* ASL, LSR, ROL and ROR, of the accumulator or of a memory cell.
LEMMA ShiftExecuted == Sound /\ Shift => Executed
<1> SUFFICES ASSUME Sound, Shift PROVE Executed
  OBVIOUS
<1> DEFINE shifted(impl, v) == Shifted(impl, v, CarryOf(regs.P))
           p(s) == ZeroNegative(UpdateFlag(regs.P, CARRY, s.carry), s.value)
<1>1. PICK impl \in Shifts, operand \in RealOperands :
        IF IsAddress(Mode)
        THEN WriteBack(operand, shifted(impl, operand.value).value,
                       p(shifted(impl, operand.value)))
        ELSE SetRegisters([regs EXCEPT !.A = shifted(impl, operand.value).value,
                                       !.P = p(shifted(impl, operand.value))])
  BY DEF Shift
<1>2. regs \in Registers /\ regs.P \in Byte
  BY DEF Sound, TypeOK, Registers
<1>3. shifted(impl, operand.value).value \in Byte
  BY ShiftedType, CarryType, RealOperandsType DEF Sound
<1>4. ASSUME NEW s PROVE p(s) \in Byte
  <2>1. UpdateFlag(regs.P, CARRY, s.carry) \in Byte
    BY <1>2, UpdateFlagByte, FlagMasks
  <2> QED BY <2>1, ZeroNegativeByte
<1> HIDE DEF shifted, p
<1>5. p(shifted(impl, operand.value)) \in Byte
  BY <1>4
<1>6. [regs EXCEPT !.A = shifted(impl, operand.value).value,
                   !.P = p(shifted(impl, operand.value))] \in Registers
  BY <1>2, <1>3, <1>5 DEF Registers
<1> QED BY <1>1, <1>3, <1>5, <1>6, WriteBackExecuted, SetRegistersExecuted

(* Registers, flags, branches and jumps.                                   *)

\* NOP, and the branch cpu_exec takes for an opcode the table lacks.
LEMMA NopExecuted == Sound /\ Nop => Executed
<1> SUFFICES ASSUME Sound, Nop PROVE Executed
  OBVIOUS
<1>1. regs \in Registers /\ ap_data \in AppleData
  BY DEF Sound, TypeOK
<1>2. /\ last_trap' \in {last_trap, "ILLEGAL_OPCODE"}
      /\ UNCHANGED <<regs, memory, ap_data>>
      /\ FinishExecute
  BY DEF Nop
<1> QED BY <1>1, <1>2, SoundTrap DEF Executed, ProgramTraps

\* INX, INY, DEX and DEY.
LEMMA StepRegisterExecuted == Sound /\ StepRegister => Executed
<1> SUFFICES ASSUME Sound, StepRegister PROVE Executed
  OBVIOUS
<1>1. PICK impl \in DOMAIN RegisterSteps :
        SetRegisters(Assigned(regs, RegisterSteps[impl][1],
                              ToByte(regs[RegisterSteps[impl][1]] + RegisterSteps[impl][2])))
  BY DEF StepRegister
<1> DEFINE register == RegisterSteps[impl][1]
           step == RegisterSteps[impl][2]
           value == ToByte(regs[register] + step)
<1>2. register \in ByteRegisters /\ step \in Int
  BY DEF RegisterSteps, ByteRegisters
<1>3. regs \in Registers
  BY DEF Sound, TypeOK
<1> HIDE DEF register, step
<1>4. regs[register] \in Byte
  BY <1>2, <1>3, RegisterType
<1>5. value \in Byte
  <2>1. \A b \in Byte, n \in Int : ToByte(b + n) \in Byte
    BY DEF ToByte, Byte
  <2> QED BY <1>2, <1>4, <2>1
<1> HIDE DEF value
<1>6. Assigned(regs, register, value) \in Registers
  BY <1>2, <1>3, <1>5, AssignedType
<1> QED BY <1>1, <1>6, SetRegistersExecuted DEF register, step, value

\* CLC, SEC, CLD, SED, CLI, SEI and CLV.
LEMMA ChangeFlagExecuted == Sound /\ ChangeFlag => Executed
<1> SUFFICES ASSUME Sound, ChangeFlag PROVE Executed
  OBVIOUS
<1>1. PICK impl \in DOMAIN FlagChanges :
        SetRegisters([regs EXCEPT
          !.P = UpdateFlag(@, FlagChanges[impl][1], FlagChanges[impl][2])])
  BY DEF ChangeFlag
<1> DEFINE flag == FlagChanges[impl][1]
           p == UpdateFlag(regs.P, flag, FlagChanges[impl][2])
<1>2. flag \in Masks
  BY FlagMasks DEF FlagChanges
<1>3. regs \in Registers /\ regs.P \in Byte
  BY DEF Sound, TypeOK, Registers
<1> HIDE DEF flag
<1>4. p \in Byte
  BY <1>2, <1>3, UpdateFlagByte
<1>5. SetRegisters([regs EXCEPT !.P = p])
  BY <1>1 DEF flag
<1> HIDE DEF p
<1>6. [regs EXCEPT !.P = p] \in Registers
  BY <1>3, <1>4 DEF Registers
<1> QED BY <1>5, <1>6, SetRegistersExecuted

\* A jump within the address space leaves a well-formed register file.
LEMMA SetIPType ==
  ASSUME Sound, NEW w \in Word
  PROVE  [regs EXCEPT !.IP = w] \in Registers
BY DEF Sound, TypeOK, Registers

\* The eight branches.
LEMMA BranchOnFlagExecuted == Sound /\ BranchOnFlag => Executed
<1> SUFFICES ASSUME Sound, BranchOnFlag PROVE Executed
  OBVIOUS
<1> DEFINE offset == Signed(FirstOperand("RELATIVE"))
           target == ToWord(regs.IP + offset)
<1>1. SetRegisters([regs EXCEPT !.IP = target]) \/ SetRegisters(regs)
  BY DEF BranchOnFlag
<1>2. FirstOperand("RELATIVE") \in Byte
  BY FirstOperandType DEF Sound, IsAddress
<1>3. offset \in Int
  BY <1>2 DEF Signed, Byte
<1> HIDE DEF offset
<1>4. regs.IP + offset \in Int
  <2>1. \A w \in Word, n \in Int : w + n \in Int
    BY WordRange
  <2>2. regs.IP \in Word
    BY DEF Sound, TypeOK, Registers
  <2> QED BY <1>3, <2>1, <2>2
<1>5. target \in Word
  BY <1>4, WordParts
<1>6. regs \in Registers
  BY DEF Sound, TypeOK
<1> HIDE DEF target
<1> QED BY <1>1, <1>5, <1>6, SetIPType, SetRegistersExecuted

\* JMP to an absolute address.
LEMMA JumpExecuted == Sound /\ Jump => Executed
<1> SUFFICES ASSUME Sound, Jump PROVE Executed
  OBVIOUS
<1>1. FirstOperand("ABSOLUTE") \in Word
  BY FirstOperandType DEF Sound
<1> QED BY <1>1, SetIPType, SetRegistersExecuted DEF Jump

\* The second byte of an indirect pointer is within the address space.
LEMMA HighPartType ==
  ASSUME NEW w \in Word
  PROVE  HighPartAddress(w) \in Word
<1>1. w \in Int /\ 0 <= w /\ w <= \hFFFF
  BY WordRange
<1>2. CASE Low(w) # \hFF
  <2>1. w # \hFFFF
    BY <1>1, <1>2 DEF Low
  <2>2. w + 1 \in Word
    BY <1>1, <2>1, WordRange
  <2> QED BY <1>2, <2>2 DEF HighPartAddress
<1>3. CASE Low(w) = \hFF
  <2>1. w >= \hFF
    BY <1>1, <1>3 DEF Low
  <2>2. w - \hFF \in Word
    BY <1>1, <2>1, WordRange
  <2> QED BY <1>3, <2>2 DEF HighPartAddress
<1> QED BY <1>2, <1>3

\* JMP through a pointer, whichever of its two bytes is read first.
LEMMA JumpIndirectExecuted == Sound /\ JumpIndirect => Executed
<1> SUFFICES ASSUME Sound, JumpIndirect PROVE Executed
  OBVIOUS
<1> DEFINE lo == FirstOperand("ABSOLUTE")
           hi == HighPartAddress(lo)
           first(lowFirst, chr) ==
             MemoryRead(memory, ap_data, IF lowFirst THEN lo ELSE hi, chr)
           second(lowFirst, chr) ==
             MemoryRead(memory, first(lowFirst, chr).data,
                        IF lowFirst THEN hi ELSE lo, chr)
<1>1. lo \in Word
  BY FirstOperandType DEF Sound
<1>2. hi \in Word
  BY <1>1, HighPartType
<1>3. PICK lowFirst \in BOOLEAN, chr \in Stdin :
        /\ regs' = [regs EXCEPT
             !.IP = IF lowFirst
                    THEN MakeWord(second(lowFirst, chr).value, first(lowFirst, chr).value)
                    ELSE MakeWord(first(lowFirst, chr).value, second(lowFirst, chr).value)]
        /\ ap_data' = second(lowFirst, chr).data
  BY DEF JumpIndirect
<1> HIDE DEF lo, hi
<1>4. first(lowFirst, chr).value \in Byte /\ first(lowFirst, chr).data \in AppleData
  <2>1. (IF lowFirst THEN lo ELSE hi) \in Word
    BY <1>1, <1>2
  <2> QED BY <2>1, ReadType DEF Sound, TypeOK
<1> HIDE DEF first
<1>5. second(lowFirst, chr).value \in Byte /\ second(lowFirst, chr).data \in AppleData
  <2>1. (IF lowFirst THEN hi ELSE lo) \in Word
    BY <1>1, <1>2
  <2> QED BY <1>4, <2>1, ReadType DEF Sound, TypeOK
<1> HIDE DEF second
<1>6. regs' \in Registers
  BY <1>3, <1>4, <1>5, WordParts, SetIPType
<1>7. ap_data' \in AppleData
  BY <1>3, <1>5
<1> QED BY <1>6, <1>7, SoundTrap DEF JumpIndirect, Executed

(* stack.c and interrupts.c                                                *)

\* What a push or a pull may take and give: a pointer that is a byte, and a
\* memory that differs from the one the instruction found in RAM alone.
IsStack(s) ==
  /\ s = [SP |-> s.SP, memory |-> s.memory, trap |-> s.trap, value |-> s.value]
  /\ s.SP \in Byte /\ s.value \in Byte /\ s.trap \in ProgramTraps
  /\ SameAboveRAM(memory, s.memory)

\* An instruction starts with such a stack.
LEMMA StackType ==
  ASSUME Sound
  PROVE  IsStack(Stack)
<1>1. regs.SP \in Byte /\ 0 \in Byte
  BY DEF Sound, TypeOK, Registers, Byte
<1> QED BY <1>1, SoundTrap DEF IsStack, Stack

\* The stack page is in the address space.
LEMMA StackPage ==
  ASSUME NEW sp \in Byte
  PROVE  /\ STACK_LOWEST_ADDRESS + sp \in Word
         /\ STACK_LOWEST_ADDRESS + sp + 1 \in Word
         /\ STACK_LOWEST_ADDRESS + sp + 1 < MEMORY_SIZE
<1>1. sp \in Int /\ 0 <= sp /\ sp <= \hFF
  BY DEF Byte
<1> QED BY <1>1, WordRange DEF STACK_LOWEST_ADDRESS, MEMORY_SIZE

\* Moving the pointer within its bounds keeps it a byte.
LEMMA PointerType ==
  ASSUME NEW sp \in Byte
  PROVE  /\ sp # FULL_STACK_PTR => sp - 1 \in Byte
         /\ sp # EMPTY_STACK_PTR => sp + 1 \in Byte
BY DEF Byte, FULL_STACK_PTR, EMPTY_STACK_PTR

\* push_onto_stack_instr, trap or not.
LEMMA PushType ==
  ASSUME NEW s, IsStack(s), NEW value \in Byte
  PROVE  IsStack(Push(s, value))
<1>1. /\ s = [SP |-> s.SP, memory |-> s.memory, trap |-> s.trap, value |-> s.value]
      /\ s.SP \in Byte /\ s.value \in Byte /\ s.trap \in ProgramTraps
      /\ SameAboveRAM(memory, s.memory)
  BY DEF IsStack
<1> DEFINE after == MemoryAfterWrite(s.memory, STACK_LOWEST_ADDRESS + s.SP, value)
<1>2. IsMemory(s.memory) /\ STACK_LOWEST_ADDRESS + s.SP \in Word
  BY <1>1, StackPage DEF SameAboveRAM
<1>3. SameAboveRAM(s.memory, after)
  BY <1>2, WriteType
<1>4. SameAboveRAM(memory, after)
  BY <1>1, <1>3 DEF SameAboveRAM
<1> HIDE DEF after
<1>5. CASE s.SP = FULL_STACK_PTR
  <2>1. Push(s, value) = [SP |-> s.SP, memory |-> s.memory,
                          trap |-> "STACK_OVERFLOW", value |-> s.value]
    BY <1>1, <1>5 DEF Push
  <2> QED BY <1>1, <2>1 DEF IsStack, ProgramTraps
<1>6. CASE s.SP # FULL_STACK_PTR
  <2>1. Push(s, value) = [SP |-> s.SP - 1, memory |-> after,
                          trap |-> s.trap, value |-> s.value]
    BY <1>1, <1>6 DEF Push, after
  <2>2. s.SP - 1 \in Byte
    BY <1>1, <1>6, PointerType
  <2> QED BY <1>1, <1>4, <2>1, <2>2 DEF IsStack
<1> QED BY <1>5, <1>6

\* pull_from_stack_instr, trap or not.
LEMMA PullType ==
  ASSUME Sound, NEW s, IsStack(s)
  PROVE  IsStack(Pull(s))
<1>1. /\ s = [SP |-> s.SP, memory |-> s.memory, trap |-> s.trap, value |-> s.value]
      /\ s.SP \in Byte /\ s.value \in Byte /\ s.trap \in ProgramTraps
      /\ SameAboveRAM(memory, s.memory)
  BY DEF IsStack
<1> DEFINE address == STACK_LOWEST_ADDRESS + s.SP + 1
<1>2. /\ IsMemory(s.memory) /\ s.memory.size = MEMORY_SIZE
      /\ address \in Word /\ address < MEMORY_SIZE
  BY <1>1, StackPage DEF SameAboveRAM, Sound
<1> HIDE DEF address
<1>3. Peek(s.memory, address) \in Byte
  BY <1>2, ByteAtType
<1>4. Accessible(s.memory, address)
  BY <1>2 DEF Accessible
<1>5. CASE s.SP = EMPTY_STACK_PTR
  <2>1. Pull(s) = [SP |-> s.SP, memory |-> s.memory,
                   trap |-> "STACK_UNDERFLOW", value |-> 0]
    BY <1>1, <1>5 DEF Pull
  <2>2. 0 \in Byte
    BY DEF Byte
  <2> QED BY <1>1, <2>1, <2>2 DEF IsStack, ProgramTraps
<1>6. CASE s.SP # EMPTY_STACK_PTR
  <2>1. Pull(s) = [SP |-> s.SP + 1, memory |-> s.memory,
                   trap |-> s.trap, value |-> Peek(s.memory, address)]
    BY <1>1, <1>4, <1>6 DEF Pull, address
  <2>2. s.SP + 1 \in Byte
    BY <1>1, <1>6, PointerType
  <2> QED BY <1>1, <1>3, <2>1, <2>2 DEF IsStack
<1> QED BY <1>5, <1>6

\* An instruction that ends with a stack and registers.
LEMMA UseStackExecuted ==
  ASSUME Sound, NEW s, IsStack(s), NEW r \in Registers, UseStack(s, r)
  PROVE  Executed
<1>1. [r EXCEPT !.SP = s.SP] \in Registers
  BY DEF IsStack, Registers
<1>2. ap_data \in AppleData
  BY DEF Sound, TypeOK
<1> QED BY <1>1, <1>2 DEF UseStack, IsStack, Executed

\* PHA and PHP.
LEMMA PushRegisterExecuted == Sound /\ PushRegister => Executed
<1> SUFFICES ASSUME Sound, PushRegister PROVE Executed
  OBVIOUS
<1>1. PICK impl \in DOMAIN Pushes : UseStack(Push(Stack, regs[Pushes[impl]]), regs)
  BY DEF PushRegister
<1>2. Pushes[impl] \in ByteRegisters
  BY DEF Pushes, ByteRegisters
<1>3. regs \in Registers /\ regs[Pushes[impl]] \in Byte
  BY <1>2, RegisterType DEF Sound, TypeOK
<1>4. IsStack(Push(Stack, regs[Pushes[impl]]))
  BY <1>3, StackType, PushType
<1> QED BY <1>1, <1>3, <1>4, UseStackExecuted

\* PLA and PLP, which go on with 0 after an underflow.
LEMMA PullRegisterExecuted == Sound /\ PullRegister => Executed
<1> SUFFICES ASSUME Sound, PullRegister PROVE Executed
  OBVIOUS
<1> DEFINE s == Pull(Stack)
<1>1. IsStack(s)
  BY StackType, PullType
<1>2. \/ UseStack(s, Assigned(regs, "A", s.value))
      \/ UseStack(s, [regs EXCEPT !.P = s.value])
  BY DEF PullRegister
<1>3. regs \in Registers /\ "A" \in ByteRegisters
  BY DEF Sound, TypeOK, ByteRegisters
<1> HIDE DEF s
<1>4. s.value \in Byte
  BY <1>1 DEF IsStack
<1>5. Assigned(regs, "A", s.value) \in Registers
  BY <1>3, <1>4, AssignedType
<1>6. [regs EXCEPT !.P = s.value] \in Registers
  BY <1>3, <1>4 DEF Registers
<1> QED BY <1>1, <1>2, <1>5, <1>6, UseStackExecuted

\* JSR.
LEMMA JumpSubroutineExecuted == Sound /\ JumpSubroutine => Executed
<1> SUFFICES ASSUME Sound, JumpSubroutine PROVE Executed
  OBVIOUS
<1> DEFINE back == ToWord(regs.IP - 1)
           one == Push(Stack, High(back))
           two == Push(one, Low(back))
<1>1. UseStack(two, [regs EXCEPT !.IP = FirstOperand("ABSOLUTE")])
  BY DEF JumpSubroutine
<1>2. back \in Word
  <2>1. \A w \in Word : w - 1 \in Int
    BY WordRange
  <2>2. regs.IP - 1 \in Int
    BY <2>1 DEF Sound, TypeOK, Registers
  <2> QED BY <2>2, WordParts
<1>3. [regs EXCEPT !.IP = FirstOperand("ABSOLUTE")] \in Registers
  BY FirstOperandType, SetIPType DEF Sound
<1> HIDE DEF back
<1>4. High(back) \in Byte /\ Low(back) \in Byte
  BY <1>2, WordParts
<1>5. IsStack(one)
  BY <1>4, StackType, PushType
<1> HIDE DEF one
<1>6. IsStack(two)
  BY <1>4, <1>5, PushType
<1> QED BY <1>1, <1>3, <1>6, UseStackExecuted

\* Two pulled bytes make a word.
LEMMA PulledWord ==
  ASSUME NEW s, IsStack(s), NEW t, IsStack(t)
  PROVE  MakeWord(s.value, t.value) \in Word
BY WordParts DEF IsStack

\* RTS.
LEMMA ReturnFromSubroutineExecuted == Sound /\ ReturnFromSubroutine => Executed
<1> SUFFICES ASSUME Sound, ReturnFromSubroutine PROVE Executed
  OBVIOUS
<1> DEFINE low == Pull(Stack)
           high == Pull(low)
           target == ToWord(MakeWord(high.value, low.value) + 1)
<1>1. UseStack(high, [regs EXCEPT !.IP = target])
  BY DEF ReturnFromSubroutine
<1>2. IsStack(low) /\ IsStack(high)
  BY StackType, PullType
<1> HIDE DEF low, high
<1>3. target \in Word
  <2>1. \A w \in Word : w + 1 \in Int
    BY WordRange
  <2>2. MakeWord(high.value, low.value) + 1 \in Int
    BY <1>2, <2>1, PulledWord
  <2> QED BY <2>2, WordParts
<1> HIDE DEF target
<1> QED BY <1>1, <1>2, <1>3, SetIPType, UseStackExecuted

\* BRK.
LEMMA ForceInterruptExecuted == Sound /\ ForceInterrupt => Executed
<1> SUFFICES ASSUME Sound, ForceInterrupt PROVE Executed
  OBVIOUS
<1> DEFINE one == Push(Stack, High(regs.IP))
           two == Push(one, Low(regs.IP) % 16)
           s == Push(two, regs.P)
           vector == IrqVector(s.memory)
           p == UpdateFlag(regs.P, BREAK, TRUE)
<1>1. UseStack(s, [regs EXCEPT !.IP = vector, !.P = p])
  BY DEF ForceInterrupt, PushWord
<1>2. regs \in Registers /\ regs.P \in Byte /\ regs.IP \in Word
  BY DEF Sound, TypeOK, Registers
<1>3. High(regs.IP) \in Byte /\ Low(regs.IP) % 16 \in Byte
  <2>1. \A b \in Byte : b % 16 \in Byte
    BY DEF Byte
  <2> QED BY <1>2, <2>1, WordParts
<1>4. IsStack(one)
  BY <1>3, StackType, PushType
<1> HIDE DEF one
<1>5. IsStack(two)
  BY <1>3, <1>4, PushType
<1> HIDE DEF two
<1>6. IsStack(s)
  BY <1>2, <1>5, PushType
<1> HIDE DEF s
<1>7. vector \in Word
  <2>1. IsMemory(s.memory)
    BY <1>6 DEF IsStack, SameAboveRAM
  <2>2. IRQ_VECTOR_LOW \in Word /\ IRQ_VECTOR_HIGH \in Word /\ 0 \in Word
    BY WordRange DEF IRQ_VECTOR_LOW, IRQ_VECTOR_HIGH
  <2>3. Peek(s.memory, IRQ_VECTOR_LOW) \in Byte /\ Peek(s.memory, IRQ_VECTOR_HIGH) \in Byte
    BY <2>1, <2>2, ByteAtType
  <2> QED BY <2>2, <2>3, WordParts DEF IrqVector
<1>8. p \in Byte
  BY <1>2, UpdateFlagByte, FlagMasks
<1> HIDE DEF vector, p
<1>9. [regs EXCEPT !.IP = vector, !.P = p] \in Registers
  BY <1>2, <1>7, <1>8 DEF Registers
<1> QED BY <1>1, <1>6, <1>9, UseStackExecuted

\* RTI.
LEMMA ReturnFromInterruptExecuted == Sound /\ ReturnFromInterrupt => Executed
<1> SUFFICES ASSUME Sound, ReturnFromInterrupt PROVE Executed
  OBVIOUS
<1> DEFINE status == Pull(Stack)
           low == Pull(status)
           high == Pull(low)
           target == MakeWord(high.value, low.value)
<1>1. UseStack(high, [regs EXCEPT !.P = status.value, !.IP = target])
  BY DEF ReturnFromInterrupt
<1>2. IsStack(status) /\ IsStack(low) /\ IsStack(high)
  BY StackType, PullType
<1> HIDE DEF status, low, high
<1>3. target \in Word /\ status.value \in Byte /\ regs \in Registers
  BY <1>2, PulledWord DEF IsStack, Sound, TypeOK
<1> HIDE DEF target
<1>4. [regs EXCEPT !.P = status.value, !.IP = target] \in Registers
  BY <1>3 DEF Registers
<1> QED BY <1>1, <1>2, <1>4, UseStackExecuted

-----------------------------------------------------------------------------
(* The invariants.                                                         *)

\* The cycles that execute an instruction.
Execute ==
  \/ Nop \/ LoadRegister \/ StoreRegister \/ TransferRegisters
  \/ AddToAccumulator \/ SubFromAccumulator \/ Logical \/ TestBit \/ Compare
  \/ StepMemory \/ Shift \/ StepRegister \/ ChangeFlag \/ BranchOnFlag
  \/ PushRegister \/ PullRegister \/ JumpSubroutine \/ ReturnFromSubroutine
  \/ ForceInterrupt \/ ReturnFromInterrupt \/ Jump \/ JumpIndirect

\* Every instruction guarantees what Executed says.
LEMMA ExecuteExecuted == Sound /\ Execute => Executed
BY NopExecuted, LoadRegisterExecuted, StoreRegisterExecuted, TransferRegistersExecuted,
   AddToAccumulatorExecuted, SubFromAccumulatorExecuted, LogicalExecuted,
   TestBitExecuted, CompareExecuted, StepMemoryExecuted, ShiftExecuted,
   StepRegisterExecuted, ChangeFlagExecuted, BranchOnFlagExecuted,
   PushRegisterExecuted, PullRegisterExecuted, JumpSubroutineExecuted,
   ReturnFromSubroutineExecuted, ForceInterruptExecuted, ReturnFromInterruptExecuted,
   JumpExecuted, JumpIndirectExecuted
DEF Execute

\* The inductive invariant: a machine keeps its 64K, so that no read fails, and
\* the pipeline's counts and the bytes it has fetched agree with memory.
Inv == Sound /\ PipelineConsistent /\ InstructionIsInMemory

\* The buffer is cleared to bytes.
LEMMA EmptyBufferType == EmptyBuffer \in [0 .. OPERANDS_BUFFER_SIZE - 1 -> Byte]
<1>1. 0 \in Byte
  BY DEF Byte
<1> QED BY <1>1 DEF EmptyBuffer

\* Between instructions nothing is asked of what has been fetched.
LEMMA AtFetch ==
  ASSUME state = "FETCH", operands_buffer = EmptyBuffer, operands_buffer_index = 0
  PROVE  PipelineConsistent /\ InstructionIsInMemory
BY DEF PipelineConsistent, BetweenInstructions, OperandsPending, OperandsComplete,
       InstructionIsInMemory

\* cpu_init establishes the invariant.
LEMMA InitInv == Init => Inv
<1> SUFFICES ASSUME Init PROVE Inv
  OBVIOUS
<1>1. IsMemory(memory) /\ memory.size = MEMORY_SIZE
  BY ImagesAssumption DEF Init, IsMemory
<1>2. regs \in Registers
  <2>1. RESET_VECTOR_LOW \in Word /\ RESET_VECTOR_HIGH \in Word
    BY WordRange DEF RESET_VECTOR_LOW, RESET_VECTOR_HIGH
  <2>2. /\ Peek(memory, RESET_VECTOR_LOW) \in Byte
        /\ Peek(memory, RESET_VECTOR_HIGH) \in Byte
    BY <1>1, <2>1, ByteAtType
  <2>3. MakeWord(Peek(memory, RESET_VECTOR_HIGH), Peek(memory, RESET_VECTOR_LOW)) \in Word
    BY <2>2, WordParts
  <2>4. 0 \in Byte /\ EMPTY_STATUS \in Byte /\ EMPTY_STACK_PTR \in Byte
    BY DEF Byte, EMPTY_STATUS, EMPTY_STACK_PTR
  <2> QED BY <2>3, <2>4 DEF Init, Registers
<1>3. ap_data \in AppleData
  <2>1. PICK d \in PowerOn : ap_data = [d EXCEPT !.term_render_request = TRUE]
    BY DEF Init
  <2>2. d \in AppleData
    BY PowerOnAssumption
  <2> QED BY <2>1, <2>2 DEF AppleData
<1>4. reg_IR \in Byte /\ remaining_bytes \in Byte
  BY GarbageAssumption DEF Init
<1>5. Sound
  BY <1>1, <1>2, <1>3, <1>4, EmptyBufferType
     DEF Init, Sound, TypeOK, OnlyProgramTraps, Traps, OPERANDS_BUFFER_SIZE
<1> QED BY <1>5, AtFetch DEF Init, Inv

\* cpu_fetch moves reg_IP on by one within the address space.
LEMMA IncrementIPType ==
  ASSUME Sound, IncrementIP
  PROVE  regs' \in Registers
<1>1. regs.IP \in Word /\ regs \in Registers
  BY DEF Sound, TypeOK, Registers
<1>2. \A w \in Word : w + 1 \in Int
  BY WordRange
<1>3. ToWord(regs.IP + 1) \in Word
  BY <1>1, <1>2, WordParts
<1> QED BY <1>1, <1>3 DEF IncrementIP, Registers

\* Conversion to a word may be done before a sum or after it.
LEMMA WordSum ==
  ASSUME NEW w \in Word, NEW k \in Int
  PROVE  ToWord(ToWord(w + 1) + k) = ToWord(w + 1 + k)
<1>1. w \in Int /\ 0 <= w /\ w <= \hFFFF
  BY WordRange
<1>2. CASE w = \hFFFF
  BY <1>2 DEF ToWord
<1>3. CASE w # \hFFFF
  <2>1. ToWord(w + 1) = w + 1
    BY <1>1, <1>3 DEF ToWord
  <2> QED BY <2>1
<1> QED BY <1>2, <1>3

\* A word is its own conversion.
LEMMA WordIsWord ==
  ASSUME NEW w \in Word
  PROVE  ToWord(w) = w
<1>1. w \in Int /\ 0 <= w /\ w <= \hFFFF
  BY WordRange
<1> QED BY <1>1 DEF ToWord

\* Counting back from a program counter that has moved on by one, with one byte
\* more fetched, finds the places that were counted before, and the place of the
\* new byte where the counter was; across the wrap of the counter too.
LEMMA Places ==
  ASSUME NEW w \in Word, NEW n \in {0, 1}
  PROVE  /\ \A i \in {-1, 0} : ToWord(ToWord(w + 1) - (n + 1) + i) = ToWord(w - n + i)
         /\ ToWord(ToWord(w + 1) - (n + 1) + n) = w
         /\ ToWord(ToWord(w + 1) - 0 + -1) = w
<1> DEFINE p == ToWord(w + 1)
<1>1. w \in Int /\ w + 1 \in Int
  BY WordRange
<1>2. p \in Int
  <2>1. \A v \in Word : v \in Int
    BY WordRange
  <2> QED BY <1>1, <2>1, WordParts
<1>3. ASSUME NEW k \in Int PROVE ToWord(p + k) = ToWord(w + 1 + k)
  BY WordSum
<1> HIDE DEF p
<1>4. ASSUME NEW i \in {-1, 0} PROVE ToWord(p - (n + 1) + i) = ToWord(w - n + i)
  <2>1. i - n - 1 \in Int
    OBVIOUS
  <2>2. p - (n + 1) + i = p + (i - n - 1) /\ w + 1 + (i - n - 1) = w - n + i
    BY <1>1, <1>2
  <2> QED BY <1>3, <2>1, <2>2
<1>5. ToWord(p + -1) = w
  <2>1. ToWord(p + -1) = ToWord(w + 1 + -1)
    BY <1>3
  <2>2. w + 1 + -1 = w
    BY <1>1
  <2> QED BY <2>1, <2>2, WordIsWord
<1>6. p - (n + 1) + n = p + -1 /\ p - 0 + -1 = p + -1
  BY <1>2
<1> QED BY <1>4, <1>5, <1>6 DEF p

\* What cpu_fetch reads is what memory holds there, but for the I/O page.
LEMMA FetchedByte ==
  ASSUME Sound, NEW address \in Word, NEW chr \in Stdin
  PROVE  LET fetched == MemoryRead(memory, ap_data, address, chr)
         IN  /\ fetched.success /\ fetched.value \in Byte /\ fetched.data \in AppleData
             /\ InIOPage(address) \/ fetched.value = ByteAt(memory, address)
<1>1. LET fetched == MemoryRead(memory, ap_data, address, chr)
      IN  fetched.success /\ fetched.value \in Byte /\ fetched.data \in AppleData
  BY ReadType DEF Sound, TypeOK
<1>2. Accessible(memory, address)
  <2>1. address \in Int
    BY WordRange
  <2>2. 0 <= address /\ address <= \hFFFF
    BY <2>1, WordRange
  <2> QED BY <2>1, <2>2 DEF Sound, Accessible, MEMORY_SIZE
<1>3. address = KEYBOARD_DATA => InIOPage(address)
  BY DEF InIOPage, KEYBOARD_DATA, IO_START, ROM_START
<1>4. ~InIOPage(address) =>
        MemoryRead(memory, ap_data, address, chr).value = ByteAt(memory, address)
  BY <1>2, <1>3 DEF MemoryRead, InIOPage
<1> QED BY <1>1, <1>4

\* Fetching an opcode.
LEMMA FetchInv == Inv /\ Fetch => Inv'
<1> SUFFICES ASSUME Inv, Fetch PROVE Inv'
  OBVIOUS
<1>1. Sound /\ regs \in Registers /\ regs.IP \in Word /\ IncrementIP
  BY DEF Inv, Sound, TypeOK, Registers, Fetch
<1>2. PICK chr \in Stdin :
        LET fetched == MemoryRead(memory, ap_data, regs.IP, chr)
        IN  /\ ap_data' = fetched.data
            /\ reg_IR' = fetched.value
            /\ state' = IF fetched.success THEN "DECODE" ELSE state
            /\ last_trap' = IF fetched.success THEN last_trap ELSE "SEGMENTATION_FAULT"
  BY DEF Fetch
<1>3. /\ ap_data' \in AppleData /\ reg_IR' \in Byte
      /\ state' = "DECODE" /\ last_trap' = last_trap
      /\ InIOPage(regs.IP) \/ reg_IR' = ByteAt(memory, regs.IP)
  BY <1>1, <1>2, FetchedByte
<1>4. /\ operands_buffer = EmptyBuffer /\ operands_buffer_index = 0
      /\ UNCHANGED <<remaining_bytes, operands_buffer, operands_buffer_index, memory>>
  BY DEF Inv, PipelineConsistent, BetweenInstructions, Fetch, Running
<1>5. regs' \in Registers
  BY <1>1, IncrementIPType
<1>6. Sound'
  BY <1>1, <1>3, <1>4, <1>5 DEF Sound, TypeOK, OnlyProgramTraps
<1>7. PipelineConsistent'
  BY <1>3, <1>4 DEF PipelineConsistent, BetweenInstructions, OperandsPending,
                    OperandsComplete, EmptyBuffer
<1>8. ToWord(regs'.IP - 0 + -1) = regs.IP
  <2>1. regs'.IP = ToWord(regs.IP + 1)
    BY <1>1 DEF IncrementIP, Registers
  <2> QED BY <1>1, <2>1, Places
<1>9. InstructionIsInMemory'
  BY <1>3, <1>4, <1>8 DEF InstructionIsInMemory, ByteAt, InIOPage
<1> QED BY <1>6, <1>7, <1>9 DEF Inv

\* The operand count is one of the table's.
LEMMA CountType == \A mode : BytesForOperands(mode) \in {0, 1, 2}
BY DEF BytesForOperands

\* Decoding, of a legal opcode or an illegal one.
LEMMA DecodeInv == Inv /\ Decode => Inv'
<1> SUFFICES ASSUME Inv, Decode PROVE Inv'
  OBVIOUS
<1>1. Sound /\ InstructionIsInMemory /\ state = "DECODE" /\ operands_buffer_index = 0
  BY DEF Inv, PipelineConsistent, BetweenInstructions, Decode, Running
<1>2. UNCHANGED <<regs, reg_IR, operands_buffer, operands_buffer_index, memory, ap_data>>
  BY DEF Decode
<1>3. Mode' = Mode
  BY <1>2 DEF Mode
<1>4. CASE Legal(reg_IR)
  <2>1. remaining_bytes' = BytesForOperands(Mode) /\ last_trap' = last_trap
    BY <1>4 DEF Decode
  <2>2. state' = IF remaining_bytes' = 0 THEN "EXECUTE" ELSE "FETCH_OPERAND"
    BY DEF Decode
  <2>3. remaining_bytes' \in {0, 1, 2}
    BY <2>1, CountType
  <2>4. remaining_bytes' \in Byte
    BY <2>3 DEF Byte
  <2>5. Sound'
    BY <1>1, <1>2, <2>1, <2>2, <2>4 DEF Sound, TypeOK, OnlyProgramTraps
  <2>6. PipelineConsistent'
    BY <1>1, <1>2, <1>3, <1>4, <2>1, <2>2, <2>3
       DEF PipelineConsistent, BetweenInstructions, OperandsPending, OperandsComplete
  <2>7. InstructionIsInMemory'
    BY <1>1, <1>2, <2>1 DEF InstructionIsInMemory, ByteAt, InIOPage
  <2> QED BY <2>5, <2>6, <2>7 DEF Inv
<1>5. CASE ~Legal(reg_IR)
  <2>1. /\ remaining_bytes' = remaining_bytes /\ last_trap' = "ILLEGAL_OPCODE"
        /\ state' \in {"EXECUTE", "FETCH_OPERAND"}
    BY <1>5 DEF Decode
  <2>2. Sound'
    BY <1>1, <1>2, <2>1 DEF Sound, TypeOK, OnlyProgramTraps, Traps
  <2>3. PipelineConsistent' /\ InstructionIsInMemory'
    BY <2>1 DEF PipelineConsistent, BetweenInstructions, OperandsPending,
                OperandsComplete, InstructionIsInMemory
  <2> QED BY <2>2, <2>3 DEF Inv
<1> QED BY <1>4, <1>5

\* Executing.
LEMMA ExecuteInv == Inv /\ Execute => Inv'
<1> SUFFICES ASSUME Inv, Execute PROVE Inv'
  OBVIOUS
<1>1. Sound /\ Executed
  BY ExecuteExecuted DEF Inv
<1>2. /\ state' = "FETCH" /\ operands_buffer' = EmptyBuffer
      /\ operands_buffer_index' = 0 /\ remaining_bytes' = 0 /\ reg_IR' = reg_IR
  BY <1>1 DEF Executed, FinishExecute
<1>3. 0 \in Byte /\ 0 \in 0 .. OPERANDS_BUFFER_SIZE
  BY DEF Byte, OPERANDS_BUFFER_SIZE
<1>4. Sound'
  BY <1>1, <1>2, <1>3, EmptyBufferType
     DEF Sound, TypeOK, OnlyProgramTraps, Executed, SameAboveRAM, ProgramTraps, Traps
<1>5. PipelineConsistent' /\ InstructionIsInMemory'
  BY <1>2 DEF PipelineConsistent, BetweenInstructions, OperandsPending,
              OperandsComplete, InstructionIsInMemory, EmptyBuffer
<1> QED BY <1>4, <1>5 DEF Inv

\* Fetching an operand byte: it goes where the count says, and the places of the
\* bytes fetched before it move back as the program counter moves on.
LEMMA FetchOperandInv == Inv /\ FetchOperand => Inv'
<1> SUFFICES ASSUME Inv, FetchOperand PROVE Inv'
  OBVIOUS
<1> DEFINE index == operands_buffer_index
<1>1. /\ Sound /\ regs \in Registers /\ regs.IP \in Word
      /\ operands_buffer \in [0 .. OPERANDS_BUFFER_SIZE - 1 -> Byte]
      /\ remaining_bytes \in Byte /\ index \in 0 .. OPERANDS_BUFFER_SIZE
      /\ last_trap = "OK" /\ state = "FETCH_OPERAND"
  BY DEF Inv, Sound, TypeOK, Registers, FetchOperand, Running
<1>2. /\ Legal(reg_IR) /\ remaining_bytes > 0
      /\ index + remaining_bytes = BytesForOperands(Mode)
      /\ UNCHANGED <<reg_IR, memory>>
  BY <1>1 DEF Inv, PipelineConsistent, OperandsPending, FetchOperand
<1>3. index \in {0, 1} /\ remaining_bytes \in {1, 2}
  <2>1. index \in Int /\ index >= 0 /\ remaining_bytes \in Int
    BY <1>1 DEF OPERANDS_BUFFER_SIZE, Byte
  <2> QED BY <1>2, <2>1, CountType
<1>4. PICK chr \in Stdin : OperandFetched(MemoryRead(memory, ap_data, regs.IP, chr))
  BY <1>3 DEF FetchOperand, OPERANDS_BUFFER_SIZE
<1> DEFINE fetched == MemoryRead(memory, ap_data, regs.IP, chr)
<1>5. /\ fetched.success /\ fetched.value \in Byte /\ fetched.data \in AppleData
      /\ InIOPage(regs.IP) \/ fetched.value = ByteAt(memory, regs.IP)
  BY <1>1, FetchedByte
<1> HIDE DEF fetched
<1>6. /\ operands_buffer' = [operands_buffer EXCEPT ![index] = fetched.value]
      /\ index' = index + 1
      /\ ap_data' = fetched.data
      /\ IncrementIP
      /\ remaining_bytes' = ToByte(remaining_bytes - 1)
      /\ state' = IF remaining_bytes' = 0 THEN "EXECUTE" ELSE state
      /\ last_trap' = last_trap
  BY <1>4, <1>5 DEF OperandFetched, fetched
<1>7. remaining_bytes' = remaining_bytes - 1 /\ remaining_bytes' \in {0, 1}
  BY <1>3, <1>6 DEF ToByte
<1>8. regs' \in Registers
  BY <1>1, <1>6, IncrementIPType
<1>9. Mode' = Mode /\ Legal(reg_IR)'
  BY <1>2 DEF Mode, Legal
<1>10. Sound'
  <2>1. remaining_bytes' \in Byte /\ index' \in 0 .. OPERANDS_BUFFER_SIZE
    BY <1>3, <1>6, <1>7 DEF Byte, OPERANDS_BUFFER_SIZE
  <2>2. operands_buffer' \in [0 .. OPERANDS_BUFFER_SIZE - 1 -> Byte]
    BY <1>1, <1>5, <1>6
  <2> QED BY <1>1, <1>2, <1>5, <1>6, <1>8, <2>1, <2>2 DEF Sound, TypeOK, OnlyProgramTraps
<1>11. PipelineConsistent'
  <2>1. index' + remaining_bytes' = BytesForOperands(Mode)'
    BY <1>2, <1>3, <1>6, <1>7, <1>9
  <2>2. state' \in {"EXECUTE", "FETCH_OPERAND"}
    BY <1>1, <1>6
  <2>3. state' = "FETCH_OPERAND" => remaining_bytes' > 0
    BY <1>6, <1>7
  <2>4. state' = "EXECUTE" => remaining_bytes' = 0 /\ index' = BytesForOperands(Mode)'
    BY <1>1, <1>3, <1>6, <1>7, <2>1
  <2> QED BY <1>9, <2>1, <2>2, <2>3, <2>4
       DEF PipelineConsistent, BetweenInstructions, OperandsPending, OperandsComplete
<1>12. InstructionIsInMemory'
  <2>1. regs'.IP = ToWord(regs.IP + 1)
    BY <1>1, <1>6 DEF IncrementIP, Registers
  <2> DEFINE place(i) == ToWord(regs.IP - index + i)
             next(i) == ToWord(regs'.IP - index' + i)
  <2>2. \A i \in {-1, 0} : next(i) = place(i)
    <3>1. \A i \in {-1, 0} :
            ToWord(ToWord(regs.IP + 1) - (index + 1) + i) = ToWord(regs.IP - index + i)
      BY <1>1, <1>3, Places, Zenon
    <3> QED BY <1>6, <2>1, <3>1, Zenon
  <2>3. next(index) = regs.IP
    BY <1>1, <1>3, <1>6, <2>1, Places
  <2>4. /\ InIOPage(place(-1)) \/ reg_IR = ByteAt(memory, place(-1))
        /\ \A i \in 0 .. index - 1 :
             InIOPage(place(i)) \/ operands_buffer[i] = ByteAt(memory, place(i))
    BY <1>1 DEF Inv, InstructionIsInMemory
  <2> HIDE DEF place, next
  <2>5. \A i \in 0 .. index' - 1 :
          InIOPage(next(i)) \/ operands_buffer'[i] = ByteAt(memory, next(i))
    <3> SUFFICES ASSUME NEW i \in 0 .. index' - 1
                 PROVE  InIOPage(next(i)) \/ operands_buffer'[i] = ByteAt(memory, next(i))
      OBVIOUS
    <3>1. CASE i = index
      BY <1>1, <1>3, <1>5, <1>6, <2>3, <3>1 DEF OPERANDS_BUFFER_SIZE
    <3>2. CASE i # index
      <4>1. i = 0 /\ index = 1
        BY <1>3, <1>6, <3>2
      <4>2. operands_buffer'[i] = operands_buffer[i] /\ next(i) = place(i)
        BY <1>1, <1>6, <2>2, <4>1 DEF OPERANDS_BUFFER_SIZE
      <4> QED BY <2>4, <4>1, <4>2
    <3> QED BY <3>1, <3>2
  <2>6. InIOPage(next(-1)) \/ reg_IR' = ByteAt(memory, next(-1))
    BY <1>2, <2>2, <2>4
  <2>7. memory' = memory
    BY <1>2
  <2> QED BY <2>5, <2>6, <2>7 DEF InstructionIsInMemory, ByteAt, InIOPage, next
<1> QED BY <1>10, <1>11, <1>12 DEF Inv

-----------------------------------------------------------------------------
(* The theorems.                                                           *)

\* Every cycle preserves the invariant.
LEMMA NextInv == Inv /\ [Next]_vars => Inv'
<1> SUFFICES ASSUME Inv, [Next]_vars PROVE Inv'
  OBVIOUS
<1>1. CASE Fetch
  BY <1>1, FetchInv
<1>2. CASE Decode
  BY <1>2, DecodeInv
<1>3. CASE FetchOperand
  BY <1>3, FetchOperandInv
<1>4. CASE Execute
  BY <1>4, ExecuteInv
<1>5. CASE UNCHANGED vars
  BY <1>5 DEF vars, Inv, Sound, TypeOK, OnlyProgramTraps, PipelineConsistent,
              BetweenInstructions, OperandsPending, OperandsComplete, Mode,
              InstructionIsInMemory, InIOPage, ByteAt
<1> QED BY <1>1, <1>2, <1>3, <1>4, <1>5 DEF Next, Execute

\* The inductive invariant holds of every reachable state, for every ROM image,
\* every content of the uninitialised memory and everything the user may type.
THEOREM Invariance == Spec => []Inv
BY InitInv, NextInv, PTL DEF Spec

\* Every variable keeps its C type: no register, counter or index leaves its range.
THEOREM TypeCorrect == Spec => []TypeOK
<1>1. Inv => TypeOK
  BY DEF Inv, Sound
<1> QED BY <1>1, Invariance, PTL

\* The state machine, the byte count and the buffer index of cpu_do_cycle agree.
THEOREM PipelineCorrect == Spec => []PipelineConsistent
<1>1. Inv => PipelineConsistent
  BY DEF Inv
<1> QED BY <1>1, Invariance, PTL

\* No program can bring about the traps for a failed read and for a full buffer.
THEOREM NoInternalTraps == Spec => []OnlyProgramTraps
<1>1. Inv => OnlyProgramTraps
  BY DEF Inv, Sound
<1> QED BY <1>1, Invariance, PTL

\* What is executed is what memory holds just before reg_IP.
THEOREM FetchedFromMemory == Spec => []InstructionIsInMemory
<1>1. Inv => InstructionIsInMemory
  BY DEF Inv
<1> QED BY <1>1, Invariance, PTL

\* A cycle leaves the memory's size and the bytes above the RAM as they were.
LEMMA NextSameAboveRAM == Inv /\ [Next]_vars => SameAboveRAM(memory, memory')
<1> SUFFICES ASSUME Inv, [Next]_vars PROVE SameAboveRAM(memory, memory')
  OBVIOUS
<1>1. CASE Execute
  BY <1>1, ExecuteExecuted DEF Inv, Executed
<1>2. CASE Fetch \/ Decode \/ FetchOperand \/ UNCHANGED vars
  <2>1. memory' = memory
    BY <1>2 DEF Fetch, Decode, FetchOperand, vars
  <2> QED BY <2>1, SoundTrap DEF Inv
<1> QED BY <1>1, <1>2 DEF Next, Execute

\* No instruction sequence changes a byte of the I/O page or of the ROM, or the
\* size of the memory.
THEOREM ROMProtected == Spec => ROMIsReadOnly
<1> DEFINE kept ==
      /\ memory'.size = memory.size
      /\ \A a \in DOMAIN memory.cells \cup DOMAIN memory'.cells :
           a >= IO_START => ByteAt(memory', a) = ByteAt(memory, a)
<1>1. Inv /\ [Next]_vars => kept
  <2> SUFFICES ASSUME Inv, [Next]_vars PROVE kept
    OBVIOUS
  <2>1. SameAboveRAM(memory, memory')
    BY NextSameAboveRAM
  <2>2. DOMAIN memory.cells \subseteq Word /\ DOMAIN memory'.cells \subseteq Word
    BY <2>1 DEF Inv, Sound, TypeOK, SameAboveRAM, IsMemory, IsCells
  <2> QED BY <2>1, <2>2 DEF SameAboveRAM
<1>2. Inv /\ [Next]_vars => [kept]_vars
  BY <1>1
<1> HIDE DEF kept
<1>3. Spec => [][kept]_vars
  BY <1>2, Invariance, PTL DEF Spec
<1> QED BY <1>3 DEF ROMIsReadOnly, kept

-----------------------------------------------------------------------------
(* The keyboard.                                                           *)

\* The device d still holds the key, or has lost it to a read of the strobe.
KeyKept(d) ==
  /\ d.keyboard_latch = ap_data.keyboard_latch
  /\ ~d.keyboard_ready => KEYBOARD_STROBE \in NextReads

\* A read of a device that holds a key leaves the latch alone, and only the
\* strobe's says that there is none.
LEMMA ReadKey ==
  ASSUME NEW m, NEW d \in AppleData, NEW address, NEW chr
  PROVE  LET r == MemoryRead(m, d, address, chr).data
         IN  /\ d.keyboard_ready => r.keyboard_latch = d.keyboard_latch
             /\ d.keyboard_ready /\ address # KEYBOARD_STROBE => r.keyboard_ready
             /\ ~d.keyboard_ready /\ address # KEYBOARD_DATA =>
                  r.keyboard_latch = d.keyboard_latch
<1>1. LET r == DataAfterRead(d, address, chr)
      IN  /\ d.keyboard_ready => r.keyboard_latch = d.keyboard_latch
          /\ d.keyboard_ready /\ address # KEYBOARD_STROBE => r.keyboard_ready
          /\ ~d.keyboard_ready /\ address # KEYBOARD_DATA =>
               r.keyboard_latch = d.keyboard_latch
  BY DEF DataAfterRead, AppleData
<1> QED BY <1>1 DEF MemoryRead

\* A write changes neither the latch nor whether there is a key.
LEMMA WriteKey ==
  ASSUME NEW m, NEW d \in AppleData, NEW address
  PROVE  LET w == DataAfterWrite(m, d, address)
         IN  w.keyboard_latch = d.keyboard_latch /\ w.keyboard_ready = d.keyboard_ready
BY DEF DataAfterWrite, AppleData

\* The instructions whose address is resolved but not read as an operand.
NonReaders == DOMAIN Stores \cup {"jump_instr", "jump_subroutine_instr"}

\* Reading the operand of any other instruction loses a key to the strobe only.
LEMMA OperandKey ==
  ASSUME Sound, state = "EXECUTE", OpcodeData[reg_IR].impl \notin NonReaders,
         ap_data.keyboard_ready, NEW operand \in RealOperands
  PROVE  KeyKept(operand.data)
<1>1. ap_data \in AppleData
  BY DEF Sound, TypeOK
<1>2. CASE IsAddress(Mode)
  <2>1. PICK chr \in Stdin :
          operand = MemoryRead(memory, ap_data, FirstOperand(Mode), chr)
    BY <1>2 DEF RealOperands
  <2>2. CASE Mode = "INDIRECT"
    <3>1. FirstOperand(Mode) = 0
      BY <2>2 DEF FirstOperand
    <3> QED BY <1>1, <2>1, <3>1, ReadKey DEF KeyKept, KEYBOARD_STROBE
  <2>3. CASE Mode # "INDIRECT"
    <3>1. FirstOperand(Mode) \in NextReads
      BY <1>2, <2>3 DEF NextReads, NonReaders
    <3> QED BY <1>1, <2>1, <3>1, ReadKey DEF KeyKept
  <2> QED BY <2>2, <2>3
<1>3. CASE ~IsAddress(Mode)
  <2>1. operand.data = ap_data
    BY <1>3 DEF RealOperands
  <2> QED BY <2>1 DEF KeyKept
<1> QED BY <1>2, <1>3

\* The instructions that read an operand and write none back.
LEMMA UseOperandKey ==
  ASSUME Sound, ap_data.keyboard_ready,
         LoadRegister \/ AddToAccumulator \/ SubFromAccumulator \/ Logical
           \/ TestBit \/ Compare
  PROVE  KeyKept(ap_data')
<1> DEFINE reader == /\ state = "EXECUTE"
                     /\ OpcodeData[reg_IR].impl \notin NonReaders
                     /\ \E operand \in RealOperands : ap_data' = operand.data
<1>1. CASE LoadRegister
  <2>1. reader
    BY <1>1 DEF LoadRegister, Executing, Running, UseOperand, Loads, Stores, NonReaders
  <2> QED BY <2>1, OperandKey
<1>2. CASE AddToAccumulator
  <2>1. reader
    BY <1>2 DEF AddToAccumulator, Executing, Running, UseOperand, Stores, NonReaders
  <2> QED BY <2>1, OperandKey
<1>3. CASE SubFromAccumulator
  <2>1. reader
    BY <1>3 DEF SubFromAccumulator, Executing, Running, UseOperand, Stores, NonReaders
  <2> QED BY <2>1, OperandKey
<1>4. CASE Logical
  <2>1. reader
    BY <1>4 DEF Logical, Executing, Running, UseOperand, Logicals, Stores, NonReaders
  <2> QED BY <2>1, OperandKey
<1>5. CASE TestBit
  <2>1. reader
    BY <1>5 DEF TestBit, Executing, Running, UseOperand, Stores, NonReaders
  <2> QED BY <2>1, OperandKey
<1>6. CASE Compare
  <2>1. reader
    BY <1>6 DEF Compare, Executing, Running, UseOperand, Comparisons, Stores, NonReaders
  <2> QED BY <2>1, OperandKey
<1> QED BY <1>1, <1>2, <1>3, <1>4, <1>5, <1>6

\* The instructions that read an operand and write it back.
LEMMA WriteBackKey ==
  ASSUME Sound, ap_data.keyboard_ready, StepMemory \/ Shift
  PROVE  KeyKept(ap_data')
<1>1. ASSUME state = "EXECUTE", OpcodeData[reg_IR].impl \notin NonReaders,
             NEW operand \in RealOperands, NEW value, NEW p, WriteBack(operand, value, p)
      PROVE  KeyKept(ap_data')
  <2>1. KeyKept(operand.data)
    BY <1>1, OperandKey
  <2>2. operand.data \in AppleData
    BY RealOperandsType DEF Sound
  <2>3. ap_data' = DataAfterWrite(memory, operand.data, FirstOperand(Mode))
    BY <1>1 DEF WriteBack
  <2> QED BY <2>1, <2>2, <2>3, WriteKey DEF KeyKept
<1>2. CASE StepMemory
  <2>1. /\ state = "EXECUTE" /\ OpcodeData[reg_IR].impl \notin NonReaders
        /\ \E operand \in RealOperands : \E value, p : WriteBack(operand, value, p)
    BY <1>2 DEF StepMemory, Executing, Running, MemorySteps, Stores, NonReaders
  <2> QED BY <1>1, <2>1
<1>3. CASE Shift
  <2>1. /\ state = "EXECUTE" /\ OpcodeData[reg_IR].impl \notin NonReaders
        /\ \/ \E operand \in RealOperands : \E value, p : WriteBack(operand, value, p)
           \/ ap_data' = ap_data
    BY <1>3 DEF Shift, Executing, Running, Shifts, Stores, NonReaders, SetRegisters
  <2> QED BY <1>1, <2>1 DEF KeyKept
<1> QED BY <1>2, <1>3

\* JMP (abs), whichever of its two reads comes first: if one is of the strobe
\* and the other of the keyboard, the strobe is among what the cycle reads, but
\* then the read of the keyboard must not come second.
LEMMA HighPartDistinct ==
  ASSUME NEW address \in Word
  PROVE  ~(HighPartAddress(address) = KEYBOARD_DATA /\ address = KEYBOARD_STROBE)
         /\ ~(HighPartAddress(address) = KEYBOARD_STROBE /\ address = KEYBOARD_DATA)
<1>1. address \in Int
  BY WordRange
<1>2. HighPartAddress(KEYBOARD_STROBE) = KEYBOARD_STROBE + 1
  BY DEF HighPartAddress, Low, KEYBOARD_STROBE
<1>3. HighPartAddress(KEYBOARD_DATA) = KEYBOARD_DATA + 1
  BY DEF HighPartAddress, Low, KEYBOARD_DATA
<1> QED BY <1>2, <1>3 DEF KEYBOARD_STROBE, KEYBOARD_DATA

\* JMP (abs).
LEMMA JumpIndirectKey ==
  ASSUME Sound, ap_data.keyboard_ready, JumpIndirect
  PROVE  KeyKept(ap_data')
<1> DEFINE low == FirstOperand("ABSOLUTE")
           high == HighPartAddress(low)
<1>1. NextReads = {low, high} /\ ap_data \in AppleData /\ IsMemory(memory)
  BY DEF JumpIndirect, Executing, Running, NextReads, Sound, TypeOK
<1>2. low \in Word /\ high \in Word
  BY FirstOperandType, HighPartType DEF Sound
<1>3. /\ ~(high = KEYBOARD_DATA /\ low = KEYBOARD_STROBE)
      /\ ~(high = KEYBOARD_STROBE /\ low = KEYBOARD_DATA)
  BY <1>2, HighPartDistinct
<1>4. PICK a \in {low, high}, b \in {low, high}, chr \in Stdin :
        /\ {a, b} = {low, high}
        /\ LET first == MemoryRead(memory, ap_data, a, chr)
           IN  ap_data' = MemoryRead(memory, first.data, b, chr).data
  BY DEF JumpIndirect
<1> HIDE DEF low, high
<1> DEFINE d == MemoryRead(memory, ap_data, a, chr).data
<1>5. /\ d \in AppleData
      /\ d.keyboard_latch = ap_data.keyboard_latch
      /\ a # KEYBOARD_STROBE => d.keyboard_ready
  BY <1>1, <1>2, ReadKey, ReadType
<1>6. ap_data' = MemoryRead(memory, d, b, chr).data
  BY <1>4
<1> HIDE DEF d
<1>7. /\ d.keyboard_ready => ap_data'.keyboard_latch = d.keyboard_latch
      /\ d.keyboard_ready /\ b # KEYBOARD_STROBE => ap_data'.keyboard_ready
      /\ ~d.keyboard_ready /\ b # KEYBOARD_DATA =>
           ap_data'.keyboard_latch = d.keyboard_latch
  BY <1>5, <1>6, ReadKey
<1>8. ~d.keyboard_ready => b # KEYBOARD_DATA
  BY <1>3, <1>4, <1>5 DEF KEYBOARD_DATA, KEYBOARD_STROBE
<1> QED BY <1>1, <1>4, <1>5, <1>7, <1>8 DEF KeyKept

\* Every cycle keeps a latched key until the strobe is read.
LEMMA NextKey == Inv /\ [Next]_vars /\ ap_data.keyboard_ready => KeyKept(ap_data')
<1> SUFFICES ASSUME Inv, [Next]_vars, ap_data.keyboard_ready PROVE KeyKept(ap_data')
  OBVIOUS
<1>1. Sound /\ ap_data \in AppleData
  BY DEF Inv, Sound, TypeOK
<1>2. ASSUME NEW chr, ap_data' = MemoryRead(memory, ap_data, regs.IP, chr).data,
             state \in {"FETCH", "FETCH_OPERAND"}
      PROVE  KeyKept(ap_data')
  <2>1. regs.IP \in NextReads
    BY <1>2 DEF NextReads
  <2> QED BY <1>1, <1>2, <2>1, ReadKey DEF KeyKept
<1>3. CASE Fetch
  BY <1>2, <1>3 DEF Fetch, Running
<1>4. CASE FetchOperand
  <2>1. CASE ap_data' = ap_data
    BY <2>1 DEF KeyKept
  <2>2. CASE ap_data' # ap_data
    BY <1>2, <1>4, <2>2 DEF FetchOperand, OperandFetched, Running
  <2> QED BY <2>1, <2>2
<1>5. CASE LoadRegister \/ AddToAccumulator \/ SubFromAccumulator \/ Logical
             \/ TestBit \/ Compare
  BY <1>1, <1>5, UseOperandKey
<1>6. CASE StepMemory \/ Shift
  BY <1>1, <1>6, WriteBackKey
<1>7. CASE JumpIndirect
  BY <1>1, <1>7, JumpIndirectKey
<1>8. CASE StoreRegister
  <2>1. ap_data' = DataAfterWrite(memory, ap_data, FirstOperand(Mode))
    BY <1>8 DEF StoreRegister
  <2> QED BY <1>1, <2>1, WriteKey DEF KeyKept
<1>9. CASE \/ Decode \/ Nop \/ TransferRegisters \/ StepRegister \/ ChangeFlag
           \/ BranchOnFlag \/ Jump \/ UNCHANGED vars
  <2>1. ap_data' = ap_data
    BY <1>9 DEF Decode, Nop, TransferRegisters, StepRegister, ChangeFlag, BranchOnFlag,
                Jump, SetRegisters, vars
  <2> QED BY <2>1 DEF KeyKept
<1>10. CASE \/ PushRegister \/ PullRegister \/ JumpSubroutine \/ ReturnFromSubroutine
            \/ ForceInterrupt \/ ReturnFromInterrupt
  <2>1. ap_data' = ap_data
    BY <1>10 DEF PushRegister, PullRegister, JumpSubroutine, ReturnFromSubroutine,
                 ForceInterrupt, ReturnFromInterrupt, UseStack
  <2> QED BY <2>1 DEF KeyKept
<1> QED BY <1>3, <1>4, <1>5, <1>6, <1>7, <1>8, <1>9, <1>10 DEF Next

\* A key stays in the latch until the program reads the strobe.
THEOREM KeyHeld == Spec => KeyHeldUntilStrobe
<1> DEFINE kept ==
      ap_data.keyboard_ready =>
        /\ ap_data'.keyboard_latch = ap_data.keyboard_latch
        /\ ~ap_data'.keyboard_ready => KEYBOARD_STROBE \in NextReads
<1>1. Inv /\ [Next]_vars => [kept]_vars
  BY NextKey DEF KeyKept
<1> HIDE DEF kept
<1>2. Spec => [][kept]_vars
  BY <1>1, Invariance, PTL DEF Spec
<1> QED BY <1>2 DEF KeyHeldUntilStrobe, kept

-----------------------------------------------------------------------------
(* Which instruction a cycle executes.                                     *)

\* The function the table names for the opcode being executed.
Impl == OpcodeData[reg_IR].impl

\* Each action stands for the functions named here, and these are all different,
\* so the opcode decides which one a cycle is.
LEMMA ImplOfAction ==
  /\ Fetch \/ Decode \/ FetchOperand => state # "EXECUTE"
  /\ Nop => Impl \in {"nop_instr", "NULL"}
  /\ LoadRegister => Impl \in {"load_a_instr", "load_x_instr", "load_y_instr"}
  /\ StoreRegister => Impl \in {"store_a_instr", "store_x_instr", "store_y_instr"}
  /\ TransferRegisters =>
       Impl \in {"transfer_a_to_x_instr", "transfer_a_to_y_instr",
                 "transfer_x_to_a_instr", "transfer_y_to_a_instr",
                 "transfer_sp_to_x_instr", "transfer_x_to_sp_instr"}
  /\ AddToAccumulator => Impl = "add_to_accumulator_instr"
  /\ SubFromAccumulator => Impl = "sub_from_accumulator_instr"
  /\ Logical => Impl \in {"and_with_accumulator_instr", "or_with_accumulator_instr",
                          "exclusive_or_instr"}
  /\ TestBit => Impl = "test_bit_instr"
  /\ Compare => Impl \in {"cmp_instr", "cpx_instr", "cpy_instr"}
  /\ StepMemory => Impl \in {"inc_memory_instr", "dec_memory_instr"}
  /\ Shift => Impl \in {"arithmetic_shift_left", "logical_shift_right_instr",
                        "rotate_left", "rotate_right"}
  /\ StepRegister =>
       Impl \in {"inc_x_instr", "inc_y_instr", "dec_x_instr", "dec_y_instr"}
  /\ ChangeFlag => Impl \in {"clc_instr", "sec_instr", "cld_instr", "sed_instr",
                             "cli_instr", "sei_instr", "clv_instr"}
  /\ BranchOnFlag => Impl \in {"bcc_instr", "bcs_instr", "bne_instr", "beq_instr",
                               "bpl_instr", "bmi_instr", "bvc_instr", "bvs_instr"}
  /\ PushRegister => Impl \in {"push_a_instr", "push_processor_status_instr"}
  /\ PullRegister => Impl \in {"pull_a_instr", "pull_processor_status_instr"}
  /\ JumpSubroutine => Impl = "jump_subroutine_instr"
  /\ ReturnFromSubroutine => Impl = "return_from_subroutine_instr"
  /\ ForceInterrupt => Impl = "force_interrupt_instr"
  /\ ReturnFromInterrupt => Impl = "return_from_interrupt"
  /\ Jump \/ JumpIndirect => Impl = "jump_instr"
<1>1. Fetch \/ Decode \/ FetchOperand => state # "EXECUTE"
  BY DEF Fetch, Decode, FetchOperand, Running
<1>2. Nop => Impl \in {"nop_instr", "NULL"}
  BY DEF Nop, Executing, Impl, NULL_IMPL
<1>3. LoadRegister => Impl \in {"load_a_instr", "load_x_instr", "load_y_instr"}
  BY DEF LoadRegister, Executing, Impl, Loads
<1>4. StoreRegister => Impl \in {"store_a_instr", "store_x_instr", "store_y_instr"}
  BY DEF StoreRegister, Executing, Impl, Stores
<1>5. TransferRegisters =>
        Impl \in {"transfer_a_to_x_instr", "transfer_a_to_y_instr",
                  "transfer_x_to_a_instr", "transfer_y_to_a_instr",
                  "transfer_sp_to_x_instr", "transfer_x_to_sp_instr"}
  BY DEF TransferRegisters, Executing, Impl, Transfers
<1>6. /\ AddToAccumulator => Impl = "add_to_accumulator_instr"
      /\ SubFromAccumulator => Impl = "sub_from_accumulator_instr"
      /\ TestBit => Impl = "test_bit_instr"
  BY DEF AddToAccumulator, SubFromAccumulator, TestBit, Executing, Impl
<1>7. Logical => Impl \in {"and_with_accumulator_instr", "or_with_accumulator_instr",
                           "exclusive_or_instr"}
  BY DEF Logical, Executing, Impl, Logicals
<1>8. Compare => Impl \in {"cmp_instr", "cpx_instr", "cpy_instr"}
  BY DEF Compare, Executing, Impl, Comparisons
<1>9. StepMemory => Impl \in {"inc_memory_instr", "dec_memory_instr"}
  BY DEF StepMemory, Executing, Impl, MemorySteps
<1>10. Shift => Impl \in {"arithmetic_shift_left", "logical_shift_right_instr",
                          "rotate_left", "rotate_right"}
  BY DEF Shift, Executing, Impl, Shifts
<1>11. StepRegister =>
         Impl \in {"inc_x_instr", "inc_y_instr", "dec_x_instr", "dec_y_instr"}
  BY DEF StepRegister, Executing, Impl, RegisterSteps
<1>12. ChangeFlag => Impl \in {"clc_instr", "sec_instr", "cld_instr", "sed_instr",
                               "cli_instr", "sei_instr", "clv_instr"}
  BY DEF ChangeFlag, Executing, Impl, FlagChanges
<1>13. BranchOnFlag => Impl \in {"bcc_instr", "bcs_instr", "bne_instr", "beq_instr",
                                 "bpl_instr", "bmi_instr", "bvc_instr", "bvs_instr"}
  BY DEF BranchOnFlag, Executing, Impl, Branches
<1>14. /\ PushRegister => Impl \in {"push_a_instr", "push_processor_status_instr"}
       /\ PullRegister => Impl \in {"pull_a_instr", "pull_processor_status_instr"}
  BY DEF PushRegister, PullRegister, Executing, Impl, Pushes
<1>15. /\ JumpSubroutine => Impl = "jump_subroutine_instr"
       /\ ReturnFromSubroutine => Impl = "return_from_subroutine_instr"
       /\ ForceInterrupt => Impl = "force_interrupt_instr"
       /\ ReturnFromInterrupt => Impl = "return_from_interrupt"
       /\ Jump \/ JumpIndirect => Impl = "jump_instr"
  BY DEF JumpSubroutine, ReturnFromSubroutine, ForceInterrupt, ReturnFromInterrupt,
         Jump, JumpIndirect, Executing, Impl
<1> QED
  BY <1>1, <1>2, <1>3, <1>4, <1>5, <1>6, <1>7, <1>8, <1>9, <1>10, <1>11, <1>12,
     <1>13, <1>14, <1>15

-----------------------------------------------------------------------------
(* The order of the two reads of JMP (abs).                                *)

\* The addresses whose reads concern the keyboard.
KeyboardAddresses == {KEYBOARD_DATA, KEYBOARD_STROBE}

\* What a read does to the keyboard: the data address latches a character if none waits,
\* the strobe releases it, and no other address matters.
LEMMA KeyAfterRead ==
  ASSUME NEW d \in AppleData, NEW a, NEW chr
  PROVE  LET p == DataAfterRead(d, a, chr)
         IN  /\ p.keyboard_latch = IF a = KEYBOARD_DATA /\ ~d.keyboard_ready
                                   THEN Latched(chr) ELSE d.keyboard_latch
             /\ p.keyboard_ready = (a = KEYBOARD_DATA \/ (a # KEYBOARD_STROBE /\ d.keyboard_ready))
<1> DEFINE latched == [d EXCEPT !.keyboard_latch = Latched(chr), !.keyboard_ready = TRUE]
           strobed == [d EXCEPT !.keyboard_ready = FALSE]
<1>1. /\ d.keyboard_ready \in BOOLEAN
      /\ latched.keyboard_latch = Latched(chr) /\ latched.keyboard_ready = TRUE
      /\ strobed.keyboard_latch = d.keyboard_latch /\ strobed.keyboard_ready = FALSE
  BY DEF AppleData
<1> HIDE DEF latched, strobed
<1>2. CASE a = KEYBOARD_DATA
  <2>1. a \notin {SET_GRAPHICS, SET_TEXT, SET_PRIM, SET_SEC, SET_LO, SET_HI, KEYBOARD_STROBE}
    BY <1>2 DEF KEYBOARD_DATA, KEYBOARD_STROBE,
       SET_GRAPHICS, SET_TEXT, SET_PRIM, SET_SEC, SET_LO, SET_HI
  <2>2. DataAfterRead(d, a, chr) = IF d.keyboard_ready THEN d ELSE latched
    BY <1>2, <2>1, Zenon DEF DataAfterRead, latched
  <2> QED BY <1>1, <1>2, <2>1, <2>2
<1>3. CASE a = KEYBOARD_STROBE
  <2>1. a \notin {SET_GRAPHICS, SET_TEXT, SET_PRIM, SET_SEC, SET_LO, SET_HI, KEYBOARD_DATA}
    BY <1>3 DEF KEYBOARD_DATA, KEYBOARD_STROBE,
       SET_GRAPHICS, SET_TEXT, SET_PRIM, SET_SEC, SET_LO, SET_HI
  <2>2. DataAfterRead(d, a, chr) = strobed
    BY <1>3, <2>1, Zenon DEF DataAfterRead, strobed
  <2> QED BY <1>1, <1>3, <2>1, <2>2
<1>4. CASE a # KEYBOARD_DATA /\ a # KEYBOARD_STROBE
  BY <1>1, <1>4 DEF DataAfterRead, AppleData
<1> QED BY <1>2, <1>3, <1>4

\* A read elsewhere leaves the keyboard alone; the value read anywhere, and the keyboard
\* after it, depend on no other part of the device.
LEMMA ReadOfKeyboard ==
  ASSUME NEW m, NEW d \in AppleData, NEW e \in AppleData, NEW a, NEW chr
  PROVE  LET r == MemoryRead(m, d, a, chr)
             s == MemoryRead(m, e, a, chr)
         IN  /\ a \notin KeyboardAddresses => Key(r.data) = Key(d) /\ r.value = s.value
             /\ Key(d) = Key(e) => Key(r.data) = Key(s.data) /\ r.value = s.value
<1> DEFINE p == DataAfterRead(d, a, chr)
           q == DataAfterRead(e, a, chr)
<1>1. a \notin KeyboardAddresses => Key(p) = Key(d)
  <2>1. a \notin KeyboardAddresses => /\ p.keyboard_latch = d.keyboard_latch
                                     /\ p.keyboard_ready = d.keyboard_ready
    BY KeyAfterRead DEF KeyboardAddresses, AppleData
  <2> QED BY <2>1 DEF Key
<1>2. ASSUME Key(d) = Key(e) PROVE Key(p) = Key(q)
  <2>1. d.keyboard_latch = e.keyboard_latch /\ d.keyboard_ready = e.keyboard_ready
    BY <1>2 DEF Key
  <2>2. p.keyboard_latch = q.keyboard_latch /\ p.keyboard_ready = q.keyboard_ready
    BY <2>1, KeyAfterRead
  <2> QED BY <2>2 DEF Key
<1>3. Key(p) = Key(q) => p.keyboard_latch = q.keyboard_latch
  BY DEF Key
<1> HIDE DEF p, q
<1>4. CASE Accessible(m, a)
  <2>1. /\ MemoryRead(m, d, a, chr).data = p
        /\ MemoryRead(m, e, a, chr).data = q
        /\ a # KEYBOARD_DATA \/ p.keyboard_latch = q.keyboard_latch =>
             MemoryRead(m, d, a, chr).value = MemoryRead(m, e, a, chr).value
    BY <1>4 DEF MemoryRead, p, q
  <2> QED BY <1>1, <1>2, <1>3, <2>1 DEF KeyboardAddresses
<1>5. CASE ~Accessible(m, a)
  BY <1>5 DEF MemoryRead
<1> QED BY <1>4, <1>5

\* Two reads, of which one at most concerns the keyboard, do not disturb each other.
LEMMA TwoReads ==
  ASSUME NEW m, NEW d \in AppleData, NEW a \in Word, NEW b \in Word, NEW chr \in Stdin,
         IsMemory(m), ~(a \in KeyboardAddresses /\ b \in KeyboardAddresses)
  PROVE  LET r == MemoryRead(m, d, a, chr)
             s == MemoryRead(m, r.data, b, chr)
             t == MemoryRead(m, d, b, chr)
         IN  /\ s.value = t.value
             /\ Key(s.data) \in {Key(r.data), Key(t.data)}
             /\ Key(r.data) \in {Key(d), Key(s.data)}
             /\ Key(t.data) \in {Key(d), Key(s.data)}
<1> DEFINE r == MemoryRead(m, d, a, chr)
           s == MemoryRead(m, r.data, b, chr)
           t == MemoryRead(m, d, b, chr)
<1>1. r.data \in AppleData
  BY ReadType
<1> HIDE DEF r
<1>2. /\ b \notin KeyboardAddresses =>
           Key(s.data) = Key(r.data) /\ Key(t.data) = Key(d) /\ s.value = t.value
      /\ Key(r.data) = Key(d) => Key(s.data) = Key(t.data) /\ s.value = t.value
  BY <1>1, ReadOfKeyboard
<1>3. a \notin KeyboardAddresses => Key(r.data) = Key(d)
  BY ReadOfKeyboard DEF r
<1> HIDE DEF s, t
<1>4. /\ s.value = t.value
      /\ Key(s.data) \in {Key(r.data), Key(t.data)}
      /\ Key(r.data) \in {Key(d), Key(s.data)}
      /\ Key(t.data) \in {Key(d), Key(s.data)}
  BY <1>2, <1>3
<1> QED BY <1>4 DEF r, s, t

\* The two bytes of a pointer are not both of the keyboard.
LEMMA PointerOfKeyboard ==
  ASSUME NEW address \in Word
  PROVE  ~(address \in KeyboardAddresses /\ HighPartAddress(address) \in KeyboardAddresses)
<1>1. /\ HighPartAddress(KEYBOARD_STROBE) = KEYBOARD_STROBE + 1
      /\ HighPartAddress(KEYBOARD_DATA) = KEYBOARD_DATA + 1
  BY DEF HighPartAddress, Low, KEYBOARD_STROBE, KEYBOARD_DATA
<1> QED BY <1>1 DEF KeyboardAddresses, KEYBOARD_STROBE, KEYBOARD_DATA

\* Whichever byte of its pointer a JMP (abs) reads first, it jumps to the same place and
\* leaves the same key.
THEOREM JumpOrderHidden == Spec => JumpReadsCommute
<1> DEFINE low           == FirstOperand("ABSOLUTE")
           high          == HighPartAddress(low)
           Alone(a, chr) == MemoryRead(memory, ap_data, a, chr)
           commute ==
             Executing("jump_instr") /\ Mode = "INDIRECT" =>
               \E chr \in Stdin :
                 /\ regs'.IP = MakeWord(Alone(high, chr).value, Alone(low, chr).value)
                 /\ \E a \in {low, high} : Key(ap_data') = Key(Alone(a, chr).data)
                 /\ \A a \in {low, high} :
                      Key(Alone(a, chr).data) \in {Key(ap_data), Key(ap_data')}
<1>1. Inv /\ [Next]_vars => [commute]_vars
  <2> SUFFICES ASSUME Inv, Next, Executing("jump_instr"), Mode = "INDIRECT"
               PROVE  commute
    OBVIOUS
  <2>1. JumpIndirect
    <3>1. Impl = "jump_instr" /\ state = "EXECUTE"
      BY DEF Executing, Running, Impl
    <3>2. Jump \/ JumpIndirect
      BY <3>1, ImplOfAction DEF Next
    <3> QED BY <3>2 DEF Jump
  <2>2. low \in Word /\ high \in Word /\ ap_data \in AppleData /\ IsMemory(memory)
        /\ regs \in Registers
    BY FirstOperandType, HighPartType DEF Inv, Sound, TypeOK
  <2>3. ~(low \in KeyboardAddresses /\ high \in KeyboardAddresses)
    BY <2>2, PointerOfKeyboard
  <2>4. PICK lowFirst \in BOOLEAN, chr \in Stdin :
          LET first  == Alone(IF lowFirst THEN low ELSE high, chr)
              second == MemoryRead(memory, first.data, IF lowFirst THEN high ELSE low, chr)
          IN  /\ regs' = [regs EXCEPT
                   !.IP = IF lowFirst THEN MakeWord(second.value, first.value)
                                      ELSE MakeWord(first.value, second.value)]
              /\ ap_data' = second.data
    BY <2>1 DEF JumpIndirect
  <2> HIDE DEF low, high
  <2> DEFINE first  == Alone(IF lowFirst THEN low ELSE high, chr)
             other  == Alone(IF lowFirst THEN high ELSE low, chr)
             second == MemoryRead(memory, first.data, IF lowFirst THEN high ELSE low, chr)
  <2>5. /\ second.value = other.value
        /\ Key(second.data) \in {Key(first.data), Key(other.data)}
        /\ Key(first.data) \in {Key(ap_data), Key(second.data)}
        /\ Key(other.data) \in {Key(ap_data), Key(second.data)}
    BY <2>2, <2>3, TwoReads
  <2>6. /\ regs'.IP = IF lowFirst THEN MakeWord(second.value, first.value)
                                  ELSE MakeWord(first.value, second.value)
        /\ ap_data' = second.data
    BY <2>2, <2>4 DEF Registers
  <2> HIDE DEF second, Alone
  <2>7. CASE lowFirst
    BY <2>5, <2>6, <2>7
  <2>8. CASE ~lowFirst
    BY <2>5, <2>6, <2>8
  <2> QED BY <2>7, <2>8
<1> HIDE DEF commute
<1>2. Spec => [][commute]_vars
  BY <1>1, Invariance, PTL DEF Spec
<1> QED BY <1>2 DEF JumpReadsCommute, commute

-----------------------------------------------------------------------------
(* The zero page.                                                          *)

\* get_opcode_data gives a row of the table or, for an opcode it lacks, none.
LEMMA OpcodeRow ==
  ASSUME NEW op \in Byte
  PROVE  OpcodeData[op] \in Table \/ OpcodeData[op] = Row(op, NULL_IMPL, "IMPLIED")
<1>1. (\E r \in Table : r.opcode = op) => (CHOOSE r \in Table : r.opcode = op) \in Table
  OBVIOUS
<1> QED BY <1>1 DEF OpcodeData

\* The functions that work on the stack.
StackImpls == {"push_a_instr", "push_processor_status_instr", "pull_a_instr",
               "pull_processor_status_instr", "jump_subroutine_instr",
               "return_from_subroutine_instr", "force_interrupt_instr",
               "return_from_interrupt"}

ZeroPageModes == {"ZERO_PAGE", "ZERO_PAGE_X", "ZERO_PAGE_Y"}

\* None of them has a zero-page mode in the table.
LEMMA StackModes ==
  ASSUME NEW op \in Byte, OpcodeData[op].impl \in StackImpls
  PROVE  OpcodeData[op].mode \notin ZeroPageModes
<1> DEFINE row == OpcodeData[op]
<1>1. CASE row = Row(op, NULL_IMPL, "IMPLIED")
  BY <1>1 DEF Row, ZeroPageModes
<1>2. CASE row \in Table
  <2> HIDE DEF row
  <2>1. CASE \E i \in DOMAIN Implied : row = Row(Implied[i], i, "IMPLIED")
    BY <2>1 DEF Row, ZeroPageModes, row
  <2>2. CASE \E i \in DOMAIN Relative : row = Row(Relative[i], i, "RELATIVE")
    BY <2>2 DEF Row, ZeroPageModes, row
  <2>3. CASE \E i \in DOMAIN Addressed : \E m \in DOMAIN Addressed[i] :
               row = Row(Addressed[i][m], i, m)
    <3>1. PICK i \in DOMAIN Addressed : \E m \in DOMAIN Addressed[i] :
            row = Row(Addressed[i][m], i, m)
      BY <2>3
    <3>2. PICK m \in DOMAIN Addressed[i] : row = Row(Addressed[i][m], i, m)
      BY <3>1
    <3>3. row.impl = i /\ row.mode = m
      BY <3>2 DEF Row
    <3>4. DOMAIN Addressed \cap StackImpls = {"jump_subroutine_instr"}
      BY DEF Addressed, StackImpls
    <3>5. i = "jump_subroutine_instr"
      BY <3>3, <3>4 DEF row
    <3>6. DOMAIN Addressed["jump_subroutine_instr"] = {"ABSOLUTE"}
      BY DEF Addressed
    <3> QED BY <3>2, <3>3, <3>5, <3>6 DEF ZeroPageModes, row
  <2> QED BY <1>2, <2>1, <2>2, <2>3 DEF Table
<1> QED BY <1>1, <1>2, OpcodeRow DEF row

\* The address of a zero-page mode is in the zero page, whatever the index.
LEMMA ZeroPageOperand ==
  ASSUME TypeOK, NEW mode \in ZeroPageModes
  PROVE  FirstOperand(mode) \in Byte
<1>1. operands_buffer[0] \in Byte /\ regs.X \in Byte /\ 0 \in Byte
  BY DEF TypeOK, OPERANDS_BUFFER_SIZE, Registers, Byte
<1>2. ZeroPageIndexed(operands_buffer[0], regs.X) \in Byte
  <2>1. \A a, b \in Byte : ToByte(a + b) \in Byte
    BY DEF ToByte, Byte
  <2> QED BY <1>1, <2>1 DEF ZeroPageIndexed
<1> QED BY <1>1, <1>2 DEF FirstOperand, ZeroPageModes

\* The memory m keeps what n has above the zero page, and has nothing new there.
SameAbovePage(m, n) ==
  \A a \in DOMAIN m.cells :
    a > \hFF => a \in DOMAIN n.cells /\ m.cells[a] = n.cells[a]

\* A write to the zero page keeps everything above it.
LEMMA ZeroPageWrite ==
  ASSUME NEW m, IsMemory(m), NEW address \in Byte, NEW value
  PROVE  SameAbovePage(MemoryAfterWrite(m, address, value), m)
<1> DEFINE cells == Store(m.cells, address, value)
<1>1. \A a \in DOMAIN cells : a > \hFF => a \in DOMAIN m.cells /\ cells[a] = m.cells[a]
  BY ByteRange DEF Store
<1>2. [m EXCEPT !.cells = cells].cells = cells
  <2> HIDE DEF cells
  <2>1. m = [cells |-> m.cells, size |-> m.size]
    BY DEF IsMemory
  <2> QED BY <2>1
<1> HIDE DEF cells
<1> QED BY <1>1, <1>2 DEF MemoryAfterWrite, SameAbovePage, cells

\* The zero-page modes never reach past the zero page: neither a store, nor a
\* read-modify-write instruction, nor anything else with such a mode.
THEOREM ZeroPageIsConfined == Spec => ZeroPageConfined
<1> DEFINE confined ==
      Running("EXECUTE") /\ Mode \in {"ZERO_PAGE", "ZERO_PAGE_X", "ZERO_PAGE_Y"} =>
        \A a \in DOMAIN memory'.cells :
          a > \hFF => a \in DOMAIN memory.cells /\ memory'.cells[a] = memory.cells[a]
<1>1. Inv /\ [Next]_vars => [confined]_vars
  <2> SUFFICES ASSUME Inv, Next, Running("EXECUTE"), Mode \in ZeroPageModes
               PROVE  SameAbovePage(memory', memory)
    BY DEF SameAbovePage, ZeroPageModes
  <2>1. IsMemory(memory) /\ FirstOperand(Mode) \in Byte /\ reg_IR \in Byte
    BY ZeroPageOperand DEF Inv, Sound, TypeOK
  <2>2. Impl \notin StackImpls
    BY <2>1, StackModes DEF Impl, Mode
  <2>3. \/ memory' = memory
        \/ \E value : memory' = MemoryAfterWrite(memory, FirstOperand(Mode), value)
    <3>1. CASE StoreRegister \/ StepMemory \/ Shift
      BY <3>1 DEF StoreRegister, StepMemory, Shift, WriteBack, SetRegisters
    <3>2. CASE \/ LoadRegister \/ AddToAccumulator \/ SubFromAccumulator \/ Logical
               \/ TestBit \/ Compare
      BY <3>2 DEF LoadRegister, AddToAccumulator, SubFromAccumulator, Logical, TestBit,
                  Compare, UseOperand
    <3>3. CASE \/ Nop \/ TransferRegisters \/ StepRegister \/ ChangeFlag \/ BranchOnFlag
               \/ Jump \/ JumpIndirect
      BY <3>3 DEF Nop, TransferRegisters, StepRegister, ChangeFlag, BranchOnFlag, Jump,
                  JumpIndirect, SetRegisters
    <3>4. ~(\/ PushRegister \/ PullRegister \/ JumpSubroutine \/ ReturnFromSubroutine
            \/ ForceInterrupt \/ ReturnFromInterrupt)
      BY <2>2, ImplOfAction DEF StackImpls
    <3>5. ~(Fetch \/ Decode \/ FetchOperand)
      BY ImplOfAction DEF Running
    <3> QED BY <3>1, <3>2, <3>3, <3>4, <3>5 DEF Next
  <2> QED BY <2>1, <2>3, ZeroPageWrite DEF SameAbovePage
<1> HIDE DEF confined
<1>2. Spec => [][confined]_vars
  BY <1>1, Invariance, PTL DEF Spec
<1> QED BY <1>2 DEF ZeroPageConfined, confined

-----------------------------------------------------------------------------
(* Liveness, as far as it can be said without ENABLED: each cycle brings an  *)
(* instruction nearer to its end.                                          *)

\* The stages of an instruction after its opcode was fetched.
Decoded    == Running("DECODE") /\ Legal(reg_IR)
Pending(n) == Running("FETCH_OPERAND") /\ remaining_bytes = n
TwoPending == Pending(2)
OnePending == Pending(1)
Complete   == Running("EXECUTE")
Finished   == state = "FETCH"

\* The instructions are executed in the EXECUTE state.
LEMMA ExecuteRuns == Execute => Complete
BY Zenon DEF Execute, Nop, LoadRegister, StoreRegister, TransferRegisters, AddToAccumulator,
   SubFromAccumulator, Logical, TestBit, Compare, StepMemory, Shift, StepRegister, ChangeFlag,
   BranchOnFlag, PushRegister, PullRegister, JumpSubroutine, ReturnFromSubroutine,
   ForceInterrupt, ReturnFromInterrupt, Jump, JumpIndirect, Executing, Complete

\* Each state has one kind of cycle.
LEMMA OneCase ==
  ASSUME Next
  PROVE  /\ Running("DECODE") => Decode
         /\ Running("FETCH_OPERAND") => FetchOperand
         /\ Running("EXECUTE") => Execute
<1>1. Fetch \/ Decode \/ FetchOperand \/ Execute
  BY DEF Next, Execute
<1> QED BY <1>1, ExecuteRuns DEF Fetch, Decode, FetchOperand, Complete, Running

\* A decoded instruction has at most two operand bytes to fetch.
LEMMA DecodeProgress ==
  ASSUME Inv, Next, Decoded
  PROVE  TwoPending' \/ OnePending' \/ Complete'
<1>1. /\ remaining_bytes' = BytesForOperands(Mode) /\ last_trap' = "OK"
      /\ state' = IF remaining_bytes' = 0 THEN "EXECUTE" ELSE "FETCH_OPERAND"
  BY OneCase DEF Decoded, Decode, Running
<1>2. remaining_bytes' \in {0, 1, 2}
  BY <1>1, CountType
<1> QED BY <1>1, <1>2 DEF TwoPending, OnePending, Pending, Complete, Running

\* A cycle that fetches an operand byte leaves one less to fetch.
LEMMA FetchProgress ==
  ASSUME Inv, Next, NEW n \in {1, 2}, Pending(n)
  PROVE  IF n = 1 THEN Complete' ELSE OnePending'
<1>1. Running("FETCH_OPERAND") /\ remaining_bytes = n /\ FetchOperand
  BY OneCase DEF Pending
<1>2. last_trap' \notin {"SEGMENTATION_FAULT", "INTERNAL_BUF_OVERFLOW"}
  BY NextInv DEF Inv, Sound, OnlyProgramTraps
<1>3. PICK chr \in Stdin : OperandFetched(MemoryRead(memory, ap_data, regs.IP, chr))
  BY <1>1, <1>2 DEF FetchOperand
<1>4. /\ remaining_bytes' = ToByte(n - 1) /\ last_trap' = "OK"
      /\ state' = IF remaining_bytes' = 0 THEN "EXECUTE" ELSE "FETCH_OPERAND"
  BY <1>1, <1>2, <1>3 DEF OperandFetched, Running
<1>5. ToByte(n - 1) = n - 1
  BY DEF ToByte
<1> QED BY <1>4, <1>5 DEF Complete, OnePending, Pending, Running

\* Executing ends the instruction, trap or not.
LEMMA ExecuteProgress ==
  ASSUME Inv, Next, Complete
  PROVE  Finished'
<1>1. Execute
  BY OneCase DEF Complete
<1> QED BY <1>1, ExecuteExecuted DEF Inv, Executed, FinishExecute, Finished

\* Each cycle brings an instruction to its next stage.
LEMMA Progress ==
  Inv /\ Next => /\ Decoded => TwoPending' \/ OnePending' \/ Complete'
                 /\ TwoPending => OnePending'
                 /\ OnePending => Complete'
                 /\ Complete => Finished'
<1> SUFFICES ASSUME Inv, Next
             PROVE  /\ Decoded => TwoPending' \/ OnePending' \/ Complete'
                    /\ TwoPending => OnePending'
                    /\ OnePending => Complete'
                    /\ Complete => Finished'
  OBVIOUS
<1>1. TwoPending => OnePending'
  BY FetchProgress DEF TwoPending
<1>2. OnePending => Complete'
  BY FetchProgress DEF OnePending
<1> QED BY <1>1, <1>2, DecodeProgress, ExecuteProgress

\* Nothing else moves it.
LEMMA StagesStay ==
  UNCHANGED vars => /\ Decoded => Decoded'
                    /\ TwoPending => TwoPending'
                    /\ OnePending => OnePending'
                    /\ Complete => Complete'
BY DEF vars, Decoded, TwoPending, OnePending, Pending, Complete, Running, Legal

\* A legal instruction, once decoded, is executed, unless it waits for a key: it has at
\* most three cycles before it, each of which brings it nearer to its end, and none is
\* lost as long as the machine is never stuck, which the run cpu_instructions checks.
THEOREM InstructionsComplete == LiveSpec /\ []NeverStuck => LegalInstructionCompletes
<1>1. /\ Decoded => last_trap = "OK"
      /\ TwoPending => last_trap = "OK"
      /\ OnePending => last_trap = "OK"
      /\ Complete => last_trap = "OK"
  BY DEF Decoded, TwoPending, OnePending, Pending, Complete, Running
<1>2. NeverStuck => (last_trap = "OK" /\ ~WaitingForKey => ENABLED <<Next /\ ~WaitingForKey>>_vars)
  BY DEF NeverStuck
<1>3. Inv /\ [Next]_vars =>
        /\ Decoded => Decoded' \/ TwoPending' \/ OnePending' \/ Complete'
        /\ TwoPending => TwoPending' \/ OnePending'
        /\ OnePending => OnePending' \/ Complete'
        /\ Complete => Complete' \/ Finished'
  BY Progress, StagesStay
<1>4. Inv /\ <<Next /\ ~WaitingForKey>>_vars =>
        /\ Decoded => TwoPending' \/ OnePending' \/ Complete'
        /\ TwoPending => OnePending'
        /\ OnePending => Complete'
        /\ Complete => Finished'
  BY Progress
<1>5. /\ Running("DECODE") /\ Legal(reg_IR) => Decoded
      /\ Finished => state = "FETCH"
  BY DEF Decoded, Finished
<1> QED BY <1>1, <1>2, <1>3, <1>4, <1>5, Invariance, PTL
        DEF LiveSpec, Spec, Fairness, LegalInstructionCompletes
=============================================================================
