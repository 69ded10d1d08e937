----------------------------- MODULE RomProofs ------------------------------
(***************************************************************************)
(* Proof that the program in roms/fibonacci.rom keeps its table right, on  *)
(* every heap and from every state of the device: a program verified on    *)
(* the processor of Cpu, cycle by cycle.                                   *)
(***************************************************************************)
EXTENDS MCRoms, ArithmeticProofs

-----------------------------------------------------------------------------
(* The invariant of the program.                                           *)

\* Where the instruction that is under way, or comes next, begins.
Place == IF state = "FETCH" THEN regs.IP ELSE regs.IP - 1 - operands_buffer_index

\* The pair that the program steps, and the place of their sum.
F0 == memory.cells[0]
F1 == memory.cells[1]
F2 == memory.cells[2]

Entered(i) == TABLE + i \in DOMAIN memory.cells
Entry(i)   == memory.cells[TABLE + i]

NoEntries == \A i \in Byte : ~Entered(i)

\* The code from p on is as loaded.  The program stores the pair over its first
\* instructions, which by then are done.
CodeFrom(p) ==
  /\ 0 .. 33 \subseteq DOMAIN memory.cells
  /\ \A a \in p .. 33 : memory.cells[a] = FibonacciCode[a + 1]

\* Each entry is the sum of the two before it but for those named.
SumsExcept(S) ==
  \A i \in (2 .. \hFF) \ S :
    Entered(i - 2) /\ Entered(i - 1) /\ Entered(i)
      => Entry(i) = ToByte(Entry(i - 1) + Entry(i - 2))

\* Entry x - 1 holds last, and second is its sum with entry x - 2.
Before(x, last, second) ==
  /\ SumsExcept({x, x + 1})
  /\ x >= 1 /\ Entered(x - 1) => Entry(x - 1) = last
  /\ x >= 2 /\ Entered(x - 1) /\ Entered(x - 2) => second = ToByte(Entry(x - 2) + last)

\* The pair goes on from the entries before X.
Ready == Before(regs.X, F0, F1)

\* The second of the pair has been entered at X.
Stored ==
  /\ SumsExcept({regs.X + 1, regs.X + 2})
  /\ Entered(regs.X) /\ Entry(regs.X) = F1
  /\ regs.X >= 1 /\ Entered(regs.X - 1) => Entry(regs.X - 1) = F0

\* X has been counted up.
Turned ==
  /\ SumsExcept({regs.X, regs.X + 1})
  /\ regs.X >= 1 => Entered(regs.X - 1) /\ Entry(regs.X - 1) = F1
  /\ regs.X >= 2 /\ Entered(regs.X - 2) => Entry(regs.X - 2) = F0

\* The first of the pair has been replaced by the second, and F2 is to be the second.
Stepped == Before(regs.X, F0, F2)

NoCarry == ~Bit(regs.P, CARRY)

\* What holds when the instruction at p is under way, for each p.
Holds(p) ==
  \/ p \in {0, 2, 4, 6, 8} /\ NoEntries
  \/ p = 10 /\ Ready
  \/ p = 12 /\ Ready /\ regs.A = F1
  \/ p = 15 /\ Stored
  \/ p = 16 /\ Turned
  \/ p = 17 /\ Turned /\ NoCarry
  \/ p = 19 /\ Turned /\ NoCarry /\ regs.A = F0
  \/ p = 21 /\ Turned /\ regs.A = ToByte(F0 + F1)
  \/ p = 23 /\ Turned /\ F2 = ToByte(F0 + F1)
  \/ p = 25 /\ Turned /\ F2 = ToByte(F0 + F1) /\ regs.A = F1
  \/ p = 27 /\ Stepped
  \/ p = 29 /\ Stepped /\ regs.A = F2
  \/ p = 31 /\ Ready

RomInv ==
  /\ last_trap = "OK"
  /\ CodeFrom(IF Place < 3 THEN Place ELSE 3)
  /\ Holds(Place)

-----------------------------------------------------------------------------
(* The image.                                                              *)

LEMMA FibonacciImage ==
  /\ 0 .. 33 \subseteq DOMAIN Fibonacci
  /\ \A a \in DOMAIN Fibonacci : a \in 0 .. 33 \/ a \in {\hFFFC, \hFFFD}
  /\ \A a \in 0 .. 33 : Fibonacci[a] = FibonacciCode[a + 1]
  /\ \hFFFC \in DOMAIN Fibonacci /\ Fibonacci[\hFFFC] = 0
  /\ \hFFFD \in DOMAIN Fibonacci /\ Fibonacci[\hFFFD] = 0
<1>1. Len(FibonacciCode) = 34
  BY DEF FibonacciCode
<1> QED BY <1>1 DEF Fibonacci, Code, RESET_VECTOR_LOW, RESET_VECTOR_HIGH

\* The instructions of the program, each at its place.
LEMMA Listing ==
  /\ FibonacciCode[1] = \hA9 /\ FibonacciCode[2] = \h00
  /\ FibonacciCode[3] = \h85 /\ FibonacciCode[4] = \h00
  /\ FibonacciCode[5] = \hA9 /\ FibonacciCode[6] = \h01
  /\ FibonacciCode[7] = \h85 /\ FibonacciCode[8] = \h01
  /\ FibonacciCode[9] = \hA2 /\ FibonacciCode[10] = \h00
  /\ FibonacciCode[11] = \hA5 /\ FibonacciCode[12] = \h01
  /\ FibonacciCode[13] = \h9D /\ FibonacciCode[14] = \h00 /\ FibonacciCode[15] = \h02
  /\ FibonacciCode[16] = \hE8
  /\ FibonacciCode[17] = \h18
  /\ FibonacciCode[18] = \hA5 /\ FibonacciCode[19] = \h00
  /\ FibonacciCode[20] = \h65 /\ FibonacciCode[21] = \h01
  /\ FibonacciCode[22] = \h85 /\ FibonacciCode[23] = \h02
  /\ FibonacciCode[24] = \hA5 /\ FibonacciCode[25] = \h01
  /\ FibonacciCode[26] = \h85 /\ FibonacciCode[27] = \h00
  /\ FibonacciCode[28] = \hA5 /\ FibonacciCode[29] = \h02
  /\ FibonacciCode[30] = \h85 /\ FibonacciCode[31] = \h01
  /\ FibonacciCode[32] = \h4C /\ FibonacciCode[33] = \h0A /\ FibonacciCode[34] = \h00
BY DEF FibonacciCode

Starts == {0, 2, 4, 6, 8, 10, 12, 15, 16, 17, 19, 21, 23, 25, 27, 29, 31}

-----------------------------------------------------------------------------
(* The rows of the table for the opcodes of the program.                   *)

\* An opcode that one row of those with a mode has, and no other.
LEMMA AddressedRow ==
  ASSUME NEW op \in Byte, NEW impl \in DOMAIN Addressed, NEW mode \in DOMAIN Addressed[impl],
         Addressed[impl][mode] = op,
         \A i \in DOMAIN Implied : Implied[i] # op,
         \A i \in DOMAIN Relative : Relative[i] # op,
         \A i \in DOMAIN Addressed : \A m \in DOMAIN Addressed[i] :
           Addressed[i][m] = op => i = impl /\ m = mode
  PROVE  OpcodeData[op] = Row(op, impl, mode)
<1>1. Row(op, impl, mode) \in Table
  BY DEF Table
<1>2. Row(op, impl, mode).opcode = op
  BY DEF Row
<1>3. ASSUME NEW r \in Table, r.opcode = op PROVE r = Row(op, impl, mode)
  <2>1. CASE \E i \in DOMAIN Implied : r = Row(Implied[i], i, "IMPLIED")
    BY <1>3, <2>1 DEF Row
  <2>2. CASE \E i \in DOMAIN Relative : r = Row(Relative[i], i, "RELATIVE")
    BY <1>3, <2>2 DEF Row
  <2>3. CASE \E i \in DOMAIN Addressed : \E m \in DOMAIN Addressed[i] :
               r = Row(Addressed[i][m], i, m)
    <3>1. PICK i \in DOMAIN Addressed : \E m \in DOMAIN Addressed[i] :
            r = Row(Addressed[i][m], i, m)
      BY <2>3
    <3>2. PICK m \in DOMAIN Addressed[i] : r = Row(Addressed[i][m], i, m)
      BY <3>1
    <3>3. Addressed[i][m] = op
      BY <1>3, <3>2 DEF Row
    <3> QED BY <3>2, <3>3
  <2> QED BY <2>1, <2>2, <2>3 DEF Table
<1> QED BY <1>1, <1>2, <1>3, Zenon DEF OpcodeData

\* The same for the rows without a mode of their own.
LEMMA ImpliedRow ==
  ASSUME NEW op \in Byte, NEW impl \in DOMAIN Implied, Implied[impl] = op,
         \A i \in DOMAIN Implied : Implied[i] = op => i = impl,
         \A i \in DOMAIN Relative : Relative[i] # op,
         \A i \in DOMAIN Addressed : \A m \in DOMAIN Addressed[i] : Addressed[i][m] # op
  PROVE  OpcodeData[op] = Row(op, impl, "IMPLIED")
<1>1. Row(op, impl, "IMPLIED") \in Table
  BY DEF Table
<1>2. Row(op, impl, "IMPLIED").opcode = op
  BY DEF Row
<1>3. ASSUME NEW r \in Table, r.opcode = op PROVE r = Row(op, impl, "IMPLIED")
  <2>1. CASE \E i \in DOMAIN Implied : r = Row(Implied[i], i, "IMPLIED")
    BY <1>3, <2>1 DEF Row
  <2>2. CASE \E i \in DOMAIN Relative : r = Row(Relative[i], i, "RELATIVE")
    BY <1>3, <2>2 DEF Row
  <2>3. CASE \E i \in DOMAIN Addressed : \E m \in DOMAIN Addressed[i] :
               r = Row(Addressed[i][m], i, m)
    <3>1. PICK i \in DOMAIN Addressed : \E m \in DOMAIN Addressed[i] :
            r = Row(Addressed[i][m], i, m)
      BY <2>3
    <3>2. PICK m \in DOMAIN Addressed[i] : r = Row(Addressed[i][m], i, m)
      BY <3>1
    <3>3. Addressed[i][m] = op
      BY <1>3, <3>2 DEF Row
    <3> QED BY <3>3
  <2> QED BY <2>1, <2>2, <2>3 DEF Table
<1> QED BY <1>1, <1>2, <1>3, Zenon DEF OpcodeData

LEMMA ProgramRows ==
  /\ OpcodeData[\hA9] = Row(\hA9, "load_a_instr", "IMMEDIATE")
  /\ OpcodeData[\hA2] = Row(\hA2, "load_x_instr", "IMMEDIATE")
  /\ OpcodeData[\hA5] = Row(\hA5, "load_a_instr", "ZERO_PAGE")
  /\ OpcodeData[\h85] = Row(\h85, "store_a_instr", "ZERO_PAGE")
  /\ OpcodeData[\h9D] = Row(\h9D, "store_a_instr", "ABSOLUTE_X")
  /\ OpcodeData[\h65] = Row(\h65, "add_to_accumulator_instr", "ZERO_PAGE")
  /\ OpcodeData[\h4C] = Row(\h4C, "jump_instr", "ABSOLUTE")
  /\ OpcodeData[\hE8] = Row(\hE8, "inc_x_instr", "IMPLIED")
  /\ OpcodeData[\h18] = Row(\h18, "clc_instr", "IMPLIED")
<1>1. OpcodeData[\hA9] = Row(\hA9, "load_a_instr", "IMMEDIATE")
  <2>1. \hA9 \in Byte /\ (\A i \in DOMAIN Implied : Implied[i] # \hA9)
        /\ \A i \in DOMAIN Relative : Relative[i] # \hA9
    BY DEF Implied, Relative, Byte
  <2>2. /\ "load_a_instr" \in DOMAIN Addressed /\ "IMMEDIATE" \in DOMAIN Addressed["load_a_instr"]
        /\ Addressed["load_a_instr"]["IMMEDIATE"] = \hA9
        /\ \A i \in DOMAIN Addressed : \A m \in DOMAIN Addressed[i] :
             Addressed[i][m] = \hA9 => i = "load_a_instr" /\ m = "IMMEDIATE"
    BY SMTT(150) DEF Addressed
  <2> QED BY <2>1, <2>2, AddressedRow
<1>2. OpcodeData[\hA2] = Row(\hA2, "load_x_instr", "IMMEDIATE")
  <2>1. \hA2 \in Byte /\ (\A i \in DOMAIN Implied : Implied[i] # \hA2)
        /\ \A i \in DOMAIN Relative : Relative[i] # \hA2
    BY DEF Implied, Relative, Byte
  <2>2. /\ "load_x_instr" \in DOMAIN Addressed /\ "IMMEDIATE" \in DOMAIN Addressed["load_x_instr"]
        /\ Addressed["load_x_instr"]["IMMEDIATE"] = \hA2
        /\ \A i \in DOMAIN Addressed : \A m \in DOMAIN Addressed[i] :
             Addressed[i][m] = \hA2 => i = "load_x_instr" /\ m = "IMMEDIATE"
    BY SMTT(150) DEF Addressed
  <2> QED BY <2>1, <2>2, AddressedRow
<1>3. OpcodeData[\hA5] = Row(\hA5, "load_a_instr", "ZERO_PAGE")
  <2>1. \hA5 \in Byte /\ (\A i \in DOMAIN Implied : Implied[i] # \hA5)
        /\ \A i \in DOMAIN Relative : Relative[i] # \hA5
    BY DEF Implied, Relative, Byte
  <2>2. /\ "load_a_instr" \in DOMAIN Addressed /\ "ZERO_PAGE" \in DOMAIN Addressed["load_a_instr"]
        /\ Addressed["load_a_instr"]["ZERO_PAGE"] = \hA5
        /\ \A i \in DOMAIN Addressed : \A m \in DOMAIN Addressed[i] :
             Addressed[i][m] = \hA5 => i = "load_a_instr" /\ m = "ZERO_PAGE"
    BY SMTT(150) DEF Addressed
  <2> QED BY <2>1, <2>2, AddressedRow
<1>4. OpcodeData[\h85] = Row(\h85, "store_a_instr", "ZERO_PAGE")
  <2>1. \h85 \in Byte /\ (\A i \in DOMAIN Implied : Implied[i] # \h85)
        /\ \A i \in DOMAIN Relative : Relative[i] # \h85
    BY DEF Implied, Relative, Byte
  <2>2. /\ "store_a_instr" \in DOMAIN Addressed /\ "ZERO_PAGE" \in DOMAIN Addressed["store_a_instr"]
        /\ Addressed["store_a_instr"]["ZERO_PAGE"] = \h85
        /\ \A i \in DOMAIN Addressed : \A m \in DOMAIN Addressed[i] :
             Addressed[i][m] = \h85 => i = "store_a_instr" /\ m = "ZERO_PAGE"
    BY SMTT(150) DEF Addressed
  <2> QED BY <2>1, <2>2, AddressedRow
<1>5. OpcodeData[\h9D] = Row(\h9D, "store_a_instr", "ABSOLUTE_X")
  <2>1. \h9D \in Byte /\ (\A i \in DOMAIN Implied : Implied[i] # \h9D)
        /\ \A i \in DOMAIN Relative : Relative[i] # \h9D
    BY DEF Implied, Relative, Byte
  <2>2. /\ "store_a_instr" \in DOMAIN Addressed /\ "ABSOLUTE_X" \in DOMAIN Addressed["store_a_instr"]
        /\ Addressed["store_a_instr"]["ABSOLUTE_X"] = \h9D
        /\ \A i \in DOMAIN Addressed : \A m \in DOMAIN Addressed[i] :
             Addressed[i][m] = \h9D => i = "store_a_instr" /\ m = "ABSOLUTE_X"
    BY SMTT(150) DEF Addressed
  <2> QED BY <2>1, <2>2, AddressedRow
<1>6. OpcodeData[\h65] = Row(\h65, "add_to_accumulator_instr", "ZERO_PAGE")
  <2>1. \h65 \in Byte /\ (\A i \in DOMAIN Implied : Implied[i] # \h65)
        /\ \A i \in DOMAIN Relative : Relative[i] # \h65
    BY DEF Implied, Relative, Byte
  <2>2. /\ "add_to_accumulator_instr" \in DOMAIN Addressed /\ "ZERO_PAGE" \in DOMAIN Addressed["add_to_accumulator_instr"]
        /\ Addressed["add_to_accumulator_instr"]["ZERO_PAGE"] = \h65
        /\ \A i \in DOMAIN Addressed : \A m \in DOMAIN Addressed[i] :
             Addressed[i][m] = \h65 => i = "add_to_accumulator_instr" /\ m = "ZERO_PAGE"
    BY SMTT(150) DEF Addressed
  <2> QED BY <2>1, <2>2, AddressedRow
<1>7. OpcodeData[\h4C] = Row(\h4C, "jump_instr", "ABSOLUTE")
  <2>1. \h4C \in Byte /\ (\A i \in DOMAIN Implied : Implied[i] # \h4C)
        /\ \A i \in DOMAIN Relative : Relative[i] # \h4C
    BY DEF Implied, Relative, Byte
  <2>2. /\ "jump_instr" \in DOMAIN Addressed /\ "ABSOLUTE" \in DOMAIN Addressed["jump_instr"]
        /\ Addressed["jump_instr"]["ABSOLUTE"] = \h4C
        /\ \A i \in DOMAIN Addressed : \A m \in DOMAIN Addressed[i] :
             Addressed[i][m] = \h4C => i = "jump_instr" /\ m = "ABSOLUTE"
    BY SMTT(150) DEF Addressed
  <2> QED BY <2>1, <2>2, AddressedRow
<1>8. OpcodeData[\hE8] = Row(\hE8, "inc_x_instr", "IMPLIED")
  <2>1. /\ \hE8 \in Byte /\ "inc_x_instr" \in DOMAIN Implied /\ Implied["inc_x_instr"] = \hE8
        /\ \A i \in DOMAIN Implied : Implied[i] = \hE8 => i = "inc_x_instr"
        /\ \A i \in DOMAIN Relative : Relative[i] # \hE8
    BY DEF Implied, Relative, Byte
  <2>2. \A i \in DOMAIN Addressed : \A m \in DOMAIN Addressed[i] : Addressed[i][m] # \hE8
    BY SMTT(30) DEF Addressed
  <2> QED BY <2>1, <2>2, ImpliedRow
<1>9. OpcodeData[\h18] = Row(\h18, "clc_instr", "IMPLIED")
  <2>1. /\ \h18 \in Byte /\ "clc_instr" \in DOMAIN Implied /\ Implied["clc_instr"] = \h18
        /\ \A i \in DOMAIN Implied : Implied[i] = \h18 => i = "clc_instr"
        /\ \A i \in DOMAIN Relative : Relative[i] # \h18
    BY DEF Implied, Relative, Byte
  <2>2. \A i \in DOMAIN Addressed : \A m \in DOMAIN Addressed[i] : Addressed[i][m] # \h18
    BY SMTT(30) DEF Addressed
  <2> QED BY <2>1, <2>2, ImpliedRow
<1> QED BY <1>1, <1>2, <1>3, <1>4, <1>5, <1>6, <1>7, <1>8, <1>9

LEMMA ProgramLegal == \A p \in Starts : Legal(FibonacciCode[p + 1])
BY Listing, ProgramRows DEF Starts, Legal, Row, NULL_IMPL

-----------------------------------------------------------------------------
(* Where the machine is in the program.                                    *)

LEMMA LowAddress == \A a \in 0 .. 33 : ToWord(a) = a /\ ~InIOPage(a)
<1> SUFFICES ASSUME NEW a \in Int, 0 <= a, a <= 33 PROVE ToWord(a) = a /\ ~InIOPage(a)
  OBVIOUS
<1>1. ToWord(a) = a
  BY DEF ToWord
<1>2. SUFFICES ASSUME a \in 49152 .. 53247 PROVE FALSE
  BY <1>1 DEF InIOPage, IO_START, ROM_START
<1> QED BY <1>2

\* The byte that the machine fetches from an address of the program.
LEMMA CodeByte ==
  ASSUME CodeFrom(IF Place < 3 THEN Place ELSE 3), Place \in Starts, NEW a \in Int, Place <= a, a <= 33
  PROVE  ByteAt(memory, a) = FibonacciCode[a + 1] /\ ~InIOPage(a) /\ ToWord(a) = a
<1>1. a \in DOMAIN memory.cells /\ memory.cells[a] = FibonacciCode[a + 1]
  BY DEF CodeFrom, Starts
<1>2. a \in 0 .. 33
  BY DEF Starts
<1> QED BY <1>1, <1>2, LowAddress DEF ByteAt

\* The program counter and the count of fetched bytes at each place.
LEMMA ProgramPlace ==
  ASSUME Inv, RomInv
  PROVE  /\ Place \in Starts
         /\ operands_buffer_index \in 0 .. 2
         /\ regs.IP = Place + (IF state = "FETCH" THEN 0 ELSE 1 + operands_buffer_index)
<1>1. Place \in Starts
  BY DEF RomInv, Holds, Starts
<1>2. operands_buffer_index \in 0 .. 2
  <2>1. operands_buffer_index \in Int /\ operands_buffer_index >= 0 /\ remaining_bytes \in Int
    BY DEF Inv, Sound, TypeOK, OPERANDS_BUFFER_SIZE, Byte
  <2>2. state \in {"FETCH", "DECODE", "FETCH_OPERAND", "EXECUTE"} /\ last_trap = "OK"
    BY DEF Inv, Sound, TypeOK, RomInv
  <2>3. CASE state \in {"FETCH", "DECODE"}
    BY <2>3 DEF Inv, PipelineConsistent, BetweenInstructions
  <2>4. CASE state = "FETCH_OPERAND"
    BY <2>1, <2>2, <2>4, CountType DEF Inv, PipelineConsistent, OperandsPending
  <2>5. CASE state = "EXECUTE"
    BY <2>1, <2>2, <2>5, CountType DEF Inv, PipelineConsistent, OperandsComplete
  <2> QED BY <2>2, <2>3, <2>4, <2>5
<1>3. regs.IP \in Int /\ operands_buffer_index \in Int
  <2>1. regs.IP \in Word
    BY DEF Inv, Sound, TypeOK, Registers
  <2> QED BY <1>2, <2>1, WordRange
<1>4. CASE state = "FETCH"
  BY <1>1, <1>2, <1>3, <1>4 DEF Place
<1>5. CASE state # "FETCH"
  BY <1>1, <1>2, <1>3, <1>5 DEF Place
<1> QED BY <1>4, <1>5

\* The opcode and the operand bytes fetched so far are those of the program.
LEMMA FetchedCode ==
  ASSUME Inv, RomInv, state # "FETCH"
  PROVE  /\ reg_IR = FibonacciCode[Place + 1]
         /\ \A i \in 0 .. operands_buffer_index - 1 :
              operands_buffer[i] = FibonacciCode[Place + 2 + i]
<1> DEFINE place(i) == ToWord(regs.IP - operands_buffer_index + i)
<1>1. /\ Place \in Starts /\ operands_buffer_index \in 0 .. 2
      /\ regs.IP = Place + 1 + operands_buffer_index
  BY ProgramPlace DEF Starts
<1>2. Place \in Int /\ 0 <= Place /\ Place <= 31
  BY <1>1 DEF Starts
<1>3. CodeFrom(IF Place < 3 THEN Place ELSE 3)
  BY DEF RomInv
<1>4. /\ InIOPage(place(-1)) \/ reg_IR = ByteAt(memory, place(-1))
      /\ \A i \in 0 .. operands_buffer_index - 1 :
           InIOPage(place(i)) \/ operands_buffer[i] = ByteAt(memory, place(i))
  BY DEF Inv, InstructionIsInMemory, RomInv
<1>5. \A i \in -1 .. operands_buffer_index - 1 : regs.IP - operands_buffer_index + i = Place + 1 + i
  BY <1>1, <1>2
<1>6. reg_IR = FibonacciCode[Place + 1]
  <2>1. place(-1) = ToWord(Place)
    BY <1>1, <1>2
  <2>2. ByteAt(memory, Place) = FibonacciCode[Place + 1] /\ ~InIOPage(Place) /\ ToWord(Place) = Place
    BY <1>1, <1>2, <1>3, CodeByte
  <2> HIDE DEF place
  <2> QED BY <1>4, <2>1, <2>2
<1>7. ASSUME NEW i \in 0 .. operands_buffer_index - 1
      PROVE  operands_buffer[i] = FibonacciCode[Place + 2 + i]
  <2> DEFINE a == Place + 1 + i
  <2>1. a \in Int /\ Place <= a /\ a <= 33 /\ a + 1 = Place + 2 + i
    BY <1>1, <1>2
  <2>2. place(i) = ToWord(a)
    BY <1>1, <1>2, <1>5
  <2> HIDE DEF a, place
  <2>3. ByteAt(memory, a) = FibonacciCode[a + 1] /\ ~InIOPage(a) /\ ToWord(a) = a
    BY <1>1, <1>3, <2>1, CodeByte
  <2> QED BY <1>4, <2>1, <2>2, <2>3
<1> QED BY <1>6, <1>7

\* A cycle that leaves the memory, A, X, P and the place alone keeps the invariant.
LEMMA SamePlace ==
  ASSUME RomInv, last_trap' = "OK", memory' = memory, Place' = Place,
         regs'.A = regs.A, regs'.X = regs.X, regs'.P = regs.P
  PROVE  RomInv'
<1>1. CodeFrom(IF Place < 3 THEN Place ELSE 3)'
  BY DEF RomInv, CodeFrom
<1>2. Holds(Place)'
  <2>1. /\ \A i : (Entered(i) <=> Entered(i)') /\ Entry(i) = Entry(i)'
        /\ F0' = F0 /\ F1' = F1 /\ F2' = F2 /\ (NoCarry <=> NoCarry')
    BY DEF Entered, Entry, F0, F1, F2, NoCarry
  <2>2. \A S : SumsExcept(S) => SumsExcept(S)'
    BY <2>1 DEF SumsExcept
  <2>3. NoEntries => NoEntries'
    BY <2>1 DEF NoEntries
  <2>4. (Ready => Ready') /\ (Stepped => Stepped')
    BY <2>1, <2>2 DEF Ready, Stepped, Before
  <2>5. (Stored => Stored') /\ (Turned => Turned')
    BY <2>1, <2>2 DEF Stored, Turned
  <2> QED BY <2>1, <2>3, <2>4, <2>5 DEF RomInv, Holds
<1> QED BY <1>1, <1>2 DEF RomInv

\* So do the cycles that come before an instruction is executed.
LEMMA CyclesBefore ==
  ASSUME Inv, RomInv, Fetch \/ Decode \/ FetchOperand
  PROVE  RomInv'
<1>1. Inv' /\ regs \in Registers /\ last_trap = "OK"
  BY FetchInv, DecodeInv, FetchOperandInv DEF Inv, Sound, TypeOK, RomInv
<1>2. /\ Place \in Starts /\ operands_buffer_index \in 0 .. 2
      /\ regs.IP = Place + (IF state = "FETCH" THEN 0 ELSE 1 + operands_buffer_index)
  BY ProgramPlace
<1>3. Place \in Int /\ 0 <= Place /\ Place <= 31
  BY <1>2 DEF Starts
<1>4. IncrementIP => /\ regs'.IP = regs.IP + 1
                     /\ regs'.A = regs.A /\ regs'.X = regs.X /\ regs'.P = regs.P
  BY <1>1, <1>2, <1>3 DEF IncrementIP, Registers, ToWord
<1>5. last_trap' \in Traps \ {"SEGMENTATION_FAULT", "INTERNAL_BUF_OVERFLOW"}
  BY <1>1 DEF Inv, Sound, TypeOK, OnlyProgramTraps
<1>6. CASE Fetch
  <2>1. /\ state = "FETCH" /\ memory' = memory /\ operands_buffer_index' = operands_buffer_index
        /\ IncrementIP
    BY <1>6 DEF Fetch, Running
  <2>2. last_trap' = "OK" /\ state' = "DECODE"
    <3>1. PICK chr \in Stdin :
            LET fetched == MemoryRead(memory, ap_data, regs.IP, chr)
            IN  /\ state' = IF fetched.success THEN "DECODE" ELSE state
                /\ last_trap' = IF fetched.success THEN last_trap ELSE "SEGMENTATION_FAULT"
      BY <1>6 DEF Fetch
    <3> QED BY <1>1, <1>5, <3>1
  <2>3. operands_buffer_index = 0
    BY <2>1 DEF Inv, PipelineConsistent, BetweenInstructions
  <2>4. Place' = Place
    BY <1>2, <1>3, <1>4, <2>1, <2>2, <2>3 DEF Place
  <2> QED BY <1>4, <2>1, <2>2, <2>4, SamePlace
<1>7. CASE Decode
  <2>1. /\ state = "DECODE" /\ UNCHANGED <<regs, memory, operands_buffer_index>>
        /\ state' \in {"EXECUTE", "FETCH_OPERAND"}
        /\ Legal(reg_IR) => last_trap' = last_trap
    BY <1>7 DEF Decode, Running
  <2>2. Legal(reg_IR)
    BY <1>2, <2>1, FetchedCode, ProgramLegal
  <2>3. Place' = Place
    BY <2>1 DEF Place
  <2> QED BY <1>1, <2>1, <2>2, <2>3, SamePlace
<1>8. CASE FetchOperand
  <2>1. state = "FETCH_OPERAND" /\ memory' = memory
    BY <1>8 DEF FetchOperand, Running
  <2>2. PICK chr \in Stdin : OperandFetched(MemoryRead(memory, ap_data, regs.IP, chr))
    BY <1>2, <1>8 DEF FetchOperand, OPERANDS_BUFFER_SIZE
  <2> DEFINE fetched == MemoryRead(memory, ap_data, regs.IP, chr)
  <2>3. /\ IncrementIP /\ operands_buffer_index' = operands_buffer_index + 1
        /\ last_trap' \in {last_trap, "SEGMENTATION_FAULT"}
        /\ state' \in {"EXECUTE", state}
    BY <2>2 DEF OperandFetched
  <2>4. last_trap' = "OK"
    BY <1>1, <1>5, <2>3
  <2>5. Place' = Place
    BY <1>2, <1>3, <1>4, <2>1, <2>3 DEF Place
  <2> QED BY <1>4, <2>1, <2>3, <2>4, <2>5, SamePlace
<1> QED BY <1>6, <1>7, <1>8

-----------------------------------------------------------------------------
(* What the machine executes at each place: the program, disassembled.     *)

\* The instruction at p is this function with this mode and operand, and the
\* next one comes after it.
Executes(p, impl, mode, operand, next) ==
  Place = p => /\ Impl = impl /\ Mode = mode
               /\ FirstOperand(mode) = operand /\ regs.IP = next

\* cpu_resolve_first_operand for the modes of the program.
LEMMA ModeOperands ==
  ASSUME Sound
  PROVE  /\ \A mode \in {"IMMEDIATE", "ZERO_PAGE"} : FirstOperand(mode) = operands_buffer[0]
         /\ FirstOperand("IMPLIED") = 0
         /\ operands_buffer[0] = 10 /\ operands_buffer[1] = 0 => FirstOperand("ABSOLUTE") = 10
         /\ operands_buffer[0] = 0 /\ operands_buffer[1] = 2 =>
              FirstOperand("ABSOLUTE_X") = TABLE + regs.X
<1>1. regs.X \in Byte
  BY DEF Sound, TypeOK, Registers
<1>2. ToWord(512 + regs.X) = 512 + regs.X
  BY <1>1 DEF Byte, ToWord
<1>3. MakeWord(2, 0) = 512 /\ MakeWord(0, 10) = 10
  BY DEF MakeWord
<1> QED BY <1>2, <1>3 DEF FirstOperand, TABLE

LEMMA Disassembly ==
  ASSUME Inv, RomInv, state = "EXECUTE"
  PROVE
    /\ Executes(0, "load_a_instr", "IMMEDIATE", 0, 2)
    /\ Executes(2, "store_a_instr", "ZERO_PAGE", 0, 4)
    /\ Executes(4, "load_a_instr", "IMMEDIATE", 1, 6)
    /\ Executes(6, "store_a_instr", "ZERO_PAGE", 1, 8)
    /\ Executes(8, "load_x_instr", "IMMEDIATE", 0, 10)
    /\ Executes(10, "load_a_instr", "ZERO_PAGE", 1, 12)
    /\ Executes(12, "store_a_instr", "ABSOLUTE_X", TABLE + regs.X, 15)
    /\ Executes(15, "inc_x_instr", "IMPLIED", 0, 16)
    /\ Executes(16, "clc_instr", "IMPLIED", 0, 17)
    /\ Executes(17, "load_a_instr", "ZERO_PAGE", 0, 19)
    /\ Executes(19, "add_to_accumulator_instr", "ZERO_PAGE", 1, 21)
    /\ Executes(21, "store_a_instr", "ZERO_PAGE", 2, 23)
    /\ Executes(23, "load_a_instr", "ZERO_PAGE", 1, 25)
    /\ Executes(25, "store_a_instr", "ZERO_PAGE", 0, 27)
    /\ Executes(27, "load_a_instr", "ZERO_PAGE", 2, 29)
    /\ Executes(29, "store_a_instr", "ZERO_PAGE", 1, 31)
    /\ Executes(31, "jump_instr", "ABSOLUTE", 10, 34)
<1>1. /\ Sound /\ Place \in Starts
      /\ regs.IP = Place + 1 + operands_buffer_index
      /\ operands_buffer_index = BytesForOperands(Mode)
  <2>1. operands_buffer_index = BytesForOperands(Mode)
    BY DEF Inv, RomInv, PipelineConsistent, OperandsComplete
  <2> QED BY <2>1, ProgramPlace DEF Inv, Starts
<1>2. /\ Impl = OpcodeData[FibonacciCode[Place + 1]].impl
      /\ Mode = OpcodeData[FibonacciCode[Place + 1]].mode
      /\ \A i \in 0 .. operands_buffer_index - 1 :
           operands_buffer[i] = FibonacciCode[Place + 2 + i]
  BY FetchedCode DEF Impl, Mode
<1>3. CASE Place = 0
  BY <1>1, <1>2, <1>3, ModeOperands, Listing, ProgramRows DEF Executes, Row, BytesForOperands
<1>4. CASE Place = 2
  BY <1>1, <1>2, <1>4, ModeOperands, Listing, ProgramRows DEF Executes, Row, BytesForOperands
<1>5. CASE Place = 4
  BY <1>1, <1>2, <1>5, ModeOperands, Listing, ProgramRows DEF Executes, Row, BytesForOperands
<1>6. CASE Place = 6
  BY <1>1, <1>2, <1>6, ModeOperands, Listing, ProgramRows DEF Executes, Row, BytesForOperands
<1>7. CASE Place = 8
  BY <1>1, <1>2, <1>7, ModeOperands, Listing, ProgramRows DEF Executes, Row, BytesForOperands
<1>8. CASE Place = 10
  BY <1>1, <1>2, <1>8, ModeOperands, Listing, ProgramRows DEF Executes, Row, BytesForOperands
<1>9. CASE Place = 12
  BY <1>1, <1>2, <1>9, ModeOperands, Listing, ProgramRows DEF Executes, Row, BytesForOperands
<1>10. CASE Place = 15
  BY <1>1, <1>2, <1>10, ModeOperands, Listing, ProgramRows DEF Executes, Row, BytesForOperands
<1>11. CASE Place = 16
  BY <1>1, <1>2, <1>11, ModeOperands, Listing, ProgramRows DEF Executes, Row, BytesForOperands
<1>12. CASE Place = 17
  BY <1>1, <1>2, <1>12, ModeOperands, Listing, ProgramRows DEF Executes, Row, BytesForOperands
<1>13. CASE Place = 19
  BY <1>1, <1>2, <1>13, ModeOperands, Listing, ProgramRows DEF Executes, Row, BytesForOperands
<1>14. CASE Place = 21
  BY <1>1, <1>2, <1>14, ModeOperands, Listing, ProgramRows DEF Executes, Row, BytesForOperands
<1>15. CASE Place = 23
  BY <1>1, <1>2, <1>15, ModeOperands, Listing, ProgramRows DEF Executes, Row, BytesForOperands
<1>16. CASE Place = 25
  BY <1>1, <1>2, <1>16, ModeOperands, Listing, ProgramRows DEF Executes, Row, BytesForOperands
<1>17. CASE Place = 27
  BY <1>1, <1>2, <1>17, ModeOperands, Listing, ProgramRows DEF Executes, Row, BytesForOperands
<1>18. CASE Place = 29
  BY <1>1, <1>2, <1>18, ModeOperands, Listing, ProgramRows DEF Executes, Row, BytesForOperands
<1>19. CASE Place = 31
  BY <1>1, <1>2, <1>19, ModeOperands, Listing, ProgramRows DEF Executes, Row, BytesForOperands
<1> QED BY <1>1, <1>3, <1>4, <1>5, <1>6, <1>7, <1>8, <1>9, <1>10, <1>11, <1>12, <1>13, <1>14, <1>15, <1>16, <1>17, <1>18, <1>19 DEF Starts, Executes

-----------------------------------------------------------------------------
(* What the instructions of the program leave.                             *)

\* The memory, the registers that matter, and a machine ready to go on.
Leaves(cells, a, x, carry, ip) ==
  /\ memory'.cells = cells
  /\ regs'.A = a /\ regs'.X = x /\ (Bit(regs'.P, CARRY) <=> carry) /\ regs'.IP = ip
  /\ state' = "FETCH" /\ last_trap' = "OK"

\* The registers after an assignment to one of them.
LEMMA AssignedParts ==
  ASSUME NEW r \in Registers, NEW register \in {"A", "X"}, NEW value \in Byte
  PROVE  LET s == Assigned(r, register, value)
         IN  /\ s.A = IF register = "A" THEN value ELSE r.A
             /\ s.X = IF register = "X" THEN value ELSE r.X
             /\ s.IP = r.IP
             /\ Bit(s.P, CARRY) <=> Bit(r.P, CARRY)
<1>1. r.P \in Byte
  BY DEF Registers
<1>2. Bit(ZeroNegative(r.P, value), CARRY) <=> Bit(r.P, CARRY)
  BY <1>1, ZeroNegativeBits
<1>3. /\ Assigned(r, register, value).P = ZeroNegative(r.P, value)
      /\ Assigned(r, register, value).IP = r.IP
      /\ Assigned(r, register, value).A = IF register = "A" THEN value ELSE r.A
      /\ Assigned(r, register, value).X = IF register = "X" THEN value ELSE r.X
  <2>1. CASE register = "A"
    BY <2>1 DEF Assigned, Registers
  <2>2. CASE register = "X"
    BY <2>2 DEF Assigned, Registers
  <2> QED BY <2>1, <2>2
<1> QED BY <1>2, <1>3

\* The cells after a write below the I/O page.
LEMMA WrittenCells ==
  ASSUME NEW m, IsMemory(m), NEW address, NEW value, Accessible(m, address), address < IO_START
  PROVE  MemoryAfterWrite(m, address, value).cells = Store(m.cells, address, value)
<1> DEFINE cells == Store(m.cells, address, value)
<1> HIDE DEF cells
<1>1. [m EXCEPT !.cells = cells] = [cells |-> cells, size |-> m.size]
  BY DEF IsMemory
<1> QED BY <1>1 DEF MemoryAfterWrite, cells

\* The operand of an instruction of the program.
LEMMA ProgramOperand ==
  ASSUME Sound, RomInv, Mode \in {"IMMEDIATE", "ZERO_PAGE"}, FirstOperand(Mode) \in 0 .. 2
  PROVE  /\ Plain
         /\ Operand = IF Mode = "IMMEDIATE" THEN FirstOperand(Mode)
                                            ELSE memory.cells[FirstOperand(Mode)]
         /\ Operand \in Byte
<1>1. Plain
  <2>1. \A n \in 0 .. 2 : n \notin IO_START .. ROM_START - 1
    <3>1. IO_START \in Int /\ ROM_START - 1 \in Int /\ IO_START > 2
      BY DEF IO_START, ROM_START
    <3>2. \A lo, hi \in Int : lo > 2 => \A n \in 0 .. 2 : n \notin lo .. hi
      OBVIOUS
    <3> QED BY <3>1, <3>2
  <2> QED BY <2>1 DEF Plain
<1>2. CASE Mode = "IMMEDIATE"
  <2>1. Operand = FirstOperand(Mode)
    BY <1>2 DEF Operand, IsAddress
  <2>2. \A n \in 0 .. 2 : n \in Byte
    BY DEF Byte
  <2> QED BY <1>1, <1>2, <2>1, <2>2
<1>3. CASE Mode = "ZERO_PAGE"
  <2>1. FirstOperand(Mode) \in DOMAIN memory.cells
    BY DEF RomInv, CodeFrom
  <2>2. memory.cells \in [DOMAIN memory.cells -> Byte]
    BY DEF Sound, TypeOK, IsMemory, IsCells
  <2>3. Operand = memory.cells[FirstOperand(Mode)]
    BY <1>3, <2>1 DEF Operand, IsAddress, Peek, ByteAt, Accessible, Sound, MEMORY_SIZE
  <2> QED BY <1>1, <1>3, <2>1, <2>2, <2>3
<1> QED BY <1>1, <1>2, <1>3

\* LDA and LDX.
LEMMA LoadLeaves ==
  ASSUME Inv, RomInv, Next, state = "EXECUTE", NEW impl \in {"load_a_instr", "load_x_instr"},
         Impl = impl, Mode \in {"IMMEDIATE", "ZERO_PAGE"}, FirstOperand(Mode) \in 0 .. 2
  PROVE  Leaves(memory.cells,
                IF impl = "load_a_instr" THEN Operand ELSE regs.A,
                IF impl = "load_x_instr" THEN Operand ELSE regs.X,
                Bit(regs.P, CARRY), regs.IP)
<1>1. LoadRegister
  BY ImplOfAction DEF Next
<1>2. PICK operand \in RealOperands : UseOperand(operand, Assigned(regs, Loads[impl], operand.value))
  BY <1>1 DEF LoadRegister, Executing, Impl
<1>3. Sound /\ Plain /\ Operand \in Byte /\ regs \in Registers
  BY ProgramOperand DEF Inv, Sound, TypeOK
<1>4. operand.success /\ operand.value = Operand
  BY <1>3, PlainOperand
<1>5. /\ regs' = Assigned(regs, Loads[impl], Operand) /\ memory' = memory
      /\ last_trap' = "OK" /\ state' = "FETCH"
  BY <1>2, <1>4 DEF UseOperand, FinishExecute, RomInv
<1>6. CASE impl = "load_a_instr"
  <2>1. Loads[impl] = "A"
    BY <1>6 DEF Loads
  <2> QED BY <1>3, <1>5, <1>6, <2>1, AssignedParts DEF Leaves
<1>7. CASE impl = "load_x_instr"
  <2>1. Loads[impl] = "X"
    BY <1>7 DEF Loads
  <2> QED BY <1>3, <1>5, <1>7, <2>1, AssignedParts DEF Leaves
<1> QED BY <1>6, <1>7

\* STA.
LEMMA StoreLeaves ==
  ASSUME Inv, RomInv, Next, state = "EXECUTE", Impl = "store_a_instr",
         FirstOperand(Mode) < IO_START
  PROVE  Leaves(Store(memory.cells, FirstOperand(Mode), regs.A), regs.A, regs.X,
                Bit(regs.P, CARRY), regs.IP)
<1>1. StoreRegister
  BY ImplOfAction DEF Next
<1>2. /\ memory' = MemoryAfterWrite(memory, FirstOperand(Mode), regs.A)
      /\ regs' = regs /\ last_trap' = "OK" /\ state' = "FETCH"
  BY <1>1 DEF StoreRegister, Executing, Impl, Stores, FinishExecute, RomInv
<1>3. IsMemory(memory) /\ Accessible(memory, FirstOperand(Mode))
  <2>1. FirstOperand(Mode) \in Word
    BY FirstOperandType DEF Inv, Sound
  <2> QED BY <2>1, WordRange DEF Inv, Sound, TypeOK, Accessible, MEMORY_SIZE
<1> QED BY <1>2, <1>3, WrittenCells DEF Leaves

\* INX.
LEMMA StepLeaves ==
  ASSUME Inv, RomInv, Next, state = "EXECUTE", Impl = "inc_x_instr"
  PROVE  Leaves(memory.cells, regs.A, ToByte(regs.X + 1), Bit(regs.P, CARRY), regs.IP)
<1>1. StepRegister
  BY ImplOfAction DEF Next
<1>2. SetRegisters(Assigned(regs, "X", ToByte(regs.X + 1)))
  BY <1>1 DEF StepRegister, Executing, Impl, RegisterSteps
<1>3. /\ regs' = Assigned(regs, "X", ToByte(regs.X + 1)) /\ memory' = memory
      /\ last_trap' = "OK" /\ state' = "FETCH"
  BY <1>2 DEF SetRegisters, FinishExecute, RomInv
<1>4. regs \in Registers /\ ToByte(regs.X + 1) \in Byte
  BY WordParts, ByteRange DEF Inv, Sound, TypeOK, Registers
<1> QED BY <1>3, <1>4, AssignedParts DEF Leaves

\* CLC.
LEMMA ClearLeaves ==
  ASSUME Inv, RomInv, Next, state = "EXECUTE", Impl = "clc_instr"
  PROVE  Leaves(memory.cells, regs.A, regs.X, FALSE, regs.IP)
<1>1. ChangeFlag
  BY ImplOfAction DEF Next
<1>2. SetRegisters([regs EXCEPT !.P = UpdateFlag(@, CARRY, FALSE)])
  <2>1. PICK impl \in DOMAIN FlagChanges :
          /\ Executing(impl)
          /\ SetRegisters([regs EXCEPT
               !.P = UpdateFlag(@, FlagChanges[impl][1], FlagChanges[impl][2])])
    BY <1>1 DEF ChangeFlag
  <2>2. impl = "clc_instr"
    BY <2>1 DEF Executing, Impl
  <2>3. FlagChanges["clc_instr"] = <<CARRY, FALSE>>
    BY DEF FlagChanges
  <2> QED BY <2>1, <2>2, <2>3
<1>3. /\ regs' = [regs EXCEPT !.P = UpdateFlag(regs.P, CARRY, FALSE)] /\ memory' = memory
      /\ last_trap' = "OK" /\ state' = "FETCH"
  BY <1>2 DEF SetRegisters, FinishExecute, RomInv
<1>4. regs \in Registers /\ regs.P \in Byte
  BY DEF Inv, Sound, TypeOK, Registers
<1>5. ~Bit(UpdateFlag(regs.P, CARRY, FALSE), CARRY)
  BY <1>4, UpdatedFlag, FlagsDiffer
<1>6. /\ regs'.P = UpdateFlag(regs.P, CARRY, FALSE)
      /\ regs'.A = regs.A /\ regs'.X = regs.X /\ regs'.IP = regs.IP
  BY <1>3, <1>4 DEF Registers
<1> QED BY <1>3, <1>5, <1>6 DEF Leaves

\* ADC with the carry clear.
LEMMA AddLeaves ==
  ASSUME Inv, RomInv, Next, state = "EXECUTE", Impl = "add_to_accumulator_instr",
         Mode \in {"IMMEDIATE", "ZERO_PAGE"}, FirstOperand(Mode) \in 0 .. 2, NoCarry
  PROVE  Leaves(memory.cells, ToByte(regs.A + Operand), regs.X, Bit(regs'.P, CARRY), regs.IP)
<1>1. AddToAccumulator
  BY ImplOfAction DEF Next
<1>2. PICK operand \in RealOperands : UseOperand(operand, Added(regs, operand.value))
  BY <1>1 DEF AddToAccumulator
<1>3. Sound /\ Plain /\ Operand \in Byte /\ regs \in Registers
  BY ProgramOperand DEF Inv, Sound, TypeOK
<1>4. operand.success /\ operand.value = Operand
  BY <1>3, PlainOperand
<1>5. /\ regs' = Added(regs, Operand) /\ memory' = memory
      /\ last_trap' = "OK" /\ state' = "FETCH"
  BY <1>2, <1>4 DEF UseOperand, FinishExecute, RomInv
<1>6. regs'.A = ToByte(regs.A + Operand)
  <2>1. regs'.A + 256 * CarryOf(regs'.P) = regs.A + Operand + CarryOf(regs.P)
    BY <1>3, <1>5, AddedExact
  <2>2. CarryOf(regs.P) = 0 /\ CarryOf(regs'.P) \in {0, 1}
    BY CarryType DEF NoCarry, CarryOf
  <2>3. regs'.A \in Byte /\ regs.A \in Byte
    BY <1>3, <1>5, SumType DEF Registers
  <2> DEFINE a == regs.A
             v == Operand
             sum == regs'.A
             c == CarryOf(regs'.P)
  <2>4. a \in Byte /\ v \in Byte /\ sum \in Byte /\ c \in {0, 1} /\ sum + 256 * c = a + v
    BY <1>3, <2>1, <2>2, <2>3, ByteRange
  <2> HIDE DEF a, v, sum, c
  <2>5. sum = ToByte(a + v)
    BY <2>4, ByteRange DEF ToByte
  <2> QED BY <2>5 DEF a, v, sum
<1>7. regs'.X = regs.X /\ regs'.IP = regs.IP
  BY <1>3, <1>5 DEF Added, ArithmeticResult, Assigned, Registers
<1> QED BY <1>5, <1>6, <1>7 DEF Leaves

\* JMP.
LEMMA JumpLeaves ==
  ASSUME Inv, RomInv, Next, state = "EXECUTE", Impl = "jump_instr", Mode = "ABSOLUTE"
  PROVE  Leaves(memory.cells, regs.A, regs.X, Bit(regs.P, CARRY), FirstOperand("ABSOLUTE"))
<1>1. Jump
  BY ImplOfAction DEF Next, JumpIndirect
<1>2. /\ regs' = [regs EXCEPT !.IP = FirstOperand("ABSOLUTE")] /\ memory' = memory
      /\ last_trap' = "OK" /\ state' = "FETCH"
  BY <1>1 DEF Jump, SetRegisters, FinishExecute, RomInv
<1>3. regs \in Registers
  BY DEF Inv, Sound, TypeOK
<1>4. /\ regs'.IP = FirstOperand("ABSOLUTE")
      /\ regs'.A = regs.A /\ regs'.X = regs.X /\ regs'.P = regs.P
  BY <1>2, <1>3 DEF Registers
<1> QED BY <1>2, <1>4 DEF Leaves

-----------------------------------------------------------------------------
(* From one place of the program to the next.                              *)

\* The next instruction is at reg_IP.
LEMMA Arrival ==
  ASSUME NEW cells, NEW a, NEW x, NEW carry, NEW ip, Leaves(cells, a, x, carry, ip)
  PROVE  Place' = ip /\ last_trap' = "OK"
BY DEF Leaves, Place

\* What is said of the table and the pair depends on the cells and X alone.
LEMMA SameTable ==
  ASSUME memory'.cells = memory.cells, regs'.X = regs.X
  PROVE  /\ F0' = F0 /\ F1' = F1 /\ F2' = F2
         /\ NoEntries => NoEntries'
         /\ Ready => Ready'
         /\ Turned => Turned'
         /\ Stepped => Stepped'
BY DEF F0, F1, F2, NoEntries, Ready, Turned, Stepped, Before, SumsExcept, Entered, Entry

\* A write to the cells of the pair.
LEMMA LowStore ==
  ASSUME CodeFrom(3), NEW z \in 0 .. 2, NEW v, memory'.cells = Store(memory.cells, z, v)
  PROVE  /\ CodeFrom(3)'
         /\ memory'.cells[z] = v
         /\ \A y \in 0 .. 2 : y # z => memory'.cells[y] = memory.cells[y]
         /\ \A i \in Byte : /\ Entered(i)' <=> Entered(i)
                            /\ Entered(i) => Entry(i)' = Entry(i)
<1>1. /\ DOMAIN memory'.cells = DOMAIN memory.cells \cup {z}
      /\ memory'.cells[z] = v
      /\ \A a \in DOMAIN memory.cells : a # z => memory'.cells[a] = memory.cells[a]
  BY DEF Store
<1>2. 0 .. 33 \subseteq DOMAIN memory.cells
  BY DEF CodeFrom
<1>3. CodeFrom(3)'
  BY <1>1, <1>2 DEF CodeFrom
<1>4. \A i \in Byte : TABLE + i # z
  BY ByteRange DEF TABLE
<1> QED BY <1>1, <1>2, <1>3, <1>4 DEF Entered, Entry

\* Sums of entries that a write to the pair leaves alone.
LEMMA SumsKept ==
  ASSUME NEW S, SumsExcept(S),
         \A i \in Byte : (Entered(i)' <=> Entered(i)) /\ (Entered(i) => Entry(i)' = Entry(i))
  PROVE  SumsExcept(S)'
<1> SUFFICES ASSUME NEW i \in (2 .. \hFF) \ S, Entered(i - 2)', Entered(i - 1)', Entered(i)'
             PROVE  Entry(i)' = ToByte(Entry(i - 1)' + Entry(i - 2)')
  BY DEF SumsExcept
<1>1. i \in Byte /\ i - 1 \in Byte /\ i - 2 \in Byte
  BY ByteRange
<1> QED BY <1>1 DEF SumsExcept

\* The places before the loop.
LEMMA SetUp ==
  ASSUME Inv, RomInv, Next, state = "EXECUTE", Place \in {0, 2, 4, 6, 8}
  PROVE  RomInv'
<1>1. NoEntries /\ CodeFrom(IF Place < 3 THEN Place ELSE 3)
  BY DEF RomInv, Holds
<1>2. CASE Place \in {0, 4}
  <2>1. /\ Impl = "load_a_instr" /\ Mode = "IMMEDIATE" /\ FirstOperand(Mode) \in 0 .. 2
        /\ regs.IP = Place + 2
    BY <1>2, Disassembly DEF Executes
  <2>2. Leaves(memory.cells, Operand, regs.X, Bit(regs.P, CARRY), regs.IP)
    BY <2>1, LoadLeaves
  <2>3. Place' \in {2, 6} /\ last_trap' = "OK" /\ Place' = Place + 2
    BY <1>2, <2>1, <2>2, Arrival
  <2>4. memory'.cells = memory.cells /\ regs'.X = regs.X
    BY <2>2 DEF Leaves
  <2>5. NoEntries'
    BY <1>1, <2>4, SameTable
  <2>6. CodeFrom(IF Place < 3 THEN Place ELSE 3)'
    BY <1>1, <1>2, <2>3, <2>4 DEF CodeFrom
  <2> QED BY <2>3, <2>5, <2>6 DEF RomInv, Holds
<1>3. CASE Place \in {2, 6}
  <2>1. /\ Impl = "store_a_instr" /\ Mode = "ZERO_PAGE" /\ FirstOperand(Mode) \in {0, 1}
        /\ regs.IP = Place + 2
    BY <1>3, Disassembly DEF Executes
  <2>2. PICK z \in {0, 1} : z = FirstOperand(Mode)
    BY <2>1
  <2>3. z \in 0 .. 2 /\ z < IO_START
    BY DEF IO_START
  <2>4. Leaves(Store(memory.cells, z, regs.A), regs.A, regs.X, Bit(regs.P, CARRY), regs.IP)
    BY <2>1, <2>2, <2>3, StoreLeaves
  <2>5. Place' \in {4, 8} /\ last_trap' = "OK"
    BY <1>3, <2>1, <2>4, Arrival
  <2>6. CodeFrom(3)
    BY <1>1, <1>3 DEF CodeFrom
  <2>7. /\ CodeFrom(3)'
        /\ \A i \in Byte : Entered(i)' <=> Entered(i)
    BY <2>3, <2>4, <2>6, LowStore DEF Leaves
  <2>8. NoEntries'
    BY <1>1, <2>7 DEF NoEntries
  <2> QED BY <2>5, <2>7, <2>8 DEF RomInv, Holds
<1>4. CASE Place = 8
  <2>1. /\ Impl = "load_x_instr" /\ Mode = "IMMEDIATE" /\ FirstOperand(Mode) = 0
        /\ regs.IP = 10
    BY <1>4, Disassembly DEF Executes
  <2>2. Leaves(memory.cells, regs.A, Operand, Bit(regs.P, CARRY), regs.IP)
    BY <2>1, LoadLeaves
  <2>3. Operand = 0
    BY <2>1, ProgramOperand DEF Inv
  <2>4. Place' = 10 /\ last_trap' = "OK"
    BY <2>1, <2>2, Arrival
  <2>5. memory'.cells = memory.cells /\ regs'.X = 0
    BY <2>2, <2>3 DEF Leaves
  <2>6. CodeFrom(3)'
    BY <1>1, <1>4, <2>5 DEF CodeFrom
  <2>7. Ready'
    <3>1. \A i \in Byte : ~Entered(i)'
      BY <1>1, <2>5 DEF NoEntries, Entered
    <3>2. \A i \in 2 .. \hFF : i \in Byte
      BY ByteRange
    <3>3. SumsExcept({regs.X, regs.X + 1})'
      BY <3>1, <3>2 DEF SumsExcept
    <3> QED BY <2>5, <3>3 DEF Ready, Before
  <2> QED BY <2>4, <2>6, <2>7 DEF RomInv, Holds
<1> QED BY <1>2, <1>3, <1>4

\* The places of the loop that only load a register, clear the carry or add.
LEMMA LoadsAndSums ==
  ASSUME Inv, RomInv, Next, state = "EXECUTE", Place \in {10, 16, 17, 19, 23, 27, 31}
  PROVE  RomInv'
<1>1. /\ CodeFrom(3) /\ Place \in Int /\ F0 \in Byte /\ F1 \in Byte /\ F2 \in Byte
      /\ F0 = memory.cells[0] /\ F1 = memory.cells[1] /\ F2 = memory.cells[2]
  <2>1. CodeFrom(3)
    BY DEF RomInv
  <2>2. memory.cells \in [DOMAIN memory.cells -> Byte]
    BY DEF Inv, Sound, TypeOK, IsMemory, IsCells
  <2>3. {0, 1, 2} \subseteq DOMAIN memory.cells
    BY <2>1 DEF CodeFrom
  <2>4. memory.cells[0] \in Byte /\ memory.cells[1] \in Byte /\ memory.cells[2] \in Byte
    BY <2>2, <2>3
  <2> QED BY <2>1, <2>4, ProgramPlace DEF F0, F1, F2, Starts
<1>2. Holds(Place)
  BY DEF RomInv
<1>3. ASSUME memory'.cells = memory.cells, regs'.X = regs.X, last_trap' = "OK",
             Place' \in Int, Place' >= 3, Holds(Place)'
      PROVE  RomInv'
  BY <1>1, <1>3 DEF RomInv, CodeFrom
<1>4. CASE Place \in {10, 17, 23, 27}
  <2>1. /\ Impl = "load_a_instr" /\ Mode = "ZERO_PAGE" /\ FirstOperand(Mode) \in 0 .. 2
        /\ regs.IP = Place + 2
        /\ FirstOperand(Mode) = IF Place = 17 THEN 0 ELSE IF Place = 27 THEN 2 ELSE 1
    BY <1>4, Disassembly DEF Executes
  <2>2. Leaves(memory.cells, Operand, regs.X, Bit(regs.P, CARRY), regs.IP)
    BY <2>1, LoadLeaves
  <2>3. Operand = IF Place = 17 THEN F0 ELSE IF Place = 27 THEN F2 ELSE F1
    BY <1>1, <2>1, ProgramOperand DEF Inv
  <2>4. Place' = Place + 2 /\ last_trap' = "OK"
    BY <2>1, <2>2, Arrival
  <2>5. /\ memory'.cells = memory.cells /\ regs'.X = regs.X /\ regs'.A = Operand
        /\ Bit(regs'.P, CARRY) <=> Bit(regs.P, CARRY)
    BY <2>2 DEF Leaves
  <2>6. /\ F0' = F0 /\ F1' = F1 /\ F2' = F2
        /\ Ready => Ready'
        /\ Turned => Turned'
        /\ Stepped => Stepped'
    BY <2>5, SameTable
  <2>7. Holds(Place)'
    BY <1>2, <1>4, <2>3, <2>4, <2>5, <2>6 DEF Holds, NoCarry
  <2> QED BY <1>3, <1>4, <2>4, <2>5, <2>7
<1>5. CASE Place = 16
  <2>1. Impl = "clc_instr" /\ regs.IP = 17
    BY <1>5, Disassembly DEF Executes
  <2>2. Leaves(memory.cells, regs.A, regs.X, FALSE, regs.IP)
    BY <2>1, ClearLeaves
  <2>3. Place' = 17 /\ last_trap' = "OK"
    BY <2>1, <2>2, Arrival
  <2>4. memory'.cells = memory.cells /\ regs'.X = regs.X /\ NoCarry'
    BY <2>2 DEF Leaves, NoCarry
  <2>5. Turned => Turned'
    BY <2>4, SameTable
  <2>6. Holds(Place)'
    BY <1>2, <1>5, <2>3, <2>4, <2>5 DEF Holds
  <2> QED BY <1>3, <2>3, <2>4, <2>6
<1>6. CASE Place = 19
  <2>1. /\ Impl = "add_to_accumulator_instr" /\ Mode = "ZERO_PAGE" /\ FirstOperand(Mode) = 1
        /\ regs.IP = 21
    BY <1>6, Disassembly DEF Executes
  <2>2. Turned /\ NoCarry /\ regs.A = F0
    BY <1>2, <1>6 DEF Holds
  <2>3. Leaves(memory.cells, ToByte(regs.A + Operand), regs.X, Bit(regs'.P, CARRY), regs.IP)
    BY <2>1, <2>2, AddLeaves
  <2>4. Operand = F1
    BY <1>1, <2>1, ProgramOperand DEF Inv
  <2>5. Place' = 21 /\ last_trap' = "OK"
    BY <2>1, <2>3, Arrival
  <2>6. memory'.cells = memory.cells /\ regs'.X = regs.X /\ regs'.A = ToByte(F0 + F1)
    BY <2>2, <2>3, <2>4 DEF Leaves
  <2>7. F0' = F0 /\ F1' = F1 /\ Turned'
    BY <2>2, <2>6, SameTable
  <2>8. Holds(Place)'
    BY <2>5, <2>6, <2>7 DEF Holds
  <2> QED BY <1>3, <2>5, <2>6, <2>8
<1>7. CASE Place = 31
  <2>1. Impl = "jump_instr" /\ Mode = "ABSOLUTE" /\ FirstOperand("ABSOLUTE") = 10
    BY <1>7, Disassembly DEF Executes
  <2>2. Leaves(memory.cells, regs.A, regs.X, Bit(regs.P, CARRY), FirstOperand("ABSOLUTE"))
    BY <2>1, JumpLeaves
  <2>3. Place' = 10 /\ last_trap' = "OK"
    BY <2>1, <2>2, Arrival
  <2>4. memory'.cells = memory.cells /\ regs'.X = regs.X
    BY <2>2 DEF Leaves
  <2>5. Ready'
    BY <1>2, <1>7, <2>4, SameTable DEF Holds
  <2>6. Holds(Place)'
    BY <2>3, <2>5 DEF Holds
  <2> QED BY <1>3, <2>3, <2>4, <2>6
<1> QED BY <1>4, <1>5, <1>6, <1>7

\* The places where the pair is stepped.
LEMMA PairSteps ==
  ASSUME Inv, RomInv, Next, state = "EXECUTE", Place \in {21, 25, 29}
  PROVE  RomInv'
<1>1. CodeFrom(3) /\ Holds(Place)
  BY DEF RomInv
<1>2. /\ Impl = "store_a_instr" /\ Mode = "ZERO_PAGE" /\ FirstOperand(Mode) \in 0 .. 2
      /\ regs.IP = Place + 2
      /\ FirstOperand(Mode) = IF Place = 21 THEN 2 ELSE IF Place = 25 THEN 0 ELSE 1
  BY Disassembly DEF Executes
<1>3. PICK z \in 0 .. 2 : z = FirstOperand(Mode)
  BY <1>2
<1>4. Leaves(Store(memory.cells, z, regs.A), regs.A, regs.X, Bit(regs.P, CARRY), regs.IP)
  <2>1. z < IO_START
    BY DEF IO_START
  <2> QED BY <1>2, <1>3, <2>1, StoreLeaves
<1>5. Place' = Place + 2 /\ last_trap' = "OK"
  BY <1>2, <1>4, Arrival
<1>6. regs'.X = regs.X /\ memory'.cells = Store(memory.cells, z, regs.A) /\ regs'.A = regs.A
  BY <1>4 DEF Leaves
<1>7. /\ CodeFrom(3)'
      /\ memory'.cells[z] = regs.A
      /\ \A y \in 0 .. 2 : y # z => memory'.cells[y] = memory.cells[y]
      /\ \A i \in Byte : /\ Entered(i)' <=> Entered(i)
                         /\ Entered(i) => Entry(i)' = Entry(i)
  BY <1>1, <1>6, LowStore
<1>8. PICK x \in Byte : x = regs.X
  BY DEF Inv, Sound, TypeOK, Registers
<1>9. /\ SumsExcept({x, x + 1})'
      /\ x >= 1 => /\ Entered(x - 1)' <=> Entered(x - 1)
                   /\ Entered(x - 1) => Entry(x - 1)' = Entry(x - 1)
      /\ x >= 2 => /\ Entered(x - 2)' <=> Entered(x - 2)
                   /\ Entered(x - 2) => Entry(x - 2)' = Entry(x - 2)
  <2>1. SumsExcept({x, x + 1})
    BY <1>1, <1>8 DEF Holds, Turned, Stepped, Before
  <2>2. SumsExcept({x, x + 1})'
    BY <1>7, <2>1, SumsKept
  <2>3. (x >= 1 => x - 1 \in Byte) /\ (x >= 2 => x - 2 \in Byte)
    BY ByteRange
  <2> QED BY <1>7, <2>2, <2>3
<1>10. CASE Place = 21
  <2>1. Turned /\ regs.A = ToByte(F0 + F1)
    BY <1>1, <1>10 DEF Holds
  <2>2. F0' = F0 /\ F1' = F1 /\ F2' = regs.A
    BY <1>2, <1>3, <1>7, <1>10 DEF F0, F1, F2
  <2>3. Turned'
    BY <1>6, <1>8, <1>9, <2>1, <2>2 DEF Turned
  <2>4. Holds(Place)'
    BY <1>5, <1>10, <2>1, <2>2, <2>3 DEF Holds
  <2> QED BY <1>5, <1>7, <1>10, <2>4 DEF RomInv
<1>11. CASE Place = 25
  <2>1. Turned /\ F2 = ToByte(F0 + F1) /\ regs.A = F1
    BY <1>1, <1>11 DEF Holds
  <2>2. F0' = F1 /\ F2' = F2
    BY <1>2, <1>3, <1>7, <1>11, <2>1 DEF F0, F1, F2
  <2>3. Stepped'
    BY <1>6, <1>8, <1>9, <2>1, <2>2 DEF Turned, Stepped, Before
  <2>4. Holds(Place)'
    BY <1>5, <1>11, <2>3 DEF Holds
  <2> QED BY <1>5, <1>7, <1>11, <2>4 DEF RomInv
<1>12. CASE Place = 29
  <2>1. Stepped /\ regs.A = F2
    BY <1>1, <1>12 DEF Holds
  <2>2. F0' = F0 /\ F1' = F2
    BY <1>2, <1>3, <1>7, <1>12, <2>1 DEF F0, F1, F2
  <2>3. Ready'
    <3>1. /\ x >= 1 /\ Entered(x - 1) => Entry(x - 1) = F0
          /\ x >= 2 /\ Entered(x - 1) /\ Entered(x - 2) => F2 = ToByte(Entry(x - 2) + F0)
      BY <1>8, <2>1 DEF Stepped, Before
    <3> QED BY <1>6, <1>8, <1>9, <2>2, <3>1, ByteRange DEF Ready, Before
  <2>4. Holds(Place)'
    BY <1>5, <1>12, <2>3 DEF Holds
  <2> QED BY <1>5, <1>7, <1>12, <2>4 DEF RomInv
<1> QED BY <1>10, <1>11, <1>12

\* The place where the table is written: the entry is the sum of the two before it.
LEMMA EnterStep ==
  ASSUME Inv, RomInv, Next, state = "EXECUTE", Place = 12
  PROVE  RomInv'
<1>1. CodeFrom(3) /\ Ready /\ regs.A = F1
  BY DEF RomInv, Holds
<1>2. PICK x \in 0 .. 255 : x = regs.X
  BY DEF Inv, Sound, TypeOK, Registers, Byte
<1>3. Impl = "store_a_instr" /\ FirstOperand(Mode) = TABLE + x /\ regs.IP = 15
  BY <1>2, Disassembly DEF Executes
<1>4. Leaves(Store(memory.cells, TABLE + x, regs.A), regs.A, x, Bit(regs.P, CARRY), regs.IP)
  <2>1. TABLE + x < IO_START
    BY <1>2 DEF TABLE, IO_START
  <2> QED BY <1>2, <1>3, <2>1, StoreLeaves
<1>5. Place' = 15 /\ last_trap' = "OK"
  BY <1>3, <1>4, Arrival
<1>6. regs'.X = x /\ memory'.cells = Store(memory.cells, TABLE + x, F1)
  BY <1>1, <1>4 DEF Leaves
<1>7. /\ DOMAIN memory'.cells = DOMAIN memory.cells \cup {TABLE + x}
      /\ memory'.cells[TABLE + x] = F1
      /\ \A a \in DOMAIN memory.cells : a # TABLE + x => memory'.cells[a] = memory.cells[a]
  BY <1>6 DEF Store
<1>8. CodeFrom(3)' /\ F0' = F0 /\ F1' = F1
  <2>1. \A a \in 0 .. 33 : a # TABLE + x
    BY <1>2 DEF TABLE
  <2> QED BY <1>1, <1>7, <2>1 DEF CodeFrom, F0, F1
<1>9. /\ Entered(x)' /\ Entry(x)' = F1
      /\ \A i \in Int : i # x => /\ Entered(i)' <=> Entered(i)
                                 /\ Entered(i) => Entry(i)' = Entry(i)
  <2>1. \A i \in Int : i # x => TABLE + i # TABLE + x
    BY <1>2 DEF TABLE
  <2> QED BY <1>7, <2>1 DEF Entered, Entry
<1>10. SumsExcept({x + 1, x + 2})'
  <2> SUFFICES ASSUME NEW i \in (2 .. \hFF) \ {x + 1, x + 2},
                      Entered(i - 2)', Entered(i - 1)', Entered(i)'
               PROVE  Entry(i)' = ToByte(Entry(i - 1)' + Entry(i - 2)')
    BY <1>6 DEF SumsExcept
  <2>1. /\ i \in Int /\ i - 1 \in Int /\ i - 2 \in Int /\ i >= 2
        /\ i # x + 1 /\ i - 1 # x /\ i - 2 # x
    BY <1>2
  <2>2. /\ Entered(i - 1) /\ Entered(i - 2)
        /\ Entry(i - 1)' = Entry(i - 1) /\ Entry(i - 2)' = Entry(i - 2)
    BY <1>9, <2>1
  <2>3. CASE i = x
    <3>1. Entry(x - 1) = F0 /\ F1 = ToByte(Entry(x - 2) + F0)
      BY <1>1, <1>2, <2>1, <2>2, <2>3 DEF Ready, Before
    <3>2. Entry(x - 2) + F0 = F0 + Entry(x - 2)
      <4>1. \A j \in Int : Entered(j) => Entry(j) \in Int
        <5>1. memory.cells \in [DOMAIN memory.cells -> Byte]
          BY DEF Inv, Sound, TypeOK, IsMemory, IsCells
        <5> QED BY <5>1, ByteRange DEF Entered, Entry
      <4> QED BY <2>1, <2>2, <2>3, <3>1, <4>1
    <3> QED BY <1>9, <2>2, <2>3, <3>1, <3>2
  <2>4. CASE i # x
    <3>1. Entered(i) /\ Entry(i)' = Entry(i)
      BY <1>9, <2>1, <2>4
    <3>2. Entry(i) = ToByte(Entry(i - 1) + Entry(i - 2))
      BY <1>1, <1>2, <2>1, <2>2, <2>4, <3>1 DEF Ready, Before, SumsExcept
    <3> QED BY <2>2, <3>1, <3>2
  <2> QED BY <2>3, <2>4
<1>11. Stored'
  <2>1. x >= 1 /\ Entered(x - 1)' => Entry(x - 1)' = F0
    BY <1>1, <1>2, <1>9 DEF Ready, Before
  <2> QED BY <1>6, <1>8, <1>9, <1>10, <2>1 DEF Stored
<1>12. Holds(Place)'
  BY <1>5, <1>11 DEF Holds
<1> QED BY <1>5, <1>8, <1>12 DEF RomInv

\* The place where X is counted up, and wraps.
LEMMA CountStep ==
  ASSUME Inv, RomInv, Next, state = "EXECUTE", Place = 15
  PROVE  RomInv'
<1>1. CodeFrom(3) /\ Stored
  BY DEF RomInv, Holds
<1>2. PICK x \in 0 .. 255 : x = regs.X
  BY DEF Inv, Sound, TypeOK, Registers, Byte
<1>3. Impl = "inc_x_instr" /\ regs.IP = 16
  BY Disassembly DEF Executes
<1>4. Leaves(memory.cells, regs.A, ToByte(regs.X + 1), Bit(regs.P, CARRY), regs.IP)
  BY <1>3, StepLeaves
<1>5. Place' = 16 /\ last_trap' = "OK"
  BY <1>3, <1>4, Arrival
<1>6. PICK y \in 0 .. 255 : y = regs'.X /\ y = IF x = 255 THEN 0 ELSE x + 1
  BY <1>2, <1>4, SMTT(30) DEF Leaves, ToByte
<1>7. F0' = F0 /\ F1' = F1 /\ CodeFrom(3)' /\ \A i : (Entered(i)' <=> Entered(i)) /\ Entry(i)' = Entry(i)
  BY <1>1, <1>4 DEF Leaves, F0, F1, CodeFrom, Entered, Entry
<1>8. SumsExcept({y, y + 1})'
  <2> SUFFICES ASSUME NEW i \in (2 .. \hFF) \ {y, y + 1},
                      Entered(i - 2)', Entered(i - 1)', Entered(i)'
               PROVE  Entry(i)' = ToByte(Entry(i - 1)' + Entry(i - 2)')
    BY DEF SumsExcept
  <2>1. i \in (2 .. \hFF) \ {x + 1, x + 2}
    BY <1>2, <1>6
  <2>2. Entered(i - 2) /\ Entered(i - 1) /\ Entered(i)
    BY <1>7
  <2>3. Entry(i) = ToByte(Entry(i - 1) + Entry(i - 2))
    BY <1>1, <1>2, <2>1, <2>2 DEF Stored, SumsExcept
  <2> QED BY <1>7, <2>3
<1>9. y >= 1 => Entered(y - 1)' /\ Entry(y - 1)' = F1'
  <2>1. y >= 1 => y - 1 = x
    BY <1>2, <1>6
  <2> QED BY <1>1, <1>2, <1>7, <2>1 DEF Stored
<1>10. y >= 2 /\ Entered(y - 2)' => Entry(y - 2)' = F0'
  <2>1. y >= 2 => x >= 1 /\ y - 2 = x - 1
    BY <1>2, <1>6
  <2> QED BY <1>1, <1>2, <1>7, <2>1 DEF Stored
<1>11. Turned'
  BY <1>6, <1>8, <1>9, <1>10 DEF Turned
<1>12. Holds(Place)'
  BY <1>5, <1>11 DEF Holds
<1> QED BY <1>5, <1>7, <1>12 DEF RomInv

-----------------------------------------------------------------------------
(* The theorem.                                                            *)

\* The reset vector of the image is 0, so the machine starts at the first place.
LEMMA InitRom ==
  ASSUME Inv, Init, memory.cells = Fibonacci
  PROVE  RomInv
<1>1. state = "FETCH" /\ last_trap = "OK" /\ memory.size = MEMORY_SIZE
  BY DEF Init
<1>2. regs.IP = MakeWord(Peek(memory, RESET_VECTOR_HIGH), Peek(memory, RESET_VECTOR_LOW))
  BY DEF Init
<1>3. Peek(memory, RESET_VECTOR_HIGH) = 0 /\ Peek(memory, RESET_VECTOR_LOW) = 0
  BY <1>1, FibonacciImage DEF Peek, ByteAt, Accessible, MEMORY_SIZE, RESET_VECTOR_HIGH,
                              RESET_VECTOR_LOW
<1>4. Place = 0
  BY <1>1, <1>2, <1>3 DEF Place, MakeWord
<1>5. NoEntries
  <2> SUFFICES ASSUME NEW i \in Byte, TABLE + i \in DOMAIN memory.cells PROVE FALSE
    BY DEF NoEntries, Entered
  <2>1. TABLE + i \in 0 .. 33 \/ TABLE + i \in {\hFFFC, \hFFFD}
    BY FibonacciImage
  <2> QED BY <2>1, ByteRange DEF TABLE
<1>6. CodeFrom(0)
  BY FibonacciImage DEF CodeFrom
<1> QED BY <1>1, <1>4, <1>5, <1>6 DEF RomInv, Holds

\* Each cycle keeps the invariant of the program.
LEMMA NextRom == Inv /\ RomInv /\ [Next]_vars => RomInv'
<1> SUFFICES ASSUME Inv, RomInv, [Next]_vars PROVE RomInv'
  OBVIOUS
<1>1. CASE Fetch \/ Decode \/ FetchOperand
  BY <1>1, CyclesBefore
<1>2. CASE Execute
  <2>1. Next /\ state = "EXECUTE"
    BY <1>2, ExecuteRuns DEF Execute, Next, Complete, Running
  <2>2. Place \in Starts
    BY ProgramPlace
  <2> QED BY <2>1, <2>2, SetUp, LoadsAndSums, PairSteps, EnterStep, CountStep DEF Starts
<1>3. CASE UNCHANGED vars
  <2>1. /\ last_trap' = last_trap /\ memory' = memory /\ regs' = regs /\ state' = state
        /\ operands_buffer_index' = operands_buffer_index
    BY <1>3 DEF vars
  <2>2. Place' = Place
    BY <2>1 DEF Place
  <2> QED BY <2>1, <2>2, SamePlace DEF RomInv
<1> QED BY <1>1, <1>2, <1>3 DEF Next, Execute

\* What the run checks of the table follows at every place.
LEMMA TableFollows ==
  ASSUME Inv, RomInv
  PROVE  FibonacciTable
<1>1. PICK x \in 0 .. 255 : x = regs.X
  BY DEF Inv, Sound, TypeOK, Registers, Byte
<1>2. \A i \in 2 .. \hFF : i \notin x .. x + 2 /\ Entered(i - 2) /\ Entered(i - 1) /\ Entered(i)
        => Entry(i) = ToByte(Entry(i - 1) + Entry(i - 2))
  <2>1. CASE NoEntries
    <3>1. \A i \in 2 .. \hFF : i \in Byte
      BY ByteRange
    <3> QED BY <2>1, <3>1 DEF NoEntries
  <2>2. CASE SumsExcept({x, x + 1})
    BY <2>2 DEF SumsExcept
  <2>3. CASE SumsExcept({x + 1, x + 2})
    BY <2>3 DEF SumsExcept
  <2>4. NoEntries \/ SumsExcept({x, x + 1}) \/ SumsExcept({x + 1, x + 2})
    BY <1>1 DEF RomInv, Holds, Ready, Stored, Turned, Stepped, Before
  <2> QED BY <2>1, <2>2, <2>3, <2>4
<1>3. \A i \in Int : TABLE + i - 1 = TABLE + (i - 1) /\ TABLE + i - 2 = TABLE + (i - 2)
  BY DEF TABLE
<1> QED BY <1>1, <1>2, <1>3 DEF FibonacciTable, Entered, Entry

\* Once the machine is started from the image, the table is right in every state: the
\* carry, the flags, the index, the wraps and the jump do what the program needs.
THEOREM FibonacciCorrect == Spec /\ memory.cells = Fibonacci => []FibonacciTable
<1>1. Inv /\ Init /\ memory.cells = Fibonacci => RomInv
  BY InitRom
<1>2. Inv /\ RomInv => FibonacciTable
  BY TableFollows
<1> QED BY <1>1, <1>2, NextRom, Invariance, PTL DEF Spec

\* The program never traps, so emulator_run never leaves its loop for it.
THEOREM FibonacciNeverTraps == Spec /\ memory.cells = Fibonacci => [](last_trap = "OK")
<1>1. Inv /\ Init /\ memory.cells = Fibonacci => RomInv
  BY InitRom
<1>2. RomInv => last_trap = "OK"
  BY DEF RomInv
<1> QED BY <1>1, <1>2, NextRom, Invariance, PTL DEF Spec
=============================================================================
