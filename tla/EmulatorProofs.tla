--------------------------- MODULE EmulatorProofs ---------------------------
(***************************************************************************)
(* Proofs of the invariants of Emulator: whatever the program, the picture *)
(* on the terminal is the one memory holds.  CpuProofs has what the cycles *)
(* keep; what is added here is that a cycle which changes a text page asks *)
(* for a redraw and does not trap.                                         *)
(***************************************************************************)
EXTENDS Emulator, CpuProofs

-----------------------------------------------------------------------------
(* The text pages.                                                         *)

\* The addresses of both text pages, which adjoin.
Text == TEXT_START_PRIM .. TEXT_END_SEC

\* The memory n shows what m shows.
SameText(m, n) ==
  /\ n.size = m.size
  /\ \A a \in Text : ByteAt(n, a) = ByteAt(m, a)

\* apple2_memory_write leaves the text pages alone or asks for a redraw.
LEMMA WriteText ==
  ASSUME NEW m, IsMemory(m), NEW d \in AppleData, NEW address \in Word, NEW value
  PROVE  \/ SameText(m, MemoryAfterWrite(m, address, value))
         \/ DataAfterWrite(m, d, address).term_render_request
<1>1. CASE Accessible(m, address) /\ address \in Text
  <2>1. \/ address \in TEXT_START_PRIM .. TEXT_END_PRIM
        \/ address \in TEXT_START_SEC .. TEXT_END_SEC
    BY <1>1 DEF Text, TEXT_START_PRIM, TEXT_END_PRIM, TEXT_START_SEC, TEXT_END_SEC
  <2> QED BY <1>1, <2>1 DEF DataAfterWrite, AppleData
<1>2. CASE ~(Accessible(m, address) /\ address \in Text)
  <2>1. CASE Accessible(m, address) /\ address < IO_START
    <3> DEFINE n == [m EXCEPT !.cells = Store(m.cells, address, value)]
    <3>1. MemoryAfterWrite(m, address, value) = n
      BY <2>1 DEF MemoryAfterWrite
    <3>2. n = [cells |-> Store(m.cells, address, value), size |-> m.size]
      BY DEF IsMemory
    <3>3. \A a \in Text : ByteAt(n, a) = ByteAt(m, a)
      BY <1>2, <2>1, <3>2 DEF ByteAt, Store
    <3> QED BY <3>1, <3>2, <3>3 DEF SameText
  <2>2. CASE ~(Accessible(m, address) /\ address < IO_START)
    BY <2>2 DEF MemoryAfterWrite, SameText
  <2> QED BY <2>1, <2>2
<1> QED BY <1>1, <1>2

\* Every place of the screen is shown from an address in the text pages.
LEMMA RowsInText ==
  ASSUME NEW page \in {"PRIM", "SEC"}, NEW place \in Rows \X Cols
  PROVE  RowAddress(PageBase(page), place[1]) + place[2] \in Text
<1>1. /\ place[1] \in 0 .. 23 /\ place[2] \in 0 .. 39
  BY DEF Rows, Cols, ROWS_COUNT, COLS_COUNT
<1>2. \A row \in 0 .. 23, col \in 0 .. 39 : RowAddress(PageBase(page), row) + col \in Text
  BY SMTT(30) DEF RowAddress, PageBase, Text, TEXT_START_PRIM, TEXT_END_SEC, TEXT_START_SEC
<1> QED BY <1>1, <1>2

\* What render draws depends on the text pages only.
LEMMA PictureSame ==
  ASSUME NEW m, NEW n, SameText(m, n), NEW page \in {"PRIM", "SEC"}
  PROVE  Picture(n, page) = Picture(m, page)
<1> DEFINE address(place) == RowAddress(PageBase(page), place[1]) + place[2]
<1>1. \A place \in Rows \X Cols : address(place) \in Text
  BY RowsInText
<1>2. \A a \in Text : Peek(n, a) = Peek(m, a) /\ Accessible(n, a) = Accessible(m, a)
  BY DEF SameText, Peek, Accessible
<1>3. \A place \in Rows \X Cols :
        Symbol(Peek(n, address(place)), Accessible(n, address(place)))
          = Symbol(Peek(m, address(place)), Accessible(m, address(place)))
  BY <1>1, <1>2
<1> QED BY <1>3, Zenon DEF Picture

\* render draws printable characters, whatever the bytes.
LEMMA PictureType ==
  ASSUME NEW m, IsMemory(m), NEW page \in {"PRIM", "SEC"}
  PROVE  Picture(m, page) \in [Rows \X Cols -> Printable]
<1> DEFINE address(place) == RowAddress(PageBase(page), place[1]) + place[2]
<1>1. \A place \in Rows \X Cols : address(place) \in Word
  <2>1. \A a \in Text : a \in Word
    BY DEF Text, TEXT_START_PRIM, TEXT_END_SEC, Word
  <2> QED BY <2>1, RowsInText
<1>2. \A b \in Byte, success \in BOOLEAN : Symbol(b, success) \in Printable
  BY DEF Symbol, Byte, Printable, QUESTION, BLANK
<1>3. \A a \in Word : Peek(m, a) \in Byte /\ Accessible(m, a) \in BOOLEAN
  BY ByteAtType DEF Accessible
<1> QED BY <1>1, <1>2, <1>3, Zenon DEF Picture

-----------------------------------------------------------------------------
(* What a cycle does to the text pages.                                    *)

\* Two changes that leave the text pages alone leave them alone together.
LEMMA SameTextTransitive ==
  ASSUME NEW m, NEW n, NEW o, SameText(m, n), SameText(n, o)
  PROVE  SameText(m, o)
BY DEF SameText

\* A push, trap or not, writes to the stack page at most.
LEMMA PushText ==
  ASSUME NEW s, IsStack(s), NEW value
  PROVE  SameText(s.memory, Push(s, value).memory)
<1>1. /\ s = [SP |-> s.SP, memory |-> s.memory, trap |-> s.trap, value |-> s.value]
      /\ s.SP \in Byte /\ IsMemory(s.memory)
  BY DEF IsStack, SameAboveRAM
<1> DEFINE address == STACK_LOWEST_ADDRESS + s.SP
           after == MemoryAfterWrite(s.memory, address, value)
<1>2. address \in Word /\ address \notin Text
  <2>1. \A sp \in Byte : STACK_LOWEST_ADDRESS + sp \notin Text
    <3>1. TEXT_START_PRIM \in Int /\ TEXT_END_SEC \in Int
      BY DEF TEXT_START_PRIM, TEXT_END_SEC
    <3>2. \A a \in Text : TEXT_START_PRIM <= a
      BY <3>1 DEF Text
    <3>3. \A sp \in Byte : STACK_LOWEST_ADDRESS + sp < TEXT_START_PRIM
      BY DEF Byte, STACK_LOWEST_ADDRESS, TEXT_START_PRIM
    <3>4. \A a \in Text : ~(a < TEXT_START_PRIM)
      BY <3>1, <3>2 DEF Text
    <3> QED BY <3>3, <3>4
  <2> QED BY <1>1, <2>1, StackPage
<1> HIDE DEF address
<1>3. SameText(s.memory, after)
  BY <1>1, <1>2 DEF SameText, ByteAt, MemoryAfterWrite, Store, IsMemory
<1>4. CASE s.SP = FULL_STACK_PTR
  BY <1>1, <1>4 DEF Push, SameText
<1>5. CASE s.SP # FULL_STACK_PTR
  <2>1. Push(s, value).memory = after
    BY <1>1, <1>5 DEF Push, address
  <2> QED BY <1>3, <2>1
<1> QED BY <1>4, <1>5

\* A pull, trap or not, writes nothing.
LEMMA PullText ==
  ASSUME NEW s, IsStack(s)
  PROVE  Pull(s).memory = s.memory
<1>1. s = [SP |-> s.SP, memory |-> s.memory, trap |-> s.trap, value |-> s.value]
  BY DEF IsStack
<1> QED BY <1>1 DEF Pull

\* PHA, PHP, JSR and BRK, which may trap after a write, leave the text pages alone.
LEMMA PushesText ==
  ASSUME Sound, PushRegister \/ JumpSubroutine \/ ForceInterrupt
  PROVE  SameText(memory, memory')
<1>0. Stack.memory = memory /\ IsStack(Stack)
  BY StackType DEF Stack
<1>1. regs \in Registers /\ regs.P \in Byte /\ regs.IP \in Word
  BY DEF Sound, TypeOK, Registers
<1>2. CASE PushRegister
  <2>1. PICK impl \in DOMAIN Pushes : memory' = Push(Stack, regs[Pushes[impl]]).memory
    BY <1>2 DEF PushRegister, UseStack
  <2> QED BY <1>0, <2>1, PushText
<1>3. CASE JumpSubroutine
  <2> DEFINE w == ToWord(regs.IP - 1)
             one == Push(Stack, High(w))
             two == Push(one, Low(w))
  <2>1. memory' = two.memory
    BY <1>3 DEF JumpSubroutine, UseStack
  <2>2. High(w) \in Byte
    <3>1. regs.IP - 1 \in Int
      BY <1>1, WordRange
    <3> QED BY <3>1, WordParts
  <2> HIDE DEF w
  <2>3. IsStack(one)
    BY <1>0, <2>2, PushType
  <2>4. SameText(memory, one.memory)
    BY <1>0, PushText
  <2> HIDE DEF one
  <2>5. SameText(one.memory, two.memory)
    BY <2>3, PushText
  <2> HIDE DEF two
  <2> QED BY <2>1, <2>4, <2>5, SameTextTransitive
<1>4. CASE ForceInterrupt
  <2> DEFINE one == Push(Stack, High(regs.IP))
             two == Push(one, Low(regs.IP) % 16)
             three == Push(two, regs.P)
  <2>1. memory' = three.memory
    BY <1>4 DEF ForceInterrupt, PushWord, UseStack
  <2>2. High(regs.IP) \in Byte /\ Low(regs.IP) % 16 \in Byte
    <3>1. \A b \in Byte : b % 16 \in Byte
      BY DEF Byte
    <3> QED BY <1>1, <3>1, WordParts
  <2>3. IsStack(one) /\ SameText(memory, one.memory)
    BY <1>0, <2>2, PushType, PushText
  <2> HIDE DEF one
  <2>4. IsStack(two) /\ SameText(one.memory, two.memory)
    BY <2>2, <2>3, PushType, PushText
  <2> HIDE DEF two
  <2>5. SameText(two.memory, three.memory)
    BY <2>4, PushText
  <2> HIDE DEF three
  <2> QED BY <2>1, <2>3, <2>4, <2>5, SameTextTransitive
<1> QED BY <1>2, <1>3, <1>4

\* PLA, PLP, RTS and RTI write nothing.
LEMMA PullsText ==
  ASSUME Sound, PullRegister \/ ReturnFromSubroutine \/ ReturnFromInterrupt
  PROVE  memory' = memory
<1> DEFINE one == Pull(Stack)
           two == Pull(one)
           three == Pull(two)
<1>1. IsStack(one) /\ one.memory = memory
  BY StackType, PullType, PullText DEF Stack
<1>2. memory' = one.memory \/ memory' = two.memory \/ memory' = three.memory
  BY DEF PullRegister, ReturnFromSubroutine, ReturnFromInterrupt, UseStack
<1> HIDE DEF one
<1>3. IsStack(two) /\ two.memory = memory
  BY <1>1, PullType, PullText
<1> HIDE DEF two
<1>4. three.memory = memory
  BY <1>3, PullText
<1> QED BY <1>1, <1>2, <1>3, <1>4

\* The instructions that store anywhere do not trap, and ask for a redraw if they
\* change a text page.
LEMMA StoresText ==
  ASSUME Sound, last_trap = "OK", StoreRegister \/ StepMemory \/ Shift
  PROVE  \/ SameText(memory, memory')
         \/ ap_data'.term_render_request /\ last_trap' = "OK"
<1>1. /\ IsMemory(memory) /\ ap_data \in AppleData
      /\ FirstOperand(Mode) \in Word
  BY FirstOperandType DEF Sound, TypeOK
<1>2. CASE StoreRegister
  <2>1. PICK value :
          /\ memory' = MemoryAfterWrite(memory, FirstOperand(Mode), value)
          /\ ap_data' = DataAfterWrite(memory, ap_data, FirstOperand(Mode))
          /\ last_trap' = last_trap
    BY <1>2 DEF StoreRegister
  <2> QED BY <1>1, <2>1, WriteText
<1>3. ASSUME NEW operand \in RealOperands, NEW value, NEW p, WriteBack(operand, value, p)
      PROVE  \/ SameText(memory, memory')
             \/ ap_data'.term_render_request /\ last_trap' = "OK"
  <2>1. operand.data \in AppleData /\ operand.success
    BY RealOperandsType DEF Sound
  <2>2. /\ memory' = MemoryAfterWrite(memory, FirstOperand(Mode), value)
        /\ ap_data' = DataAfterWrite(memory, operand.data, FirstOperand(Mode))
        /\ last_trap' = last_trap
    BY <1>3, <2>1 DEF WriteBack
  <2> QED BY <1>1, <2>1, <2>2, WriteText
<1>4. CASE StepMemory
  <2>1. PICK operand \in RealOperands : \E value, p : WriteBack(operand, value, p)
    BY <1>4 DEF StepMemory
  <2> QED BY <1>3, <2>1
<1>5. CASE Shift
  <2>1. \/ \E operand \in RealOperands : \E value, p : WriteBack(operand, value, p)
        \/ \E r : SetRegisters(r)
    BY <1>5 DEF Shift
  <2>2. CASE \E operand \in RealOperands : \E value, p : WriteBack(operand, value, p)
    BY <1>3, <2>2
  <2>3. CASE \E r : SetRegisters(r)
    BY <2>3 DEF SetRegisters, SameText
  <2> QED BY <2>1, <2>2, <2>3
<1> QED BY <1>2, <1>4, <1>5

\* No other cycle writes to memory.
LEMMA OthersText ==
  ASSUME \/ Fetch \/ Decode \/ FetchOperand \/ Nop \/ LoadRegister
         \/ TransferRegisters \/ AddToAccumulator \/ SubFromAccumulator \/ Logical
         \/ TestBit \/ Compare \/ StepRegister \/ ChangeFlag \/ BranchOnFlag
         \/ Jump \/ JumpIndirect
  PROVE  memory' = memory
<1>1. \A r : SetRegisters(r) => memory' = memory
  BY DEF SetRegisters
<1>2. \A operand, r : UseOperand(operand, r) => memory' = memory
  BY DEF UseOperand
<1>3. Fetch \/ Decode \/ FetchOperand \/ Nop \/ JumpIndirect => memory' = memory
  BY DEF Fetch, Decode, FetchOperand, Nop, JumpIndirect
<1>4. TransferRegisters \/ StepRegister \/ ChangeFlag \/ BranchOnFlag \/ Jump
        => memory' = memory
  BY <1>1, Zenon DEF TransferRegisters, StepRegister, ChangeFlag, BranchOnFlag, Jump
<1>5. LoadRegister \/ AddToAccumulator \/ SubFromAccumulator \/ Logical \/ TestBit \/ Compare
        => memory' = memory
  BY <1>2, Zenon DEF LoadRegister, AddToAccumulator, SubFromAccumulator, Logical, TestBit, Compare
<1> QED BY <1>3, <1>4, <1>5

\* A cycle that changes a text page asks for a redraw and does not trap.
LEMMA StepText ==
  ASSUME Sound, last_trap = "OK", Next
  PROVE  \/ SameText(memory, memory')
         \/ ap_data'.term_render_request /\ last_trap' = "OK"
<1>1. memory' = memory => SameText(memory, memory')
  BY DEF SameText
<1> QED BY <1>1, PushesText, PullsText, StoresText, OthersText DEF Next

\* The first cycle is a fetch, which does not trap and keeps the request that
\* load_computer_data makes.
LEMMA FirstCycle ==
  ASSUME Sound, OnlyProgramTraps', last_trap = "OK", Next, state = "FETCH"
  PROVE  /\ last_trap' = "OK"
         /\ ap_data'.term_render_request = ap_data.term_render_request
<1>1. ~Decode /\ ~FetchOperand
  BY DEF Decode, FetchOperand, Running
<1>2. ~Execute
  BY Zenon DEF Execute, Nop, LoadRegister, StoreRegister, TransferRegisters,
     AddToAccumulator, SubFromAccumulator, Logical, TestBit, Compare,
     StepMemory, Shift, StepRegister, ChangeFlag, BranchOnFlag,
     PushRegister, PullRegister, JumpSubroutine, ReturnFromSubroutine,
     ForceInterrupt, ReturnFromInterrupt, Jump, JumpIndirect, Executing, Running
<1>3. Fetch
  BY <1>1, <1>2 DEF Next, Execute
<1>4. PICK chr \in Stdin :
        LET fetched == MemoryRead(memory, ap_data, regs.IP, chr)
        IN  /\ ap_data' = fetched.data
            /\ last_trap' = IF fetched.success THEN last_trap ELSE "SEGMENTATION_FAULT"
  BY <1>3 DEF Fetch
<1>5. MemoryRead(memory, ap_data, regs.IP, chr).data.term_render_request
        = ap_data.term_render_request
  BY DEF MemoryRead, DataAfterRead, Sound, TypeOK, AppleData
<1> QED BY <1>4, <1>5 DEF OnlyProgramTraps

-----------------------------------------------------------------------------
(* The invariant.                                                          *)

\* A picture once drawn is current, but for the redraw that is asked for.
PictureKept ==
  screen.page # "NONE" /\ (phase = "render" => ~ap_data.term_render_request) =>
    screen.picture = Picture(memory, screen.page)

\* Before the first rendering there is a request, and at most a fetch was done.
RequestPending ==
  screen.page = "NONE" =>
    /\ ap_data.term_render_request
    /\ phase = "render" \/ (phase = "cycle" /\ state = "FETCH")

\* What holds of the loop: Inv, which renderings keep as well, and the above.
EmulatorInv ==
  /\ Inv
  /\ EmulatorTypeOK
  /\ PictureKept
  /\ RequestPending
  /\ phase # "ended" => last_trap = "OK"

\* The loop starts so.
LEMMA EmulatorInitInv == EmulatorInit => EmulatorInv
<1> SUFFICES ASSUME EmulatorInit PROVE EmulatorInv
  OBVIOUS
<1>1. Inv
  BY InitInv DEF EmulatorInit
<1>2. screen.picture \in [Rows \X Cols -> Printable]
  <2>1. BLANK \in Printable
    BY DEF BLANK, Printable
  <2> QED BY <2>1 DEF EmulatorInit, Nothing
<1>3. screen.page = "NONE" /\ phase = "cycle" /\ state = "FETCH" /\ last_trap = "OK"
  BY DEF EmulatorInit, Init, Nothing
<1>4. ap_data.term_render_request
  BY PowerOnAssumption DEF EmulatorInit, Init, AppleData
<1> QED BY <1>1, <1>2, <1>3, <1>4 DEF EmulatorInv, EmulatorTypeOK, PictureKept, RequestPending

\* cpu_do_cycle keeps the invariant.
LEMMA CycleInv == EmulatorInv /\ Cycle => EmulatorInv'
<1> SUFFICES ASSUME EmulatorInv, Cycle PROVE EmulatorInv'
  OBVIOUS
<1>1. Inv /\ Inv' /\ last_trap = "OK" /\ Next /\ screen' = screen
  BY NextInv DEF EmulatorInv, Cycle
<1>2. phase' = IF last_trap' = "OK" THEN "render" ELSE "ended"
  BY DEF Cycle
<1>3. EmulatorTypeOK'
  BY <1>1, <1>2 DEF EmulatorInv, EmulatorTypeOK
<1>4. PictureKept'
  <2> SUFFICES ASSUME screen.page # "NONE", phase' = "render" => ~ap_data'.term_render_request
               PROVE  screen.picture = Picture(memory', screen.page)
    BY <1>1 DEF PictureKept
  <2>1. screen.picture = Picture(memory, screen.page) /\ screen.page \in {"PRIM", "SEC"}
    BY DEF Cycle, EmulatorInv, PictureKept, EmulatorTypeOK
  <2>2. SameText(memory, memory')
    BY <1>1, <1>2, StepText DEF Inv
  <2> QED BY <2>1, <2>2, PictureSame
<1>5. RequestPending'
  <2> SUFFICES ASSUME screen.page = "NONE" PROVE ap_data'.term_render_request /\ phase' = "render"
    BY <1>1 DEF RequestPending
  <2>1. ap_data.term_render_request /\ state = "FETCH"
    BY DEF Cycle, EmulatorInv, RequestPending
  <2> QED BY <1>1, <1>2, <2>1, FirstCycle DEF Inv, Sound
<1> QED BY <1>1, <1>2, <1>3, <1>4, <1>5 DEF EmulatorInv

\* apple2_render keeps the invariant.
LEMMA RenderInv == EmulatorInv /\ Render => EmulatorInv'
<1> SUFFICES ASSUME EmulatorInv, Render PROVE EmulatorInv'
  OBVIOUS
<1>1. /\ Inv /\ EmulatorTypeOK /\ PictureKept /\ RequestPending
      /\ phase = "render" /\ phase' = "cycle" /\ last_trap = "OK"
  BY DEF EmulatorInv, Render
<1>2. UNCHANGED <<regs, reg_IR, state, remaining_bytes, operands_buffer,
                  operands_buffer_index, last_trap, memory>>
  BY DEF Render
<1>3. ap_data \in AppleData /\ IsMemory(memory)
  BY <1>1 DEF Inv, Sound, TypeOK
<1>4. Inv' /\ EmulatorTypeOK' /\ PictureKept' /\ screen'.page # "NONE"
  <2>1. ap_data' \in AppleData
    BY <1>3 DEF Render, Redraw, AppleData
  <2>2. Inv'
    BY <1>1, <1>2, <2>1
       DEF Inv, Sound, TypeOK, OnlyProgramTraps, PipelineConsistent, BetweenInstructions,
           OperandsPending, OperandsComplete, InstructionIsInMemory, Mode
  <2>3. CASE ap_data.term_render_request
    <3>1. screen' = [page |-> ap_data.page, picture |-> Picture(memory, ap_data.page)]
      BY <2>3 DEF Render, Redraw
    <3>2. ap_data.page \in {"PRIM", "SEC"}
      BY <1>3 DEF AppleData
    <3>3. Picture(memory, ap_data.page) \in [Rows \X Cols -> Printable]
      BY <1>3, <3>2, PictureType
    <3> QED BY <1>1, <1>2, <2>2, <3>1, <3>2, <3>3 DEF EmulatorTypeOK, PictureKept
  <2>4. CASE ~ap_data.term_render_request
    <3>1. screen' = screen
      BY <2>4 DEF Render
    <3> QED BY <1>1, <1>2, <2>2, <2>4, <3>1 DEF EmulatorTypeOK, PictureKept, RequestPending
  <2> QED BY <2>3, <2>4
<1> QED BY <1>1, <1>2, <1>4 DEF EmulatorInv, RequestPending

\* Every turn of the loop keeps the invariant.
LEMMA EmulatorNextInv == EmulatorInv /\ [EmulatorNext]_emulatorVars => EmulatorInv'
<1>1. EmulatorInv /\ UNCHANGED emulatorVars => EmulatorInv'
  BY NextInv, Zenon DEF EmulatorInv, EmulatorTypeOK, PictureKept, RequestPending, emulatorVars, vars
<1> QED BY <1>1, CycleInv, RenderInv DEF EmulatorNext

\* The invariant holds in every reachable state of the loop.
THEOREM EmulatorInvariance == EmulatorSpec => []EmulatorInv
BY EmulatorInitInv, EmulatorNextInv, PTL DEF EmulatorSpec

\* Nothing but printable characters is drawn.
THEOREM EmulatorTypeCorrect == EmulatorSpec => []EmulatorTypeOK
<1>1. EmulatorInv => EmulatorTypeOK
  BY DEF EmulatorInv
<1> QED BY <1>1, EmulatorInvariance, PTL

\* Between renderings, and after the end, the terminal shows what memory holds in
\* the page drawn last.
THEOREM ScreenShowsMemory == EmulatorSpec => []ScreenCurrent
<1>1. EmulatorInv => ScreenCurrent
  BY DEF EmulatorInv, PictureKept, ScreenCurrent
<1> QED BY <1>1, EmulatorInvariance, PTL

\* The loop never ends before the first rendering.
THEOREM AlwaysDrawn == EmulatorSpec => []DrawnBeforeEnd
<1>1. EmulatorInv => DrawnBeforeEnd
  BY DEF EmulatorInv, RequestPending, DrawnBeforeEnd
<1> QED BY <1>1, EmulatorInvariance, PTL

-----------------------------------------------------------------------------
(* Liveness, as far as it can be said without ENABLED: a request is drawn at *)
(* once.                                                                   *)

\* No read of the device looks after the request to redraw.
LEMMA ReadRequest ==
  ASSUME NEW d \in AppleData, NEW address, NEW chr
  PROVE  MemoryRead(memory, d, address, chr).data.term_render_request = d.term_render_request
BY DEF MemoryRead, DataAfterRead, AppleData

\* Nor does an operand.
LEMMA OperandRequest ==
  ASSUME Sound, NEW operand \in RealOperands
  PROVE  operand.data.term_render_request = ap_data.term_render_request
<1>1. ap_data \in AppleData
  BY DEF Sound, TypeOK
<1> QED BY <1>1, ReadRequest DEF RealOperands

\* A cycle that traps asks for nothing to be drawn.
LEMMA TrapRequest ==
  ASSUME Sound, last_trap = "OK", Next
  PROVE  last_trap' = "OK" \/ ap_data'.term_render_request = ap_data.term_render_request
<1>0. ap_data \in AppleData
  BY DEF Sound, TypeOK
<1>1. ASSUME NEW operand \in RealOperands, NEW value, NEW p, WriteBack(operand, value, p)
      PROVE  last_trap' = "OK"
  BY <1>1, RealOperandsType DEF WriteBack, Sound
<1>2. \A r : SetRegisters(r) => ap_data' = ap_data
  BY DEF SetRegisters
<1>3. StoreRegister => last_trap' = "OK"
  BY DEF StoreRegister
<1>4. StepMemory => last_trap' = "OK"
  BY <1>1, Zenon DEF StepMemory
<1>5. Shift => last_trap' = "OK" \/ ap_data' = ap_data
  BY <1>1, <1>2, Zenon DEF Shift
<1>6. Fetch \/ FetchOperand
        => ap_data'.term_render_request = ap_data.term_render_request
  BY <1>0, ReadRequest DEF Fetch, FetchOperand, OperandFetched
<1>7. Decode \/ Nop => ap_data' = ap_data
  BY DEF Decode, Nop
<1>8. \A s, r : UseStack(s, r) => ap_data' = ap_data
  BY DEF UseStack
<1>9. PushRegister \/ PullRegister \/ JumpSubroutine \/ ReturnFromSubroutine
        \/ ForceInterrupt \/ ReturnFromInterrupt => ap_data' = ap_data
  BY <1>8, Zenon DEF PushRegister, PullRegister, JumpSubroutine, ReturnFromSubroutine,
                     ForceInterrupt, ReturnFromInterrupt
<1>10. TransferRegisters \/ StepRegister \/ ChangeFlag \/ BranchOnFlag \/ Jump
         => ap_data' = ap_data
  BY <1>2, Zenon DEF TransferRegisters, StepRegister, ChangeFlag, BranchOnFlag, Jump
<1>11. ASSUME NEW operand \in RealOperands, NEW r, UseOperand(operand, r)
       PROVE  ap_data'.term_render_request = ap_data.term_render_request
  BY <1>11, OperandRequest DEF UseOperand
<1>12. LoadRegister \/ AddToAccumulator \/ SubFromAccumulator \/ Logical \/ TestBit \/ Compare
         => ap_data'.term_render_request = ap_data.term_render_request
  BY <1>11, Zenon DEF LoadRegister, AddToAccumulator, SubFromAccumulator, Logical, TestBit,
                      Compare
<1>13. JumpIndirect => last_trap' = "OK"
  BY DEF JumpIndirect
<1> QED BY <1>3, <1>4, <1>5, <1>6, <1>7, <1>9, <1>10, <1>12, <1>13 DEF Next

\* A request waits for the next rendering, or for the first cycle and that; none is
\* left over where the loop ends.
RequestDrawn ==
  ap_data.term_render_request =>
    phase = "render" \/ (phase = "cycle" /\ state = "FETCH")

LEMMA RequestDrawnStep ==
  EmulatorInv /\ RequestDrawn /\ [EmulatorNext]_emulatorVars => RequestDrawn'
<1> SUFFICES ASSUME EmulatorInv, RequestDrawn, [EmulatorNext]_emulatorVars,
                    ap_data'.term_render_request
             PROVE  phase' = "render" \/ (phase' = "cycle" /\ state' = "FETCH")
  BY DEF RequestDrawn
<1>1. CASE Cycle
  <2>1. /\ Sound /\ OnlyProgramTraps' /\ last_trap = "OK" /\ Next
        /\ phase' = IF last_trap' = "OK" THEN "render" ELSE "ended"
    BY <1>1, NextInv DEF EmulatorInv, Cycle, Inv, Sound
  <2>2. last_trap' = "OK"
    <3>1. CASE ap_data.term_render_request
      BY <1>1, <2>1, <3>1, FirstCycle DEF RequestDrawn, Cycle
    <3>2. CASE ~ap_data.term_render_request
      BY <2>1, <3>2, TrapRequest
    <3> QED BY <3>1, <3>2
  <2> QED BY <2>1, <2>2
<1>2. CASE Render
  BY <1>2 DEF Render, Redraw, EmulatorInv, Inv, Sound, TypeOK, AppleData
<1>3. CASE UNCHANGED emulatorVars
  BY <1>3 DEF emulatorVars, vars, RequestDrawn
<1> QED BY <1>1, <1>2, <1>3 DEF EmulatorNext

\* The way of a request to the screen.
Asked   == ap_data.term_render_request /\ phase = "cycle"
Drawing == ap_data.term_render_request /\ phase = "render"
Shown   == screen.page = ap_data.page

LEMMA RequestProgress ==
  EmulatorInv /\ RequestDrawn /\ EmulatorNext =>
    /\ Asked => Drawing'
    /\ Drawing => Shown'
<1> SUFFICES ASSUME EmulatorInv, RequestDrawn, EmulatorNext
             PROVE  (Asked => Drawing') /\ (Drawing => Shown')
  OBVIOUS
<1>1. ASSUME Asked PROVE Drawing'
  <2>1. Cycle
    BY <1>1 DEF Asked, EmulatorNext, Render
  <2>2. /\ Sound /\ OnlyProgramTraps' /\ last_trap = "OK" /\ Next /\ state = "FETCH"
        /\ phase' = IF last_trap' = "OK" THEN "render" ELSE "ended"
    BY <1>1, <2>1, NextInv DEF EmulatorInv, RequestDrawn, Asked, Cycle, Inv, Sound
  <2> QED BY <1>1, <2>2, FirstCycle DEF Asked, Drawing
<1>2. ASSUME Drawing PROVE Shown'
  <2>1. Render
    BY <1>2 DEF Drawing, EmulatorNext, Cycle
  <2>2. ap_data \in AppleData
    BY DEF EmulatorInv, Inv, Sound, TypeOK
  <2> QED BY <1>2, <2>1, <2>2 DEF Render, Redraw, Drawing, Shown, AppleData
<1> QED BY <1>1, <1>2

\* A store to a text page brings the selected page to the screen, unless the first cycle
\* waits for a key: the next turn of the loop but one at most draws it, as long as
\* the loop is never stuck, which the run emulator checks.
THEOREM RequestsShown == EmulatorSpec /\ []LoopNeverStuck => RequestShowsPage
<1>1. EmulatorInit => RequestDrawn
  BY DEF EmulatorInit, Init, RequestDrawn
<1>2. LoopNeverStuck =>
        (phase # "ended" /\ ~(phase = "cycle" /\ WaitingForKey) =>
           ENABLED <<EmulatorNext /\ ~(phase = "cycle" /\ WaitingForKey)>>_emulatorVars)
  BY DEF LoopNeverStuck
<1>3. RequestDrawn /\ ap_data.term_render_request => Asked \/ Drawing
  BY DEF RequestDrawn, Asked, Drawing
<1>4. /\ Asked => phase # "ended"
      /\ Drawing => phase # "ended" /\ ~(phase = "cycle" /\ WaitingForKey)
  BY DEF Asked, Drawing
<1>5. UNCHANGED emulatorVars => /\ Asked => Asked'
                                /\ Drawing => Drawing'
  BY DEF emulatorVars, vars, Asked, Drawing
<1>6. EmulatorInv /\ RequestDrawn /\ [EmulatorNext]_emulatorVars =>
        /\ Asked => Asked' \/ Drawing'
        /\ Drawing => Drawing' \/ Shown'
  BY <1>5, RequestProgress
<1>7. EmulatorInv /\ RequestDrawn
        /\ <<EmulatorNext /\ ~(phase = "cycle" /\ WaitingForKey)>>_emulatorVars =>
        /\ Asked => Drawing'
        /\ Drawing => Shown'
  BY RequestProgress
<1>8. Shown => screen.page = ap_data.page
  BY DEF Shown
<1> QED BY <1>1, <1>2, <1>3, <1>4, <1>6, <1>7, <1>8, EmulatorInvariance, RequestDrawnStep, PTL
        DEF EmulatorSpec, EmulatorFairness, RequestShowsPage
=============================================================================
