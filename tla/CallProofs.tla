----------------------------- MODULE CallProofs -----------------------------
(***************************************************************************)
(* Proofs of the properties of Calls.  What is said of the bytes on the    *)
(* stack needs a program that does not store over them by other means than *)
(* the stack instructions: LeavesStackAlone.                               *)
(***************************************************************************)
EXTENDS Calls, CpuProofs

\* The instructions that store at the address of their operand.
Writers == DOMAIN Stores \cup DOMAIN MemorySteps \cup Shifts

\* The instruction being executed does not store to the used part of the stack,
\* the bytes above the pointer.
LeavesStackAlone ==
  Running("EXECUTE") /\ Impl \in Writers =>
    \A b \in Byte : b > regs.SP => FirstOperand(Mode) # STACK_LOWEST_ADDRESS + b

-----------------------------------------------------------------------------
(* Calls observes the machine of Cpu.                                      *)

\* The history variable changes nothing about the machine.
LEMMA CallsRefineCpu == CallSpec => Spec
<1>1. CallInit => Init
  BY DEF CallInit
<1>2. [CallNext]_callVars => [Next]_vars
  BY DEF CallNext, callVars
<1> QED BY <1>1, <1>2, PTL DEF CallSpec, Spec

\* So what is proved of Cpu holds here.
LEMMA CallsInvariance == CallSpec => []Inv
BY CallsRefineCpu, Invariance, PTL

\* The two instructions that open a frame are the actions of their names.
LEMMA FrameSteps ==
  /\ Next /\ Executing("jump_subroutine_instr") => JumpSubroutine
  /\ Next /\ Executing("force_interrupt_instr") => ForceInterrupt
  /\ Next /\ Executing("return_from_subroutine_instr") => ReturnFromSubroutine
  /\ Next /\ Executing("return_from_interrupt") => ReturnFromInterrupt
BY ImplOfAction DEF Next, Executing, Running, Impl

-----------------------------------------------------------------------------
(* Pushes.                                                                 *)

\* A push that leaves no trap found room, stored the byte and moved the pointer.
LEMMA PushOK ==
  ASSUME NEW s, IsStack(s), NEW value \in Byte, Push(s, value).trap = "OK"
  PROVE  /\ s.trap = "OK" /\ s.SP \in Byte /\ s.SP > 0
         /\ Push(s, value).SP = s.SP - 1
         /\ Push(s, value).memory =
              MemoryAfterWrite(s.memory, STACK_LOWEST_ADDRESS + s.SP, value)
<1>1. /\ s = [SP |-> s.SP, memory |-> s.memory, trap |-> s.trap, value |-> s.value]
      /\ s.SP \in Byte
  BY DEF IsStack
<1>2. s.SP # FULL_STACK_PTR
  BY <1>1 DEF Push
<1>3. s.SP > 0
  BY <1>1, <1>2, ByteRange DEF FULL_STACK_PTR
<1>4. Push(s, value) =
        [SP |-> s.SP - 1,
         memory |-> MemoryAfterWrite(s.memory, STACK_LOWEST_ADDRESS + s.SP, value),
         trap |-> s.trap, value |-> s.value]
  BY <1>1, <1>2 DEF Push
<1> QED BY <1>1, <1>3, <1>4

\* What JSR pushes: the address of its own last byte.
Back == ToWord(regs.IP - 1)

\* JSR without a trap: two bytes are pushed, the high part of the return address
\* first.
LEMMA JumpSubroutinePushes ==
  ASSUME Sound, JumpSubroutine, last_trap' = "OK"
  PROVE  /\ Back \in Word
         /\ regs.SP >= 2 /\ regs'.SP = regs.SP - 2
         /\ memory' = MemoryAfterWrite(
                        MemoryAfterWrite(memory, STACK_LOWEST_ADDRESS + regs.SP, High(Back)),
                        STACK_LOWEST_ADDRESS + regs.SP - 1, Low(Back))
<1> DEFINE one == Push(Stack, High(Back))
           two == Push(one, Low(Back))
<1>1. UseStack(two, [regs EXCEPT !.IP = FirstOperand("ABSOLUTE")])
  BY DEF JumpSubroutine, Back
<1>2. Back \in Word
  <2>1. \A w \in Word : w - 1 \in Int
    BY WordRange
  <2>2. regs.IP - 1 \in Int
    BY <2>1 DEF Sound, TypeOK, Registers
  <2> QED BY <2>2, WordParts DEF Back
<1>3. regs \in Registers /\ regs.SP \in Byte
  BY DEF Sound, TypeOK, Registers
<1>4. High(Back) \in Byte /\ Low(Back) \in Byte
  BY <1>2, WordParts
<1>5. IsStack(Stack) /\ Stack.SP = regs.SP /\ Stack.memory = memory
  BY StackType DEF Stack
<1>6. IsStack(one)
  BY <1>4, <1>5, PushType
<1> HIDE DEF one
<1>7. two.trap = "OK" /\ regs'.SP = two.SP /\ memory' = two.memory
  BY <1>1, <1>3 DEF UseStack, Registers
<1>8. /\ one.trap = "OK" /\ one.SP \in Byte /\ one.SP > 0 /\ two.SP = one.SP - 1
      /\ two.memory = MemoryAfterWrite(one.memory, STACK_LOWEST_ADDRESS + one.SP, Low(Back))
  BY <1>4, <1>6, <1>7, PushOK
<1>9. /\ one.SP = regs.SP - 1
      /\ one.memory = MemoryAfterWrite(memory, STACK_LOWEST_ADDRESS + regs.SP, High(Back))
  BY <1>4, <1>5, <1>8, PushOK DEF one
<1> HIDE DEF two
<1>10. /\ regs.SP >= 2 /\ regs'.SP = regs.SP - 2
       /\ STACK_LOWEST_ADDRESS + one.SP = STACK_LOWEST_ADDRESS + regs.SP - 1
  BY <1>3, <1>7, <1>8, <1>9, ByteRange DEF STACK_LOWEST_ADDRESS
<1>11. memory' = MemoryAfterWrite(
                  MemoryAfterWrite(memory, STACK_LOWEST_ADDRESS + regs.SP, High(Back)),
                  STACK_LOWEST_ADDRESS + regs.SP - 1, Low(Back))
  BY <1>7, <1>8, <1>9, <1>10
<1> QED BY <1>2, <1>10, <1>11

\* BRK without a trap: three bytes are pushed, the flags last.
LEMMA ForceInterruptPushes ==
  ASSUME Sound, ForceInterrupt, last_trap' = "OK"
  PROVE  /\ regs.SP >= 3 /\ regs'.SP = regs.SP - 3
         /\ \E m : /\ IsMemory(m) /\ m.size = MEMORY_SIZE
                   /\ memory' = MemoryAfterWrite(
                                  m, STACK_LOWEST_ADDRESS + regs.SP - 2, regs.P)
<1> DEFINE one == Push(Stack, High(regs.IP))
           two == Push(one, Low(regs.IP) % 16)
           s == Push(two, regs.P)
<1>1. UseStack(s, [regs EXCEPT !.IP = IrqVector(s.memory),
                               !.P = UpdateFlag(@, BREAK, TRUE)])
  BY DEF ForceInterrupt, PushWord
<1>2. regs \in Registers /\ regs.P \in Byte /\ regs.IP \in Word /\ regs.SP \in Byte
  BY DEF Sound, TypeOK, Registers
<1>3. High(regs.IP) \in Byte /\ Low(regs.IP) % 16 \in Byte
  <2>1. \A b \in Byte : b % 16 \in Byte
    BY DEF Byte
  <2> QED BY <1>2, <2>1, WordParts
<1>4. IsStack(Stack) /\ Stack.SP = regs.SP
  BY StackType DEF Stack
<1>5. IsStack(one)
  BY <1>3, <1>4, PushType
<1>6. IsStack(two)
  <2> HIDE DEF one
  <2> QED BY <1>3, <1>5, PushType
<1>7. s.trap = "OK" /\ regs'.SP = s.SP /\ memory' = s.memory
  <2> HIDE DEF s
  <2> QED BY <1>1, <1>2 DEF UseStack, Registers
<1>8. /\ two.trap = "OK" /\ two.SP \in Byte /\ two.SP > 0 /\ s.SP = two.SP - 1
      /\ s.memory = MemoryAfterWrite(two.memory, STACK_LOWEST_ADDRESS + two.SP, regs.P)
  <2> HIDE DEF two
  <2> QED BY <1>2, <1>6, <1>7, PushOK
<1>9. one.trap = "OK" /\ one.SP \in Byte /\ one.SP > 0 /\ two.SP = one.SP - 1
  <2> HIDE DEF one
  <2> QED BY <1>3, <1>5, <1>8, PushOK
<1>10. one.SP = regs.SP - 1
  BY <1>3, <1>4, <1>9, PushOK
<1>11. IsMemory(two.memory) /\ two.memory.size = MEMORY_SIZE
  BY <1>6 DEF IsStack, SameAboveRAM, Sound
<1> HIDE DEF one, two, s
<1>12. /\ regs.SP >= 3 /\ regs'.SP = regs.SP - 3
       /\ STACK_LOWEST_ADDRESS + two.SP = STACK_LOWEST_ADDRESS + regs.SP - 2
  BY <1>2, <1>7, <1>8, <1>9, <1>10, ByteRange DEF STACK_LOWEST_ADDRESS
<1> QED BY <1>7, <1>8, <1>11, <1>12

-----------------------------------------------------------------------------
(* The shape of the frames.                                                *)

\* A frame a step pushes is that of the JSR or of the BRK it executes.
LEMMA PushedFrame ==
  ASSUME Next, NEW f \in Pushed
  PROVE  /\ last_trap' = "OK"
         /\ f.SP = regs'.SP /\ f.ret = regs.IP /\ f.status = regs.P
         /\ f = [kind |-> f.kind, SP |-> f.SP, ret |-> f.ret, status |-> f.status]
         /\ \/ f.kind = "call" /\ JumpSubroutine
            \/ f.kind = "interrupt" /\ ForceInterrupt
<1>1. PICK impl \in DOMAIN FrameKinds :
        /\ Executing(impl) /\ last_trap' = "OK"
        /\ f = [kind |-> FrameKinds[impl], SP |-> regs'.SP, ret |-> regs.IP,
                status |-> regs.P]
  BY DEF Pushed
<1>2. CASE impl = "jump_subroutine_instr"
  BY <1>1, <1>2, FrameSteps DEF FrameKinds
<1>3. CASE impl = "force_interrupt_instr"
  BY <1>1, <1>3, FrameSteps DEF FrameKinds
<1> QED BY <1>1, <1>2, <1>3 DEF FrameKinds

\* A step pushes no more than one frame, below all those there are.
LEMMA PushedBelow ==
  ASSUME Sound, Next, NEW f \in Pushed
  PROVE  /\ regs'.SP < regs.SP
         /\ \A g \in Pushed : g = f
<1>1. regs.SP \in Byte
  BY DEF Sound, TypeOK, Registers
<1>2. regs'.SP < regs.SP
  BY <1>1, PushedFrame, JumpSubroutinePushes, ForceInterruptPushes, ByteRange
<1>3. ASSUME NEW g \in Pushed PROVE g = f
  <2>1. g.kind = f.kind
    BY PushedFrame, ImplOfAction
  <2> QED BY <2>1, PushedFrame
<1> QED BY <1>2, <1>3

\* Every step keeps the shape of the frames.
LEMMA FramesStep ==
  ASSUME Inv, Inv', FramesOK, CallNext
  PROVE  FramesOK'
<1>1. Sound /\ Next /\ regs \in Registers /\ regs' \in Registers
  BY DEF Inv, Sound, TypeOK, CallNext
<1>2. regs.SP \in Int /\ regs'.SP \in Int
  BY <1>1, ByteRange DEF Registers
<1> DEFINE kept == {f \in frames : regs'.SP <= f.SP}
<1>3. frames' = kept \cup Pushed
  BY DEF CallNext
<1>4. Pushed \subseteq Frames
  <2> SUFFICES ASSUME NEW f \in Pushed PROVE f \in Frames
    OBVIOUS
  <2>1. f.SP \in Byte /\ f.ret \in Word /\ f.status \in Byte
    BY <1>1, PushedFrame DEF Registers
  <2>2. f.kind \in {"call", "interrupt"}
    BY <1>1, PushedFrame
  <2>3. f = [kind |-> f.kind, SP |-> f.SP, ret |-> f.ret, status |-> f.status]
    BY <1>1, PushedFrame
  <2> QED BY <2>1, <2>2, <2>3 DEF Frames
<1>5. \A f \in kept : f.SP \in Int /\ regs.SP <= f.SP /\ regs'.SP <= f.SP
  BY ByteRange DEF FramesOK, Frames
<1>6. \A f \in Pushed : f.SP = regs'.SP /\ regs'.SP < regs.SP /\ \A g \in Pushed : g = f
  BY <1>1, PushedFrame, PushedBelow
<1>7. frames' \subseteq Frames
  BY <1>3, <1>4 DEF FramesOK
<1>8. ASSUME NEW f \in frames', NEW g \in frames', f.SP = g.SP
      PROVE  f = g
  <2>1. CASE f \in kept /\ g \in kept
    BY <1>8, <2>1 DEF FramesOK
  <2>2. CASE f \in Pushed /\ g \in Pushed
    BY <1>6, <2>2
  <2>3. CASE f \in kept /\ g \in Pushed
    BY <1>2, <1>5, <1>6, <1>8, <2>3
  <2>4. CASE f \in Pushed /\ g \in kept
    BY <1>2, <1>5, <1>6, <1>8, <2>4
  <2> QED BY <1>3, <2>1, <2>2, <2>3, <2>4
<1>9. \A f \in frames' : regs'.SP <= f.SP
  BY <1>2, <1>3, <1>5, <1>6
<1> QED BY <1>7, <1>8, <1>9 DEF FramesOK

\* Open calls and interrupts are at heights of their own at or above the pointer.
THEOREM FramesCorrect == CallSpec => []FramesOK
<1>1. CallInit => FramesOK
  BY DEF CallInit, FramesOK
<1>2. Inv /\ Inv' /\ FramesOK /\ [CallNext]_callVars => FramesOK'
  <2>1. ASSUME FramesOK, UNCHANGED callVars PROVE FramesOK'
    BY <2>1 DEF callVars, vars, FramesOK
  <2> QED BY <2>1, FramesStep
<1> QED BY <1>1, <1>2, CallsInvariance, PTL DEF CallSpec

-----------------------------------------------------------------------------
(* The bytes on the stack.                                                 *)

\* The byte of the stack page at height b.
StackByte(m, b) == Peek(m, STACK_LOWEST_ADDRESS + b)

\* m has the bytes on the stack that memory has.
SameUsed(m) == \A b \in Byte : b > regs.SP => StackByte(m, b) = StackByte(memory, b)

\* A push, trap or not, stores below what is on the stack.
LEMMA PushUsed ==
  ASSUME Sound, NEW s, IsStack(s), NEW value \in Byte, s.SP <= regs.SP, SameUsed(s.memory)
  PROVE  /\ Push(s, value).SP <= regs.SP
         /\ SameUsed(Push(s, value).memory)
<1>1. /\ s = [SP |-> s.SP, memory |-> s.memory, trap |-> s.trap, value |-> s.value]
      /\ s.SP \in Byte /\ regs.SP \in Byte /\ IsMemory(s.memory)
  BY DEF IsStack, Sound, TypeOK, Registers, SameAboveRAM
<1> DEFINE after == MemoryAfterWrite(s.memory, STACK_LOWEST_ADDRESS + s.SP, value)
<1>2. SameUsed(after)
  <2> SUFFICES ASSUME NEW b \in Byte, b > regs.SP
               PROVE  StackByte(after, b) = StackByte(memory, b)
    BY DEF SameUsed
  <2>1. STACK_LOWEST_ADDRESS + b # STACK_LOWEST_ADDRESS + s.SP
    BY <1>1, ByteRange DEF STACK_LOWEST_ADDRESS
  <2>2. StackByte(after, b) = StackByte(s.memory, b)
    BY <1>1, <2>1, OtherByte DEF StackByte
  <2> QED BY <2>2 DEF SameUsed
<1>3. s.SP - 1 <= regs.SP
  BY <1>1, ByteRange
<1> HIDE DEF after
<1>4. CASE s.SP = FULL_STACK_PTR
  BY <1>1, <1>4 DEF Push
<1>5. CASE s.SP # FULL_STACK_PTR
  <2>1. Push(s, value).SP = s.SP - 1 /\ Push(s, value).memory = after
    BY <1>1, <1>5 DEF Push, after
  <2> QED BY <1>2, <1>3, <2>1
<1> QED BY <1>4, <1>5

\* A pull leaves the memory alone.
LEMMA PullMemory ==
  ASSUME NEW s, IsStack(s)
  PROVE  Pull(s).memory = s.memory
BY DEF Pull, IsStack

\* The instruction's stack as it finds it.
LEMMA StackUsed ==
  ASSUME Sound
  PROVE  /\ IsStack(Stack) /\ Stack.SP = regs.SP /\ Stack.SP <= regs.SP
         /\ Stack.memory = memory /\ Stack.trap = last_trap /\ SameUsed(Stack.memory)
<1>1. regs.SP <= regs.SP
  BY ByteRange DEF Sound, TypeOK, Registers
<1> QED BY <1>1, StackType DEF Stack, SameUsed

\* PHA, PHP, JSR and BRK keep what is on the stack, even where they trap.
LEMMA PushersUsed ==
  ASSUME Sound, PushRegister \/ JumpSubroutine \/ ForceInterrupt
  PROVE  SameUsed(memory')
<1>1. regs \in Registers /\ regs.P \in Byte /\ regs.IP \in Word
  BY DEF Sound, TypeOK, Registers
<1>2. CASE PushRegister
  <2>1. PICK impl \in DOMAIN Pushes : UseStack(Push(Stack, regs[Pushes[impl]]), regs)
    BY <1>2 DEF PushRegister
  <2>2. Pushes[impl] \in ByteRegisters
    BY DEF Pushes, ByteRegisters
  <2>3. regs[Pushes[impl]] \in Byte
    BY <1>1, <2>2, RegisterType
  <2>4. SameUsed(Push(Stack, regs[Pushes[impl]]).memory)
    BY <2>3, StackUsed, PushUsed
  <2> QED BY <2>1, <2>4 DEF UseStack, SameUsed
<1>3. CASE JumpSubroutine
  <2> DEFINE one == Push(Stack, High(Back))
             two == Push(one, Low(Back))
  <2>1. memory' = two.memory
    BY <1>3 DEF JumpSubroutine, UseStack, Back
  <2>2. High(Back) \in Byte /\ Low(Back) \in Byte
    <3>1. \A w \in Word : w - 1 \in Int
      BY WordRange
    <3>2. Back \in Word
      BY <1>1, <3>1, WordParts DEF Back
    <3> QED BY <3>2, WordParts
  <2>3. IsStack(one) /\ one.SP <= regs.SP /\ SameUsed(one.memory)
    BY <2>2, StackUsed, PushUsed, PushType
  <2> HIDE DEF one
  <2>4. SameUsed(two.memory)
    BY <2>2, <2>3, PushUsed
  <2> HIDE DEF two
  <2> QED BY <2>1, <2>4 DEF SameUsed
<1>4. CASE ForceInterrupt
  <2> DEFINE one == Push(Stack, High(regs.IP))
             two == Push(one, Low(regs.IP) % 16)
             three == Push(two, regs.P)
  <2>1. memory' = three.memory
    BY <1>4 DEF ForceInterrupt, UseStack, PushWord
  <2>2. High(regs.IP) \in Byte /\ Low(regs.IP) % 16 \in Byte
    <3>1. \A b \in Byte : b % 16 \in Byte
      BY DEF Byte
    <3> QED BY <1>1, <3>1, WordParts
  <2>3. IsStack(one) /\ one.SP <= regs.SP /\ SameUsed(one.memory)
    BY <2>2, StackUsed, PushUsed, PushType
  <2> HIDE DEF one
  <2>4. IsStack(two) /\ two.SP <= regs.SP /\ SameUsed(two.memory)
    BY <2>2, <2>3, PushUsed, PushType
  <2> HIDE DEF two
  <2>5. SameUsed(three.memory)
    BY <1>1, <2>4, PushUsed
  <2> HIDE DEF three
  <2> QED BY <2>1, <2>5 DEF SameUsed
<1> QED BY <1>2, <1>3, <1>4

\* PLA, PLP, RTS and RTI do not store anything.
LEMMA PullersUsed ==
  ASSUME Sound, PullRegister \/ ReturnFromSubroutine \/ ReturnFromInterrupt
  PROVE  memory' = memory
<1>1. /\ IsStack(Pull(Stack)) /\ IsStack(Pull(Pull(Stack)))
      /\ Pull(Stack).memory = memory
  BY StackUsed, PullType, PullMemory
<1>2. /\ Pull(Pull(Stack)).memory = memory
      /\ Pull(Pull(Pull(Stack))).memory = memory
  BY <1>1, PullMemory
<1> QED BY <1>1, <1>2 DEF PullRegister, ReturnFromSubroutine, ReturnFromInterrupt, UseStack

\* A store to another place than the used part of the stack keeps that part.
LEMMA WritersUsed ==
  ASSUME Sound, LeavesStackAlone, Running("EXECUTE"), Impl \in Writers,
         NEW value, memory' = MemoryAfterWrite(memory, FirstOperand(Mode), value)
  PROVE  SameUsed(memory')
<1>1. IsMemory(memory)
  BY DEF Sound, TypeOK
<1> SUFFICES ASSUME NEW b \in Byte, b > regs.SP
             PROVE  StackByte(memory', b) = StackByte(memory, b)
  BY DEF SameUsed
<1>2. STACK_LOWEST_ADDRESS + b # FirstOperand(Mode)
  BY DEF LeavesStackAlone
<1> QED BY <1>1, <1>2, OtherByte DEF StackByte

\* Every cycle of such a program keeps what is on the stack.
LEMMA NextUsed ==
  ASSUME Sound, LeavesStackAlone, Next
  PROVE  SameUsed(memory')
<1>1. CASE StoreRegister \/ StepMemory \/ Shift
  <2>1. Running("EXECUTE") /\ Impl \in Writers
    BY <1>1 DEF StoreRegister, StepMemory, Shift, Executing, Impl, Writers
  <2>2. \/ memory' = memory
        \/ \E value : memory' = MemoryAfterWrite(memory, FirstOperand(Mode), value)
    BY <1>1 DEF StoreRegister, StepMemory, Shift, WriteBack, SetRegisters
  <2>3. CASE memory' = memory
    BY <2>3 DEF SameUsed
  <2>4. CASE \E value : memory' = MemoryAfterWrite(memory, FirstOperand(Mode), value)
    BY <2>1, <2>4, WritersUsed
  <2> QED BY <2>2, <2>3, <2>4
<1>2. CASE PushRegister \/ JumpSubroutine \/ ForceInterrupt
  BY <1>2, PushersUsed
<1>3. CASE PullRegister \/ ReturnFromSubroutine \/ ReturnFromInterrupt
  BY <1>3, PullersUsed DEF SameUsed
<1>4. CASE \/ Fetch \/ Decode \/ FetchOperand \/ Nop \/ TransferRegisters
           \/ StepRegister \/ ChangeFlag \/ BranchOnFlag \/ Jump \/ JumpIndirect
  <2>1. memory' = memory
    BY <1>4 DEF Fetch, Decode, FetchOperand, Nop, TransferRegisters, StepRegister,
                ChangeFlag, BranchOnFlag, Jump, JumpIndirect, SetRegisters
  <2> QED BY <2>1 DEF SameUsed
<1>5. CASE \/ LoadRegister \/ AddToAccumulator \/ SubFromAccumulator \/ Logical
           \/ TestBit \/ Compare
  <2>1. memory' = memory
    BY <1>5 DEF LoadRegister, AddToAccumulator, SubFromAccumulator, Logical, TestBit,
                Compare, UseOperand
  <2> QED BY <2>1 DEF SameUsed
<1> QED BY <1>1, <1>2, <1>3, <1>4, <1>5 DEF Next

-----------------------------------------------------------------------------
(* The bytes of the frames.                                                *)

\* The frame's bytes are within the stack page, and as JSR or BRK left them.
Kept(f) ==
  /\ f.kind = "call" =>
       /\ f.SP + 2 <= \hFF
       /\ StackByte(memory, f.SP + 2) = High(ToWord(f.ret - 1))
       /\ StackByte(memory, f.SP + 1) = Low(ToWord(f.ret - 1))
  /\ f.kind = "interrupt" =>
       /\ f.SP + 3 <= \hFF
       /\ StackByte(memory, f.SP + 1) = f.status

\* The inductive invariant; FramesIntact says nothing of interrupts, and not that
\* the stack page has room for the bytes of a frame.
FramesKept == \A f \in frames : Kept(f)

\* Both bytes of a word make the word.
LEMMA WordOfParts ==
  ASSUME NEW w \in Word
  PROVE  MakeWord(High(w), Low(w)) = w
<1>1. w \in Int
  BY WordRange
<1> QED BY <1>1 DEF MakeWord, High, Low

\* A frame that stays is as far above the pointer as it was, so nothing on it is
\* stored over.
LEMMA KeptFrame ==
  ASSUME Sound, FramesOK, LeavesStackAlone, Next, NEW f \in frames, Kept(f)
  PROVE  Kept(f)'
<1>1. f.SP \in Byte /\ regs.SP \in Byte /\ regs.SP <= f.SP
  BY DEF Sound, TypeOK, Registers, FramesOK, Frames
<1>2. f.SP \in Int /\ 0 <= f.SP /\ regs.SP \in Int
  BY <1>1, ByteRange
<1>3. SameUsed(memory')
  BY NextUsed
<1>4. ASSUME NEW k \in {1, 2}, f.SP + k <= \hFF
      PROVE  StackByte(memory', f.SP + k) = StackByte(memory, f.SP + k)
  <2>1. f.SP + k \in Int /\ 0 <= f.SP + k /\ f.SP + k > regs.SP
    BY <1>1, <1>2
  <2>2. f.SP + k \in Byte
    BY <1>4, <2>1, ByteRange
  <2> QED BY <1>3, <2>1, <2>2 DEF SameUsed
<1>5. CASE f.kind = "call"
  BY <1>2, <1>4, <1>5 DEF Kept, StackByte, Peek, ByteAt, Accessible
<1>6. CASE f.kind = "interrupt"
  <2>1. f.SP + 1 <= \hFF
    BY <1>2, <1>6 DEF Kept
  <2> QED BY <1>4, <1>6, <2>1 DEF Kept, StackByte, Peek, ByteAt, Accessible
<1> QED BY <1>5, <1>6 DEF Kept

\* The stack page is RAM.
LEMMA StackIsRAM ==
  ASSUME NEW b \in Byte
  PROVE  STACK_LOWEST_ADDRESS + b \in Word /\ STACK_LOWEST_ADDRESS + b < IO_START
<1>1. STACK_LOWEST_ADDRESS + b \in Word
  BY StackPage
<1> QED BY <1>1, ByteRange DEF STACK_LOWEST_ADDRESS, IO_START

\* A byte stored in the stack page is read back.
LEMMA StoredOnStack ==
  ASSUME NEW m, IsMemory(m), m.size = MEMORY_SIZE, NEW b \in Byte, NEW value
  PROVE  StackByte(MemoryAfterWrite(m, STACK_LOWEST_ADDRESS + b, value), b) = value
<1>1. STACK_LOWEST_ADDRESS + b \in Word /\ STACK_LOWEST_ADDRESS + b < IO_START
  BY StackIsRAM
<1>2. Accessible(m, STACK_LOWEST_ADDRESS + b)
  BY <1>1, WordRange DEF Accessible, MEMORY_SIZE
<1> QED BY <1>1, <1>2, WrittenByte DEF StackByte

\* A frame just pushed has its bytes.
LEMMA PushedKept ==
  ASSUME Sound, Next, NEW f \in Pushed
  PROVE  Kept(f)'
<1>1. /\ last_trap' = "OK" /\ f.SP = regs'.SP /\ f.ret = regs.IP /\ f.status = regs.P
      /\ \/ f.kind = "call" /\ JumpSubroutine
         \/ f.kind = "interrupt" /\ ForceInterrupt
  BY PushedFrame
<1>2. /\ regs.SP \in Byte /\ regs.SP \in Int /\ 0 <= regs.SP /\ regs.SP <= \hFF
      /\ IsMemory(memory) /\ memory.size = MEMORY_SIZE
  BY ByteRange DEF Sound, TypeOK, Registers
<1>3. CASE f.kind = "call" /\ JumpSubroutine
  <2> DEFINE m == MemoryAfterWrite(memory, STACK_LOWEST_ADDRESS + regs.SP, High(Back))
             low == regs.SP - 1
  <2>1. /\ Back \in Word /\ regs.SP >= 2 /\ regs'.SP = regs.SP - 2
        /\ memory' = MemoryAfterWrite(m, STACK_LOWEST_ADDRESS + regs.SP - 1, Low(Back))
    BY <1>1, <1>3, JumpSubroutinePushes
  <2>2. low \in Byte /\ STACK_LOWEST_ADDRESS + regs.SP - 1 = STACK_LOWEST_ADDRESS + low
    BY <1>2, <2>1, ByteRange DEF STACK_LOWEST_ADDRESS
  <2>3. IsMemory(m) /\ m.size = MEMORY_SIZE
    <3>1. STACK_LOWEST_ADDRESS + regs.SP \in Word /\ High(Back) \in Byte
      BY <1>2, <2>1, StackPage, WordParts
    <3> QED BY <1>2, <3>1, WriteType DEF SameAboveRAM
  <2>4. StackByte(m, regs.SP) = High(Back)
    BY <1>2, StoredOnStack
  <2> HIDE DEF m
  <2>5. StackByte(memory', low) = Low(Back)
    BY <2>1, <2>2, <2>3, StoredOnStack
  <2>6. StackByte(memory', regs.SP) = High(Back)
    <3>1. STACK_LOWEST_ADDRESS + regs.SP # STACK_LOWEST_ADDRESS + low
      BY <1>2 DEF STACK_LOWEST_ADDRESS
    <3> QED BY <2>1, <2>2, <2>3, <2>4, <3>1, OtherByte DEF StackByte
  <2>7. f.SP + 2 = regs.SP /\ f.SP + 1 = low /\ Back = ToWord(f.ret - 1)
    BY <1>1, <1>2, <2>1 DEF Back
  <2> HIDE DEF low
  <2>8. StackByte(memory', f.SP + 2) = High(ToWord(f.ret - 1))
    BY <2>6, <2>7
  <2>9. StackByte(memory', f.SP + 1) = Low(ToWord(f.ret - 1))
    BY <2>5, <2>7
  <2>10. f.SP + 2 <= \hFF
    BY <1>2, <2>7
  <2> QED BY <1>3, <2>8, <2>9, <2>10 DEF Kept, StackByte, Peek, ByteAt, Accessible
<1>4. CASE f.kind = "interrupt" /\ ForceInterrupt
  <2>1. /\ regs.SP >= 3 /\ regs'.SP = regs.SP - 3
        /\ \E m : /\ IsMemory(m) /\ m.size = MEMORY_SIZE
                  /\ memory' = MemoryAfterWrite(
                                 m, STACK_LOWEST_ADDRESS + regs.SP - 2, regs.P)
    BY <1>1, <1>4, ForceInterruptPushes
  <2>2. PICK m : /\ IsMemory(m) /\ m.size = MEMORY_SIZE
                 /\ memory' = MemoryAfterWrite(
                                m, STACK_LOWEST_ADDRESS + regs.SP - 2, regs.P)
    BY <2>1
  <2> DEFINE top == f.SP + 1
  <2>3. /\ top \in Byte /\ f.SP + 3 <= \hFF
        /\ STACK_LOWEST_ADDRESS + regs.SP - 2 = STACK_LOWEST_ADDRESS + top
    BY <1>1, <1>2, <2>1, ByteRange DEF STACK_LOWEST_ADDRESS
  <2> HIDE DEF top
  <2>4. StackByte(memory', top) = f.status
    BY <1>1, <2>2, <2>3, StoredOnStack
  <2> QED BY <1>4, <2>3, <2>4 DEF Kept, StackByte, Peek, ByteAt, Accessible, top
<1> QED BY <1>1, <1>3, <1>4

\* Every step keeps the bytes of the frames.
LEMMA FramesKeptStep ==
  Inv /\ FramesOK /\ LeavesStackAlone /\ FramesKept /\ [CallNext]_callVars => FramesKept'
<1> SUFFICES ASSUME Inv, FramesOK, LeavesStackAlone, FramesKept, [CallNext]_callVars
             PROVE  FramesKept'
  OBVIOUS
<1>1. CASE CallNext
  <2>1. Sound /\ Next /\ frames' = {f \in frames : regs'.SP <= f.SP} \cup Pushed
    BY <1>1 DEF Inv, CallNext
  <2> SUFFICES ASSUME NEW f \in frames' PROVE Kept(f)'
    BY DEF FramesKept
  <2>2. CASE f \in frames
    BY <2>1, <2>2, KeptFrame DEF FramesKept
  <2>3. CASE f \in Pushed
    BY <2>1, <2>3, PushedKept
  <2> QED BY <2>1, <2>2, <2>3
<1>2. CASE UNCHANGED callVars
  BY <1>2 DEF callVars, vars, FramesKept, Kept, StackByte, Peek, ByteAt, Accessible
<1> QED BY <1>1, <1>2

\* In a program that leaves the stack alone, the bytes of every frame stay.
LEMMA FramesInvariance == CallSpec /\ []LeavesStackAlone => [](FramesOK /\ FramesKept)
<1>1. CallInit => FramesKept
  BY DEF CallInit, FramesKept
<1> QED BY <1>1, FramesKeptStep, FramesCorrect, CallsInvariance, PTL DEF CallSpec

\* The return addresses of all open calls stay on the stack as JSR left them, at
\* every depth and where the stack is full, if the program does not store over
\* them by other means.
THEOREM ReturnAddressesKept == CallSpec /\ []LeavesStackAlone => []FramesIntact
<1>1. Inv /\ FramesOK /\ FramesKept => FramesIntact
  <2> SUFFICES ASSUME Inv, FramesOK, FramesKept, NEW f \in frames, f.kind = "call"
               PROVE  MakeWord(Peek(memory, STACK_LOWEST_ADDRESS + f.SP + 2),
                               Peek(memory, STACK_LOWEST_ADDRESS + f.SP + 1))
                        = ToWord(f.ret - 1)
    BY DEF FramesIntact
  <2>1. f.SP \in Int /\ f.ret \in Int
    BY ByteRange, WordRange DEF FramesOK, Frames
  <2>2. /\ StackByte(memory, f.SP + 2) = High(ToWord(f.ret - 1))
        /\ StackByte(memory, f.SP + 1) = Low(ToWord(f.ret - 1))
    BY DEF FramesKept, Kept
  <2>3. /\ STACK_LOWEST_ADDRESS + (f.SP + 2) = STACK_LOWEST_ADDRESS + f.SP + 2
        /\ STACK_LOWEST_ADDRESS + (f.SP + 1) = STACK_LOWEST_ADDRESS + f.SP + 1
    BY <2>1 DEF STACK_LOWEST_ADDRESS
  <2>4. ToWord(f.ret - 1) \in Word
    <3>1. f.ret - 1 \in Int
      BY <2>1
    <3> QED BY <3>1, WordParts
  <2> QED BY <2>2, <2>3, <2>4, WordOfParts DEF StackByte
<1> QED BY <1>1, FramesInvariance, CallsInvariance, PTL

-----------------------------------------------------------------------------
(* Returns.                                                                *)

\* A pull where the stack is not empty reads the byte above the pointer.
LEMMA PullOK ==
  ASSUME Sound, NEW s, IsStack(s), s.memory = memory, s.SP # EMPTY_STACK_PTR
  PROVE  /\ Pull(s).SP = s.SP + 1
         /\ Pull(s).value = StackByte(memory, s.SP + 1)
         /\ Pull(s).trap = s.trap
         /\ Pull(s).memory = memory
         /\ IsStack(Pull(s))
<1>1. /\ s = [SP |-> s.SP, memory |-> s.memory, trap |-> s.trap, value |-> s.value]
      /\ s.SP \in Byte
  BY DEF IsStack
<1> DEFINE address == STACK_LOWEST_ADDRESS + s.SP + 1
<1>2. address < MEMORY_SIZE /\ address = STACK_LOWEST_ADDRESS + (s.SP + 1)
  BY <1>1, StackPage, ByteRange DEF STACK_LOWEST_ADDRESS
<1>3. Accessible(s.memory, address)
  BY <1>2 DEF Sound, Accessible
<1>4. Pull(s) = [SP |-> s.SP + 1, memory |-> s.memory, trap |-> s.trap,
                 value |-> Peek(s.memory, address)]
  <2> HIDE DEF address
  <2> QED BY <1>1, <1>3 DEF Pull, address
<1> HIDE DEF address
<1>5. Peek(s.memory, address) = StackByte(memory, s.SP + 1)
  BY <1>2 DEF StackByte
<1> QED BY <1>4, <1>5, PullType

\* Counting a word back and on again leaves it, across the wrap too.
LEMMA BackAndOn ==
  ASSUME NEW w \in Word
  PROVE  ToWord(ToWord(w - 1) + 1) = w
<1>1. w \in Int /\ 0 <= w /\ w <= \hFFFF
  BY WordRange
<1>2. CASE w = 0
  BY <1>2 DEF ToWord
<1>3. CASE w # 0
  <2>1. ToWord(w - 1) = w - 1
    BY <1>1, <1>3 DEF ToWord
  <2>2. w - 1 + 1 = w
    BY <1>1
  <2> QED BY <2>1, <2>2, WordIsWord
<1> QED BY <1>2, <1>3

\* RTS at the height of an open call takes the program to its return address.
LEMMA ReturnStep ==
  ASSUME Sound, last_trap = "OK", FramesOK, NEW f \in frames, Kept(f),
         f.kind = "call", f.SP = regs.SP, ReturnFromSubroutine
  PROVE  regs'.IP = f.ret /\ regs'.SP = f.SP + 2 /\ last_trap' = "OK"
<1> DEFINE low == Pull(Stack)
           high == Pull(low)
           target == ToWord(MakeWord(high.value, low.value) + 1)
<1>1. UseStack(high, [regs EXCEPT !.IP = target])
  BY DEF ReturnFromSubroutine
<1>2. f.SP \in Int /\ f.SP + 2 <= \hFF /\ f.ret \in Word /\ f.ret \in Int
  BY ByteRange, WordRange DEF Kept, FramesOK, Frames
<1>3. /\ IsStack(Stack) /\ Stack.SP = f.SP /\ Stack.memory = memory
      /\ Stack.trap = "OK" /\ f.SP # EMPTY_STACK_PTR
  BY <1>2, StackUsed DEF EMPTY_STACK_PTR
<1>4. /\ low.SP = f.SP + 1 /\ low.value = StackByte(memory, f.SP + 1)
      /\ low.trap = "OK" /\ low.memory = memory /\ IsStack(low)
  BY <1>3, PullOK
<1> HIDE DEF low
<1>5. low.SP # EMPTY_STACK_PTR /\ low.SP + 1 = f.SP + 2
  BY <1>2, <1>4 DEF EMPTY_STACK_PTR
<1>6. /\ high.SP = f.SP + 2 /\ high.value = StackByte(memory, f.SP + 2)
      /\ high.trap = "OK"
  BY <1>4, <1>5, PullOK
<1> HIDE DEF high
<1>7. MakeWord(high.value, low.value) = ToWord(f.ret - 1)
  <2>1. ToWord(f.ret - 1) \in Word
    <3>1. f.ret - 1 \in Int
      BY <1>2
    <3> QED BY <3>1, WordParts
  <2> QED BY <1>4, <1>6, <2>1, WordOfParts DEF Kept
<1>8. target = f.ret
  BY <1>2, <1>7, BackAndOn
<1> HIDE DEF target
<1>9. regs \in Registers
  BY DEF Sound, TypeOK
<1> QED BY <1>1, <1>6, <1>8, <1>9 DEF UseStack, Registers

\* RTS goes on after the JSR whose frame it finds, however deep the calls, pushes
\* and interrupts in between were nested.
THEOREM ReturnsMatchCalls == CallSpec /\ []LeavesStackAlone => ReturnMatchesCall
<1> DEFINE matches ==
      \A f \in frames :
        /\ Executing("return_from_subroutine_instr")
        /\ f.kind = "call" /\ f.SP = regs.SP
        => regs'.IP = f.ret /\ regs'.SP = f.SP + 2 /\ last_trap' = "OK"
<1>1. Inv /\ FramesOK /\ FramesKept /\ [CallNext]_callVars => [matches]_callVars
  <2> SUFFICES ASSUME Inv, FramesOK, FramesKept, CallNext,
                      NEW f \in frames, Executing("return_from_subroutine_instr"),
                      f.kind = "call", f.SP = regs.SP
               PROVE  regs'.IP = f.ret /\ regs'.SP = f.SP + 2 /\ last_trap' = "OK"
    OBVIOUS
  <2>1. Sound /\ last_trap = "OK" /\ Kept(f)
    BY DEF Inv, Executing, Running, FramesKept
  <2>2. ReturnFromSubroutine
    BY FrameSteps DEF CallNext
  <2> QED BY <2>1, <2>2, ReturnStep
<1> HIDE DEF matches
<1>2. CallSpec /\ []LeavesStackAlone => [][matches]_callVars
  BY <1>1, CallsInvariance, FramesInvariance, PTL DEF CallSpec
<1> QED BY <1>2 DEF ReturnMatchesCall, matches

\* RTI at the height of an open interrupt restores the flags BRK found.
LEMMA StatusStep ==
  ASSUME Sound, last_trap = "OK", FramesOK, NEW f \in frames, Kept(f),
         f.kind = "interrupt", f.SP = regs.SP, ReturnFromInterrupt
  PROVE  regs'.P = f.status /\ last_trap' = "OK"
<1> DEFINE status == Pull(Stack)
           low == Pull(status)
           high == Pull(low)
           target == MakeWord(high.value, low.value)
<1>1. UseStack(high, [regs EXCEPT !.P = status.value, !.IP = target])
  BY DEF ReturnFromInterrupt
<1>2. f.SP \in Int /\ f.SP + 3 <= \hFF
  BY ByteRange DEF Kept, FramesOK, Frames
<1>3. /\ IsStack(Stack) /\ Stack.SP = f.SP /\ Stack.memory = memory
      /\ Stack.trap = "OK" /\ f.SP # EMPTY_STACK_PTR
  BY <1>2, StackUsed DEF EMPTY_STACK_PTR
<1>4. /\ status.SP = f.SP + 1 /\ status.value = StackByte(memory, f.SP + 1)
      /\ status.trap = "OK" /\ status.memory = memory /\ IsStack(status)
  BY <1>3, PullOK
<1> HIDE DEF status
<1>5. status.SP # EMPTY_STACK_PTR
  BY <1>2, <1>4 DEF EMPTY_STACK_PTR
<1>6. /\ low.SP = f.SP + 1 + 1 /\ low.trap = "OK" /\ low.memory = memory
      /\ IsStack(low)
  BY <1>4, <1>5, PullOK
<1> HIDE DEF low
<1>7. low.SP # EMPTY_STACK_PTR
  BY <1>2, <1>6 DEF EMPTY_STACK_PTR
<1>8. high.trap = "OK"
  BY <1>6, <1>7, PullOK
<1> HIDE DEF high, target
<1>9. regs \in Registers
  BY DEF Sound, TypeOK
<1> QED BY <1>1, <1>4, <1>8, <1>9 DEF UseStack, Registers, Kept

\* RTI restores the flags that the BRK whose frame it finds has saved.
THEOREM StatusRestored == CallSpec /\ []LeavesStackAlone => StatusSurvivesInterrupt
<1> DEFINE survives ==
      \A f \in frames :
        /\ Executing("return_from_interrupt")
        /\ f.kind = "interrupt" /\ f.SP = regs.SP
        => regs'.P = f.status /\ last_trap' = "OK"
<1>1. Inv /\ FramesOK /\ FramesKept /\ [CallNext]_callVars => [survives]_callVars
  <2> SUFFICES ASSUME Inv, FramesOK, FramesKept, CallNext,
                      NEW f \in frames, Executing("return_from_interrupt"),
                      f.kind = "interrupt", f.SP = regs.SP
               PROVE  regs'.P = f.status /\ last_trap' = "OK"
    OBVIOUS
  <2>1. Sound /\ last_trap = "OK" /\ Kept(f)
    BY DEF Inv, Executing, Running, FramesKept
  <2>2. ReturnFromInterrupt
    BY FrameSteps DEF CallNext
  <2> QED BY <2>1, <2>2, StatusStep
<1> HIDE DEF survives
<1>2. CallSpec /\ []LeavesStackAlone => [][survives]_callVars
  BY <1>1, CallsInvariance, FramesInvariance, PTL DEF CallSpec
<1> QED BY <1>2 DEF StatusSurvivesInterrupt, survives

-----------------------------------------------------------------------------
(* Which programs leave the stack alone.                                    *)

IndexedModes == {"ABSOLUTE_X", "ABSOLUTE_Y"}

\* A store whose operand is in the zero page, or has a high byte that cannot be, or
\* be carried to, that of the stack page.  It can be told from the bytes of the
\* instruction, whatever the registers and the memory hold; the modes with a pointer
\* in the zero page are not among them.
StoresElsewhere ==
  Running("EXECUTE") /\ Impl \in Writers =>
    \/ Mode \in ZeroPageModes \cup {"ACCUMULATOR"}
    \/ Mode = "ABSOLUTE" /\ operands_buffer[1] # High(STACK_LOWEST_ADDRESS)
    \/ Mode \in IndexedModes /\ operands_buffer[1] \notin 0 .. High(STACK_LOWEST_ADDRESS)

\* An absolute address with another high byte than the stack page's is not in it.
LEMMA AbsoluteElsewhere ==
  ASSUME NEW hi \in Byte, hi # 1, NEW lo \in Byte, NEW b \in Byte
  PROVE  MakeWord(hi, lo) # 256 + b
<1>1. /\ hi \in Int /\ 0 <= hi /\ lo \in Int /\ 0 <= lo /\ lo <= 255
      /\ b \in Int /\ 0 <= b /\ b <= 255
  BY ByteRange
<1> QED BY <1>1 DEF MakeWord

\* Nor is an indexed one whose base lies above the stack page: the carry moves it
\* further up, or around to the zero page.
LEMMA IndexedElsewhere ==
  ASSUME NEW hi \in Byte, hi \notin 0 .. 1, NEW lo \in Byte, NEW index \in Byte,
         NEW b \in Byte
  PROVE  ToWord(MakeWord(hi, lo) + index) # 256 + b
<1>1. /\ hi \in Int /\ 2 <= hi /\ hi <= 255 /\ lo \in Int /\ 0 <= lo /\ lo <= 255
      /\ index \in Int /\ 0 <= index /\ index <= 255
      /\ b \in Int /\ 0 <= b /\ b <= 255
  BY ByteRange
<1> DEFINE sum == 256 * hi + lo + index
<1>2. sum \in Int /\ 512 <= sum /\ sum <= 65535 + 255
  BY <1>1
<1> HIDE DEF sum
<1>3. CASE sum <= 65535
  BY <1>1, <1>2, <1>3, sum % 65536 = sum DEF sum, ToWord, MakeWord
<1>4. CASE sum > 65535
  BY <1>1, <1>2, <1>4, sum % 65536 = sum - 65536 DEF sum, ToWord, MakeWord
<1> QED BY <1>2, <1>3, <1>4

\* Such stores keep off the stack page altogether, the used part included.
LEMMA ElsewhereLeavesStackAlone == Sound /\ StoresElsewhere => LeavesStackAlone
<1> SUFFICES ASSUME Sound, StoresElsewhere, Running("EXECUTE"), Impl \in Writers,
                    NEW b \in Byte
             PROVE  FirstOperand(Mode) # STACK_LOWEST_ADDRESS + b
  BY DEF LeavesStackAlone
<1>1. /\ operands_buffer[0] \in Byte /\ operands_buffer[1] \in Byte
      /\ regs.A \in Byte /\ regs.X \in Byte /\ regs.Y \in Byte
  BY DEF Sound, TypeOK, OPERANDS_BUFFER_SIZE, Registers
<1>2. STACK_LOWEST_ADDRESS = 256 /\ High(STACK_LOWEST_ADDRESS) = 1
  BY DEF STACK_LOWEST_ADDRESS, High
<1>3. CASE Mode \in ZeroPageModes \cup {"ACCUMULATOR"}
  <2>1. FirstOperand(Mode) \in Byte
    <3>1. CASE Mode = "ACCUMULATOR"
      BY <1>1, <3>1 DEF FirstOperand
    <3>2. CASE Mode \in ZeroPageModes
      BY <3>2, ZeroPageOperand DEF Sound
    <3> QED BY <1>3, <3>1, <3>2
  <2> QED BY <1>2, <2>1, ByteRange
<1>4. CASE Mode = "ABSOLUTE" /\ operands_buffer[1] # 1
  BY <1>1, <1>2, <1>4, AbsoluteElsewhere DEF FirstOperand
<1>5. CASE Mode \in IndexedModes /\ operands_buffer[1] \notin 0 .. 1
  <2>1. \E index \in Byte :
          FirstOperand(Mode) = ToWord(MakeWord(operands_buffer[1], operands_buffer[0]) + index)
    BY <1>1, <1>5 DEF FirstOperand, IndexedModes
  <2> QED BY <1>1, <1>2, <1>5, <2>1, IndexedElsewhere
<1> QED BY <1>2, <1>3, <1>4, <1>5 DEF StoresElsewhere

\* A program that stores to the zero page and to pages named in its instructions,
\* the stack's not among them, keeps the return addresses and the flags of
\* all its calls and interrupts, however it pushes, pulls, jumps and moves reg_SP.
THEOREM OrdinaryProgramsReturn ==
  CallSpec /\ []StoresElsewhere =>
    []FramesIntact /\ ReturnMatchesCall /\ StatusSurvivesInterrupt
<1>1. Inv /\ StoresElsewhere => LeavesStackAlone
  BY ElsewhereLeavesStackAlone DEF Inv
<1>2. CallSpec /\ []StoresElsewhere => []LeavesStackAlone
  BY <1>1, CallsInvariance, PTL
<1> QED BY <1>2, ReturnAddressesKept, ReturnsMatchCalls, StatusRestored
=============================================================================
