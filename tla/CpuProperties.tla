--------------------------- MODULE CpuProperties ---------------------------
(***************************************************************************)
(* What the CPU and the Apple ][ memory must keep true, cycle by cycle.    *)
(***************************************************************************)
EXTENDS Cpu

\* Every variable has its C type; in particular reg_IP stays a word, the other
\* registers bytes, and the index into operands_buffer never passes its end.
TypeOK ==
  /\ regs \in Registers
  /\ reg_IR \in Byte
  /\ state \in {"FETCH", "DECODE", "FETCH_OPERAND", "EXECUTE"}
  /\ remaining_bytes \in Byte
  /\ operands_buffer \in [0 .. OPERANDS_BUFFER_SIZE - 1 -> Byte]
  /\ operands_buffer_index \in 0 .. OPERANDS_BUFFER_SIZE
  /\ last_trap \in Traps
  /\ IsMemory(memory)
  /\ ap_data \in AppleData

-----------------------------------------------------------------------------
(* The pipeline of cpu_do_cycle.                                           *)

BetweenInstructions ==
  state \in {"FETCH", "DECODE"} =>
    operands_buffer = EmptyBuffer /\ operands_buffer_index = 0

OperandsPending ==
  state = "FETCH_OPERAND" /\ last_trap = "OK" =>
    /\ Legal(reg_IR)
    /\ remaining_bytes > 0
    /\ operands_buffer_index + remaining_bytes = BytesForOperands(Mode)

OperandsComplete ==
  state = "EXECUTE" /\ last_trap = "OK" =>
    /\ Legal(reg_IR)
    /\ remaining_bytes = 0
    /\ operands_buffer_index = BytesForOperands(Mode)

\* The state machine, the byte count and the buffer index of cpu_do_cycle agree:
\* operands are fetched for legal opcodes only, an instruction executes with
\* exactly the operand bytes its row in instructions_data.c asks for, and it
\* leaves nothing behind for the next one.
PipelineConsistent == BetweenInstructions /\ OperandsPending /\ OperandsComplete

\* cpu.h lists the traps.  A program can only bring about an illegal opcode, a
\* stack overflow and a stack underflow: no read of a running machine fails, as
\* every word is an address of the 64K memory, and the operand buffer, checked
\* in the FETCH_OPERAND case, is never full.
OnlyProgramTraps == last_trap \notin {"SEGMENTATION_FAULT", "INTERNAL_BUF_OVERFLOW"}

InIOPage(address) == address \in IO_START .. ROM_START - 1

\* The instruction being fetched or executed is the one memory holds just before
\* reg_IP: the opcode in reg_IR, then operand bytes in the order of the buffer,
\* wherever the program counter wrapped and whatever the last instruction left.
InstructionIsInMemory ==
  LET place(i) == ToWord(regs.IP - operands_buffer_index + i)
      same(i, byte) == InIOPage(place(i)) \/ byte = ByteAt(memory, place(i))
  IN  state # "FETCH" /\ last_trap = "OK" =>
        /\ same(-1, reg_IR)
        /\ \A i \in 0 .. operands_buffer_index - 1 : same(i, operands_buffer[i])

\* A legal instruction, once decoded, is executed, unless it waits for the user
\* in getchar(): no trap, full buffer or lost byte count can come in between.
LegalInstructionCompletes ==
  Running("DECODE") /\ Legal(reg_IR) ~> state = "FETCH" \/ WaitingForKey

\* A machine that has neither trapped nor waits for a key has a next cycle, and that
\* cycle changes something: no state, count or opcode is left without a case in
\* cpu_do_cycle, and the loop of emulator_run never turns on the spot.
NeverStuck ==
  last_trap = "OK" /\ ~WaitingForKey => ENABLED <<Next /\ ~WaitingForKey>>_vars

-----------------------------------------------------------------------------
(* Memory and the device.                                                  *)

\* Whatever is executed, the I/O page and the ROM above it keep their bytes and
\* the memory its size: apple2_memory_write is reached by stores, by the
\* read-modify-write instructions and by the stack, and only RAM takes a write.
ROMIsReadOnly ==
  [][/\ memory'.size = memory.size
     /\ \A a \in DOMAIN memory.cells \cup DOMAIN memory'.cells :
          a >= IO_START => ByteAt(memory', a) = ByteAt(memory, a)]_vars

\* A key the user typed is held in the latch until the program reads the strobe,
\* however often it, or an opcode or operand fetch, reads the keyboard address
\* in between; and no read but the strobe's forgets that there is one.
KeyHeldUntilStrobe ==
  [][ap_data.keyboard_ready =>
       /\ ap_data'.keyboard_latch = ap_data.keyboard_latch
       /\ ~ap_data'.keyboard_ready =>
            KEYBOARD_STROBE \in NextReads]_vars

\* What a program can tell of the keyboard.
Key(d) == <<d.keyboard_latch, d.keyboard_ready>>

\* C leaves it to the compiler which of the two reads of JMP (abs) is done first.  The
\* program cannot tell but by the soft switches: each read gives what it would give
\* alone, and the keyboard is left as the one read that concerns it leaves it.
JumpReadsCommute ==
  [][Executing("jump_instr") /\ Mode = "INDIRECT" =>
       LET low           == FirstOperand("ABSOLUTE")
           high          == HighPartAddress(low)
           Alone(a, chr) == MemoryRead(memory, ap_data, a, chr)
       IN  \E chr \in Stdin :
             /\ regs'.IP = MakeWord(Alone(high, chr).value, Alone(low, chr).value)
             /\ \E a \in {low, high} : Key(ap_data') = Key(Alone(a, chr).data)
             /\ \A a \in {low, high} :
                  Key(Alone(a, chr).data) \in {Key(ap_data), Key(ap_data')}]_vars

\* The zero-page modes never reach past the zero page, whatever the index.
ZeroPageConfined ==
  [][Running("EXECUTE") /\ Mode \in {"ZERO_PAGE", "ZERO_PAGE_X", "ZERO_PAGE_Y"} =>
       \A a \in DOMAIN memory'.cells :
         a > \hFF => a \in DOMAIN memory.cells /\ memory'.cells[a] = memory.cells[a]]_vars
=============================================================================
