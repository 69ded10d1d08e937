------------------------------- MODULE MCCpu -------------------------------
(***************************************************************************)
(* One machine per program: every opcode of the table and every illegal    *)
(* one with operands at the edges of the pages, and short sequences of     *)
(* accesses to the I/O page.                                               *)
(***************************************************************************)
EXTENDS CpuProperties, Mos6502, Sequences, TLC

ORIGIN == \h0300

\* Bytes no image sets are an illegal opcode, so that a program which runs past
\* its end stops.
MCHeap == [a \in Word |-> \h02]

\* End of file, the newline apple2_memory_read converts, and two keys that with
\* KEYBOARD_READY_MASK are the opcodes of INY and of the illegal 0xFF.
MCStdin == {-1, 10, \h48}

MCGarbage == {\hAA}

MCPowerOn ==
  {[video_mode |-> "GRAPHICS", page |-> "SEC", res |-> "HI",
    term_render_request |-> FALSE, keyboard_latch |-> \h41, keyboard_ready |-> ready] :
     ready \in BOOLEAN}

\* The cells of a ROM image: the code, the reset vector, and two zero-page
\* cells that make the pointer at 0x00FF, which wraps, address the keyboard.
Image(code) ==
     [a \in ORIGIN .. ORIGIN + Len(code) - 1 |-> code[a - ORIGIN + 1]]
  @@ \hFFFC :> Low(ORIGIN) @@ \hFFFD :> High(ORIGIN)
  @@ \h00FF :> \h00 @@ \h0000 :> \hC0

\* LDX #index, LDY #index, LDA #a, CLC or SEC.
Prelude(index, a, carry) ==
  <<\hA2, index, \hA0, index, \hA9, a, carry>>

OperandBytes(op) == BytesForOperands(OpcodeData[op].mode)

Operands(op) ==
  CASE OperandBytes(op) = 0 -> {<<>>}
    [] OperandBytes(op) = 1 -> {<<lo>> : lo \in {\h00, \h7F, \h80, \hFE, \hFF}}
    [] OTHER -> {<<Low(w), High(w)>> :
                   w \in {\h0001, \h00FF, \h0400, \h0BFF, \hBFFF, \hC000, \hC0FF,
                          \hCFFF, \hFFFF}}

InstructionTests ==
  {Image(Prelude(index, a, carry) \o <<op>> \o operands) :
     index \in {\h01, \hFF}, a \in {\h80}, carry \in {\h18, \h38},
     <<op, operands>> \in UNION {{op} \X Operands(op) : op \in Byte}}

\* LDA KEYBOARD_DATA, LDA KEYBOARD_STROBE, STA KEYBOARD_STROBE, INC KEYBOARD_DATA,
\* LDA of four soft switches, STA of a text page, and JMP (SET_PRIM).
DeviceAccesses ==
  {<<\hAD, \h00, \hC0>>, <<\hAD, \h10, \hC0>>, <<\h8D, \h10, \hC0>>, <<\hEE, \h00, \hC0>>,
   <<\hAD, \h50, \hC0>>, <<\hAD, \h51, \hC0>>, <<\hAD, \h55, \hC0>>, <<\hAD, \h56, \hC0>>,
   <<\h8D, \h00, \h04>>, <<\h6C, \h54, \hC0>>}

DeviceTests ==
  {Image(i \o j \o k) : i, j, k \in DeviceAccesses}

MCImages == InstructionTests \cup DeviceTests
=============================================================================
