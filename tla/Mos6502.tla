------------------------------ MODULE Mos6502 ------------------------------
(***************************************************************************)
(* What README.md and opcodes.h say of the instruction set, and the code   *)
(* does not do.  Two more such statements are SubtractionOverflow in       *)
(* Arithmetic and InterruptReturns in Calls.                               *)
(***************************************************************************)
EXTENDS Cpu

\* The official opcodes of the 6502 with the bit pattern xxxxxx01: ORA, AND, EOR,
\* ADC, STA, LDA, CMP and SBC, in eight modes each; only STA has no immediate.
GroupOne == {op \in Byte : op % 4 = 1} \ {\h89}

\* README.md: "All official 6502 instructions are supported": none of them is
\* refused as an illegal opcode.
OfficialOpcodesSupported ==
  last_trap = "ILLEGAL_OPCODE" => reg_IR \notin GroupOne

ZeroPageY == ToByte(operands_buffer[0] + regs.Y)

\* opcodes.h: LDXZY_OPCOD moves to X "a value from zero page address + Y", and
\* STXZY_OPCOD stores X to "zero page address + Y".
ZeroPageYIsIndexed ==
  [][Running("EXECUTE") /\ Mode = "ZERO_PAGE_Y" =>
       /\ Executing("load_x_instr")  => regs'.X = Peek(memory, ZeroPageY)
       /\ Executing("store_x_instr") => Peek(memory', ZeroPageY) = regs.X]_vars
=============================================================================
