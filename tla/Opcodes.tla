------------------------------ MODULE Opcodes ------------------------------
(***************************************************************************)
(* The instruction table of instructions_data.c with the opcode values of  *)
(* opcodes.h: for each opcode the function that implements it, by its name *)
(* in the source, and its addressing mode.                                 *)
(***************************************************************************)
EXTENDS Base

\* The entries whose addressing mode is IMPLIED or RELATIVE, by function.
Implied == [
  nop_instr |-> \hEA,
  inc_x_instr |-> \hE8, inc_y_instr |-> \hC8, dec_x_instr |-> \hCA, dec_y_instr |-> \h88,
  push_a_instr |-> \h48, push_processor_status_instr |-> \h08,
  pull_a_instr |-> \h68, pull_processor_status_instr |-> \h28,
  return_from_subroutine_instr |-> \h60,
  clc_instr |-> \h18, cld_instr |-> \hD8, cli_instr |-> \h58, clv_instr |-> \hB8,
  sec_instr |-> \h38, sed_instr |-> \hF8, sei_instr |-> \h78,
  transfer_a_to_x_instr |-> \hAA, transfer_a_to_y_instr |-> \hA8,
  transfer_x_to_a_instr |-> \h8A, transfer_y_to_a_instr |-> \h98,
  transfer_sp_to_x_instr |-> \hBA, transfer_x_to_sp_instr |-> \h9A,
  force_interrupt_instr |-> \h00, return_from_interrupt |-> \h40]

Relative == [
  bcc_instr |-> \h90, bcs_instr |-> \hB0, beq_instr |-> \hF0, bne_instr |-> \hD0,
  bpl_instr |-> \h10, bmi_instr |-> \h30, bvc_instr |-> \h50, bvs_instr |-> \h70]

\* All other entries, by function and addressing mode.
Addressed == [
  load_a_instr |-> [IMMEDIATE |-> \hA9, ZERO_PAGE |-> \hA5, ZERO_PAGE_X |-> \hB5,
    ABSOLUTE |-> \hAD, ABSOLUTE_X |-> \hBD, ABSOLUTE_Y |-> \hB9,
    INDIRECT_X |-> \hA1, INDIRECT_Y |-> \hB1],
  load_x_instr |-> [IMMEDIATE |-> \hA2, ZERO_PAGE |-> \hA6, ZERO_PAGE_Y |-> \hB6,
    ABSOLUTE |-> \hAE, ABSOLUTE_Y |-> \hBE],
  load_y_instr |-> [IMMEDIATE |-> \hA0, ZERO_PAGE |-> \hA4, ZERO_PAGE_X |-> \hB4,
    ABSOLUTE |-> \hAC, ABSOLUTE_X |-> \hBC],
  store_a_instr |-> [ZERO_PAGE |-> \h85, ZERO_PAGE_X |-> \h95, ABSOLUTE |-> \h8D,
    ABSOLUTE_X |-> \h9D, ABSOLUTE_Y |-> \h99, INDIRECT_X |-> \h81, INDIRECT_Y |-> \h91],
  store_x_instr |-> [ZERO_PAGE |-> \h86, ZERO_PAGE_Y |-> \h96, ABSOLUTE |-> \h8E],
  store_y_instr |-> [ZERO_PAGE |-> \h84, ZERO_PAGE_X |-> \h94, ABSOLUTE |-> \h8C],
  and_with_accumulator_instr |-> [IMMEDIATE |-> \h29, ZERO_PAGE |-> \h25,
    ZERO_PAGE_X |-> \h35, ABSOLUTE |-> \h2D, ABSOLUTE_X |-> \h3D, ABSOLUTE_Y |-> \h39],
  or_with_accumulator_instr |-> [IMMEDIATE |-> \h09, ZERO_PAGE |-> \h05,
    ZERO_PAGE_X |-> \h15, ABSOLUTE |-> \h0D, ABSOLUTE_X |-> \h1D, ABSOLUTE_Y |-> \h19,
    INDIRECT_X |-> \h01, INDIRECT_Y |-> \h11],
  exclusive_or_instr |-> [IMMEDIATE |-> \h49, ZERO_PAGE |-> \h45, ZERO_PAGE_X |-> \h55,
    ABSOLUTE |-> \h4D, ABSOLUTE_X |-> \h5D, ABSOLUTE_Y |-> \h59,
    INDIRECT_X |-> \h41, INDIRECT_Y |-> \h51],
  add_to_accumulator_instr |-> [IMMEDIATE |-> \h69, ZERO_PAGE |-> \h65,
    ZERO_PAGE_X |-> \h75, ABSOLUTE |-> \h6D, ABSOLUTE_X |-> \h7D, ABSOLUTE_Y |-> \h79],
  sub_from_accumulator_instr |-> [IMMEDIATE |-> \hE9, ZERO_PAGE |-> \hE5,
    ZERO_PAGE_X |-> \hF5, ABSOLUTE |-> \hED, ABSOLUTE_X |-> \hFD, ABSOLUTE_Y |-> \hF9,
    INDIRECT_X |-> \hE1, INDIRECT_Y |-> \hF1],
  cmp_instr |-> [IMMEDIATE |-> \hC9, ZERO_PAGE |-> \hC5, ZERO_PAGE_X |-> \hD5,
    ABSOLUTE |-> \hCD, ABSOLUTE_X |-> \hDD, ABSOLUTE_Y |-> \hD9,
    INDIRECT_X |-> \hC1, INDIRECT_Y |-> \hD1],
  cpx_instr |-> [IMMEDIATE |-> \hE0, ZERO_PAGE |-> \hE4, ABSOLUTE |-> \hEC],
  cpy_instr |-> [IMMEDIATE |-> \hC0, ZERO_PAGE |-> \hC4, ABSOLUTE |-> \hCC],
  inc_memory_instr |-> [ZERO_PAGE |-> \hE6, ZERO_PAGE_X |-> \hF6, ABSOLUTE |-> \hEE,
    ABSOLUTE_X |-> \hFE],
  dec_memory_instr |-> [ZERO_PAGE |-> \hC6, ZERO_PAGE_X |-> \hD6, ABSOLUTE |-> \hCE,
    ABSOLUTE_X |-> \hDE],
  test_bit_instr |-> [ZERO_PAGE |-> \h24, ABSOLUTE |-> \h2C],
  arithmetic_shift_left |-> [ACCUMULATOR |-> \h0A, ZERO_PAGE |-> \h06,
    ZERO_PAGE_X |-> \h16, ABSOLUTE |-> \h0E, ABSOLUTE_X |-> \h1E],
  logical_shift_right_instr |-> [ACCUMULATOR |-> \h4A, ZERO_PAGE |-> \h46,
    ZERO_PAGE_X |-> \h56, ABSOLUTE |-> \h4E, ABSOLUTE_X |-> \h5E],
  rotate_left |-> [ACCUMULATOR |-> \h2A, ZERO_PAGE |-> \h26, ZERO_PAGE_X |-> \h36,
    ABSOLUTE |-> \h2E, ABSOLUTE_X |-> \h3E],
  rotate_right |-> [ACCUMULATOR |-> \h6A, ZERO_PAGE |-> \h66, ZERO_PAGE_X |-> \h76,
    ABSOLUTE |-> \h6E, ABSOLUTE_X |-> \h7E],
  jump_instr |-> [ABSOLUTE |-> \h4C, INDIRECT |-> \h6C],
  jump_subroutine_instr |-> [ABSOLUTE |-> \h20]]

\* bytes_for_operands: in every row of the table it is the one its mode needs.
BytesForOperands(mode) ==
  CASE mode \in {"IMPLIED", "ACCUMULATOR"} -> 0
    [] mode \in {"ABSOLUTE", "ABSOLUTE_X", "ABSOLUTE_Y", "INDIRECT"} -> 2
    [] OTHER -> 1

Row(opcode, impl, mode) == [opcode |-> opcode, impl |-> impl, mode |-> mode]

Table ==
       {Row(Implied[i], i, "IMPLIED") : i \in DOMAIN Implied}
  \cup {Row(Relative[i], i, "RELATIVE") : i \in DOMAIN Relative}
  \cup UNION {{Row(Addressed[i][m], i, m) : m \in DOMAIN Addressed[i]} :
                i \in DOMAIN Addressed}

\* An entry the table leaves zero; get_opcode_data returns NULL for it.
NULL_IMPL == "NULL"

\* get_opcode_data
OpcodeData ==
  [op \in Byte |->
     IF \E r \in Table : r.opcode = op
       THEN CHOOSE r \in Table : r.opcode = op
       ELSE Row(op, NULL_IMPL, "IMPLIED")]

Legal(op) == OpcodeData[op].impl # NULL_IMPL
=============================================================================
