------------------------------- MODULE Screen -------------------------------
(***************************************************************************)
(* What render (apple2.c) puts on the terminal: 24 rows of 40 characters   *)
(* out of a text page, whose rows are not in order in memory.  A character *)
(* is its ASCII code.                                                      *)
(***************************************************************************)
EXTENDS Apple2

ROWS_COUNT == 24
COLS_COUNT == 40

Rows == 0 .. ROWS_COUNT - 1
Cols == 0 .. COLS_COUNT - 1

PageBase(page) == IF page = "PRIM" THEN TEXT_START_PRIM ELSE TEXT_START_SEC

\* calculate_row_address
RowAddress(base, row) == base + \h80 * (row % 8) + \h28 * (row \div 8)

NOP_OPCOD == \hEA

BLANK    == 32
QUESTION == 63

\* isprint in the C locale, in which the program runs.
Printable == \h20 .. \h7E

\* A faulty variant of Symbol: control codes are not moved to the letters.
Symbol_Control(byte, success) ==
  LET symbol == byte % \h80
  IN  IF byte = NOP_OPCOD THEN QUESTION
      ELSE IF success /\ symbol # \h7F THEN symbol ELSE BLANK

\* The character that shows byte, which memory_read returned with success.
Symbol(byte, success) ==
  LET low    == byte % \h80
      symbol == IF low < \h20 THEN low + \h40 ELSE low
  IN  IF byte = NOP_OPCOD THEN QUESTION
      ELSE IF success /\ symbol \in Printable THEN symbol ELSE BLANK

\* The contents of the array screen after the loops of render.
Picture(m, page) ==
  [place \in Rows \X Cols |->
     LET address == RowAddress(PageBase(page), place[1]) + place[2]
     IN  Symbol(Peek(m, address), Accessible(m, address))]
=============================================================================
