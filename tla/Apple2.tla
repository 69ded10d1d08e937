------------------------------- MODULE Apple2 -------------------------------
(***************************************************************************)
(* The memory component (memory.c) with the read and write functions the   *)
(* Apple ][ platform installs in it (apple2.c): RAM and ROM cells, the     *)
(* soft switches, the keyboard and the request to redraw the screen.       *)
(*                                                                         *)
(* memory  is struct Memory.  memory.cells holds only the bytes that the   *)
(*         ROM image or a write has set; any other byte is still what      *)
(*         malloc returned, Heap[a].  memory.size is memory_size: 0 when   *)
(*         malloc failed or the memory was freed.                          *)
(* ap_data is apple2_data_t, what memory.computer_data points to.          *)
(*                                                                         *)
(* memory_read and memory_write only call the installed function, so they  *)
(* have no operator of their own.                                          *)
(***************************************************************************)
EXTENDS Base

CONSTANTS
  Heap,   \* the bytes of the block malloc returned to memory_init
  Stdin   \* what getchar() may return: characters, or -1 for EOF

ASSUME HeapAssumption  == Heap \in [Word -> Byte]
ASSUME StdinAssumption == Stdin # {} /\ Stdin \subseteq -1 .. \hFF

MEMORY_SIZE == 65536

TEXT_START_PRIM == \h0400
TEXT_END_PRIM   == \h07FF
TEXT_START_SEC  == \h0800
TEXT_END_SEC    == \h0BFF
IO_START        == \hC000
ROM_START       == \hD000

\* A faulty variant of KEYBOARD_STROBE: the address after that of the data.
KEYBOARD_STROBE_Next == \hC001

KEYBOARD_DATA   == \hC000
KEYBOARD_STROBE == \hC010
SET_GRAPHICS    == \hC050
SET_TEXT        == \hC051
SET_PRIM        == \hC054
SET_SEC         == \hC055
SET_LO          == \hC056
SET_HI          == \hC057

KEYBOARD_READY_MASK == \h80

-----------------------------------------------------------------------------
IsCells(f) == DOMAIN f \subseteq Word /\ f \in [DOMAIN f -> Byte]

IsMemory(m) ==
  /\ m = [cells |-> m.cells, size |-> m.size]
  /\ IsCells(m.cells)
  /\ m.size \in {0, MEMORY_SIZE}

AppleData ==
  [video_mode : {"TEXT", "GRAPHICS"}, page : {"PRIM", "SEC"}, res : {"HI", "LO"},
   term_render_request : BOOLEAN, keyboard_latch : Byte, keyboard_ready : BOOLEAN]

\* memory->memory[address]
ByteAt(m, address) ==
  IF address \in DOMAIN m.cells THEN m.cells[address] ELSE Heap[address]

Accessible(m, address) == address < m.size

-----------------------------------------------------------------------------
(* apple2_memory_read.                                                     *)

\* The key a read of KEYBOARD_DATA latches when getchar() returns chr.
Latched(chr) == SetBit(ToByte(IF chr = 10 THEN 13 ELSE chr), KEYBOARD_READY_MASK)

\* A faulty variant of DataAfterRead: a new character replaces a latched one.
DataAfterRead_Relatch(d, address, chr) ==
  CASE address = KEYBOARD_DATA ->
         [d EXCEPT !.keyboard_latch = Latched(chr), !.keyboard_ready = TRUE]
    [] address = KEYBOARD_STROBE -> [d EXCEPT !.keyboard_ready = FALSE]
    [] OTHER -> d

\* The device after a read of address: soft switches, keyboard and strobe.
DataAfterRead(d, address, chr) ==
  CASE address = SET_GRAPHICS -> [d EXCEPT !.video_mode = "GRAPHICS"]
    [] address = SET_TEXT     -> [d EXCEPT !.video_mode = "TEXT"]
    [] address = SET_PRIM     -> [d EXCEPT !.page = "PRIM"]
    [] address = SET_SEC      -> [d EXCEPT !.page = "SEC"]
    [] address = SET_LO       -> [d EXCEPT !.res = "LO"]
    [] address = SET_HI       -> [d EXCEPT !.res = "HI"]
    [] address = KEYBOARD_DATA /\ ~d.keyboard_ready ->
         [d EXCEPT !.keyboard_latch = Latched(chr), !.keyboard_ready = TRUE]
    [] address = KEYBOARD_STROBE -> [d EXCEPT !.keyboard_ready = FALSE]
    [] OTHER -> d

\* The value returned, the value left in *success, and the device afterwards.
MemoryRead(m, d, address, chr) ==
  IF Accessible(m, address)
  THEN LET after == DataAfterRead(d, address, chr)
       IN  [success |-> TRUE,
            value   |-> IF address = KEYBOARD_DATA THEN after.keyboard_latch
                        ELSE IF address \in IO_START .. ROM_START - 1 THEN 0
                        ELSE ByteAt(m, address),
            data    |-> after]
  ELSE [success |-> FALSE, value |-> 0, data |-> d]

\* Whether a read of address waits in getchar() for the user.
WaitsForKey(m, d, address) ==
  Accessible(m, address) /\ address = KEYBOARD_DATA /\ ~d.keyboard_ready

\* A read below the I/O page, which has no effect on the device.
Peek(m, address) == IF Accessible(m, address) THEN ByteAt(m, address) ELSE 0

-----------------------------------------------------------------------------
(* apple2_memory_write.                                                    *)

Store(cells, address, value) ==
  [a \in DOMAIN cells \cup {address} |-> IF a = address THEN value ELSE cells[a]]

\* A faulty variant of MemoryAfterWrite: the ROM can be written.
MemoryAfterWrite_Rom(m, address, value) ==
  IF Accessible(m, address) /\ address \notin IO_START .. ROM_START - 1
  THEN [m EXCEPT !.cells = Store(m.cells, address, value)]
  ELSE m

\* Only the RAM below the I/O page is stored to.
MemoryAfterWrite(m, address, value) ==
  IF Accessible(m, address) /\ address < IO_START
  THEN [m EXCEPT !.cells = Store(m.cells, address, value)]
  ELSE m

\* A faulty variant of DataAfterWrite: only the primary page asks for a redraw.
DataAfterWrite_Primary(m, d, address) ==
  IF Accessible(m, address) /\ address \in TEXT_START_PRIM .. TEXT_END_PRIM
  THEN [d EXCEPT !.term_render_request = TRUE]
  ELSE d

\* A write to either text page asks for a redraw.
DataAfterWrite(m, d, address) ==
  IF /\ Accessible(m, address)
     /\ \/ address \in TEXT_START_PRIM .. TEXT_END_PRIM
        \/ address \in TEXT_START_SEC .. TEXT_END_SEC
  THEN [d EXCEPT !.term_render_request = TRUE]
  ELSE d
=============================================================================
