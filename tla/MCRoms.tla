------------------------------- MODULE MCRoms -------------------------------
(***************************************************************************)
(* The two test programs in roms/, run from reset to the end: whole        *)
(* programs, where the other runs take a few instructions at a time.       *)
(***************************************************************************)
EXTENDS Cpu, Sequences

\* Both images fill the 64K with NOP around the code at address 0.
NOP == \hEA
MCHeap    == [a \in Word |-> NOP]
MCStdin   == {-1}
MCGarbage == {\h00}

MCPowerOn ==
  {[video_mode |-> "TEXT", page |-> "PRIM", res |-> "LO", term_render_request |-> TRUE,
    keyboard_latch |-> \h00, keyboard_ready |-> FALSE]}

\* The code, and the address 0 in those cells of the reset vector that are set.
Code(bytes, vector) ==
  [a \in (0 .. Len(bytes) - 1) \cup vector |-> IF a \in vector THEN 0 ELSE bytes[a + 1]]

\* roms/fibonacci.rom: with F0 and F1 in the cells 0 and 1, store F1 in the
\* table at 0x0200 indexed by X, count X up, step the pair, and repeat for ever.
FibonacciCode ==
  <<\hA9, \h00, \h85, \h00, \hA9, \h01, \h85, \h01, \hA2, \h00,
    \hA5, \h01, \h9D, \h00, \h02, \hE8, \h18, \hA5, \h00, \h65, \h01, \h85, \h02,
    \hA5, \h01, \h85, \h00, \hA5, \h02, \h85, \h01, \h4C, \h0A, \h00>>

Fibonacci == Code(FibonacciCode, {RESET_VECTOR_LOW, RESET_VECTOR_HIGH})

\* roms/for_cycle.rom: count X down from five and A up from zero.  Its reset
\* vector is filler too, so the machine starts at 0xEAEA and comes to the code
\* when the program counter wraps.
ForCycleCode ==
  <<\hA9, \h00, \hA2, \h05, \h18, \hCA, \h69, \h01, \hE0, \h00, \hD0, \hF8>>

ForCycle == Code(ForCycleCode, {})

MCImages == {Fibonacci, ForCycle}

-----------------------------------------------------------------------------
TABLE == \h0200

\* Each byte of the table is the sum of the two before it, but for the three
\* around X, where this turn of the index meets the one before.  X wraps at 256,
\* the sums at 256 too, so the table is right only if STA's index, INX, the carry
\* and the loop's jump all are.
FibonacciTable ==
  \A i \in 2 .. \hFF :
    /\ {TABLE + i - 2, TABLE + i - 1, TABLE + i} \subseteq DOMAIN memory.cells
    /\ i \notin regs.X .. regs.X + 2
    => memory.cells[TABLE + i]
         = ToByte(memory.cells[TABLE + i - 1] + memory.cells[TABLE + i - 2])

\* The machine that was reset into the filler reaches the code and leaves the
\* loop with the count in A, which needs the wrap of reg_IP, the flags CPX sets
\* and the negative offset of BNE.
ForCycleEnds ==
  regs.IP = \hEAEA
    ~> /\ regs.IP = Len(ForCycleCode)
       /\ state = "FETCH"
       /\ regs.A = 5 /\ regs.X = 0
=============================================================================
