------------------------------ MODULE Emulator ------------------------------
(***************************************************************************)
(* The loop of emulator_run: it calls cpu_do_cycle, ends at a trap, and    *)
(* after every other cycle calls the render function of the platform,      *)
(* apple2_render.  Processor and screen meet in the memory and in the      *)
(* request to redraw, which stores set and a rendering clears.             *)
(***************************************************************************)
EXTENDS Cpu, Screen

VARIABLES
  phase,   \* what emulator_run does next, or "ended" after a trap
  screen   \* the page and the picture on the terminal

emulatorVars == <<vars, phase, screen>>

\* Before the first rendering.
Nothing == [page |-> "NONE", picture |-> [place \in Rows \X Cols |-> BLANK]]

EmulatorInit ==
  /\ Init
  /\ phase = "cycle"
  /\ screen = Nothing

\* A faulty variant of Cycle: the loop does not look at the trap.
Cycle_IgnoreTrap ==
  /\ phase = "cycle"
  /\ Next
  /\ phase' = "render"
  /\ UNCHANGED screen

\* cpu_do_cycle; a trap leaves the loop before the rendering.
Cycle ==
  /\ phase = "cycle"
  /\ Next
  /\ phase' = IF last_trap' = "OK" THEN "render" ELSE "ended"
  /\ UNCHANGED screen

\* A faulty variant of Redraw: always the primary page.
Redraw_Primary ==
  /\ screen' = [page |-> "PRIM", picture |-> Picture(memory, "PRIM")]
  /\ ap_data' = [ap_data EXCEPT !.term_render_request = FALSE]

\* The rest of apple2_render if there is a request.
Redraw ==
  /\ screen' = [page |-> ap_data.page, picture |-> Picture(memory, ap_data.page)]
  /\ ap_data' = [ap_data EXCEPT !.term_render_request = FALSE]

\* A faulty variant of Render: all of the device data is cleared.
Render_ResetDevice ==
  /\ phase = "render"
  /\ IF ap_data.term_render_request
     THEN /\ screen' = [page |-> ap_data.page, picture |-> Picture(memory, ap_data.page)]
          /\ ap_data' = [ap_data EXCEPT !.term_render_request = FALSE,
                                        !.keyboard_ready = FALSE]
     ELSE UNCHANGED <<screen, ap_data>>
  /\ phase' = "cycle"
  /\ UNCHANGED <<regs, reg_IR, state, remaining_bytes, operands_buffer,
                 operands_buffer_index, last_trap, memory>>

\* apple2_render
Render ==
  /\ phase = "render"
  /\ IF ap_data.term_render_request THEN Redraw ELSE UNCHANGED <<screen, ap_data>>
  /\ phase' = "cycle"
  /\ UNCHANGED <<regs, reg_IR, state, remaining_bytes, operands_buffer,
                 operands_buffer_index, last_trap, memory>>

EmulatorNext == Cycle \/ Render

\* The loop goes on as long as getchar() returns; see Fairness in Cpu.
EmulatorFairness == WF_emulatorVars(EmulatorNext /\ ~(phase = "cycle" /\ WaitingForKey))

EmulatorSpec ==
  EmulatorInit /\ [][EmulatorNext]_emulatorVars /\ EmulatorFairness

-----------------------------------------------------------------------------
\* The variables of the loop, and the screen: nothing but printable characters
\* goes to the terminal, whatever bytes the program left in the text pages.
EmulatorTypeOK ==
  /\ phase \in {"cycle", "render", "ended"}
  /\ screen.page \in {"NONE", "PRIM", "SEC"}
  /\ screen.picture \in [Rows \X Cols -> Printable]

\* Whenever the user can look, while a cycle runs, waits for a key or after the
\* emulator has ended, the terminal shows what memory holds in the page that was
\* drawn last.  A trap ends the loop before the rendering, so this needs that no
\* cycle both stores to a text page and traps.
ScreenCurrent ==
  phase # "render" /\ screen.page # "NONE" =>
    screen.picture = Picture(memory, screen.page)

\* The emulator never ends without having drawn the screen.
DrawnBeforeEnd == phase = "ended" => screen.page # "NONE"

\* The loop of emulator_run ends at a trap only and waits for nothing but a key: in
\* every other state it has a next turn, a cycle or a rendering.
LoopNeverStuck ==
  phase # "ended" /\ ~(phase = "cycle" /\ WaitingForKey) =>
    ENABLED <<EmulatorNext /\ ~(phase = "cycle" /\ WaitingForKey)>>_emulatorVars

\* A store to a text page brings the page the program has selected to the screen,
\* though the selection itself asks for no redraw.
RequestShowsPage ==
  ap_data.term_render_request ~>
    screen.page = ap_data.page \/ WaitingForKey
=============================================================================
