# A model of the 6502 / Apple ][ emulator

TLA+ modules that model the emulator in `source/`, TLC configurations that check
them, and TLAPS proofs of what holds for every ROM image, and of one ROM image. Line numbers are those
of the repository at the modelled commit.

## 1. The system

The emulator is a sequential C program. `main` parses the command line, builds an
`emulator_t`, and `emulator_run` calls `cpu_do_cycle` and then `render` until a
cycle returns a trap. There is one thread; what is concurrent is the user, whose
keys arrive through `getchar()`, and what is hard is that one instruction is
spread over several cycles, that reads of the I/O page change the device, and that
programs may jump, store and push anywhere.

| Part | State | Operations | Interacts with |
|---|---|---|---|
| CPU (`core/cpu/cpu.c`) | registers, `state`, `remaining_bytes`, `operands_buffer` and its index, `last_trap` | `cpu_init`, `cpu_do_cycle` (fetch, decode, fetch operand, execute) | reads and writes memory; calls the instruction found in the table |
| Instructions (`core/cpu/instructions/`) | none of their own | one function per instruction | registers, flags, memory, stack, `last_trap` |
| Opcode table (`instructions_data.c`, `opcodes.h`) | constant | `get_opcode_data` | decode and execute |
| Memory (`core/memory`) | the 64K block and its size | init, read, write, free | dispatches to the platform |
| Apple ][ (`platform/apple2`) | soft switches, keyboard latch, redraw request | read, write | stdin, memory |
| Screen (`render` in `apple2.c`) | what is on the terminal | render | memory, redraw request, stdio and `write` |
| Emulator (`emulator.c`, `loader.h`) | `valid`, the parts above | init, load ROM, run, shutdown | all |
| Start-up (`main.c`, `args.c`) | `options_t`, the index into `argv` | parse, run | emulator |
| ROM file reader (`file_io.c`) | stream, `file_content_t` | read, free | C library, emulator |
| Log (`log.c`) | level, colour, the line buffer of stdio | print | terminal |

What makes each part correct:

- *CPU*: the counts that describe an unfinished instruction agree; the bytes
  executed are those in memory before `reg_IP`; a legal instruction completes; no
  internal trap happens.
- *Instructions*: arithmetic loses no bit, the flags describe the result, the
  index modes wrap where the 6502's do.
- *Stack*: a return address survives until its return, and a full or empty stack
  traps before anything is overwritten.
- *Memory and Apple ][*: only RAM can be written; a key is kept until the strobe.
- *The pipeline as a whole*: the cycles of an instruction together do what the
  instruction does in one step.
- *Screen and emulator*: whenever the user can look, the screen shows what memory
  holds in the page drawn last; drawing leaves the machine alone.
- *Start-up*: a command line is read as it is meant, or refused; nothing runs but a
  whole image in the memory that was allocated, whichever call fails; the ROM file
  is closed, and what leaks is known.
- *Log and terminal*: a frame has no colour of a message, and the terminal gets its
  own colour back.

`PROJECT.json` lists the hazards of the code, each at its line. Some have no property,
because the code does what it does and nothing in the repository says otherwise: the
end of the input read as a key, a key found at power-on, a switch of the page that
shows at the next store only, an origin cut to a word, the leak after a short read,
`fread` without memory. They are modelled, and each has a note.

## 2. Modules

| Module | What it is |
|---|---|
| `Base` | `base.h`: bytes, words, conversions, bitwise operators |
| `Opcodes` | `instructions_data.c` with the values of `opcodes.h` |
| `Apple2` | `memory.c` and the read and write functions of `apple2.c` |
| `Instructions` | the part of `cpu/instructions` and of the flag helpers that is a function of its arguments |
| `Cpu` | `cpu.c` and all of `cpu/instructions`; `Init`, one action per operation, `Spec`, `LiveSpec` |
| `CpuProperties` | invariants, action properties and the liveness property of the machine |
| `Calls` | `Cpu` with a history of open calls and interrupts; the stack properties |
| `Arithmetic` | what arithmetic, compare and shift instructions compute, on numbers |
| `Mos6502` | statements of the README and of `opcodes.h` that the code does not meet |
| `Isa` | the abstract machine: one step is one whole instruction |
| `Pipeline` | the refinement mapping from `Cpu` to `Isa` |
| `Screen` | what `render` makes of a text page |
| `Emulator` | the loop of `emulator_run`: `Cpu` with a rendering after each cycle |
| `Composition` | the refinement mappings from the loop to `Cpu` and, with the history variable of `Pipeline`, to `Isa` |
| `CommandLine` | `parse_args`, one action per turn of its loop, and what a command line means |
| `Console` | what `emu_log` and `render` send to the terminal, by its colour |
| `Startup` | `main`, `emulator_init`, `load_computer_data`, `read_bin_file`, the ends of `emulator_run`, `emulator_shutdown` |
| `CpuProofs` | TLAPS proofs about `Cpu` and `CpuProperties`; the other proof modules of the machine extend it |
| `ArithmeticProofs`, `CallProofs`, `PipelineProofs` | TLAPS proofs about `Arithmetic`, `Calls` and `Pipeline` |
| `EmulatorProofs`, `RefinementProofs` | TLAPS proofs about `Emulator`: its invariants, and that it implements `Cpu` and `Isa` |
| `StartupProofs` | TLAPS proofs about `Startup`: its invariants, its end, and what the command line is read as |
| `RomProofs` | TLAPS proofs that the program in `roms/fibonacci.rom` is correct on this processor |
| `MCCpu`, `MCPipeline`, `MCCalls`, `MCArithmetic`, `MCRoms`, `MCEmulator`, `MCStartup` | instances for TLC |

`Cpu` extends `Instructions`, which extends `Apple2` and `Opcodes`. `Calls`,
`Pipeline` and `Emulator` extend `Cpu`: the first two add a history variable, the
last one composes it with `Screen` through the memory and the request to redraw.
`Composition` extends `Emulator` and instantiates `PipelineProofs`, so that what is
proved of the processor can be read as said of the loop.
`Startup` extends `CommandLine`, which extends `Console`; it stands beside
`Emulator`, of whose loop it only sees what is logged, drawn and returned. What
the two share is the state the loop starts in: `RunsOnlyLoaded` is what
`EmulatorInit` takes for granted.

How `Cpu` corresponds to the code:

- One step is one call of `cpu_do_cycle`. `Fetch`, `Decode` and `FetchOperand` are
  its cases of that name; the EXECUTE case is one action per family of instruction
  functions, with everything the function calls and the reset of the buffer after
  it (`FinishExecute`).
- `regs` holds the registers, the other variables have the names of the C fields.
- Memory is a pair: `memory.cells` has the bytes a ROM image or a write has set;
  other bytes are still `Heap[a]`, what `malloc` returned. So a state is small
  although the machine has 64K, and reads of uninitialised bytes are possible.
- The device state at the start is any member of `PowerOn`, except
  `term_render_request`: `load_computer_data` initialises nothing else. `reg_IR`
  and `remaining_bytes`, which `cpu_init` leaves alone, come from `Garbage`.
- `getchar()` returns any member of `Stdin`, -1 for the end of the file.
- `JMP (abs)` performs its two reads in either order: C leaves it to the compiler.
- The stack operations work on a record (pointer, memory, trap, value) that is
  passed from push to push, so that an instruction goes on after a trap as in C.
- The loop of `emulator_run` ends at the first trap: every action requires
  `last_trap = "OK"`. A trapped machine is a deadlock, hence
  `CHECK_DEADLOCK FALSE` in the configurations; that nothing else stops is stated by
  `NeverStuck`, `LoopNeverStuck` and `StartupNeverStuck`.

How `Isa` and `Pipeline` correspond to it: `Isa` has no pipeline, no operand buffer
and no cycles. A step reads the opcode and its operands at `reg_IP`, each read
with its effect on the device, and then does what the instruction does; both
modules take the results from `Instructions`, but find operands and addresses
independently. Seen from `Isa` an instruction under way has not begun. Its
`reg_IP` can be computed back; the device cannot, since fetches from the I/O page
have changed it, so `Pipeline` keeps it in the history variable `ap_data_before`.

How `Emulator` and `Screen` correspond to the code:

- `Cycle` is `cpu_do_cycle` and the test of its result, `Render` is `apple2_render`.
- `screen` is the page drawn last and its 24 rows of 40 characters. The title, the
  cursor and the keys the terminal echoes are left out.
- `Machine`, in `Composition`, is the processor with the request taken as always set.
  No instruction looks at it and only `render` clears it, so under this mapping a
  rendering is a stutter. `ComposedSpec` is `EmulatorSpec` with the history variable
  that the mapping to `Isa` needs: the device, masked, at the last instruction's end.

How `CommandLine`, `Console` and `Startup` correspond to the code:

- An argument is what the parser can tell of it: the dash, the flag or level it
  starts with, whether `strtol` reads all of it and as what number. The parser's
  prefix comparison of flags and levels is in that choice.
- Each call of the C library that the code makes succeeds or fails freely:
  `malloc`, `fopen`, `fseek`, `fread`. `heap` has what is allocated or open, so
  what was never freed is still in it at the end.
- `memcpy` and `fread` into a null pointer are undefined. `"crashed"` stands for it;
  `fread` may also return too little instead.
- A log message is its level; the console has the colour of what is written next,
  whether the reset that follows a message waits in the line buffer of stdio, and
  the colours of the last frame. stdout is taken to be a terminal: a message's own
  newline sends the buffer off, `render` writes past it.
- `Cycle`, `Render` and `Trap` in `Startup` have the loop's messages and drawing
  only.

Operators named `X_Something` and commented "a faulty variant of X" stand for
plausible mistakes. No specification uses them: replacing `X` by one must
make a property fail, and shows that the property depends on the code.

## 3. Runs

| Run | Specification | What it shows |
|---|---|---|
| `cpu_instructions` | `LiveSpec` | `TypeOK`, `PipelineConsistent`, `OnlyProgramTraps`, `InstructionIsInMemory`, `NeverStuck`, `LegalInstructionCompletes`, `ROMIsReadOnly`, `KeyHeldUntilStrobe`, `JumpReadsCommute`, `ZeroPageConfined` |
| `atomicity` | `PipelineSpec` | `ImplementsIsa`: `Cpu` implements `Isa` |
| `calls` | `CallSpec` | `FramesOK`, `FramesIntact`, `ReturnMatchesCall`, `StatusSurvivesInterrupt` |
| `arithmetic` | `Spec` | `AdditionExact`, `SubtractionExact`, `CompareIsSubtraction`, `ShiftExact` |
| `roms` | `LiveSpec` | `FibonacciTable`, `ForCycleEnds` |
| `emulator` | `ComposedSpec` | `EmulatorTypeOK`, `ScreenCurrent`, `DrawnBeforeEnd`, `LoopNeverStuck`, `RequestShowsPage`; `ImplementsCpu` and `LoopImplementsIsa`: the loop with its renderings implements `Cpu`, and `Isa` |
| `startup` | `StartupSpec` | `StartupTypeOK`, `ParsedAsMeant`, `RunsOnlyLoaded`, `CrashOnlyOutOfMemory`, `FileReleased`, `EveryEndIsFailure`, `ColoursReset`, `StartupNeverStuck`, `StartupEnds` |
| `interrupt_return` | `CallSpec` | violated: `InterruptReturns` |
| `subtraction_overflow` | `Spec` | violated: `SubtractionOverflow` |
| `official_opcodes` | `Spec` | violated: `OfficialOpcodesSupported` |
| `zero_page_y` | `Spec` | violated: `ZeroPageYIsIndexed` |
| `frame_colour` | `StartupSpec` | violated: `FramePlain` |

Bounds. The machine's state space is that of its programs, so the bound of a run
is its set of ROM images, and nothing in the specification is capped.

- `cpu_instructions`: every opcode 0 to 255 after a prelude that sets X and Y to 1
  or 0xFF, the carry, and A. One-byte operands are at the sign change and the page
  end; two-byte ones at the edges of the zero page, the text pages, the RAM, the
  I/O page and the ROM, and a page end inside the I/O page, where the pointer of
  `JMP (abs)` wraps within the page. Bytes after the program are an illegal opcode,
  so each program ends, but a jump or branch may first run through others. The
  second set is every sequence of three of ten accesses to the device, with end of
  file, a newline and a character as input, whose opcode values make a fetch from the keyboard
  address go on; the latch is empty or full at the start.
- `atomicity`: the same programs. They have each opcode with its operands at every
  edge and every sequence of three accesses to the device, fetches from it
  included, which is where the order and number of accesses shows.
- `calls`: a stack pointer of 2, 5, 10 or 0xFF, so that one, two or several pushes
  fit or none may be pulled, and every program of three slots out of JSR to each
  slot, RTS, PHA, PLA, PHP, PLP, BRK. JSR to a slot recurses, so the programs run
  until the stack is full. With an empty stack JSR is left out, which would fill
  255 bytes. Two interrupt handlers, one balanced and one not. The programs do not
  store into the stack page: one that does forges its own return addresses.
- `arithmetic`: eleven operand bytes around the sign, carry and half-byte edges,
  both carries, twice in a row.
- `roms`: the two test programs with all their state, until they end
  (`for_cycle.rom` is reached by running through 5,398 filler instructions and the
  wrap of `reg_IP`) or repeat (`fibonacci.rom`).
- `emulator`: every sequence of a first access, a second one and an end. Accesses
  are stores to the first and last bytes of both text pages, to their neighbours
  and to a byte that no row shows, an increment of a text byte, both page switches
  and a read of the keyboard; ends are JSR, PHA, PLA and BRK on a nearly full and
  on an empty stack, and an illegal opcode, so that each trap comes with and without a
  picture that was just changed. The bytes stored include those that `render` treats
  differently. The page at the start is either, as `malloc` may leave it.
- `startup`: every command line of up to four of nine arguments, so that a flag can
  be another flag's value, the last argument, or doubled, with a file before and
  after; six file sizes around the room above the origin and around the 64K.
  The colours make the loop finite; it is run for ever.

Fairness. `emulator_run` is a loop without any other exit than a trap, so the next
cycle always comes; the one call that may not return is `getchar()`, and the code
does not promise that the user types. `LiveSpec` therefore assumes weak fairness
of `Next` in states whose next cycle does not wait for a key, and
`LegalInstructionCompletes` allows for the wait. `EmulatorSpec` assumes the same of
the loop with its renderings. `StartupSpec` assumes weak fairness of its next step:
there is one thread, and nothing waits before the loop. Fairness says nothing of a
state without a next step: that there is one wherever the code has not ended and
does not wait for a key, and that it changes something, are the `...NeverStuck`
invariants. They are what the usual check for deadlock would say, were a trap not an
end.

## 4. What the violated properties say

1. `InterruptReturns`: `push_word_onto_stack` masks the low byte with `0x0F`
   (`stack.c:95`), so after BRK at 0x0313 RTI goes to 0x0304. README.md:2, 5 claim
   the 6502's behaviour.
2. `ZeroPageYIsIndexed`: `cpu_resolve_first_operand` has no case for
   `ZERO_PAGE_Y` (`cpu.c:192`), so LDX and STX in that mode access address 0;
   `opcodes.h:18, 35` say "zero page address + Y".
3. `OfficialOpcodesSupported`: ADC and AND lack their two indirect modes; README.md:6
   claims all official instructions.
4. `SubtractionOverflow`: SBC uses the overflow condition of an addition
   (`arithmetic.c:36`). V may be set for operands of equal signs, whose difference
   always fits (CLC, LDA #0, SBC #0), and is never set for those of different signs.
5. `FramePlain`: `log.c:38` resets the colour after a message, but the message
   ended in a newline, so the reset waits in the line buffer while `render` writes
   past it (`apple2.c:167`): the title and the first rule of the next frame are in
   the message's colour. The rows are not (`ColoursReset`), because of a newline in
   between.

The specification is of the code as it is: the other properties hold with these
five in place. Without a run of its own: README.md:24, 25 starts the program as
plain `./emu8`, which `main.c:20` answers with the usage and exit code 1, and
which is part of `ParsedAsMeant` (`empty`) and `EveryEndIsFailure`.

## 5. Proofs

What is proved holds for every value of the constants: every ROM image, heap
content, device start state and input, every set of command lines and file sizes.
The assumptions on them are types: cells are bytes at words, the device data are of
their type, `getchar` returns a character or -1, an argument that is a flag
starts with a dash. Some theorems have a hypothesis, all explained below: what the
program that runs may store (`LeavesStackAlone`, `StoresElsewhere`), that it is the
Fibonacci program (`memory.cells = Fibonacci`), or, for liveness, that no state is stuck
(`NeverStuck`, `LoopNeverStuck`, `StartupNeverStuck`), which the runs check on their
instances.

| Theorem | States |
|---|---|
| `CpuProofs`: `Invariance` | `Spec => []Inv` |
| `TypeCorrect` | `[]TypeOK` |
| `PipelineCorrect` | `[]PipelineConsistent` |
| `NoInternalTraps` | `[]OnlyProgramTraps` |
| `FetchedFromMemory` | `[]InstructionIsInMemory` |
| `ROMProtected` | `ROMIsReadOnly` |
| `KeyHeld` | `KeyHeldUntilStrobe` |
| `JumpOrderHidden` | `JumpReadsCommute` |
| `ZeroPageIsConfined` | `ZeroPageConfined` |
| `InstructionsComplete` | `LegalInstructionCompletes`, if `[]NeverStuck` |
| `ArithmeticProofs`: `AdditionCorrect` | `AdditionExact` |
| `SubtractionCorrect` | `SubtractionExact` |
| `CompareCorrect` | `CompareIsSubtraction` |
| `ShiftCorrect` | `ShiftExact` |
| `CallProofs`: `FramesCorrect` | `[]FramesOK` |
| `ReturnAddressesKept` | `[]FramesIntact`, if `[]LeavesStackAlone` |
| `ReturnsMatchCalls` | `ReturnMatchesCall`, if `[]LeavesStackAlone` |
| `StatusRestored` | `StatusSurvivesInterrupt`, if `[]LeavesStackAlone` |
| `OrdinaryProgramsReturn` | the last three, if `[]StoresElsewhere` |
| `PipelineProofs`: `PipelineRefinesIsa` | `ImplementsIsa`: `Cpu` implements `Isa` |
| `EmulatorProofs`: `EmulatorInvariance` | `EmulatorSpec => []EmulatorInv` |
| `EmulatorTypeCorrect` | `[]EmulatorTypeOK` |
| `ScreenShowsMemory` | `[]ScreenCurrent` |
| `AlwaysDrawn` | `[]DrawnBeforeEnd` |
| `RequestsShown` | `RequestShowsPage`, if `[]LoopNeverStuck` |
| `RefinementProofs`: `EmulatorRefinesCpu` | `ImplementsCpu`: the loop with its renderings implements `Cpu` |
| `EmulatorRefinesIsa` | `LoopImplementsIsa`: and `Isa` |
| `LoopInheritsProcessor` | `ROMIsReadOnly`, `KeyHeldUntilStrobe` and `ZeroPageConfined` of the loop |
| `StartupProofs`: `StartupInvariance` | `StartupSpec => []StartupInv` |
| `StartupTypeCorrect` | `[]StartupTypeOK` |
| `OnlyLoadedRuns` | `[]RunsOnlyLoaded` |
| `CrashNeedsNoMemory` | `[]CrashOnlyOutOfMemory` |
| `FilesReleased` | `[]FileReleased` |
| `AlwaysFailure` | `[]EveryEndIsFailure` |
| `ColoursAreReset` | `[]ColoursReset` |
| `EndsOnceParsed` | `StartupEnds`, if `[]StartupNeverStuck` and the arguments come to an end |
| `ParsingAdvances` | each turn of the loop over the arguments leaves fewer, if `[]StartupNeverStuck` |
| `CommandLineCorrect` | `[]ParsedAsMeant` |
| `RomProofs`: `FibonacciCorrect` | `[]FibonacciTable`, if `memory.cells = Fibonacci` at the start |
| `FibonacciNeverTraps` | `[](last_trap = "OK")`, if `memory.cells = Fibonacci` at the start |

*The processor.* The inductive invariant is

    Inv == Sound /\ PipelineConsistent /\ InstructionIsInMemory
    Sound == TypeOK /\ memory.size = MEMORY_SIZE /\ OnlyProgramTraps

`TypeOK` alone is not inductive: that the buffer index stays inside the buffer
needs the agreement of index and byte count (`PipelineConsistent`), and that no
read fails, which the absence of internal traps and the successful fetch need,
follows from the memory's size being the whole 64K. `InstructionIsInMemory` needs
that a fetch is of the byte at `reg_IP` and that counting back from the moved
counter finds the same places, also where it wrapped (lemma `Places`).

The argument goes through one contract, `Executed`: what every instruction
guarantees of registers, trap, device and memory, and `FinishExecute`. One
lemma per instruction action shows it from `Sound`; `ExecuteInv` then needs no
instruction's detail. `FetchInv`, `DecodeInv` and `FetchOperandInv` treat the other
cycles. `ROMProtected` follows from the contract's last part, `SameAboveRAM`;
`KeyHeld` from a second, shorter pass over the actions that touch the device,
where `JMP (abs)` is the one that reads twice: its two addresses cannot be the
strobe and the keyboard at once (`HighPartDistinct`). C leaves the order of these two
reads to the compiler, and `JumpIndirect` allows both. `JumpOrderHidden` says that the
order shows in the soft switches alone: what a read does to the key and returns
depends on the key only (`ReadOfKeyboard`), and of the pointer's two bytes at most
one is of the keyboard (`PointerOfKeyboard`), so neither read disturbs the other
(`TwoReads`). `ZeroPageIsConfined` is such a
pass over the actions that write: the opcode's row decides which action runs, and
no row gives a stack instruction a zero-page mode; the address of a store in
such a mode is a byte (`ZeroPageOperand`).

*The arithmetic.* Nothing has to be added to `Inv`; the properties are of one step,
but over all operands, where the run takes eleven. `SumExact` says what the byte and
word sums of the code are as numbers, by cases of where they wrap; `AddedExact`
and `SubtractedExact` say that carry and result together lose nothing.
`FlagBits` and `UpdatedFlag` say that setting one flag of `reg_FLAGS` leaves those that
were set before, which the code does one after the other.

*The stack.* `FramesOK` needs only `Inv`. `FramesIntact` is not inductive: it says
nothing of interrupts, whose status `StatusSurvivesInterrupt` needs, nor of the room
a frame has in the stack page. `FramesKept` says, of every frame, that it has that
room and which bytes of it memory still holds; `ReturnMatchesCall`
and `StatusSurvivesInterrupt` follow from it. It holds because a push stores below every frame
(`PushersUsed`), a pull stores nothing (`PullersUsed`), and other stores go elsewhere
(`WritersUsed`). The last is not a fact about the emulator: a 6502 program may store
into its own stack page and so forge its return addresses. `LeavesStackAlone`
excludes that and no more: an instruction that stores at its operand's address
does not do so in the part of the stack page above the pointer. Pushes, pulls, jumps
and TXS remain free, stores elsewhere and below the pointer too; the programs of the
run `calls`, which hold no such instruction, are among those that satisfy it.

`LeavesStackAlone` depends on the registers when the store is executed.
`OrdinaryProgramsReturn` has a hypothesis that is about instructions alone:
`StoresElsewhere` allows stores in the zero-page modes, absolute ones to another
page than the stack's, and indexed ones from a base above it, whose carry goes up or,
at the top of memory, around to the zero page (`IndexedElsewhere`). The indirect modes
are excluded, since their page is data.

*The pipeline.* `Isa` reads an instruction's opcode and operands at once, `Cpu` in
cycles of their own. `History` relates the two: in the midst of an instruction,
`reg_IR`, the buffer and the device are what reading, in this order, the places from
`Start` on gives, beginning with the device as it was before (`ap_data_before`). Each fetch
adds one read to the chain (`FetchHistory`, `FetchOperandHistory`), and that
counting back from `reg_IP` finds the same places after it moved, also across its wrap,
is `StartPlaces`. So fetches are stutters of `Isa`. The lemmas `...Refines`, one per
action, then show that executing is `Completed`: `Isa`'s `Execute` on the fetched
bytes and the same registers and device; that both modules find the same
operand address is `SameAddress`. An illegal opcode is `IllegalOpcode` of `Isa` at the
decode cycle already. The lemmas `Same...` at the start of the module say that a
definition of `Instructions` means the same seen from either module.

*The screen.* `ScreenCurrent` is not inductive, since between a cycle and its
rendering the picture may be stale. `EmulatorInv` adds that it is stale only while a
redraw is asked for (`PictureKept`), and that before the first rendering there is a
request (`RequestPending`). A cycle keeps this by `StepText`: if it changes a text
page, it asks for a redraw and does not trap. Stores do ask (`WriteText`) and no
read of theirs fails; pushes, the only writes of instructions that may trap,
stay in the stack page (`PushText`); all other cycles write nothing. Every row lies
in the text pages (`RowsInText`), so the picture is the same if they are. The
processor's `Inv` is part of the invariant, and renderings keep it.

*The loop implements the processor.* The mapping masks the request to redraw. A read
or write of the device with the request masked gives what it gives without, with
the request masked (`ReadMasked`, `WriteMasked`): no access looks at it. From this there is one lemma
per action; `RenderMasked` says that a rendering changes nothing else.

*The loop implements the abstract machine.* The two refinements do not compose by
themselves, since that of `Pipeline` needs a history variable. `ComposedSpec` updates it
at the end of each instruction and not at a rendering, so that under the mapping each
behaviour is one of `PipelineSpec`, and `PipelineRefinesIsa`, instantiated under the
mapping, gives the rest. `LoopInheritsProcessor` is the same for three properties
that are action properties of the processor, and need no proof of their own about the
loop.

*Liveness.* The provers can use fairness only where they know the fair action to be
enabled, and cannot unfold `ENABLED` of these actions. So each theorem takes
the `...NeverStuck` invariant of its run as a hypothesis and proves what is left, which is
the argument proper: that every step from one stage leads to the next or stays, and
none leads elsewhere. An instruction goes through `Decoded`, `TwoPending`, `OnePending`,
`Complete` and `Finished`, where the number of operands decides at which it enters; that
no step falls out of the chain needs `Inv`, for the count of bytes, and that a
legal opcode has at most two. The wait for a key is an exit from each stage, as
in the property. For the loop there are two stages: a request is found before a
cycle or before the rendering that serves it. The former is only the first cycle
(`RequestDrawn`), which is a fetch and does not trap, so that no trap comes between
request and rendering. For the start-up the stages
are the places of `main` after the command line, each of which has only steps forward.

How the command line comes to an end is the one part that is missing: it would need an
induction over the number of arguments inside temporal logic, which TLAPS does not
have. `ParsingAdvances` is its step, for every number, and `EndsOnceParsed` goes on from
its result; `StartupEnds` itself is checked by the run.

*The start-up.* `StartupInv` says, for each place of `main`, what has been
allocated, read and copied so far (`Progress`), and what the loop and the ends find
(`Ending`). The link that is easy to lose is `valid <=> "ap_data" \in heap` while
the ROM file is read: a failed `load_computer_data` is only noticed after it. That the
copy stays in the memory needs the origin to be a word, which the parser's
invariant has (`Command`). `ConsoleOK` says that a colour that is not plain has
its reset waiting.

*The command line.* `ParsedAsMeant` compares the loop, whose index moves by one or two,
with the meaning of a command line, where an argument is a flag unless it is the value
of the flag before it. The latter is a recursive function, so it first has to be shown
that there is one (`RuleHasSolution`) and that it obeys its rule (`FlagRule`); the
induction is over the least number of arguments for which there would be none
(`Smallest`). The invariant is `Reading`: at every turn the index is where no flag's
value is, and the options are those that the arguments before it give, or the
command line is malformed. `ReadLogLevel`, `ReadOrigin` and `ReadRomFile` keep it, and
at the end of the line it is `ParsedAsMeant`.

*A program.* `FibonacciCorrect` verifies the program of `roms/fibonacci.rom` on the
processor. The run has it with NOPs in the rest of memory, one state of the device and
one input; the theorem has any heap, device, garbage and input. Of the constants it
only asks that memory starts as the image's bytes; the image itself is the run's, `Fibonacci`.

`RomInv` is an invariant by places: for each instruction (`Place`) it says how far the table,
the pair in the cells 0 and 1 and the registers have got (`Holds`). `SumsExcept` is
the table without the entries around X, where this turn of the index meets the one
before; it holds of whatever entries exist, which is why X's wrap at 256 needs no case
of its own in the invariant, only in `EnterStep` and `CountStep`. The program is loaded at 0
and stores the pair and its sum over its own first instructions, so `CodeFrom` says that the code is
intact from the place reached on, or from 3 once that is past.

The argument has four layers. `ProgramRows` and `FetchedCode`: at each place the
machine has fetched the bytes of the listing. `Disassembly`: so it executes the
instruction of the listing, with its operand address and its successor. The `...Leaves`
lemmas: what each of the functions LDA, LDX, STA, INX, CLC, ADC and JMP leaves, from
the actions of `Cpu`. `SetUp`, `LoadsAndSums`, `PairSteps`, `EnterStep` and `CountStep`: from
one place to the next. The cycles before the execution change nothing of it
(`CyclesBefore`).

Only model-checked:

- `NeverStuck`, `LoopNeverStuck` and `StartupNeverStuck`, which are about `ENABLED`;
- `StartupEnds` as a whole, for the induction above;
- `ForCycleEnds`: a run of some 16,000 cycles through filler of which each needs fairness
  and `ENABLED`.

Every other property of a passing run is a theorem; `LegalInstructionCompletes` and
`RequestShowsPage`, like the proved part of `StartupEnds`, rest on the first item.

## 6. Not modelled

- The wording of the messages, the text of the usage.
- What the terminal itself does to a frame: the cursor sequence, and the keys it
  echoes while `getchar` waits. A stdout that is not a terminal.
- How `strtol` reads a text, how `ftell` could fail: only the results
  the code tells apart.
- The two Apple ][ ROMs: third-party code of thousands of instructions.
- Time: the emulator has no cycle counts, and `SPEAKER_TOGGLE` does nothing.
- A trap representation in the uninitialised `bool keyboard_ready`: it is true or
  false.
- Decimal mode, hardware interrupts: the code has none.

## 7. What would say more

Every component is modelled, every safety property and refinement that a run checks is
proved, and each liveness property but `ForCycleEnds` is proved as far as `ENABLED` and
induction let it be. What is left:

1. A proof of `for_cycle.rom` like that of `fibonacci.rom`, as a safety property: where
   the loop is left, A holds the count.
2. A hypothesis for the indirect modes in `StoresElsewhere`, which would have to speak of the
   pointers a program keeps in the zero page.
