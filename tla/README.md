# d3: a verification development

d3 is a small i386 kernel: it boots through multiboot, sets up descriptors,
interrupts, a memory manager and a VGA terminal, and then runs a prompt loop that
reads lines from the keyboard. This directory holds TLA+ models of it, TLC runs
that check them on small instances and TLAPS proofs of the most important
properties. Paths below are relative to the repository (`src/keybd.c`, ...).

## The system

| Part | State it keeps | Operations | Interacts with |
|---|---|---|---|
| keyboard (`keybd.c`) | `kb_buffer`, `kb_i`, `kb_buffer_pending`, `kb_shifted` | `keyboard_handler` (interrupt), `get_kbd`, `clear_kb_buffer` | shares its state with the prompt loop; echoes into the terminal |
| prompt loop, boot (`kernel.c`) | the line buffer of `cmain` | set-up calls, `sti`, the loop | calls everything below |
| terminal (`term.c`) | cells, `xpos`, `ypos`, colour, VGA cursor registers | `term_init`, `term_putchar`, `term_scroll`, `update_cursor` | called by `cmain` and, from the interrupt, by the keyboard handler |
| memory (`mem.c`) | `mm_free`, `mm_used` lists | `init_mm`, `malloc`, `free`; `mem_cpy`, `mem_set` | `term_scroll` and `get_kbd` copy with `mem_cpy` |
| interrupts (`idt.c`) | IDT, controllers, `irq_routines` | `init_idt`, `irq_remap`, `irq_handler` | calls the keyboard and timer handlers |
| timer, clock (`time.c`) | `uptime`, CMOS | `timer_handler`, `get_time`, `sleep` | the floppy driver sleeps |
| tasks (`task.c`, `switch.S`) | `task_que`, contexts | schedule, run, yield, kill | allocator; commented out of `cmain` |
| virtual machine (`vm.c`, `vm_ops.c`), assembler (`dasm.c`) | registers, heap | fetch, execute; parse | allocator; commented out of `cmain` |
| floppy (`fat12.c`) | `_FloppyDiskIRQ`, drive | reset, calibrate, seek, read | interrupts, clock; commented out of `cmain` |

What is hard in it: there is one thread, but interrupts run between any two of its
instructions and share the line buffer and the terminal with it without any lock;
the controllers must be programmed and acknowledged in the right order; the
allocator's lists hold stale pointers; and copies overlap. `PROJECT.json` lists
each such hazard at its line, with the property that covers it.

## The modules

`Keybd` - the line reader. The handler is one atomic action per branch on the
scancode (it runs through an interrupt gate, with interrupts off). The prompt loop
is cut at every access to shared memory: `Spin`, `CopySize` (the argument
`kb_i - 1` as a `size_t`), `CopyByte`, `Terminate`, `ClearByte`, `ResetIndex`,
`ResetPending`, `RunCommand`. A byte of a buffer is the serial number of the
keystroke it came from, so order, repetition and loss are visible; `echoed` holds
the characters. `kb_buffer_pending` is volatile and the others are not; the
statement order is the one the shipped `d3.kernel` has. The handler stores at `kb_i`
without a test; a store behind the end of `kb_buffer`, or of `cmain`'s buffer, ends the
behaviour in `pc = "wild"`, since what it hits is the linker's choice. `MCKeybd` gives it one
letter and Enter.

`TermCursor` - what `term_putchar` does to a cursor position, phase by phase,
shared by the two terminal modules.

`Console` - `term_putchar` called by `cmain` (one access to `xpos`, `ypos` or a VGA
register per step, with the registers that hold loaded values) while
`keyboard_handler` echoes (atomic).

`Page`, `Term` - `Page` is what a terminal promises: rows of cells, a cursor, a
character goes to the cursor or to the next row. `Term` is the flat array with its
index arithmetic, the lazy wrap and the scroll by `mem_cpy`, used by one party.
`ShowsPage` states that `Term` implements `Page`. The row that scrolls in is the
memory below the screen, which `term_clear` does not clear: `Page` has it as the
parameter `below`, and this is what it promises.

`MemCpy` - the two loops of `mem_cpy` over one memory (`Call`, `Step`, `CopySpec`; its type invariant is `CallTypeOK`).

`Mem`, `MCMem` - `init_mm`, `malloc` (list scan, reuse or carve) and `free` on headers
`[prev, next, address, size]`, with two kinds of client: one frees any block, the
other its youngest. The client may go on asking until the heap is exhausted, where `malloc` has three
ways to go wrong besides its panic, and the model takes them all. The list head `mm_free` is the first entry it
tries, so a small enough large area is handed out with the head and the lists run into each other; the model
goes on from there. The largest area may be a freed block, whose `address` lies `sizeof(mp_t)` headers above it; and
`size + sizeof(mp_t)` may exceed the area, so that its size wraps. In these two cases (`CarveOutside`) the new header is written over
memory of others, and the behaviour ends in `pc = "wild"`.

`Irq` - `cmain`'s set-up steps in order, the two 8259 controllers and the devices
(external, as the code programs and acknowledges them), and `irq_handler`.

`Time`, `MCTime` - `get_time` fetches six clock fields with six separate dumps while the
external clock (BCD registers, calendar) ticks; `sleep` polls it. Each getter is one
step. `days_in_month[12]` is read behind the array; what lies there is the parameter
`Beyond`. The sum keeps the code's shape: the month's length is added, not the days
before it, so the time goes back at most month ends.

`Dasm` - the two assemblers, as operators: `dasm` of `dasm.c` in the kernel and `main` of
`dasm/dasm.c` on the host. The texts differ little, the results much: both look a name up by
`strcmp(...) == 0`, and the kernel's own `strcmp` (`str.c`) is 1 on equal strings. So the
kernel's assembler turns every operation but `hlt` into `hlt`, `hlt` into `mov`, and every
register into `r0` or `r1`. The module also has what the loop over the text does to
blank lines (the newline becomes part of the next line's first word) and to a comment (it
takes the rest of the program with it). Characters within words are left out; memory for words is
taken to be zero, because they are terminated one byte too far.

`Vm`, `MCVm` - the machine that runs what either assembler made, on bytes: instruction records of
10 bytes with their padding, registers of which only the low byte can be read and
written, code and stack both from byte 0 of the heap. The eighth register byte is `flags`, so a program
that makes the number 7 an operand can read and set it. A register name that the host's `get_reg`
does not find is -1, and a write to it lands in the third byte of `status`, which ends
the loop of `vm_run`; -2 is the first byte of `status`. An access outside heap and registers ends the behaviour
(`Wild`): it would hit other parts of the kernel. Neither assembler emits a `cmp`; programs reach
one by storing its number into their own code.

`Floppy` - the driver of `fat12.c` from `init_fat12` to the answer of `flpydsk_read_sector`.
The driver's state is the list of register accesses it is still to make (`todo`), and a function
of the source is the operator of the same name that lists the accesses of that function; where
the code tests what it has read, the list holds a test (`calibrated?`, `sought?`) that is replaced
by the rest of the loop. Each access is a step: a poll of the status register, a byte
sent or read, a wait for the interrupt, a write to DOR, CCR or the DMA chip. External: the controller
(phases, byte counts, result bytes, an interrupt per completed command and four after a
reset) and a handler of interrupt 6. The file has no handler, and its flag is static, so
as it stands (`installed = FALSE`) the first wait never ends; the properties say what the driver does
with one. The last byte of `flpydsk_drive_data` is 1 whatever the arguments are, which tells the
controller not to use DMA: the model's controller then offers the sector in the data
register (`"data"`), and the driver takes its first bytes for the status.

`KeybdProofs`, `ConsoleProofs`, `TermProofs` (of `MemCpy` and `Term`), `MemProofs`, `IrqProofs`, `TimeProofs`,
`VmProofs`, `FloppyProofs` - the theorems.

Definitions introduced by a comment `Mutant:` are faulty variants of the definition
below them. No specification uses them; they show that a property would notice the
fault (`PROJECT.json`, `mutants`).

## What the runs check

| Run | Properties | Shows |
|---|---|---|
| `keybd` | `CopySizeSane`, `CopyStable`, `LinesInOrder`, `OverrunNeedsFullBuffer`, `LaterLinesTerminated`, `RepliesMatchEcho`, `EveryEnterAnswered` | However typing and reading interleave, no copy of SIZE_MAX bytes, no torn, repeated or swapped byte, no store past the buffers before a full buffer of unread keys; a user who waits for the prompt gets the right reply to each line but the first, and a reply to each Enter |
| `keybd_lost_keys` | `KeysReadBeforeCleared` (violated) | A key typed between the read of `kb_i` for the copy and `kb_i = 0` is echoed, stored and cleared unread |
| `keybd_first_line` | `FirstReplyMatchesEcho` (violated) | The terminator is one byte too far; the first line can end in stack junk |
| `console` | `WritesContained`, `RowOnScreen`, `NoUpwardDrift`, `CursorShown` | The races on the cursor cost at most a misplaced character or row |
| `term` | `ShowsPage` | The flat array implements the page |
| `memcpy` | `Moved`, `Returns` | Correct for every overlap, and it ends |
| `mem` | `LifoNoDoubleAllocation`, `AreasDisjoint`, `MallocReturns` | While the large area has `Margin`: carved areas are disjoint and inside it for every client, and a client that frees its youngest block first is served correctly |
| `mem_double` | `NoDoubleAllocation` (violated) | Free the older of two blocks, allocate twice: the same block twice, through the stale `prev` of `add_mm_list_entry` |
| `irq` | `NoStrayVector`, `NothingLeftInService`, `KeysRead`, `TicksCounted` | Requests at any moment of boot are harmless; every one is acknowledged; keys are read and ticks counted |
| `time` | `TornTimeBounded`, `SleepNotShort`, `SleepReturns` | A torn time is less than an hour behind and never ahead within a day; torn polls prolong a sleep and never shorten it (a torn first `get_time` can, by less than an hour); it ends |
| `vm` | `ExecutesAsAssembled`, `PlainProgramsHalt` | What either assembler made of a program, if it uses data registers only and pops no more than it pushed, is executed as assembled, although its stack grows over its code, and ends by its `hlt` |
| `floppy` | `InStep`, `WaitsAnswered`, `ReadPrepared`, `PanicJustified`, `InitReturns` | With a controller that is slow at any byte and a head that comes to rest anywhere: as long as no byte is given up, the two are never a byte apart, every wait is answered by its own command's interrupt, a read begins with motor, DMA chip and head in place (the controller is told not to use DMA all the same, see `Floppy` above), a panic follows only from failed seeks, and `init_fat12` ends |

Each module has one type invariant, `TypeOK`, checked with the others.

### Bounds

- `keybd`: five keystrokes, buffers of four bytes. Lines of up to four letters, several
  lines, keys at every moment of reading a line, and the store behind the buffer all happen.
- `console`: 4 columns, 6 rows, three echoes inside one call, bytes of 6 values, so that the
  position needs both bytes. The proof covers any number of echoes.
- `term`: 3 by 2 cells and two colours; wrap, scroll and both at once happen.
- `memcpy`: five bytes of three values; all distances and directions.
- `mem`: headers of 2 units, three blocks held at once, sizes 4, 5 (`init_mm`'s) and 8, of which two are
  within a quarter of each other so that reuse happens, and a map whose last area is too small
  (panic). The areas of 38 and 46 units are used up after a few calls, so `CarveOutside` happens in both its
  ways, and so does the list head as a block. `Margin` restricts no action: it is the room (any request twice, and a
  header) above which the properties promise something. The large area never grows, so `Ample` now means `Ample` at every call
  so far. `mem_double` uses a larger area, so that its counterexample owes nothing to a small one.
- `irq`: timer, keyboard, floppy, clock and mouse lines (0, 1, 6, 8, 12), two edges each.
- `time`: seven starts, two or three seconds before a carry of a minute, hour, day, month
  (one in a leap year) and year; naps of 1 and 3 seconds, six ticks: several polls and every carry at
  every one of the six fetches happen. The proof covers every start. Years end in 2067,
  up to which the sum fits an `int32_t`.
- `vm`: all programs of up to three lines out of 18 (writes to `ip` and `sp`, stores into
  the code, an unknown register, a blank line and a comment among them) and all of five lines out of
  the four plain ones, or out of six with which a program rewrites its third line's operation or operand and loops over it;
  both assemblers; a heap of 50 bytes; unset bytes are 0 or 9.
- `floppy`: two polls instead of 500 and two attempts instead of 10, so that both limits are
  met everywhere; the sector that `init_fat12` reads and three at the edges of track, cylinder and
  disk; cylinders 0, 1 and 79; the firmware leaves the controller in either DMA mode. Bytes
  that are given up, and everything that follows from them, are part of the run; the safety properties
  other than `TypeOK` speak of behaviours without such a loss.

### Fairness

The CPU always executes: `WF` of `cmain` in `Keybd`, of `malloc` in `Mem`, of the loop
in `MemCpy`, of the CPU's steps in `Irq` (a request that the controllers present is taken
when interrupts are on), of `get_time` in `Time` (the clock need not tick), of the loop of
`vm_run` in `Vm`, of the driver in `Floppy`, whose controller finishes what it has begun and
whose interrupts are taken. Nothing is assumed of the user, the devices or the client,
so each liveness property starts from something they did. `Console` and `Term`
have no liveness property. `MemCpy`, `Mem`, `Vm` and `Floppy` may stop (a call returns, a client has
nothing to do, the kernel panics, a program halts, a wait spins), so their runs do not check deadlock.

## What is proved

`KeybdProofs` proves, for every buffer size, key set and number of keys, `TypeOK`,
`CopySizeSane`, `CopyStable`, `LinesInOrder`, `OverrunNeedsFullBuffer`, `LaterLinesTerminated` and `RepliesMatchEcho`. None is inductive. The
invariant adds what the two words `kb_i` and `kb_buffer_pending` have to do with each
other at each step of the reader (a raised flag means a positive index, except
between the two stores of `clear_kb_buffer`), that the buffer below `kb_i` holds
consecutive keystrokes when no clearing is under way, and that what has been copied so far equals what is
still in `kb_buffer`. `clear_kb_buffer`'s order of stores is what makes it hold: the mutant that swaps
them violates `CopySizeSane`. For `RepliesMatchEcho` (a user who waits for the prompt) it also names the places of
the newlines in `echoed`, one for each line that was answered, and says which stretch between two of them is the line being read.

`ConsoleProofs` proves, for every screen of at least 2 by 2 and every number of echoes
inside a call, `TypeOK`, `WritesContained`, `RowOnScreen`, `NoUpwardDrift` and `CursorShown`. The invariant bounds
`rx`, `ry`, `xpos` and `ypos` separately at each step of `term_putchar`; the bound on the
drift counts the echoes since the call began. For `CursorShown` a second one (`CursorInv`) says at each step of `update_cursor` which half
of the position has reached the registers, unless an echo came in between; a position fits the two bytes.

`TermProofs` proves `Moved` and `CallTypeOK` of `mem_cpy` for every memory size, content and overlap. The
invariant says which part of the destination is already moved and that the part of the source
still to be read is untouched, which is where the direction of the loop enters. `ScrollByMemCpy`
then joins the two models: with two bytes a cell, what `mem_cpy`'s loop has done when it returns is the
screen after `Term`'s one-step `term_scroll`. Of `Term` it proves `TypeOK` and the refinement `ShowsPage` for every
screen size: initial states are initial pages, and every character is a step of `Page`. The
invariant adds to the types that the memory below the screen is the row `Page` calls `below`,
which is what a scroll brings in.

`MemProofs` proves, for every memory map, header size, set of request sizes and any number of calls,
`TypeOK`, `AreasDisjoint` and `LifoNoDoubleAllocation`. `TypeOK` holds down to the exhausted heap (`TypeInv`: `next` and the client's
pointers lead to blocks or to `mm_free`), and a step never makes the large area larger (`AmpleBefore`), so the other two need only be carried along while it is
`Ample`. `AreasDisjoint` then needs (`Shape`, `Layout`) that `next` never leads to a list head
and that only `mm_free`'s own area is ever carved or exceeds a request by the margin, so that a new
block lies below all others. The third needs the shape of both lists of a client that frees its
youngest block first: `mm_used` holds exactly its blocks, youngest first, each with `prev` at the head;
following `next` from `mm_free` meets only blocks that are not held, in a falling rank, each with `prev` at
the head. A reused block takes the blocks before it out of reach (they leak), so the chain is the
part of falling rank and not all freed blocks. For any other client the shape is lost at
the first `free`, as `mem_double` shows.

`IrqProofs` proves, for every set of lines and any number of requests, `TypeOK`, `NoStrayVector` and
`NothingLeftInService`. The invariant relates the steps of boot (gates before remapping before `sti`) to
the vectors the controllers would give, and says that a handler runs with at most one line in service
per controller, its own.

`VmProofs` proves, for every list of programs, both assemblers, every heap of up to 32767 bytes and
any number of steps, `TypeOK` and `ExecutesAsAssembled`. `ExecutesAsAssembled` is not
inductive: the invariant says that the heap from `ip` on is as loaded and that `5 * sp <= ip`, since a push takes two
bytes and an instruction ten. `AnyImage` says the same of every image of ten-byte instructions, so nothing
of it depends on the assemblers. That an assembler makes no more instructions than the text has lines (`InstructionsType`) is about a recursive function and
every length of text. It is proved by induction, which the provers take in this form: a set of naturals has a least element
(`Least`, from the library's facts on well-founded relations), so a set with 0 and with every successor is all of them (`Induction`); the recursion then
has a solution (`Solution`), and every solution has the type (`SolutionType`).

`TimeProofs` proves, for every moment at which `sleep` is called, every nap and every
number of ticks, `TypeOK`, `TornTimeBounded` and `SleepNotShort`. Neither is inductive: the invariant
relates the fields fetched so far to the clock at the first fetch and to the clock now, in
the lexicographic orders of day and of time of day. It rests on lemmas that a
register read through `from_bcd` gives back its field, that every tick moves the clock
forwards over every carry, and that the order of two times of one month bounds the difference of their sums.
The order of the fetches (hours before minutes before seconds) is what keeps a torn time from being ahead.

`FloppyProofs` proves what `flpydsk_lba_to_chs` computes, for every sector number and every number
of cylinders: head and sector exist, the number can be computed back, and no place is missed. And it proves, for each of the
2880 sectors, every number of polls and attempts and every place where the head may come to rest, `TypeOK`, `InStep`, `WaitsAnswered`,
`ReadPrepared` and `PanicJustified`. The state of the driver is the list of accesses to come, so the invariant (`Sync`) has to speak of
that list: a *label* says what the driver may count on before an access (the phase of the controller, the
bytes it has, how many interrupts are still to be asked for, the registers, what is known of the head, how many seeks have
missed); `May` says which accesses are in order at a label and `Then` which label holds afterwards. `Run` says that a
list leads from one label to another. `Sync` is: as long as no byte was given up, there is a label that the state matches and from which
`todo` leads to the end of `init_fat12` (or the attempts are used up). Each function of the
driver has a lemma that says from which label to which it leads (`CalibrateRun`, `SeekRun`, `ResetRun`, `ReadRun`, `InitRun`), by concatenation and
without induction over the list; a test that decides on another attempt replaces the head of the list by a
list that leads to the same label. Each action then has a lemma (`SendSync`, `ReadSync`, `WaitSync`, `DorSync`, `OtherSync`, `TestSync`,
`ControllerSync`), and the four properties are read off the label.

Assumptions: only the named `ASSUME`s of the modules, which TLC evaluates in the runs: sizes are positive, Enter is not
a letter, a screen has two rows and columns and its positions fit the two bytes of the cursor registers, the disk has 2880 sectors and the controller's data register 8
bits, a memory map has a usable area, something is kept back for the heap, `Margin` is twice any request and a header, the
machine's heap has at most 32767 bytes (the registers are shorts) and room for ten bytes for every line of a program.

Only model-checked: the liveness properties (`EveryEnterAnswered`, `Returns`, `MallocReturns`, `KeysRead`, `TicksCounted`, `SleepReturns`,
`PlainProgramsHalt`, `InitReturns`), which are outside the prover's reach. Every invariant of a passing run is also a theorem.

## Not modelled

Splash texts, `mem_dump`, `print_mem_map`, `task_log_status` and other output; `gdt.c` (three constant
descriptors), `io.c` (single instructions), `boot.S`, `linker.ld`, the vendored
`multiboot.h`, the Perl assembler `dasm/dasm`. The interrupt stubs are in `startup.asm`, which is
not in the repository: they are modelled from the shipped kernel as what an interrupt
gate, a call of `irq_handler` and an `iret` do. What a store behind the end of an array overwrites is not
modelled; the places are hazards.

The cooperative tasks (`task.c`, `switch.S`): `init_tasker` is commented out of `cmain` and `run_que` out of
`init_tasker`, and the first `task_yield` would hand `switchTask` contexts that it reads four bytes off, and jump through
what it finds. Nothing after that step follows from the source, so there is no behaviour to check; what is wrong
with the queue is listed as hazards.

## Plan

Open: of the proofs, facts about recursive and looping code
that were so far given by TLC only, now that there is an induction lemma.
