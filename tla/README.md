# Nova64 OS in TLA+

Nova64 is a small x86-64 kernel: a VGA text screen, a keyboard, a timer, a real
time clock, a line-oriented shell and a setup dialogue, a read-only FAT32
driver, and a compiler and virtual machine for its language Stellar.  There are
no processes.  Everything that runs is `main()`, the timer's interrupt handler
and the keyboard's, and a command typed in the shell runs inside the latter,
with interrupts off.  What is hard to get right, and to test, is therefore

* `main()` and the handlers sharing the cursor, the ports of the clock chip and
  the page allocator without any lock;
* a session whose mode is spread over two flags and a stage;
* limits: a line of 254 characters, a row of 80, a screen of 25, a timer that
  wraps, an allocator that never frees;
* a drive that is polled without a time-out, through buffers nobody owns;
* interrupts that may be lost, or come before anyone is ready for them;
* a compiler that emits code in one pass, with a handful of pending operations
  and stacks of addresses to patch.

## Inventory

| Component | State | Operations | Interacts with | Correct when |
|---|---|---|---|---|
| keyboard driver and line editor (`kbdriver.c`, `string.c`) | `shift_pressed`, `key_buffer`, `cursor_x/y` | one interrupt per scancode | shell, setup, screen | the line on the screen and the line in the buffer agree; shift is never stuck |
| shell (`shell.c`) | `shell_active` | `bashinit`, `exeCommand` | clock, disk, Stellar, power | entered and left only as the session allows |
| setup (`config.c`) | `config_active`, `config_status`, `user`, `time_zone`, `current_tz_offset` | `start_config`, `update_user`, `update_tz_by_name` | line editor, clock | its stages come in order, zone and offset belong together |
| main loop (`kernel.c`, `animations.c`) | `last_blink`, `cursor_visible`, locals | boot, clock, blink, hlt | everything, interrupted anywhere | goes on for ever, blinks in time, paints where the cursor is |
| timer (`pit.c`) | `timer_ticks` | `timer_handler`, `sleep` | main loop | no sleep or blink is lost when the count wraps or a tick comes late |
| clock (`rtcdriver.c`) | ports 0x70 and 0x71 | `get_time` | main loop, shell, setup's offset | returns one moment's time |
| memory (`pmm.c`, `malloc.c`) | bitmap, `free_pages`, heap pointers | `pmm_alloc_page`, `kmalloc` | disk, shell, main loop | no page or byte is handed out twice; the count is the bitmap's |
| disk (`ata.c`, `fat32.c`) | `main_bpb`, `data_region_start`, the drive's registers | `read_sectors`, `fat32_init`, `fat32_find_file_cluster`, `format_to_fat` | shell, heap | a file is found by its name or not at all; what is read stays where it is |
| screen (`videodriver.c`, `print_double`, `itoa`) | the text memory | `print`, `print_char`, `print_int`, `clear_screen`, `draw_cursor` | main loop and handler, cell by cell | what is printed is on the screen; the clock shows one time |
| Stellar compiler (`stellar_compiler.c`) | output, pending operations, five stacks | `compile` | virtual machine | the code means what the program means |
| Stellar virtual machine (`stellar.c`) | `pc`, `sp`, stack, variables | `vm_run`, one step per opcode | shell | never leaves its code or its stack on compiled code |
| interrupt set-up (`idt.c`, stubs) | gates, masks, the controllers' registers | `idt_init`, `irq0_stub`, `irq1_stub`, `keyboard_init` | everything | one handler at a time; every key and tick arrives |
| host tools (`host_open.c`, `encrypt.c`, errors) | files of the host | compile, run, encrypt, decrypt | compiler, machine | an encrypted file gives back what it was made from; no file is left that nobody wanted |
| port helpers (`io.c`), boot, web site | - | - | - | straight-line |

PROJECT.json lists every component with its status, and every hazard of the
code at its line with the properties that cover it.

## Modules

    Session         what a user may rely on: menu, shell, setup
    Terminal        keyboard_handler, and the shell, setup and strings it calls
    TerminalProps   its properties, and the mapping to Session
    Kernel          main() and the timer around Terminal, interrupted anywhere
    KernelProps     their properties
    KernelProofs    theorems about Terminal, and on them about Kernel (TLAPS)
    Rtc             get_time by main(), by the handler, and the chip
    RtcProofs       theorems about it (TLAPS)
    Screen          the cells of the screen, written by main() and the handler
    ScreenProofs    theorems about it (TLAPS)
    Interrupts      controllers, gates and stubs, from the cli at boot on
    InterruptsProofs  theorems about it (TLAPS)
    PhysMem         pages and heap, main()'s allocation interrupted
    Disk            drive, FAT32 look-up and the file command, on PhysMem
    DiskProps       its properties, and the mapping to FileStore
    FileStore       what a user may rely on: files answered by their names
    DiskProofs      theorems about both, the memory first (TLAPS)
    StellarCode     bytecode and numbers
    StellarCompiler compile(), one action per branch
    StellarVM       vm_run, one action per family of opcodes
    StellarLang     the language: trees, tokens, meaning
    Stellar         compiler, then machine, against the meaning
    StellarForm     which texts have the form of a program, as an automaton
    StellarProofs   theorems about the code of any text (TLAPS)
    StellarStackProofs  theorems about the stack, on StellarProofs (TLAPS)
    Container       the encrypted file format, operators only
    HostTool        the tool and its files, EXTENDS Container
    HostToolProofs  theorems about both (TLAPS)
    MC...           instances for TLC

Kernel EXTENDS Terminal, Disk EXTENDS PhysMem, Stellar EXTENDS StellarCompiler and
instantiates StellarVM.  StellarLang is recursive over trees, so only MCStellar
instantiates it: a program reaches Stellar as its tokens and its meaning.  Rtc, Screen and Interrupts stand alone:
each looks closer at something Kernel takes as one step.

### Terminal

One action per path of `keyboard_handler`; the handler runs with the interrupt
flag clear, so a path is atomic.  `Key(sc)` is the handler for a make code:
`CharOf` the look-up in the key maps, then `TypeChar` (`string_append` and the
wrap at the right edge), `EraseChar`, or `Enter`, whose disjuncts are the tests
of lines 58-108 in their order.  `ShellCommand`, `LeaveShell`, `PowerCommand`
and `StellarHangs` are `exeCommand` with the handler's tail.  A line is a
sequence of characters; how a command is spelled is a constant, so that an
instance can spell it in one or two keys, and the assumptions only say that
different commands are spelled differently.  What is painted is left out, the
cursor is not.

The environment is part of the model where the properties need it: `held` and
`fake_shift` are the keys that are down, because Print Screen sends shift codes
of its own (E0 2A ... E0 AA) that the handler takes for a shift key.  `power`
says whether the machine still runs; `"hung"` is a handler that does not return
(the disk is polled without a time-out, and a Stellar program may loop).  `PowerLost`
may come at any time, `PowerCycle` to a machine that has stopped.  Session has the same
as `on`: only a machine that stopped begins a session anew, so no key may bring the
setup back to its first stage.

### Kernel

`main()` from the `sti` on, with one action per access to what the handlers
share: the tick count, the cursor (read for `draw_cursor` in an order C leaves
open), `last_blink`.  `Tick` is `timer_handler`, `KeyInterrupt` is Terminal's
step together with what the handler paints.  A `hlt` is two states, before and
after it halts: a tick between a test and the `hlt` is seen only at the next
interrupt.  Of the screen the model keeps the cells with a cursor bar.
Lines 70 and 71, which set the user and the zone just after the `sti`, are
taken as done at the start: no line can be typed in those few instructions.
The clock's time is module Rtc, what is painted is Screen, and that a handler is
one step is what Interrupts shows.

`MaxLate` is an assumption on the machine: how many ticks may find one pass of
the loop still running (a pass takes microseconds, a tick ten milliseconds).

### Rtc

A register is read by writing its number to one port and reading another, and
both `main()` and the time command do so.  The chip is modelled from its use:
it announces an update 244 microseconds before it makes one, which is longer
than a `get_time` that is not interrupted.  That is the guard of `Update`.
BCD is left out, the length of a day is a constant.

### PhysMem

`bitmap` is the set of marked pages.  `Bump` and `Charge` are `kmalloc`, called
through `todo` by `fat32_init` at boot and by `RunFile`, which is
`run_stellar_from_disk` in the keyboard's handler: while there is something to
do `main()` stands still.  Disk says which file is run.  `Scan` ... `StoreCount` are `main()`'s own
`pmm_alloc_page`, a load or a store at a time, because the Makefile asks for no
optimisation and `|=` and `--` then are several instructions.  `raced` remembers
that a file was run between its test and its count; that takes fast fingers,
but interrupts are on.

### Disk and FileStore

`read_sectors` is `Command` (the six writes to the drive), the two waits, a step
for each word, and `Mount`, `NotFound`, `Found` or `Loaded` for what its caller
does with the sector.  The drive is a process: it takes its time to begin, to
have a sector ready and, at any moment, to fail.  Its registers hold a sector
number in the pieces the code writes.  `ram` remembers which word of which sector
is stored at which address, so that a boot sector overwritten by a later read
would be one no more; addresses come from PhysMem's `kmalloc`, whose actions run
as they are.  `format_to_fat` is an operator on names as sequences of characters.

`FileStore` answers a name with a file it has under it, or with nothing.  The
mapping reads the directory in its own way, `Spelling` and `Denotes`, from the
image's entries; an image also says where its files really begin, which the code
has to compute.  A name that is not 8.3 may be answered with any file, since the
code cuts it.  `ImageAssumption` in DiskProps says what an image is: numbers in the
boot sector, a directory where the boot sector puts it, files where the directory
puts them.  The root directory is at cluster 2, as `fat32_find_file_cluster` has it,
which reads the first sector of the data region without looking at `root_cluster`; and
a boot sector holds no name that can be typed, so that a look-up in it (after a mount
that failed) finds nothing.  TLC evaluates the assumption for the three images.

### Interrupts

`Accept` is the processor taking the pending line of highest priority that no
line in service blocks; `base`, `mask`, `irr` and `isr` are the two controllers'
registers and `idt` the gates that are present.  `Remap`, `Mask`, `SetGates` and
`sti` are `idt_init` and `main()`, then comes `keyboard_init` with its test and its
read apart.  A byte waits in `data` until somebody reads it, and the keyboard's
line rises only when a new one is put there: this is how a key could block all
later ones.  The drive's line may rise at any time, since `read_sectors` makes it.

### Screen

`screen` is the text memory, `text` what the handler means it to say.  `main()`
goes a cell at a time through the eight cells of its clock (`PaintClock`) and
through `draw_cursor`'s arguments; the handler's actions are whole: a letter, a
backspace, and the commands that print numbers or clear.  `itoa`, `print_double`,
`print_int` and `print` are operators that yield the writes they make; the
instance checks them against the decimal system over ranges of numbers (the
ASSUMEs of MCScreen), ScreenProofs proves it of all.  `disturbed` are cells of the clock the handler wrote upon
in this pass, `stale` those where `main()` drew a cursor that had moved.

### Host tool

`Container` has what `encrypt.c` makes of a code and of a file; how keys, stream
and MAC are mixed is left open, as operators of what they are computed from.
`HostTool` is a directory in which sources are edited, compiled, run and killed
half way (one action for each call that touches a file, `file_write` may be cut
short by a full disk unnoticed), and in which files are encrypted, damaged, cut
and decrypted.  Nothing in the repository calls the encryption, so the program
that does is the environment.  `is_binary` is the tool's choice between a source and a
binary: `RunBinary` runs one from memory and touches no file, and what is compiled is
never a file with the default name of a binary.

### Stellar

The source is a sequence of tokens, the code a sequence of cells: strings,
numbers and addresses take one cell each, so jump targets are cell addresses.
`StellarCompiler` has `compile()`'s loop as actions: `Refused` collects the
conditions of `error_exit` (`BadDeclaration`, `BadInput`, `Unmatched`, `UnknownName`,
`Unexpected`), and every action is a branch with all it emits and
every flag and stack it changes.  `"broken"` is where it
reads a place of one of its stacks that was never written (an `else` without an
`if`, a block without a condition), or writes past the end of one: their sizes
are constants, and only the symbol table's is checked by the code.  `StellarVM` has one action for the opcodes that differ only in the
operation, which is `Arith`; an opcode for `int` and its twin for `let` are one
name with two types.  A register remembers as which type it was written, as the
union in the code does not: read as the other it is `Junk`.  `"wild"` is where
`vm_run` would leave its code, pop an empty stack, push on a full one or follow a
bad pointer.  Numbers are counted in units of 1/`One`, so that `/` has its fraction,
an `int` loses it, and an index is rounded, as the casts in the code do it.

`StellarLang` is written from the grammar and the list of undefined behaviour in
`stellar.md`, independently of the compiler: a program is a tree, `Tokens` is its
text with only the parentheses the grammar needs, and `Meaning` is what it
prints, what its variables hold in the end, and whether it was defined.
`Stellar` starts with any of a set of programs, compiles it and runs the code.
`Computes` compares the end with the meaning.  Nothing in Stellar itself depends on
what a meaning is, so what is said of the code alone (`StellarTypeOK`,
`JumpsPatched`) is said, and proved, of any sequence of tokens.

`StellarForm` says when a text has the form of a program: `Tidy`, a finite automaton
over the tokens that counts parentheses.  It asks less than the grammar: names need not
be declared, blocks may be left open or closed too often, an `else` may stand anywhere.
It asks for what `compile()` does not check: that operands and operators take turns, that
a statement is one of the seven, and that an expression, inside its parentheses, has one
comparison at a time.  What is said of the stack is said of these texts, since others
(`x < 3 == y`, `if { print(x); }`) are accepted and do leave values behind or pop too many.
MCStellar has TLC evaluate that every legal program of the instance is tidy
(`ProgramsTidy`), with a run of the automaton for each.

## Runs

| Run | Question | Bounds | Result |
|---|---|---|---|
| terminal_lines | session, line, zone and shift under every sequence of keys | 3 characters, both shift keys and Print Screen, 4 columns, a buffer of 5, rows to 4: lines wrap, fill the buffer, and are erased across the edge in the state space | `TypeOK`, `LineCovered`, `ZoneConsistent`, `ShiftNotStuck`, `ImplementsSession` hold |
| kernel_time | boot and loop with a wrapping timer | wrap at 16, sleeps of 2, blink of 3, one late tick a pass | `KernelTypeOK`, `BlinkSpaced`, `BlinkNotMissed`, `ClockRuns` hold |
| kernel_keys | keys at every point of boot and loop | 2 characters, 3 columns, a buffer of 2, wrap at 3 | `BarsExplained`, `KernelLineCovered`, `KernelImplementsSession` hold |
| rtc_reads | reads interleaved with each other and with the chip | a day of 3 x 2 x 2, four offsets | `RtcTypeOK`, `HandlerCoherent`, `MainCoherent` hold |
| disk_files | boot, files run and `main()`'s own allocation, on three disks, with a drive that may fail, to exhaustion | names of 2 + 1 characters, 4 typed; sectors of 2 words, 16 of them; directories of 4; 6 pages of 32 bytes, 4 files: more than memory holds | `PhysTypeOK`, `HeapSound`, `CountExactUnraced`, `PageOwned`, `DiskTypeOK`, `BpbIntact`, `ReadsEnd`, `ImplementsFileStore` hold |
| interrupts | boot and loop with keys, ticks and the drive's line at any moment | 4 keys | `IntTypeOK`, `OneHandler`, `NoFault`, `KeysInOrder`, `KeysArrive`, `TicksArrive` hold |
| screen_text | `main()`'s clock and cursor under a handler that types, clears and prints | 12 x 5 cells, lines of 2, 2 times, 2 sizes, 3 numbers, one stale cursor | `OutputShown`, `ClockWhole` hold |
| stellar_programs | does the machine, running what `compile()` emits, do what the program means? | see below | `StellarTypeOK`, `Computes`, `Rejects`, `StaysSane`, `StackDiscipline`, `JumpsPatched`, `WildAtPointer`, `Ends` hold |
| host_files | files edited, compiled, killed, encrypted, damaged, decrypted | 1 source, 3 texts, codes of up to 3 cells and one of 4, 3 keys (null and "" among them), 2 salts | `OpensAsMade` holds |
| stellar_group | do parentheses group on the right? | `3 * (x + y)` and the like | violated: the product is of `x` |
| stellar_else | an if in the middle of an else block | 528 programs | violated: the outer if's jump is patched too early |
| host_leftover | is a binary nobody asked for removed? | as host_files | violated: the tool cannot tell its default name from `-o` |

stellar_programs runs, from the sets of MCStellar:

* `ExpressionPrograms`: 2360 expressions of two leaves, up to four operands and
  all eleven operators, without grouping on the right;
* `ControlPrograms`: if, else if, else and while, each inside each, with both
  outcomes of their conditions;
* `DataPrograms`: every two of 16 stores to variables and elements of one type,
  input, null and bad pointers;
* `FractionPrograms`: all operators on 1/2, 3/2, 9/2 and 5/2, stored into a `let`,
  an `int` and an element, and as an index and a condition, so that values pass from
  each type to the other;
* `SourceTexts`: a comment after every `;`, `{` and operator, some 200 texts with
  one mistake, one with too many variables, and those that `compile()` should
  refuse and does not: blocks without a condition, an `else` without an `if`, and
  nesting or chains one deeper than the stacks (3, 3, 4 and 4 places here; 16, 16,
  32 and 32 in the code).  For these the run shows only that nothing else goes wrong.

What these sets leave out is what the compiler does not do as `stellar.md` has
it.  Besides the two violated runs, the model and the host tool agree that

* a comparison of a comparison (`x < 3 == y`) drops the first, and leaves a value
  on the stack;
* in `9 - a[1] * 3` the element ends the difference, which is then multiplied;
* `x += y * 3` is refused after the `y`;
* `x += d`, `-=` and `*=` with an int `x` and a let `d`, or the other way round, take
  the bits of one type for the other, and so does `input` into an int variable
  (`Computes` fails when a compound assignment across the types is among the programs);
* `x *= 1.5` with an int `x` multiplies by 1, since the number is made an int first;
* `if { print(x); }` takes the argument of `print` for its condition;
* an `else` after a comment finds no if to pair with and reads below its stack;
* a missing `;` before `x++` or `x += y` goes unnoticed, and so does a declaration
  without a value, which the grammar has not.

Deadlock is checked except where the machine really stops: a reset, power off or a
hung handler (kernel_keys), memory exhausted or a drive that failed (disk_files), a
program at its end (the Stellar runs).

### Bounds

`RowBound` stops the keys below a row: the cursor has no bound in the code.
`MaxPrints` bounds what a Stellar program prints, `since` saturates above every
value it is compared with.  `MaxRuns` bounds the files run; memory is exhausted by
the last of them, after which a further one changes nothing of the same kind.
`MaxKeys` is 4: one before the controllers are set up, one that `keyboard_init`
meets and two after.  `MaxLine`, `MaxRow` and `MaxStale` bound Screen; a clock
that wraps into a row of text, a line at the screen's edge and one below it are
within them.  The three disk images differ in everything the address of a sector
is computed from, one has a label and an empty file before files of the same
name, and one is not FAT32.  Registers of one bit
split a sector number in the same four pieces as those of eight and four.

The Stellar runs enumerate programs, not states of one: each program's run is
deterministic, so the interesting choice is the set.  It is built from every
combination of one level inside another, which is what `compile()`'s stacks can
confuse: a third level repeats the second.  The programs of the violated runs
and of the list above were compiled and run with the real host tool as well,
with the same results.  `Registers` is 8 instead of 256, `One` is 36, so that every
quotient of these programs is exact, and `StackSize` is 7: no program needs more
(`SevenPlaces`), and `Tallest` needs that: with 6 the run fails (the machine has 8192
places and looks at none).

### Races that are excused

Five properties have a history variable for a race the code does lose, and say that
nothing else goes wrong: `strays` (a bar `main()` drew where the cursor had been,
`BarsExplained`), `displaced` (a line `main()` moved the cursor under,
`KernelLineCovered`), `cut` (a time `main()` read while a handler read one,
`MainCoherent`), and `raced` (an allocation of `main()` in which a file was run,
`CountExactUnraced`, `PageOwned`, and the last part of `HeapSound`).  None of these
races is found by a run, since no document or test promises its absence; each is
written down under "What else was seen" or with the module.  Likewise `ReadsEnd` and
`ClockRuns` except a drive that fails, for which the code waits for ever.

### Fairness

`Ends` assumes that a compiler or machine that can take a step does.  `ClockRuns`
assumes weak fairness of `main()`'s steps and of the timer.  The first is what a
processor does when a handler returns, the second what the PIT does.  `ReadsEnd`
assumes the same of the code and of the drive, which may answer by failing.
`KeysArrive` and `TicksArrive` assume weak fairness of a stub and of the keyboard's
controller, strong fairness of `main()`, which runs whenever no stub does, and of
an interrupt that can be taken again and again.  No fairness of the keyboard or
of the user is assumed.  In Interrupts the timer is taken not to be faster than its own
handler, and a line latched once stays so until it is taken or ICW1 clears it:
the 8259's spurious interrupts are left out.

## What else was seen

Not every disagreement has a run.  These the models show too, or the source does:

* `pmm_init` reserves as many pages as the kernel has, but from page 0 on, not
  the kernel's own.
* Nothing scrolls.  The cursor leaves the screen after 25 rows and writes beyond
  it; so does a prompt as wide as a long user name.
* `main()` may draw or erase its bar where the cursor was: a key between the
  evaluation of the arguments and the call leaves a bar behind (`strays` in Kernel,
  `stale` in Screen).  `BarsExplained` says that there are no others.
* `print_double` prints a lone 0 before the point and then leaves a gap (`0 .5000`),
  and cuts a number of 2^31 or more to an int; `itoa` prints nothing for a negative
  number; `print` goes on in the next row once, and only there.
* In the kernel's build `PRINT_STR` prints nothing and `INPUT` pushes a double that was
  never written (`stellar.c:309-363`), other than `stellar.md:189` and `:197` say.
* `shell.c:35-39` uses `stellar_compile`, `stellar_init` and `stellar_run`, which are
  defined nowhere, and `stellar_errors.c` is empty without `STELLAR_HOST`: the kernel
  does not link as it stands.  The model takes them for `compile`, `vm_init` and `vm_run`.
  The host tool lacks a definition of `stellar_lsp_mode` (`stellar_errors.c:4`); it was
  built with one, 0, to compare it with the model.
* `error_exit` removes the default binary, also with `-o`: the file `-o` names stays,
  from an earlier source.  The default name is cut at the last `.`, of a directory too.
* `-d` of a binary of more than 65536 bytes reads past its buffer.
* `stellar_is_encrypted` casts its key to void and looks at the size and the marker only:
  a file made with another key is recognised with this one.  `encrypt.h:62` says that a
  key that is not NULL is really used for the check, and the comment at
  `encrypt.c:276-278` that the magic is derived with it.  `OpensAsMade` therefore speaks of
  recognition without a key only.  `stellar_decrypt` does not look at the marker.
* An empty code and one of more than 65536 bytes are
  encrypted and cannot be decrypted.

## Proofs

All theorems hold for every value of the constants that satisfies the named
assumptions of the modules; TLC evaluates those for the instances it runs.  Each
proof has the same shape: an invariant that is inductive, one step per action,
under it a step per conjunct the action can disturb, and a last step by temporal
logic.  The invariants were checked by TLC before they were proved, except for `StackOK`,
which says of the code that a function exists: of it TLC checks what follows.

**Terminal.** `TypeOK`, `LineCovered`, `ZoneConsistent`, `ShiftNotStuck`, and Terminal
implements Session.  The last needs `ModesExclusive`, that the flags of the shell and of the
setup are never both set: the mapping gives that state a mode Session has not.  `LineCovered` needs that the
origin is never right of the cursor's line, and is by itself not inductive across
`EraseChar` without the length of the buffer; `ShiftNotStuck` needs a strengthening
that relates `shift_pressed` to which keys are held and to whether Print Screen began
with a fake shift.

**Kernel.** `KernelTypeOK`, `BarsExplained`, `KernelLineCovered`, `BlinkNotMissed`,
`BlinkSpaced`, and Kernel implements Session.  A key is a step of Terminal, so
what is proved of Terminal is used for it as it stands.  For the blink, `SinceExact` says that the
difference `main()` computes modulo the width of `timer_ticks` is the true number of
ticks while that is below the width, and `PassBound` how many ticks may have come at
each label of the loop: one that goes to `hlt` found the blink not due, a halted one
adds a late tick at most.  That the width is more than `BlinkTicks + 2 * MaxLate + 1`
(2^32 in the code) is what keeps the two apart.

**Rtc.** `RtcTypeOK`, `HandlerCoherent`, `MainCoherent`.  `Undisturbed(r)` is what a
reader knows at each label that nobody has come between: the port's index is its own,
no update can come before its end, and what it has read is what the chip still shows.
It holds of the handler always and of `main()` until `cut`.  The hour's arithmetic
(`adjusted_h` twice wrapped) is proved for any day and any offset up to a day.

**Interrupts.** `IntTypeOK`, `OneHandler`, `NoFault`, `KeysInOrder`.  `SetUp` says which
part of `idt_init` is done at which label, `OneStub` that the flag is clear exactly
while the one stub runs.  For the order of keys, `Paid` counts: every key that is
handled twice, and every interrupt on its way to the port without a byte of its own,
is paid for by a byte `keyboard_init` has read away.

**Memory.** `PhysTypeOK`, `HeapSound`, `CountExactUnraced`, `PageOwned`.  `HeapSound`
has three parts: blocks apart and aligned, no page charged that no block reaches into,
and every byte handed out in a page that was charged.  The last holds only while a page
is free, for `kmalloc` raises `heap_mapped_limit` whether it got a page or not, and only
if `main()` was not interrupted, for its stored byte may free a page of the heap, which
is then charged twice.  `HeapInv` adds what makes them inductive: that the heap's pointer is
aligned and above its start, and that its limit is less than a page beyond it and never
short of what was charged; `PaidInv` that the limit is exactly what was charged, until
memory is exhausted or `main()` interrupted.  For the count,
`UnracedInv` says what `main()` knows at each of its labels: that the page it found is
still free, that the byte and the count it loaded are current, and that between its
store and its count one page is owed; it holds as long as nobody interrupts, and that
nobody can be in `kmalloc` then is part of it.

**Disk.** Disk implements PhysMem (`DiskImplementsMemory`), so its four invariants hold
under the disk's code.  `DiskTypeOK`, `BpbIntact`, and Disk implements FileStore.
`Buffers` ties what `kmalloc` returned to blocks of the heap, whose disjointness is
`HeapSound`; with `Transfer`, which says what a buffer holds of its sector so far,
`BpbIntact` follows.  `Asked` and `Addressing` say that the sector the registers
address is the one that the boot sector and the entry found give.  That leaves
`format_to_fat`: a name that is 8.3 is formatted to its entry's spelling, for any sizes
of name and extension and any alphabet.  First and last places of a sequence (the first dot,
the last letter, the first entry) are found by the least-number principle, which the
library has without an operator as a parameter (`WFMin`).

**Screen.** `ClockWhole`, `OutputShown`, and what numbers look like.  The library's
theorems about induction and recursion take operators; ScreenProofs has its own, over
sets and functions, from the least-number principle, and with them that a recursive
function such as `Power` or the digits of `itoa` is what its equation says.
`ItoaIsDecimal`: `itoa` writes a number of up to ten digits in the decimal system.
`DoubleMeans`: what `print_double` writes, in as many calls as it makes, leaves on an empty
screen the number it is given.  `ClockInv` says that `todo` is the rest of the eight writes
of the time, and which of the two times each cell of the clock has that nobody else wrote
upon.  `OutputInv` needs that the rows below the cursor's are blank in `text`: a lone 0
leaves a gap (`Means`), which is blank only if nothing was said there before.
The theorem about `OutputShown` has the hypothesis `ValuesFit`, that the numbers a program
prints have an integral part that fits into an int: a larger one is cut, and is not what
was meant.  TLC evaluates it for the instance's numbers.  `NumbersAssumption` says that an
int has at most ten digits, which is what `itoa`'s loop is proved for, and that no size
of the free memory is beyond an int; `ScreenAssumption` where on a row the commands write,
and that it is wide enough for them.

**Host tool.** `RoundTrip` and `OtherKeyRefused`, about the format alone; `FilesAreKnown`,
the invariant: a file is a text, a binary, or what `stellar_encrypt` made of a known
code with at most one damage.  From it `OpensWithItsKey`, with nothing assumed of the
mixing, and `OpensAsMade` under `IdealMixing`, a hypothesis of that theorem alone: that
the magic tells keys apart, the MAC codes, and that it is no byte of a code.  The real
mixing, of 32 and 64 bits, only makes this likely; the instance's has it.

**Stellar.** For every sequence of tokens, a program or not, and any size of the
tables: `StellarTypeOK`, `JumpsPatched`, and `RegistersKnown`, which is stated in
StellarProofs.  `SInv` has the form of the code (`CodeOK`: every opcode has its operands
and another opcode or the end after them, every jump goes to an opcode or to the end),
what waits to be patched (`HolesOK`: an address that is still 0; `HolesApart`: each in
one place of one stack), that as many loops are open in `scope_stack` as in
`while_start`, and, once `HALT` is written, that nothing leads to the end any more
(`Closed`), which is all the machine needs.  An action of `compile()` appends pieces that
are whole in themselves, patches holes with places that are targets, and pops what it
patched; the lemmas say this of sequences of cells, and each action cites them.

**The stack.** For every tidy text, with any number of variables, any sizes of the tables
and any arithmetic: `StackDiscipline`, `SevenPlaces`, and, on a machine with at least seven
places, `WildAtPointer`.  The machine checks no pop, so this is what stands between a
compiler that forgets to clear a pending operation and a loop that eats its memory.
`StackOK` is the invariant.  A place of the code has a *level*, how many values are on
the stack whenever the machine is there (`Levels`): an opcode finds on its level what it
pops, the place after it has the level it leaves, and every jump goes to a place of level
0.  While `compile()` is at work, `CompileOK` relates three things: the state of the
automaton, which flags and pending operations there are (`Reading`), and the level at which
the code ends so far (`Height`), which is the number of values nothing has taken yet: two
for an element that is stored to, one for each operator that waits, one for the operand
before the next operator, and one for a string to print.  Each branch of
`compile()` appends pieces that lead from one level to another (`Lifts`), and these
join; patching keeps the levels because a hole, like what fills it, is at level 0.  A
`PRINT_STR` is preceded by the `PUSH` of its string's address (`TextBefore`), and since
no jump leads between the two, the address is on the stack (`PrintsText`).  Then the
machine's step is the same for every opcode: it goes on, to a level that is known, jumps,
with the stack empty, or stops.  The three slots for operators have one place each, which
bounds the level: 2 + 3 + 1, and one more while an element is read.

Only model-checked:

* liveness, which is out of the provers' reach: `ClockRuns`, `KeysArrive`, `TicksArrive`,
  `ReadsEnd`, `Ends`;
* `Computes`, `Rejects` and `StaysSane`: they speak of what a program means, and StellarLang
  is recursive over trees.  What `StaysSane` says of the code, and not of its pointers, is
  `WildAtPointer`.

## Plan

1. Terminal, Session, Kernel, Rtc, PhysMem, Stellar, Disk, Interrupts, Screen, host
   tool (done); theorems about all of them (done).
2. A bound on the code `compile()` writes, against its buffer.

## Not modelled

Boot code and page tables (straight-line, once); that a stub saves the registers;
port helpers (single instructions); colours; error messages; the web pages; spelling
and white space of Stellar programs, and with it texts that end within a string (the
compiler then reads on behind their end); the size of the compiler's output; the width
of an int and the rounding of a double; opcodes that are never emitted; the texts
of neofetch and of the hex dump; `get_input`, `kfree`, `kheap_init` and
`pmm_free_page` (no callers or no body).  Of the disk: the attribute byte, directories
beyond one sector and files beyond theirs (the code reads neither), and drives of
more than 128 GB, whose sector numbers wrap.  Of the encryption: how bits are mixed.
