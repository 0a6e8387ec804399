# OpenFerain OS 26.1 in TLA+

Models, model-checking runs and machine-checked proofs for the code of
OpenFerain OS 26.1: a 32-bit x86 kernel (`Sources/init`, `Include`), the boot
sector and an older assembly kernel (`Sources/Boot`), a command shell written
against that older kernel (`Sources/Application/CMD.c`) and a UEFI loader
(`UEFIBIOS`). Paths below are relative to `src/`.

## The system

| Component | State | Operations | What makes it correct |
|---|---|---|---|
| Text console (`Include/stdio.h`, interrupt 0x41 in `init.s` and `asm/interrupt.h`) | `vmx`, `vmy`, `color`, video memory, CRT cursor | `printf`, `println`, `test_scolling`, `set_cursor`, `vm_scolling`, `video_isr_print_string` | text never leaves the text rows; the rule and the status row survive; the result is what a teletype would show; calls return |
| PCI enumeration (`device/PCI.h`, `ISA.h`, `IDE.h`, `SATA.h`, `USB.h`, `SDHOST.h`, `IEEE1394.h`) | `device[]`, `device_count[]`, seven class tables | `PCI_Enumeration`, `conf_bar`, six `PCI_*_ENU` walks | a walk uses only indices the scan has filled in; a class without overflow is reported exactly; "not found" is true |
| UEFI loader (`UEFIBIOS/OpenFerainOSPkg/entry.c`) | handles, page and pool buffers, memory map key | `UefiMain` | every failure returns clean; the kernel starts only when it was read and boot services ended |
| Command shell (`CMD.c`) | `command[127]`, three counts, `color` | `have_key`, `back_space`, `enter`, `code` | the buffer is the line on the screen; a command depends on its own line only |
| Legacy kernel, task services (`16T32.asm`, interrupt 0x31) | five allocators at 0x2000, GDT, LDT, IDT, TSSs, base table | `_creat_task`, `_LOAD_BASE` | the descriptors of a task lead to each other and to its program; a task gets its own base |
| Legacy kernel, keyboard (interrupt 0x21) | `KSR`, registers `eax`, `cl` | `_KEYBOARD`, `_convert` | every key reaches the shell once, in the right case |
| Legacy kernel, video and clock (interrupts 0x30, 0x28) | cursor word 0x2008, video memory | `_VIDEO`, `_RTC` | a tick of the clock between any two instructions leaves text and cursor as they were |
| Boot sector and entry (`setup.asm`, `init_setup`) | low memory | load, clear, copy, enter protected mode | every word the kernel takes to be 0 was cleared |
| Descriptors and paging (`asm/descriptor.h`, `asm/paging.h`, `init.c`) | GDT, IDT, page directory, page table | `set_gd`, `set_id`, `PDE_SET`, `PTE_SET`, `mem_map_init` | the kernel is mapped to itself and nothing else is mapped; every vector leads to its handler |
| Task manager (`asm/task.h`) | page and task bitmaps | `creat_task`, `get_available_*`, `*_write` | no page of the kernel is given away; a failure gives back what it took; a task finds its segments |
| Exception handlers (`init.s`) | the stack and registers of the interrupted program | `_DE_fix` and the other entries | the program gets everything back, and goes on at an instruction |
| PS/2 handler (`asm/interrupt.h`) | two flags | `ISR_FOR_PS2` | keys decode in the right case |
| SHA-256, number formatting (`hash/sha2.h`, `bit.h`) | the block, words and variables of a hash; `num_string` | `sha256`, `dec_digit` | equal to their definitions, and independent of what was hashed or written before |
| Stubs (`FileSystem/*`, `DEVICERW.h`) | none | empty | - |

How they interact. `init_main` calls `descriptor_init`, `paging_init`,
`mem_map_init`, `port_init`, `device_init`, `extension_init`, `shell_init` in
that order and then loops for ever; it never enables interrupts, so the new
kernel is one thread. `device_init` and `shell_init` print through the console
library, which calls itself back into the kernel through `int 0x41`. The shell
uses the same library for text but `int 0x30` for single characters, colour and
erasing, and takes keys from `eax` and `ecx`; both belong to the legacy kernel,
whose handlers run between any two instructions of it. The UEFI loader stands
alone and meets only the firmware.

Where the difficulty lies: in arithmetic at row, page and table boundaries; in
a cursor that is moved before the text it belongs to is written; in tables
written one entry past their end; in state that outlives the operation it was
meant for (a blank line in `command[]`, a memory map key, a pending scroll); in
error paths shared by several failures; in descriptors that must agree across
five tables; in tables placed by a wrong shift. `PROJECT.json` lists each hazard
at its line with the properties that cover it.

## Modules

| Module | Contents |
|---|---|
| `Console` | the console, one action per loop round and per interrupt |
| `Terminal` | what the console promises: a teletype that puts one character after the other |
| `ConsoleImpl` | the refinement mapping from `Console` to `Terminal` |
| `MCConsole` | constants for TLC |
| `ConsoleProofs` | theorems about `Console`, and that it implements `Terminal` |
| `PciEnumeration`, `MCPciEnumeration`, `PciEnumerationProofs` | `device_init` |
| `UefiLoader`, `UefiLoaderProofs` | `UefiMain` against a firmware that changes the memory map; `UefiLoader.cfg` runs the module itself |
| `Shell`, `MCShell`, `ShellProofs` | line editing and dispatch |
| `LegacyTasks`, `MCLegacyTasks` | interrupt 0x31 |
| `LegacyKeyboard`, `MCLegacyKeyboard` | interrupt 0x21 and the shell that polls it |
| `LegacyVideo`, `MCLegacyVideo` | interrupt 0x30 under the library's calls, interrupted by the clock |
| `LegacyServicesProofs` | theorems about `LegacyTasks`, `LegacyVideo` and `LegacyKeyboard`, which share no state |
| `Interrupts`, `MCInterrupts`, `InterruptsProofs` | the new kernel's handlers, instruction by instruction, and `ISR_FOR_PS2` |
| `TaskManager`, `MCTaskManager`, `TaskManagerProofs` | the kernel's tables from the entry code to `creat_task` |
| `Sha256` | `sha256` round by round, and FIPS 180-4 beside it |
| `NumString` | `dec_digit` digit by digit, and the decimal notation beside it |
| `MCHashAndDigits` | a thread that calls both, and constants for TLC |
| `HashAndDigitsProofs` | theorems about `Sha256` and `NumString`, which share no state |

Operators named `<definition>_<Change>` beside a definition are mutants: the
same definition with a plausible slip. Each property of a run is violated when
one of them takes the place of the original.

### Console

`vram` is the 80x25 page at its own geometry: `ROWS` text rows (23), one rule
row, one status row. `vmx`, `vmy` and `color` are the library's globals, `vmx`
and `vmy` modulo 256; `cursor` is the CRT controller's register. A call is a
sequence of steps with `pc` as its program counter: `Call`, the first loop of
`test_scolling` (`TopScroll`), its end (`TopDone`), the second loop (`Wrap`),
the move of the cursor (`WrapDone`), the interrupt that writes (`Write`) and the
tail of `println` (`Newline`). `SetColor` is a caller's assignment and
`DrawRule` is `shell_init`, which prints its 80 dashes past the library.
`vm_scolling` leaves the attribute bytes of the blanked row and of the rule as
they were, and so does the model.

`Terminal` types a text character by character and scrolls when a character
fills the page. It agrees with the console because `test_scolling` scrolls as
often in advance as typing would on the way; the mapping shows the page and the
cursor of the moment a call began until it returns, and treats every blank cell
alike.

`MaxLen` is `(ROWS - 1) * COLS`: a longer text would take `vmy` below zero. The
code has no test; its longest text is the legacy help, 73 characters.

### PciEnumeration

One action per function slot: nobody answers (`Absent`), a device of some class
answers (`Found`), the scan ends (`ScanEnds`); then one action per class walk
(`ENU`), whose result is the report it prints. A table is written while its
count is `<=` its size, so the tables are modelled as words of one memory in
their order in `.data` (ISA, IDE, IEEE 1394, SD, padding, USB, SATA, PCI) with
`num_string` behind the last one. `conf_bar` is the constant 0: its first test,
`if(continue_flag = 1)return 0;`, assigns, so that its other lines (`PCI.h:68`
to 145) never run and nothing here stands for them. The loop over the six base address
registers likewise assigns its own counter, and makes one round.
`dec_digit` clears `num_string` before every use, so the index that an
overflowing PCI table leaves there is never printed.

### UefiLoader

One action per boot service call together with the tests on its result, so that
`FirmwareEvent` can fall between any two calls. The firmware is external:
`version` is the key of its current memory map, `size` the number of
descriptors, and any allocation, release or event advances the one and may
enlarge the other. `held` is what the program has not released, `wild` records
a release of something not held. Every call may fail, either `GetMemoryMap` for
the size of its buffer or otherwise; a failed `ExitBootServices`, which fails for
a stale key, leaves the services usable. `MaxEvents` bounds the firmware's own
events.

### Shell

A key is one action. `command`, `cmd_char_num` and `color` are the program's;
`line` is the text as the user sees it. `cmd_calculate`, `cmd_code_check` and
`code` are operators over any contents of the buffer, so that the properties can
compare what Enter does with what it would do on a fresh buffer. The words of
the commands are parameters (none of the code's choices depends on their
letters), `MaxLine` bounds a line and `WordsAssumption` keeps comparisons inside
the buffer; the code has neither test. Left out: `line_num` and the cursor;
`line_char_num` and `main_func`'s polling are in `LegacyKeyboard`. `CMD.c` does not compile against the
present `stdio.h` (`test_scolling()` without an argument, `print_time`,
`video_memory_point`); it is modelled as it stands.

### LegacyTasks

Addresses and selectors are those of the code. A creation takes the next slot
of the GDT, the TSS area, the LDT, the IDT and the base table; `LOAD_BASE` turns
a task's `ds` into an address of the base table by the masks and shifts of the
code. What sets the allocators up is not in the repository: the LDT's and the
base table's first slots are the ones `LOAD_BASE` presumes (it calls the first
task 1), the GDT's and the TSS area's are parameters. The gate of interrupt 0x31
is an interrupt gate, so a service is one step. `MaxTasks` bounds the creations:
at 63 the LDT is full and the code would go on over the allocators at 0x2000.

### LegacyKeyboard

`KSR` is bit 0 of the handler's flag word, `eax` and `cl` are the registers in
which it hands a character to the program it interrupts. `Press` and `Release`
are the user and the handler's whole run: `convert` chooses the table,
`shift_ture` and `shift_false` are the tables by class of key, `Character`,
`SetBit` and `force_ret` the ways back. `Poll` is a round of `main_func`'s loop
and `have_key` what it does with a key, so an interrupt can fall before the poll
and between the poll and the read. `down` and `caps` are the keyboard as the
user sees it; `typed` holds what the user meant, `handled` what the shell acted
on, `benign` whether every event so far left the last character time to be read
and kept to one modifier. `KeyboardInit`, `KeyboardNext` and `KeyboardSpec` are
named so that the module can be extended together with the next two.

Nothing clears `eax` when a key is taken, so what `have_key` leaves there is the
next status the loop reads, and `cl` is what it would act on. `have_key` is
compiled at -O0 and is modelled with what gcc puts in these registers at its
end. `enter` and the printing of `PressCommand` end with the attribute in `eax`
and the length of the text, 17, in `cl`. `back_space` ends with the count it
tested or assigned last: `cmd_char_num` if there is nothing to erase, else
`line_char_num`. A character ends with its code, which is not 1 (`CODE` stands
for all of them). So the two counts are modelled, `line_char_num` with the
column at which it goes back to 0 and modulo 2^32 (`UINT`), because an erase
takes it below 0 in a line that has wrapped. The value is 1 in two cases that
need no race: Enter under an attribute of 1 (`color 01`), and an erase that
takes `line_char_num` from 2 to 1, possible only in a line that has reached the
last column. The shell then acts once more on what is in `cl`: Backspace acts
twice, and after Enter the byte 17 is typed. Both are in the model and happen
in its run; `excused` counts the Enters and Backspaces after which one may
happen, `wrapped` says whether the line has reached the last column, and both
properties name them. `ROOM` is the end of `command[]`, for which the code has no
test.

The handler also destroys `ebx`, `edx` and `ch`. A key that arrives while
`have_key` is at work changes the operands of whatever instruction comes next;
that is not modelled, `have_key` is one step. What enables interrupts after
`_8529A` masks them is not in the repository.

### LegacyVideo

A call of `type`, `back_space`, `set_color` or the legacy scroll is a sequence
of instructions (`rest`): it loads registers, then the number of a service, then
executes `int 0x30`. A service and a tick of the clock are one step each,
because both gates are interrupt gates; the clock may come between any two
instructions. It saves no register but `ds`: it leaves 0x20 (the end of
interrupt) in `al`, and when there is a new time it prints that through the
service itself, restores the cursor word and destroys `ah`, `ecx` and `edi`.
What a service does with registers so spoiled is modelled up to the point where it runs over the memory (`lost`).

Four variables are history: `ready`, what the program has put in registers for
the next service; `exact`, whether no tick came while something was loaded;
`struck`, whether one took the number of the service or the row to be cleared;
and `line` with `start`, what was typed and where. The text the clock prints is
one glyph for all its digits, so that an old time is told from a new one.
External, modelled from their calls: `test_scolling()` of the legacy library,
which the present `stdio.h` no longer has, and the upper half of `ecx`, taken to
be 0. `MaxCalls` bounds the calls. `VideoInit`, `VideoNext` and `VideoSpec` are
named so that the module can be extended together with the other two of the
legacy kernel.

### Interrupts

A handler is the list of its instructions, `Handler(v)` the gate that `idt_init`
gives to vector `v`. `stack` is the stack of the interrupted program with its
top at the end, `regs` its registers with values that can be told apart; the
processor (external) pushes flags, `cs`, `eip` and for some exceptions an error
code. The program is at address `EIP` whenever it is interrupted, and goes on
only if the last handler left it intact (`Intact`): what happens after a
handler that did not is not the handlers' behaviour. `_DE_fix` runs over the
bytes of the failing division one step per byte group. `ISR_FOR_PS2` takes any
scan code; `InRange` is `low <= key <= high` as C evaluates it, so each first
range holds of every key and the branches behind it are never taken. They are in
the model, not left out because of that.

### TaskManager

Memory is a function from the addresses of its words that are not 0; a word is
its two halves. The entry code's clearing (`clear_section`), `descriptor_init`,
`paging_init` and `mem_map_init` are one step each, and then a call of
`creat_task` goes through `TakeNumber`, three pages (`TakePd`, `TakeCodePt`,
`TakeCode`, or `NoPage`), seven stores and `WriteData`, each store made through
the page tables as they stand at that moment: a store to an address that is not
mapped ends in `fault`. Processor caches of translations are left out; no store
depends on one, since each address is first used after it is mapped. The two
bitmaps of 2^20 bits are the sets of their one bits. `Dirt` are words in which
the boot left something.

Nothing in the repository calls `creat_task`, and with maps as large as they are
the first call computes an address above what is mapped and faults. So that the
calls can be followed further, `Reserve` (external) may mark the end of either
map as used before the first call, as a kernel does with memory a machine lacks.
Where the pages and numbers marked begin is any pair of limits up to the size of
the maps, pages from the end of the low 4MB (`LimitsAssumption`).

creat_task takes page n to be at 8n, so with page limits above 1024 the tables
of a task lie in the GDT, from 2048 on in the IDT, from 2560 on in the data of
tasks and from there in maps, kernel and stack. Stores below the data of tasks
are followed: they may replace a gate, and `WrittenOver` names the gates that
the pages taken and the tasks created may have replaced. A store further up
that is mapped (`Overruns`; in `WriteData`, task data from number 512 on, which
lies among the LDTs) may change anything, the maps and the page tables
included, and the model ends there, in `astray` (`StoreAstray`). What the
properties say, they say of all states up to that one. `FirstCallFails` says
that with limits so large, those of the code among them, no call gets past its
stores: it faults or goes astray. `KernelMapped` says of the 4MB pieces above
the kernel that none is mapped at its first page unless page 2^19 was taken,
the one creat_task takes to be at 4MB and enters into the table that all of them
share (the first 511 of them, as far as TLC's integers reach). The module
defines `:>` and `@@` for itself, as the module TLC does, so that proofs can
expand them.

### Sha256

What `sha256` works on (`raw_data`, `W`, `a` to `h`, `hash8`) is global and
outlives a call, so a run hashes texts one after another. A word is the set of
its one bits; words are added by their halves, since TLC's integers have 32 bits
and a sign. `SHA256` is the definition of FIPS 180-4 for a message of any number
of blocks, written apart from the code: rotations by arithmetic modulo 32, the
message schedule and the working variables as recursive functions of the round,
the hash values as one of the block. `MCHashAndDigits` compares it with the published
digests of two examples as assumptions that TLC evaluates. A text of more than
55 characters skips the rounds; `DigestCorrect` says what it gets instead.

### NumString

`dec_digit` clears the buffer, counts the digits of its number in one loop
(`Count`) and writes them from the last to the first in another (`Write`).
`asked` is history: the number of the last call. The reference is the quotient
by each power of ten. TLC's integers end at 2^31 - 1, below the largest
`uint32_t`; `NumbersAssumption` asks only for ten digits, which the theorem
takes up to the full range and beyond.

## Runs

| Run | Bounds | What it shows |
|---|---|---|
| `console` | 2 columns, 3 rows, two letters, two colours, texts of 0, 1, 3 and 4 characters | all five properties; every cursor position, and calls that scroll zero to three times |
| `pci` | 6 slots, `device[]` of 5, tables of 1 and 2 | two tables can overflow in one scan, before or after the neighbour's first device; `device[]` can fill up; deadlock is not checked because `init_main` stops |
| `uefi` | 2 handles, 2 firmware events | all failures of all calls with the map changing between them; deadlock is not checked because the program ends |
| `shell` | lines of 6 keys over 6 letters, one- and two-letter commands, one a prefix of another | every edit and every command, with and without what blank lines left |
| `shell_stale_hash` | the same | **violated**: after a line of spaces, `hash` hashes its string with spaces appended |
| `legacy_tasks` | the real addresses, all 63 tasks; two choices of sizes for the first three | `Wired` and `LoadsOwnBase` up to the capacity of the LDT |
| `legacy_keyboard` | one letter, Backspace, Enter, two shifts, caps lock, one unknown key; attributes 7 and 1; a screen two columns wider than the prompt, counts modulo 64; six events | overlapping modifiers, repeats, lost and overtaken characters, and the ways back in step; lines that wrap and are erased, and the key that acts twice there |
| `legacy_base` | the same as `legacy_tasks` | **violated**: the sixteenth task does not get its own base |
| `legacy_video` | 3 columns, 2 text rows, the rule row and the clock's; two letters, colours and times; 4 calls | where a tick is harmless, where it spoils a character, where the next service runs over the memory; deadlock is not checked because such a service does not come back |
| `interrupts` | every exception and service, every scan code, divisions with up to two prefixes and every addressing form | which handlers are transparent (all but `SERVER_ISR` and the default entry for exceptions with an error code), where a failed division goes on, which keys are decoded, and that every handler returns; deadlock is not checked because a program that was not given back intact goes no further |
| `hash_and_digits` | texts of 0, 3, 55 and 56 bytes; numbers at both ends of one, two, three, nine and ten digits; calls in any order | the digest is right up to 55 bytes, a constant behind that, and owes nothing to the text before; a number is written in full, without a leading zero or a digit of the number before |
| `task_manager` | page limits at 1024 to 1034, over the first and the last gates, in the gap behind the IDT, in the data of tasks, over the maps, at 4MB and 8MB by creat_task's reckoning, and 2^20; task limits at 0 to 3, 512, 513 and 2^20; dirt in three places | every way for a call to fail, up to three tasks, and the tables after each; gates stored over, and stores that go astray; deadlock is not checked because of those and of the fault |

Why these bounds are enough. The console's behaviour depends on where a text
starts and ends relative to a row and to the last row; two columns and three
rows have all those positions, and the theorems remove the bound. Table overflow
needs one entry more than a table has and a neighbour with and without a device
of its own. The loader has no loop but the one over the handles. In the shell
the longest command the run can hold is a command, an argument and two more
characters, which is what the dispatch tells apart. A modifier bit that is lost
and found again takes four events (down, caps, up, and a tap), a character that
overtakes another two; three keys and an erase are what it takes for
`line_char_num` to come to 1 on a screen two columns wider than the prompt; the
theorems remove the bounds. Four calls of the video
services fill a row of three, wrap, and scroll what was typed away; a tick can
come before, between and after each of their instructions, and several times. A
handler's behaviour depends on its vector, its scan code or its division alone,
and the run has all of them. SHA-256 treats all texts of one block alike but for
where the padding begins, and 55 and 56 bytes are the two sides of its test. A
number is to `dec_digit` its length and whether it follows a longer one. A
`creat_task` takes one number and three pages: eleven page limits let none to
three calls succeed and let the next fail at each of its allocations. The other
limits are on either side of every place at which a task's tables begin to lie
over something else; the theorems take all.

The two violated runs are disagreements between the code and its own text.
`CMD.c:60` promises "Get a string's hash", but `enter` (`CMD.c:150-160`) returns
on a blank line without clearing `command[]`. `16T32.asm:167` says "Discard low 3
bit" of an instruction that discards the high byte too.

### Fairness

`CallsReturn` assumes weak fairness of a call's steps: the kernel has one thread
and interrupts are off, so nothing can stop a call but its own loops.
`Terminates` assumes weak fairness of the loader's steps: firmware calls return
and events do not preempt for ever. `Returns` assumes weak fairness of the
handlers' steps: handlers are entered through interrupt gates with hardware
interrupts masked, and there is one processor, so the processor has nothing to
do but the handler's next instruction. No other property needs fairness.

## Proofs

All theorems are of the form `Spec => []P` but `ConsoleIsTeletype`, which is a
refinement, and hold for every value of the constants that satisfies the
modules' assumptions.

- **Console** (`ConsoleInvariant`, `TypeCorrect`, `TextAlwaysFits`, `FrameSafe`).
  `TextFits` speaks only of the moment before the write. The invariant that
  carries it there is `WrapInv`: in the second loop, the row still to come
  `(final_vmx, test_vmy)` and the start `(vmx, vmy)` stay `Len(str)` cells apart.
  A scroll inside the loop moves both up a row; that `vmy` is above 0 then
  follows from `Len(str) <= MaxLen` (lemma `RoomAbove`). `FrameIntact` is
  preserved because a write ends before the rule (`TextFits`) and `vm_scolling`
  writes dashes where the rule is. Assumed: the geometry fits in a byte and
  texts are at most `MaxLen` long.
- **Console implements Terminal** (`ConsoleIsTeletype`, with `HistoryInvariant`).
  The terminal's side is about one character at a time: `TypedScrolls` shows
  that the page after n characters is an endless page (`CellAt`), scrolled k
  rows and no further than needed (`Scrolled`). The prover has no induction over
  a formula of ours, so that lemma takes the least n at which it would fail
  (`LeastExists`, from the library's well-foundedness of `<`) and puts one
  character on the page before it. How far the endless page is scrolled follows
  from where the text ends (`ScrolledOnce`). The console's side is `History`:
  while a call runs the page is the page it found, some rows further up
  (`Kept`); when test_scolling is done it has scrolled exactly as far as a text
  that ends on the last row needs (`Placed`); and the write leaves the string on
  that (`Printed`). `TypedIs` puts the two together, and then the step that
  returns from a call is the terminal's `Type`, `SetColor` is `SetColor`, and
  all other steps are stutters.
- **PciEnumeration** (`PciInvariant`, `TablesInvariant`, `TypeCorrect`,
  `NeverWild`, `OverflowConfined`, `NotFoundTrue`, `ReportedExactly`). A count
  is at most one more than the size of its table, so a write goes to the table
  or to word 0 behind it, and only with the index of a device just recorded; the
  padding behind the SD table holds 0 or such an index, which makes even the
  walk past its end harmless once there is a device. `TablesInv` says what the
  tables then hold: a count is the number of devices of its class, capped;
  entry i of a table that no neighbour has run into is the device of rank i; and
  a report is what its walk read. Ranks never change, because a device found
  later comes later in `device[]`. Assumed: the layout, and that the padding is
  long enough for the SD walk.
- **UefiLoader** (`LoaderInvariant`, `TypeCorrect`, `AlwaysReturnsClean`, `NeverWildFree`,
  `KernelStartsSound`). `HeldAt` gives what is held at each point of the program
  and `Progress` what has been achieved; both are inductive action by action.
- **Shell** (`BufferAlwaysHoldsLine`, `TypeCorrect`, `NothingStale`). The first
  is inductive with the types; the blanks a blank line leaves are why it says
  "blank" and not "NUL". `NothingStale` compares two buffers that agree on the
  line, hold only blanks behind it, and hold NUL behind the longest line
  (`EndIsNul`): no word of the dispatch contains a blank, so neither buffer
  matches a word that the other does not (`SameStart`, `SameWord`), and a string
  taken from either ends at the end of the line or in blanks (`TextEnds`,
  `SameText`). Assumed: words have no blanks and the buffer is longer than the
  longest line by the longest comparison, for which the code has no test.
- **LegacyTasks** (`TasksWired`, `FirstTasksLoadOwnBase`, `TypeCorrect`). The
  invariant gives every allocator and every entry in closed form: task t has
  slot t of every table and `ds = 16t + 15`; the mask is harmless while
  `16t + 15 < 256`. `Typed` adds the ranges of what is stored. Assumed: the
  tables have room for `MaxTasks`.
- **LegacyVideo** (`VideoInvariant`, `ScreenStaysInOrder`, `ClockAlwaysStrikes`).
  What remains of a call determines what it has loaded and what its last service
  has left to do. `Position` says so: `Resting`, or on the way to one of the
  services (`Moving`, `Typing`, `Erasing`, `Coloring`, `Scrolling`, `Clearing`),
  each with what the page lacks there (`ToType`, `ToErase`, `ToColor`,
  `ToScroll`, `ToClear`; `Done` when only the controller's cursor is behind).
  Every service but one takes its fact to `Done`; `scrolling` leaves the last
  text row twice, which is `ToClear` (`TextScrolled`, `RowCleared`). A tick
  writes below the text only (`TickKeeps`, `TickFrame`), so all of these survive
  it; it leaves 0 for a number already loaded and an address for a row
  (`Number`, `TickPosition`), which no service but `printf` has and no row of
  the page is, so the interrupt that follows runs over the memory (`PrintfRuns`,
  `ClearRuns`). Assumed: the clock fits its row, characters are neither NUL nor
  blank, and the rows number below 0xB8000.
- **LegacyKeyboard** (`TypingDelivered`, `PressesHandledOnce`,
  `OneModifierStaysInStep`, `LastShiftResynchronises`, `KeyboardTypeCorrect`,
  whose property no run checks beside the others). `Delivered` needs
  `OneModifier`: while every event was benign, KSR is in step, at most one shift
  is held and none under caps lock; only then does a release, which clears the
  bit whatever else holds, keep it in step. `NeverTwice` is inductive because it
  counts the character under way. That nothing but the two cases it names leaves
  1 in `eax` is `have_keyEffect`, which rests on `CountsAgree`: in a line that
  has not reached the last column `line_char_num` is `cmd_char_num`, and an
  erase leaves it at 17 or more. Assumed: the classes of keys are disjoint, and
  the screen is wider than the prompt.
- **TaskManager**, the maps (`TaskInvariant`, `KernelPagesKept`,
  `LossesBounded`). A call that fails keeps the pages it has taken, but it fails
  only because no page is left, so no later call gets far enough to lose
  another: `PagesLost` says that pages are unaccounted for only when the map is
  full, and `PagesHeld` what the call under way has taken so far. That the low
  pages stay marked follows from `mem_map_init` inverting maps that are empty
  below 4MB, which in turn needs the entry code to have cleared them
  (`ClearsMaps`). That `LastFree`, which looks no further below the limit than
  there are ones, finds the last free bit is `LastFreeFinds`: a window with more
  places than ones has a place without. Assumed: limits up to the size of the
  maps, and that memory is addressed by words; about dirt nothing else is
  assumed.
- **TaskManager**, memory (`TablesInvariant`, `TypeCorrect`,
  `KernelStaysMapped`, `GatesStay`, `OneTableWithCode`, `LargeMapsCreateNone`).
  `MInv` joins what the tables hold (`Memory`), what the maps allow (`Bits`),
  what the call under way knows (`Calls`), which pages the first call takes when
  the limit is large (`FirstPages`) and what tasks exist (`Created`). As long as
  the low 4MB lead to themselves, a store writes the address it names
  (`LowMapped`, `StoreWrites`). Every directory entry but the first leads to the
  temporary table, and an entry there is for a page taken from 2^19 on
  (`TempHigh`, `HighMapped`; `NoEntry` for pages below, which `PTE_SET`
  refuses). A store that does not go astray goes to the GDT without changing
  base or access of the kernel's code segment, to a gate whose page or task is
  accounted for, to task 0's LDT, to the temporary table or, as a present entry,
  to entry 0 of the kernel's page table (`Harmless`, `HarmlessStore`,
  `StoreHarmless`), which keeps all of that true. With a large page limit the
  first call has taken the last pages (`FarFinds`), so that its first store is
  above the tables: mapped it goes astray, else it faults (`FarPagesFault`);
  with a large task limit the data of the first task does (`NoTasks`).
  `OneTableWithCode` rests on task 0 being the last to be created, because
  numbers are taken from the top. Assumed besides: the handlers are linked below
  4MB (`OffsetAssumption`).
- **Interrupts** (`OnlyLowerCase`, `HandlersInvariant`, `AllButUnbalanced`,
  `ResumesInside`). The chained comparison holds of every key (lemma
  `AlwaysInRange`), so every key is looked up among the letters and no branch
  that sets a flag is ever taken; no other instruction of a handler touches the
  flags or the byte. `HandlerInv` gives, for each instruction of each handler,
  what lies on the stack above the caller's and which registers still hold the
  caller's values; in `SERVER_ISR`, which never gives anything back, only the
  height of the stack matters. In `_DE_fix` it follows `ebx` over the bytes:
  prefixes, opcode, modrm and the rest. Assumed: a division has prefixes a
  processor accepts before one (`Prefix`); with lock it would not fail as a
  division, and with the address prefix its forms are not those of `modrm` in
  32 bit code.
- **Sha256** (`DigestIsSha256`). The standard's
  definitions are recursive functions, so it takes a proof that they satisfy
  their own equations: `RecursionExists` shows by induction over the last
  argument that a recursion has a solution (a set of numbers that holds the
  first and with each its successor holds them all, `AllReached`, by the least
  number outside), and `SchedulesAre`, `ScheduleIs`, `WorkingsAre` and `OneBlock`
  take the equations from it. Then code and standard are compared piece by
  piece: rotations (`Rotation`), choice and majority (`Choice`, `RoundIs`), the
  block with its padding (`Fits`, `BigEndianIs`), the words (`ExpansionIs`), the
  eight variables (`Moved`), the digits (`DigitsAreHex`). The invariant says that
  before round i the first i words are those of the standard's schedule and the
  variables are its working variables after i rounds. Nothing in it speaks of an
  earlier text. Assumed: texts are bytes other than NUL.
- **NumString** (`NumStringInDecimal`). The first loop has divided as many digits
  away as it has counted (`Counting`); the second has written those behind
  `index` and holds the quotient of the rest (`Writing`), which is 0 exactly when
  `index` has reached the front, because no shorter quotient is (`IsLength`).
  Assumed: at most ten digits.

Only model-checked: the liveness properties `CallsReturn`, `Terminates` and
`Returns`, and that `SHA256` yields the published digests of two examples, one of
them of two blocks.

## Not modelled

- The legacy kernel's start-up (`8259A`, A20, disk reads, descriptor stores) and
  the boot sector's reading and copying of the kernel: straight-line code
  without a decision, whose result appears as the constants of `LegacyTasks` and
  as the initial memory of `TaskManager`.
- `port_init`, `extension_init` and the rest of the port and control register
  output: nothing in the repository reads back what they write.
- `char_to_hex`, a pure function that decides how the shell's `color` command
  ends, and `pow` and `abs`, which nothing calls.
- The shell's position on the screen (`line_num`, `video_memory_point`, and the
  scrolls that `line_char_num` decides on): half of it belongs to declarations that are no longer
  in `stdio.h`.
- In the console, `set_color` and `type`, which go to interrupt 0x30; the new
  kernel has no handler for it, the legacy kernel's is in `LegacyVideo`.
- A keyboard interrupt while `have_key` acts on a key.
- What the kernel does once a store of `creat_task` has gone over its data, maps,
  code or stack.
- File system, device access stubs and the build: no behaviour.

## Plan

Done: all modules above, and a theorem for every safety property of every run
that passes. What is left:

1. An interrupt that arrives while `have_key` acts on a key: the instructions of
   `have_key` and `back_space` in `LegacyKeyboard`, as `LegacyVideo` has those of
   the calls.
2. `port_init` and `extension_init`, should anything come to depend on them.
