# A TLA+ model of the student-distrib kernel

This directory holds a formal model of the operating system in
`src/student-distrib`: a single-processor x86 kernel with three terminals, up
to six user processes, a round-robin scheduler driven by the timer, a
line-buffered terminal driver, a read-only file system and a virtualised real
time clock. The modules are TLA+, checked with TLC on small instances; the
results in the `*Proofs` modules are proved with TLAPS for every value of the
constants.

Paths without a directory are files of `src/student-distrib`.

## 1. The system

### Components, their state and their operations

| Component | Source | State | Operations |
|---|---|---|---|
| Processes and scheduler | `scheduler.c`, `sys_calls.c` (execute, halt, vidmap), `assembly_linkage.S` | `curr_scheduled`, `curr_terminal`, `switch_flag`, `total_terminal`, `highest_terminal_processes`, `pcb_slots`, `process_count`, `process_per_terminal`, the PCBs, page directory entry 32, the video page entry, `tss.esp0` | `pit_handler`, `execute`, `halt`, `vidmap`, Alt-Fn |
| Keyboard and terminal driver | `keyboard.c` | `keyboard_buffer`, its index, `keyboard_buffer1..3`, `kb1_pos..kb3_pos`, `enter_flag`, modifier flags | `keyboard_handler`, `terminal_read`, `terminal_write` |
| File system and descriptors | `filesys.c`, `sys_calls.c` (open, close, read, write) | `file_array` and `file_arr_size` of each PCB, `dir_index`, the boot block | open, close, read, `read_data`, `file_read`, `dir_read`, ... |
| Real time clock | `rtc.c` | `rtc_rates`, `rtc_counter`, the chip's register C | `rtc_handler`, `rtc_open`, `rtc_read`, `rtc_write` |
| Exceptions and gates | `idt.c`, `assembly_linkage.S` | the IDT, the interrupt flag | exception handlers, interrupt and trap gates |
| Screen | `lib.c` (putc, putc2, scroll, switch_terminal, clear) | video pages, a cursor per terminal | echo, print, switch of the display |
| Interrupt controller | `i8259.c` | masks, latched edges and lines in service of the two 8259 | `i8259_init`, `enable_irq`, `send_eoi` |
| Boot | `kernel.c`, `scheduler.c` (`pit_init`), `boot.S`, `x86_desc.S` | where `entry` stands, the mode of the timer | set-up with interrupts partly on |
| Paging set-up | `paging.c` | page directory and tables | built once before the first tick |
| Library | `lib.c` (printf, itoa, strings) | none shared | helpers |
| Fish animation | `fish/blink.S`, `fish/fish.c` | `blink_array`, `mp1_list_head`, the text it draws | add, remove, find, sync, tasklet |
| User programs | `syscalls/` | their own buffers; `args` of the PCB, `dir_index` | shell, cat, ls, grep, hello, testprint, syserr |

### How they interact

There is one CPU. System calls enter through a trap gate and run with
interrupts on, except between their own `cli`/`sti` pairs; the interrupt
handlers run with interrupts off. All concurrency is therefore a timer tick, a
key or a clock interrupt in the middle of a system call, followed, after a tick,
by another terminal's program in the middle of one of its own.

* `pit_handler` finds the process to save and the process to resume through
  `highest_terminal_processes`, the array that `execute` pushes on and `halt`
  pops, and rewrites page directory entry 32, `tss.esp0` and the video page.
* Alt-Fn is split: `keyboard_handler` swaps the line buffers at once and sets
  `switch_flag`; the next tick changes `curr_terminal` and the screen.
* `terminal_read` polls one `enter_flag` for all terminals and takes the line
  from the one active buffer, with interrupts on.
* open, close and read look their process up through the terminal on
  *display*, with interrupts on; halt and the scheduler through the terminal
  that is *scheduled*. A background program therefore works on the same
  `file_array` as the program in front, in the middle of its calls.
* `file_close` is the system call close, so halt looks a process up twice.
* `rtc_handler` decrements the counters of all terminals; each `rtc_read`
  spins on its own.
* The three devices reach their handlers through the masks, priorities and
  in-service bits of the 8259s and through the interrupt flag, which boot code,
  handlers and system calls all change.
* Programs get their arguments through a buffer in the PCB, read files and the
  directory through descriptors, and share the one directory index.

### What is hard about it

* Several activities are half done at once: three executes can be preempted at
  any of a dozen points while a fourth process halts.
* A saved context lives on a kernel stack that the next kernel entry of its
  owner overwrites; whether it is still there when it is resumed depends on the
  whole history of execute, halt and ticks.
* "The current process" has two meanings, displayed and scheduled, and code
  that was written for one is used in the other.
* The first three ticks create the shells from inside the timer handler and
  never return from it.
* Requests are served later (Alt-Fn, Enter, rtc_read) and must survive the
  ticks in between.
* Interrupts come on in the middle of the set-up (`rtc.c:63`), the timer's
  handler leaves what it interrupted for another stack or for good, and the
  clock's handler lets others nest in it.
* Programs work in buffers of fixed size on files of any size, and rely on what
  an earlier command left in the kernel (`args`, `dir_index`).

The list of hazards, each with the line where it bites and the properties that
would notice, is in `PROJECT.json`.

### What makes each component correct

* Processes: a program that runs sees its own page, kernel stack and terminal;
  every other terminal can be resumed; slots and counters agree with the process
  trees; a status reaches the parent; nobody waits for ever.
* Terminal: each terminal has a line of its own, and one Enter hands one
  line to one reader.
* Files: counts and flags agree; reads deliver the file's bytes once and in
  order and stop at its end; a listing names every entry once; a process
  touches its own descriptors only.
* Screen: what is printed, typed or drawn on a terminal is on its screen and on
  no other, before and after switches; the cursor is where the next character goes.
* Fish: the list holds exactly the blinkers added and not removed; a synced
  pair blinks together.
* Clock: each terminal's period is what it asked for, and no read waits
  for ever.
* Interrupts: no line stays blocked, no handler is interrupted, and a key does
  what it meant when it was pressed.
* Programs: each gets the arguments typed with it, shows the files that are
  there, finds every line, and comes back to the shell.

## 2. The modules

| Module | What it is |
|---|---|
| `Processes` | the scheduler, execute, halt, vidmap, Alt-Fn, preemptible at chosen points |
| `ProcessProperties` | what `Processes` must guarantee |
| `Sessions` | abstract: a stack of programs for every terminal, and terminals that take turns |
| `SessionInvariant` | the inductive invariant of whole sessions, the points at which ticks are safe, and the refinement mapping to `Sessions` |
| `MCProcesses` | the unsafe preemption points for TLC |
| `ProcessProofs` | type correctness and the video mapping; own memory, resumable terminals, slots, refusals and statuses from that invariant; `Processes` implements `Sessions`, proved |
| `LineDiscipline` | abstract: one edited line per terminal, handed over at once |
| `Terminal` | keyboard handler, timer and step-by-step `terminal_read`, with the refinement mapping |
| `MCTerminal` | model values |
| `TerminalProofs` | lines fit; `Terminal` implements `LineDiscipline`, proved |
| `Files` | descriptors, `read_data`, and every call as one step, as `Programs` uses them |
| `FileCalls` | open, close and read step by step, with ticks between any two |
| `MCFiles` | small file system images |
| `FilesProofs` | about `FileCalls`: types, exact descriptor counts, reads in order, complete listings, proved; the lemmas on `Files` serve `ProgramsProofs` |
| `VirtualScreens` | abstract: a private screen and cursor for every terminal |
| `Screen` | pages, cursors, putc, scroll, echo and switches, with the refinement mapping |
| `MCScreen` | where switches and keys may come |
| `ScreenProofs` | `Screen` implements `VirtualScreens`; cursors stay on the screen, proved |
| `Blinkers` | abstract: a list of blinkers, the newest first |
| `Blink` | linked cells, allocator, ioctl calls and tasklet, with the refinement mapping |
| `MCBlink` | a small set of blinkers |
| `BlinkProofs` | no blinker is lost, synced ones stay together, `Blink` implements `Blinkers`, proved |
| `Rtc` | the chip, its handler, `rtc_read` and `rtc_write` |
| `MCRtc` | rates |
| `RtcProofs` | every terminal's clock is exact, proved |
| `Programs` | the shell and its commands, the system calls they make, arguments, names and file contents |
| `MCPrograms` | a small file system image, commands and patterns |
| `ProgramsProofs` | arguments arrive, cat and ls show what is there, grep prints its lines, syserr's tests pass, proved |
| `Interrupts` | the 8259s, gates, set-up, the entry of the handlers, the three devices, scan codes |
| `MCInterrupts` | two keys |
| `InterruptsProofs` | interrupts end, handlers run alone, every key does what was meant, proved |

Definitions marked `mutant` are plausible bugs; they are used by no
specification. `PROJECT.json` pairs each with the property that must notice it.

### Processes

A process is its slot, `pcb_index + 1`. The slot also names its PCB, its 8 KB
kernel stack and its 4 MB program page, since the code derives all three from
the index. `cpu` is the context being executed: where it stands (`at`), who
called execute (`by`), the process, the kernel stack it pushes on (`stk`), the
slot it works on and the value in `eax`. Every other activity is a context saved
on a kernel stack and reachable from a PCB: `ebp_scheduler` is what the timer
saved, `esp` the frame of the execute call that halt returns through. Entering
the kernel from user mode starts at the top of the stack again, so
`ScrubStack` turns whatever was saved there into `Garbage`; resuming garbage is
`Wild`, and `getPCB(0)` (an unmapped address) is `Fault`. A search of `pcb_slots`
(`Table`) that finds no free entry leaves `pcb_index` one past the table, and execute
goes on with that slot, `MaxProc + 1`, as the code does: its mark is stored behind the
array, where the build has `process_per_terminal[0]` (`CountsWith`), and it has a PCB,
a stack and a page like the others. `page32` is the program page that page directory
entry 32 maps, and `image` what was loaded into each page; `ExecuteLoad` writes
whichever page is mapped when the copy runs, which is why the copy can hit another
program.

One action of execute is one stretch between two accesses to shared state:

| Action | `sys_calls.c` |
|---|---|
| `ExecuteRefused`, `ExecuteFails`, `ExecuteFound` | the checks up to line 155 |
| `ExecuteReadCount`, `ExecuteWriteCount` | `process_count++`, a load and a store |
| `ExecuteCountTerminal` | `process_per_terminal[curr_terminal]++`, one step |
| `ExecuteScan`, `ExecuteMark` | the search for a free slot, the mark in `pcb_slots` |
| `ExecutePage`, `ExecuteLoad` | map and flush; copy the program |
| `ExecuteParent`, `ExecuteHtp` | the parent link; the childmost process |
| `ExecuteSetup`, `ExecuteSwitch` | return frame and `tss`; `iret` |

halt runs under `cli` to line 87 and is one step (`HaltToParent`,
`HaltRestart`, `HaltNothing`); its return into the parent's frame is
`HaltReturn`. A call that is refused returns to whoever made it: to the program
(`ReturnValue`); to `pit_handler`, which returns from its interrupt (`ReturnToTick`:
the context under the tick's frame goes on, and its saved copy is gone); or to halt,
which goes on behind its call of execute (`ReturnToHalt`, then `HaltReturn`).
`PitStartShell`, `PitFinishBoot` and `PitSwitch` are the three
regimes of `pit_handler`.

Parameters choose the environment. `PreemptAt` is the set of points where a tick
may come: `SafePoints` (in `SessionInvariant`) is the largest set for which the
claims below hold, and it leaves out exactly

* load, parent and htp of a user's execute: the next program runs in
  the wrong page or a PCB is not yet reachable;
* load and parent of an execute by the boot ticks or by halt, and htp of one
  by halt: the terminal has no process and the tick reads `getPCB(0)`; the
  boot's setup and switch, whose context is not resumable;
* the store of `process_count++`: an update is lost;
* the return of halt: the status is lost.

These windows are a few instructions wide, except the copy of the program.
`BootFirst` says the user leaves the keyboard alone until the shells are up;
`CalmUser`, that he does not press Alt-Fn while a command is being started;
`MayFault`, that programs may raise exceptions. `CountBound` stops calls when a
counter has drifted that far below zero, or past one process too many; in the runs
it is 0.

`Sessions` is the promise: each terminal has a stack of programs; the top one runs,
or asks for another one, which goes on top (`Launch`) or is refused; when it ends the
one below goes on, and a terminal left without programs gets a new shell. Only the
terminal whose turn it is moves. The mapping reads the stack of a terminal off the PCBs,
from its entry in `highest_terminal_processes` along the parents (`Stacks`); what it is
in off the context in the CPU or saved for it (`StageOf`: up to the store into
`highest_terminal_processes` execute is still a `"call"`, after it, and in the return of
halt, the new top `"enter"`s user mode); and the program that runs off the page that page
directory entry 32 maps and what was loaded there (`Running`). So `Launch` is the store
at `ExecuteHtp`, halt is `End`, a tick is `TurnOn` or `Switch`, and the other
stretches of execute, vidmap and Alt-Fn are seen by nobody.

### Terminal

`keyboard_buffer` and `saved` are the active line and the lines put away on
Alt-Fn, as sequences of characters (the index is the length). A program stands
outside the driver (`run`), polls (`wait`), is about to clear `enter_flag`
(`claim`), copies character by character (`copy`), or is about to reset the
line (`clear`); any tick and, where `KeysAt` allows it, any key may come between
two of these. `Patient` is a user who waits until Alt-Fn has been served before
the next key and until Enter was answered before Alt-Fn. `enter_at` is history.
Which character a key gives (shift, caps lock) is in `Interrupts`; echo and Ctrl-L
are in `Screen`.

`LineDiscipline` is the promise: a focus, one line per terminal, a pending
Enter, and `Deliver`, which hands over a prefix of the line, empties it and ends
the read in one step. The mapping: the focus is the terminal requested last, not
the one on the display (`Shown`); a terminal's line is the active buffer
when it has the focus, and its saved buffer otherwise; Enter stays pending until
the read returns; a reader has nothing until its line is complete.

### Files

A process is a place on its terminal's stack of programs, since only the childmost
ones run. Open, close and read act on the process of the *displayed* terminal, halt on
that of the *scheduled* one, and `HaltAt` contains the second lookup that `file_close`
makes. `ReadData` follows `read_data` cell by cell; a byte is named by its data block
and its place in it, so that a wrong block is a wrong byte. `got` is history: all that a
descriptor delivered since it was opened.

In `Files` a call is one step. That is what `Programs` needs, whose one terminal runs
one program at a time. `FileCalls` takes the calls apart: `call` says, for the program
of each terminal, where it stands (`at`), which process it looked up (`p`, the code's
`cur_pcb`), the descriptor, the argument and the value loaded on the way. Every step is
one access to what programs share, and `Tick` may come between any two:

| Points | Code |
|---|---|
| `o_limit`, `o_search`, `o_mark`, `o_fill` | the test of the limit, the search, the flag, the rest of the entry (`sys_calls.c:301-331`) |
| `o_load`, `o_store`, `o_init` | `file_arr_size += 1`; the operation's own open |
| `c_check`, `c_load`, `c_store`, `c_clear` | the test, `file_arr_size -= 1`, the flag (`sys_calls.c:351-355`) |
| `r_check` | the lookup and the test in read; the operation's own read follows |
| `f_look`, `f_copy`, `f_load`, `f_store` | file_read: its own lookup, the copy, `f_pos += ` (`filesys.c:150-155`) |
| `d_check`, `d_name`, `d_load`, `d_store` | dir_read: the end, the name, `dir_index++` |
| `x_table` | a program just started, before its table is set up |

Two calls that overlap on one table can undo each other, and the module follows them
down: a lost update of the count, an entry taken twice, a search that ends at
`MAX_OPEN_FILES`, whose entry lies over `file_arr_size` (`OpenFill`) and whose operation
jumps through a moved pointer (`"fault"`). It stops (`"astray"`) where a call uses an
entry that another one has half changed, since what is there then is left from earlier
programs. What the claims below need is named by two constants. `TakeTurns`: no call
begins on a table while another is half done on it; calls on different tables still
overlap as they like, and so do ticks. `SteadyDisplay`: the display is not switched
between the two lookups of a read. Without them only the types hold (section 3 says
what TLC finds).

Bounds of the model: `MaxOpen` counts the descriptors open or about to be,
`OneLister` lets one program at a time open the directory. execute makes the new
program the looked-up process before its table is set up (`Launch`), and the table is
then one step (`InitTable`); that there is no displayed process at all for a few
instructions of halt and boot is left to `Processes`. halt closes with interrupts off
and is one step. A shell ends only on the displayed terminal (the other case breaks
`Processes` first, run `exit_in_background`).

### Screen

`page` holds the text of VIDEO and of the page of each terminal, `video_mem` the
page the running program draws on, `cursor` the position in the registers of the
display. `Stored`, `Advanced` and `Finished` are the three thirds of putc and
putc2, which differ in the page and the cursor they use (`ToPage`, `ToCursor`).
The system call write disables interrupts, so `Write` does all three at once; the
newline of terminal_read and printf in execute do not, and are split into
`Store`, `Advance` and `Finish`. `TickStartShell` and `TickFinishBoot` are the
first four ticks, which choose the page before they change the display;
`TickRegular` serves Alt-Fn first. Three bounds of the model are named:
`SwitchAt` and `EchoAt` (the display changes and keys arrive between characters),
`Mapped` (no background output between the fourth tick and the next one), and
shells that exit only in front. Keys start after the boot ticks, and the length of
the line, which limits echo and backspace, is in `Terminal`.

`VirtualScreens` is the promise: each terminal has a text and a cursor, output
goes to the program's own, echo to the one shown, and `Show` changes neither. The
mapping takes the text from VIDEO if the terminal is shown and from its page
otherwise, and completes a character that is half printed; a character not yet
stored is `due`. What the mapping ignores is what nobody sees: the stale page of
the terminal in front.

### Blink

A blinker is a cell of `blink_array`, free when its `location` is 0; `Nth` walks
the links from `mp1_list_head`, and `FindHelper` is the first cell on that walk at
a place. `Add`, `Remove` and `Sync` are the ioctl calls with their guards (a call
that is refused changes nothing, nor does find), `RtcTasklet` one pass over the
list. The program that calls them is a loop without interrupts of its own, so a
call is one step. `synced` is history. `StructAssumption` keeps blinkers off place
0, where fish has none: the allocator would take such a cell for free.
`Blinkers` is the promise, a sequence with the newest first, and the mapping reads
the sequence off the links. Both show `off_char` after a sync, as the code
does: `cmovl` follows a test of bit 0, which never makes it move.

### Rtc

The chip is register C and the interrupt line: a period that ends before
register C was read raises no interrupt. `RtcHandler` counts every terminal's
counter down, never below 0; `RtcRead` loads `HZ / rate` and spins;
`waited` is history, the interrupts handled since. `rtc_open` programs the chip
in its first call, at boot, and that is part of `Init` (and of `Interrupts`); later
it returns at once.

### Programs

One terminal and its user. The shell reads a line, execute takes the command and
copies the rest of the line into `args` of the slot, and the program runs with one
step per system call: cat and grep read through a buffer of `BUFSIZE`, ls and grep
walk the directory through `dir_index`, grep opens what it finds, syserr makes its
sequences of wrong calls. Names and lines are short sequences of characters, since
the properties are about which of them are equal, cut and found.

* `dirt` is the byte that grep reads behind what it has read (`grep.c:33`, the
  buffer is on the stack and was not written): any value.
* `PaddingAssumption`: what a read runs over past the end of a file (at most
  `BUFSIZE` bytes, and never more than the file is long) is the zero padding of the
  file's last block. A file that fills its last block is excluded; run `eof_overrun`
  shows the overrun itself. What cat shows of a file is therefore its bytes and then
  possibly NULs, which `terminal_write` does not print (`ShowsFile`).
* `NamesAssumption` and `WrongNamesAssumption` are on the image: every entry has a name
  of at most 32 characters, "." is the directory, and the two names with which
  syserr's fourth test provokes a failure are indeed not there. `DirectoryAssumption`
  completes it: "." is the only directory, two entries have different names, and no
  name holds the colon that grep writes behind it. `LinesAssumption`: the
  characters typed after a command fit in `args` and none is a NUL.
  `ProgramSizesAssumption` has `MAX_OPEN_FILES = 8`, since syserr's third test opens
  seven files in six free descriptors.
* What is promised of grep (`GrepFindsLines`): every line with the pattern that is not
  longer than the buffer is printed, in files of text (without a NUL, where its strings
  end). That nothing else is printed, in order and once, is promised of files not longer
  than `BUFSIZE`; in a longer file what a read runs over shows as text. An empty
  pattern promises nothing, nor a `dirt` that is a newline, since the line cut by the
  end of the buffer is then taken for a complete one.
* Left out: `counter` (it does not compile: the braces of lines 20 to 23 are
  missing), `pingpong` (it never ends and only draws), `sigtest` (signals are not
  implemented). The bytes of executables are one byte `"E"`.

### Interrupts

A context is a stack of handlers, innermost last: context 0 is `entry`, context
`t` the program of terminal `t`. `Accept` is the CPU taking the open line that goes
first; whether it turns interrupts off is decided by the gate (`TrapGates`). The
handlers are the bodies `pit`, `rtc`, `keyboard`/`decode` and their tails: `pit_return`
is a context the timer left and will resume, `abandoned` the boot code it never
resumes, `execute` the shell being started from inside it, `rtc_return` the epilogue
of the clock's handler, in which interrupts are on again. What the handlers do to
processes, lines and clocks is in the other modules.

Two things in this code work for reasons other than those its comments give.

* `enable_irq` computes the new mask from the *number* of the port (0x21, 0xA1) and
  not from the old mask. Its bits happen to leave line 2 open, where the slave hangs,
  which nothing enables: with a mask computed as the comment says, the clock would
  never interrupt (this is the mutant of `NoLineStarves`).
* `scheduler.c:149` says that `pit_init` is "called during kernel.c within cli sti
  critical section! so no interrupts should be in here!"; but `rtc_open` has just
  ended with `sti` (`rtc.c:63`). A tick that waited at `enable_irq(0)` is taken there and
  abandons the boot code, so that the timer stays at the rate of the BIOS. Everything
  still works, as `NoLineStarves` shows. Left out is an edge that the mode byte itself
  might make: a tick between it and the count would leave the timer stopped for ever.

`kb` and `port60` are the bytes on their way; `flags` are the four modifier
variables. `held`, `caps` and `due` are history: the keys that are down, the light, and
what the keys pressed so far were meant to do (`Wanted`). `Careful` leaves out two
shift keys at once and Shift with Caps Lock for a key that is not a letter, for which
`keyboard.c:186` takes the lower character. No key comes before `i8259_init`, whose
initialization would forget its edge; typematic repeat of Caps Lock and 0xE0 prefixes
are left out. `disable_irq` is never called.

## 3. The runs

| Run | Question | Bounds |
|---|---|---|
| `processes` | the claims on scheduling, execute and halt, safety and liveness, the invariant they are proved from (`SessionIInv`), and do slots, PCBs and saved contexts implement a stack of programs per terminal (`ImplementsSessions`) | the code's own sizes (3 terminals, 6 processes), `SafePoints`, calm user; 89,079 states |
| `any_tick` | does the video mapping hold without conditions (`VideoMappingKept`): ticks in every stretch, faults, an impatient user, a slot past the table | 2 terminals, 2 slots and the one past them, one point of every stretch; 455,291 states |
| `terminal` | does the driver implement the line discipline, and is Enter answered | 2 terminals, lines of 2 of 2 characters, reads of 1 and 2, keys outside the copy, patient user; 658,840 states |
| `files` | when calls take turns on a table: does each find what it left (`CallsIInv`), are counts exact, reads in order, listings complete, with ticks in the middle of every call | 2 terminals, 2 programs each, 2 free descriptors, 2 open, the directory and a file of 7 bytes in blocks of 2, reads of 3; 2,302,944 states |
| `screen` | do the pages and their copies implement a private screen per terminal, and does the cursor follow | 3 terminals, screens of 2 rows of 2, 3 characters printed, drawn or echoed; 403,177 states |
| `blink` | do the linked cells hold the blinkers in use and implement a list of blinkers, do synced blinkers stay in step | 3 cells, 2 places (and one off the screen), lengths 0 to 2; 222,952 states |
| `rtc` | is every terminal's clock its own, does every read return | 3 terminals, 4 Hz, rates 2, 3 and the refused 5; 94,824 states |
| `programs` | do commands get their arguments, show and find what is there, and come back | one terminal, a shell and its child; buffers of 4 bytes, blocks of 7, a file of 9 with five free bytes, a file of 2, two values of the byte on the stack; 280,002 states |
| `interrupts` | does every interrupt end, run alone and get its turn, do keys do what they meant | 2 terminals, one letter and one shift key, 2 bytes in the keyboard, 2 handlers stacked in a context; 41,790 states |

Why these bounds are enough. With 3 terminals and 6 slots, `processes` is the
size of the code itself. In `any_tick` two shells fill the table, so that the
third call is refused, or goes past the table when a tick comes between test and
count; a parent, a child and a foreign process are the least in which a context can
be clobbered by another; its claim is also proved without bounds. Two characters tell order and identity of a line apart, two places tell a
full line from one with room, and reads of 1 and 2 a truncated from a
complete one; the result is proved without bounds too. In `files` two programs of two terminals are in a
call each while the other two wait below them; reads of 3 bytes from blocks of 2
start inside, at and across a block boundary, and the fourth read finds the end;
two descriptors fill the table, so that the next open is refused; its claims are
proved without bounds too. On a screen of four
cells, three characters and newlines reach a wrapped row, a scroll by newline and
a scroll out of the last cell, and three terminals give a switch between two of
them while the third is in the background. Three cells are a head, a middle and a
last cell of the list, full and with gaps, and two blinkers of one place. Rates 2
and 3 of 4 Hz are one that divides and one that does not, and 5 is out of range.
A file of nine bytes fills a buffer of four twice and crosses a block of seven, and its
free bytes put line ends before, at and behind the edge of the buffer. Two handlers
stacked are the clock's epilogue and what nests in it; two terminals are one that is
left and one that is resumed. Two bytes in the keyboard are a modifier and a key (or
its release) handled late; that every other key decodes as well is proved.

Runs that must find a violation. Each checks one sentence of the repository
against what the code does; `PROJECT.json` "findings" quotes it.

| Run | What happens |
|---|---|
| `exit_in_background` | a shell exits after its terminal left the display: halt empties the displayed terminal's entry (`sys_calls.c:76`) |
| `enter_elsewhere` | Enter, then Alt-Fn before the reader polls: the other terminal's read is answered (`keyboard.c:232`) |
| `eof_overrun` | a read that starts inside a file copies up to the whole length of the file (`filesys.c:114`) |

Outside the conditions. What follows is in the code, is excluded by a named condition
of the runs and the theorems, and is caught by none of them. With the constant changed
TLC finds it in the configuration of the run: `CountsAtRest`, `ReadInOrder`,
`ImplementsLineDiscipline`, `ImplementsVirtualScreens` are then violated in traces of
4 to 27 states (`Mapped` is a guard of `Screen`, not a constant). `PROJECT.json` lists each
under "hazards" with a note and, where no other case of it is checked, without a property.

| Condition | What it excludes |
|---|---|
| `SafePoints` | execute copies a program over another terminal's when a tick comes between mapping (`sys_calls.c:189`) and copying (`:204`); a tick at a terminal without a process reads `getPCB(0)` (`scheduler.c:64`); two shells pass the process limit together or lose an update of `process_count` (`:126`, `:156`); a status is lost in the return of halt (`:88`) |
| the same and `BootFirst` | the seventh process: with the limit passed twice the search leaves the table (`sys_calls.c:159-169`) and execute runs a process there. In the configuration of `any_tick` TLC violates `StaysInTable` |
| `BootFirst`, `CalmUser` | Alt-Fn before the shells are up, or between a command and its execution: the program starts on the other terminal (`keyboard.c:134`) |
| `TakeTurns` | calls that overlap on the displayed process's table: a lost update or a double count of `file_arr_size` (`CountsAtRest`), two opens that pass the limit together, so that the search ends at `fd` 8 (`MAX_OPEN_FILES`) and the open in the page fault handler (`"fault"`); two reads of one descriptor that deliver the same bytes (`ReadInOrder`) |
| `SteadyDisplay` | a read whose second lookup finds another process (`filesys.c:150`) |
| `Patient`, `KeysAt` | a key or Alt-Fn in the middle of terminal_read, an Enter before the last one was answered (`keyboard.c`) |
| `SwitchAt`, `EchoAt`, `Mapped` | a switch or an echo in the middle of a character; background output before the page is mapped (`lib.c`, `scheduler.c`) |

### Fairness

* `PitHandler`, strong: the 8259 keeps the timer's request pending until
  interrupts are on, which in every loop of the system they repeatedly are.
* `ExecuteStep`, `HaltReturn`, `ReadStep`, and `RtcReadReturns` per terminal,
  strong: a slice is 50 ms (`PIT_FREQ` is 20), longer than any of these
  steps, so a context that gets slices again and again makes progress. Weak
  fairness would be too little, since a tick disables the step.
* `Tick` in `Terminal` and `Rtc`, `Period` and `RtcHandler`, weak: the crystals do
  not stop and an interrupt is taken within a slice.

* `Interrupts` justifies the above from below: the crystals do not stop
  (`PitEdge`, `ClockEdge`), the CPU does not stop (`entry`, `Handlers`), a section
  under `cli` ends (`Sti`), and a line that gets through again and again is taken
  (`Accept`, strong, per line). `RtcReturns` and `entry` are strong, since interrupts
  are on there and delay them; periods longer than the handlers (1 ms and 50 ms
  against microseconds) are in the guards of the edges.
* `Programs`: the steps of the running program, weak; there is one.

Nothing is assumed of users or programs: no liveness property needs a key or
a call to happen.

## 4. What is proved

| Theorem | Says | From |
|---|---|---|
| `TypeCorrect` | `Spec => [](TypeOK /\ SlotsChosen)` in `Processes`: the PCB that execute and halt index is one of the table's or the one right behind it | the assumptions on the constants only: any tick, user and fault |
| `VideoFollowsTheSchedule` | `Spec => VideoMappingKept` | the same |
| `SessionsStayWell` | `Spec => []SessionIInv` | `Careful`: ticks at `SafePoints`, `BootFirst`, `CalmUser`; any number of terminals and slots |
| `ProgramsRunInOwnSpace`, `TerminalsStayResumable`, `NoSlotIsLost` | `Spec => []RunsInOwnSpace`, `[]EveryTerminalResumable`, `[]SlotsAccountedFor` | the same |
| `CallsStayInTable` | `Spec => []StaysInTable`: it is one of the table's | the same |
| `RefusalsAreTrue`, `StatusReachesParent` | `Spec => RefusesOnlyWhenFull`, `Spec => StatusGoesToParent` | the same |
| `SessionsAreStacks` | `Spec => ImplementsSessions` | the same |
| `LinesFit` | `Spec => []TypeOK` in `Terminal`, the bounds on every line buffer included | any user, any key placement |
| `Refinement` | `CalmUser /\ Spec => ImplementsLineDiscipline` | `CalmUser`: `Patient`, keys only at `run` and `wait` |
| `TypesKept` | `CallsSpec => []CallsTypeOK` in `FileCalls` | a file system whose entries have types 0 to 2 and existing inodes; however calls overlap |
| `CallsFindWhatTheyLeft`, `CountsExact` | `CallsSpec => []CallsIInv`, `CallsSpec => []CountsAtRest` | the same, `TakeTurns` and `SteadyDisplay`; ticks anywhere |
| `SearchSucceeds` | the search of open ends at a free descriptor of the table, still free when it is marked, and no call ends in the page fault handler | the same |
| `ReadsAreInOrder` | `CallsSpec => []ReadInOrder` | the same, any size and lists of blocks |
| `DirectoryReadOnce` | `CallsSpec => EachEntryOnce` | the same, and `OneLister`: a program opens the directory only when no other has it open |
| `PrivateClocks` | `Spec => []ClockIsPrivate` | any rates |
| `NoEarlyReturn` | `Spec => ReadTakesItsPeriod` | the same |
| `TypeInvariant` | `Spec => []TypeOK` in `Rtc` | the same |
| `ScreensTyped`, `CursorIsTheNextCell` | `Spec => []TypeOK`, `Spec => []CursorFollows` in `Screen` | `BetweenCharacters`: keys, and switches of the display, find their programs at `run` |
| `PrivateScreens` | `Spec => ImplementsVirtualScreens` | the same, and no character is called `Nothing` |
| `LinesTyped`, `EveryInterruptEnded`, `HandlersAlone` | `Spec => []TypeOK`, `[]NothingLeftInService`, `[]HandlersRunAlone` in `Interrupts` | any number of terminals, any keyboard, any depth of nesting |
| `KeysMeant` | `Spec => []KeysDoWhatWasMeant` | the same, and the assumptions on the keys in use |
| `PressDecoded`, `ReleaseDecoded` | a key pressed has the effect meant, and keeps the flags in step with the keys that are down | flags in step before, one shift key, `Careful` |
| `CellsTyped`, `NoBlinkerLost`, `SyncedPairsTogether` | `Spec => []TypeOK`, `[]ListHoldsBlinkers`, `[]SyncedInStep` in `Blink` | blinkers off place 0, lengths of 15 bits |
| `CellsAreTheList` | `Spec => ImplementsBlinkers` | the same |
| `ProgramsTyped` | `ProgramsSpec => []ProgramsTypeOK` in `Programs` | one terminal, the assumptions on image and lines of section 2 |
| `ArgumentsAreOwn` | `ProgramsSpec => []ArgsAreOwn` | the same; any depth of shells and any sequence of commands |
| `CatAndLsShow` | `ProgramsSpec => []CatShowsFile` | the same; files, buffers and blocks of any size |
| `GrepPrintsLines` | `ProgramsSpec => []GrepFindsLines` | the same; files, lines, patterns and buffers of any size |
| `SyserrTestsPass` | `ProgramsSpec => []SyserrPasses` | the same; after any commands |

*Processes.* `TypeOK` alone is not inductive: execute indexes `pcb` and `image`
with a slot chosen several steps earlier, possibly in a context that was
saved in a PCB in between. `SlotsChosen` says that the slot of every running or
preempted call past its choice is one of the table's or the one right behind it, all
of which have a PCB in memory, and the conjunction is inductive. That the slot is in
the table (`CallsStayInTable`) is not a matter of types: with ticks anywhere the code
leaves it, and with ticks at `SafePoints` it follows from `SessionIInv`, where the
count that the call read and the slots that are taken agree. The
proof has one step per action. `VideoMappingKept` then needs the tick, which
recomputes the mapping from the terminals it is about to set, vidmap, and that
nothing else touches the three variables.

*Sessions.* The properties of `Processes` speak of one moment each (a program in
user mode, the next tick, the end of a call), but whether they hold there was decided
by what many earlier steps left behind. `SessionIInv` is the conjunction of what each
step leaves for the next:

* `StandingWell`: every started terminal stands somewhere, in the CPU or in the
  context its childmost PCB saved, and where it stands fits that process. Only the
  terminal on display is inside execute, so there is one `Call`.
* `CallClaims`: what that call has read, found and chosen so far is still true
  although ticks may have come in between: the count it read, the slot it found free,
  the program in its page.
* `SlotsCounted`: table and counters are those of the terminals' chains plus what the
  call has taken and not yet handed over. This is where the order of execute's stores
  matters.
* `LinesApart`, `ProgramsInPlace`: the chains of parents are disjoint and not cyclic;
  every process on one has its program in its page, and its parent's frame waits in its
  PCB. Without these halt could return into a stack that was given away.
* `CpuInPlace`, `SavedInPlace`: page directory entry 32 and `tss.esp0` fit the context
  in the CPU, and a saved context lies on a stack that no other terminal enters on.
* `BootInOrder`: until the last shell is up, the newest one has display and CPU.

The one way out of it is a program that raises an exception (`Stopped`, under
`MayFault`): the kernel itself never reads the PCB of a terminal without a process and
never resumes a context that is gone.

The chain of parents, `Line`, is defined as a least closed set, not by recursion, so
that the proof can push and pop at its end (`LineUnfold`, `LineLocal`) without an
induction. The hypothesis `Careful` is what the code needs, not what the proof needs:
with a tick at any point `SafePoints` leaves out, or Alt-Fn before the shells are up
or between a command and its execution, TLC finds a counterexample to one of the
properties in a few steps (section 2 says which).

The stacks of `Sessions` are rows cut from the same chains: `Chain` walks the parents by
a recursive function, and `ChainIs` shows, by the least number at which they differ,
that it yields the one row that starts at the childmost process, leads from each
process to its parent and ends at `NoProc`. `InRows` says that such a row exists for
every terminal, and is as long as the terminal's `Ancestry` is large;
`ExecuteHtp` puts a process in front of it (`RowPushed`), halt takes the first one
off, and every other terminal keeps its row (`OtherRows`). `InRows` needs
`SessionInv` (a launched slot is on no chain, a parent's frame is still there), so the
theorem uses `SessionsStayWell`. The steps are then compared one by one:
those that only move the call inside its stage change nothing that is seen (`Seen`), and
a switch shows the page of the program it resumes, since `CpuInPlace` and
`ProgramsInPlace` hold after it. After an exception no step follows (`StoppedUnseen`).

*Terminal.* The step that matters is `ClearLine`, where the program has a copy
of the line and throws the line away: it maps to `Deliver` only if the copy is
still the prefix of that line. `ReadInv` says why: while a program takes a line
its terminal stays on display with no switch pending, it is the only one, the
Enter it claimed is not pending again, and what it copied is a prefix of the
active line. A key in the middle would break each part, hence `CalmUser`. Every
other action maps to one abstract action or to a stutter.

*Files.* `CallsTypeOK` is inductive on its own, since it bounds neither the count nor
`dir_index`: calls that overlap may drive both anywhere. Exact counts need `CallsIInv`,
what a call may rely on between two of its steps. `Turns` says that at most one call
is half done on a table, that the table is a running process's, and that a read's second
lookup finds the first one's process. `CallInStep` says of each point what the call has
established: below the limit at the search, a free descriptor at the mark, the loaded
count still the one in memory at the store; and how far flags and count are apart
(`Ahead`). `HalfOpen` gives each half-open entry to the open that marked it.
`CountsAtRest` covers the tables nobody is on. No part stands alone: a
call in step stays so only because no other call is on its table, and it leaves an
exact count only because it was in step. The step that matters is a halt in the
background, which closes and counts down descriptors of the displayed process without
interrupts while another program may be anywhere in a call of its own; the lookups on
either side agree on one table, and `TakeTurns` keeps that call off it. Finite sets come
from the library's theorems on cardinality.

`ReadsAreInOrder` needs what `read_data` computes for every input. Its loop is a
recursive function; `WalkIsClosed` shows that it equals a closed form, the place of byte
`offset + n`, because both agree at 0 and the least number at which they differ cannot
exist (`LeastNumber`, from the library's well-founded induction, takes the place of an
induction). `DeliveredSoFar` then says that a descriptor has delivered exactly the bytes below
its `f_pos`, and, between the copy and the store of `f_pos`, the bytes below the sum in
the reader's hands. `EachEntryOnce` is kept by `OneListing`: one descriptor or one
half-done open of the directory in the whole system, and what it has read is what lies
below `dir_index`, ahead of it by one name between the copy and the store. open, close
and halt of the directory reset the index only when that one begins or is gone, and no
other call moves it. `ProgramsProofs` uses the lemmas on the one-step calls, where
`TypeOK /\ SizeCountsOpen` is inductive.

*Screen.* `TypeOK` is not inductive: whether a cursor may stand below the last row
depends on how far the putc of its terminal has come (`OnScreen`), and putc2 moves the
cursor of whichever terminal is shown, which is its own only as long as no switch
comes in the middle (`EchoesOnDisplay`). The refinement needs two facts more: during
boot the newest terminal is shown and runs, and the screens to come are empty, so that
resetting their cursors changes nothing (`Booting`); and `video_mem` is the page of the
program that is in the middle of a putc (`PrintsMapped`). The store of putc maps to
`End`, its other two steps to stutters, because `Completed` runs them ahead. That putc
does what `Put` says on cells is arithmetic on rows and columns (`BeforeScroll`,
`PutcPuts`), and Backspace's step back, blank and step back is one `Erase`
(`BackspaceErases`).

*Interrupts.* `ContextInv` is inductive: the handler on top alone accounts for the
lines in service (`Serves`), it runs with interrupts off while it is in its body, no
handler below it or in another context is in its body, and every started context
that does not run has the timer's handler on top. Each part needs the others: that
nothing is in service after the timer has switched follows only because the context
it switches to stands in a timer's handler that ended its own interrupt long before.
The handlers fall into those that replace or pop the top of the running stack
(`ContextMoves`), those that leave it (`ContextStays`) and the two that switch. The
decoding of one key is a lemma about the two operators `FlagsAfter` and `Effect`. For a
whole queue of bytes `Meant` says that some run through it (`Runs`, the flags before and
after each byte, and `Leaves`, what each leaves behind) starts at the flags as they are
and ends at the flags that fit the keys down now, with everything that was due. A key
adds a byte at the end of the run, the handler takes one off its front, and that there
is only one run makes it the one the property names. `OneByte` says why the byte is in
the keyboard, in the port or in the handler, and in one of them only: interrupts are off
from `inb` to the end.

*Blink.* `ListHoldsBlinkers` speaks of the walk `Nth`, which is recursive. `BlinkInv`
says instead that there is a row of cells, all different, exactly those in use, whose
links lead from each to the next and from the last to `NULL` (`Chain`). `Add` puts a cell
in front of the row (`FrontChain`), `Remove` closes it over one (`WithoutChain`), and the
other two keep it (`SameRow`); `NthIs` reads the walk off the row. That the allocator
finds a cell outside the row is counting (`MallocIs`). `TypeOK` is left to the proof and
is not a property of the run. `SyncedInStep` is not inductive: the
lengths of a synced pair must agree too, or the next expiry drives them apart, and both
cells must be in use, or one of them could be handed out anew (`SyncedTogether`). For
the refinement `BarIs` turns the list of the mapping into the row, and each action of
the cells is the one of the list: the first link at a place is the newest blinker there
(`NewestIs`), the last due writer of a tick the oldest (`ShownAlike`).

*Programs.* `Base` is inductive: it says of every process, of the waiting shells too,
what its variables hold. `ArgsIn` gives `ArgumentsAreOwn`: the slots above the running
program hold NULs only, because halt clears them, so that the line copied there without
a terminator ends where it ends (`OwnArgs`), and what getargs finds is what was typed
(`FoundAgain`). `FdsIn` says that a program reads and closes what open returned.
`SyserrTestsPass` is about the script, which is consumed call by call: `SyserrIn` says
that what remains is a test's tail (`Plan`, and `Start` where each test begins) and that
in between the descriptors, the failures counted and the flag are what that test has
made of them; the third opens 2 to 7, fails once and closes all, and the other tests
find nothing open. `CatAndLsShow` rests on `ShowIn`: what was written so far is the file
below `f_pos`, then NULs, or the names below `dir_index`, which no other program moves
while this one reads. `FlattenSeq` is recursive; that it appends the last chunk
(`FlattenOneMore`) follows from its recursive function being the only one, again by the
least number. `GrepPrintsLines` compares lines cut by reads with lines of whole files.
`GrepIn` says at each step what was printed so far (`AllFound`: of the files before this
one everything, of this one what lies below a byte `base`) and that the buffer holds the
file's bytes from `base` on (`WindowToRead`, `WindowToScan`). A read makes this window
longer (`ReadFills`). A scan prints the lines that end in it (`ScanFinds`;
`ScanFindsOnly` that it prints nothing else) and keeps the last one, at the front of the
next window (`ScanLeaves`). The order of what is printed is `InOrder`, the only
increasing row of a set (`OrderUnique`), so that rows of two scans join (`OrderJoined`)
and the lines of one file are told from those of another by the name before the colon
(`PrintedFor`).

*Rtc.* `TypeOK /\ ClockIsPrivate` with the phase of each program is inductive;
the return of a read is then at a counter of 0, which by the invariant
is after the whole period.

## 5. What is only model-checked

* All liveness properties (the prover has no rules for fairness here).
* `HaltKeepsOtherTerminals`: a calm user's shells exit in front, where it holds by the
  lookup alone; what else a user may do is `exit_in_background`, which refutes it.

## 6. What is not modelled, and why

* Paging set-up, the GDT and the TSS, and `entry` before `i8259_init`: straight-line
  code with interrupts off. Its outcome is the initial state of the modules; the
  entries that change later are variables of `Processes`.
* printf, itoa and the string functions of `lib.c`: sequential helpers without shared
  state; `memmove`, `memset_word` and most others are called nowhere.
* The test code, and `set_handler` and `sigreturn`, which only return 0.
* `counter`, `pingpong` and `sigtest` (see Programs), the emulation of the system
  calls for Linux, and `add_frames` of fish, which is covered by a program that adds,
  removes and syncs at will.
* `read_data` returning -1 in execute (`sys_calls.c:205`): it never does.
* A key echoed between Alt-Fn and its tick appears on the old terminal's screen and
  enters the new terminal's line (`lib.c:527`); the line is in `Terminal`, the echo in
  `Screen`, and nothing in the repository says where it belongs.
* `dir_read` copies one byte more than it counts (`filesys.c:248`), past a buffer of
  exactly the size asked for; the programs' buffers are longer.

## 7. Plan

Done, in this order: `Processes` with its properties and theorems;
`Terminal` against `LineDiscipline`; `Files` and `FileCalls`; `Screen` against `VirtualScreens`;
`Blink` against `Blinkers`; `Rtc`; `Programs`; `Interrupts`; `Processes` against
`Sessions`.

Next:

1. `SystemCalls`: the dispatch of read and write through `file_array` to
   `Terminal`, `Files` and `Rtc`, with reads from the background, which today
   end on the displayed process's table.
2. `Programs` on top of `Sessions`, with more than one terminal, and the status
   that a program hands to the one below as part of `Sessions`.
3. `Screen` composed with `Terminal`: which screen shows the echo of which line.

Theorem to come: that every clock returns zero exactly once per period.
