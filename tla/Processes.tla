----------------------------- MODULE Processes -----------------------------
(***************************************************************************)
(* Processes, terminals and the round-robin scheduler of the kernel:       *)
(* pit_handler (scheduler.c), execute, halt and vidmap (sys_calls.c),      *)
(* context_switch and reverse_system_call (assembly_linkage.S) and the     *)
(* Alt-Fn branch of keyboard_handler (keyboard.c).                         *)
(*                                                                         *)
(* There is one CPU.  The variable cpu is what it is executing now; every  *)
(* other activity is a context saved on some kernel stack, reachable only  *)
(* from a PCB.  A system call runs with interrupts on (its gate is a trap  *)
(* gate), so execute and halt are split at the points between which a      *)
(* timer tick can find a different state; code under cli is one step.      *)
(*                                                                         *)
(* A process is named by its slot, pcb_index+1 in the code.  Slot n also   *)
(* names the kernel stack that ends at 8MB-(n-1)*8KB and the 4MB program   *)
(* page at 8MB+(n-1)*4MB.  getPCB(0) is the unmapped address 8MB.          *)
(***************************************************************************)
EXTENDS Integers, FiniteSets

CONSTANTS
  NT,         \* terminals (T3 = NUM_T = 3 in constants.h)
  MaxProc,    \* MAX_PROCESS_COUNT, 6 in constants.h
  PreemptAt,  \* points of execute and halt at which a timer tick may arrive
  CountBound, \* how far below zero the counters may drift in a run
  BootFirst,  \* the user waits for the shells before touching the keyboard
  CalmUser,   \* nobody presses Alt-Fn between a command and its execution
  MayFault    \* a user program may raise an exception

Terminals == 1 .. NT
Table     == 1 .. MaxProc      \* the entries of pcb_slots
Slots     == 1 .. MaxProc + 1  \* pcb_index+1, the index past the table included
SlotsOrNone == 0 .. MaxProc + 1
NoProc    == 0
Screen    == 0        \* VIDEO; t > 0 is the background page VIDEOt

ExecPoints == {"check", "rdcount", "wrcount", "perterm", "scan", "mark", "page",
               "load", "parent", "htp", "setup", "switch"}

\* The points that run with IF = 1.  Called by the timer handler or by halt,
\* execute runs with interrupts off up to its own sti (sys_calls.c:196).
InterruptsOn ==
  ({"user"} \X ExecPoints)
    \cup ({"boot", "halt"} \X {"load", "parent", "htp", "setup", "switch"})
    \cup {<<"halt", "hret">>}

ASSUME NTAssumption      == NT \in Nat /\ NT >= 1
ASSUME MaxProcAssumption == MaxProc \in Nat /\ MaxProc >= NT
ASSUME PreemptAssumption == PreemptAt \subseteq InterruptsOn
ASSUME CountAssumption   == CountBound \in Nat
ASSUME FlagsAssumption   == BootFirst \in BOOLEAN /\ CalmUser \in BOOLEAN
                            /\ MayFault \in BOOLEAN

VARIABLES
  curr_scheduled,   \* terminal whose process owns the time slice
  curr_terminal,    \* terminal on the display
  switch_flag,      \* terminal asked for with Alt-Fn, 0 for none
  total_terminal,   \* boot progress: terminals created, NT+1 when booted
  video_mem,        \* page behind video_mem and pgTbl_vidMem[0]
  htp,              \* highest_terminal_processes
  pcb_slots,        \* slots whose pcb_slots[] entry is 1
  process_count,
  process_per_terminal,
  pcb,              \* the PCB fields the control flow depends on
  page32,           \* slot whose program page pageDirectory[32] maps
  tss_esp0,         \* slot whose kernel stack tss.esp0 points to
  image,            \* for each program page, the process loaded there last
  cpu               \* the context the CPU is executing

memVars  == <<pcb, page32, tss_esp0, image>>
procVars == <<htp, pcb_slots, process_count, process_per_terminal>>
termVars == <<curr_scheduled, curr_terminal, switch_flag, total_terminal,
              video_mem>>
vars == <<termVars, procVars, memVars, cpu>>

-----------------------------------------------------------------------------
(* Contexts *)

Points  == ExecPoints \cup {"idle", "user", "parked", "hret", "fault",
                            "wild", "garbage"}
Callers == {"none", "user", "boot", "halt"}

\* at: where the context stands; by: who called execute; proc: the process it
\* runs for; stk: its kernel stack; slot: pcb_index+1 in execute, the process
\* given up in halt; eax: the value execute computes or returns.
Context == [at : Points, by : Callers, proc : SlotsOrNone,
            stk : SlotsOrNone, slot : SlotsOrNone, eax : Int]

PCB == [parent : SlotsOrNone, esp : Context,
        esp0 : SlotsOrNone, ebp_scheduler : Context]

Ctx(at, by, proc, stk) ==
  [at |-> at, by |-> by, proc |-> proc, stk |-> stk, slot |-> NoProc, eax |-> 0]

User(p) == Ctx("user", "none", p, NoProc)
Garbage == Ctx("garbage", "none", NoProc, NoProc)  \* bytes of a reused stack
Fault   == Ctx("fault", "none", NoProc, NoProc)    \* a handler's while(1)
Wild    == Ctx("wild", "none", NoProc, NoProc)     \* execution left the code

\* The kernel stack an interrupt or a system call pushes its frame on.
EntryStack == IF cpu.at = "user" THEN tss_esp0 ELSE cpu.stk

\* A kernel entry from user mode starts again at the top of the stack in
\* tss.esp0: whatever frames were saved on that stack are overwritten.
ScrubStack(k) ==
  LET Keep(c) == IF c.stk = k /\ c.at # "garbage" THEN Garbage ELSE c
  IN  [s \in Slots |-> [pcb[s] EXCEPT !.esp = Keep(pcb[s].esp),
                        !.ebp_scheduler = Keep(pcb[s].ebp_scheduler)]]

PcbOnEntry == IF cpu.at = "user" THEN ScrubStack(tss_esp0) ELSE pcb

Interruptible ==
  cpu.at \in {"idle", "user"} \/ <<cpu.by, cpu.at>> \in PreemptAt

Target(t, shown) == IF t = shown THEN Screen ELSE t

InExecute(c) == c.at \in ExecPoints \cup {"hret"}

ExecuteUnderWay ==
  InExecute(cpu) \/ \E s \in Slots : InExecute(pcb[s].ebp_scheduler)

\* A shell executes or exits because of a line typed to it.  A calm user watches
\* that happen before pressing Alt-Fn, so the shell is the displayed one.
BootDone == BootFirst => total_terminal > NT
Commanded ==
  /\ BootDone
  /\ CalmUser => curr_scheduled = curr_terminal /\ switch_flag = 0

\* Bound of the model: no program calls execute or halt once a counter has
\* drifted further than CountBound below zero or past one process too many (it
\* never does while they agree).
CountsInBound ==
  /\ process_count \in -CountBound .. MaxProc + 1
  /\ \A t \in Terminals : process_per_terminal[t] \in -CountBound .. MaxProc + 1

-----------------------------------------------------------------------------
Init ==
  /\ curr_scheduled = 1
  /\ curr_terminal = 1
  /\ switch_flag = 0
  /\ total_terminal = 0
  /\ video_mem = Screen
  /\ htp = [t \in Terminals |-> NoProc]
  /\ pcb_slots = {}
  /\ process_count = 0
  /\ process_per_terminal = [t \in Terminals |-> 0]
  /\ pcb = [s \in Slots |-> [parent |-> NoProc, esp |-> Garbage,
                             esp0 |-> NoProc, ebp_scheduler |-> Garbage]]
  /\ page32 = NoProc
  /\ tss_esp0 = 1
  /\ image = [s \in Slots |-> NoProc]
  /\ cpu = Ctx("idle", "none", NoProc, 1)

-----------------------------------------------------------------------------
(* The timer interrupt: pit_handler *)

ShownIgnoresRequest == curr_terminal                        \* mutant
Shown == IF switch_flag # 0 THEN switch_flag ELSE curr_terminal

NextSkipsLast == IF curr_scheduled >= NT - 1 /\ total_terminal > NT
                 THEN 1 ELSE curr_scheduled + 1             \* mutant
NextScheduled == (curr_scheduled % NT) + 1

\* What every tick does before it looks at total_terminal.
PitPrologue ==
  /\ Interruptible
  /\ switch_flag' = 0
  /\ video_mem' = Target(NextScheduled, Shown)
  /\ UNCHANGED <<procVars, image>>

InterruptedRestarts ==                                      \* mutant
  IF cpu.at = "user" THEN [User(cpu.proc) EXCEPT !.stk = tss_esp0]
  ELSE [cpu EXCEPT !.at = IF @ \in {"rdcount", "scan"} THEN "check" ELSE @]
\* The context under the frame that pit_assembly pushes.
Interrupted ==
  IF cpu.at = "user" THEN [User(cpu.proc) EXCEPT !.stk = tss_esp0] ELSE cpu

SaveOnlyEsp0(p) ==                                          \* mutant
  [s \in Slots |-> IF s = p THEN [PcbOnEntry[s] EXCEPT !.esp0 = tss_esp0]
                            ELSE PcbOnEntry[s]]
\* Store tss.esp0 and the frame pointer of the interrupted context in a PCB.
SaveInto(p) ==
  [s \in Slots |->
     IF s = p THEN [PcbOnEntry[s] EXCEPT !.esp0 = tss_esp0,
                                         !.ebp_scheduler = Interrupted]
              ELSE PcbOnEntry[s]]

\* Reading or writing getPCB(0) ends in the page fault handler.
FaultOnPcb0 ==
  /\ pcb' = PcbOnEntry
  /\ cpu' = Fault
  /\ UNCHANGED <<curr_scheduled, tss_esp0>>

\* The first NT ticks each show a new terminal and start a shell in it.  From
\* the second one on, the shell that was running is saved first.
PitStartShell ==
  /\ total_terminal < NT
  /\ PitPrologue
  /\ total_terminal' = total_terminal + 1
  /\ curr_terminal' = IF total_terminal = 0 THEN Shown ELSE total_terminal + 1
  /\ LET p == htp[curr_scheduled] IN
       \/ /\ total_terminal = 0 \/ p # NoProc
          /\ IF total_terminal = 0
               THEN pcb' = PcbOnEntry /\ UNCHANGED curr_scheduled
               ELSE pcb' = SaveInto(p) /\ curr_scheduled' = NextScheduled
          /\ cpu' = Ctx("check", "boot", NoProc, EntryStack)
          /\ UNCHANGED tss_esp0
       \/ /\ total_terminal # 0 /\ p = NoProc
          /\ FaultOnPcb0
  /\ UNCHANGED page32

AllCreated == total_terminal = NT

\* The tick after the last shell shows terminal 1 and returns where it came from.
PitFinishBoot ==
  /\ AllCreated
  /\ PitPrologue
  /\ total_terminal' = total_terminal + 1
  /\ curr_terminal' = 1
  /\ curr_scheduled' = NT
  /\ pcb' = PcbOnEntry
  /\ UNCHANGED <<page32, tss_esp0, cpu>>

\* Continue the context ctx that was saved in a PCB.
Resume(ctx) == IF ctx.at = "garbage" THEN Wild
               ELSE IF ctx.at = "user" THEN User(ctx.proc) ELSE ctx

\* Every later tick gives the CPU to the childmost process of the next terminal.
PitSwitch ==
  /\ total_terminal > NT
  /\ PitPrologue
  /\ curr_terminal' = Shown
  /\ page32' = htp[NextScheduled]
  /\ LET from == htp[curr_scheduled]
         to   == htp[NextScheduled]
     IN \/ /\ from # NoProc /\ to # NoProc
           /\ tss_esp0' = SaveInto(from)[to].esp0
           /\ cpu' = Resume(SaveInto(from)[to].ebp_scheduler)
           /\ pcb' = [SaveInto(from) EXCEPT ![to].ebp_scheduler = Garbage]
           /\ curr_scheduled' = NextScheduled
        \/ /\ from = NoProc \/ to = NoProc
           /\ FaultOnPcb0
  /\ UNCHANGED total_terminal

PitHandler == PitStartShell \/ PitFinishBoot \/ PitSwitch

-----------------------------------------------------------------------------
(* The keyboard: Alt-F1 .. Alt-F3 only records the request *)

PressAltFn(t) ==
  /\ Interruptible
  /\ t # curr_terminal
  /\ BootDone
  /\ CalmUser => ~ExecuteUnderWay
  /\ switch_flag' = t
  /\ pcb' = PcbOnEntry
  /\ UNCHANGED <<curr_scheduled, curr_terminal, total_terminal, video_mem,
                 procVars, page32, tss_esp0, image, cpu>>

-----------------------------------------------------------------------------
(* The execute system call *)

CallExecute ==
  /\ cpu.at = "user"
  /\ CountsInBound
  /\ Commanded
  /\ cpu' = Ctx("check", "user", cpu.proc, tss_esp0)
  /\ pcb' = PcbOnEntry
  /\ UNCHANGED <<termVars, procVars, page32, tss_esp0, image>>

Goto(point) == [cpu EXCEPT !.at = point]

\* execute returns v to the program that called it.
ReturnValue(v) ==
  /\ cpu.by = "user"
  /\ cpu' = [User(cpu.proc) EXCEPT !.eax = v]
  /\ UNCHANGED pcb

\* A tick that interrupted the stack k returns: its frame is popped and the
\* context under it goes on.
SavedOn(k) == {s \in Slots : pcb[s].ebp_scheduler.at # "garbage"
                               /\ pcb[s].ebp_scheduler.stk = k}
UnderTick(k) == {Resume(pcb[s].ebp_scheduler) : s \in SavedOn(k)}
PopTick(k) ==
  [s \in Slots |-> [pcb[s] EXCEPT !.ebp_scheduler =
                      IF s \in SavedOn(k) THEN Garbage ELSE @]]

\* execute returns to pit_handler, which returns from the interrupt at once.
ReturnToTick ==
  /\ cpu.by = "boot"
  /\ cpu' \in UnderTick(cpu.stk)
  /\ pcb' = PopTick(cpu.stk)

\* execute returns to halt, which goes on as if there were a parent.
ReturnToHalt ==
  /\ cpu.by = "halt"
  /\ cpu' = Goto("hret")
  /\ UNCHANGED pcb

LimitOneTooLow == process_count >= MaxProc - 1              \* mutant
LimitOneTooHigh == process_count > MaxProc                  \* mutant
LimitReached == process_count >= MaxProc

ExecuteRefused ==
  /\ cpu.at = "check"
  /\ LimitReached
  /\ ReturnValue(0) \/ ReturnToTick \/ ReturnToHalt
  /\ UNCHANGED <<termVars, procVars, page32, tss_esp0, image>>

\* A NULL command (before the limit test), no such file, or not an ELF image.
\* The kernel's own calls name "shell", which the file system holds.
ExecuteFails ==
  /\ cpu.at = "check"
  /\ ReturnValue(-1)
  /\ UNCHANGED <<termVars, procVars, page32, tss_esp0, image>>

ExecuteFound ==
  /\ cpu.at = "check"
  /\ ~LimitReached
  /\ cpu' = Goto("rdcount")
  /\ UNCHANGED <<termVars, procVars, memVars>>

\* process_count++ is a load, an add and a store in the build.
ExecuteReadCount ==
  /\ cpu.at = "rdcount"
  /\ cpu' = [cpu EXCEPT !.at = "wrcount", !.eax = process_count]
  /\ UNCHANGED <<termVars, procVars, memVars>>

ExecuteWriteCount ==
  /\ cpu.at = "wrcount"
  /\ process_count' = cpu.eax + 1
  /\ cpu' = [cpu EXCEPT !.at = "perterm", !.eax = 0]
  /\ UNCHANGED <<termVars, htp, pcb_slots, process_per_terminal, memVars>>

ExecuteCountTerminal ==
  /\ cpu.at = "perterm"
  /\ process_per_terminal' = [process_per_terminal EXCEPT ![curr_terminal] = @ + 1]
  /\ cpu' = Goto("scan")
  /\ UNCHANGED <<termVars, htp, pcb_slots, process_count, memVars>>

ScanByCount ==                                              \* mutant
  /\ cpu.at = "scan"
  /\ cpu' = [cpu EXCEPT !.at = "mark", !.slot = process_count]
  /\ UNCHANGED <<termVars, procVars, memVars>>
\* pcb_index is the first free entry; with none free it is left at
\* MAX_PROCESS_COUNT, one past the table, and execute goes on with it.
ExecuteScan ==
  /\ cpu.at = "scan"
  /\ \E s \in Slots \ pcb_slots :
       /\ \A q \in Slots \ pcb_slots : s <= q
       /\ cpu' = [cpu EXCEPT !.at = "mark", !.slot = s]
  /\ UNCHANGED <<termVars, procVars, memVars>>

\* The build lays process_per_terminal behind pcb_slots, so that the entry past
\* the table is the count of terminal 1: counts after v is stored in entry s.
CountsWith(counts, s, v) == IF s \in Table THEN counts ELSE [counts EXCEPT ![1] = v]

ExecuteMark ==
  /\ cpu.at = "mark"
  /\ pcb_slots' = pcb_slots \cup ({cpu.slot} \cap Table)
  /\ process_per_terminal' = CountsWith(process_per_terminal, cpu.slot, 1)
  /\ cpu' = Goto("page")
  /\ UNCHANGED <<termVars, htp, process_count, memVars>>

\* Map the new program page and flush the TLB.
ExecutePage ==
  /\ cpu.at = "page"
  /\ page32' = cpu.slot
  /\ cpu' = Goto("load")
  /\ UNCHANGED <<termVars, procVars, pcb, tss_esp0, image>>

\* read_data copies the file to the virtual address PROG_LOAD_ADDR, that is
\* into whatever page is mapped there at that moment.
ExecuteLoad ==
  /\ cpu.at = "load"
  /\ image' = [image EXCEPT ![page32] = cpu.slot]
  /\ cpu' = Goto("parent")
  /\ UNCHANGED <<termVars, procVars, pcb, page32, tss_esp0>>

ExecuteParent ==
  /\ cpu.at = "parent"
  /\ pcb' = [pcb EXCEPT ![cpu.slot].parent = htp[curr_terminal]]
  /\ cpu' = Goto("htp")
  /\ UNCHANGED <<termVars, procVars, page32, tss_esp0, image>>

ExecuteHtp ==
  /\ cpu.at = "htp"
  /\ htp' = [htp EXCEPT ![curr_terminal] = cpu.slot]
  /\ cpu' = Goto("setup")
  /\ UNCHANGED <<termVars, pcb_slots, process_count, process_per_terminal, memVars>>

\* Record execute's own frame for halt to return through, and the new stack.
ExecuteSetup ==
  /\ cpu.at = "setup"
  /\ pcb' = [pcb EXCEPT ![cpu.slot].esp = Ctx("parked", cpu.by, cpu.proc, cpu.stk),
                        ![cpu.slot].esp0 = cpu.slot]
  /\ tss_esp0' = cpu.slot
  /\ cpu' = Goto("switch")
  /\ UNCHANGED <<termVars, procVars, page32, image>>

\* context_switch: iret to the entry point of the new program.
ExecuteSwitch ==
  /\ cpu.at = "switch"
  /\ cpu' = User(cpu.slot)
  /\ UNCHANGED <<termVars, procVars, memVars>>

ExecuteStep ==
  \/ ExecuteRefused \/ ExecuteFails \/ ExecuteFound \/ ExecuteReadCount
  \/ ExecuteWriteCount \/ ExecuteCountTerminal \/ ExecuteScan \/ ExecuteMark \/ ExecutePage
  \/ ExecuteLoad \/ ExecuteParent \/ ExecuteHtp \/ ExecuteSetup
  \/ ExecuteSwitch

-----------------------------------------------------------------------------
(* The halt system call *)

\* The process that halts (sys_calls.c:54); it was htp[curr_terminal] once.
ToHaltDisplayed == htp[curr_terminal]                       \* mutant
ToHalt == htp[curr_scheduled]

ReleaseDisplayed(p) ==                                      \* mutant
  /\ process_count' = process_count - 1
  /\ process_per_terminal' = [process_per_terminal EXCEPT ![curr_terminal] = @ - 1]
  /\ pcb_slots' = pcb_slots \ {p}
\* The slot and the counts that every halt gives back, with interrupts off.
ReleaseSlot(p) ==
  /\ process_count' = process_count - 1
  /\ process_per_terminal' =
       CountsWith([process_per_terminal EXCEPT ![curr_scheduled] = @ - 1], p, 0)
  /\ pcb_slots' = pcb_slots \ {p}

RestoreWithoutPage(p) ==                                    \* mutant
  /\ htp' = [htp EXCEPT ![curr_scheduled] = pcb[p].parent]
  /\ tss_esp0' = pcb[pcb[p].parent].esp0
  /\ UNCHANGED page32
RestoreDisplayed(p) ==                                      \* mutant
  /\ page32' = pcb[p].parent
  /\ htp' = [htp EXCEPT ![curr_terminal] = pcb[p].parent]
  /\ tss_esp0' = pcb[pcb[p].parent].esp0
\* Give the program page, the terminal and the kernel stack back to the parent.
RestoreParent(p) ==
  /\ page32' = pcb[p].parent
  /\ htp' = [htp EXCEPT ![curr_scheduled] = pcb[p].parent]
  /\ tss_esp0' = pcb[pcb[p].parent].esp0

\* A process with a parent returns to it.
HaltToParent ==
  /\ cpu.at = "user"
  /\ CountsInBound
  /\ BootDone
  /\ ToHalt # NoProc /\ pcb[ToHalt].parent # NoProc
  /\ ReleaseSlot(ToHalt)
  /\ RestoreParent(ToHalt)
  /\ pcb' = PcbOnEntry
  /\ cpu' = [Ctx("hret", "halt", cpu.proc, tss_esp0) EXCEPT !.slot = ToHalt]
  /\ UNCHANGED <<termVars, image>>

\* The bottom process of a terminal is replaced by a new shell, which halt
\* executes with interrupts off.
HaltRestart ==
  /\ cpu.at = "user"
  /\ CountsInBound
  /\ Commanded
  /\ ToHalt # NoProc /\ pcb[ToHalt].parent = NoProc
  /\ ReleaseSlot(ToHalt)
  /\ htp' = [htp EXCEPT ![curr_terminal] = NoProc]
  /\ pcb' = PcbOnEntry
  /\ cpu' = [Ctx("check", "halt", NoProc, tss_esp0) EXCEPT !.slot = ToHalt]
  /\ UNCHANGED <<termVars, page32, tss_esp0, image>>

\* In a terminal without a process halt reads getPCB(0).
HaltNothing ==
  /\ cpu.at = "user"
  /\ ToHalt = NoProc
  /\ cpu' = Fault
  /\ UNCHANGED <<termVars, procVars, memVars>>

\* Where execute's frame returns to: the program that called it, the halt of the
\* process on whose stack it lies, or a tick, whose frames may be gone by now.
ReturnsTo(frame) ==
  IF frame.at # "parked" THEN {Wild}
  ELSE IF frame.by = "user" THEN {User(frame.proc)}
  ELSE IF frame.by = "halt" /\ frame.stk # NoProc
    THEN {[Ctx("hret", "halt", NoProc, frame.stk) EXCEPT !.slot = frame.stk]}
  ELSE {Wild} \cup UnderTick(frame.stk)

\* After sti: take esp and ebp from the PCB just given up and jump into the
\* frame of the execute call that created the process.
HaltReturn ==
  /\ cpu.at = "hret"
  /\ cpu' \in ReturnsTo(pcb[cpu.slot].esp)
  /\ pcb' = [pcb EXCEPT ![cpu.slot].esp = Garbage]
  /\ UNCHANGED <<termVars, procVars, page32, tss_esp0, image>>

-----------------------------------------------------------------------------
(* Other entries into the kernel *)

PageAlwaysScreen == Screen                                  \* mutant
RunningPage == Target(curr_scheduled, curr_terminal)

\* vidmap recomputes the mapping of the video page for the running terminal.
Vidmap ==
  /\ cpu.at = "user"
  /\ video_mem' = RunningPage
  /\ pcb' = PcbOnEntry
  /\ UNCHANGED <<curr_scheduled, curr_terminal, switch_flag, total_terminal,
                 procVars, page32, tss_esp0, image, cpu>>

\* An exception: every handler in idt.c prints, runs cli and loops for ever.
RaiseException ==
  /\ MayFault
  /\ cpu.at = "user"
  /\ cpu' = Fault
  /\ UNCHANGED <<termVars, procVars, memVars>>

-----------------------------------------------------------------------------
HaltCall == HaltToParent \/ HaltRestart \/ HaltNothing

Next ==
  \/ PitHandler
  \/ \E t \in Terminals : PressAltFn(t)
  \/ CallExecute
  \/ ExecuteStep
  \/ HaltCall
  \/ HaltReturn
  \/ Vidmap
  \/ RaiseException

Spec == Init /\ [][Next]_vars

\* The 8259 keeps a timer interrupt pending until the CPU takes it.  A time
\* slice (50 ms) is long enough for at least one step of the code that gets it.
Fairness ==
  /\ SF_vars(PitHandler)
  /\ SF_vars(ExecuteStep)
  /\ SF_vars(HaltReturn)

FairSpec == Spec /\ Fairness

=============================================================================
