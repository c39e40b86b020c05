-------------------------- MODULE SessionInvariant --------------------------
(***************************************************************************)
(* The inductive invariant of Processes behind the statements about whole  *)
(* sessions: which context every terminal stands at, which slots are       *)
(* taken, and what a timer tick may rely on when it puts one context away  *)
(* and takes up another.  It holds as long as ticks come at the points of  *)
(* execute and halt that survive them and the user is careful.             *)
(***************************************************************************)
EXTENDS ProcessProperties

\* Every point of a system call at which a tick leaves the call able to
\* finish: all of execute but the stretch from the mapping of the new page
\* to the store to highest_terminal_processes (sys_calls.c:189-214) and the
\* store of process_count++.
SafePoints ==
  {"user"} \X {"check", "rdcount", "perterm", "scan", "mark", "page", "setup",
               "switch"}
    \cup {"halt"} \X {"setup", "switch"}

\* The shells are left to start, and Alt-Fn waits for a typed command.
Careful == PreemptAt \subseteq SafePoints /\ BootFirst /\ CalmUser

-----------------------------------------------------------------------------
(* Where execute stands *)

Early   == {"check", "rdcount", "wrcount", "perterm", "scan", "mark", "page",
            "load", "parent", "htp"}                    \* not yet the childmost
Late    == {"setup", "switch"}
Counted == {"scan", "mark", "page", "load", "parent", "htp"}
Marked  == {"page", "load", "parent", "htp"}    \* owns a slot, on no terminal
Mapped  == {"load", "parent", "htp", "setup", "switch"}

\* What a tick saves of a context and a later one restores.
Place(c) == IF c.at = "user" THEN User(c.proc) ELSE c

\* The terminals that have a shell or are getting one.
Started == {t \in Terminals : t <= total_terminal}

\* The context of a terminal, in the CPU or saved in its childmost process.
Standing(t) ==
  Place(IF t = curr_scheduled THEN cpu ELSE pcb[htp[t]].ebp_scheduler)

\* The execute that is under way, if there is one: it is the shown terminal's.
Call == Standing(curr_terminal)

Live == UNION {Ancestry(t) : t \in Terminals}

\* The frame of execute that halt returns through to the parent p.
Frame(p) == Ctx("parked", "user", p, p)

-----------------------------------------------------------------------------
(* The parts of the invariant *)

\* While the shells start, the newest one has the screen and the CPU, nobody
\* else calls execute and no request is pending.
BootInOrder ==
  /\ cpu.at = "idle" <=> total_terminal = 0
  /\ \A t \in Terminals \ Started : htp[t] = NoProc
  /\ ~Booted =>
       /\ curr_terminal = curr_scheduled
       /\ curr_scheduled = IF total_terminal = 0 THEN 1 ELSE total_terminal
       /\ switch_flag = 0
       /\ cpu.at \in {"idle", "user"} \/ (cpu.at \in ExecPoints /\ cpu.by = "boot")
       /\ process_count = total_terminal
            - IF cpu.at \in {"check", "rdcount", "wrcount"} THEN 1 ELSE 0

\* No process belongs to two terminals or is its own ancestor.
LinesApart ==
  /\ \A t, u \in Terminals : t # u => Ancestry(t) \cap Ancestry(u) = {}
  /\ \A t \in Terminals : \A s \in Ancestry(t) : s \notin Line(Parents, Parents[s])

\* Each started terminal stands in user code of its childmost process or in an
\* execute or halt on its behalf; only the shown terminal is in execute.
StandsAt(t, c) ==
  /\ c.at \in {"user", "hret"} \cup ExecPoints
  /\ c.at = "user" => c.proc = htp[t] /\ htp[t] # NoProc
  /\ c.at \in Early => c.proc = htp[t]
  /\ c.at \in Late => c.slot = htp[t] /\ Parents[c.slot] = c.proc
  /\ c.at \in ExecPoints =>
       /\ t = curr_terminal
       /\ switch_flag = 0
       /\ c.by = "user" <=> c.proc # NoProc
       /\ c.by = "user" => c.stk = c.proc
StandingWell == \A t \in Started : StandsAt(t, Standing(t))

\* What the execute under way has claimed so far.
ClaimsOf(c) ==
  /\ c.at = "wrcount" => c.eax = process_count
  /\ c.at \in {"rdcount", "wrcount"} \/ (c.at = "check" /\ c.by # "user")
       => process_count < MaxProc
  /\ c.at = "check" /\ c.by = "halt" => c.slot \in Table
  /\ c.at = "mark" => c.slot \in Table \ pcb_slots
  /\ c.at \in Marked => c.slot \notin Live
  /\ c.at \in {"parent", "htp"} => image[c.slot] = c.slot
  /\ c.at = "htp" => Parents[c.slot] = c.proc
CallClaims == ClaimsOf(Call)

\* A process of a terminal has its program in its page and, once its PCB is
\* set up, its kernel stack and the frame its parent waits in.
Installed(s) ==
  /\ pcb[s].esp0 = s
  /\ pcb[s].parent # NoProc => pcb[s].esp = Frame(pcb[s].parent)
ProgramsInPlace ==
  \A t \in Terminals : \A s \in Ancestry(t) :
    /\ image[s] = s
    /\ (s = htp[t] /\ Standing(t).at = "setup") \/ Installed(s)

\* The registers agree with the context in the CPU.
CpuInPlace ==
  /\ cpu.at = "user" => page32 = cpu.proc /\ tss_esp0 = cpu.proc
  /\ cpu.at \in Early /\ cpu.by = "user" =>
       /\ tss_esp0 = cpu.proc
       /\ cpu.at \notin Mapped => page32 = cpu.proc
  /\ cpu.at \in Mapped => page32 = cpu.slot
  /\ cpu.at = "switch" => tss_esp0 = cpu.slot
  /\ cpu.at = "hret" =>
       LET p == pcb[cpu.slot].parent IN
         /\ cpu.slot \in Table \ Live
         /\ p # NoProc /\ page32 = p /\ tss_esp0 = p /\ htp[curr_scheduled] = p
         /\ pcb[cpu.slot].esp = Frame(p)
  /\ cpu.at \in ExecPoints /\ cpu.by = "halt" =>
       \A u \in Terminals \ {curr_scheduled} : cpu.stk \notin Ancestry(u)

\* A saved context is one a tick may have interrupted, on a stack that no other
\* terminal uses; a program interrupted in user mode is on its own.
SavedAt(t, c) ==
  /\ htp[t] # NoProc
  /\ c.at \in {"user", "check", "rdcount", "perterm", "scan", "mark", "page", "setup",
               "switch"}
  /\ c.at = "user" => c.stk = htp[t]
  /\ \A u \in Terminals \ {t} : c.stk \notin Ancestry(u)
SavedInPlace ==
  \A t \in Started \ {curr_scheduled} : SavedAt(t, pcb[htp[t]].ebp_scheduler)

\* The slot table and both counters, with what the execute under way has
\* taken and not yet given to a terminal.
SlotsCounted ==
  /\ pcb_slots = Live \cup (IF Call.at \in Marked THEN {Call.slot} ELSE {})
  /\ process_count <= MaxProc
  /\ process_count = Cardinality(pcb_slots)
       + IF Call.at \in {"perterm", "scan", "mark"} THEN 1 ELSE 0
  /\ \A t \in Terminals :
       process_per_terminal[t] = Cardinality(Ancestry(t))
         + IF t = curr_terminal /\ Call.at \in Counted THEN 1 ELSE 0

SessionInv ==
  /\ BootInOrder /\ LinesApart /\ StandingWell /\ CallClaims /\ ProgramsInPlace
  /\ CpuInPlace /\ SavedInPlace /\ SlotsCounted

\* Only a program that raises an exception stops the machine (its handler
\* loops); the kernel itself never does.
Stopped == MayFault /\ cpu.at = "fault"

SessionIInv == TypeOK /\ SlotsChosen /\ (Stopped \/ SessionInv)

-----------------------------------------------------------------------------
(* Whole sessions *)

\* x, its parent and so on to the bottom.
Chain(x, up) ==
  LET anc[i \in Slots] == IF i = 1 THEN x
                                 ELSE IF anc[i - 1] = NoProc THEN NoProc
                                 ELSE up[anc[i - 1]]
  IN  [i \in 1 .. Cardinality({j \in Slots : anc[j] # NoProc}) |-> anc[i]]

\* The programs of every terminal, the childmost process first.
Stacks == [t \in Terminals |-> Chain(htp[t], Parents)]

\* What a terminal is in, seen from outside the kernel.
StageOf(at) ==
  IF at = "user" THEN "user"
  ELSE IF at \in Early THEN "call"
  ELSE IF at \in Late \cup {"hret"} THEN "enter"
  ELSE "stopped"
Stages == [t \in Terminals |->
             IF t \in Started THEN StageOf(Standing(t).at) ELSE "off"]

\* The program whose code the CPU executes: the one in the mapped page.
Running == IF cpu.at = "user" THEN image[page32] ELSE NoProc

\* The PCBs implement the stacks of programs, the saved contexts implement
\* what each terminal is in, and the mapped page holds the program that runs.
SE == INSTANCE Sessions WITH
  Programs <- Slots,
  None     <- NoProc,
  stack    <- Stacks,
  state    <- Stages,
  now      <- curr_scheduled,
  running  <- Running

\* Whatever execute, halt and the timer do in between, each terminal is seen
\* to run a stack of programs of its own, and the terminals take turns.
ImplementsSessions == SE!Spec

=============================================================================
