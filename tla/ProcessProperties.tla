------------------------- MODULE ProcessProperties -------------------------
(***************************************************************************)
(* What Processes must guarantee: first what the design promises when      *)
(* ticks and users leave its unprotected stretches alone, then statements  *)
(* of the code's own comments that its behaviours contradict.              *)
(***************************************************************************)
EXTENDS Processes

-----------------------------------------------------------------------------
(* Type invariant *)

\* Every variable keeps its range.
TypeOK ==
  /\ curr_scheduled \in Terminals
  /\ curr_terminal \in Terminals
  /\ switch_flag \in 0 .. NT
  /\ total_terminal \in 0 .. NT + 1
  /\ video_mem \in 0 .. NT
  /\ htp \in [Terminals -> SlotsOrNone]
  /\ pcb_slots \subseteq Table
  /\ process_count \in Int
  /\ process_per_terminal \in [Terminals -> Int]
  /\ pcb \in [Slots -> PCB]
  /\ page32 \in SlotsOrNone
  /\ tss_esp0 \in SlotsOrNone
  /\ image \in [Slots -> SlotsOrNone]
  /\ cpu \in Context

\* The part of the type that depends on where a context stands: execute and
\* halt have set the slot they index PCBs with, which may be the one past the
\* table, in the running call and in every preempted one.
SlotUsed(c) ==
  \/ c.at \in {"mark", "page", "load", "parent", "htp", "setup", "switch", "hret"}
  \/ c.at = "check" /\ c.by = "halt"
SlotChosen(c) == SlotUsed(c) => c.slot \in Slots
SlotsChosen == SlotChosen(cpu) /\ \A s \in Slots : SlotChosen(pcb[s].ebp_scheduler)

-----------------------------------------------------------------------------
(* Safety *)

Alive == cpu.at \notin {"fault", "wild"}

\* sys_calls.c:126 "check to prevent opening more than 6 processes".  The slot
\* that execute takes, and halt gives back, is an entry of pcb_slots and not
\* the one past its end, although the test of the limit, the count and the
\* search are apart and ticks come in between.
StaysInTable ==
  Alive =>
    /\ SlotUsed(cpu) => cpu.slot \in Table
    /\ \A t \in Terminals : htp[t] \in Table \cup {NoProc}
    /\ \A t \in Terminals \ {curr_scheduled} :
         LET c == pcb[htp[t]].ebp_scheduler IN
           htp[t] # NoProc /\ SlotUsed(c) => c.slot \in Table

Booted == total_terminal > NT

\* While a program runs in user mode, the memory it sees is its own program,
\* a kernel entry lands on its own kernel stack, and it is the childmost
\* process of the terminal that owns the slice: what execute, halt and the
\* timer handler together must restore on every path back to user mode.
RunsInOwnSpace ==
  cpu.at = "user" =>
    /\ page32 = cpu.proc
    /\ image[cpu.proc] = cpu.proc
    /\ tss_esp0 = cpu.proc
    /\ htp[curr_scheduled] = cpu.proc

\* No tick, execute or halt has looked for the process of a terminal that has
\* none or jumped to a context that was gone, and the next tick of a booted
\* system can switch to any terminal: its childmost process has a saved context
\* of its own, on a stack nobody has reused.  (The scheduled terminal has its
\* context in the CPU.)
EveryTerminalResumable ==
  /\ Alive \/ (MayFault /\ cpu.at = "fault")
  /\ Booted /\ Alive =>
       \A t \in Terminals \ {curr_scheduled} :
         /\ htp[t] # NoProc
         /\ LET c == pcb[htp[t]].ebp_scheduler IN
              /\ c.at # "garbage"
              /\ c.at = "user" => c.proc = htp[t] /\ pcb[htp[t]].esp0 = htp[t]

\* A process and its ancestors: the least set of slots that holds it and is
\* closed under the map up from a process to its parent.  Only the process
\* itself and parents can be in it.
ClosedUnder(up, C) == \A s \in C : up[s] \in C \cup {NoProc}
Region(up, x) == Slots \cap ({x} \cup {up[s] : s \in Slots})
Line(up, x) ==
  LET Candidates ==
        {C \in SUBSET Region(up, x) : x \in C \cup {NoProc} /\ ClosedUnder(up, C)}
  IN  {s \in Region(up, x) : \A C \in Candidates : s \in C}

\* The processes of a terminal: its childmost one and the chain of parents.
Parents == [s \in Slots |-> pcb[s].parent]
Ancestry(t) == Line(Parents, htp[t])

\* Whenever no execute or halt is half done, the ancestries of the terminals
\* share no process and together are exactly the slots in use, and both
\* counters agree with them: nothing execute takes is leaked by halt.
SlotsAccountedFor ==
  ~ExecuteUnderWay /\ Alive =>
    /\ pcb_slots = UNION {Ancestry(t) : t \in Terminals}
    /\ \A t, u \in Terminals : t # u => Ancestry(t) \cap Ancestry(u) = {}
    /\ \A t \in Terminals : process_per_terminal[t] = Cardinality(Ancestry(t))
    /\ process_count = Cardinality(pcb_slots)

-----------------------------------------------------------------------------
(* Action properties *)

VideoMapped == video_mem = Target(curr_scheduled, curr_terminal)

\* Once the video page shows the slice of the scheduled terminal in a booted
\* system, no tick, Alt-Fn, execute, halt or vidmap makes a background program
\* draw on the display or the displayed program draw off it.
VideoMappingKept ==
  [][Booted /\ VideoMapped => (cpu.at = "fault" \/ VideoMapped)']_vars

\* execute refuses a program with "MAX PROCESSES REACHED" only when every
\* process slot really is in use.
RefusesOnlyWhenFull ==
  [][ExecuteRefused => pcb_slots = Table]_vars

\* The status of a halted program goes to the process that waits for it: the
\* parent in the PCB that is given up, back in the terminal they share.
StatusGoesToParent ==
  [][HaltReturn => /\ cpu' = User(pcb[cpu.slot].parent)
                   /\ cpu'.proc = htp[curr_scheduled]]_vars

\* buglog.txt:119-120 "Needed to halt curr_scheduled process".  A halting
\* process takes nothing from the terminals that are not its own.
HaltKeepsOtherTerminals ==
  [][cpu.at = "user" /\ cpu'.by = "halt"
       => \A t \in Terminals \ {curr_scheduled} : htp'[t] = htp[t]]_vars

-----------------------------------------------------------------------------
(* Liveness *)

\* Round robin: every terminal gets the CPU again and again.
EveryTerminalScheduled ==
  \A t \in Terminals : []<>(curr_scheduled = t)

\* A request made with Alt-Fn is served (or replaced by a later one).
SwitchServed == \A t \in Terminals : switch_flag = t ~> curr_terminal = t \/ switch_flag \notin {0, t}

\* A program that calls execute gets its answer or its child starts, and a
\* halt reaches the parent, whatever the other terminals do.
ExecuteCompletes == ExecuteUnderWay ~> ~ExecuteUnderWay

=============================================================================
