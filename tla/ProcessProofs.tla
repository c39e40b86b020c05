--------------------------- MODULE ProcessProofs ---------------------------
(***************************************************************************)
(* Theorems about Processes, for any number of terminals and process       *)
(* slots.  For any user and any tick: the type invariant, and that the     *)
(* video page keeps following the scheduled terminal.  When ticks come at  *)
(* the points of execute and halt that survive them and the user is        *)
(* careful: SessionIInv is inductive, so programs run in their own space,  *)
(* every terminal can be resumed, no slot is lost, and execute and halt    *)
(* answer truthfully.                                                      *)
(***************************************************************************)
EXTENDS SessionInvariant, FiniteSetTheorems, WellFoundedInduction, Sequences, TLAPS

USE NTAssumption, MaxProcAssumption, PreemptAssumption, CountAssumption,
    FlagsAssumption

-----------------------------------------------------------------------------
(* Contexts and PCBs *)

LEMMA CtxType ==
  ASSUME NEW a \in Points, NEW b \in Callers,
         NEW p \in SlotsOrNone, NEW k \in SlotsOrNone
  PROVE  Ctx(a, b, p, k) \in Context
  BY DEF Ctx, Context, NoProc, SlotsOrNone

LEMMA UserType ==
  ASSUME NEW p \in SlotsOrNone
  PROVE  User(p) \in Context
  BY DEF User, Ctx, Context, Points, Callers, NoProc, SlotsOrNone

LEMMA ConstantContexts ==
  Garbage \in Context /\ Fault \in Context /\ Wild \in Context
  BY DEF Garbage, Fault, Wild, Ctx, Context, Points, Callers, NoProc, SlotsOrNone

LEMMA SlotsInRange ==
  /\ Slots \subseteq SlotsOrNone
  /\ NoProc \in SlotsOrNone
  /\ \A s \in SlotsOrNone : s # NoProc => s \in Slots
  BY DEF Slots, SlotsOrNone, NoProc

LEMMA TableInRange ==
  /\ Table \subseteq Slots
  /\ \A s \in Slots : s \notin Table => s = MaxProc + 1
  /\ NoProc \notin Table
  /\ 1 \in Terminals
  BY DEF Table, Slots, NoProc, Terminals

LEMMA EntryStackType ==
  ASSUME TypeOK
  PROVE  EntryStack \in SlotsOrNone
  BY DEF TypeOK, EntryStack, Context

LEMMA PcbOnEntryType ==
  ASSUME TypeOK
  PROVE  PcbOnEntry \in [Slots -> PCB]
<1>1. SUFFICES ASSUME NEW k \in SlotsOrNone
               PROVE  ScrubStack(k) \in [Slots -> PCB]
  BY DEF PcbOnEntry, TypeOK
<1>2. ASSUME NEW s \in Slots
      PROVE  pcb[s].esp \in Context /\ pcb[s].ebp_scheduler \in Context
  BY DEF TypeOK, PCB
<1> QED
  BY <1>2, ConstantContexts, ZenonT(40) DEF ScrubStack, TypeOK, PCB

LEMMA InterruptedType ==
  ASSUME TypeOK
  PROVE  Interrupted \in Context
<1>1. User(cpu.proc) \in Context
  BY UserType DEF TypeOK, Context
<1>2. [User(cpu.proc) EXCEPT !.stk = tss_esp0] \in Context
  BY <1>1 DEF TypeOK, Context
<1> QED
  BY <1>2 DEF Interrupted, TypeOK

LEMMA SaveIntoType ==
  ASSUME TypeOK, NEW p \in Slots
  PROVE  SaveInto(p) \in [Slots -> PCB]
  BY PcbOnEntryType, InterruptedType, ZenonT(40) DEF SaveInto, PCB, TypeOK

LEMMA ResumeType ==
  ASSUME NEW ctx \in Context
  PROVE  Resume(ctx) \in Context
  BY UserType, ConstantContexts DEF Resume, Context

LEMMA PointsType == ExecPoints \subseteq Points /\ "hret" \in Points
  BY DEF Points

\* Moving a context to another point, with another value.
LEMMA MoveType ==
  ASSUME NEW c \in Context, NEW a \in Points, NEW v \in Int, NEW s \in SlotsOrNone
  PROVE  /\ [c EXCEPT !.at = a, !.eax = v] \in Context
         /\ [c EXCEPT !.at = a, !.slot = s] \in Context
  BY DEF Context

LEMMA SlotType ==
  ASSUME NEW c \in Context, NEW s \in SlotsOrNone
  PROVE  [c EXCEPT !.slot = s] \in Context
  BY DEF Context

LEMMA GotoType ==
  ASSUME TypeOK, NEW point \in Points
  PROVE  Goto(point) \in Context
  BY DEF Goto, TypeOK, Context

LEMMA CountsWithType ==
  ASSUME NEW counts \in [Terminals -> Int], NEW s, NEW v \in Int
  PROVE  CountsWith(counts, s, v) \in [Terminals -> Int]
  BY DEF CountsWith

LEMMA UnderTickType ==
  ASSUME TypeOK, NEW k
  PROVE  UnderTick(k) \subseteq Context
<1>1. \A q \in Slots : pcb[q].ebp_scheduler \in Context
  BY DEF TypeOK, PCB
<1> QED
  BY <1>1, ResumeType DEF UnderTick, SavedOn

LEMMA PopTickType ==
  ASSUME TypeOK, NEW k
  PROVE  /\ PopTick(k) \in [Slots -> PCB]
         /\ \A q \in Slots :
              /\ PopTick(k)[q].ebp_scheduler = IF q \in SavedOn(k) THEN Garbage
                                               ELSE pcb[q].ebp_scheduler
              /\ PopTick(k)[q].parent = pcb[q].parent
<1>1. ASSUME NEW q \in Slots, NEW c \in Context
      PROVE  /\ [pcb[q] EXCEPT !.ebp_scheduler = c] \in PCB
             /\ [pcb[q] EXCEPT !.ebp_scheduler = c].ebp_scheduler = c
             /\ [pcb[q] EXCEPT !.ebp_scheduler = c].parent = pcb[q].parent
  BY DEF TypeOK, PCB
<1>2. ASSUME NEW q \in Slots
      PROVE  (IF q \in SavedOn(k) THEN Garbage ELSE pcb[q].ebp_scheduler) \in Context
  BY ConstantContexts DEF TypeOK, PCB
<1>3. \A q \in Slots :
        PopTick(k)[q] = [pcb[q] EXCEPT !.ebp_scheduler =
                           IF q \in SavedOn(k) THEN Garbage ELSE pcb[q].ebp_scheduler]
  BY DEF PopTick
<1>4. \A q \in Slots : PopTick(k)[q] \in PCB
  BY <1>1, <1>2, <1>3
<1>5. PopTick(k) \in [Slots -> PCB]
  <2>1. PopTick(k) = [q \in Slots |-> PopTick(k)[q]]
    BY DEF PopTick
  <2> QED
    BY <1>4, <2>1
<1>6. ASSUME NEW q \in Slots
      PROVE  /\ PopTick(k)[q].ebp_scheduler = IF q \in SavedOn(k) THEN Garbage
                                              ELSE pcb[q].ebp_scheduler
             /\ PopTick(k)[q].parent = pcb[q].parent
  <2> DEFINE c == IF q \in SavedOn(k) THEN Garbage ELSE pcb[q].ebp_scheduler
  <2>1. PopTick(k)[q] = [pcb[q] EXCEPT !.ebp_scheduler = c]
    BY <1>3
  <2>2. c \in Context
    BY <1>2
  <2> QED
    BY <1>1, <2>1, <2>2
<1> QED
  BY <1>5, <1>6

LEMMA ReturnsToType ==
  ASSUME TypeOK, NEW frame \in Context
  PROVE  ReturnsTo(frame) \subseteq Context
<1>1. /\ frame.proc \in SlotsOrNone /\ frame.stk \in SlotsOrNone
      /\ "hret" \in Points /\ "halt" \in Callers
  BY PointsType DEF Context, Callers
<1>2. Ctx("hret", "halt", NoProc, frame.stk) \in Context
  BY <1>1, CtxType, SlotsInRange
<1>3. [Ctx("hret", "halt", NoProc, frame.stk) EXCEPT !.slot = frame.stk] \in Context
  BY <1>1, <1>2, SlotType
<1> QED
  BY <1>1, <1>3, UserType, ConstantContexts, UnderTickType DEF ReturnsTo

LEMMA NextScheduledType ==
  ASSUME TypeOK
  PROVE  NextScheduled \in Terminals
  BY DEF TypeOK, NextScheduled, Terminals

LEMMA ShownType ==
  ASSUME TypeOK
  PROVE  Shown \in Terminals
  BY DEF TypeOK, Shown, Terminals

LEMMA TargetType ==
  ASSUME NEW t \in Terminals, NEW u
  PROVE  Target(t, u) \in 0 .. NT
  BY DEF Target, Terminals, Screen

-----------------------------------------------------------------------------
(* The type invariant *)

LEMMA TypeInit == Init => TypeOK
<1> SUFFICES ASSUME Init PROVE TypeOK
  OBVIOUS
<1>1. cpu \in Context
  BY DEF Init, Ctx, Context, Points, Callers, NoProc, SlotsOrNone
<1>2. pcb \in [Slots -> PCB]
  BY ConstantContexts, SlotsInRange DEF Init, PCB
<1>3. tss_esp0 \in SlotsOrNone /\ page32 \in SlotsOrNone
  BY DEF Init, NoProc, SlotsOrNone
<1> QED
  BY <1>1, <1>2, <1>3, SlotsInRange DEF Init, TypeOK, Terminals, Screen

\* What the three parts of the timer handler share.
LEMMA PrologueType ==
  ASSUME TypeOK, PitPrologue
  PROVE  /\ switch_flag' \in 0 .. NT
         /\ video_mem' \in 0 .. NT
         /\ htp' \in [Terminals -> SlotsOrNone]
         /\ pcb_slots' \subseteq Table
         /\ process_count' \in Int
         /\ process_per_terminal' \in [Terminals -> Int]
         /\ image' \in [Slots -> SlotsOrNone]
  BY NextScheduledType, TargetType DEF PitPrologue, TypeOK, procVars

LEMMA PitStartShellType == TypeOK /\ PitStartShell => TypeOK'
<1>1. SUFFICES ASSUME TypeOK, PitStartShell PROVE TypeOK'
  OBVIOUS
<1>2. total_terminal' \in 0 .. NT + 1 /\ page32' \in SlotsOrNone
  BY <1>1 DEF PitStartShell, TypeOK
<1>3. curr_terminal' \in Terminals
  BY <1>1, ShownType DEF PitStartShell, TypeOK, Terminals
<1>4. htp[curr_scheduled] \in SlotsOrNone
  BY <1>1 DEF TypeOK
<1>5. pcb' \in [Slots -> PCB]
  BY <1>1, <1>4, PcbOnEntryType, SaveIntoType, SlotsInRange
  DEF PitStartShell, FaultOnPcb0
<1>6. curr_scheduled' \in Terminals
  BY <1>1, NextScheduledType DEF PitStartShell, FaultOnPcb0, TypeOK
<1>7. Ctx("check", "boot", NoProc, EntryStack) \in Context
  BY <1>1, EntryStackType, CtxType, SlotsInRange DEF Points, ExecPoints, Callers
<1>8. cpu' \in Context /\ tss_esp0' \in SlotsOrNone
  BY <1>1, <1>7, ConstantContexts DEF PitStartShell, FaultOnPcb0, TypeOK
<1> QED
  BY <1>1, <1>2, <1>3, <1>5, <1>6, <1>8, PrologueType DEF PitStartShell, TypeOK

LEMMA PitFinishBootType == TypeOK /\ PitFinishBoot => TypeOK'
<1>1. SUFFICES ASSUME TypeOK, PitFinishBoot PROVE TypeOK'
  OBVIOUS
<1>2. total_terminal' \in 0 .. NT + 1
  BY <1>1 DEF PitFinishBoot, AllCreated, TypeOK
<1>3. curr_terminal' \in Terminals /\ curr_scheduled' \in Terminals
  BY <1>1 DEF PitFinishBoot, Terminals
<1> QED
  BY <1>1, <1>2, <1>3, PrologueType, PcbOnEntryType DEF PitFinishBoot, TypeOK

LEMMA PitSwitchType == TypeOK /\ PitSwitch => TypeOK'
<1>1. SUFFICES ASSUME TypeOK, PitSwitch PROVE TypeOK'
  OBVIOUS
<1> DEFINE from == htp[curr_scheduled]
           to   == htp[NextScheduled]
           saved == SaveInto(from)
<1>2. NextScheduled \in Terminals /\ Shown \in Terminals
  BY <1>1, NextScheduledType, ShownType
<1>3. from \in SlotsOrNone /\ to \in SlotsOrNone
  BY <1>1, <1>2 DEF TypeOK
<1>4. /\ curr_terminal' \in Terminals
      /\ page32' \in SlotsOrNone
      /\ total_terminal' \in 0 .. NT + 1
  BY <1>1, <1>2, <1>3 DEF PitSwitch, TypeOK
<1>5. CASE from # NoProc /\ to # NoProc
  <2>1. from \in Slots /\ to \in Slots
    BY <1>3, <1>5, SlotsInRange
  <2>2. saved \in [Slots -> PCB]
    BY <1>1, <2>1, SaveIntoType
  <2>3. saved[to].esp0 \in SlotsOrNone /\ saved[to].ebp_scheduler \in Context
    BY <2>1, <2>2 DEF PCB
  <2>4. /\ curr_scheduled' = NextScheduled
        /\ tss_esp0' = saved[to].esp0
        /\ cpu' = Resume(saved[to].ebp_scheduler)
        /\ pcb' = [saved EXCEPT ![to].ebp_scheduler = Garbage]
    BY <1>1, <1>5 DEF PitSwitch
  <2>5. pcb' \in [Slots -> PCB]
    BY <2>1, <2>2, <2>4, ConstantContexts DEF PCB
  <2> QED
    BY <1>1, <1>2, <1>4, <2>3, <2>4, <2>5, PrologueType, ResumeType
    DEF PitSwitch, TypeOK
<1>6. CASE from = NoProc \/ to = NoProc
  <2>1. pcb' = PcbOnEntry /\ cpu' = Fault /\ UNCHANGED <<curr_scheduled, tss_esp0>>
    BY <1>1, <1>6 DEF PitSwitch, FaultOnPcb0
  <2> QED
    BY <1>1, <1>4, <2>1, PrologueType, PcbOnEntryType, ConstantContexts
    DEF PitSwitch, TypeOK
<1> QED
  BY <1>5, <1>6

LEMMA PitHandlerType == TypeOK /\ PitHandler => TypeOK'
  BY PitStartShellType, PitFinishBootType, PitSwitchType DEF PitHandler

LEMMA ReturnType ==
  ASSUME TypeOK, NEW v \in Int, ReturnValue(v) \/ ReturnToTick \/ ReturnToHalt
  PROVE  cpu' \in Context /\ pcb' \in [Slots -> PCB]
<1>1. CASE ReturnValue(v)
  <2>1. User(cpu.proc) \in Context
    BY UserType DEF TypeOK, Context
  <2>2. [User(cpu.proc) EXCEPT !.eax = v] \in Context
    BY <2>1 DEF Context
  <2> QED
    BY <1>1, <2>2 DEF ReturnValue, TypeOK
<1>2. CASE ReturnToTick
  BY <1>2, UnderTickType, PopTickType DEF ReturnToTick
<1>3. CASE ReturnToHalt
  BY <1>3, GotoType, PointsType DEF ReturnToHalt, TypeOK
<1> QED
  BY <1>1, <1>2, <1>3

LEMMA ExecuteStepType == TypeOK /\ SlotsChosen /\ ExecuteStep => TypeOK'
<1> SUFFICES ASSUME TypeOK, SlotsChosen, ExecuteStep PROVE TypeOK'
  OBVIOUS
<1> USE DEF termVars, procVars, memVars
<1>a. cpu \in Context /\ cpu.slot \in SlotsOrNone /\ cpu.eax \in Int
  BY DEF TypeOK, Context
<1>b. 0 \in Int /\ -1 \in Int
  OBVIOUS
<1>c. /\ {"check", "rdcount", "wrcount", "perterm", "scan", "mark", "page", "load",
          "parent", "htp", "setup", "switch"} \subseteq Points
  BY PointsType DEF ExecPoints
<1>1. CASE ExecuteRefused
  <2>1. cpu' \in Context /\ pcb' \in [Slots -> PCB]
    BY <1>1, <1>b, ReturnType DEF ExecuteRefused
  <2> QED
    BY <1>1, <2>1 DEF ExecuteRefused, TypeOK
<1>2. CASE ExecuteFails
  <2>1. cpu' \in Context /\ pcb' \in [Slots -> PCB]
    BY <1>2, <1>b, ReturnType DEF ExecuteFails
  <2> QED
    BY <1>2, <2>1 DEF ExecuteFails, TypeOK
<1>3. CASE ExecuteFound
  BY <1>3, <1>c, GotoType DEF ExecuteFound, TypeOK
<1>4. CASE ExecuteReadCount
  <2>1. cpu' \in Context
    BY <1>4, <1>a, <1>c, MoveType DEF ExecuteReadCount, TypeOK
  <2> QED
    BY <1>4, <2>1 DEF ExecuteReadCount, TypeOK
<1>5. CASE ExecuteWriteCount
  <2>1. cpu' \in Context
    BY <1>5, <1>a, <1>b, <1>c, MoveType DEF ExecuteWriteCount
  <2>2. process_count' \in Int
    BY <1>5, <1>a DEF ExecuteWriteCount
  <2> QED
    BY <1>5, <2>1, <2>2 DEF ExecuteWriteCount, TypeOK
<1>14. CASE ExecuteCountTerminal
  <2>1. process_per_terminal' \in [Terminals -> Int]
    BY <1>14 DEF ExecuteCountTerminal, TypeOK
  <2> QED
    BY <1>14, <1>c, <2>1, GotoType DEF ExecuteCountTerminal, TypeOK
<1>6. CASE ExecuteScan
  <2>1. ASSUME NEW s \in Slots \ pcb_slots,
               cpu' = [cpu EXCEPT !.at = "mark", !.slot = s]
        PROVE  cpu' \in Context
    BY <1>a, <1>c, <2>1, MoveType, SlotsInRange
  <2>2. cpu' \in Context
    BY <1>6, <2>1, ConstantContexts DEF ExecuteScan
  <2> QED
    BY <1>6, <2>2 DEF ExecuteScan, TypeOK
<1>7. CASE ExecuteMark
  <2>1. process_per_terminal' \in [Terminals -> Int]
    BY <1>7, CountsWithType DEF ExecuteMark, TypeOK
  <2> QED
    BY <1>7, <1>c, <2>1, GotoType DEF ExecuteMark, TypeOK
<1>8. CASE ExecutePage
  BY <1>8, <1>a, <1>c, GotoType DEF ExecutePage, TypeOK
<1>9. CASE ExecuteLoad
  BY <1>9, <1>a, <1>c, GotoType DEF ExecuteLoad, TypeOK
<1>10. CASE ExecuteParent
  <2>1. htp[curr_terminal] \in SlotsOrNone
    BY DEF TypeOK
  <2>2. pcb' \in [Slots -> PCB]
    BY <1>10, <2>1 DEF ExecuteParent, TypeOK, PCB
  <2> QED
    BY <1>10, <1>c, <2>2, GotoType DEF ExecuteParent, TypeOK
<1>11. CASE ExecuteHtp
  BY <1>11, <1>a, <1>c, GotoType DEF ExecuteHtp, TypeOK
<1>12. CASE ExecuteSetup
  <2>1. Ctx("parked", cpu.by, cpu.proc, cpu.stk) \in Context
    BY <1>a, CtxType DEF Context, Points
  <2>2. pcb' \in [Slots -> PCB]
    BY <1>12, <1>a, <2>1 DEF ExecuteSetup, TypeOK, PCB
  <2> QED
    BY <1>12, <1>a, <1>c, <2>2, GotoType DEF ExecuteSetup, TypeOK
<1>13. CASE ExecuteSwitch
  BY <1>13, <1>a, UserType DEF ExecuteSwitch, TypeOK
<1> QED
  BY <1>1, <1>2, <1>3, <1>4, <1>5, <1>6, <1>7, <1>8, <1>9, <1>10, <1>11,
     <1>12, <1>13, <1>14 DEF ExecuteStep

LEMMA HaltType == TypeOK /\ SlotsChosen /\ (HaltCall \/ HaltReturn) => TypeOK'
<1> SUFFICES ASSUME TypeOK, SlotsChosen, HaltCall \/ HaltReturn PROVE TypeOK'
  OBVIOUS
<1> USE DEF termVars, procVars, memVars
<1>1. cpu.proc \in SlotsOrNone /\ ToHalt \in SlotsOrNone
  BY DEF TypeOK, Context, ToHalt
<1>2. ASSUME NEW p \in Slots, ReleaseSlot(p)
      PROVE  /\ process_count' \in Int
             /\ process_per_terminal' \in [Terminals -> Int]
             /\ pcb_slots' \subseteq Table
  <2> DEFINE counts == [process_per_terminal EXCEPT ![curr_scheduled] = @ - 1]
  <2>1. counts \in [Terminals -> Int]
    BY DEF TypeOK
  <2>2. process_per_terminal' = CountsWith(counts, p, 0)
    BY <1>2 DEF ReleaseSlot
  <2> HIDE DEF counts
  <2>3. process_per_terminal' \in [Terminals -> Int]
    BY <2>1, <2>2, CountsWithType
  <2>4. process_count' = process_count - 1 /\ pcb_slots' = pcb_slots \ {p}
    BY <1>2 DEF ReleaseSlot
  <2>5. process_count \in Int /\ pcb_slots \subseteq Table
    BY DEF TypeOK
  <2> QED
    BY <2>3, <2>4, <2>5
<1>3. PcbOnEntry \in [Slots -> PCB]
  BY PcbOnEntryType
<1>4. {"user", "check", "hret"} \subseteq Points /\ {"none", "halt"} \subseteq Callers
  BY DEF Points, ExecPoints, Callers
<1>5. CASE HaltToParent
  <2>1. ToHalt \in Slots /\ pcb[ToHalt].parent # NoProc
    BY <1>5, <1>1, SlotsInRange DEF HaltToParent
  <2>2. pcb[ToHalt].parent \in Slots
    BY <2>1, SlotsInRange DEF TypeOK, PCB
  <2>3. pcb[pcb[ToHalt].parent].esp0 \in SlotsOrNone
    BY <2>2 DEF TypeOK, PCB
  <2>4. /\ page32' \in SlotsOrNone
        /\ htp' \in [Terminals -> SlotsOrNone]
        /\ tss_esp0' \in SlotsOrNone
    BY <1>5, <2>2, <2>3, SlotsInRange DEF HaltToParent, RestoreParent, TypeOK
  <2>5. Ctx("hret", "halt", cpu.proc, tss_esp0) \in Context
    BY <1>1, <1>4, CtxType DEF TypeOK
  <2>6. cpu' \in Context
    BY <1>5, <1>1, <2>5, SlotType DEF HaltToParent
  <2> QED
    BY <1>5, <1>2, <1>3, <2>1, <2>4, <2>6 DEF HaltToParent, TypeOK
<1>6. CASE HaltRestart
  <2>1. ToHalt \in Slots
    BY <1>6, <1>1, SlotsInRange DEF HaltRestart
  <2>2. Ctx("check", "halt", NoProc, tss_esp0) \in Context
    BY <1>4, CtxType, SlotsInRange DEF TypeOK
  <2>3. htp' \in [Terminals -> SlotsOrNone]
    BY <1>6, SlotsInRange DEF HaltRestart, TypeOK
  <2>4. cpu' \in Context
    BY <1>6, <1>1, <2>2, SlotType DEF HaltRestart
  <2> QED
    BY <1>6, <1>2, <1>3, <2>1, <2>3, <2>4 DEF HaltRestart, TypeOK
<1>7. CASE HaltNothing
  BY <1>7, ConstantContexts DEF HaltNothing, TypeOK
<1>8. CASE HaltReturn
  <2> DEFINE frame == pcb[cpu.slot].esp
  <2>1. cpu' \in Context
    <3>1. cpu.slot \in Slots
      BY <1>8 DEF HaltReturn, SlotsChosen, SlotChosen, SlotUsed
    <3>2. frame \in Context
      BY <3>1 DEF TypeOK, PCB
    <3> QED
      BY <1>8, <3>2, ReturnsToType DEF HaltReturn
  <2>2. pcb' \in [Slots -> PCB]
    BY <1>8, ConstantContexts DEF HaltReturn, TypeOK, PCB
  <2> QED
    BY <1>8, <2>1, <2>2 DEF HaltReturn, TypeOK
<1> QED
  BY <1>5, <1>6, <1>7, <1>8 DEF HaltCall

LEMMA OtherEntriesType ==
  TypeOK /\ (CallExecute \/ Vidmap \/ RaiseException
             \/ \E t \in Terminals : PressAltFn(t)) => TypeOK'
<1> USE DEF termVars, procVars, memVars
<1>1. ASSUME TypeOK, CallExecute PROVE TypeOK'
  <2>1. Ctx("check", "user", cpu.proc, tss_esp0) \in Context
    BY <1>1, CtxType DEF TypeOK, Context, Points, ExecPoints, Callers
  <2> QED
    BY <1>1, <2>1, PcbOnEntryType DEF CallExecute, TypeOK
<1>2. ASSUME TypeOK, Vidmap PROVE TypeOK'
  <2>1. RunningPage \in 0 .. NT
    BY <1>2, TargetType DEF RunningPage, TypeOK
  <2> QED
    BY <1>2, <2>1, PcbOnEntryType DEF Vidmap, TypeOK
<1>3. ASSUME TypeOK, RaiseException PROVE TypeOK'
  BY <1>3, ConstantContexts DEF RaiseException, TypeOK
<1>4. ASSUME TypeOK, NEW t \in Terminals, PressAltFn(t) PROVE TypeOK'
  BY <1>4, PcbOnEntryType DEF PressAltFn, TypeOK, Terminals
<1> QED
  BY <1>1, <1>2, <1>3, <1>4

-----------------------------------------------------------------------------
(* The slot a call works on *)

LEMMA SlotsChosenInit == Init => SlotsChosen
  BY DEF Init, SlotsChosen, SlotChosen, SlotUsed, Ctx, Garbage

\* A kernel entry only turns saved contexts into garbage.
LEMMA EntryKeepsChosen ==
  ASSUME TypeOK, SlotsChosen, NEW s \in Slots
  PROVE  SlotChosen(PcbOnEntry[s].ebp_scheduler)
<1>1. SlotChosen(Garbage) /\ SlotChosen(pcb[s].ebp_scheduler)
  BY DEF SlotsChosen, SlotChosen, SlotUsed, Garbage, Ctx
<1>2. PcbOnEntry[s].ebp_scheduler \in {Garbage, pcb[s].ebp_scheduler}
  BY DEF PcbOnEntry, ScrubStack, TypeOK, PCB
<1> QED
  BY <1>1, <1>2

LEMMA SaveKeepsChosen ==
  ASSUME TypeOK, SlotsChosen, NEW p \in Slots, NEW s \in Slots
  PROVE  SlotChosen(SaveInto(p)[s].ebp_scheduler)
<1>1. SlotChosen(Interrupted)
  <2>1. CASE cpu.at = "user"
    BY <2>1 DEF Interrupted, User, Ctx, SlotChosen, SlotUsed
  <2>2. CASE cpu.at # "user"
    BY <2>2 DEF Interrupted, SlotsChosen
  <2> QED
    BY <2>1, <2>2
<1>2. PcbOnEntry \in [Slots -> PCB]
  BY PcbOnEntryType
<1>3. SaveInto(p)[s].ebp_scheduler = IF s = p THEN Interrupted
                                     ELSE PcbOnEntry[s].ebp_scheduler
  BY <1>2 DEF SaveInto, PCB
<1> QED
  BY <1>1, <1>3, EntryKeepsChosen

LEMMA UnderTickChosen ==
  ASSUME TypeOK, SlotsChosen, NEW k
  PROVE  \A c \in UnderTick(k) : SlotChosen(c)
<1>1. SlotChosen(Wild) /\ \A p \in SlotsOrNone : SlotChosen(User(p))
  BY DEF SlotChosen, SlotUsed, Wild, User, Ctx
<1>2. \A q \in Slots : /\ SlotChosen(pcb[q].ebp_scheduler)
                       /\ pcb[q].ebp_scheduler.proc \in SlotsOrNone
  BY DEF SlotsChosen, TypeOK, PCB, Context
<1>3. ASSUME NEW c, SlotChosen(c), c.proc \in SlotsOrNone PROVE SlotChosen(Resume(c))
  BY <1>1, <1>3 DEF Resume
<1> QED
  BY <1>2, <1>3 DEF UnderTick, SavedOn

LEMMA ReturnsToChosen ==
  ASSUME TypeOK, SlotsChosen, NEW q \in Slots
  PROVE  \A c \in ReturnsTo(pcb[q].esp) : SlotChosen(c)
<1> DEFINE frame == pcb[q].esp
<1>1. frame.stk \in SlotsOrNone /\ frame.proc \in SlotsOrNone
  BY DEF TypeOK, PCB, Context
<1>2. SlotChosen(Wild) /\ \A p \in SlotsOrNone : SlotChosen(User(p))
  BY DEF SlotChosen, SlotUsed, Wild, User, Ctx
<1>3. frame.stk # NoProc
        => SlotChosen([Ctx("hret", "halt", NoProc, frame.stk) EXCEPT !.slot = frame.stk])
  BY <1>1, SlotsInRange DEF SlotChosen, Ctx
<1> QED
  BY <1>1, <1>2, <1>3, UnderTickChosen DEF ReturnsTo

LEMMA SlotsChosenStep == TypeOK /\ SlotsChosen /\ [Next]_vars => SlotsChosen'
<1> SUFFICES ASSUME TypeOK, SlotsChosen, [Next]_vars PROVE SlotsChosen'
  OBVIOUS
<1> USE DEF termVars, procVars, memVars
<1>a. SlotChosen(Fault) /\ SlotChosen(Wild) /\ SlotChosen(Garbage)
  BY DEF SlotChosen, SlotUsed, Fault, Wild, Garbage, Ctx
<1>b. \A p \in SlotsOrNone : SlotChosen(User(p))
  BY DEF SlotChosen, SlotUsed, User, Ctx
<1>c. \A s \in Slots : /\ SlotChosen(pcb[s].ebp_scheduler)
                       /\ SlotChosen(PcbOnEntry[s].ebp_scheduler)
  BY EntryKeepsChosen DEF SlotsChosen
<1>d. cpu \in Context /\ cpu.proc \in SlotsOrNone
  BY DEF TypeOK, Context
<1>1. CASE PitStartShell
  <2>1. \A s \in Slots : SlotChosen(pcb'[s].ebp_scheduler)
    BY <1>1, <1>c, SaveKeepsChosen, SlotsInRange
    DEF PitStartShell, FaultOnPcb0, TypeOK
  <2>2. SlotChosen(Ctx("check", "boot", NoProc, EntryStack))
    BY DEF SlotChosen, SlotUsed, Ctx
  <2> QED
    BY <1>1, <1>a, <2>1, <2>2 DEF PitStartShell, FaultOnPcb0, SlotsChosen
<1>2. CASE PitFinishBoot
  BY <1>2, <1>c DEF PitFinishBoot, SlotsChosen
<1>3. CASE PitSwitch
  <2> DEFINE from == htp[curr_scheduled]
             to   == htp[NextScheduled]
  <2>1. from \in SlotsOrNone /\ to \in SlotsOrNone
    BY NextScheduledType DEF TypeOK
  <2>2. CASE from # NoProc /\ to # NoProc
    <3>1. from \in Slots /\ to \in Slots
      BY <2>1, <2>2, SlotsInRange
    <3> DEFINE saved == SaveInto(from)
    <3>2. saved \in [Slots -> PCB]
      BY <3>1, SaveIntoType
    <3>3. /\ cpu' = Resume(saved[to].ebp_scheduler)
          /\ pcb' = [saved EXCEPT ![to].ebp_scheduler = Garbage]
      BY <1>3, <2>2 DEF PitSwitch
    <3>4. \A s \in Slots : SlotChosen(saved[s].ebp_scheduler)
      BY <3>1, SaveKeepsChosen
    <3>5. saved[to].ebp_scheduler \in Context
      BY <3>1, <3>2 DEF PCB
    <3>6. SlotChosen(cpu')
      BY <1>a, <1>b, <3>1, <3>3, <3>4, <3>5 DEF Resume, Context
    <3>7. ASSUME NEW s \in Slots
          PROVE  pcb'[s].ebp_scheduler = IF s = to THEN Garbage
                                         ELSE saved[s].ebp_scheduler
      BY <3>1, <3>2, <3>3 DEF PCB
    <3>8. \A s \in Slots : SlotChosen(pcb'[s].ebp_scheduler)
      BY <1>a, <3>4, <3>7
    <3> QED
      BY <3>6, <3>8 DEF SlotsChosen
  <2>3. CASE from = NoProc \/ to = NoProc
    <3>1. pcb' = PcbOnEntry /\ cpu' = Fault
      BY <1>3, <2>3 DEF PitSwitch, FaultOnPcb0
    <3> QED
      BY <1>a, <1>c, <3>1 DEF SlotsChosen
  <2> QED
    BY <2>2, <2>3
<1>4. CASE CallExecute
  BY <1>4, <1>c DEF CallExecute, SlotsChosen, SlotChosen, SlotUsed, Ctx
<1>5. CASE ExecuteStep
  <2>1. \A v \in Int : ReturnValue(v) => SlotChosen(cpu')
    BY DEF ReturnValue, SlotChosen, SlotUsed, User, Wild, Ctx
  <2>2. ASSUME NEW point \in Points, cpu' = Goto(point), cpu.slot \in Slots
        PROVE  SlotChosen(cpu')
    BY <2>2, <1>d DEF Goto, SlotChosen, SlotUsed, Context
  <2>3. CASE ExecuteRefused \/ ExecuteFails
    <3>1. CASE \E v \in Int : ReturnValue(v)
      BY <1>c, <2>1, <3>1 DEF ReturnValue, SlotsChosen
    <3>2. CASE ReturnToTick
      BY <1>a, <1>c, <3>2, UnderTickChosen, PopTickType DEF ReturnToTick, SlotsChosen
    <3>3. CASE ReturnToHalt
      <4>1. cpu.slot \in Slots
        BY <2>3, <3>3 DEF ExecuteRefused, ExecuteFails, ReturnToHalt, ReturnValue,
                          SlotsChosen, SlotChosen, SlotUsed
      <4> QED
        BY <1>c, <2>2, <3>3, <4>1, PointsType DEF ReturnToHalt, SlotsChosen
    <3>4. 0 \in Int /\ -1 \in Int
      OBVIOUS
    <3> QED
      BY <2>3, <3>1, <3>2, <3>3, <3>4 DEF ExecuteRefused, ExecuteFails
  <2>4. CASE ExecuteFound \/ ExecuteReadCount \/ ExecuteWriteCount
             \/ ExecuteCountTerminal
    BY <1>c, <1>d, <2>4
    DEF ExecuteFound, ExecuteReadCount, ExecuteWriteCount, ExecuteCountTerminal, Goto, SlotsChosen,
        SlotChosen, SlotUsed, Context
  <2>5. CASE ExecuteScan
    BY <1>a, <1>c, <1>d, <2>5 DEF ExecuteScan, SlotsChosen, SlotChosen, SlotUsed, Context
  <2>6. CASE ExecuteMark \/ ExecutePage \/ ExecuteLoad \/ ExecuteParent
             \/ ExecuteHtp \/ ExecuteSetup
    <3>1. cpu.slot \in Slots
      BY <2>6 DEF ExecuteMark, ExecutePage, ExecuteLoad, ExecuteParent,
                  ExecuteHtp, ExecuteSetup, SlotsChosen, SlotChosen, SlotUsed
    <3>2. {"page", "load", "parent", "htp", "setup", "switch"} \subseteq Points
      BY DEF Points, ExecPoints
    <3>3. SlotChosen(cpu')
      BY <2>2, <2>6, <3>1, <3>2
      DEF ExecuteMark, ExecutePage, ExecuteLoad, ExecuteParent, ExecuteHtp,
          ExecuteSetup
    <3>4. \A s \in Slots : pcb'[s].ebp_scheduler = pcb[s].ebp_scheduler
      BY <2>6, <3>1 DEF ExecuteMark, ExecutePage, ExecuteLoad, ExecuteParent,
                        ExecuteHtp, ExecuteSetup, TypeOK, PCB
    <3> QED
      BY <1>c, <3>3, <3>4 DEF SlotsChosen
  <2>7. CASE ExecuteSwitch
    BY <1>c, <2>7 DEF ExecuteSwitch, SlotsChosen, SlotChosen, SlotUsed, User, Ctx
  <2> QED
    BY <1>5, <2>3, <2>4, <2>5, <2>6, <2>7 DEF ExecuteStep
<1>6. CASE HaltToParent
  <2>1. ToHalt \in Slots
    BY <1>6, SlotsInRange DEF HaltToParent, ToHalt, TypeOK
  <2>2. SlotChosen(cpu')
    BY <1>6, <2>1 DEF HaltToParent, SlotChosen, SlotUsed, Ctx
  <2> QED
    BY <1>6, <1>c, <2>2 DEF HaltToParent, SlotsChosen
<1>7. CASE HaltRestart
  <2>1. ToHalt \in Slots
    BY <1>7, SlotsInRange DEF HaltRestart, ToHalt, TypeOK
  <2> QED
    BY <1>7, <1>c, <2>1 DEF HaltRestart, SlotsChosen, SlotChosen, SlotUsed, Ctx
<1>8. CASE HaltNothing \/ RaiseException
  BY <1>8, <1>a, <1>c DEF HaltNothing, RaiseException, SlotsChosen
<1>9. CASE HaltReturn
  <2>0. cpu.slot \in Slots
    BY <1>9 DEF HaltReturn, SlotsChosen, SlotChosen, SlotUsed
  <2>1. SlotChosen(cpu')
    BY <1>9, <2>0, ReturnsToChosen DEF HaltReturn, SlotChosen, SlotUsed, User, Ctx
  <2>2. \A s \in Slots : pcb'[s].ebp_scheduler = pcb[s].ebp_scheduler
    BY <1>9 DEF HaltReturn, TypeOK, PCB
  <2> QED
    BY <1>c, <2>1, <2>2 DEF SlotsChosen
<1>10. CASE Vidmap \/ \E t \in Terminals : PressAltFn(t)
  BY <1>10, <1>c DEF Vidmap, PressAltFn, SlotsChosen
<1>11. CASE UNCHANGED vars
  BY <1>11 DEF vars, SlotsChosen
<1> QED
  BY <1>1, <1>2, <1>3, <1>4, <1>5, <1>6, <1>7, <1>8, <1>9, <1>10, <1>11
  DEF Next, PitHandler, HaltCall

-----------------------------------------------------------------------------
(* The theorems *)

LEMMA TypeStep == TypeOK /\ SlotsChosen /\ [Next]_vars => TypeOK'
<1>1. CASE UNCHANGED vars
  BY <1>1 DEF vars, termVars, procVars, memVars, TypeOK
<1> QED
  BY <1>1, PitHandlerType, ExecuteStepType, HaltType, OtherEntriesType DEF Next

\* Every variable keeps its range, however the timer, the keyboard and the
\* programs interleave, and the PCB that execute and halt index is one of the
\* table or the one right behind it, never a further one.
THEOREM TypeCorrect == Spec => [](TypeOK /\ SlotsChosen)
<1>1. Init => TypeOK /\ SlotsChosen
  BY TypeInit, SlotsChosenInit
<1>2. TypeOK /\ SlotsChosen /\ [Next]_vars => (TypeOK /\ SlotsChosen)'
  BY TypeStep, SlotsChosenStep
<1> QED
  BY <1>1, <1>2, PTL DEF Spec

\* The video page follows the scheduled terminal: no step of a booted system
\* leaves a background program drawing on the display or the displayed one
\* drawing off it, unless that step ends in an exception handler.
THEOREM VideoFollowsTheSchedule == Spec => VideoMappingKept
<1> DEFINE Kept == Booted /\ VideoMapped => (cpu.at = "fault" \/ VideoMapped)'
<1> USE DEF termVars, procVars, memVars, VideoMapped
<1>1. ASSUME TypeOK, [Next]_vars, Booted, VideoMapped
      PROVE  (cpu.at = "fault" \/ VideoMapped)'
  <2>1. total_terminal > NT /\ ~(total_terminal < NT) /\ total_terminal # NT
    BY <1>1 DEF Booted, TypeOK
  <2>2. CASE PitHandler
    <3>1. PitSwitch
      BY <2>1, <2>2 DEF PitHandler, PitStartShell, PitFinishBoot, AllCreated
    <3> QED
      BY <3>1 DEF PitSwitch, PitPrologue, FaultOnPcb0, Fault, Ctx
  <2>3. CASE Vidmap
    BY <2>3 DEF Vidmap, RunningPage
  <2>4. CASE ExecuteStep
    BY <1>1, <2>4
    DEF ExecuteStep, ExecuteRefused, ExecuteFails, ExecuteFound,
        ExecuteReadCount, ExecuteWriteCount, ExecuteCountTerminal, ExecuteScan,
        ExecuteMark, ExecutePage, ExecuteLoad, ExecuteParent, ExecuteHtp,
        ExecuteSetup, ExecuteSwitch
  <2>5. CASE CallExecute \/ HaltCall \/ HaltReturn \/ RaiseException
             \/ (\E t \in Terminals : PressAltFn(t)) \/ UNCHANGED vars
    BY <1>1, <2>5
    DEF CallExecute, HaltCall, HaltToParent, HaltRestart, HaltNothing,
        HaltReturn, RaiseException, PressAltFn, vars
  <2> QED
    BY <1>1, <2>2, <2>3, <2>4, <2>5 DEF Next
<1>2. TypeOK /\ [Next]_vars => [Kept]_vars
  BY <1>1
<1> QED
  BY <1>2, TypeCorrect, PTL DEF Spec, VideoMappingKept

-----------------------------------------------------------------------------
(* The line of a process *)

LEMMA LineContains ==
  ASSUME NEW up, NEW x \in Slots
  PROVE  x \in Line(up, x)
<1>1. x # NoProc /\ x \in Region(up, x)
  BY DEF NoProc, Slots, Region
<1> QED
  BY <1>1 DEF Line

LEMMA LineOfNone ==
  ASSUME NEW up
  PROVE  Line(up, NoProc) = {}
<1>1. /\ {} \in SUBSET Region(up, NoProc)
      /\ ClosedUnder(up, {}) /\ NoProc \in {} \cup {NoProc}
  BY DEF ClosedUnder
<1> QED
  BY <1>1 DEF Line

\* A closed set that holds x holds its line.
LEMMA LineLeast ==
  ASSUME NEW up, NEW x, NEW C \in SUBSET Slots,
         ClosedUnder(up, C), x \in C \cup {NoProc}
  PROVE  Line(up, x) \subseteq C
<1> DEFINE D == C \cap Region(up, x)
<1>1. D \in SUBSET Region(up, x) /\ x \in D \cup {NoProc}
  BY DEF Region
<1>2. ASSUME NEW s \in D PROVE up[s] \in D \cup {NoProc}
  <2>1. up[s] \in C \cup {NoProc} /\ s \in Slots
    BY DEF ClosedUnder
  <2> QED
    BY <2>1 DEF Region
<1>3. ClosedUnder(up, D)
  BY <1>2 DEF ClosedUnder
<1> QED
  BY <1>1, <1>3 DEF Line

LEMMA LineClosed ==
  ASSUME NEW up \in [Slots -> SlotsOrNone], NEW x
  PROVE  /\ Line(up, x) \in SUBSET Slots
         /\ ClosedUnder(up, Line(up, x))
<1>1. Line(up, x) \in SUBSET Slots
  BY DEF Line, Region
<1>2. ASSUME NEW s \in Line(up, x), up[s] # NoProc
      PROVE  up[s] \in Line(up, x)
  <2>1. s \in Slots /\ up[s] \in Region(up, x)
    BY <1>1, <1>2, SlotsInRange DEF Region
  <2>2. ASSUME NEW C \in SUBSET Region(up, x), ClosedUnder(up, C), x \in C \cup {NoProc}
        PROVE  up[s] \in C
    <3>1. s \in C
      BY <2>2, LineLeast DEF Region
    <3> QED
      BY <1>2, <2>2, <3>1 DEF ClosedUnder
  <2> QED
    BY <2>1, <2>2 DEF Line
<1> QED
  BY <1>1, <1>2 DEF ClosedUnder

\* The line of a process is the process and the line of its parent.
LEMMA LineUnfold ==
  ASSUME NEW up \in [Slots -> SlotsOrNone], NEW x \in Slots
  PROVE  Line(up, x) = {x} \cup Line(up, up[x])
<1> DEFINE C == {x} \cup Line(up, up[x])
<1>1. up[x] \in SlotsOrNone
  OBVIOUS
<1>2. /\ Line(up, up[x]) \in SUBSET Slots /\ ClosedUnder(up, Line(up, up[x]))
      /\ Line(up, x) \in SUBSET Slots /\ ClosedUnder(up, Line(up, x))
  BY LineClosed
<1>3. up[x] \in Line(up, up[x]) \cup {NoProc}
  BY <1>1, LineContains, SlotsInRange
<1>4. ClosedUnder(up, C)
  BY <1>2, <1>3 DEF ClosedUnder
<1>5. Line(up, x) \subseteq C
  BY <1>2, <1>4, LineLeast
<1>6. x \in Line(up, x)
  BY LineContains
<1>7. up[x] \in Line(up, x) \cup {NoProc}
  BY <1>2, <1>6 DEF ClosedUnder
<1>8. Line(up, up[x]) \subseteq Line(up, x)
  BY <1>2, <1>7, LineLeast
<1> QED
  BY <1>5, <1>6, <1>8

\* The line of a member of a line is part of it.
LEMMA LineNested ==
  ASSUME NEW up \in [Slots -> SlotsOrNone], NEW x, NEW s \in Line(up, x)
  PROVE  Line(up, s) \subseteq Line(up, x)
  BY LineClosed, LineLeast

\* A line depends only on the parents of its members.
LEMMA LineLocal ==
  ASSUME NEW up \in [Slots -> SlotsOrNone], NEW vp \in [Slots -> SlotsOrNone],
         NEW x \in SlotsOrNone, \A s \in Line(up, x) : vp[s] = up[s]
  PROVE  Line(vp, x) = Line(up, x)
<1> DEFINE A == Line(up, x)
           B == Line(vp, x)
<1>1. /\ A \in SUBSET Slots /\ ClosedUnder(up, A)
      /\ B \in SUBSET Slots /\ ClosedUnder(vp, B)
  BY LineClosed
<1>2. x \in A \cup {NoProc} /\ x \in B \cup {NoProc}
  BY LineContains, SlotsInRange
<1>3. ClosedUnder(vp, A)
  BY <1>1 DEF ClosedUnder
<1>4. B \subseteq A
  BY <1>1, <1>2, <1>3, LineLeast
<1>5. ClosedUnder(up, B)
  BY <1>1, <1>4 DEF ClosedUnder
<1>6. A \subseteq B
  BY <1>1, <1>2, <1>5, LineLeast
<1> QED
  BY <1>4, <1>6

\* In a line without cycles the first process is nobody's parent.
LEMMA LineTopIsNoParent ==
  ASSUME NEW up \in [Slots -> SlotsOrNone], NEW x \in Slots,
         x \notin Line(up, up[x]), NEW s \in Line(up, x)
  PROVE  up[s] # x
<1>1. CASE s = x
  <2>1. CASE up[x] = x
    BY <2>1, LineContains
  <2> QED
    BY <1>1, <2>1
<1>2. CASE s # x
  <2>1. s \in Line(up, up[x])
    BY <1>2, LineUnfold
  <2>2. ClosedUnder(up, Line(up, up[x]))
    BY LineClosed
  <2>3. up[s] \in Line(up, up[x]) \cup {NoProc}
    BY <2>1, <2>2 DEF ClosedUnder
  <2> QED
    BY <2>3 DEF NoProc, Slots
<1> QED
  BY <1>1, <1>2

LEMMA ParentsType ==
  ASSUME TypeOK
  PROVE  /\ Parents \in [Slots -> SlotsOrNone]
         /\ \A s \in Slots : Parents[s] = pcb[s].parent
         /\ \A t \in Terminals : htp[t] \in SlotsOrNone
         /\ \A t \in Terminals : Ancestry(t) \in SUBSET Slots
         /\ Live \in SUBSET Slots
<1>1. Parents \in [Slots -> SlotsOrNone]
  BY DEF Parents, TypeOK, PCB
<1>2. \A t \in Terminals : Ancestry(t) \in SUBSET Slots
  BY <1>1, LineClosed DEF Ancestry
<1> QED
  BY <1>1, <1>2 DEF Parents, TypeOK, Live

-----------------------------------------------------------------------------
(* Sets of slots *)

LEMMA SlotSetsFinite ==
  ASSUME NEW S \in SUBSET Slots
  PROVE  IsFiniteSet(S) /\ Cardinality(S) \in Nat
<1>1. IsFiniteSet(Slots)
  BY FS_Interval DEF Slots
<1>2. IsFiniteSet(S)
  BY <1>1, FS_Subset
<1> QED
  BY <1>2, FS_CardinalityType

LEMMA AllSlotsCount == Cardinality(Slots) = MaxProc + 1
  BY FS_Interval DEF Slots

LEMMA TableCount == IsFiniteSet(Table) /\ Cardinality(Table) = MaxProc
  BY FS_Interval DEF Table

\* As many entries as there are in the table are the whole table.
LEMMA FullTable ==
  ASSUME NEW S \in SUBSET Table, Cardinality(S) >= MaxProc
  PROVE  S = Table
<1>1. Cardinality(S) <= Cardinality(Table) /\ (Cardinality(S) = Cardinality(Table) => S = Table)
  BY TableCount, FS_Subset
<1>2. Cardinality(S) \in Nat
  BY TableInRange, SlotSetsFinite
<1> QED
  BY <1>1, <1>2, TableCount

LEMMA AddSlot ==
  ASSUME NEW S \in SUBSET Slots, NEW s, s \notin S
  PROVE  Cardinality(S \cup {s}) = Cardinality(S) + 1
  BY SlotSetsFinite, FS_AddElement

LEMMA RemoveSlot ==
  ASSUME NEW S \in SUBSET Slots, NEW s \in S
  PROVE  Cardinality(S \ {s}) = Cardinality(S) - 1
  BY SlotSetsFinite, FS_RemoveElement

-----------------------------------------------------------------------------
(* Contexts *)

LEMMA CtxFields ==
  \A a, b, p, k :
    /\ Ctx(a, b, p, k).at = a /\ Ctx(a, b, p, k).by = b
    /\ Ctx(a, b, p, k).proc = p /\ Ctx(a, b, p, k).stk = k
    /\ Ctx(a, b, p, k).slot = NoProc
  BY DEF Ctx

LEMMA UserFields ==
  \A p : User(p).at = "user" /\ User(p).proc = p
  BY DEF User, Ctx

LEMMA PlaceFields ==
  ASSUME NEW c
  PROVE  /\ Place(c).at = c.at
         /\ c.at = "user" => Place(c) = User(c.proc)
         /\ c.at # "user" => Place(c) = c
         /\ Place(c).proc = c.proc
  BY UserFields DEF Place

\* The contexts the timer handler stores and loads stand where they stood.
LEMMA PlaceThroughTick ==
  /\ Place(Interrupted) = Place(cpu)
  /\ \A c : c.at # "garbage" => Place(Resume(c)) = Place(c)
<1>1. ASSUME cpu.at = "user" PROVE Place(Interrupted) = Place(cpu)
  <2>1. Interrupted = [User(cpu.proc) EXCEPT !.stk = tss_esp0]
    BY <1>1 DEF Interrupted
  <2>2. Interrupted.at = "user" /\ Interrupted.proc = cpu.proc
    BY <2>1 DEF User, Ctx
  <2> QED
    BY <1>1, <2>2 DEF Place
<1>2. ASSUME cpu.at # "user" PROVE Place(Interrupted) = Place(cpu)
  BY <1>2 DEF Interrupted
<1>3. ASSUME NEW c, c.at # "garbage" PROVE Place(Resume(c)) = Place(c)
  <2>1. CASE c.at = "user"
    <3>1. Resume(c) = User(c.proc)
      BY <2>1 DEF Resume
    <3> QED
      BY <2>1, <3>1, UserFields DEF Place
  <2>2. CASE c.at # "user"
    <3>1. Resume(c) = c
      BY <1>3, <2>2 DEF Resume
    <3> QED
      BY <3>1
  <2> QED
    BY <2>1, <2>2
<1> QED
  BY <1>1, <1>2, <1>3

LEMMA PointsApart ==
  /\ {"user", "idle", "hret", "parked", "garbage", "fault", "wild"} \cap ExecPoints = {}
  /\ ExecPoints = Early \cup Late
  /\ Counted \subseteq Early /\ Marked \subseteq Counted
  /\ Mapped \subseteq ExecPoints
  BY DEF ExecPoints, Early, Late, Counted, Marked, Mapped

LEMMA GotoFields ==
  ASSUME TypeOK, NEW a
  PROVE  /\ Goto(a).at = a /\ Goto(a).by = cpu.by /\ Goto(a).proc = cpu.proc
         /\ Goto(a).stk = cpu.stk /\ Goto(a).slot = cpu.slot
         /\ Goto(a).eax = cpu.eax
  BY DEF Goto, TypeOK, Context

-----------------------------------------------------------------------------
(* What the invariant says of the running context *)

LEMMA StartedTerminals ==
  ASSUME TypeOK, SessionInv, total_terminal # 0
  PROVE  curr_scheduled \in Started /\ curr_terminal \in Started
<1>1. Booted => \A t \in Terminals : t \in Started
  BY DEF TypeOK, Booted, Started, Terminals
<1>2. ~Booted => curr_scheduled = total_terminal /\ curr_terminal = total_terminal
  BY DEF SessionInv, BootInOrder
<1>3. curr_scheduled \in Terminals /\ curr_terminal \in Terminals
  BY DEF TypeOK
<1>4. ~Booted => curr_scheduled <= total_terminal /\ curr_terminal <= total_terminal
  BY <1>2 DEF TypeOK
<1> QED
  BY <1>1, <1>3, <1>4 DEF Started

LEMMA StandingHere == Standing(curr_scheduled) = Place(cpu)
  BY DEF Standing

LEMMA StandingThere ==
  ASSUME NEW t, t # curr_scheduled
  PROVE  Standing(t) = Place(pcb[htp[t]].ebp_scheduler)
  BY DEF Standing

LEMMA Here ==
  ASSUME TypeOK, SessionInv, cpu.at # "idle"
  PROVE  /\ total_terminal # 0
         /\ curr_scheduled \in Started /\ curr_terminal \in Started
         /\ StandsAt(curr_scheduled, Place(cpu))
         /\ cpu.at \in {"user", "hret"} \cup ExecPoints
<1>1. total_terminal # 0
  BY DEF SessionInv, BootInOrder
<1>2. curr_scheduled \in Started /\ curr_terminal \in Started
  BY <1>1, StartedTerminals
<1>3. StandsAt(curr_scheduled, Place(cpu))
  BY <1>2, StandingHere DEF SessionInv, StandingWell
<1>4. Place(cpu).at = cpu.at
  BY PlaceFields
<1> QED
  BY <1>1, <1>2, <1>3, <1>4 DEF StandsAt

LEMMA HereUser ==
  ASSUME TypeOK, SessionInv, cpu.at = "user"
  PROVE  /\ total_terminal # 0
         /\ curr_scheduled \in Started /\ curr_terminal \in Started
         /\ cpu.proc \in Slots /\ htp[curr_scheduled] = cpu.proc
         /\ page32 = cpu.proc /\ tss_esp0 = cpu.proc
         /\ cpu.proc \in Ancestry(curr_scheduled)
         /\ image[cpu.proc] = cpu.proc
         /\ Installed(cpu.proc)
         /\ Standing(curr_scheduled) = User(cpu.proc)
<1>1. /\ total_terminal # 0
      /\ curr_scheduled \in Started /\ curr_terminal \in Started
      /\ StandsAt(curr_scheduled, Place(cpu))
  BY Here
<1>2. Place(cpu) = User(cpu.proc)
  BY PlaceFields
<1>3. htp[curr_scheduled] = cpu.proc /\ cpu.proc # NoProc
  BY <1>1, <1>2, UserFields DEF StandsAt
<1>4. curr_scheduled \in Terminals
  BY DEF TypeOK
<1>5. cpu.proc \in Slots
  BY <1>3, <1>4, SlotsInRange DEF TypeOK
<1>6. cpu.proc \in Ancestry(curr_scheduled)
  BY <1>3, <1>5, LineContains DEF Ancestry
<1>7. page32 = cpu.proc /\ tss_esp0 = cpu.proc
  BY DEF SessionInv, CpuInPlace
<1>8. Standing(curr_scheduled).at = "user"
  BY <1>2, StandingHere, UserFields
<1>9. image[cpu.proc] = cpu.proc /\ Installed(cpu.proc)
  BY <1>4, <1>6, <1>8 DEF SessionInv, ProgramsInPlace
<1> QED
  BY <1>1, <1>2, <1>3, <1>5, <1>6, <1>7, <1>9, StandingHere

LEMMA HereExec ==
  ASSUME TypeOK, SessionInv, cpu.at \in ExecPoints
  PROVE  /\ total_terminal # 0
         /\ curr_scheduled \in Started /\ curr_terminal = curr_scheduled
         /\ switch_flag = 0
         /\ Call = cpu
         /\ StandsAt(curr_scheduled, cpu)
         /\ ClaimsOf(cpu)
<1>1. cpu.at # "idle" /\ cpu.at # "user"
  BY PointsApart
<1>2. Place(cpu) = cpu
  BY <1>1, PlaceFields
<1>3. /\ total_terminal # 0
      /\ curr_scheduled \in Started /\ curr_terminal \in Started
      /\ StandsAt(curr_scheduled, cpu)
  BY <1>1, <1>2, Here
<1>4. curr_terminal = curr_scheduled /\ switch_flag = 0
  BY <1>3 DEF StandsAt
<1>5. Call = cpu
  BY <1>2, <1>4, StandingHere DEF Call
<1> QED
  BY <1>3, <1>4, <1>5 DEF SessionInv, CallClaims

-----------------------------------------------------------------------------
(* What a kernel entry leaves of the saved contexts *)

LEMMA EntryFields ==
  ASSUME TypeOK, NEW s \in Slots
  PROVE  /\ PcbOnEntry[s].parent = pcb[s].parent
         /\ PcbOnEntry[s].esp0 = pcb[s].esp0
         /\ cpu.at # "user" \/ pcb[s].esp.stk # tss_esp0
              => PcbOnEntry[s].esp = pcb[s].esp
         /\ cpu.at # "user" \/ pcb[s].ebp_scheduler.stk # tss_esp0
              => PcbOnEntry[s].ebp_scheduler = pcb[s].ebp_scheduler
<1>1. pcb[s] \in PCB
  BY DEF TypeOK
<1>2. CASE cpu.at # "user"
  BY <1>2 DEF PcbOnEntry
<1>3. CASE cpu.at = "user"
  BY <1>1, <1>3 DEF PcbOnEntry, ScrubStack, PCB
<1> QED
  BY <1>2, <1>3

LEMMA EntryKeepsSaved ==
  ASSUME TypeOK, SessionInv, NEW t \in Started \ {curr_scheduled}
  PROVE  /\ htp[t] \in Slots
         /\ PcbOnEntry[htp[t]].ebp_scheduler = pcb[htp[t]].ebp_scheduler
<1>1. t \in Terminals /\ curr_scheduled \in Terminals
  BY DEF Started, TypeOK
<1>2. SavedAt(t, pcb[htp[t]].ebp_scheduler)
  BY DEF SessionInv, SavedInPlace
<1>3. htp[t] \in Slots
  BY <1>1, <1>2, SlotsInRange DEF SavedAt, TypeOK
<1>4. pcb[htp[t]].ebp_scheduler.stk \notin Ancestry(curr_scheduled)
  BY <1>1, <1>2 DEF SavedAt
<1>5. cpu.at = "user" => tss_esp0 \in Ancestry(curr_scheduled)
  BY HereUser
<1> QED
  BY <1>3, <1>4, <1>5, EntryFields

\* The childmost process of the running terminal is nobody's parent.
LEMMA TopIsNoParent ==
  ASSUME TypeOK, SessionInv, NEW t \in Terminals, NEW s \in Ancestry(t),
         NEW u \in Terminals, htp[u] \in Slots
  PROVE  Parents[s] # htp[u]
<1>1. /\ Parents \in [Slots -> SlotsOrNone]
      /\ Ancestry(t) \in SUBSET Slots
      /\ htp[t] \in SlotsOrNone
  BY ParentsType
<1>2. htp[u] \in Ancestry(u)
  BY LineContains DEF Ancestry
<1>3. CASE t = u
  <2>1. htp[u] \notin Line(Parents, Parents[htp[u]])
    BY <1>2 DEF SessionInv, LinesApart
  <2> QED
    BY <1>1, <1>3, <2>1, LineTopIsNoParent DEF Ancestry
<1>4. CASE t # u
  <2>1. Parents[s] \in Ancestry(t) \cup {NoProc}
    BY <1>1, LineClosed DEF Ancestry, ClosedUnder
  <2>2. htp[u] \notin Ancestry(t)
    BY <1>2, <1>4 DEF SessionInv, LinesApart
  <2> QED
    BY <2>1, <2>2 DEF Slots, NoProc
<1> QED
  BY <1>3, <1>4

LEMMA EntryKeepsFrame ==
  ASSUME TypeOK, SessionInv, NEW t \in Terminals, NEW s \in Ancestry(t),
         pcb[s].parent # NoProc, pcb[s].esp = Frame(pcb[s].parent)
  PROVE  PcbOnEntry[s].esp = Frame(pcb[s].parent)
<1>1. s \in Slots /\ Parents[s] = pcb[s].parent
  BY ParentsType
<1>2. pcb[s].esp.stk = pcb[s].parent
  BY CtxFields DEF Frame
<1>3. cpu.at = "user" => /\ curr_scheduled \in Terminals
                         /\ htp[curr_scheduled] \in Slots
                         /\ tss_esp0 = htp[curr_scheduled]
  BY HereUser DEF TypeOK
<1>4. cpu.at = "user" => pcb[s].parent # tss_esp0
  BY <1>1, <1>3, TopIsNoParent
<1> QED
  BY <1>1, <1>2, <1>4, EntryFields

LEMMA EntryKeepsInstalled ==
  ASSUME TypeOK, SessionInv, NEW s \in Live, Installed(s)
  PROVE  /\ PcbOnEntry[s].esp0 = s
         /\ PcbOnEntry[s].parent # NoProc
              => PcbOnEntry[s].esp = Frame(PcbOnEntry[s].parent)
<1>1. PICK t \in Terminals : s \in Ancestry(t)
  BY DEF Live
<1>2. s \in Slots
  BY ParentsType
<1> QED
  BY <1>1, <1>2, EntryFields, EntryKeepsFrame DEF Installed

LEMMA EntryKeepsParents ==
  ASSUME TypeOK, pcb' = PcbOnEntry
  PROVE  Parents' = Parents
  BY EntryFields DEF Parents

-----------------------------------------------------------------------------
(* Steps that move no process *)

\* Facts about two states that agree on the lines.
LEMMA SameLines ==
  ASSUME htp' = htp, Parents' = Parents
  PROVE  /\ \A t \in Terminals : Ancestry(t)' = Ancestry(t)
         /\ Live' = Live
         /\ LinesApart => LinesApart'
<1>1. \A t \in Terminals : Ancestry(t)' = Ancestry(t)
  BY DEF Ancestry
<1>2. Live' = Live
  BY <1>1 DEF Live
<1>3. LinesApart => LinesApart'
  BY <1>1 DEF LinesApart
<1> QED
  BY <1>1, <1>2, <1>3

LEMMA SameParent ==
  ASSUME Parents' = Parents, NEW s \in Slots
  PROVE  pcb'[s].parent = pcb[s].parent
  BY DEF Parents

\* A step that leaves every terminal at the context it stood at, and gives the
\* screen away only while no execute is under way.
LEMMA QuietStep ==
  ASSUME TypeOK, TypeOK', SessionInv, total_terminal # 0,
         Started' = Started,
         UNCHANGED procVars, UNCHANGED image, Parents' = Parents,
         \A t \in Started : Standing(t)' = Standing(t),
         \A t \in Terminals : \A s \in Ancestry(t) :
            Installed(s) /\ ~(s = htp[t] /\ Standing(t).at = "setup")
              => Installed(s)',
         \/ UNCHANGED <<curr_terminal, switch_flag>>
         \/ curr_terminal' \in Started
            /\ \A t \in Started : Standing(t).at \notin ExecPoints
  PROVE  /\ LinesApart' /\ StandingWell' /\ CallClaims'
         /\ ProgramsInPlace' /\ SlotsCounted'
<1>1. htp' = htp
  BY DEF procVars
<1>2. /\ \A t \in Terminals : Ancestry(t)' = Ancestry(t)
      /\ Live' = Live
      /\ LinesApart'
  BY <1>1, SameLines DEF SessionInv
<1>3. curr_terminal \in Started /\ curr_terminal' \in Started
  BY StartedTerminals
<1>4. \/ UNCHANGED <<curr_terminal, switch_flag>> /\ Call' = Call
      \/ Call.at \notin ExecPoints /\ Call'.at \notin ExecPoints
  <2>1. \A t \in Started : t = curr_terminal' => Call' = Standing(t)
    BY DEF Call, Standing
  <2> QED
    BY <1>3, <2>1 DEF Call
<1>5. StandingWell'
  <2>1. ASSUME NEW t \in Started
        PROVE  StandsAt(t, Standing(t))'
    <3>1. StandsAt(t, Standing(t)) /\ Standing(t)' = Standing(t)
      BY DEF SessionInv, StandingWell
    <3>2. CASE UNCHANGED <<curr_terminal, switch_flag>>
      BY <1>1, <3>1, <3>2 DEF StandsAt
    <3>3. CASE Standing(t).at \notin ExecPoints
      BY <1>1, <3>1, <3>3, PointsApart DEF StandsAt
    <3> QED
      BY <3>2, <3>3
  <2> QED
    BY <2>1 DEF StandingWell
<1>6. CallClaims'
  <2>1. ClaimsOf(Call)
    BY DEF SessionInv, CallClaims
  <2>2. CASE Call' = Call
    BY <1>2, <2>1, <2>2 DEF CallClaims, ClaimsOf, procVars
  <2>3. CASE Call'.at \notin ExecPoints
    BY <2>3 DEF CallClaims, ClaimsOf, ExecPoints, Marked
  <2> QED
    BY <1>4, <2>2, <2>3
<1>7. ProgramsInPlace'
  <2>1. ASSUME NEW t \in Terminals, NEW s \in Ancestry(t)
        PROVE  /\ image'[s] = s
               /\ (s = htp'[t] /\ Standing(t)'.at = "setup") \/ Installed(s)'
    <3>1. /\ image[s] = s
          /\ (s = htp[t] /\ Standing(t).at = "setup") \/ Installed(s)
      BY DEF SessionInv, ProgramsInPlace
    <3>2. t \notin Started => Ancestry(t) = {}
      BY LineOfNone DEF SessionInv, BootInOrder, Ancestry
    <3> QED
      BY <1>1, <3>1, <3>2
  <2> QED
    BY <1>2, <2>1 DEF ProgramsInPlace
<1>8. SlotsCounted'
  <2>1. CASE UNCHANGED curr_terminal /\ Call' = Call
    BY <1>2, <2>1 DEF SessionInv, SlotsCounted, procVars
  <2>2. CASE Call.at \notin ExecPoints /\ Call'.at \notin ExecPoints
    <3>1. /\ Call.at \notin Marked /\ Call'.at \notin Marked
          /\ Call.at \notin Counted /\ Call'.at \notin Counted
          /\ Call.at \notin {"perterm", "scan", "mark"}
          /\ Call'.at \notin {"perterm", "scan", "mark"}
      BY <2>2 DEF ExecPoints, Marked, Counted
    <3> QED
      BY <1>2, <3>1 DEF SessionInv, SlotsCounted, procVars
  <2> QED
    BY <1>4, <2>1, <2>2
<1> QED
  BY <1>2, <1>5, <1>6, <1>7, <1>8

\* A saved context stays in place when no process changes terminal.
LEMMA SavedStays ==
  ASSUME TypeOK, htp' = htp, Parents' = Parents, NEW t \in Terminals, NEW c,
         SavedAt(t, c)
  PROVE  SavedAt(t, c)'
  BY SameLines DEF SavedAt

\* A kernel entry from user mode that changes no process: Alt-Fn, vidmap, the
\* tick that ends the boot.
LEMMA EntryStep ==
  ASSUME TypeOK, TypeOK', SessionInv, cpu.at = "user",
         pcb' = PcbOnEntry, Started' = Started,
         UNCHANGED <<cpu, curr_scheduled, procVars, page32, tss_esp0, image>>,
         \/ UNCHANGED <<curr_terminal, switch_flag>>
         \/ curr_terminal' \in Started
            /\ \A t \in Started : Standing(t).at \notin ExecPoints,
         BootInOrder'
  PROVE  SessionInv'
<1>1. htp' = htp /\ Parents' = Parents
  BY EntryKeepsParents DEF procVars
<1>2. total_terminal # 0 /\ curr_scheduled \in Started
  BY HereUser
<1>3. ASSUME NEW t \in Started \ {curr_scheduled}
      PROVE  pcb'[htp[t]].ebp_scheduler = pcb[htp[t]].ebp_scheduler
  BY <1>3, EntryKeepsSaved
<1>4. \A t \in Started : Standing(t)' = Standing(t)
  BY <1>1, <1>3 DEF Standing
<1>5. \A t \in Terminals : \A s \in Ancestry(t) : Installed(s) => Installed(s)'
  BY EntryKeepsInstalled DEF Installed, Live
<1>6. /\ LinesApart' /\ StandingWell' /\ CallClaims'
      /\ ProgramsInPlace' /\ SlotsCounted'
  BY <1>1, <1>2, <1>4, <1>5, QuietStep
<1>7. CpuInPlace'
  <2>1. cpu'.at = "user" /\ page32' = cpu'.proc /\ tss_esp0' = cpu'.proc
    BY HereUser
  <2> QED
    BY <2>1 DEF CpuInPlace, Early, Mapped, ExecPoints
<1>8. SavedInPlace'
  <2>1. ASSUME NEW t \in Started \ {curr_scheduled}
        PROVE  SavedAt(t, pcb[htp[t]].ebp_scheduler)'
    <3>1. SavedAt(t, pcb[htp[t]].ebp_scheduler) /\ t \in Terminals
      BY DEF SessionInv, SavedInPlace, Started
    <3>2. \A c : SavedAt(t, c) => SavedAt(t, c)'
      BY <1>1, <3>1, SavedStays
    <3>3. PICK c : c = pcb[htp[t]].ebp_scheduler
      OBVIOUS
    <3>4. SavedAt(t, c)'
      BY <3>1, <3>2, <3>3
    <3> QED
      BY <1>1, <1>3, <3>3, <3>4 DEF SavedAt
  <2> QED
    BY <1>1, <2>1 DEF SavedInPlace
<1> QED
  BY <1>6, <1>7, <1>8 DEF SessionInv

\* A careful tick or Alt-Fn finds the boot execute finished.
LEMMA CarefulTick ==
  ASSUME Careful, TypeOK, SessionInv, Interruptible
  PROVE  /\ cpu.at \in {"idle", "user"} \/ <<cpu.by, cpu.at>> \in SafePoints
         /\ ~Booted => cpu.at \in {"idle", "user"}
<1>1. cpu.at \in {"idle", "user"} \/ <<cpu.by, cpu.at>> \in SafePoints
  BY DEF Careful, Interruptible
<1>2. <<cpu.by, cpu.at>> \in SafePoints => cpu.by # "boot" /\ cpu.at \notin {"idle", "user"}
  BY DEF SafePoints
<1> QED
  BY <1>1, <1>2 DEF SessionInv, BootInOrder

LEMMA PressAltFnInv ==
  ASSUME Careful, TypeOK, TypeOK', SessionInv, NEW k \in Terminals, PressAltFn(k)
  PROVE  SessionInv'
<1>1. Booted /\ ~ExecuteUnderWay
  BY DEF PressAltFn, BootDone, Careful, Booted
<1>2. total_terminal # 0
  BY <1>1 DEF Booted, TypeOK
<1>3. cpu.at = "user"
  <2>1. cpu.at # "idle"
    BY <1>2 DEF SessionInv, BootInOrder
  <2>2. <<cpu.by, cpu.at>> \in SafePoints => cpu.at \in ExecPoints
    BY DEF SafePoints, ExecPoints
  <2> QED
    BY <1>1, <2>1, <2>2, CarefulTick DEF PressAltFn, ExecuteUnderWay, InExecute
<1>4. Started' = Started
  BY DEF PressAltFn, Started
<1>5. \A t \in Started : Standing(t).at \notin ExecPoints
  <2>1. Standing(curr_scheduled).at = "user"
    BY <1>3, HereUser, UserFields
  <2>2. ASSUME NEW t \in Started, t # curr_scheduled
        PROVE  Standing(t).at \notin ExecPoints
    <3>1. htp[t] \in Slots
      BY <2>2, EntryKeepsSaved
    <3>2. pcb[htp[t]].ebp_scheduler.at \notin ExecPoints
      BY <1>1, <3>1 DEF ExecuteUnderWay, InExecute
    <3> QED
      BY <2>2, <3>2, StandingThere, PlaceFields
  <2> QED
    BY <2>1, <2>2, PointsApart
<1>6. curr_terminal' \in Started
  BY <1>3, HereUser DEF PressAltFn
<1>7. BootInOrder'
  BY <1>1, <1>4 DEF PressAltFn, SessionInv, BootInOrder, Booted, procVars
<1> QED
  BY <1>3, <1>4, <1>5, <1>6, <1>7, EntryStep DEF PressAltFn

LEMMA VidmapInv ==
  ASSUME TypeOK, TypeOK', SessionInv, Vidmap
  PROVE  SessionInv'
<1>1. cpu.at = "user" /\ Started' = Started
  BY DEF Vidmap, Started
<1>2. BootInOrder'
  BY <1>1 DEF Vidmap, SessionInv, BootInOrder, Booted, procVars
<1> QED
  BY <1>1, <1>2, EntryStep DEF Vidmap

LEMMA PitFinishBootInv ==
  ASSUME Careful, TypeOK, TypeOK', SessionInv, PitFinishBoot
  PROVE  SessionInv'
<1>1. total_terminal = NT /\ ~Booted
  BY DEF PitFinishBoot, AllCreated, Booted
<1>2. cpu.at = "user"
  <2>1. cpu.at \in {"idle", "user"}
    BY <1>1, CarefulTick DEF PitFinishBoot, PitPrologue
  <2> QED
    BY <1>1, <2>1 DEF SessionInv, BootInOrder
<1>3. curr_scheduled = NT /\ curr_terminal = NT
  BY <1>1 DEF SessionInv, BootInOrder
<1>4. Started = Terminals /\ Started' = Terminals
  BY <1>1 DEF PitFinishBoot, Started, Terminals
<1>5. \A t \in Started : Standing(t).at \notin ExecPoints
  <2>1. Standing(curr_scheduled).at = "user"
    BY <1>2, HereUser, UserFields
  <2>2. \A t \in Started : Standing(t).at \in ExecPoints => t = curr_terminal
    BY DEF SessionInv, StandingWell, StandsAt
  <2> QED
    BY <1>3, <2>1, <2>2, PointsApart
<1>6. curr_terminal' \in Started
  BY <1>4 DEF PitFinishBoot, Terminals
<1>7. BootInOrder'
  BY <1>1, <1>2, <1>4 DEF PitFinishBoot, SessionInv, BootInOrder, Booted
<1> QED
  BY <1>2, <1>3, <1>4, <1>5, <1>6, <1>7, EntryStep
  DEF PitFinishBoot, PitPrologue

-----------------------------------------------------------------------------
(* The tick of a booted system *)

LEMMA SaveFields ==
  ASSUME TypeOK, NEW p \in Slots, NEW s \in Slots
  PROVE  /\ SaveInto(p)[s].parent = pcb[s].parent
         /\ SaveInto(p)[s].esp = PcbOnEntry[s].esp
         /\ SaveInto(p)[s].esp0 = IF s = p THEN tss_esp0 ELSE pcb[s].esp0
         /\ SaveInto(p)[s].ebp_scheduler = IF s = p THEN Interrupted
                                           ELSE PcbOnEntry[s].ebp_scheduler
<1>1. PcbOnEntry \in [Slots -> PCB]
  BY PcbOnEntryType
<1>2. PcbOnEntry[s] \in PCB
  BY <1>1
<1> QED
  BY <1>2, EntryFields DEF SaveInto, PCB

LEMMA TopsDiffer ==
  ASSUME SessionInv, NEW t \in Terminals, NEW u \in Terminals,
         htp[t] \in Slots, htp[t] = htp[u]
  PROVE  t = u
<1>1. htp[t] \in Ancestry(t) /\ htp[u] \in Ancestry(u)
  BY LineContains DEF Ancestry
<1> QED
  BY <1>1 DEF SessionInv, LinesApart

\* The interrupted context of a terminal is fit to be put away.
LEMMA InterruptedFits ==
  ASSUME Careful, TypeOK, SlotsChosen, SessionInv, Interruptible, cpu.at # "idle"
  PROVE  /\ htp[curr_scheduled] \in Slots
         /\ SavedAt(curr_scheduled, Interrupted)
         /\ cpu.at = "setup" \/ tss_esp0 = htp[curr_scheduled]
<1> DEFINE cs == curr_scheduled
           top == htp[cs]
<1>1. cs \in Terminals /\ top \in SlotsOrNone /\ Parents \in [Slots -> SlotsOrNone]
  BY ParentsType DEF TypeOK
<1>2. CASE cpu.at = "user"
  <2>1. /\ top \in Slots /\ tss_esp0 = top /\ top \in Ancestry(cs)
    BY <1>2, HereUser
  <2>2. Interrupted.at = "user" /\ Interrupted.stk = top
    BY <1>2, <2>1 DEF Interrupted, User, Ctx
  <2>3. \A u \in Terminals \ {cs} : top \notin Ancestry(u)
    BY <1>1, <2>1 DEF SessionInv, LinesApart
  <2> QED
    BY <2>1, <2>2, <2>3 DEF SavedAt, NoProc, Slots
<1>3. CASE cpu.at # "user"
  <2>1. <<cpu.by, cpu.at>> \in SafePoints /\ Interrupted = cpu
    BY <1>3, CarefulTick DEF Interrupted
  <2>2. /\ cpu.at \in {"check", "rdcount", "perterm", "scan", "mark", "page",
                       "setup", "switch"}
        /\ cpu.by = "user" \/ (cpu.by = "halt" /\ cpu.at \in Late)
    BY <2>1 DEF SafePoints, Late
  <2>3. cpu.at \in ExecPoints
    BY <2>2 DEF ExecPoints
  <2>4. StandsAt(cs, cpu) /\ cs \in Started
    BY <2>3, HereExec
  <2>5. CASE cpu.at \in Late
    <3>1. cpu.slot \in Slots /\ cpu.slot = top /\ Parents[top] = cpu.proc
      BY <2>4, <2>5 DEF StandsAt, SlotsChosen, SlotChosen, SlotUsed, Late
    <3>2. cpu.by = "user" => cpu.stk \in Ancestry(cs)
      <4>1. SUFFICES ASSUME cpu.by = "user" PROVE cpu.stk \in Ancestry(cs)
        OBVIOUS
      <4>2. cpu.stk = Parents[top] /\ Parents[top] \in Slots
        BY <1>1, <2>3, <2>4, <3>1, <4>1, SlotsInRange DEF StandsAt
      <4>3. Parents[top] \in Line(Parents, Parents[top])
        BY <4>2, LineContains
      <4> QED
        BY <1>1, <3>1, <4>2, <4>3, LineUnfold DEF Ancestry
    <3>3. cpu.at = "setup" \/ tss_esp0 = top
      BY <2>5, <3>1 DEF SessionInv, CpuInPlace, Late
    <3>4. \A u \in Terminals \ {cs} : cpu.stk \notin Ancestry(u)
      BY <1>1, <2>2, <2>3, <3>2 DEF SessionInv, CpuInPlace, LinesApart
    <3> QED
      BY <2>1, <2>2, <3>1, <3>3, <3>4 DEF SavedAt, NoProc, Slots
  <2>6. CASE cpu.at \in Early
    <3>1. cpu.by = "user"
      BY <2>2, <2>6 DEF Early, Late
    <3>2. cpu.proc = top /\ cpu.stk = top /\ top # NoProc
      BY <2>3, <2>4, <2>6, <3>1 DEF StandsAt
    <3>3. top \in Slots
      BY <1>1, <3>2, SlotsInRange
    <3>4. top \in Ancestry(cs)
      BY <3>3, LineContains DEF Ancestry
    <3>5. tss_esp0 = top
      BY <2>6, <3>1, <3>2 DEF SessionInv, CpuInPlace
    <3>6. \A u \in Terminals \ {cs} : cpu.stk \notin Ancestry(u)
      BY <1>1, <3>2, <3>4 DEF SessionInv, LinesApart
    <3> QED
      BY <2>1, <2>2, <3>2, <3>3, <3>5, <3>6 DEF SavedAt
  <2> QED
    BY <2>3, <2>5, <2>6, PointsApart
<1> QED
  BY <1>2, <1>3

\* What a tick finds in the PCB of a terminal after it has stored its own frame.
LEMMA SavedByTick ==
  ASSUME Careful, TypeOK, SlotsChosen, SessionInv, Interruptible, cpu.at # "idle",
         NEW t \in Started
  PROVE  /\ htp[t] \in Slots
         /\ SavedAt(t, SaveInto(htp[curr_scheduled])[htp[t]].ebp_scheduler)
         /\ Place(SaveInto(htp[curr_scheduled])[htp[t]].ebp_scheduler) = Standing(t)
<1> DEFINE from == htp[curr_scheduled]
<1>1. t \in Terminals /\ curr_scheduled \in Terminals
  BY DEF Started, TypeOK
<1>2. from \in Slots /\ SavedAt(curr_scheduled, Interrupted)
  BY InterruptedFits
<1>3. CASE t = curr_scheduled
  BY <1>2, <1>3, SaveFields, StandingHere, PlaceThroughTick
<1>4. CASE t # curr_scheduled
  <2>1. /\ htp[t] \in Slots
        /\ PcbOnEntry[htp[t]].ebp_scheduler = pcb[htp[t]].ebp_scheduler
    BY <1>4, EntryKeepsSaved
  <2>2. htp[t] # from
    BY <1>1, <1>4, <2>1, TopsDiffer
  <2>3. SaveInto(from)[htp[t]].ebp_scheduler = pcb[htp[t]].ebp_scheduler
    BY <1>2, <2>1, <2>2, SaveFields
  <2>4. SavedAt(t, pcb[htp[t]].ebp_scheduler)
    BY <1>4 DEF SessionInv, SavedInPlace
  <2> QED
    BY <1>4, <2>1, <2>3, <2>4, StandingThere
<1> QED
  BY <1>3, <1>4

\* Storing the frame leaves every process installed that was.
LEMMA SaveKeepsInstalled ==
  ASSUME Careful, TypeOK, SlotsChosen, SessionInv, Interruptible, cpu.at # "idle",
         NEW t \in Terminals, NEW s \in Ancestry(t), Installed(s),
         ~(s = htp[t] /\ Standing(t).at = "setup")
  PROVE  /\ SaveInto(htp[curr_scheduled])[s].esp0 = s
         /\ pcb[s].parent # NoProc => PcbOnEntry[s].esp = Frame(pcb[s].parent)
<1> DEFINE cs   == curr_scheduled
           from == htp[cs]
<1>1. s \in Slots /\ cs \in Terminals
  BY ParentsType DEF TypeOK
<1>2. from \in Slots
  BY InterruptedFits
<1>3. pcb[s].parent # NoProc => PcbOnEntry[s].esp = Frame(pcb[s].parent)
  BY EntryKeepsFrame DEF Installed
<1>4. CASE s = from
  <2>1. s \in Ancestry(cs)
    BY <1>2, <1>4, LineContains DEF Ancestry
  <2>2. t = cs
    BY <1>1, <2>1 DEF SessionInv, LinesApart
  <2>3. Standing(t).at = cpu.at
    BY <2>2, StandingHere, PlaceFields
  <2>4. tss_esp0 = from
    BY <1>4, <2>2, <2>3, InterruptedFits
  <2> QED
    BY <1>1, <1>2, <1>3, <1>4, <2>4, SaveFields
<1>5. CASE s # from
  BY <1>1, <1>2, <1>3, <1>5, SaveFields DEF Installed
<1> QED
  BY <1>4, <1>5

\* The tick finds a process in both terminals.
LEMMA PitSwitchEffect ==
  ASSUME Careful, TypeOK, SlotsChosen, SessionInv, PitSwitch
  PROVE  LET from  == htp[curr_scheduled]
             to    == htp[NextScheduled]
         IN  /\ cpu.at # "idle"
             /\ Started = Terminals
             /\ from \in Slots /\ to \in Slots
             /\ curr_scheduled' = NextScheduled
             /\ page32' = to
             /\ tss_esp0' = SaveInto(from)[to].esp0
             /\ cpu' = Resume(SaveInto(from)[to].ebp_scheduler)
             /\ pcb' = [SaveInto(from) EXCEPT ![to].ebp_scheduler = Garbage]
<1>1. total_terminal > NT
  BY DEF PitSwitch
<1>2. Started = Terminals
  BY <1>1 DEF Started, Terminals, TypeOK
<1>3. cpu.at # "idle"
  BY <1>1 DEF SessionInv, BootInOrder
<1>4. NextScheduled \in Terminals /\ curr_scheduled \in Terminals
  BY NextScheduledType DEF TypeOK
<1>5. htp[curr_scheduled] \in Slots /\ htp[NextScheduled] \in Slots
  BY <1>2, <1>3, <1>4, SavedByTick DEF PitSwitch, PitPrologue
<1>6. htp[curr_scheduled] # NoProc /\ htp[NextScheduled] # NoProc
  BY <1>5 DEF Slots, NoProc
<1> QED
  BY <1>2, <1>3, <1>5, <1>6 DEF PitSwitch

\* A tick moves no terminal from where it stands.
LEMMA PitSwitchStands ==
  ASSUME Careful, TypeOK, SlotsChosen, SessionInv, PitSwitch
  PROVE  /\ Parents' = Parents
         /\ \A t \in Terminals : Standing(t)' = Standing(t)
<1>a. PICK cs \in Terminals : cs = curr_scheduled
  BY DEF TypeOK
<1>b. PICK next \in Terminals : next = NextScheduled
  BY NextScheduledType
<1>c. PICK from : from = htp[cs]
  OBVIOUS
<1>d. PICK to : to = htp[next]
  OBVIOUS
<1> DEFINE saved == SaveInto(from)
           Fetched(t) == saved[htp[t]].ebp_scheduler
<1>1. /\ cpu.at # "idle" /\ Started = Terminals
      /\ from \in Slots /\ to \in Slots
      /\ curr_scheduled' = next
      /\ cpu' = Resume(saved[to].ebp_scheduler)
      /\ pcb' = [saved EXCEPT ![to].ebp_scheduler = Garbage]
  BY <1>a, <1>b, <1>c, <1>d, PitSwitchEffect
<1>2. Interruptible /\ htp' = htp /\ saved \in [Slots -> PCB]
  BY <1>1, SaveIntoType DEF PitSwitch, PitPrologue, procVars
<1>3. ASSUME NEW s \in Slots
      PROVE  /\ pcb'[s].parent = pcb[s].parent
             /\ pcb'[s].ebp_scheduler = IF s = to THEN Garbage
                                        ELSE saved[s].ebp_scheduler
  BY <1>1, <1>2, SaveFields DEF PCB
<1>4. Parents' = Parents
  BY <1>3 DEF Parents
<1>5. ASSUME NEW t \in Terminals
      PROVE  htp[t] \in Slots /\ SavedAt(t, Fetched(t)) /\ Place(Fetched(t)) = Standing(t)
  BY <1>1, <1>2, <1>a, <1>c, SavedByTick
<1>6. Place(cpu') = Standing(next)
  <2>1. SavedAt(next, Fetched(next)) /\ Place(Fetched(next)) = Standing(next)
    BY <1>5
  <2>2. Fetched(next).at # "garbage"
    BY <2>1 DEF SavedAt
  <2> QED
    BY <1>1, <1>d, <2>1, <2>2, PlaceThroughTick
<1>7. Standing(next)' = Standing(next)
  BY <1>1, <1>6 DEF Standing
<1>8. ASSUME NEW t \in Terminals, t # next
      PROVE  Standing(t)' = Standing(t)
  <2>1. pcb'[htp[t]].ebp_scheduler = Fetched(t)
    BY <1>3, <1>5, <1>8, <1>d, TopsDiffer
  <2>2. Standing(t)' = Place(pcb'[htp[t]].ebp_scheduler)
    BY <1>1, <1>2, <1>8 DEF Standing
  <2> QED
    BY <1>5, <1>8, <2>1, <2>2
<1>9. \A t \in Terminals : t = next \/ t # next
  OBVIOUS
<1> QED
  BY <1>4, <1>7, <1>8, <1>9, Zenon

LEMMA PitSwitchInv ==
  ASSUME Careful, TypeOK, TypeOK', SlotsChosen, SessionInv, PitSwitch
  PROVE  SessionInv'
<1>a. PICK cs \in Terminals : cs = curr_scheduled
  BY DEF TypeOK
<1>b. PICK next \in Terminals : next = NextScheduled
  BY NextScheduledType
<1>c. PICK from : from = htp[cs]
  OBVIOUS
<1>d. PICK to : to = htp[next]
  OBVIOUS
<1> DEFINE saved == SaveInto(from)
           Fetched(t) == saved[htp[t]].ebp_scheduler
<1>1. /\ cpu.at # "idle" /\ Started = Terminals
      /\ from \in Slots /\ to \in Slots
      /\ curr_scheduled' = next
      /\ page32' = to
      /\ tss_esp0' = saved[to].esp0
      /\ cpu' = Resume(saved[to].ebp_scheduler)
      /\ pcb' = [saved EXCEPT ![to].ebp_scheduler = Garbage]
  BY <1>a, <1>b, <1>c, <1>d, PitSwitchEffect
<1>2. /\ total_terminal > NT /\ total_terminal # 0
      /\ Interruptible
      /\ UNCHANGED <<total_terminal, procVars, image>>
      /\ switch_flag' = 0
      /\ curr_terminal' = Shown
      /\ saved \in [Slots -> PCB]
  BY <1>1, NextScheduledType, SaveIntoType DEF PitSwitch, PitPrologue, TypeOK
<1>3. htp' = htp /\ Started' = Started
  BY <1>2 DEF procVars, Started
<1>4. ASSUME NEW s \in Slots
      PROVE  /\ pcb'[s].parent = pcb[s].parent
             /\ pcb'[s].esp = PcbOnEntry[s].esp
             /\ pcb'[s].esp0 = saved[s].esp0
             /\ pcb'[s].ebp_scheduler = IF s = to THEN Garbage
                                        ELSE saved[s].ebp_scheduler
  BY <1>1, <1>2, SaveFields DEF PCB
<1>5. Parents' = Parents
  BY <1>4 DEF Parents
<1>6. ASSUME NEW t \in Terminals
      PROVE  htp[t] \in Slots /\ SavedAt(t, Fetched(t)) /\ Place(Fetched(t)) = Standing(t)
  BY <1>1, <1>2, <1>a, <1>c, SavedByTick
<1>7. ASSUME NEW t \in Terminals, t # next
      PROVE  pcb'[htp[t]].ebp_scheduler = Fetched(t)
  BY <1>4, <1>6, <1>7, <1>d, TopsDiffer
<1>8. \A t \in Started : Standing(t)' = Standing(t)
  BY <1>1, PitSwitchStands
<1>9. ASSUME NEW t \in Terminals, NEW s \in Ancestry(t), Installed(s),
             ~(s = htp[t] /\ Standing(t).at = "setup")
      PROVE  Installed(s)'
  <2>1. s \in Slots
    BY ParentsType
  <2>2. /\ saved[s].esp0 = s
        /\ pcb[s].parent # NoProc => PcbOnEntry[s].esp = Frame(pcb[s].parent)
    BY <1>1, <1>2, <1>9, <1>a, <1>c, SaveKeepsInstalled
  <2> QED
    BY <1>4, <2>1, <2>2 DEF Installed
<1>10. \/ UNCHANGED <<curr_terminal, switch_flag>>
       \/ /\ curr_terminal' \in Started
          /\ \A t \in Started : Standing(t).at \notin ExecPoints
  <2>1. CASE switch_flag = 0
    BY <1>2, <2>1 DEF Shown
  <2>2. CASE switch_flag # 0
    BY <1>1, <1>2, <2>2, ShownType DEF SessionInv, StandingWell, StandsAt
  <2> QED
    BY <2>1, <2>2
<1>11. /\ LinesApart' /\ StandingWell' /\ CallClaims'
       /\ ProgramsInPlace' /\ SlotsCounted'
  BY <1>2, <1>3, <1>5, <1>8, <1>9, <1>10, QuietStep
<1>12. /\ cpu'.at \in {"user", "check", "rdcount", "perterm", "scan", "mark",
                       "page", "setup", "switch"}
       /\ cpu'.at # "user" => \A u \in Terminals \ {next} : cpu'.stk \notin Ancestry(u)'
  <2>1. SavedAt(next, Fetched(next)) /\ cpu' = Resume(Fetched(next))
    BY <1>1, <1>6, <1>d
  <2>2. cpu'.at = Fetched(next).at
    BY <2>1, UserFields DEF Resume, SavedAt
  <2>3. cpu'.at # "user" => cpu' = Fetched(next)
    BY <2>1, <2>2 DEF Resume, SavedAt
  <2>4. \A u \in Terminals : Ancestry(u)' = Ancestry(u)
    BY <1>3, <1>5, SameLines
  <2> QED
    BY <2>1, <2>2, <2>3, <2>4 DEF SavedAt
<1>13. CpuInPlace'
  <2>1. StandsAt(next, Place(cpu))'
    <3>1. next \in Started' /\ Standing(next)' = Place(cpu)'
      BY <1>1, <1>3, <1>b DEF Standing
    <3>2. StandsAt(next, Standing(next))'
      BY <1>11, <3>1 DEF StandingWell
    <3> QED
      BY <3>1, <3>2 DEF StandsAt
  <2>2. /\ Place(cpu)'.at = cpu'.at
        /\ cpu'.at = "user" => Place(cpu)' = User(cpu'.proc)
        /\ cpu'.at # "user" => Place(cpu)' = cpu'
    BY UserFields DEF Place
  <2>3. page32' = to /\ tss_esp0' = pcb'[to].esp0 /\ htp'[next] = to
    BY <1>1, <1>3, <1>4, <1>d
  <2>4. cpu'.at # "setup" => tss_esp0' = to
    <3>1. to \in Ancestry(next)'
      BY <1>1, <2>3, LineContains DEF Ancestry
    <3>2. (to = htp'[next] /\ Standing(next)'.at = "setup") \/ Installed(to)'
      BY <1>11, <3>1 DEF ProgramsInPlace
    <3>3. Standing(next)'.at = cpu'.at
      BY <1>1, <1>b, <2>2, UserFields DEF Standing
    <3> QED
      BY <2>3, <3>2, <3>3 DEF Installed
  <2>5. CASE cpu'.at = "user"
    <3>1. cpu'.proc = to
      BY <2>1, <2>2, <2>3, <2>5, UserFields DEF StandsAt
    <3> QED
      BY <2>3, <2>4, <2>5, <3>1 DEF CpuInPlace, Early, Mapped, ExecPoints
  <2>6. CASE cpu'.at \in Early
    <3>1. cpu'.proc = to /\ cpu'.at \notin Mapped /\ cpu'.at \notin {"user", "switch", "hret", "setup"}
      BY <1>12, <2>1, <2>2, <2>3, <2>6 DEF StandsAt, Early, Mapped
    <3> QED
      BY <1>1, <1>12, <2>3, <2>4, <3>1, <1>b DEF CpuInPlace
  <2>7. CASE cpu'.at \in Late
    <3>1. cpu'.slot = to /\ cpu'.at \notin {"user", "hret"} /\ cpu'.at \notin Early
      BY <2>1, <2>2, <2>3, <2>7 DEF StandsAt, Early, Late
    <3> QED
      BY <1>1, <1>12, <2>3, <2>4, <3>1, <1>b DEF CpuInPlace
  <2> QED
    BY <1>12, <2>5, <2>6, <2>7 DEF Early, Late
<1>14. SavedInPlace'
  <2>1. ASSUME NEW t \in Terminals, t # next
        PROVE  SavedAt(t, pcb[htp[t]].ebp_scheduler)'
    <3>1. PICK c : c = Fetched(t)
      OBVIOUS
    <3>2. SavedAt(t, c)
      BY <1>6, <3>1
    <3>3. SavedAt(t, c)'
      BY <1>3, <1>5, <3>2, SavedStays
    <3>4. pcb'[htp'[t]].ebp_scheduler = c
      BY <1>3, <1>7, <2>1, <3>1
    <3> QED
      BY <3>3, <3>4 DEF SavedAt
  <2> QED
    BY <1>1, <1>3, <1>b, <2>1 DEF SavedInPlace
<1>15. BootInOrder'
  BY <1>1, <1>2, <1>3, <1>12 DEF BootInOrder, Booted, TypeOK
<1> QED
  BY <1>11, <1>13, <1>14, <1>15 DEF SessionInv

-----------------------------------------------------------------------------
(* The ticks that start the shells *)

\* The first tick, from the idle kernel.
LEMMA FirstShellInv ==
  ASSUME Careful, TypeOK, TypeOK', SessionInv, PitStartShell, total_terminal = 0
  PROVE  SessionInv'
<1>1. /\ ~Booted /\ cpu.at = "idle" /\ Started = {}
      /\ curr_terminal = 1 /\ curr_scheduled = 1 /\ switch_flag = 0
      /\ \A t \in Terminals : htp[t] = NoProc
      /\ process_count = 0
  BY DEF SessionInv, BootInOrder, Booted, Started, Terminals
<1>2. /\ total_terminal' = 1 /\ curr_terminal' = 1 /\ curr_scheduled' = 1
      /\ switch_flag' = 0 /\ pcb' = pcb
      /\ cpu' = Ctx("check", "boot", NoProc, EntryStack)
      /\ UNCHANGED <<procVars, page32, tss_esp0, image>>
  BY <1>1 DEF PitStartShell, PitPrologue, Shown, PcbOnEntry
<1>3. htp' = htp /\ Parents' = Parents /\ Started' = {1} /\ 1 \in Terminals
  BY <1>2 DEF procVars, Parents, Started, Terminals
<1>4. /\ cpu'.at = "check" /\ cpu'.by = "boot" /\ cpu'.proc = NoProc
      /\ cpu'.at \in Early /\ cpu'.at \in ExecPoints
      /\ cpu'.at \notin Late \cup Mapped \cup Counted \cup Marked
  BY <1>2, CtxFields DEF Early, ExecPoints, Late, Mapped, Counted, Marked
<1>5. Standing(curr_scheduled)' = cpu' /\ Call' = cpu'
  BY <1>2, <1>4, PlaceFields DEF Call, Standing, Place
<1>6. \A t \in Terminals : Ancestry(t) = {} /\ Ancestry(t)' = {}
  BY <1>1, <1>3, LineOfNone DEF Ancestry
<1>7. LinesApart'
  BY <1>6 DEF LinesApart
<1>8. BootInOrder'
  BY <1>1, <1>2, <1>3, <1>4 DEF BootInOrder, Booted, procVars
<1>9. StandingWell'
  <2>1. StandsAt(1, cpu)'
    BY <1>1, <1>2, <1>3, <1>4 DEF StandsAt
  <2> QED
    BY <1>2, <1>3, <1>5, <2>1 DEF StandingWell, StandsAt
<1>10. CallClaims'
  BY <1>1, <1>2, <1>4, <1>5 DEF CallClaims, ClaimsOf, procVars
<1>11. ProgramsInPlace' /\ SavedInPlace'
  BY <1>2, <1>3, <1>6 DEF ProgramsInPlace, SavedInPlace
<1>12. CpuInPlace'
  BY <1>4 DEF CpuInPlace
<1>13. SlotsCounted'
  <2>1. Live = {} /\ Live' = {}
    BY <1>6 DEF Live
  <2>2. Call.at = "idle"
    BY <1>1, StandingHere, PlaceFields DEF Call
  <2> QED
    BY <1>2, <1>4, <1>5, <1>6, <2>1, <2>2
    DEF SessionInv, SlotsCounted, procVars, Marked, Counted
<1> QED
  BY <1>7, <1>8, <1>9, <1>10, <1>11, <1>12, <1>13 DEF SessionInv

\* The later ones, which interrupt the newest shell.
LEMMA NextShellInv ==
  ASSUME Careful, TypeOK, TypeOK', SlotsChosen, SessionInv, PitStartShell,
         total_terminal # 0
  PROVE  SessionInv'
<1>a. PICK cs \in Terminals : cs = curr_scheduled
  BY DEF TypeOK
<1>b. PICK from : from = htp[cs]
  OBVIOUS
<1>c. PICK next : next = total_terminal + 1
  OBVIOUS
<1> DEFINE saved == SaveInto(from)
           Fetched(t) == saved[htp[t]].ebp_scheduler
<1>1. /\ ~Booted /\ Interruptible /\ cpu.at = "user"
      /\ cs = total_terminal /\ curr_terminal = cs /\ switch_flag = 0
      /\ process_count = total_terminal
  <2>1. ~Booted /\ Interruptible
    BY DEF PitStartShell, PitPrologue, Booted, TypeOK
  <2>2. cpu.at = "user"
    BY <2>1, CarefulTick DEF SessionInv, BootInOrder
  <2> QED
    BY <1>a, <2>1, <2>2 DEF SessionInv, BootInOrder, TypeOK
<1>2. /\ from \in Slots /\ SavedAt(cs, Interrupted) /\ from # NoProc
  BY <1>1, <1>a, <1>b, InterruptedFits DEF SavedAt
<1>3. /\ total_terminal < NT /\ next \in Terminals /\ NextScheduled = next
      /\ next # cs /\ next \notin Started /\ cs \in Started
      /\ Started' = Started \cup {next}
  <2>1. total_terminal < NT /\ total_terminal \in Nat /\ total_terminal' = total_terminal + 1
    BY DEF PitStartShell, TypeOK
  <2>2. next \in Terminals /\ next # cs /\ next \notin Started /\ cs \in Started
    BY <1>1, <1>c, <2>1 DEF Started, Terminals
  <2>3. Started' = Started \cup {next}
    BY <1>c, <2>1 DEF Started, Terminals
  <2>4. total_terminal % NT = total_terminal
    BY <2>1
  <2> QED
    BY <1>1, <1>a, <1>c, <2>1, <2>2, <2>3, <2>4 DEF NextScheduled
<1>4. /\ total_terminal' = next /\ curr_terminal' = next /\ curr_scheduled' = next
      /\ switch_flag' = 0 /\ pcb' = saved
      /\ cpu' = Ctx("check", "boot", NoProc, EntryStack)
      /\ UNCHANGED <<procVars, page32, tss_esp0, image>>
      /\ htp' = htp
  BY <1>2, <1>3, <1>a, <1>b, <1>c DEF PitStartShell, PitPrologue, procVars
<1>5. Parents' = Parents
  BY <1>2, <1>4, SaveFields DEF Parents
<1>6. ASSUME NEW t \in Started
      PROVE  /\ t \in Terminals /\ t # next
             /\ SavedAt(t, Fetched(t)) /\ Place(Fetched(t)) = Standing(t)
             /\ pcb'[htp'[t]].ebp_scheduler = Fetched(t)
             /\ Standing(t)' = Standing(t)
             /\ Standing(t).at \notin ExecPoints /\ Standing(t).at # "setup"
  <2>1. t \in Terminals /\ t # next
    BY <1>3 DEF Started
  <2>2. SavedAt(t, Fetched(t)) /\ Place(Fetched(t)) = Standing(t)
    BY <1>1, <1>a, <1>b, SavedByTick
  <2>3. pcb'[htp'[t]].ebp_scheduler = Fetched(t)
    BY <1>4
  <2>4. Standing(t)' = Standing(t)
    BY <1>4, <2>1, <2>2, <2>3 DEF Standing
  <2>5. Standing(t).at \in ExecPoints => t = cs
    BY <1>1 DEF SessionInv, StandingWell, StandsAt
  <2>6. t = cs => Standing(t).at = "user"
    BY <1>1, <1>a, HereUser, UserFields
  <2> QED
    BY <2>1, <2>2, <2>3, <2>4, <2>5, <2>6, PointsApart DEF ExecPoints
<1>7. /\ \A t \in Terminals : Ancestry(t)' = Ancestry(t)
      /\ Live' = Live /\ LinesApart'
  BY <1>4, <1>5, SameLines DEF SessionInv
<1>8. /\ cpu'.at = "check" /\ cpu'.by = "boot" /\ cpu'.proc = NoProc
      /\ cpu'.at \in Early /\ cpu'.at \in ExecPoints
      /\ cpu'.at \notin Late \cup Mapped \cup Counted \cup Marked
  BY <1>4, CtxFields DEF Early, ExecPoints, Late, Mapped, Counted, Marked
<1>9. Standing(next)' = cpu' /\ Call' = cpu'
  BY <1>4, <1>8 DEF Call, Standing, Place
<1>10. htp[next] = NoProc
  BY <1>3 DEF SessionInv, BootInOrder
<1>11. BootInOrder'
  <2>1. cpu'.at # "idle" /\ total_terminal' # 0
    BY <1>4, <1>8, <1>3 DEF Terminals
  <2>2. \A t \in Terminals \ Started' : htp'[t] = NoProc
    BY <1>3, <1>4 DEF SessionInv, BootInOrder
  <2>3. process_count' = total_terminal' - 1
    BY <1>1, <1>4, <1>c DEF procVars, TypeOK
  <2> QED
    BY <1>4, <1>8, <2>1, <2>2, <2>3 DEF BootInOrder
<1>12. StandingWell'
  <2>1. StandsAt(next, cpu)'
    BY <1>4, <1>8, <1>10 DEF StandsAt
  <2>2. StandsAt(next, Standing(next))'
    BY <1>9, <2>1 DEF StandsAt
  <2>3. ASSUME NEW t \in Started
        PROVE  StandsAt(t, Standing(t))'
    <3>1. StandsAt(t, Standing(t))
      BY DEF SessionInv, StandingWell
    <3> QED
      BY <1>4, <1>6, <3>1, PointsApart DEF StandsAt
  <2> QED
    BY <1>3, <2>2, <2>3 DEF StandingWell
<1>13. CallClaims'
  <2>1. process_count' < MaxProc
    BY <1>1, <1>3, <1>4 DEF procVars, TypeOK
  <2> QED
    BY <1>8, <1>9, <2>1 DEF CallClaims, ClaimsOf
<1>14. ProgramsInPlace'
  <2>1. ASSUME NEW t \in Terminals, NEW s \in Ancestry(t)
        PROVE  image'[s] = s /\ Installed(s)'
    <3>1. t \in Started
      BY LineOfNone DEF SessionInv, BootInOrder, Ancestry
    <3>2. image[s] = s /\ Installed(s) /\ s \in Slots
      BY <1>6, <3>1, ParentsType DEF SessionInv, ProgramsInPlace
    <3>3. /\ saved[s].esp0 = s
          /\ pcb[s].parent # NoProc => PcbOnEntry[s].esp = Frame(pcb[s].parent)
      BY <1>1, <1>6, <1>a, <1>b, <3>1, <3>2, SaveKeepsInstalled
    <3>4. saved[s].parent = pcb[s].parent /\ saved[s].esp = PcbOnEntry[s].esp
      BY <1>2, <3>2, SaveFields
    <3> QED
      BY <1>4, <3>2, <3>3, <3>4 DEF Installed
  <2> QED
    BY <1>7, <2>1 DEF ProgramsInPlace
<1>15. CpuInPlace'
  BY <1>8 DEF CpuInPlace
<1>16. SavedInPlace'
  <2>1. ASSUME NEW t \in Started
        PROVE  SavedAt(t, pcb[htp[t]].ebp_scheduler)'
    <3>1. PICK c : c = Fetched(t)
      OBVIOUS
    <3>2. SavedAt(t, c)'
      BY <1>4, <1>5, <1>6, <3>1, SavedStays
    <3> QED
      BY <1>6, <3>1, <3>2 DEF SavedAt
  <2> QED
    BY <1>3, <1>4, <2>1 DEF SavedInPlace
<1>17. SlotsCounted'
  <2>1. Call.at \notin ExecPoints
    BY <1>1, <1>3, <1>6 DEF Call
  <2> QED
    BY <1>4, <1>7, <1>8, <1>9, <2>1
    DEF SessionInv, SlotsCounted, procVars, Marked, Counted, ExecPoints
<1> QED
  BY <1>7, <1>11, <1>12, <1>13, <1>14, <1>15, <1>16, <1>17 DEF SessionInv

-----------------------------------------------------------------------------
(* The steps of execute that move no process to or from a terminal *)

LEMMA ExecFrame ==
  ASSUME TypeOK, SessionInv, cpu.at \in ExecPoints, UNCHANGED <<termVars, htp, pcb>>
  PROVE  /\ Parents' = Parents /\ Started' = Started
         /\ \A t \in Terminals : Ancestry(t)' = Ancestry(t)
         /\ Live' = Live
         /\ LinesApart'
         /\ Call = cpu /\ Call' = Place(cpu)'
         /\ \A t \in Terminals \ {curr_scheduled} : Standing(t)' = Standing(t)
         /\ SavedInPlace'
<1>1. Parents' = Parents /\ Started' = Started
  BY DEF Parents, Started, termVars
<1>2. /\ \A t \in Terminals : Ancestry(t)' = Ancestry(t)
      /\ Live' = Live /\ LinesApart'
  BY <1>1, SameLines DEF SessionInv
<1>3. Call = cpu /\ curr_terminal = curr_scheduled
  BY HereExec
<1>4. Call' = Place(cpu)'
  BY <1>3 DEF Call, Standing, termVars
<1>5. \A t \in Terminals \ {curr_scheduled} : Standing(t)' = Standing(t)
  BY DEF Standing, termVars
<1>6. SavedInPlace'
  BY <1>1, <1>2 DEF SessionInv, SavedInPlace, SavedAt, termVars
<1> QED
  BY <1>1, <1>2, <1>3, <1>4, <1>5, <1>6

\* What is left to show of such a step.
LEMMA ExecStepInv ==
  ASSUME TypeOK, TypeOK', SessionInv,
         cpu.at \in ExecPoints, cpu.at # "setup",
         UNCHANGED <<termVars, htp, pcb>>,
         cpu'.at \in ExecPoints \cup {"user"},
         Booted \/ cpu'.at = "user" \/ cpu'.by = cpu.by,
         Booted \/ ((cpu.at \in {"check", "rdcount"})
                      <=> (cpu'.at \in {"check", "rdcount", "wrcount"})),
         process_count' = process_count + IF cpu.at = "wrcount" THEN 1 ELSE 0,
         \A s \in Live : image'[s] = image[s],
         StandsAt(curr_scheduled, Place(cpu))', ClaimsOf(Place(cpu))',
         CpuInPlace', SlotsCounted'
  PROVE  SessionInv'
<1>1. /\ Parents' = Parents /\ Started' = Started
      /\ \A t \in Terminals : Ancestry(t)' = Ancestry(t)
      /\ LinesApart' /\ SavedInPlace'
      /\ Call = cpu /\ Call' = Place(cpu)'
      /\ \A t \in Terminals \ {curr_scheduled} : Standing(t)' = Standing(t)
  BY ExecFrame
<1>2. /\ curr_scheduled \in Started /\ curr_scheduled' = curr_scheduled
      /\ curr_terminal' = curr_terminal /\ switch_flag' = switch_flag
      /\ total_terminal' = total_terminal
      /\ curr_scheduled \in Terminals
  BY HereExec DEF termVars, TypeOK
<1>3. CallClaims'
  BY <1>1 DEF CallClaims, ClaimsOf
<1>4. StandingWell'
  <2>1. StandsAt(curr_scheduled, Standing(curr_scheduled))'
    BY StandingHere DEF Standing, StandsAt
  <2>2. ASSUME NEW t \in Started, t # curr_scheduled
        PROVE  StandsAt(t, Standing(t))'
    <3>1. StandsAt(t, Standing(t)) /\ Standing(t)' = Standing(t)
      BY <1>1, <2>2 DEF SessionInv, StandingWell, Started
    <3> QED
      BY <1>1, <1>2, <3>1 DEF StandsAt
  <2>3. ASSUME NEW t \in Started
        PROVE  StandsAt(t, Standing(t))'
    <3>1. CASE t = curr_scheduled
      BY <1>2, <2>1, <3>1 DEF StandsAt, Standing
    <3> QED
      BY <2>2, <3>1
  <2> QED
    BY <1>1, <2>3 DEF StandingWell
<1>5. ProgramsInPlace'
  <2>1. ASSUME NEW t \in Terminals, NEW s \in Ancestry(t)
        PROVE  /\ image'[s] = s
               /\ (s = htp'[t] /\ Standing(t)'.at = "setup") \/ Installed(s)'
    <3>1. /\ image'[s] = s
          /\ (s = htp[t] /\ Standing(t).at = "setup") \/ Installed(s)
      BY DEF SessionInv, ProgramsInPlace, Live
    <3>2. t = curr_scheduled => Standing(t).at # "setup"
      BY StandingHere, PlaceFields
    <3>3. Installed(s) => Installed(s)'
      BY DEF Installed
    <3> QED
      BY <1>1, <3>1, <3>2, <3>3
  <2> QED
    BY <1>1, <2>1 DEF ProgramsInPlace
<1>6. BootInOrder'
  <2>1. cpu'.at # "idle" /\ total_terminal # 0
    BY HereExec, PointsApart
  <2>2. \A t \in Terminals \ Started' : htp'[t] = NoProc
    BY <1>1 DEF SessionInv, BootInOrder
  <2>3. ASSUME ~Booted
        PROVE  /\ curr_terminal = curr_scheduled
               /\ curr_scheduled = total_terminal
               /\ switch_flag = 0 /\ cpu.by = "boot"
               /\ process_count = total_terminal
                    - IF cpu.at \in {"check", "rdcount", "wrcount"} THEN 1 ELSE 0
    BY <2>1, <2>3, PointsApart DEF SessionInv, BootInOrder
  <2>4. ASSUME ~Booted
        PROVE  process_count' = total_terminal
                    - IF cpu'.at \in {"check", "rdcount", "wrcount"} THEN 1 ELSE 0
    BY <2>3, <2>4 DEF TypeOK
  <2> QED
    BY <1>2, <2>1, <2>2, <2>3, <2>4 DEF BootInOrder, Booted
<1> QED
  BY <1>1, <1>3, <1>4, <1>5, <1>6 DEF SessionInv

\* The caller waits in the same place all through execute.
LEMMA EarlyStep ==
  ASSUME TypeOK, TypeOK', SessionInv, cpu.at \in Early,
         UNCHANGED <<termVars, htp, pcb, tss_esp0>>,
         cpu'.at \in Early, cpu'.by = cpu.by, cpu'.proc = cpu.proc,
         cpu'.stk = cpu.stk,
         cpu'.at \in Mapped => page32' = cpu'.slot,
         cpu'.at \notin Mapped => cpu.at \notin Mapped /\ page32' = page32
  PROVE  /\ StandsAt(curr_scheduled, Place(cpu))'
         /\ Place(cpu)' = cpu'
         /\ CpuInPlace'
<1>1. cpu.at \in ExecPoints /\ cpu'.at \in ExecPoints
  BY PointsApart
<1>2. Place(cpu)' = cpu'
  BY <1>1, PointsApart DEF Place
<1>3. StandsAt(curr_scheduled, cpu)
  BY <1>1, HereExec
<1>4. StandsAt(curr_scheduled, cpu)'
  BY <1>1, <1>3, PointsApart DEF StandsAt, termVars, Early, Late
<1>5. \A t \in Terminals : Ancestry(t)' = Ancestry(t)
  BY <1>1, ExecFrame
<1>6. CpuInPlace'
  BY <1>1, <1>5, PointsApart DEF SessionInv, CpuInPlace, termVars, Early
<1> QED
  BY <1>2, <1>4, <1>6 DEF StandsAt

\* execute answers 0 or -1 to the program that called it.
LEMMA ReturnInv ==
  ASSUME TypeOK, TypeOK', SessionInv, cpu.at = "check", cpu.by = "user",
         UNCHANGED <<termVars, procVars, memVars>>,
         cpu'.at = "user", cpu'.proc = cpu.proc
  PROVE  SessionInv'
<1>1. cpu.at \in Early /\ cpu.at \in ExecPoints /\ cpu.at \notin Mapped
  BY DEF Early, ExecPoints, Mapped
<1>2. UNCHANGED <<termVars, htp, pcb>>
  BY DEF procVars, memVars
<1>3. /\ htp[curr_scheduled] = cpu.proc /\ cpu.proc # NoProc
      /\ page32 = cpu.proc /\ tss_esp0 = cpu.proc
      /\ Call = cpu
  BY <1>1, HereExec DEF StandsAt, SessionInv, CpuInPlace
<1>4. /\ Place(cpu)'.at = "user" /\ Place(cpu)'.proc = cpu.proc
  BY UserFields DEF Place
<1>5. StandsAt(curr_scheduled, Place(cpu))' /\ ClaimsOf(Place(cpu))'
  BY <1>2, <1>3, <1>4, PointsApart
  DEF StandsAt, ClaimsOf, termVars, Early, Late, Marked, ExecPoints
<1>6. CpuInPlace'
  BY <1>3 DEF CpuInPlace, memVars, Early, Mapped, ExecPoints
<1>7. SlotsCounted'
  <2>1. /\ Live' = Live /\ Call' = Place(cpu)'
        /\ \A t \in Terminals : Ancestry(t)' = Ancestry(t)
    BY <1>1, <1>2, ExecFrame
  <2>2. /\ Call.at \notin Counted \cup {"perterm"}
        /\ Call'.at \notin Counted \cup {"perterm"}
    BY <1>3, <1>4, <2>1 DEF Counted
  <2> QED
    BY <2>1, <2>2 DEF SessionInv, SlotsCounted, procVars, Marked, Counted
<1>8. ~Booted => FALSE
  BY <1>1, PointsApart DEF SessionInv, BootInOrder
<1> QED
  BY <1>1, <1>2, <1>5, <1>6, <1>7, <1>8, ExecStepInv DEF memVars, procVars, TypeOK

LEMMA ExecuteFailsInv ==
  ASSUME TypeOK, TypeOK', SessionInv, ExecuteFails
  PROVE  SessionInv'
  BY ReturnInv, UserFields
  DEF ExecuteFails, ReturnValue, memVars, procVars, User, Ctx

LEMMA ExecuteRefusedInv ==
  ASSUME TypeOK, TypeOK', SessionInv, ExecuteRefused
  PROVE  SessionInv'
<1>1. cpu.at = "check" /\ cpu.at \in ExecPoints
  BY DEF ExecuteRefused, ExecPoints
<1>2. cpu.by = "user"
  BY <1>1, HereExec DEF ClaimsOf, ExecuteRefused, LimitReached, TypeOK
<1> QED
  BY <1>1, <1>2, ReturnInv
  DEF ExecuteRefused, ReturnValue, ReturnToTick, ReturnToHalt, memVars, procVars,
      User, Ctx

LEMMA ExecuteFoundInv ==
  ASSUME TypeOK, TypeOK', SessionInv, ExecuteFound
  PROVE  SessionInv'
<1>1. /\ cpu.at = "check" /\ cpu'.at = "rdcount"
      /\ cpu'.by = cpu.by /\ cpu'.proc = cpu.proc /\ cpu'.stk = cpu.stk
      /\ UNCHANGED <<termVars, procVars, memVars>>
  BY GotoFields DEF ExecuteFound
<1>2. UNCHANGED <<termVars, htp, pcb, tss_esp0, page32, image>>
  BY <1>1 DEF procVars, memVars
<1>3. /\ cpu.at \in Early /\ cpu'.at \in Early
      /\ cpu.at \notin Mapped /\ cpu'.at \notin Mapped
      /\ cpu.at \in ExecPoints /\ cpu'.at \in ExecPoints
  BY <1>1 DEF Early, Mapped, ExecPoints
<1>4. /\ StandsAt(curr_scheduled, Place(cpu))'
      /\ Place(cpu)' = cpu' /\ CpuInPlace'
  BY <1>1, <1>2, <1>3, EarlyStep
<1>5. ClaimsOf(Place(cpu))'
  BY <1>1, <1>4 DEF ClaimsOf, ExecuteFound, LimitReached, Marked, procVars, TypeOK
<1>6. SlotsCounted'
  <2>1. /\ Live' = Live /\ Call = cpu /\ Call' = cpu'
        /\ \A t \in Terminals : Ancestry(t)' = Ancestry(t)
    BY <1>2, <1>3, <1>4, ExecFrame
  <2> QED
    BY <1>1, <2>1 DEF SessionInv, SlotsCounted, procVars, Marked, Counted
<1> QED
  BY <1>1, <1>2, <1>3, <1>4, <1>5, <1>6, ExecStepInv DEF procVars, TypeOK

LEMMA ExecuteReadCountInv ==
  ASSUME TypeOK, TypeOK', SessionInv, ExecuteReadCount
  PROVE  SessionInv'
<1>1. /\ cpu.at = "rdcount" /\ cpu'.at = "wrcount" /\ cpu'.eax = process_count
      /\ cpu'.by = cpu.by /\ cpu'.proc = cpu.proc /\ cpu'.stk = cpu.stk
      /\ UNCHANGED <<termVars, procVars, memVars>>
  BY DEF ExecuteReadCount, TypeOK, Context
<1>2. UNCHANGED <<termVars, htp, pcb, tss_esp0, page32, image>>
  BY <1>1 DEF procVars, memVars
<1>3. /\ cpu.at \in Early /\ cpu'.at \in Early
      /\ cpu.at \notin Mapped /\ cpu'.at \notin Mapped
      /\ cpu.at \in ExecPoints /\ cpu'.at \in ExecPoints
  BY <1>1 DEF Early, Mapped, ExecPoints
<1>4. /\ StandsAt(curr_scheduled, Place(cpu))'
      /\ Place(cpu)' = cpu' /\ CpuInPlace'
  BY <1>1, <1>2, <1>3, EarlyStep
<1>5. ClaimsOf(Place(cpu))'
  BY <1>1, <1>3, <1>4, HereExec DEF ClaimsOf, Marked, procVars
<1>6. SlotsCounted'
  <2>1. /\ Live' = Live /\ Call = cpu /\ Call' = cpu'
        /\ \A t \in Terminals : Ancestry(t)' = Ancestry(t)
    BY <1>2, <1>3, <1>4, ExecFrame
  <2> QED
    BY <1>1, <2>1 DEF SessionInv, SlotsCounted, procVars, Marked, Counted
<1> QED
  BY <1>1, <1>2, <1>3, <1>4, <1>5, <1>6, ExecStepInv DEF procVars, TypeOK

LEMMA ExecuteWriteCountInv ==
  ASSUME TypeOK, TypeOK', SessionInv, ExecuteWriteCount
  PROVE  SessionInv'
<1>1. /\ cpu.at = "wrcount" /\ cpu'.at = "perterm"
      /\ cpu'.by = cpu.by /\ cpu'.proc = cpu.proc /\ cpu'.stk = cpu.stk
      /\ UNCHANGED <<termVars, htp, pcb_slots, process_per_terminal, memVars>>
      /\ process_count' = cpu.eax + 1
  BY DEF ExecuteWriteCount, TypeOK, Context
<1>2. UNCHANGED <<termVars, htp, pcb, tss_esp0, page32, image>>
  BY <1>1 DEF memVars
<1>3. /\ cpu.at \in Early /\ cpu'.at \in Early
      /\ cpu.at \notin Mapped /\ cpu'.at \notin Mapped
      /\ cpu.at \in ExecPoints /\ cpu'.at \in ExecPoints
  BY <1>1 DEF Early, Mapped, ExecPoints
<1>4. /\ StandsAt(curr_scheduled, Place(cpu))'
      /\ Place(cpu)' = cpu' /\ CpuInPlace'
  BY <1>1, <1>2, <1>3, EarlyStep
<1>5. ClaimsOf(Place(cpu))'
  BY <1>1, <1>4 DEF ClaimsOf, Marked
<1>6. cpu.eax = process_count /\ process_count < MaxProc /\ process_count \in Int
  BY <1>1, <1>3, HereExec DEF ClaimsOf, TypeOK
<1>7. SlotsCounted'
  <2>1. /\ Live' = Live /\ Call = cpu /\ Call' = cpu'
        /\ \A t \in Terminals : Ancestry(t)' = Ancestry(t)
    BY <1>2, <1>3, <1>4, ExecFrame
  <2>2. pcb_slots = Live /\ process_count = Cardinality(pcb_slots)
    BY <1>1, <1>6, <2>1, SlotSetsFinite, TableInRange
    DEF SessionInv, SlotsCounted, Marked, TypeOK
  <2>3. \A t \in Terminals : process_per_terminal'[t] = Cardinality(Ancestry(t)) + 0
    BY <1>1, <2>1 DEF SessionInv, SlotsCounted, Counted
  <2>4. pcb_slots' = Live' \cup {}
    BY <1>1, <2>1, <2>2
  <2>5. process_count' <= MaxProc /\ process_count' = Cardinality(pcb_slots') + 1
    BY <1>1, <1>6, <2>2
  <2> QED
    BY <1>1, <2>1, <2>3, <2>4, <2>5 DEF SlotsCounted, Marked, Counted
<1> QED
  BY <1>1, <1>2, <1>3, <1>4, <1>5, <1>6, <1>7, ExecStepInv

LEMMA ExecuteCountTerminalInv ==
  ASSUME TypeOK, TypeOK', SessionInv, ExecuteCountTerminal
  PROVE  SessionInv'
<1>1. /\ cpu.at = "perterm" /\ cpu'.at = "scan"
      /\ cpu'.by = cpu.by /\ cpu'.proc = cpu.proc /\ cpu'.stk = cpu.stk
      /\ UNCHANGED <<termVars, htp, pcb_slots, process_count, memVars>>
      /\ process_per_terminal' = [process_per_terminal EXCEPT ![curr_terminal] = @ + 1]
  BY GotoFields DEF ExecuteCountTerminal
<1>2. UNCHANGED <<termVars, htp, pcb, tss_esp0, page32, image>>
  BY <1>1 DEF memVars
<1>3. /\ cpu.at \in Early /\ cpu'.at \in Early
      /\ cpu.at \notin Mapped /\ cpu'.at \notin Mapped
      /\ cpu.at \in ExecPoints /\ cpu'.at \in ExecPoints
  BY <1>1 DEF Early, Mapped, ExecPoints
<1>4. /\ StandsAt(curr_scheduled, Place(cpu))'
      /\ Place(cpu)' = cpu' /\ CpuInPlace'
  BY <1>1, <1>2, <1>3, EarlyStep
<1>5. ClaimsOf(Place(cpu))'
  BY <1>1, <1>4 DEF ClaimsOf, Marked
<1>6. SlotsCounted'
  <2>1. /\ Live' = Live /\ Call = cpu /\ Call' = cpu'
        /\ \A t \in Terminals : Ancestry(t)' = Ancestry(t)
    BY <1>2, <1>3, <1>4, ExecFrame
  <2>2. pcb_slots' = Live' \cup {}
    BY <1>1, <2>1 DEF SessionInv, SlotsCounted, Marked
  <2>3. /\ process_count' <= MaxProc
        /\ process_count' = Cardinality(pcb_slots') + 1
    BY <1>1, <2>1 DEF SessionInv, SlotsCounted
  <2>4. ASSUME NEW t \in Terminals
        PROVE  process_per_terminal'[t] = Cardinality(Ancestry(t))
                 + IF t = curr_terminal THEN 1 ELSE 0
    <3>1. process_per_terminal[t] \in Int
      BY DEF TypeOK
    <3>2. process_per_terminal[t] = Cardinality(Ancestry(t)) + 0
      BY <1>1, <2>1 DEF SessionInv, SlotsCounted, Counted
    <3>3. process_per_terminal'[t] = process_per_terminal[t]
                                     + IF t = curr_terminal THEN 1 ELSE 0
      BY <1>1, <3>1 DEF TypeOK
    <3>4. Cardinality(Ancestry(t)) \in Nat
      BY SlotSetsFinite, ParentsType
    <3> QED
      BY <3>2, <3>3, <3>4
  <2> QED
    BY <1>1, <2>1, <2>2, <2>3, <2>4 DEF SlotsCounted, Marked, Counted, termVars
<1>7. process_count' = process_count /\ process_count \in Int
  BY <1>1 DEF TypeOK
<1> QED
  BY <1>1, <1>2, <1>3, <1>4, <1>5, <1>6, <1>7, ExecStepInv

LEMMA ExecuteScanInv ==
  ASSUME TypeOK, TypeOK', SessionInv, ExecuteScan
  PROVE  SessionInv'
<1>1. cpu.at = "scan" /\ UNCHANGED <<termVars, procVars, memVars>>
  BY DEF ExecuteScan
<1>2. UNCHANGED <<termVars, htp, pcb, tss_esp0, page32, image>>
  BY <1>1 DEF procVars, memVars
<1>3. cpu.at \in Early /\ cpu.at \notin Mapped /\ cpu.at \in ExecPoints
  BY <1>1 DEF Early, Mapped, ExecPoints
<1>4. Call = cpu
  BY <1>3, HereExec
<1>5. PICK s \in Table \ pcb_slots : cpu' = [cpu EXCEPT !.at = "mark", !.slot = s]
  <2>1. pcb_slots \in SUBSET Table /\ Cardinality(pcb_slots) \in Nat
    BY SlotSetsFinite, TableInRange DEF TypeOK
  <2>2. Cardinality(pcb_slots) < MaxProc
    BY <1>1, <1>4, <2>1 DEF SessionInv, SlotsCounted
  <2>3. PICK q \in Table : q \notin pcb_slots
    <3>1. (\A q \in Table : q \in pcb_slots) => pcb_slots = Table
      BY <2>1
    <3> QED
      BY <2>2, <3>1, TableCount
  <2>4. PICK s \in Slots \ pcb_slots :
          /\ s <= q
          /\ cpu' = [cpu EXCEPT !.at = "mark", !.slot = s]
    BY <2>3, TableInRange DEF ExecuteScan
  <2>5. s \in Table
    BY <2>4 DEF Table, Slots
  <2> QED
    BY <2>4, <2>5
<1>6. /\ cpu'.at = "mark" /\ cpu'.slot = s
      /\ cpu'.by = cpu.by /\ cpu'.proc = cpu.proc /\ cpu'.stk = cpu.stk
  BY <1>5 DEF TypeOK, Context
<1>7. cpu'.at \in Early /\ cpu'.at \notin Mapped /\ cpu'.at \in ExecPoints
  BY <1>6 DEF Early, Mapped, ExecPoints
<1>8. /\ StandsAt(curr_scheduled, Place(cpu))'
      /\ Place(cpu)' = cpu' /\ CpuInPlace'
  BY <1>2, <1>3, <1>6, <1>7, EarlyStep
<1>9. ClaimsOf(Place(cpu))'
  BY <1>1, <1>5, <1>6, <1>8 DEF ClaimsOf, Marked, procVars
<1>10. SlotsCounted'
  <2>1. /\ Live' = Live /\ Call' = cpu'
        /\ \A t \in Terminals : Ancestry(t)' = Ancestry(t)
    BY <1>2, <1>3, <1>8, ExecFrame
  <2> QED
    BY <1>1, <1>4, <1>6, <2>1
    DEF SessionInv, SlotsCounted, procVars, termVars, Marked, Counted
<1> QED
  BY <1>1, <1>2, <1>3, <1>6, <1>7, <1>8, <1>9, <1>10, ExecStepInv
  DEF procVars, TypeOK

LEMMA ExecuteMarkInv ==
  ASSUME TypeOK, TypeOK', SlotsChosen, SessionInv, ExecuteMark
  PROVE  SessionInv'
<1>1. /\ cpu.at = "mark" /\ cpu'.at = "page" /\ cpu'.slot = cpu.slot
      /\ cpu'.by = cpu.by /\ cpu'.proc = cpu.proc /\ cpu'.stk = cpu.stk
      /\ pcb_slots' = pcb_slots \cup {cpu.slot}
      /\ UNCHANGED <<termVars, htp, process_count, process_per_terminal, memVars>>
  <2>1. cpu.at = "mark" /\ cpu.at \in ExecPoints
    BY DEF ExecuteMark, ExecPoints
  <2>2. cpu.slot \in Table
    BY <2>1, HereExec DEF ClaimsOf
  <2> QED
    BY <2>1, <2>2, GotoFields DEF ExecuteMark, CountsWith
<1>2. UNCHANGED <<termVars, htp, pcb, tss_esp0, page32, image>>
  BY <1>1 DEF memVars
<1>3. /\ cpu.at \in Early /\ cpu'.at \in Early
      /\ cpu.at \notin Mapped /\ cpu'.at \notin Mapped
      /\ cpu.at \in ExecPoints /\ cpu'.at \in ExecPoints
  BY <1>1 DEF Early, Mapped, ExecPoints
<1>4. /\ StandsAt(curr_scheduled, Place(cpu))'
      /\ Place(cpu)' = cpu' /\ CpuInPlace'
  BY <1>1, <1>2, <1>3, EarlyStep
<1>5. /\ Live' = Live /\ Call = cpu /\ Call' = cpu'
      /\ \A t \in Terminals : Ancestry(t)' = Ancestry(t)
  BY <1>2, <1>3, <1>4, ExecFrame
<1>6. cpu.slot \in Slots \ pcb_slots /\ pcb_slots = Live
  BY <1>1, <1>3, <1>5, HereExec, TableInRange DEF ClaimsOf, SessionInv, SlotsCounted, Marked
<1>7. ClaimsOf(Place(cpu))'
  BY <1>1, <1>4, <1>5, <1>6 DEF ClaimsOf, Marked
<1>8. SlotsCounted'
  <2>1. pcb_slots \in SUBSET Slots /\ Cardinality(pcb_slots) \in Nat
    BY SlotSetsFinite, TableInRange DEF TypeOK
  <2>2. Cardinality(pcb_slots') = Cardinality(pcb_slots) + 1
    BY <1>1, <1>6, <2>1, AddSlot
  <2>3. process_count <= MaxProc /\ process_count = Cardinality(pcb_slots) + 1
    BY <1>1, <1>5 DEF SessionInv, SlotsCounted
  <2>4. /\ process_count' <= MaxProc
        /\ process_count' = Cardinality(pcb_slots') + 0
    BY <1>1, <2>1, <2>2, <2>3
  <2>5. \A t \in Terminals :
          process_per_terminal'[t] = Cardinality(Ancestry(t)')
            + IF t = curr_terminal' /\ Call'.at \in Counted THEN 1 ELSE 0
    BY <1>1, <1>5 DEF SessionInv, SlotsCounted, Counted, termVars
  <2>6. pcb_slots' = Live' \cup {Call'.slot} /\ Call'.at \in Marked
    BY <1>1, <1>5, <1>6 DEF Marked
  <2> QED
    BY <1>1, <1>5, <2>4, <2>5, <2>6 DEF SlotsCounted
<1> QED
  BY <1>1, <1>2, <1>3, <1>4, <1>7, <1>8, ExecStepInv DEF TypeOK

LEMMA ExecutePageInv ==
  ASSUME TypeOK, TypeOK', SessionInv, ExecutePage
  PROVE  SessionInv'
<1>1. /\ cpu.at = "page" /\ cpu'.at = "load" /\ cpu'.slot = cpu.slot
      /\ cpu'.by = cpu.by /\ cpu'.proc = cpu.proc /\ cpu'.stk = cpu.stk
      /\ page32' = cpu.slot
      /\ UNCHANGED <<termVars, procVars, pcb, tss_esp0, image>>
  BY GotoFields DEF ExecutePage
<1>2. UNCHANGED <<termVars, htp, pcb, tss_esp0, image>>
  BY <1>1 DEF procVars
<1>3. /\ cpu.at \in Early /\ cpu'.at \in Early /\ cpu'.at \in Mapped
      /\ cpu.at \in ExecPoints /\ cpu'.at \in ExecPoints
  BY <1>1 DEF Early, Mapped, ExecPoints
<1>4. /\ StandsAt(curr_scheduled, Place(cpu))'
      /\ Place(cpu)' = cpu' /\ CpuInPlace'
  BY <1>1, <1>2, <1>3, EarlyStep
<1>5. /\ Live' = Live /\ Call = cpu /\ Call' = cpu'
      /\ \A t \in Terminals : Ancestry(t)' = Ancestry(t)
  BY <1>2, <1>3, <1>4, ExecFrame
<1>6. ClaimsOf(Place(cpu))'
  BY <1>1, <1>3, <1>4, <1>5, HereExec DEF ClaimsOf, Marked
<1>7. SlotsCounted'
  BY <1>1, <1>5 DEF SessionInv, SlotsCounted, procVars, termVars, Marked, Counted
<1> QED
  BY <1>1, <1>2, <1>3, <1>4, <1>6, <1>7, ExecStepInv DEF TypeOK, procVars

LEMMA ExecuteLoadInv ==
  ASSUME TypeOK, TypeOK', SlotsChosen, SessionInv, ExecuteLoad
  PROVE  SessionInv'
<1>1. /\ cpu.at = "load" /\ cpu'.at = "parent" /\ cpu'.slot = cpu.slot
      /\ cpu'.by = cpu.by /\ cpu'.proc = cpu.proc /\ cpu'.stk = cpu.stk
      /\ image' = [image EXCEPT ![page32] = cpu.slot]
      /\ UNCHANGED <<termVars, procVars, pcb, page32, tss_esp0>>
  BY GotoFields DEF ExecuteLoad
<1>2. UNCHANGED <<termVars, htp, pcb, tss_esp0>>
  BY <1>1 DEF procVars
<1>3. /\ cpu.at \in Early /\ cpu'.at \in Early /\ cpu'.at \in Mapped /\ cpu.at \in Mapped
      /\ cpu.at \in ExecPoints /\ cpu'.at \in ExecPoints
  BY <1>1 DEF Early, Mapped, ExecPoints
<1>4. page32 = cpu.slot /\ cpu.slot \in Slots
  BY <1>1, <1>3 DEF SessionInv, CpuInPlace, SlotsChosen, SlotChosen, SlotUsed
<1>5. /\ StandsAt(curr_scheduled, Place(cpu))'
      /\ Place(cpu)' = cpu' /\ CpuInPlace'
  BY <1>1, <1>2, <1>3, <1>4, EarlyStep
<1>6. /\ Live' = Live /\ Call = cpu /\ Call' = cpu'
      /\ \A t \in Terminals : Ancestry(t)' = Ancestry(t)
  BY <1>2, <1>3, <1>5, ExecFrame
<1>7. cpu.slot \notin Live
  BY <1>1, <1>3, HereExec DEF ClaimsOf, Marked
<1>8. image'[cpu.slot] = cpu.slot /\ \A s \in Live : image'[s] = image[s]
  BY <1>1, <1>4, <1>7, ParentsType DEF TypeOK
<1>9. ClaimsOf(Place(cpu))'
  BY <1>1, <1>5, <1>6, <1>7, <1>8 DEF ClaimsOf, Marked
<1>10. SlotsCounted'
  BY <1>1, <1>6 DEF SessionInv, SlotsCounted, procVars, termVars, Marked, Counted
<1> QED
  BY <1>1, <1>2, <1>3, <1>5, <1>8, <1>9, <1>10, ExecStepInv DEF TypeOK, procVars

LEMMA ExecuteSwitchInv ==
  ASSUME TypeOK, TypeOK', SlotsChosen, SessionInv, ExecuteSwitch
  PROVE  SessionInv'
<1>1. /\ cpu.at = "switch" /\ cpu' = User(cpu.slot)
      /\ UNCHANGED <<termVars, procVars, memVars>>
  BY DEF ExecuteSwitch
<1>2. UNCHANGED <<termVars, htp, pcb, tss_esp0, page32, image, pcb_slots,
                  process_count, process_per_terminal>>
  BY <1>1 DEF procVars, memVars
<1>3. /\ cpu.at \in Late /\ cpu.at \in Mapped /\ cpu.at \in ExecPoints
      /\ cpu.at \notin Counted /\ cpu.at \notin Early
  BY <1>1 DEF Late, Mapped, ExecPoints, Counted, Early
<1>4. cpu.slot \in Slots /\ cpu.slot = htp[curr_scheduled] /\ cpu.slot # NoProc
  BY <1>1, <1>3, HereExec DEF StandsAt, SlotsChosen, SlotChosen, SlotUsed, Slots, NoProc
<1>5. cpu'.at = "user" /\ cpu'.proc = cpu.slot /\ Place(cpu)' = cpu'
  BY <1>1, UserFields DEF Place
<1>6. StandsAt(curr_scheduled, Place(cpu))' /\ ClaimsOf(Place(cpu))'
  BY <1>2, <1>4, <1>5, PointsApart
  DEF StandsAt, ClaimsOf, Early, Late, Marked, ExecPoints, termVars
<1>7. CpuInPlace'
  BY <1>1, <1>2, <1>3, <1>5 DEF SessionInv, CpuInPlace, Early, Mapped, ExecPoints
<1>8. SlotsCounted'
  <2>1. /\ Live' = Live /\ Call = cpu /\ Call' = cpu'
        /\ \A t \in Terminals : Ancestry(t)' = Ancestry(t)
    BY <1>2, <1>3, <1>5, ExecFrame
  <2> QED
    BY <1>1, <1>2, <1>5, <2>1 DEF SessionInv, SlotsCounted, Marked, Counted, termVars
<1> QED
  BY <1>1, <1>2, <1>3, <1>5, <1>6, <1>7, <1>8, ExecStepInv DEF TypeOK

-----------------------------------------------------------------------------
(* Steps that move a process *)

\* The other terminals stay put when their childmost processes do.
LEMMA OtherTerminals ==
  ASSUME TypeOK, SessionInv, UNCHANGED termVars,
         curr_scheduled \in Started,
         \A t \in Started \ {curr_scheduled} :
           /\ htp'[t] = htp[t]
           /\ pcb'[htp[t]].ebp_scheduler = pcb[htp[t]].ebp_scheduler
           /\ Parents'[htp[t]] = Parents[htp[t]],
         \A t \in Started \ {curr_scheduled} : \A u \in Terminals \ {t} :
           pcb[htp[t]].ebp_scheduler.stk \notin Ancestry(u)',
         StandsAt(curr_scheduled, Place(cpu))'
  PROVE  /\ Started' = Started
         /\ StandingWell' /\ SavedInPlace'
         /\ \A t \in Started \ {curr_scheduled} : Standing(t)' = Standing(t)
<1>1. Started' = Started /\ curr_scheduled' = curr_scheduled
  BY DEF Started, termVars
<1>2. ASSUME NEW t \in Started \ {curr_scheduled}
      PROVE  Standing(t)' = Standing(t)
  BY <1>1 DEF Standing
<1>3. ASSUME NEW t \in Started \ {curr_scheduled}
      PROVE  StandsAt(t, Standing(t))'
  <2>1. StandsAt(t, Standing(t)) /\ Standing(t)' = Standing(t)
    BY <1>2 DEF SessionInv, StandingWell
  <2> QED
    BY <2>1, PointsApart DEF StandsAt, termVars, Late
<1>4. ASSUME NEW t \in Started, t = curr_scheduled
      PROVE  StandsAt(t, Standing(t))'
  BY <1>1, <1>4 DEF StandsAt, Standing
<1>5. StandingWell'
  BY <1>1, <1>3, <1>4 DEF StandingWell
<1>6. SavedInPlace'
  <2>1. ASSUME NEW t \in Started \ {curr_scheduled}
        PROVE  SavedAt(t, pcb[htp[t]].ebp_scheduler)'
    <3>1. SavedAt(t, pcb[htp[t]].ebp_scheduler)
      BY DEF SessionInv, SavedInPlace
    <3> QED
      BY <3>1 DEF SavedAt
  <2> QED
    BY <1>1, <2>1 DEF SavedInPlace
<1> QED
  BY <1>1, <1>2, <1>5, <1>6

\* A call by the shown terminal finds the others in user mode.
LEMMA OthersInUserMode ==
  ASSUME TypeOK, SessionInv, curr_terminal = curr_scheduled,
         NEW t \in Started \ {curr_scheduled}
  PROVE  /\ htp[t] \in Slots
         /\ pcb[htp[t]].ebp_scheduler.stk = htp[t]
<1>1. SavedAt(t, pcb[htp[t]].ebp_scheduler) /\ htp[t] \in Slots
  BY EntryKeepsSaved DEF SessionInv, SavedInPlace
<1>2. pcb[htp[t]].ebp_scheduler.at \notin ExecPoints
  <2>1. StandsAt(t, Standing(t))
    BY DEF SessionInv, StandingWell
  <2>2. Standing(t).at = pcb[htp[t]].ebp_scheduler.at
    BY StandingThere, PlaceFields
  <2> QED
    BY <2>1, <2>2 DEF StandsAt
<1> QED
  BY <1>1, <1>2 DEF SavedAt, ExecPoints

\* Writing the parent of a slot that is on no terminal moves no process.
LEMMA DeadSlotLines ==
  ASSUME TypeOK, TypeOK', SessionInv, htp' = htp,
         \A s \in Live : Parents'[s] = Parents[s]
  PROVE  /\ \A t \in Terminals : Ancestry(t)' = Ancestry(t)
         /\ Live' = Live
         /\ LinesApart'
<1>1. /\ Parents \in [Slots -> SlotsOrNone] /\ Parents' \in [Slots -> SlotsOrNone]
      /\ \A t \in Terminals : htp[t] \in SlotsOrNone
      /\ \A t \in Terminals : Ancestry(t) \in SUBSET Slots
  BY ParentsType DEF Parents, TypeOK, PCB
<1>2. ASSUME NEW t \in Terminals
      PROVE  Ancestry(t)' = Ancestry(t)
  <2>1. \A s \in Line(Parents, htp[t]) : Parents'[s] = Parents[s]
    BY DEF Live, Ancestry
  <2>2. Line(Parents', htp[t]) = Line(Parents, htp[t])
    BY <1>1, <2>1, LineLocal
  <2> QED
    BY <2>2 DEF Ancestry
<1>3. Live' = Live
  BY <1>2 DEF Live
<1>4. ASSUME NEW t \in Terminals, NEW s \in Ancestry(t)
      PROVE  s \notin Line(Parents', Parents'[s])
  <2>1. s \notin Line(Parents, Parents[s]) /\ s \in Slots
    BY <1>1 DEF SessionInv, LinesApart
  <2>2. Parents'[s] = Parents[s] /\ Parents[s] \in SlotsOrNone
    BY <1>1, <2>1 DEF Live
  <2>3. Parents[s] \in Ancestry(t) \cup {NoProc}
    BY <1>1, LineClosed DEF Ancestry, ClosedUnder
  <2>4. Line(Parents, Parents[s]) \subseteq Ancestry(t)
    <3>1. CASE Parents[s] = NoProc
      BY <3>1, LineOfNone
    <3>2. CASE Parents[s] # NoProc
      BY <1>1, <2>3, <3>2, LineNested DEF Ancestry
    <3> QED
      BY <3>1, <3>2
  <2>5. \A q \in Line(Parents, Parents[s]) : Parents'[q] = Parents[q]
    BY <2>4 DEF Live
  <2>6. Line(Parents', Parents[s]) = Line(Parents, Parents[s])
    BY <1>1, <2>2, <2>5, LineLocal
  <2> QED
    BY <2>1, <2>2, <2>6
<1>5. LinesApart'
  BY <1>2, <1>4 DEF SessionInv, LinesApart
<1> QED
  BY <1>2, <1>3, <1>5

\* The call is in the CPU, or it stays where it was.
LEMMA CallAfter ==
  ASSUME TypeOK, SessionInv, UNCHANGED termVars, curr_terminal \in Started,
         \A t \in Started \ {curr_scheduled} : Standing(t)' = Standing(t)
  PROVE  /\ curr_terminal = curr_scheduled => Call = Place(cpu) /\ Call' = Place(cpu)'
         /\ curr_terminal # curr_scheduled => Call' = Call
<1>1. curr_terminal = curr_scheduled => Call = Place(cpu) /\ Call' = Place(cpu)'
  BY DEF Call, Standing, termVars
<1>2. ASSUME NEW t \in Started, t = curr_terminal, t # curr_scheduled
      PROVE  Call' = Call
  BY <1>2 DEF Call, Standing, termVars
<1> QED
  BY <1>1, <1>2

LEMMA ExecuteSetupInv ==
  ASSUME TypeOK, TypeOK', SlotsChosen, SessionInv, ExecuteSetup
  PROVE  SessionInv'
<1>1. /\ cpu.at = "setup" /\ cpu'.at = "switch" /\ cpu'.slot = cpu.slot
      /\ cpu'.by = cpu.by /\ cpu'.proc = cpu.proc /\ cpu'.stk = cpu.stk
      /\ pcb' = [pcb EXCEPT ![cpu.slot].esp = Ctx("parked", cpu.by, cpu.proc, cpu.stk),
                            ![cpu.slot].esp0 = cpu.slot]
      /\ tss_esp0' = cpu.slot
      /\ UNCHANGED <<termVars, procVars, page32, image>>
  BY GotoFields DEF ExecuteSetup
<1>2. UNCHANGED <<htp, pcb_slots, process_count, process_per_terminal,
                  curr_scheduled, curr_terminal, switch_flag, total_terminal>>
  BY <1>1 DEF procVars, termVars
<1>3. /\ cpu.at \in Late /\ cpu.at \in Mapped /\ cpu.at \in ExecPoints
      /\ cpu'.at \in Late /\ cpu'.at \in Mapped /\ cpu'.at \in ExecPoints
      /\ cpu.at \notin Early \cup Counted \cup Marked
      /\ cpu'.at \notin Early \cup Counted \cup Marked \cup {"user", "hret"}
  BY <1>1 DEF Late, Mapped, ExecPoints, Counted, Early, Marked
<1>4. /\ total_terminal # 0
      /\ curr_scheduled \in Started /\ curr_terminal = curr_scheduled
      /\ StandsAt(curr_scheduled, cpu)
      /\ curr_scheduled \in Terminals
  BY <1>3, HereExec DEF TypeOK
<1>5. /\ cpu.slot \in Slots /\ cpu.slot = htp[curr_scheduled]
      /\ Parents[cpu.slot] = cpu.proc
  BY <1>1, <1>3, <1>4 DEF StandsAt, SlotsChosen, SlotChosen, SlotUsed
<1>6. ASSUME NEW s \in Slots
      PROVE  /\ pcb'[s].parent = pcb[s].parent
             /\ pcb'[s].ebp_scheduler = pcb[s].ebp_scheduler
             /\ s # cpu.slot => pcb'[s] = pcb[s]
             /\ s = cpu.slot => /\ pcb'[s].esp0 = s
                                /\ pcb'[s].esp = Ctx("parked", cpu.by, cpu.proc, cpu.stk)
  BY <1>1, <1>5 DEF TypeOK, PCB
<1>7. Parents' = Parents
  BY <1>6 DEF Parents
<1>8. /\ \A t \in Terminals : Ancestry(t)' = Ancestry(t)
      /\ Live' = Live /\ LinesApart'
  BY <1>2, <1>7, SameLines DEF SessionInv
<1>9. Place(cpu)' = cpu'
  BY <1>3 DEF Place
<1>10. StandsAt(curr_scheduled, Place(cpu))'
  <2>1. StandsAt(curr_scheduled, cpu)'
    BY <1>1, <1>2, <1>3, <1>4, <1>5, <1>7 DEF StandsAt
  <2> QED
    BY <1>9, <2>1 DEF StandsAt
<1>11. /\ Started' = Started /\ StandingWell' /\ SavedInPlace'
       /\ \A t \in Started \ {curr_scheduled} : Standing(t)' = Standing(t)
  <2>1. ASSUME NEW t \in Started \ {curr_scheduled}
        PROVE  /\ htp'[t] = htp[t]
               /\ pcb'[htp[t]].ebp_scheduler = pcb[htp[t]].ebp_scheduler
               /\ Parents'[htp[t]] = Parents[htp[t]]
               /\ \A u \in Terminals \ {t} :
                    pcb[htp[t]].ebp_scheduler.stk \notin Ancestry(u)'
    BY <1>2, <1>6, <1>7, <1>8, EntryKeepsSaved DEF SessionInv, SavedInPlace, SavedAt
  <2> QED
    BY <1>1, <1>4, <1>10, <2>1, OtherTerminals
<1>12. Call = cpu /\ Call' = cpu'
  BY <1>1, <1>3, <1>4, <1>9, <1>11, HereExec, CallAfter
<1>13. CallClaims'
  BY <1>1, <1>3, <1>12 DEF CallClaims, ClaimsOf
<1>14. ProgramsInPlace'
  <2>1. ASSUME NEW t \in Terminals, NEW s \in Ancestry(t)
        PROVE  /\ image'[s] = s
               /\ (s = htp'[t] /\ Standing(t)'.at = "setup") \/ Installed(s)'
    <3>1. /\ image[s] = s
          /\ (s = htp[t] /\ Standing(t).at = "setup") \/ Installed(s)
          /\ s \in Slots
      BY ParentsType DEF SessionInv, ProgramsInPlace
    <3>2. CASE s = cpu.slot
      <4>1. pcb[s].parent = cpu.proc
        BY <1>5, <3>2, ParentsType
      <4>2. cpu.proc # NoProc => cpu.by = "user" /\ cpu.stk = cpu.proc
        BY <1>3, <1>4 DEF StandsAt
      <4>3. /\ pcb'[s].parent = cpu.proc /\ pcb'[s].esp0 = s
            /\ pcb'[s].esp = Ctx("parked", cpu.by, cpu.proc, cpu.stk)
        BY <1>6, <3>1, <3>2, <4>1
      <4>4. pcb'[s].parent # NoProc => pcb'[s].esp = Frame(pcb'[s].parent)
        BY <4>2, <4>3 DEF Frame
      <4>5. Installed(s)'
        BY <4>3, <4>4 DEF Installed
      <4> QED
        BY <1>1, <3>1, <4>5
    <3>3. CASE s # cpu.slot
      <4>1. Installed(s) => Installed(s)'
        BY <1>6, <3>1, <3>3 DEF Installed
      <4>2. t = curr_scheduled => s # htp[t]
        BY <1>5, <3>3
      <4>3. t \notin Started => Ancestry(t) = {}
        BY LineOfNone DEF SessionInv, BootInOrder, Ancestry
      <4> QED
        BY <1>1, <1>2, <1>11, <3>1, <4>1, <4>2, <4>3
    <3> QED
      BY <3>2, <3>3
  <2> QED
    BY <1>8, <2>1 DEF ProgramsInPlace
<1>15. CpuInPlace'
  BY <1>1, <1>2, <1>3, <1>8 DEF SessionInv, CpuInPlace
<1>16. SlotsCounted'
  BY <1>1, <1>2, <1>3, <1>8, <1>12 DEF SessionInv, SlotsCounted, Counted
<1>17. BootInOrder'
  BY <1>1, <1>2, <1>3, <1>4, <1>11, PointsApart DEF SessionInv, BootInOrder, Booted
<1> QED
  BY <1>8, <1>11, <1>13, <1>14, <1>15, <1>16, <1>17 DEF SessionInv

LEMMA ExecuteParentInv ==
  ASSUME TypeOK, TypeOK', SlotsChosen, SessionInv, ExecuteParent
  PROVE  SessionInv'
<1>1. /\ cpu.at = "parent" /\ cpu'.at = "htp" /\ cpu'.slot = cpu.slot
      /\ cpu'.by = cpu.by /\ cpu'.proc = cpu.proc /\ cpu'.stk = cpu.stk
      /\ pcb' = [pcb EXCEPT ![cpu.slot].parent = htp[curr_terminal]]
      /\ UNCHANGED <<termVars, procVars, page32, tss_esp0, image>>
  BY GotoFields DEF ExecuteParent
<1>2. UNCHANGED <<htp, pcb_slots, process_count, process_per_terminal,
                  curr_scheduled, curr_terminal, switch_flag, total_terminal>>
  BY <1>1 DEF procVars, termVars
<1>3. /\ cpu.at \in Early /\ cpu.at \in Mapped /\ cpu.at \in ExecPoints
      /\ cpu'.at \in Early /\ cpu'.at \in Mapped /\ cpu'.at \in ExecPoints
      /\ cpu.at \in Marked \cap Counted /\ cpu'.at \in Marked \cap Counted
      /\ cpu'.at \notin Late \cup {"user", "hret"}
  BY <1>1 DEF Late, Mapped, ExecPoints, Counted, Early, Marked
<1>4. /\ total_terminal # 0
      /\ curr_scheduled \in Started /\ curr_terminal = curr_scheduled
      /\ StandsAt(curr_scheduled, cpu) /\ ClaimsOf(cpu)
      /\ curr_scheduled \in Terminals
  BY <1>3, HereExec DEF TypeOK
<1>5. /\ cpu.slot \in Slots /\ cpu.slot \notin Live
      /\ image[cpu.slot] = cpu.slot
      /\ cpu.proc = htp[curr_terminal]
  BY <1>1, <1>3, <1>4 DEF StandsAt, ClaimsOf, SlotsChosen, SlotChosen, SlotUsed
<1>6. ASSUME NEW s \in Slots
      PROVE  /\ pcb'[s].ebp_scheduler = pcb[s].ebp_scheduler
             /\ s # cpu.slot => pcb'[s] = pcb[s]
             /\ s = cpu.slot => pcb'[s].parent = cpu.proc
  BY <1>1, <1>5 DEF TypeOK, PCB
<1>7. /\ Parents'[cpu.slot] = cpu.proc
      /\ \A s \in Slots \ {cpu.slot} : Parents'[s] = Parents[s]
  BY <1>5, <1>6 DEF Parents
<1>8. /\ \A t \in Terminals : Ancestry(t)' = Ancestry(t)
      /\ Live' = Live /\ LinesApart'
  BY <1>2, <1>5, <1>7, ParentsType, DeadSlotLines
<1>9. Place(cpu)' = cpu'
  BY <1>3 DEF Place
<1>10. StandsAt(curr_scheduled, Place(cpu))'
  <2>1. StandsAt(curr_scheduled, cpu)'
    BY <1>1, <1>2, <1>3, <1>4 DEF StandsAt
  <2> QED
    BY <1>9, <2>1 DEF StandsAt
<1>11. /\ Started' = Started /\ StandingWell' /\ SavedInPlace'
       /\ \A t \in Started \ {curr_scheduled} : Standing(t)' = Standing(t)
  <2>1. ASSUME NEW t \in Started \ {curr_scheduled}
        PROVE  /\ htp'[t] = htp[t]
               /\ pcb'[htp[t]].ebp_scheduler = pcb[htp[t]].ebp_scheduler
               /\ Parents'[htp[t]] = Parents[htp[t]]
               /\ \A u \in Terminals \ {t} :
                    pcb[htp[t]].ebp_scheduler.stk \notin Ancestry(u)'
    <3>1. htp[t] \in Slots
      BY EntryKeepsSaved
    <3>2. htp[t] \in Live
      BY <3>1, LineContains DEF Live, Ancestry, Started
    <3> QED
      BY <1>2, <1>5, <1>6, <1>7, <1>8, <3>1, <3>2
      DEF SessionInv, SavedInPlace, SavedAt
  <2> QED
    BY <1>1, <1>4, <1>10, <2>1, OtherTerminals
<1>12. Call = cpu /\ Call' = cpu'
  BY <1>1, <1>3, <1>4, <1>9, <1>11, HereExec, CallAfter
<1>13. CallClaims'
  BY <1>1, <1>3, <1>5, <1>7, <1>8, <1>12 DEF CallClaims, ClaimsOf
<1>14. ProgramsInPlace'
  <2>1. ASSUME NEW t \in Terminals, NEW s \in Ancestry(t)
        PROVE  /\ image'[s] = s
               /\ (s = htp'[t] /\ Standing(t)'.at = "setup") \/ Installed(s)'
    <3>1. /\ image[s] = s
          /\ (s = htp[t] /\ Standing(t).at = "setup") \/ Installed(s)
          /\ s \in Slots /\ s \in Live
      BY ParentsType DEF SessionInv, ProgramsInPlace, Live
    <3>2. Installed(s) => Installed(s)'
      BY <1>5, <1>6, <3>1 DEF Installed
    <3>3. t = curr_scheduled => Standing(t).at # "setup"
      BY <1>1, StandingHere, PlaceFields
    <3>4. t \notin Started => Ancestry(t) = {}
      BY LineOfNone DEF SessionInv, BootInOrder, Ancestry
    <3> QED
      BY <1>1, <1>2, <1>11, <3>1, <3>2, <3>3, <3>4
  <2> QED
    BY <1>8, <2>1 DEF ProgramsInPlace
<1>15. CpuInPlace'
  BY <1>1, <1>2, <1>3, <1>8 DEF SessionInv, CpuInPlace
<1>16. SlotsCounted'
  BY <1>1, <1>2, <1>3, <1>8, <1>12 DEF SessionInv, SlotsCounted
<1>17. BootInOrder'
  BY <1>1, <1>2, <1>3, <1>4, <1>11, PointsApart DEF SessionInv, BootInOrder, Booted
<1> QED
  BY <1>8, <1>11, <1>13, <1>14, <1>15, <1>16, <1>17 DEF SessionInv

\* The new process becomes the childmost of the shown terminal.
LEMMA ExecuteHtpInv ==
  ASSUME TypeOK, TypeOK', SlotsChosen, SessionInv, ExecuteHtp
  PROVE  SessionInv'
<1>a. PICK cs \in Terminals : cs = curr_scheduled
  BY DEF TypeOK
<1>b. PICK slot : slot = cpu.slot
  OBVIOUS
<1>1. /\ cpu.at = "htp" /\ cpu'.at = "setup" /\ cpu'.slot = slot
      /\ cpu'.by = cpu.by /\ cpu'.proc = cpu.proc /\ cpu'.stk = cpu.stk
      /\ htp' = [htp EXCEPT ![curr_terminal] = slot]
      /\ UNCHANGED <<termVars, pcb_slots, process_count, process_per_terminal, memVars>>
  BY <1>b, GotoFields DEF ExecuteHtp
<1>2. UNCHANGED <<pcb, page32, tss_esp0, image,
                  curr_scheduled, curr_terminal, switch_flag, total_terminal>>
  BY <1>1 DEF memVars, termVars
<1>3. /\ cpu.at \in Early /\ cpu.at \in Mapped /\ cpu.at \in ExecPoints
      /\ cpu'.at \in Late /\ cpu'.at \in Mapped /\ cpu'.at \in ExecPoints
      /\ cpu.at \in Marked \cap Counted
      /\ cpu'.at \notin Early \cup Marked \cup Counted \cup {"user", "hret"}
  BY <1>1 DEF Late, Mapped, ExecPoints, Counted, Early, Marked
<1>4. /\ total_terminal # 0
      /\ cs \in Started /\ curr_terminal = cs
      /\ StandsAt(cs, cpu) /\ ClaimsOf(cpu)
  BY <1>a, <1>3, HereExec
<1>5. /\ slot \in Slots /\ slot \notin Live
      /\ image[slot] = slot
      /\ cpu.proc = htp[cs] /\ Parents[slot] = htp[cs]
  BY <1>1, <1>3, <1>4, <1>b DEF StandsAt, ClaimsOf, SlotsChosen, SlotChosen, SlotUsed
<1>6. Parents' = Parents
  BY <1>2 DEF Parents
<1>7. htp'[cs] = slot /\ \A t \in Terminals \ {cs} : htp'[t] = htp[t]
  BY <1>1, <1>4 DEF TypeOK
<1>8. /\ \A t \in Terminals \ {cs} : Ancestry(t)' = Ancestry(t)
      /\ Ancestry(cs)' = {slot} \cup Ancestry(cs)
  BY <1>5, <1>6, <1>7, ParentsType, LineUnfold DEF Ancestry
<1>9. Live' = Live \cup {slot}
  BY <1>8 DEF Live
<1>10. LinesApart'
  <2>1. \A t, u \in Terminals : t # u => (Ancestry(t) \cap Ancestry(u))' = {}
    BY <1>5, <1>8 DEF SessionInv, LinesApart, Live
  <2>2. slot \notin Line(Parents, Parents[slot])
    BY <1>5 DEF Live, Ancestry
  <2>3. \A t \in Terminals : \A s \in Ancestry(t)' : s \notin Line(Parents, Parents[s])
    BY <1>8, <2>2 DEF SessionInv, LinesApart
  <2> QED
    BY <1>6, <2>1, <2>3 DEF LinesApart
<1>11. Place(cpu)' = cpu'
  BY <1>3 DEF Place
<1>12. StandsAt(curr_scheduled, Place(cpu))'
  <2>1. StandsAt(cs, cpu)'
    BY <1>1, <1>2, <1>3, <1>4, <1>5, <1>6, <1>7 DEF StandsAt
  <2> QED
    BY <1>2, <1>a, <1>11, <2>1 DEF StandsAt
<1>13. /\ Started' = Started /\ StandingWell' /\ SavedInPlace'
       /\ \A t \in Started \ {cs} : Standing(t)' = Standing(t)
  <2>1. ASSUME NEW t \in Started \ {cs}
        PROVE  /\ htp'[t] = htp[t]
               /\ pcb'[htp[t]].ebp_scheduler = pcb[htp[t]].ebp_scheduler
               /\ Parents'[htp[t]] = Parents[htp[t]]
               /\ \A u \in Terminals \ {t} :
                    pcb[htp[t]].ebp_scheduler.stk \notin Ancestry(u)'
    <3>1. /\ t \in Terminals /\ htp[t] \in Slots
          /\ pcb[htp[t]].ebp_scheduler.stk = htp[t]
      BY <1>4, <1>a, OthersInUserMode DEF Started
    <3>2. htp[t] \in Ancestry(t)
      BY <3>1, LineContains DEF Ancestry
    <3>3. htp[t] # slot /\ \A u \in Terminals \ {t} : htp[t] \notin Ancestry(u)
      BY <1>5, <3>1, <3>2 DEF Live, SessionInv, LinesApart
    <3> QED
      BY <1>2, <1>6, <1>7, <1>8, <3>1, <3>3
  <2> QED
    BY <1>1, <1>4, <1>12, <1>a, <2>1, OtherTerminals
<1>14. Call = cpu /\ Call' = cpu'
  BY <1>1, <1>3, <1>4, <1>11, <1>13, <1>a, HereExec, CallAfter
<1>15. CallClaims'
  BY <1>1, <1>3, <1>14 DEF CallClaims, ClaimsOf
<1>16. ProgramsInPlace'
  <2>1. ASSUME NEW t \in Terminals, NEW s \in Ancestry(t)
        PROVE  image'[s] = s
               /\ ((s = htp'[t] /\ Standing(t)'.at = "setup") \/ Installed(s)')
    <3>1. /\ image[s] = s
          /\ (s = htp[t] /\ Standing(t).at = "setup") \/ Installed(s)
      BY DEF SessionInv, ProgramsInPlace
    <3>2. Installed(s) => Installed(s)'
      BY <1>2 DEF Installed
    <3>3. t = cs => Standing(t).at # "setup"
      BY <1>1, <1>a, StandingHere, PlaceFields
    <3>4. t \notin Started => Ancestry(t) = {}
      BY LineOfNone DEF SessionInv, BootInOrder, Ancestry
    <3> QED
      BY <1>2, <1>7, <1>13, <3>1, <3>2, <3>3, <3>4
  <2>2. Standing(cs)' = cpu'
    BY <1>2, <1>11, <1>a DEF Standing
  <2>3. ASSUME NEW t \in Terminals, NEW s \in Ancestry(t)'
        PROVE  image'[s] = s
               /\ ((s = htp'[t] /\ Standing(t)'.at = "setup") \/ Installed(s)')
    <3>1. CASE s \in Ancestry(t)
      BY <2>1, <3>1
    <3>2. CASE s \notin Ancestry(t)
      <4>1. t = cs /\ s = slot
        BY <1>8, <2>3, <3>2
      <4> QED
        BY <1>1, <1>2, <1>5, <1>7, <2>2, <4>1 DEF Standing
    <3> QED
      BY <3>1, <3>2
  <2> QED
    BY <2>3 DEF ProgramsInPlace
<1>17. CpuInPlace'
  BY <1>1, <1>2, <1>3, <1>8, <1>a, <1>b DEF SessionInv, CpuInPlace
<1>18. SlotsCounted'
  <2>1. pcb_slots' = Live'
    BY <1>1, <1>3, <1>9, <1>14, <1>b DEF SessionInv, SlotsCounted
  <2>2. process_count' <= MaxProc /\ process_count' = Cardinality(pcb_slots') + 0
    BY <1>1, <1>14 DEF SessionInv, SlotsCounted
  <2>3. Cardinality(Ancestry(cs)') = Cardinality(Ancestry(cs)) + 1
    <3>1. slot \notin Ancestry(cs) /\ Ancestry(cs) \in SUBSET Slots
      BY <1>5, ParentsType DEF Live
    <3>2. Ancestry(cs)' = Ancestry(cs) \cup {slot}
      BY <1>8
    <3> QED
      BY <3>1, <3>2, AddSlot
  <2>4. ASSUME NEW t \in Terminals
        PROVE  process_per_terminal'[t] = Cardinality(Ancestry(t)') + 0
    <3>1. process_per_terminal[t] = Cardinality(Ancestry(t))
                                    + IF t = cs THEN 1 ELSE 0
      BY <1>3, <1>4, <1>14 DEF SessionInv, SlotsCounted
    <3>2. Cardinality(Ancestry(t)) \in Nat
      BY ParentsType, SlotSetsFinite
    <3> QED
      BY <1>1, <1>8, <2>3, <3>1, <3>2
  <2> QED
    BY <1>1, <1>3, <1>14, <2>1, <2>2, <2>4 DEF SlotsCounted
<1>19. BootInOrder'
  <2>1. \A t \in Terminals \ Started' : htp'[t] = NoProc
    BY <1>4, <1>7, <1>13 DEF SessionInv, BootInOrder
  <2> QED
    BY <1>1, <1>2, <1>3, <1>4, <2>1, PointsApart DEF SessionInv, BootInOrder, Booted
<1> QED
  BY <1>10, <1>13, <1>15, <1>16, <1>17, <1>18, <1>19 DEF SessionInv

\* A program calls execute or halt: what its kernel entry leaves of the others.
LEMMA UserCallFrame ==
  ASSUME TypeOK, TypeOK', SessionInv, cpu.at = "user", pcb' = PcbOnEntry,
         UNCHANGED termVars,
         \A t \in Terminals \ {curr_scheduled} : htp'[t] = htp[t],
         \A t \in Terminals : Ancestry(t)' \subseteq Ancestry(t),
         StandsAt(curr_scheduled, Place(cpu))'
  PROVE  /\ Parents' = Parents /\ Started' = Started
         /\ StandingWell' /\ SavedInPlace'
         /\ \A t \in Started \ {curr_scheduled} : Standing(t)' = Standing(t)
         /\ \A t \in Terminals : \A s \in Ancestry(t) : Installed(s) => Installed(s)'
<1>1. Parents' = Parents
  BY EntryKeepsParents
<1>2. curr_scheduled \in Started
  BY HereUser
<1>3. ASSUME NEW t \in Started \ {curr_scheduled}
      PROVE  /\ htp'[t] = htp[t]
             /\ pcb'[htp[t]].ebp_scheduler = pcb[htp[t]].ebp_scheduler
             /\ Parents'[htp[t]] = Parents[htp[t]]
             /\ \A u \in Terminals \ {t} :
                  pcb[htp[t]].ebp_scheduler.stk \notin Ancestry(u)'
  BY <1>1, EntryKeepsSaved DEF SessionInv, SavedInPlace, SavedAt, Started
<1>4. \A t \in Terminals : \A s \in Ancestry(t) : Installed(s) => Installed(s)'
  BY EntryKeepsInstalled DEF Installed, Live
<1> QED
  BY <1>1, <1>2, <1>3, <1>4, OtherTerminals

LEMMA CallExecuteInv ==
  ASSUME Careful, TypeOK, TypeOK', SessionInv, CallExecute
  PROVE  SessionInv'
<1>1. /\ cpu.at = "user" /\ Booted
      /\ curr_scheduled = curr_terminal /\ switch_flag = 0
      /\ cpu' = Ctx("check", "user", cpu.proc, tss_esp0)
      /\ pcb' = PcbOnEntry
      /\ UNCHANGED <<termVars, procVars, page32, tss_esp0, image>>
  BY DEF CallExecute, Commanded, BootDone, Careful, Booted
<1>2. UNCHANGED <<htp, pcb_slots, process_count, process_per_terminal,
                  curr_scheduled, curr_terminal, switch_flag, total_terminal>>
  BY <1>1 DEF procVars, termVars
<1>3. /\ cpu'.at = "check" /\ cpu'.by = "user" /\ cpu'.proc = cpu.proc
      /\ cpu'.stk = cpu.proc
      /\ cpu'.at \in Early /\ cpu'.at \in ExecPoints
      /\ cpu'.at \notin Late \cup Mapped \cup Counted \cup Marked \cup {"user"}
  BY <1>1, CtxFields, HereUser DEF Early, ExecPoints, Late, Mapped, Counted, Marked
<1>4. /\ curr_scheduled \in Started /\ curr_scheduled \in Terminals
      /\ cpu.proc \in Slots /\ cpu.proc # NoProc
      /\ htp[curr_scheduled] = cpu.proc
      /\ page32 = cpu.proc /\ tss_esp0 = cpu.proc
      /\ Standing(curr_scheduled).at = "user"
  BY <1>1, HereUser, UserFields DEF TypeOK, Slots, NoProc
<1>5. Parents' = Parents
  BY <1>1, EntryKeepsParents
<1>6. /\ \A t \in Terminals : Ancestry(t)' = Ancestry(t)
      /\ Live' = Live /\ LinesApart'
  BY <1>2, <1>5, SameLines DEF SessionInv
<1>7. Place(cpu)' = cpu'
  BY <1>3 DEF Place
<1>8. StandsAt(curr_scheduled, Place(cpu))'
  <2>1. StandsAt(curr_scheduled, cpu)'
    BY <1>1, <1>2, <1>3, <1>4 DEF StandsAt
  <2> QED
    BY <1>7, <2>1 DEF StandsAt
<1>9. /\ Started' = Started /\ StandingWell' /\ SavedInPlace'
      /\ \A t \in Started \ {curr_scheduled} : Standing(t)' = Standing(t)
      /\ \A t \in Terminals : \A s \in Ancestry(t) : Installed(s) => Installed(s)'
  BY <1>1, <1>2, <1>6, <1>8, UserCallFrame
<1>10. Call.at = "user" /\ Call' = cpu'
  BY <1>1, <1>4, <1>7, <1>9, StandingHere, CallAfter
<1>11. CallClaims'
  BY <1>3, <1>10 DEF CallClaims, ClaimsOf
<1>12. ProgramsInPlace'
  <2>1. ASSUME NEW t \in Terminals, NEW s \in Ancestry(t)
        PROVE  /\ image'[s] = s
               /\ (s = htp'[t] /\ Standing(t)'.at = "setup") \/ Installed(s)'
    <3>1. t \notin Started => Ancestry(t) = {}
      BY LineOfNone DEF SessionInv, BootInOrder, Ancestry
    <3> QED
      BY <1>1, <1>2, <1>4, <1>9, <3>1 DEF SessionInv, ProgramsInPlace
  <2> QED
    BY <1>6, <2>1 DEF ProgramsInPlace
<1>13. CpuInPlace'
  BY <1>1, <1>3, <1>4 DEF CpuInPlace
<1>14. SlotsCounted'
  BY <1>2, <1>3, <1>6, <1>10 DEF SessionInv, SlotsCounted, Counted, Marked
<1>15. BootInOrder'
  BY <1>1, <1>2, <1>3, <1>9 DEF SessionInv, BootInOrder, Booted
<1> QED
  BY <1>6, <1>9, <1>11, <1>12, <1>13, <1>14, <1>15 DEF SessionInv

\* What a halt takes from the lines: the childmost process of its terminal.
LEMMA HaltLines ==
  ASSUME TypeOK, SessionInv, Parents' = Parents,
         NEW cs \in Terminals, htp[cs] \in Slots,
         htp' = [htp EXCEPT ![cs] = pcb[htp[cs]].parent]
  PROVE  /\ \A t \in Terminals \ {cs} : Ancestry(t)' = Ancestry(t)
         /\ Ancestry(cs)' = Ancestry(cs) \ {htp[cs]}
         /\ \A t \in Terminals : Ancestry(t)' \subseteq Ancestry(t)
         /\ htp[cs] \in Ancestry(cs)
         /\ Live' = Live \ {htp[cs]}
         /\ LinesApart'
<1> DEFINE top == htp[cs]
<1>1. /\ Parents \in [Slots -> SlotsOrNone]
      /\ Parents[top] = pcb[top].parent
  BY ParentsType
<1>2. htp'[cs] = Parents[top] /\ \A t \in Terminals \ {cs} : htp'[t] = htp[t]
  BY <1>1 DEF TypeOK
<1>3. \A t \in Terminals \ {cs} : Ancestry(t)' = Ancestry(t)
  BY <1>2 DEF Ancestry
<1>4. Ancestry(cs)' = Line(Parents, Parents[top])
  BY <1>2 DEF Ancestry
<1>5. top \in Ancestry(cs)
  BY LineContains DEF Ancestry
<1>6. top \notin Line(Parents, Parents[top])
  BY <1>5 DEF SessionInv, LinesApart
<1>7. Ancestry(cs) = {top} \cup Line(Parents, Parents[top])
  BY <1>1, LineUnfold DEF Ancestry
<1>8. Ancestry(cs)' = Ancestry(cs) \ {top}
  BY <1>4, <1>6, <1>7
<1>9. \A t \in Terminals : Ancestry(t)' \subseteq Ancestry(t)
  BY <1>3, <1>8
<1>10. \A t \in Terminals \ {cs} : top \notin Ancestry(t)
  BY <1>5 DEF SessionInv, LinesApart
<1>11. Live' = Live \ {top}
  BY <1>3, <1>8, <1>10 DEF Live
<1>12. LinesApart'
  BY <1>9 DEF SessionInv, LinesApart
<1> QED
  BY <1>3, <1>5, <1>8, <1>9, <1>11, <1>12

\* The slots of the terminals are entries of the table, and so is the one that
\* a halting process gives up.
LEMMA LiveInTable ==
  ASSUME TypeOK, SessionInv
  PROVE  /\ Live \subseteq Table
         /\ \A t \in Terminals : htp[t] \in Slots => htp[t] \in Live
<1>1. Live \subseteq pcb_slots
  BY DEF SessionInv, SlotsCounted
<1>2. \A t \in Terminals : htp[t] \in Slots => htp[t] \in Ancestry(t)
  BY LineContains DEF Ancestry
<1> QED
  BY <1>1, <1>2 DEF TypeOK, Live

LEMMA HaltsInTable ==
  ASSUME TypeOK, SessionInv, cpu.at = "user", ReleaseSlot(ToHalt)
  PROVE  /\ ToHalt \in Table
         /\ process_per_terminal' =
              [process_per_terminal EXCEPT ![curr_scheduled] = @ - 1]
<1>1. ToHalt \in Table
  BY HereUser, LiveInTable DEF ToHalt, TypeOK
<1> QED
  BY <1>1 DEF ReleaseSlot, CountsWith

LEMMA HaltRestartInv ==
  ASSUME Careful, TypeOK, TypeOK', SessionInv, HaltRestart
  PROVE  SessionInv'
<1>a. PICK cs \in Terminals : cs = curr_scheduled
  BY DEF TypeOK
<1>b. PICK top : top = htp[cs]
  OBVIOUS
<1>1. /\ cpu.at = "user" /\ Booted
      /\ curr_terminal = cs /\ switch_flag = 0
      /\ pcb[top].parent = NoProc
      /\ process_count' = process_count - 1
      /\ process_per_terminal' = [process_per_terminal EXCEPT ![cs] = @ - 1]
      /\ pcb_slots' = pcb_slots \ {top}
      /\ htp' = [htp EXCEPT ![cs] = NoProc]
      /\ cpu' = [Ctx("check", "halt", NoProc, tss_esp0) EXCEPT !.slot = top]
      /\ pcb' = PcbOnEntry
      /\ UNCHANGED <<termVars, page32, tss_esp0, image>>
      /\ top \in Table
  <2>1. cpu.at = "user" /\ ReleaseSlot(ToHalt) /\ ToHalt = top
    BY <1>a, <1>b DEF HaltRestart, ToHalt
  <2>2. /\ top \in Table
        /\ process_per_terminal' = [process_per_terminal EXCEPT ![cs] = @ - 1]
    BY <1>a, <2>1, HaltsInTable
  <2> QED
    BY <1>a, <1>b, <2>1, <2>2
    DEF HaltRestart, ReleaseSlot, ToHalt, Commanded, BootDone, Careful, Booted
<1>2. UNCHANGED <<curr_scheduled, curr_terminal, switch_flag, total_terminal>>
  BY <1>1 DEF termVars
<1>3. /\ cs \in Started
      /\ top \in Slots /\ tss_esp0 = top
      /\ Standing(cs).at = "user"
  BY <1>1, <1>a, <1>b, HereUser, UserFields
<1>4. /\ cpu'.at = "check" /\ cpu'.by = "halt" /\ cpu'.proc = NoProc
      /\ cpu'.stk = top /\ cpu'.slot = top
      /\ cpu'.at \in Early /\ cpu'.at \in ExecPoints
      /\ cpu'.at \notin Late \cup Mapped \cup Counted \cup Marked \cup {"user", "perterm"}
  BY <1>1, <1>3 DEF Ctx, Early, ExecPoints, Late, Mapped, Counted, Marked
<1>5. Parents' = Parents
  BY <1>1, EntryKeepsParents
<1>6. /\ \A t \in Terminals \ {cs} : Ancestry(t)' = Ancestry(t)
      /\ Ancestry(cs)' = Ancestry(cs) \ {top}
      /\ \A t \in Terminals : Ancestry(t)' \subseteq Ancestry(t)
      /\ top \in Ancestry(cs) /\ Live' = Live \ {top} /\ LinesApart'
  BY <1>1, <1>3, <1>5, <1>b, HaltLines
<1>7. Place(cpu)' = cpu'
  BY <1>4 DEF Place
<1>8. htp'[cs] = NoProc /\ \A t \in Terminals \ {cs} : htp'[t] = htp[t]
  BY <1>1 DEF TypeOK
<1>9. StandsAt(curr_scheduled, Place(cpu))'
  <2>1. StandsAt(cs, cpu)'
    BY <1>1, <1>2, <1>4, <1>8 DEF StandsAt
  <2> QED
    BY <1>2, <1>a, <1>7, <2>1 DEF StandsAt
<1>10. /\ Started' = Started /\ StandingWell' /\ SavedInPlace'
       /\ \A t \in Started \ {cs} : Standing(t)' = Standing(t)
       /\ \A t \in Terminals : \A s \in Ancestry(t) : Installed(s) => Installed(s)'
  BY <1>1, <1>6, <1>8, <1>9, <1>a, UserCallFrame
<1>11. Call.at = "user" /\ Call' = cpu'
  BY <1>1, <1>3, <1>7, <1>10, <1>a, PlaceFields, CallAfter
<1>12. SlotsCounted'
  <2>1. /\ pcb_slots = Live /\ process_count <= MaxProc
        /\ process_count = Cardinality(pcb_slots) + 0
    BY <1>11 DEF SessionInv, SlotsCounted, Marked
  <2>2. pcb_slots \in SUBSET Slots /\ Cardinality(pcb_slots) \in Nat
        /\ top \in pcb_slots
    BY <1>6, <2>1, SlotSetsFinite, TableInRange DEF TypeOK, Live
  <2>3. Cardinality(pcb_slots') = Cardinality(pcb_slots) - 1
    BY <1>1, <2>2, RemoveSlot
  <2>4. process_count' <= MaxProc /\ process_count' = Cardinality(pcb_slots') + 0
    BY <1>1, <2>1, <2>2, <2>3
  <2>5. ASSUME NEW t \in Terminals
        PROVE  process_per_terminal'[t] = Cardinality(Ancestry(t)') + 0
    <3>1. process_per_terminal[t] = Cardinality(Ancestry(t)) + 0
      BY <1>11 DEF SessionInv, SlotsCounted, Counted
    <3>2. Ancestry(t) \in SUBSET Slots /\ Cardinality(Ancestry(t)) \in Nat
      BY ParentsType, SlotSetsFinite
    <3>3. t = cs => Cardinality(Ancestry(t)') = Cardinality(Ancestry(t)) - 1
      BY <1>6, <3>2, RemoveSlot
    <3>4. process_per_terminal'[t] = process_per_terminal[t] - IF t = cs THEN 1 ELSE 0
      BY <1>1 DEF TypeOK
    <3> QED
      BY <1>6, <3>1, <3>2, <3>3, <3>4
  <2> QED
    BY <1>1, <1>4, <1>6, <1>11, <2>1, <2>4, <2>5 DEF SlotsCounted
<1>13. CallClaims'
  <2>1. process_count <= MaxProc /\ process_count \in Int
    BY DEF SessionInv, SlotsCounted, TypeOK
  <2>2. process_count' < MaxProc
    BY <1>1, <2>1
  <2> QED
    BY <1>1, <1>4, <1>11, <2>2 DEF CallClaims, ClaimsOf
<1>14. ProgramsInPlace'
  <2>1. ASSUME NEW t \in Terminals, NEW s \in Ancestry(t)'
        PROVE  /\ image'[s] = s
               /\ (s = htp'[t] /\ Standing(t)'.at = "setup") \/ Installed(s)'
    <3>1. s \in Ancestry(t) /\ (t # cs => htp'[t] = htp[t])
      BY <1>6, <1>8, <2>1
    <3>2. t \notin Started => Ancestry(t) = {}
      BY LineOfNone DEF SessionInv, BootInOrder, Ancestry
    <3>3. /\ image[s] = s
          /\ (s = htp[t] /\ Standing(t).at = "setup") \/ Installed(s)
      BY <3>1 DEF SessionInv, ProgramsInPlace
    <3> QED
      BY <1>1, <1>3, <1>10, <3>1, <3>2, <3>3
  <2> QED
    BY <2>1 DEF ProgramsInPlace
<1>15. CpuInPlace'
  <2>1. \A u \in Terminals \ {cs} : top \notin Ancestry(u)'
    BY <1>6 DEF SessionInv, LinesApart
  <2> QED
    BY <1>2, <1>4, <1>a, <2>1 DEF CpuInPlace
<1>16. BootInOrder'
  <2>1. \A t \in Terminals \ Started' : htp'[t] = NoProc
    BY <1>3, <1>8, <1>10 DEF SessionInv, BootInOrder
  <2>2. Booted' /\ total_terminal' # 0
    BY <1>1, <1>2 DEF Booted, TypeOK
  <2> QED
    BY <1>4, <2>1, <2>2 DEF BootInOrder
<1> QED
  BY <1>6, <1>10, <1>12, <1>13, <1>14, <1>15, <1>16 DEF SessionInv

LEMMA HaltToParentInv ==
  ASSUME Careful, TypeOK, TypeOK', SessionInv, HaltToParent
  PROVE  SessionInv'
<1>a. PICK cs \in Terminals : cs = curr_scheduled
  BY DEF TypeOK
<1>b. PICK top : top = htp[cs]
  OBVIOUS
<1>c. PICK up : up = pcb[top].parent
  OBVIOUS
<1>1. /\ cpu.at = "user" /\ Booted
      /\ up # NoProc
      /\ process_count' = process_count - 1
      /\ process_per_terminal' = [process_per_terminal EXCEPT ![cs] = @ - 1]
      /\ pcb_slots' = pcb_slots \ {top}
      /\ page32' = up
      /\ htp' = [htp EXCEPT ![cs] = up]
      /\ tss_esp0' = pcb[up].esp0
      /\ cpu' = [Ctx("hret", "halt", cpu.proc, tss_esp0) EXCEPT !.slot = top]
      /\ pcb' = PcbOnEntry
      /\ UNCHANGED <<termVars, image>>
      /\ top \in Table
  <2>1. cpu.at = "user" /\ ReleaseSlot(ToHalt) /\ ToHalt = top
    BY <1>a, <1>b DEF HaltToParent, ToHalt
  <2>2. /\ top \in Table
        /\ process_per_terminal' = [process_per_terminal EXCEPT ![cs] = @ - 1]
    BY <1>a, <2>1, HaltsInTable
  <2> QED
    BY <1>a, <1>b, <1>c, <2>1, <2>2
    DEF HaltToParent, ReleaseSlot, RestoreParent, ToHalt, BootDone, Careful, Booted
<1>2. UNCHANGED <<curr_scheduled, curr_terminal, switch_flag, total_terminal>>
  BY <1>1 DEF termVars
<1>3. /\ cs \in Started /\ curr_terminal \in Started
      /\ top \in Slots /\ tss_esp0 = top
      /\ Standing(cs).at = "user"
      /\ Installed(top)
  BY <1>1, <1>a, <1>b, HereUser, UserFields
<1>4. /\ cpu'.at = "hret" /\ cpu'.slot = top
      /\ cpu'.at \notin ExecPoints \cup Late \cup Early \cup Mapped \cup Counted
                        \cup Marked \cup {"user"}
  BY <1>1 DEF Ctx, Early, ExecPoints, Late, Mapped, Counted, Marked
<1>5. Parents' = Parents
  BY <1>1, EntryKeepsParents
<1>6. /\ \A t \in Terminals \ {cs} : Ancestry(t)' = Ancestry(t)
      /\ Ancestry(cs)' = Ancestry(cs) \ {top}
      /\ \A t \in Terminals : Ancestry(t)' \subseteq Ancestry(t)
      /\ top \in Ancestry(cs) /\ Live' = Live \ {top} /\ LinesApart'
  BY <1>1, <1>3, <1>5, <1>b, <1>c, HaltLines
<1>7. Place(cpu)' = cpu'
  BY <1>4 DEF Place
<1>8. htp'[cs] = up /\ \A t \in Terminals \ {cs} : htp'[t] = htp[t]
  BY <1>1 DEF TypeOK
<1>9. StandsAt(curr_scheduled, Place(cpu))'
  BY <1>4, <1>7 DEF StandsAt
<1>10. /\ Started' = Started /\ StandingWell' /\ SavedInPlace'
       /\ \A t \in Started \ {cs} : Standing(t)' = Standing(t)
       /\ \A t \in Terminals : \A s \in Ancestry(t) : Installed(s) => Installed(s)'
  BY <1>1, <1>6, <1>8, <1>9, <1>a, UserCallFrame
<1>11. /\ curr_terminal = cs => /\ Call.at = "user" /\ Call'.at = "hret"
       /\ curr_terminal # cs => Call' = Call
  <2>1. UNCHANGED termVars
    BY <1>1
  <2>2. \A t \in Started \ {curr_scheduled} : Standing(t)' = Standing(t)
    BY <1>10, <1>a
  <2>3. /\ curr_terminal = curr_scheduled => Call = Place(cpu) /\ Call' = Place(cpu)'
        /\ curr_terminal # curr_scheduled => Call' = Call
    BY <1>3, <2>1, <2>2, CallAfter
  <2>4. Place(cpu).at = "user"
    BY <1>1, PlaceFields
  <2>5. Place(cpu)'.at = "hret"
    BY <1>4, <1>7
  <2> QED
    BY <1>a, <2>3, <2>4, <2>5
<1>12. Call.at # "wrcount" /\ (curr_terminal # cs => Call.at \notin {"parent", "htp"})
  <2>1. ASSUME NEW t \in Started \ {cs}
        PROVE  Standing(t).at \notin {"wrcount", "parent", "htp"}
    BY <1>a, StandingThere, PlaceFields DEF SessionInv, SavedInPlace, SavedAt
  <2> QED
    BY <1>3, <1>11, <2>1 DEF Call
<1>13. process_count' < MaxProc
  <2>1. process_count <= MaxProc /\ process_count \in Int
    BY DEF SessionInv, SlotsCounted, TypeOK
  <2> QED
    BY <1>1, <2>1
<1>14. CallClaims'
  <2>1. CASE curr_terminal = cs
    BY <1>11, <2>1 DEF CallClaims, ClaimsOf, Marked
  <2>2. CASE curr_terminal # cs
    BY <1>1, <1>6, <1>11, <1>12, <1>13, <2>2
    DEF SessionInv, CallClaims, ClaimsOf
  <2> QED
    BY <2>1, <2>2
<1>15. SlotsCounted'
  <2>1. /\ (IF Call.at \in Marked THEN {Call.slot} ELSE {})'
             = IF Call.at \in Marked THEN {Call.slot} ELSE {}
        /\ (Call.at \in {"perterm", "scan", "mark"})'
             <=> Call.at \in {"perterm", "scan", "mark"}
        /\ (curr_terminal = cs => Call.at \notin Counted /\ Call'.at \notin Counted)
    BY <1>11 DEF Marked, Counted
  <2>2. Call.at \in Marked => Call.slot # top
    BY <1>6 DEF SessionInv, CallClaims, ClaimsOf, Live
  <2>3. /\ pcb_slots = Live \cup (IF Call.at \in Marked THEN {Call.slot} ELSE {})
        /\ process_count <= MaxProc
        /\ process_count = Cardinality(pcb_slots)
             + IF Call.at \in {"perterm", "scan", "mark"} THEN 1 ELSE 0
    BY DEF SessionInv, SlotsCounted
  <2>4. /\ pcb_slots \in SUBSET Slots /\ Cardinality(pcb_slots) \in Nat
        /\ top \in pcb_slots
    BY <1>6, <2>3, SlotSetsFinite, TableInRange DEF TypeOK, Live
  <2>5. Cardinality(pcb_slots') = Cardinality(pcb_slots) - 1
    BY <1>1, <2>4, RemoveSlot
  <2>6. pcb_slots' = Live' \cup (IF Call.at \in Marked THEN {Call.slot} ELSE {})'
    <3>1. CASE Call.at \in Marked
      BY <1>1, <1>6, <2>1, <2>2, <2>3, <3>1
    <3>2. CASE Call.at \notin Marked
      BY <1>1, <1>6, <2>1, <2>3, <3>2
    <3> QED
      BY <3>1, <3>2
  <2>7. /\ process_count' <= MaxProc
        /\ process_count' = Cardinality(pcb_slots')
             + IF Call'.at \in {"perterm", "scan", "mark"} THEN 1 ELSE 0
    BY <1>1, <2>1, <2>3, <2>4, <2>5
  <2>8. ASSUME NEW t \in Terminals
        PROVE  process_per_terminal'[t] = Cardinality(Ancestry(t)')
                 + IF t = curr_terminal' /\ Call'.at \in Counted THEN 1 ELSE 0
    <3>1. process_per_terminal[t] = Cardinality(Ancestry(t))
            + IF t = curr_terminal /\ Call.at \in Counted THEN 1 ELSE 0
      BY DEF SessionInv, SlotsCounted
    <3>2. Ancestry(t) \in SUBSET Slots /\ Cardinality(Ancestry(t)) \in Nat
      BY ParentsType, SlotSetsFinite
    <3>3. t = cs => Cardinality(Ancestry(t)') = Cardinality(Ancestry(t)) - 1
      BY <1>6, <3>2, RemoveSlot
    <3>4. process_per_terminal'[t] = process_per_terminal[t] - IF t = cs THEN 1 ELSE 0
      BY <1>1 DEF TypeOK
    <3>5. (t = curr_terminal' /\ Call'.at \in Counted)
            <=> (t = curr_terminal /\ Call.at \in Counted)
      BY <1>2, <1>11, <2>1
    <3>6. t = cs => ~(t = curr_terminal /\ Call.at \in Counted)
      BY <2>1
    <3>7. CASE t = cs
      BY <3>1, <3>2, <3>3, <3>4, <3>5, <3>6, <3>7
    <3>8. CASE t # cs
      BY <1>6, <3>1, <3>2, <3>4, <3>5, <3>8
    <3> QED
      BY <3>7, <3>8
  <2> QED
    BY <2>6, <2>7, <2>8 DEF SlotsCounted
<1>16. ProgramsInPlace'
  <2>1. ASSUME NEW t \in Terminals, NEW s \in Ancestry(t)'
        PROVE  /\ image'[s] = s
               /\ (s = htp'[t] /\ Standing(t)'.at = "setup") \/ Installed(s)'
    <3>1. s \in Ancestry(t) /\ (t # cs => htp'[t] = htp[t])
      BY <1>6, <1>8, <2>1
    <3>2. t \notin Started => Ancestry(t) = {}
      BY LineOfNone DEF SessionInv, BootInOrder, Ancestry
    <3>3. /\ image[s] = s
          /\ (s = htp[t] /\ Standing(t).at = "setup") \/ Installed(s)
      BY <3>1 DEF SessionInv, ProgramsInPlace
    <3> QED
      BY <1>1, <1>3, <1>10, <3>1, <3>2, <3>3
  <2> QED
    BY <2>1 DEF ProgramsInPlace
<1>17. CpuInPlace'
  <2>1. up \in Ancestry(cs)
    <3>1. Parents[top] = up /\ Parents \in [Slots -> SlotsOrNone]
      BY <1>3, <1>c, ParentsType
    <3>2. up \in Slots
      BY <1>1, <1>3, <3>1, SlotsInRange
    <3> QED
      BY <1>3, <1>b, <3>1, <3>2, LineContains, LineUnfold DEF Ancestry
  <2>2. tss_esp0' = up
    BY <1>1, <1>3, <2>1 DEF SessionInv, ProgramsInPlace, Installed
  <2>3. /\ pcb'[top].parent = up /\ pcb'[top].esp = Frame(up)
    BY <1>1, <1>3, <1>6, <1>c, EntryFields, EntryKeepsFrame DEF Installed
  <2>4. top \in Table \ Live'
    BY <1>1, <1>6
  <2> QED
    BY <1>1, <1>2, <1>4, <1>8, <1>a, <2>2, <2>3, <2>4 DEF CpuInPlace
<1>18. BootInOrder'
  <2>1. \A t \in Terminals \ Started' : htp'[t] = NoProc
    BY <1>3, <1>8, <1>10 DEF SessionInv, BootInOrder
  <2>2. Booted' /\ total_terminal' # 0
    BY <1>1, <1>2 DEF Booted, TypeOK
  <2> QED
    BY <1>4, <2>1, <2>2 DEF BootInOrder
<1> QED
  BY <1>6, <1>10, <1>14, <1>15, <1>16, <1>17, <1>18 DEF SessionInv

LEMMA HaltReturnInv ==
  ASSUME TypeOK, TypeOK', SlotsChosen, SessionInv, HaltReturn
  PROVE  SessionInv'
<1>a. PICK cs \in Terminals : cs = curr_scheduled
  BY DEF TypeOK
<1>b. PICK up : up = pcb[cpu.slot].parent
  OBVIOUS
<1>1. /\ cpu.at = "hret" /\ cpu.slot \in Slots
      /\ pcb' = [pcb EXCEPT ![cpu.slot].esp = Garbage]
      /\ UNCHANGED <<termVars, procVars, page32, tss_esp0, image>>
  BY DEF HaltReturn, SlotsChosen, SlotChosen, SlotUsed
<1>2. UNCHANGED <<htp, pcb_slots, process_count, process_per_terminal,
                  curr_scheduled, curr_terminal, switch_flag, total_terminal>>
  BY <1>1 DEF procVars, termVars
<1>3. /\ cpu.slot \notin Live
      /\ up # NoProc /\ page32 = up /\ tss_esp0 = up /\ htp[cs] = up
      /\ pcb[cpu.slot].esp = Frame(up)
  BY <1>1, <1>a, <1>b DEF SessionInv, CpuInPlace
<1>4. cpu' = User(up)
  BY <1>3 DEF HaltReturn, ReturnsTo, Frame, Ctx
<1>5. /\ cs \in Started /\ curr_terminal \in Started /\ total_terminal # 0
      /\ Standing(cs).at = "hret"
  BY <1>1, <1>a, Here, StandingHere, PlaceFields
<1>6. ASSUME NEW s \in Slots
      PROVE  /\ pcb'[s].ebp_scheduler = pcb[s].ebp_scheduler
             /\ pcb'[s].parent = pcb[s].parent
             /\ s # cpu.slot => pcb'[s] = pcb[s]
  BY <1>1 DEF TypeOK, PCB
<1>7. Parents' = Parents
  BY <1>6 DEF Parents
<1>8. /\ \A t \in Terminals : Ancestry(t)' = Ancestry(t)
      /\ Live' = Live /\ LinesApart'
  BY <1>2, <1>7, SameLines DEF SessionInv
<1>9. /\ Place(cpu)'.at = "user" /\ Place(cpu)'.proc = up
      /\ cpu'.at = "user" /\ cpu'.proc = up
  BY <1>4, UserFields DEF Place
<1>10. StandsAt(curr_scheduled, Place(cpu))'
  BY <1>2, <1>3, <1>9, <1>a DEF StandsAt, Early, Late, ExecPoints
<1>11. /\ Started' = Started /\ StandingWell' /\ SavedInPlace'
       /\ \A t \in Started \ {cs} : Standing(t)' = Standing(t)
  <2>1. ASSUME NEW t \in Started \ {cs}
        PROVE  /\ htp'[t] = htp[t]
               /\ pcb'[htp[t]].ebp_scheduler = pcb[htp[t]].ebp_scheduler
               /\ Parents'[htp[t]] = Parents[htp[t]]
               /\ \A u \in Terminals \ {t} :
                    pcb[htp[t]].ebp_scheduler.stk \notin Ancestry(u)'
    BY <1>2, <1>6, <1>7, <1>8, <1>a, EntryKeepsSaved
    DEF SessionInv, SavedInPlace, SavedAt
  <2> QED
    BY <1>1, <1>5, <1>10, <1>a, <2>1, OtherTerminals
<1>12. /\ curr_terminal = cs => /\ Call.at = "hret" /\ Call'.at = "user"
       /\ curr_terminal # cs => Call' = Call
  BY <1>1, <1>5, <1>9, <1>11, <1>a, PlaceFields, CallAfter
<1>13. CallClaims'
  <2>1. CASE curr_terminal = cs
    BY <1>12, <2>1 DEF CallClaims, ClaimsOf, Marked
  <2>2. CASE curr_terminal # cs
    BY <1>1, <1>2, <1>7, <1>8, <1>12, <2>2 DEF SessionInv, CallClaims, ClaimsOf
  <2> QED
    BY <2>1, <2>2
<1>14. ProgramsInPlace'
  <2>1. ASSUME NEW t \in Terminals, NEW s \in Ancestry(t)
        PROVE  /\ image'[s] = s
               /\ (s = htp'[t] /\ Standing(t)'.at = "setup") \/ Installed(s)'
    <3>1. /\ image[s] = s
          /\ (s = htp[t] /\ Standing(t).at = "setup") \/ Installed(s)
          /\ s \in Slots /\ s \in Live
      BY ParentsType DEF SessionInv, ProgramsInPlace, Live
    <3>2. Installed(s) => Installed(s)'
      BY <1>3, <1>6, <3>1 DEF Installed
    <3>3. t \notin Started => Ancestry(t) = {}
      BY LineOfNone DEF SessionInv, BootInOrder, Ancestry
    <3> QED
      BY <1>1, <1>2, <1>5, <1>11, <3>1, <3>2, <3>3
  <2> QED
    BY <1>8, <2>1 DEF ProgramsInPlace
<1>15. CpuInPlace'
  BY <1>1, <1>3, <1>9 DEF CpuInPlace, Early, Mapped, ExecPoints
<1>16. SlotsCounted'
  <2>1. CASE curr_terminal = cs
    BY <1>2, <1>8, <1>12, <2>1 DEF SessionInv, SlotsCounted, Marked, Counted
  <2>2. CASE curr_terminal # cs
    BY <1>2, <1>8, <1>12, <2>2 DEF SessionInv, SlotsCounted
  <2> QED
    BY <2>1, <2>2
<1>17. BootInOrder'
  <2>1. Booted
    BY <1>1 DEF SessionInv, BootInOrder, ExecPoints
  <2> QED
    BY <1>2, <1>5, <1>9, <1>11, <2>1 DEF SessionInv, BootInOrder, Booted
<1> QED
  BY <1>8, <1>11, <1>13, <1>14, <1>15, <1>16, <1>17 DEF SessionInv


-----------------------------------------------------------------------------
(* The invariant over all steps *)

LEMMA SessionInit == Init => SessionIInv
<1> SUFFICES ASSUME Init PROVE SessionIInv
  OBVIOUS
<1>1. TypeOK /\ SlotsChosen
  BY TypeInit, SlotsChosenInit
<1>2. /\ total_terminal = 0 /\ ~Booted /\ Started = {}
      /\ curr_terminal = 1 /\ curr_scheduled = 1 /\ curr_scheduled \in Terminals
      /\ cpu = Ctx("idle", "none", NoProc, 1)
      /\ \A t \in Terminals : htp[t] = NoProc
  BY DEF Init, Booted, Started, Terminals
<1>3. \A t \in Terminals : Ancestry(t) = {}
  BY <1>2, LineOfNone DEF Ancestry
<1>4. Live = {}
  BY <1>3 DEF Live
<1>5. cpu.at = "idle"
  BY <1>2, CtxFields
<1>6. Call.at = "idle"
  BY <1>2, <1>5, StandingHere, PlaceFields DEF Call
<1>7. BootInOrder
  <2>1. switch_flag = 0 /\ process_count = 0
    BY DEF Init
  <2>2. cpu.at \notin {"check", "rdcount", "wrcount"}
    BY <1>5
  <2>3. process_count = total_terminal
          - IF cpu.at \in {"check", "rdcount", "wrcount"} THEN 1 ELSE 0
    <3>1. total_terminal = 0 /\ process_count = 0 /\ 0 - 0 = 0
      BY <1>2, <2>1
    <3>2. (IF cpu.at \in {"check", "rdcount", "wrcount"} THEN 1 ELSE 0) = 0
      BY <2>2
    <3> QED
      BY <3>1, <3>2
  <2> QED
    BY <1>2, <1>5, <2>1, <2>3 DEF BootInOrder
<1>8. LinesApart /\ StandingWell /\ ProgramsInPlace /\ SavedInPlace
  <2>1. LinesApart
    BY <1>3 DEF LinesApart
  <2>2. ProgramsInPlace
    BY <1>3 DEF ProgramsInPlace
  <2>3. StandingWell /\ SavedInPlace
    BY <1>2 DEF StandingWell, SavedInPlace
  <2> QED
    BY <2>1, <2>2, <2>3
<1>9. CallClaims
  BY <1>6 DEF CallClaims, ClaimsOf, Marked
<1>10. CpuInPlace
  BY <1>5 DEF CpuInPlace, Early, Mapped, ExecPoints
<1>11. Cardinality({}) = 0
  BY FS_EmptySet
<1>12. SlotsCounted
  BY <1>3, <1>4, <1>6, <1>11 DEF Init, SlotsCounted, Marked, Counted
<1> QED
  BY <1>1, <1>7, <1>8, <1>9, <1>10, <1>12 DEF SessionIInv, SessionInv

LEMMA ExecuteStepInv ==
  ASSUME TypeOK, TypeOK', SlotsChosen, SessionInv, ExecuteStep
  PROVE  SessionInv'
  BY ExecuteRefusedInv, ExecuteFailsInv, ExecuteFoundInv, ExecuteReadCountInv,
     ExecuteWriteCountInv, ExecuteCountTerminalInv, ExecuteScanInv, ExecuteMarkInv, ExecutePageInv,
     ExecuteLoadInv, ExecuteParentInv, ExecuteHtpInv, ExecuteSetupInv,
     ExecuteSwitchInv
  DEF ExecuteStep

\* An exception handler loops with interrupts off: nothing moves any more.
LEMMA FaultStays ==
  ASSUME Careful, cpu.at = "fault", [Next]_vars
  PROVE  UNCHANGED vars
<1>1. ~Interruptible
  BY DEF Interruptible, Careful, SafePoints
<1>2. ~PitHandler /\ \A t \in Terminals : ~PressAltFn(t)
  BY <1>1 DEF PitHandler, PitStartShell, PitFinishBoot, PitSwitch, PitPrologue,
              PressAltFn
<1>3. ~ExecuteStep
  BY DEF ExecuteStep, ExecuteRefused, ExecuteFails, ExecuteFound,
         ExecuteReadCount, ExecuteWriteCount, ExecuteCountTerminal, ExecuteScan, ExecuteMark,
         ExecutePage, ExecuteLoad, ExecuteParent, ExecuteHtp, ExecuteSetup,
         ExecuteSwitch
<1>4. ~CallExecute /\ ~HaltCall /\ ~HaltReturn /\ ~Vidmap /\ ~RaiseException
  BY DEF CallExecute, HaltCall, HaltToParent, HaltRestart, HaltNothing,
         HaltReturn, Vidmap, RaiseException
<1> QED
  BY <1>2, <1>3, <1>4 DEF Next

LEMMA StutterInv ==
  ASSUME SessionInv, UNCHANGED vars
  PROVE  SessionInv'
<1>1. /\ UNCHANGED <<curr_scheduled, curr_terminal, switch_flag, total_terminal>>
      /\ UNCHANGED <<htp, pcb_slots, process_count, process_per_terminal>>
      /\ UNCHANGED <<pcb, page32, tss_esp0, image, cpu>>
  BY DEF vars, termVars, procVars, memVars
<1>2. Started' = Started /\ Parents' = Parents
  BY <1>1 DEF Started, Parents
<1>3. \A t : Ancestry(t)' = Ancestry(t)
  BY <1>1, <1>2 DEF Ancestry
<1>4. \A t : Standing(t)' = Standing(t)
  BY <1>1 DEF Standing
<1>5. Live' = Live /\ Call' = Call
  BY <1>1, <1>3, <1>4 DEF Live, Call
<1>6. BootInOrder'
  BY <1>1, <1>2 DEF SessionInv, BootInOrder, Booted
<1>7. LinesApart'
  BY <1>2, <1>3 DEF SessionInv, LinesApart
<1>8. StandingWell'
  BY <1>1, <1>2, <1>4 DEF SessionInv, StandingWell, StandsAt
<1>9. CallClaims'
  BY <1>1, <1>2, <1>5 DEF SessionInv, CallClaims, ClaimsOf
<1>10. ProgramsInPlace'
  BY <1>1, <1>3, <1>4 DEF SessionInv, ProgramsInPlace, Installed
<1>11. CpuInPlace'
  BY <1>1, <1>3, <1>5 DEF SessionInv, CpuInPlace
<1>12. SavedInPlace'
  BY <1>1, <1>2, <1>3 DEF SessionInv, SavedInPlace, SavedAt
<1>13. SlotsCounted'
  BY <1>1, <1>3, <1>5 DEF SessionInv, SlotsCounted
<1> QED
  BY <1>6, <1>7, <1>8, <1>9, <1>10, <1>11, <1>12, <1>13 DEF SessionInv

LEMMA SessionStep ==
  ASSUME Careful, SessionIInv, [Next]_vars
  PROVE  SessionIInv'
<1>1. TypeOK /\ SlotsChosen /\ TypeOK' /\ SlotsChosen'
  BY TypeStep, SlotsChosenStep DEF SessionIInv
<1>2. CASE Stopped
  <2>1. UNCHANGED cpu
    BY <1>2, FaultStays DEF Stopped, vars
  <2> QED
    BY <1>1, <1>2, <2>1 DEF SessionIInv, Stopped
<1>3. CASE ~Stopped
  <2>1. SessionInv
    BY <1>3 DEF SessionIInv
  <2>2. CASE PitHandler
    <3>1. ASSUME PitStartShell, total_terminal = 0 PROVE SessionInv'
      BY <1>1, <2>1, <3>1, FirstShellInv
    <3>2. ASSUME PitStartShell, total_terminal # 0 PROVE SessionInv'
      BY <1>1, <2>1, <3>2, NextShellInv
    <3>3. ASSUME PitFinishBoot PROVE SessionInv'
      BY <1>1, <2>1, <3>3, PitFinishBootInv
    <3>4. ASSUME PitSwitch PROVE SessionInv'
      BY <1>1, <2>1, <3>4, PitSwitchInv
    <3>5. SessionInv'
      BY <2>2, <3>1, <3>2, <3>3, <3>4 DEF PitHandler
    <3> QED
      BY <1>1, <3>5 DEF SessionIInv
  <2>3. ASSUME NEW t \in Terminals, PressAltFn(t) PROVE SessionInv'
    BY <1>1, <2>1, <2>3, PressAltFnInv
  <2>4. CASE CallExecute
    BY <1>1, <2>1, <2>4, CallExecuteInv DEF SessionIInv
  <2>5. CASE ExecuteStep
    BY <1>1, <2>1, <2>5, ExecuteStepInv DEF SessionIInv
  <2>6. CASE HaltToParent
    BY <1>1, <2>1, <2>6, HaltToParentInv DEF SessionIInv
  <2>7. CASE HaltRestart
    BY <1>1, <2>1, <2>7, HaltRestartInv DEF SessionIInv
  <2>8. ~HaltNothing
    <3>1. SUFFICES ASSUME HaltNothing PROVE FALSE
      OBVIOUS
    <3>2. htp[curr_scheduled] \in Slots
      BY <1>1, <2>1, <3>1, HereUser DEF HaltNothing
    <3> QED
      BY <3>1, <3>2 DEF HaltNothing, ToHalt, NoProc, Slots
  <2>9. CASE HaltReturn
    BY <1>1, <2>1, <2>9, HaltReturnInv DEF SessionIInv
  <2>10. CASE Vidmap
    BY <1>1, <2>1, <2>10, VidmapInv DEF SessionIInv
  <2>11. CASE RaiseException
    BY <1>1, <2>11 DEF RaiseException, Fault, Ctx, SessionIInv, Stopped
  <2>12. CASE UNCHANGED vars
    BY <1>1, <2>1, <2>12, StutterInv DEF SessionIInv
  <2> QED
    BY <1>1, <2>2, <2>3, <2>4, <2>5, <2>6, <2>7, <2>8, <2>9, <2>10, <2>11, <2>12
    DEF Next, HaltCall, SessionIInv
<1> QED
  BY <1>2, <1>3

\* A session that is well is at work.
LEMMA SessionAlive ==
  ASSUME TypeOK, SessionInv
  PROVE  Alive
<1>1. CASE total_terminal = 0
  BY <1>1 DEF SessionInv, BootInOrder, Alive
<1>2. CASE total_terminal # 0
  <2>1. curr_scheduled \in Started
    BY <1>2 DEF SessionInv, BootInOrder, Started, TypeOK, Booted, Terminals
  <2>2. StandsAt(curr_scheduled, Place(cpu))
    BY <2>1, Zenon DEF SessionInv, StandingWell, Standing
  <2>3. Place(cpu).at = cpu.at
    BY DEF Place, User, Ctx
  <2> QED
    BY <2>2, <2>3 DEF StandsAt, Alive, ExecPoints
<1> QED
  BY <1>1, <1>2

-----------------------------------------------------------------------------
(* The stacks of programs *)

LEMMA LeastNumber ==
  ASSUME NEW T, T \subseteq Nat, T # {}
  PROVE  \E n \in T : \A m \in T : n <= m
<1>1. \A x, y \in Nat : <<x, y>> \in OpToRel(<, Nat) <=> x < y
  BY DEF OpToRel
<1>2. PICK n \in T : \A m \in T : ~(<<m, n>> \in OpToRel(<, Nat))
  BY NatLessThanWellFounded, WFMin
<1>3. \A m \in T : ~(m < n)
  BY <1>1, <1>2, Zenon
<1> HIDE <1>1, <1>2
<1> QED
  BY <1>3, SMT

\* q lists x, its parent and so on to the bottom, n processes.
IsRow(q, n, x, up) ==
  /\ n \in 0 .. MaxProc + 1 /\ q \in [1 .. n -> Slots]
  /\ x = IF n = 0 THEN NoProc ELSE q[1]
  /\ \A i \in 1 .. n : up[q[i]] = IF i = n THEN NoProc ELSE q[i + 1]

\* A chain that ends is the one list of its processes.
LEMMA ChainIs ==
  ASSUME NEW up, NEW x, NEW n, NEW q, IsRow(q, n, x, up)
  PROVE  Chain(x, up) = q
<1> DEFINE Follows(f) ==
             f = [i \in 1 .. MaxProc + 1 |-> IF i = 1 THEN x
                                         ELSE IF f[i - 1] = NoProc THEN NoProc
                                         ELSE up[f[i - 1]]]
           closed == [i \in 1 .. MaxProc + 1 |-> IF i <= n THEN q[i] ELSE NoProc]
<1>1. /\ n \in 0 .. MaxProc + 1 /\ q \in [1 .. n -> Slots]
      /\ x = IF n = 0 THEN NoProc ELSE q[1]
      /\ \A i \in 1 .. n : up[q[i]] = IF i = n THEN NoProc ELSE q[i + 1]
  BY DEF IsRow
<1>2. NoProc \notin Slots
  BY DEF NoProc, Slots
<1>3. ASSUME NEW i \in 1 .. MaxProc + 1
      PROVE  closed[i] = IF i = 1 THEN x
                         ELSE IF closed[i - 1] = NoProc THEN NoProc
                         ELSE up[closed[i - 1]]
  <2>1. CASE i = 1
    BY <1>1, <2>1
  <2>2. CASE i # 1 /\ i - 1 <= n
    <3>1. i - 1 \in 1 .. n /\ i - 1 \in 1 .. MaxProc + 1 /\ (i - 1) + 1 = i
      BY <1>1, <2>2
    <3>2. closed[i - 1] = q[i - 1] /\ q[i - 1] \in Slots
      BY <1>1, <3>1
    <3>3. up[q[i - 1]] = IF i - 1 = n THEN NoProc ELSE q[i]
      BY <1>1, <3>1
    <3>4. closed[i] = IF i - 1 = n THEN NoProc ELSE q[i]
      BY <1>1, <3>1
    <3> QED
      BY <1>2, <2>2, <3>2, <3>3, <3>4
  <2>3. CASE i # 1 /\ ~(i - 1 <= n)
    BY <1>1, <2>3
  <2> QED
    BY <2>1, <2>2, <2>3
<1>4. Follows(closed)
  <2> DEFINE next(f) == [i \in 1 .. MaxProc + 1 |-> IF i = 1 THEN x
                                         ELSE IF f[i - 1] = NoProc THEN NoProc
                                         ELSE up[f[i - 1]]]
  <2>1. closed = [i \in 1 .. MaxProc + 1 |-> closed[i]]
    OBVIOUS
  <2> HIDE DEF closed
  <2> QED
    BY <1>3, <2>1, Zenon
<1>5. ASSUME NEW f, Follows(f)
      PROVE  \A i \in 1 .. MaxProc + 1 : f[i] = closed[i]
  <2> DEFINE wrong == {i \in 1 .. MaxProc + 1 : f[i] # closed[i]}
  <2> HIDE DEF closed
  <2>1. SUFFICES ASSUME wrong # {} PROVE FALSE
    OBVIOUS
  <2>2. wrong \subseteq Nat
    OBVIOUS
  <2>3. PICK i \in wrong : \A k \in wrong : i <= k
    <3> HIDE DEF wrong
    <3> QED
      BY <2>1, <2>2, LeastNumber
  <2>4. /\ f[i] = IF i = 1 THEN x ELSE IF f[i - 1] = NoProc THEN NoProc ELSE up[f[i - 1]]
        /\ closed[i] = IF i = 1 THEN x ELSE IF closed[i - 1] = NoProc THEN NoProc
                                       ELSE up[closed[i - 1]]
    <3>1. i \in 1 .. MaxProc + 1
      BY <2>3
    <3> HIDE <2>3
    <3> QED
      BY <1>3, <1>5, <3>1
  <2>5. CASE i = 1
    BY <2>3, <2>4, <2>5
  <2>6. CASE i # 1
    <3>1. i - 1 \in 1 .. MaxProc + 1 /\ i - 1 \notin wrong
      BY <2>3, <2>6
    <3>2. f[i - 1] = closed[i - 1]
      BY <3>1
    <3>3. f[i] = closed[i]
      BY <2>4, <2>6, <3>2
    <3> QED
      BY <2>3, <3>3
  <2> QED
    BY <2>5, <2>6
<1> DEFINE anc[i \in 1 .. MaxProc + 1] == IF i = 1 THEN x
                                      ELSE IF anc[i - 1] = NoProc THEN NoProc
                                      ELSE up[anc[i - 1]]
<1>6. anc = CHOOSE f : Follows(f)
  BY Zenon DEF anc
<1> HIDE DEF Follows
<1>7. Follows(anc)
  BY <1>4, <1>6, Zenon
<1> HIDE DEF anc
<1>8. \A i \in 1 .. MaxProc + 1 : anc[i] = IF i <= n THEN q[i] ELSE NoProc
  BY <1>5, <1>7
<1>9. {j \in 1 .. MaxProc + 1 : anc[j] # NoProc} = 1 .. n
  <2>1. \A j \in 1 .. n : j \in 1 .. MaxProc + 1 /\ q[j] \in Slots
    BY <1>1
  <2>2. \A j \in 1 .. MaxProc + 1 : j <= n <=> j \in 1 .. n
    BY <1>1
  <2> QED
    BY <1>2, <1>8, <2>1, <2>2
<1>10. Cardinality(1 .. n) = n
  BY <1>1, FS_Interval
<1>11. Chain(x, up) = [i \in 1 .. n |-> anc[i]]
  BY <1>9, <1>10, Zenon DEF Chain, Slots, anc
<1>12. \A i \in 1 .. n : anc[i] = q[i]
  BY <1>1, <1>8
<1>13. q = [i \in 1 .. n |-> q[i]]
  BY <1>1
<1> QED
  BY <1>11, <1>12, <1>13, Zenon
\* The row of a terminal: its processes from the childmost one to the bottom.
InRow(t, q) ==
  /\ q \in [1 .. Cardinality(Ancestry(t)) -> Ancestry(t)]
  /\ IsRow(q, Cardinality(Ancestry(t)), htp[t], Parents)
InRows == \A t \in Terminals : \E q : InRow(t, q)

LEMMA StackIs ==
  ASSUME NEW t \in Terminals, NEW q, InRow(t, q)
  PROVE  Stacks[t] = q
<1>1. Chain(htp[t], Parents) = q
  BY ChainIs DEF InRow
<1> QED
  BY <1>1 DEF Stacks

LEMMA NextStackIs ==
  ASSUME NEW t \in Terminals, NEW q, InRow(t, q)'
  PROVE  Stacks'[t] = q
<1>1. Chain(htp'[t], Parents') = q
  BY ChainIs DEF InRow
<1> QED
  BY <1>1 DEF Stacks

\* A row depends on the first process and on the parents of its own.
LEMMA RowStays ==
  ASSUME NEW t \in Terminals, NEW q, InRow(t, q),
         htp'[t] = htp[t], Ancestry(t)' = Ancestry(t),
         \A s \in Ancestry(t) : Parents'[s] = Parents[s]
  PROVE  InRow(t, q)'
<1> DEFINE n == Cardinality(Ancestry(t))
<1>1. /\ q \in [1 .. n -> Ancestry(t)]
      /\ IsRow(q, n, htp[t], Parents)
  BY DEF InRow
<1> HIDE DEF n
<1>2. \A i \in 1 .. n : Parents'[q[i]] = Parents[q[i]]
  BY <1>1
<1>3. IsRow(q, n, htp'[t], Parents')
  BY <1>1, <1>2 DEF IsRow
<1> QED
  BY <1>1, <1>3 DEF InRow, n

LEMMA OtherRows ==
  ASSUME InRows, NEW T \in SUBSET Terminals,
         \A t \in T : /\ htp'[t] = htp[t] /\ Ancestry(t)' = Ancestry(t)
                      /\ \A s \in Ancestry(t) : Parents'[s] = Parents[s]
  PROVE  \A t \in T : (\E q : InRow(t, q)') /\ Stacks'[t] = Stacks[t]
<1> SUFFICES ASSUME NEW t \in T
             PROVE  (\E q : InRow(t, q)') /\ Stacks'[t] = Stacks[t]
  OBVIOUS
<1>1. t \in Terminals
  OBVIOUS
<1>2. PICK q : InRow(t, q)
  BY <1>1 DEF InRows
<1>3. InRow(t, q)'
  BY <1>1, <1>2, RowStays
<1> QED
  BY <1>1, <1>2, <1>3, StackIs, NextStackIs

LEMMA SameRows ==
  ASSUME InRows,
         \A t \in Terminals : /\ htp'[t] = htp[t] /\ Ancestry(t)' = Ancestry(t)
                              /\ \A s \in Ancestry(t) : Parents'[s] = Parents[s]
  PROVE  InRows' /\ Stacks' = Stacks
<1>1. \A t \in Terminals : (\E q : InRow(t, q)') /\ Stacks'[t] = Stacks[t]
  BY OtherRows
<1>2. Stacks = [t \in Terminals |-> Stacks[t]] /\ Stacks' = [t \in Terminals |-> Stacks'[t]]
  BY DEF Stacks
<1>3. InRows'
  BY <1>1 DEF InRows
<1> QED
  BY <1>1, <1>2, <1>3, Zenon

\* The first of a row is the childmost process.
LEMMA RowTop ==
  ASSUME TypeOK, InRows, NEW t \in Terminals, htp[t] \in Slots
  PROVE  Stacks[t] # <<>> /\ Head(Stacks[t]) = htp[t]
<1>1. PICK q : InRow(t, q)
  BY DEF InRows
<1> DEFINE n == Cardinality(Ancestry(t))
<1>2. /\ n \in 0 .. MaxProc + 1 /\ q \in [1 .. n -> Slots]
      /\ htp[t] = IF n = 0 THEN NoProc ELSE q[1]
  BY <1>1 DEF InRow, IsRow
<1>3. n \in Nat /\ n # 0 /\ htp[t] = q[1]
  BY <1>2 DEF NoProc, Slots
<1> HIDE DEF n
<1>4. q \in Seq(Slots) /\ Len(q) = n
  BY <1>2, <1>3
<1> QED
  BY <1>1, <1>3, <1>4, StackIs

\* A new process goes on top of the row.
LEMMA RowPushed ==
  ASSUME TypeOK, NEW cs \in Terminals, NEW q, InRow(cs, q),
         NEW p \in Slots \ Ancestry(cs), Parents' = Parents,
         Parents[p] = htp[cs], htp'[cs] = p,
         Ancestry(cs)' = Ancestry(cs) \cup {p}
  PROVE  InRow(cs, <<p>> \o q)'
<1> DEFINE n == Cardinality(Ancestry(cs))
           r == <<p>> \o q
<1>1. /\ n \in 0 .. MaxProc + 1 /\ q \in [1 .. n -> Slots] /\ q \in [1 .. n -> Ancestry(cs)]
      /\ htp[cs] = IF n = 0 THEN NoProc ELSE q[1]
      /\ \A i \in 1 .. n : Parents[q[i]] = IF i = n THEN NoProc ELSE q[i + 1]
  BY DEF InRow, IsRow
<1>2. Ancestry(cs) \in SUBSET Slots /\ Ancestry(cs)' \in SUBSET Slots
  BY ParentsType
<1>3. Cardinality(Ancestry(cs)') = n + 1
  BY <1>2, AddSlot
<1>4. n + 1 <= MaxProc + 1
  <2>1. IsFiniteSet(Slots) /\ Cardinality(Slots) = MaxProc + 1
    BY SlotSetsFinite, AllSlotsCount
  <2>2. Cardinality(Ancestry(cs)') <= MaxProc + 1
    BY <1>2, <2>1, FS_Subset
  <2> QED
    BY <1>3, <2>2
<1> HIDE DEF n
<1>5. r \in [1 .. n + 1 -> Ancestry(cs)'] /\ r[1] = p /\ \A i \in 1 .. n : r[i + 1] = q[i]
  <2>1. q \in Seq(Ancestry(cs)') /\ <<p>> \in Seq(Ancestry(cs)') /\ Len(q) = n /\ Len(<<p>>) = 1
    BY <1>1
  <2>2. /\ r \in Seq(Ancestry(cs)') /\ Len(r) = n + 1
        /\ \A i \in 1 .. n + 1 : r[i] = IF i <= 1 THEN <<p>>[i] ELSE q[i - 1]
    BY <1>1, <2>1
  <2>3. r \in [1 .. n + 1 -> Ancestry(cs)']
    <3> HIDE DEF r
    <3> QED
      BY <1>1, <2>2
  <2>4. r[1] = p /\ \A i \in 1 .. n : r[i + 1] = q[i]
    <3>1. r[1] = p
      BY <1>1, <2>2
    <3>2. ASSUME NEW i \in 1 .. n PROVE r[i + 1] = q[i]
      <4>1. i + 1 \in 1 .. n + 1 /\ ~(i + 1 <= 1) /\ (i + 1) - 1 = i
        BY <1>1
      <4> QED
        BY <2>2, <4>1
    <3> QED
      BY <3>1, <3>2
  <2> QED
    BY <2>3, <2>4
<1> HIDE DEF r
<1>6. ASSUME NEW i \in 1 .. n + 1
      PROVE  Parents[r[i]] = IF i = n + 1 THEN NoProc ELSE r[i + 1]
  <2>1. CASE i = 1
    <3>1. CASE n = 0
      BY <1>1, <1>5, <2>1, <3>1
    <3>2. CASE n # 0
      <4>1. 1 \in 1 .. n /\ i # n + 1
        BY <1>1, <2>1, <3>2
      <4> QED
        BY <1>1, <1>5, <2>1, <3>2, <4>1
    <3> QED
      BY <3>1, <3>2
  <2>2. CASE i # 1
    <3>1. i - 1 \in 1 .. n /\ (i - 1) + 1 = i /\ (i = n + 1 <=> i - 1 = n)
      BY <1>1, <2>2
    <3>2. r[i] = q[i - 1]
      BY <1>5, <3>1
    <3>3. Parents[q[i - 1]] = IF i - 1 = n THEN NoProc ELSE q[i]
      BY <1>1, <3>1
    <3>4. i # n + 1 => i \in 1 .. n /\ r[i + 1] = q[i]
      BY <1>1, <1>5
    <3> QED
      BY <3>1, <3>2, <3>3, <3>4
  <2> QED
    BY <2>1, <2>2
<1>7. IsRow(r, n + 1, p, Parents')
  <2>1. r \in [1 .. n + 1 -> Slots] /\ n + 1 \in 0 .. MaxProc + 1 /\ n + 1 # 0
    BY <1>1, <1>2, <1>4, <1>5
  <2> QED
    BY <1>5, <1>6, <2>1 DEF IsRow
<1> QED
  BY <1>3, <1>5, <1>7 DEF InRow, r

\* Without its top the row is the one of the parent.
LEMMA RowPopped ==
  ASSUME TypeOK, SessionInv, NEW cs \in Terminals, NEW q, InRow(cs, q),
         htp[cs] \in Slots, Parents' = Parents,
         htp'[cs] = Parents[htp[cs]],
         Ancestry(cs)' = Ancestry(cs) \ {htp[cs]}
  PROVE  /\ InRow(cs, Tail(q))'
         /\ Len(q) = 1 <=> Parents[htp[cs]] = NoProc
<1> DEFINE n == Cardinality(Ancestry(cs))
           r == Tail(q)
<1>1. /\ n \in 0 .. MaxProc + 1 /\ q \in [1 .. n -> Slots] /\ q \in [1 .. n -> Ancestry(cs)]
      /\ htp[cs] = IF n = 0 THEN NoProc ELSE q[1]
      /\ \A i \in 1 .. n : Parents[q[i]] = IF i = n THEN NoProc ELSE q[i + 1]
  BY DEF InRow, IsRow
<1>2. n \in Nat /\ n # 0 /\ htp[cs] = q[1]
  BY <1>1 DEF NoProc, Slots
<1>3. Ancestry(cs) \in SUBSET Slots /\ htp[cs] \in Ancestry(cs)
  BY ParentsType, LineContains DEF Ancestry
<1>4. Cardinality(Ancestry(cs)') = n - 1
  BY <1>3, RemoveSlot
<1> HIDE DEF n
<1>5. ASSUME NEW i \in 1 .. n - 1
      PROVE  q[i + 1] \in Ancestry(cs) \ {htp[cs]}
  <2>1. i \in 1 .. n /\ i # n /\ i + 1 \in 1 .. n
    BY <1>2
  <2>2. q[i] \in Ancestry(cs) /\ q[i + 1] \in Ancestry(cs) /\ Parents[q[i]] = q[i + 1]
    BY <1>1, <2>1
  <2>3. Parents[q[i]] # htp[cs]
    BY <2>2, TopIsNoParent
  <2> QED
    BY <2>2, <2>3
<1>6. r \in [1 .. n - 1 -> Ancestry(cs)'] /\ \A i \in 1 .. n - 1 : r[i] = q[i + 1]
  <2>1. q \in Seq(Slots) /\ Len(q) = n /\ q # <<>>
    BY <1>1, <1>2
  <2>2. /\ r \in Seq(Slots) /\ Len(r) = n - 1
        /\ \A i \in 1 .. n - 1 : r[i] = q[i + 1]
    BY <1>2, <2>1
  <2>3. \A i \in 1 .. n - 1 : r[i] \in Ancestry(cs)'
    BY <1>5, <2>2
  <2> HIDE DEF r
  <2>4. r = [i \in 1 .. n - 1 |-> r[i]]
    BY <1>2, <2>2
  <2> QED
    BY <2>2, <2>3, <2>4
<1>7. Len(q) = n
  BY <1>1, <1>2
<1> HIDE DEF r
<1>8. 1 \in 1 .. n /\ Parents[q[1]] = IF 1 = n THEN NoProc ELSE q[2]
  BY <1>1, <1>2
<1>9. n # 1 => q[2] \in Slots /\ q[2] = r[1] /\ 1 \in 1 .. n - 1
  BY <1>1, <1>2, <1>6
<1>10. n = 1 <=> Parents[htp[cs]] = NoProc
  BY <1>2, <1>8, <1>9 DEF NoProc, Slots
<1>11. ASSUME NEW i \in 1 .. n - 1
       PROVE  Parents[r[i]] = IF i = n - 1 THEN NoProc ELSE r[i + 1]
  <2>1. i + 1 \in 1 .. n /\ (i + 1 = n <=> i = n - 1)
    BY <1>2
  <2>2. r[i] = q[i + 1] /\ Parents[q[i + 1]] = IF i + 1 = n THEN NoProc ELSE q[(i + 1) + 1]
    BY <1>1, <1>6, <2>1
  <2>3. i # n - 1 => i + 1 \in 1 .. n - 1 /\ r[i + 1] = q[(i + 1) + 1]
    BY <1>2, <1>6
  <2> QED
    BY <2>1, <2>2, <2>3
<1>12. IsRow(r, n - 1, htp'[cs], Parents')
  <2>1. r \in [1 .. n - 1 -> Slots] /\ n - 1 \in 0 .. MaxProc + 1
    <3>1. \A i \in 1 .. n - 1 : i + 1 \in 1 .. n /\ q[i + 1] \in Slots
      BY <1>1, <1>2
    <3>2. \A i \in 1 .. n - 1 : r[i] \in Slots
      BY <1>6, <3>1
    <3> QED
      BY <1>1, <1>2, <1>6, <3>2
  <2>2. htp'[cs] = IF n - 1 = 0 THEN NoProc ELSE r[1]
    BY <1>2, <1>8, <1>9
  <2> QED
    BY <1>11, <2>1, <2>2 DEF IsRow
<1> QED
  BY <1>4, <1>6, <1>7, <1>10, <1>12 DEF InRow, r

-----------------------------------------------------------------------------
(* What is seen of a step *)

LEMMA StageIs ==
  /\ StageOf("user") = "user" /\ StageOf("fault") = "stopped"
  /\ \A at \in Early : StageOf(at) = "call"
  /\ \A at \in Late \cup {"hret"} : StageOf(at) = "enter"
  BY DEF StageOf, Early, Late

LEMMA StageHere ==
  ASSUME curr_scheduled \in Started
  PROVE  Stages[curr_scheduled] = StageOf(cpu.at)
<1>1. curr_scheduled \in Terminals
  BY DEF Started
<1>2. Standing(curr_scheduled).at = cpu.at
  BY StandingHere, PlaceFields
<1> QED
  BY <1>1, <1>2 DEF Stages

\* A step on behalf of the scheduled terminal.
LEMMA StageSteps ==
  ASSUME curr_scheduled \in Started, curr_scheduled' = curr_scheduled,
         Started' = Started,
         \A t \in Started \ {curr_scheduled} : Standing(t)' = Standing(t)
  PROVE  Stages' = [Stages EXCEPT ![curr_scheduled] = StageOf(cpu'.at)]
<1>1. Standing(curr_scheduled)' = Place(cpu')
  BY DEF Standing
<1>2. Place(cpu').at = cpu'.at
  BY PlaceFields
<1> DEFINE cs == curr_scheduled
           Now(t) == IF t \in Started THEN StageOf(Standing(t).at) ELSE "off"
           Later(t) == IF t \in Started THEN StageOf(Standing(t)'.at) ELSE "off"
<1>3. Stages = [t \in Terminals |-> Now(t)] /\ Stages' = [t \in Terminals |-> Later(t)]
  BY DEF Stages
<1>4. \A t \in Terminals : Later(t) = IF t = cs THEN StageOf(cpu'.at) ELSE Now(t)
  BY <1>1, <1>2
<1> HIDE DEF Now, Later
<1> QED
  BY <1>3, <1>4

LEMMA Seen ==
  ASSUME TypeOK, TypeOK', SessionInv, InRows, total_terminal # 0,
         curr_scheduled' = curr_scheduled, htp' = htp, Started' = Started,
         \A s \in Live : Parents'[s] = Parents[s],
         \A t \in Started \ {curr_scheduled} :
           pcb'[htp[t]].ebp_scheduler = pcb[htp[t]].ebp_scheduler
  PROVE  /\ InRows' /\ Stacks' = Stacks
         /\ Stages[curr_scheduled] = StageOf(cpu.at)
         /\ Stages' = [Stages EXCEPT ![curr_scheduled] = StageOf(cpu'.at)]
         /\ StageOf(cpu'.at) = StageOf(cpu.at) => Stages' = Stages
<1>1. curr_scheduled \in Started
  BY StartedTerminals
<1>2. \A t \in Terminals : Ancestry(t)' = Ancestry(t)
  BY DeadSlotLines
<1>3. InRows' /\ Stacks' = Stacks
  BY <1>2, SameRows DEF Live
<1>4. \A t \in Started \ {curr_scheduled} : Standing(t)' = Standing(t)
  BY DEF Standing
<1>5. Stages' = [Stages EXCEPT ![curr_scheduled] = StageOf(cpu'.at)]
  BY <1>1, <1>4, StageSteps
<1>6. Stages[curr_scheduled] = StageOf(cpu.at)
  BY <1>1, StageHere
<1>7. StageOf(cpu'.at) = StageOf(cpu.at) => Stages' = Stages
  BY <1>5, <1>6 DEF Stages
<1> QED
  BY <1>3, <1>5, <1>6, <1>7

\* An entry into the kernel scrubs no saved context and no parent.
LEMMA EntrySeen ==
  ASSUME TypeOK, TypeOK', SessionInv, InRows, total_terminal # 0,
         curr_scheduled' = curr_scheduled, htp' = htp, Started' = Started,
         pcb' = PcbOnEntry \/ pcb' = pcb
  PROVE  /\ InRows' /\ Stacks' = Stacks
         /\ Stages[curr_scheduled] = StageOf(cpu.at)
         /\ Stages' = [Stages EXCEPT ![curr_scheduled] = StageOf(cpu'.at)]
         /\ StageOf(cpu'.at) = StageOf(cpu.at) => Stages' = Stages
<1>1. Parents' = Parents
  BY EntryKeepsParents DEF Parents
<1>2. \A t \in Started \ {curr_scheduled} :
        pcb'[htp[t]].ebp_scheduler = pcb[htp[t]].ebp_scheduler
  BY EntryKeepsSaved
<1> QED
  BY <1>1, <1>2, Seen

\* The childmost process of a terminal has its program in its page.
LEMMA TopRuns ==
  ASSUME TypeOK, SessionInv, InRows, NEW t \in Terminals, htp[t] \in Slots
  PROVE  /\ Stacks[t] # <<>> /\ Head(Stacks[t]) = htp[t]
         /\ image[htp[t]] = htp[t]
<1>1. htp[t] \in Ancestry(t)
  BY LineContains DEF Ancestry
<1>2. image[htp[t]] = htp[t]
  BY <1>1 DEF SessionInv, ProgramsInPlace
<1> QED
  BY <1>2, RowTop

-----------------------------------------------------------------------------
(* The steps that nobody sees *)

LEMMA PressAltFnUnseen ==
  ASSUME Careful, TypeOK, TypeOK', SessionInv, InRows,
         NEW k \in Terminals, PressAltFn(k)
  PROVE  InRows' /\ UNCHANGED SE!vars
<1>1. /\ total_terminal # 0 /\ Started' = Started /\ pcb' = PcbOnEntry
      /\ UNCHANGED <<curr_scheduled, htp, cpu, page32, image>>
  <2>1. total_terminal > NT
    BY DEF PressAltFn, BootDone, Careful
  <2>2. total_terminal # 0
    BY <2>1 DEF TypeOK
  <2> QED
    BY <2>2 DEF PressAltFn, Started, procVars
<1>2. InRows' /\ Stacks' = Stacks /\ Stages' = Stages
  BY <1>1, EntrySeen
<1>3. Running' = Running
  BY <1>1 DEF Running
<1> QED
  BY <1>1, <1>2, <1>3 DEF SE!vars

LEMMA VidmapUnseen ==
  ASSUME TypeOK, TypeOK', SessionInv, InRows, Vidmap
  PROVE  InRows' /\ UNCHANGED SE!vars
<1>1. /\ total_terminal # 0 /\ Started' = Started /\ pcb' = PcbOnEntry
      /\ UNCHANGED <<curr_scheduled, htp, cpu, page32, image>>
  BY HereUser DEF Vidmap, Started, procVars
<1>2. InRows' /\ Stacks' = Stacks /\ Stages' = Stages
  BY <1>1, EntrySeen
<1>3. Running' = Running
  BY <1>1 DEF Running
<1> QED
  BY <1>1, <1>2, <1>3 DEF SE!vars

LEMMA PitFinishBootUnseen ==
  ASSUME TypeOK, TypeOK', SessionInv, InRows, PitFinishBoot
  PROVE  InRows' /\ UNCHANGED SE!vars
<1>1. /\ total_terminal = NT /\ total_terminal' = NT + 1 /\ pcb' = PcbOnEntry
      /\ curr_scheduled' = NT
      /\ UNCHANGED <<htp, cpu, page32, image>>
  BY DEF PitFinishBoot, AllCreated, PitPrologue, procVars
<1>2. total_terminal # 0 /\ Started = Terminals /\ Started' = Terminals
  BY <1>1 DEF Started, Terminals
<1>3. curr_scheduled = NT
  BY <1>1, <1>2 DEF SessionInv, BootInOrder, Booted
<1>4. InRows' /\ Stacks' = Stacks /\ Stages' = Stages
  BY <1>1, <1>2, <1>3, EntrySeen
<1>5. Running' = Running
  BY <1>1 DEF Running
<1> QED
  BY <1>1, <1>3, <1>4, <1>5 DEF SE!vars

\* A step of execute from one point to another that is like it.
LEMMA ExecuteUnseen ==
  ASSUME TypeOK, TypeOK', SlotsChosen, SessionInv, SessionInv', InRows,
         \/ ExecuteFound \/ ExecuteReadCount \/ ExecuteWriteCount
         \/ ExecuteCountTerminal \/ ExecuteScan \/ ExecuteMark \/ ExecutePage
         \/ ExecuteLoad \/ ExecuteParent \/ ExecuteSetup
  PROVE  InRows' /\ UNCHANGED SE!vars
<1>1. /\ \/ cpu.at \in Early /\ cpu'.at \in Early
         \/ cpu.at \in Late /\ cpu'.at \in Late
      /\ UNCHANGED <<termVars, htp>>
      /\ UNCHANGED pcb \/ ExecuteParent \/ ExecuteSetup
  <2>1. CASE ExecuteFound
    BY <2>1, GotoFields DEF ExecuteFound, procVars, memVars, Early
  <2>2. CASE ExecuteReadCount
    BY <2>2 DEF ExecuteReadCount, procVars, memVars, Early, TypeOK, Context
  <2>3. CASE ExecuteWriteCount
    BY <2>3 DEF ExecuteWriteCount, memVars, Early, TypeOK, Context
  <2>4. CASE ExecuteScan
    BY <2>4 DEF ExecuteScan, procVars, memVars, Early, TypeOK, Context
  <2>5. CASE ExecuteMark
    BY <2>5, GotoFields DEF ExecuteMark, memVars, Early
  <2>6. CASE ExecutePage
    BY <2>6, GotoFields DEF ExecutePage, procVars, Early
  <2>7. CASE ExecuteLoad
    BY <2>7, GotoFields DEF ExecuteLoad, procVars, Early
  <2>8. CASE ExecuteParent
    BY <2>8, GotoFields DEF ExecuteParent, procVars, Early
  <2>9. CASE ExecuteSetup
    BY <2>9, GotoFields DEF ExecuteSetup, procVars, Late
  <2>10. CASE ExecuteCountTerminal
    BY <2>10, GotoFields DEF ExecuteCountTerminal, memVars, Early
  <2> QED
    BY <2>1, <2>2, <2>3, <2>4, <2>5, <2>6, <2>7, <2>8, <2>9, <2>10
<1>2. cpu.at \in ExecPoints /\ cpu.at # "user"
  BY <1>1, PointsApart
<1>3. /\ total_terminal # 0 /\ Started' = Started /\ curr_scheduled' = curr_scheduled
      /\ curr_scheduled \in Started
      /\ ClaimsOf(cpu)
  BY <1>1, <1>2, HereExec DEF termVars, Started
<1>4. cpu'.at # "wild"
  BY <1>1, PointsApart DEF Early, Late
<1>5. StageOf(cpu'.at) = StageOf(cpu.at) /\ cpu'.at # "user"
  BY <1>1, <1>4, StageIs DEF Early, Late
<1>6. /\ \A s \in Live : Parents'[s] = Parents[s]
      /\ \A s \in Slots : pcb'[s].ebp_scheduler = pcb[s].ebp_scheduler
  <2>1. CASE UNCHANGED pcb
    BY <2>1 DEF Parents
  <2>2. CASE ExecuteParent
    <3>1. cpu.slot \in Slots /\ cpu.slot \notin Live /\ Live \in SUBSET Slots
      BY <1>3, <2>2, ParentsType
      DEF ExecuteParent, ClaimsOf, Marked, SlotsChosen, SlotChosen, SlotUsed
    <3>2. ASSUME NEW s \in Slots
          PROVE  /\ s # cpu.slot => pcb'[s].parent = pcb[s].parent
                 /\ pcb'[s].ebp_scheduler = pcb[s].ebp_scheduler
      BY <2>2, <3>1 DEF ExecuteParent, TypeOK, PCB
    <3> QED
      BY <3>1, <3>2 DEF Parents
  <2>3. CASE ExecuteSetup
    <3>1. cpu.slot \in Slots
      BY <2>3 DEF ExecuteSetup, SlotsChosen, SlotChosen, SlotUsed
    <3>2. ASSUME NEW s \in Slots
          PROVE  /\ pcb'[s].parent = pcb[s].parent
                 /\ pcb'[s].ebp_scheduler = pcb[s].ebp_scheduler
      BY <2>3, <3>1 DEF ExecuteSetup, TypeOK, PCB
    <3> QED
      BY <3>2, ParentsType DEF Parents
  <2> QED
    BY <1>1, <2>1, <2>2, <2>3
<1>7. \A t \in Started \ {curr_scheduled} : htp[t] \in Slots
  BY EntryKeepsSaved
<1>8. InRows' /\ Stacks' = Stacks /\ Stages' = Stages
  BY <1>1, <1>3, <1>5, <1>6, <1>7, Seen
<1>9. Running' = Running
  BY <1>2, <1>5 DEF Running
<1> QED
  BY <1>3, <1>8, <1>9 DEF SE!vars

-----------------------------------------------------------------------------
(* The steps of the sessions *)

LEMMA StartMaps == Init => InRows /\ SE!Init
<1> SUFFICES ASSUME Init PROVE InRows /\ SE!Init
  OBVIOUS
<1>1. /\ curr_scheduled = 1 /\ cpu.at = "idle" /\ total_terminal = 0
      /\ \A t \in Terminals : htp[t] = NoProc
  BY CtxFields DEF Init
<1>2. ASSUME NEW t \in Terminals
      PROVE  InRow(t, <<>>)
  <2>1. Ancestry(t) = {}
    BY <1>1, LineOfNone DEF Ancestry
  <2>2. Cardinality(Ancestry(t)) = 0
    BY <2>1, FS_EmptySet
  <2>3. \A S : <<>> \in [1 .. 0 -> S]
    OBVIOUS
  <2>4. IsRow(<<>>, 0, htp[t], Parents)
    BY <1>1, <2>3 DEF IsRow
  <2> QED
    BY <2>1, <2>2, <2>3, <2>4 DEF InRow
<1>3. \A t \in Terminals : Stacks[t] = <<>>
  BY <1>2, StackIs
<1>4. Stacks = [t \in Terminals |-> <<>>]
  BY <1>3 DEF Stacks
<1>5. Started = {}
  BY <1>1 DEF Started, Terminals
<1>6. Stages = [t \in Terminals |-> "off"]
  BY <1>5 DEF Stages
<1>7. Running = NoProc
  BY <1>1 DEF Running
<1> QED
  BY <1>1, <1>2, <1>4, <1>6, <1>7 DEF SE!Init, InRows, Terminals, SE!Terminals

LEMMA CallMaps ==
  ASSUME TypeOK, TypeOK', SessionInv, InRows, CallExecute
  PROVE  InRows' /\ SE!Call
<1>1. /\ cpu.at = "user" /\ cpu'.at = "check" /\ pcb' = PcbOnEntry
      /\ UNCHANGED <<curr_scheduled, total_terminal, htp>>
  BY CtxFields DEF CallExecute, termVars, procVars
<1>2. total_terminal # 0 /\ Started' = Started
  BY <1>1, HereUser DEF Started
<1>3. /\ InRows' /\ Stacks' = Stacks
      /\ Stages[curr_scheduled] = "user"
      /\ Stages' = [Stages EXCEPT ![curr_scheduled] = "call"]
  BY <1>1, <1>2, EntrySeen, StageIs DEF Early
<1>4. Running' = NoProc
  BY <1>1 DEF Running
<1> QED
  BY <1>1, <1>3, <1>4 DEF SE!Call

\* Both answers of execute that start nothing leave the program that called it.
LEMMA RefuseMaps ==
  ASSUME TypeOK, TypeOK', SessionInv, InRows, ExecuteRefused \/ ExecuteFails
  PROVE  InRows' /\ SE!Refuse
<1>1. /\ cpu.at = "check" /\ cpu.at \in Early /\ cpu.at \in ExecPoints /\ cpu.at \notin Mapped
      /\ UNCHANGED <<curr_scheduled, total_terminal, htp, pcb, page32, image>>
      /\ cpu.by = "user"
  <2>1. /\ cpu.at = "check" /\ cpu.at \in Early /\ cpu.at \in ExecPoints
        /\ cpu.at \notin Mapped
    BY DEF ExecuteRefused, ExecuteFails, Early, ExecPoints, Mapped
  <2>2. cpu.by = "user"
    <3>1. CASE ExecuteRefused
      <4>1. ClaimsOf(cpu)
        BY <2>1, HereExec
      <4> QED
        BY <2>1, <3>1, <4>1 DEF ClaimsOf, ExecuteRefused, LimitReached, TypeOK
    <3>2. CASE ExecuteFails
      BY <3>2 DEF ExecuteFails, ReturnValue
    <3> QED
      BY <3>1, <3>2
  <2>3. UNCHANGED <<curr_scheduled, total_terminal, htp, pcb, page32, image>>
    BY <2>2 DEF ExecuteRefused, ExecuteFails, ReturnValue, ReturnToTick, ReturnToHalt,
                termVars, procVars
  <2> QED
    BY <2>1, <2>2, <2>3
<1>3. cpu'.at = "user"
  <2>1. \A v : [User(cpu.proc) EXCEPT !.eax = v].at = "user"
    BY DEF User, Ctx
  <2> QED
    BY <1>1, <2>1
    DEF ExecuteRefused, ExecuteFails, ReturnValue, ReturnToTick, ReturnToHalt
<1>4. /\ total_terminal # 0 /\ Started' = Started
      /\ curr_scheduled \in Terminals
      /\ cpu.proc = htp[curr_scheduled] /\ cpu.proc # NoProc
  BY <1>1, HereExec DEF Started, StandsAt
<1>5. htp[curr_scheduled] \in Slots
  BY <1>4, ParentsType, SlotsInRange
<1>6. page32 = htp[curr_scheduled]
  BY <1>1, <1>4 DEF SessionInv, CpuInPlace
<1>7. /\ InRows' /\ Stacks' = Stacks
      /\ Stages[curr_scheduled] = "call"
      /\ Stages' = [Stages EXCEPT ![curr_scheduled] = "user"]
  BY <1>1, <1>3, <1>4, EntrySeen, StageIs
<1>8. /\ Stacks[curr_scheduled] # <<>>
      /\ Head(Stacks[curr_scheduled]) = htp[curr_scheduled]
      /\ image[htp[curr_scheduled]] = htp[curr_scheduled]
  BY <1>4, <1>5, TopRuns
<1>9. Running' = Head(Stacks[curr_scheduled])
  BY <1>1, <1>3, <1>6, <1>8 DEF Running
<1> QED
  BY <1>1, <1>7, <1>8, <1>9 DEF SE!Refuse

\* A program is on its stack from the store to highest_terminal_processes on.
LEMMA LaunchMaps ==
  ASSUME TypeOK, TypeOK', SlotsChosen, SessionInv, InRows, ExecuteHtp
  PROVE  InRows' /\ SE!Launch(cpu.slot) /\ cpu.slot \in Slots
<1>a. PICK cs \in Terminals : cs = curr_scheduled
  BY DEF TypeOK
<1>b. PICK slot : slot = cpu.slot
  OBVIOUS
<1>1. /\ cpu.at = "htp" /\ cpu'.at = "setup"
      /\ htp' = [htp EXCEPT ![curr_terminal] = slot]
      /\ UNCHANGED <<curr_scheduled, total_terminal, pcb>>
  BY <1>b, GotoFields DEF ExecuteHtp, termVars, memVars
<1>2. cpu.at \in Early \cap ExecPoints \cap Marked /\ cpu'.at \in Late
  BY <1>1 DEF Late, ExecPoints, Early, Marked
<1>3. /\ cs \in Started /\ curr_terminal = cs
      /\ StandsAt(cs, cpu) /\ ClaimsOf(cpu)
      /\ Started' = Started
  BY <1>1, <1>2, <1>a, HereExec DEF Started
<1>4. /\ slot \in Slots /\ slot \notin Live
      /\ Parents[slot] = htp[cs]
  BY <1>1, <1>2, <1>3, <1>b DEF StandsAt, ClaimsOf, SlotsChosen, SlotChosen, SlotUsed
<1>5. Parents' = Parents
  BY <1>1 DEF Parents
<1>6. htp'[cs] = slot /\ \A t \in Terminals \ {cs} : htp'[t] = htp[t]
  BY <1>1, <1>3 DEF TypeOK
<1>7. /\ \A t \in Terminals \ {cs} : Ancestry(t)' = Ancestry(t)
      /\ Ancestry(cs)' = Ancestry(cs) \cup {slot}
      /\ slot \notin Ancestry(cs)
  BY <1>4, <1>5, <1>6, ParentsType, LineUnfold DEF Ancestry, Live
<1>8. \A t \in Terminals \ {cs} : (\E q : InRow(t, q)') /\ Stacks'[t] = Stacks[t]
  BY <1>5, <1>6, <1>7, OtherRows
<1>9. PICK q : InRow(cs, q)
  BY DEF InRows
<1>10. InRow(cs, <<slot>> \o q)'
  BY <1>4, <1>5, <1>6, <1>7, <1>9, RowPushed
<1>11. Stacks'[cs] = <<slot>> \o Stacks[cs]
  BY <1>9, <1>10, StackIs, NextStackIs
<1>12. Stacks' = [Stacks EXCEPT ![cs] = <<slot>> \o @]
  <2>1. Stacks = [t \in Terminals |-> Stacks[t]] /\ Stacks' = [t \in Terminals |-> Stacks'[t]]
    BY DEF Stacks
  <2> QED
    BY <1>8, <1>11, <2>1
<1>c. InRows'
  BY <1>8, <1>10 DEF InRows
<1>13. SE!Free(slot)
  <2>1. ASSUME NEW t \in Terminals, NEW i \in DOMAIN Stacks[t]
        PROVE  Stacks[t][i] # slot
    <3>1. PICK r : InRow(t, r)
      BY DEF InRows
    <3>2. Stacks[t] = r
      BY <3>1, StackIs
    <3>3. Stacks[t][i] \in Ancestry(t)
      BY <3>1, <3>2 DEF InRow
    <3> QED
      BY <1>4, <3>3 DEF Live
  <2> QED
    BY <2>1, Zenon DEF SE!Free, SE!Terminals, Terminals
<1>14. \A t \in Started \ {cs} : Standing(t)' = Standing(t)
  BY <1>1, <1>6, <1>a DEF Standing, Started
<1>15. /\ Stages[cs] = "call"
       /\ Stages' = [Stages EXCEPT ![cs] = "enter"]
  BY <1>1, <1>2, <1>3, <1>14, <1>a, StageHere, StageSteps, StageIs
<1>16. Running' = Running
  BY <1>1 DEF Running
<1> QED
  BY <1>1, <1>4, <1>12, <1>13, <1>15, <1>16, <1>a, <1>b, <1>c DEF SE!Launch

LEMMA EnterMaps ==
  ASSUME TypeOK, TypeOK', SlotsChosen, SessionInv, InRows,
         ExecuteSwitch \/ HaltReturn
  PROVE  InRows' /\ SE!Enter
<1> DEFINE cs == curr_scheduled
<1>1. /\ cpu.at \in Late \cup {"hret"} /\ cpu.at \notin {"idle", "user"}
      /\ UNCHANGED <<curr_scheduled, total_terminal, htp, page32, image>>
  BY DEF ExecuteSwitch, HaltReturn, Late, termVars, procVars, memVars
<1>2. /\ total_terminal # 0 /\ Started' = Started /\ cs \in Terminals
      /\ StandsAt(cs, Place(cpu))
  BY <1>1, Here DEF Started
<1>3. /\ cpu'.at = "user" /\ page32 = htp[cs] /\ htp[cs] # NoProc
      /\ \A s \in Slots : /\ pcb'[s].parent = pcb[s].parent
                          /\ pcb'[s].ebp_scheduler = pcb[s].ebp_scheduler
  <2>1. CASE ExecuteSwitch
    <3>1. /\ cpu.at = "switch" /\ cpu' = User(cpu.slot) /\ pcb' = pcb
          /\ cpu.slot \in Slots
      BY <2>1 DEF ExecuteSwitch, memVars, SlotsChosen, SlotChosen, SlotUsed
    <3>2. Place(cpu) = cpu
      BY <3>1, PlaceFields
    <3>3. htp[cs] = cpu.slot /\ page32 = cpu.slot
      BY <1>2, <3>1, <3>2 DEF StandsAt, Late, Mapped, SessionInv, CpuInPlace
    <3>4. cpu.slot # NoProc
      BY <3>1 DEF Slots, NoProc
    <3> QED
      BY <3>1, <3>3, <3>4, UserFields
  <2>2. CASE HaltReturn
    <3> DEFINE p == pcb[cpu.slot].parent
    <3>1. cpu.at = "hret" /\ cpu.slot \in Slots
      BY <2>2 DEF HaltReturn, SlotsChosen, SlotChosen, SlotUsed
    <3>2. p # NoProc /\ page32 = p /\ htp[cs] = p /\ pcb[cpu.slot].esp = Frame(p)
      BY <3>1 DEF SessionInv, CpuInPlace
    <3>3. cpu' = User(p)
      BY <2>2, <3>2 DEF HaltReturn, ReturnsTo, Frame, Ctx
    <3>4. \A s \in Slots : /\ pcb'[s].parent = pcb[s].parent
                           /\ pcb'[s].ebp_scheduler = pcb[s].ebp_scheduler
      BY <2>2, <3>1 DEF HaltReturn, TypeOK, PCB
    <3> QED
      BY <3>2, <3>3, <3>4, UserFields
  <2> QED
    BY <2>1, <2>2
<1>4. htp[cs] \in Slots
  BY <1>2, <1>3, ParentsType, SlotsInRange
<1>5. /\ \A s \in Live : Parents'[s] = Parents[s]
      /\ \A t \in Started \ {cs} :
           pcb'[htp[t]].ebp_scheduler = pcb[htp[t]].ebp_scheduler
  BY <1>3, ParentsType, EntryKeepsSaved DEF Parents
<1>6. /\ InRows' /\ Stacks' = Stacks
      /\ Stages[cs] = "enter"
      /\ Stages' = [Stages EXCEPT ![cs] = "user"]
  BY <1>1, <1>2, <1>3, <1>5, Seen, StageIs
<1>7. Head(Stacks[cs]) = htp[cs] /\ image[htp[cs]] = htp[cs]
  BY <1>2, <1>4, TopRuns
<1>8. Running' = Head(Stacks[cs])
  BY <1>1, <1>3, <1>7 DEF Running
<1> QED
  BY <1>1, <1>6, <1>8 DEF SE!Enter

LEMMA StopMaps ==
  ASSUME TypeOK, TypeOK', SessionInv, InRows, RaiseException
  PROVE  SE!Stop
<1>1. /\ cpu.at = "user" /\ cpu'.at = "fault" /\ MayFault
      /\ UNCHANGED <<curr_scheduled, total_terminal, htp, pcb>>
  BY CtxFields DEF RaiseException, Fault, termVars, procVars, memVars
<1>2. total_terminal # 0 /\ Started' = Started
  BY <1>1, HereUser DEF Started
<1>3. /\ Stacks' = Stacks
      /\ Stages[curr_scheduled] = "user"
      /\ Stages' = [Stages EXCEPT ![curr_scheduled] = "stopped"]
  BY <1>1, <1>2, EntrySeen, StageIs
<1>4. Running' = NoProc
  BY <1>1 DEF Running
<1> QED
  BY <1>1, <1>3, <1>4 DEF SE!Stop

\* A program is off its stack from the moment halt gives up its slot.
LEMMA EndMaps ==
  ASSUME Careful, TypeOK, TypeOK', SessionInv, InRows, HaltToParent \/ HaltRestart
  PROVE  InRows' /\ SE!End
<1>a. PICK cs \in Terminals : cs = curr_scheduled
  BY DEF TypeOK
<1>b. PICK top : top = htp[cs]
  OBVIOUS
<1>1. /\ cpu.at = "user" /\ pcb' = PcbOnEntry
      /\ UNCHANGED <<curr_scheduled, total_terminal>>
      /\ htp' = [htp EXCEPT ![cs] = pcb[top].parent]
      /\ cpu'.at = IF pcb[top].parent = NoProc THEN "check" ELSE "hret"
  <2>1. CASE HaltToParent
    <3>1. [Ctx("hret", "halt", cpu.proc, tss_esp0) EXCEPT !.slot = ToHalt].at = "hret"
      BY DEF Ctx
    <3>2. ToHalt = top
      BY <1>a, <1>b DEF ToHalt
    <3>3. /\ cpu.at = "user" /\ pcb' = PcbOnEntry /\ UNCHANGED termVars
          /\ pcb[top].parent # NoProc
          /\ htp' = [htp EXCEPT ![cs] = pcb[top].parent]
          /\ cpu'.at = "hret"
      BY <2>1, <3>1, <3>2, <1>a DEF HaltToParent, RestoreParent
    <3> QED
      BY <3>3 DEF termVars
  <2>2. CASE HaltRestart
    <3>1. ToHalt = top /\ curr_terminal = cs
      BY <2>2, <1>a, <1>b DEF ToHalt, HaltRestart, Commanded, Careful
    <3>2. /\ cpu.at = "user" /\ pcb' = PcbOnEntry /\ UNCHANGED termVars
          /\ pcb[top].parent = NoProc
          /\ htp' = [htp EXCEPT ![cs] = NoProc]
          /\ cpu'.at = "check"
      BY <2>2, <3>1, CtxFields DEF HaltRestart
    <3> QED
      BY <3>2 DEF termVars
  <2> QED
    BY <2>1, <2>2
<1>2. /\ Started' = Started /\ cs \in Started /\ top \in Slots
  BY <1>1, <1>a, <1>b, HereUser DEF Started
<1>3. Parents' = Parents
  BY <1>1, EntryKeepsParents
<1>4. /\ \A t \in Terminals \ {cs} : Ancestry(t)' = Ancestry(t)
      /\ Ancestry(cs)' = Ancestry(cs) \ {top}
  BY <1>1, <1>2, <1>3, <1>b, HaltLines
<1>5. /\ Parents[top] = pcb[top].parent
      /\ htp'[cs] = Parents[top] /\ \A t \in Terminals \ {cs} : htp'[t] = htp[t]
  BY <1>1, <1>2, ParentsType DEF TypeOK
<1>6. \A t \in Terminals \ {cs} : (\E q : InRow(t, q)') /\ Stacks'[t] = Stacks[t]
  BY <1>3, <1>4, <1>5, OtherRows
<1>7. PICK q : InRow(cs, q)
  BY DEF InRows
<1>8. InRow(cs, Tail(q))' /\ (Len(q) = 1 <=> Parents[top] = NoProc)
  BY <1>2, <1>3, <1>4, <1>5, <1>7, <1>b, RowPopped
<1>9. InRows'
  BY <1>6, <1>8 DEF InRows
<1>10. Stacks' = [Stacks EXCEPT ![cs] = Tail(@)]
  <2>1. Stacks = [t \in Terminals |-> Stacks[t]] /\ Stacks' = [t \in Terminals |-> Stacks'[t]]
    BY DEF Stacks
  <2>2. Stacks'[cs] = Tail(Stacks[cs])
    BY <1>7, <1>8, StackIs, NextStackIs
  <2> QED
    BY <1>6, <2>1, <2>2
<1>11. \A t \in Started \ {cs} : Standing(t)' = Standing(t)
  BY <1>1, <1>5, <1>a, EntryKeepsSaved DEF Standing, Started
<1>12. Stages[cs] = "user"
  BY <1>1, <1>2, <1>a, StageHere, StageIs
<1>13. Stages' = [Stages EXCEPT ![cs] = StageOf(cpu'.at)]
  BY <1>1, <1>2, <1>11, <1>a, StageSteps
<1>14. StageOf(cpu'.at) = IF Len(Stacks[cs]) = 1 THEN "call" ELSE "enter"
  BY <1>1, <1>5, <1>7, <1>8, StackIs, StageIs DEF Early
<1>15. Running' = NoProc
  BY <1>1 DEF Running
<1> QED
  BY <1>1, <1>9, <1>10, <1>12, <1>13, <1>14, <1>15, <1>a DEF SE!End

\* The first shell.
LEMMA FirstShellMaps ==
  ASSUME TypeOK, TypeOK', SessionInv, InRows, PitStartShell, total_terminal = 0
  PROVE  InRows' /\ SE!TurnOn(1) /\ 1 \in Terminals
<1>1. /\ cpu.at = "idle" /\ curr_scheduled = 1
      /\ \A t \in Terminals : htp[t] = NoProc
      /\ total_terminal' = 1 /\ htp' = htp /\ curr_scheduled' = 1
      /\ cpu'.at = "check"
  BY CtxFields
  DEF SessionInv, BootInOrder, Booted, Started, Terminals, PitStartShell,
      PitPrologue, procVars
<1>2. 1 \in Terminals /\ Started = {} /\ Started' = {1}
  BY <1>1 DEF Started, Terminals
<1>3. \A t \in Terminals : Ancestry(t) = {} /\ Ancestry(t)' = {}
  BY <1>1, LineOfNone DEF Ancestry
<1>4. InRows' /\ Stacks' = Stacks
  BY <1>1, <1>3, SameRows
<1>5. Standing(1)'.at = "check"
  BY <1>1, PlaceFields DEF Standing
<1>6. Stages[1] = "off" /\ Stages' = [Stages EXCEPT ![1] = "call"]
  <2>1. \A t \in Terminals : Stages[t] = "off"
    BY <1>2 DEF Stages
  <2>2. \A t \in Terminals : Stages'[t] = IF t = 1 THEN "call" ELSE "off"
    BY <1>2, <1>5, StageIs DEF Stages, Early
  <2>3. Stages = [t \in Terminals |-> Stages[t]] /\ Stages' = [t \in Terminals |-> Stages'[t]]
    BY DEF Stages
  <2> QED
    BY <1>2, <2>1, <2>2, <2>3
<1>7. Running' = NoProc
  BY <1>1 DEF Running
<1> QED
  BY <1>1, <1>2, <1>4, <1>6, <1>7 DEF SE!TurnOn

\* What the tick that starts a later shell leaves of the earlier ones.
LEMMA NextShellStands ==
  ASSUME Careful, TypeOK, TypeOK', SlotsChosen, SessionInv, PitStartShell,
         total_terminal # 0
  PROVE  /\ Parents' = Parents /\ htp' = htp /\ cpu'.at = "check"
         /\ total_terminal \in 1 .. NT - 1
         /\ total_terminal' = total_terminal + 1
         /\ curr_scheduled' = total_terminal + 1
         /\ \A t \in Started : Standing(t).at = "user" /\ Standing(t)' = Standing(t)
<1>a. PICK cs \in Terminals : cs = curr_scheduled
  BY DEF TypeOK
<1>b. PICK from : from = htp[cs]
  OBVIOUS
<1> DEFINE saved == SaveInto(from)
           Fetched(t) == saved[htp[t]].ebp_scheduler
<1>1. /\ ~Booted /\ Interruptible /\ cpu.at = "user" /\ cpu.at # "idle"
      /\ cs = total_terminal /\ curr_terminal = cs
  <2>1. ~Booted /\ Interruptible
    BY DEF PitStartShell, PitPrologue, Booted, TypeOK
  <2>2. cpu.at = "user"
    BY <2>1, CarefulTick DEF SessionInv, BootInOrder
  <2> QED
    BY <1>a, <2>1, <2>2 DEF SessionInv, BootInOrder, TypeOK
<1>2. /\ from \in Slots /\ from # NoProc
  BY <1>1, <1>a, <1>b, InterruptedFits DEF SavedAt
<1>3. /\ total_terminal \in 1 .. NT - 1 /\ NextScheduled = total_terminal + 1
      /\ total_terminal' = total_terminal + 1
      /\ \A t \in Started : t \in Terminals /\ t # total_terminal + 1
  <2>1. /\ total_terminal < NT /\ total_terminal \in Nat /\ total_terminal # 0
        /\ total_terminal' = total_terminal + 1
    BY DEF PitStartShell, TypeOK
  <2>2. total_terminal % NT = total_terminal
    BY <2>1
  <2>3. total_terminal \in 1 .. NT - 1
    BY <2>1
  <2>4. \A t \in Started : t \in Terminals /\ t # total_terminal + 1
    BY <2>1 DEF Started, Terminals
  <2> QED
    BY <1>1, <1>a, <2>1, <2>2, <2>3, <2>4 DEF NextScheduled
<1>4. /\ curr_scheduled' = total_terminal + 1 /\ pcb' = saved
      /\ cpu' = Ctx("check", "boot", NoProc, EntryStack)
      /\ htp' = htp
  BY <1>2, <1>3, <1>a, <1>b DEF PitStartShell, PitPrologue, procVars
<1>5. Parents' = Parents
  BY <1>2, <1>4, SaveFields DEF Parents
<1>6. ASSUME NEW t \in Started
      PROVE  Standing(t).at = "user" /\ Standing(t)' = Standing(t)
  <2>1. SavedAt(t, Fetched(t)) /\ Place(Fetched(t)) = Standing(t)
    BY <1>1, <1>a, <1>b, SavedByTick
  <2>2. Standing(t)' = Standing(t)
    BY <1>3, <1>4, <2>1 DEF Standing
  <2>3. Standing(t).at \in ExecPoints => t = cs
    BY <1>1 DEF SessionInv, StandingWell, StandsAt
  <2>4. t = cs => Standing(t).at = "user"
    BY <1>1, <1>a, HereUser, UserFields
  <2>5. Standing(t).at = Fetched(t).at
    BY <2>1, PlaceFields
  <2> QED
    BY <2>1, <2>2, <2>3, <2>4, <2>5 DEF SavedAt, ExecPoints
<1> QED
  BY <1>3, <1>4, <1>5, <1>6, CtxFields

LEMMA NextShellMaps ==
  ASSUME Careful, TypeOK, TypeOK', SlotsChosen, SessionInv, InRows,
         PitStartShell, total_terminal # 0
  PROVE  InRows' /\ SE!TurnOn(total_terminal + 1) /\ total_terminal + 1 \in Terminals
<1>a. PICK k : k = total_terminal + 1
  OBVIOUS
<1>1. /\ Parents' = Parents /\ htp' = htp /\ cpu'.at = "check"
      /\ total_terminal \in 1 .. NT - 1
      /\ total_terminal' = k /\ curr_scheduled' = k
      /\ \A t \in Started : Standing(t).at = "user" /\ Standing(t)' = Standing(t)
  BY <1>a, NextShellStands
<1>2. /\ k \in Terminals /\ Started = 1 .. k - 1 /\ Started' = Started \cup {k}
      /\ k \notin Started
  BY <1>1, <1>a DEF Started, Terminals
<1>3. \A t \in Terminals : Ancestry(t)' = Ancestry(t)
  BY <1>1, SameLines
<1>4. InRows' /\ Stacks' = Stacks
  BY <1>1, <1>3, SameRows
<1>5. Standing(k)'.at = "check"
  BY <1>1, PlaceFields DEF Standing
<1>6. \A t \in Terminals : Stages[t] = IF t \in Started THEN "user" ELSE "off"
  BY <1>1, StageIs DEF Stages
<1>7. \A t \in Terminals : Stages'[t] = IF t = k THEN "call" ELSE Stages[t]
  <2> SUFFICES ASSUME NEW t \in Terminals
               PROVE  Stages'[t] = IF t = k THEN "call" ELSE Stages[t]
    OBVIOUS
  <2>1. Stages'[t] = IF t \in Started' THEN StageOf(Standing(t)'.at) ELSE "off"
    BY DEF Stages
  <2> QED
    BY <1>1, <1>2, <1>5, <1>6, <2>1, StageIs DEF Early
<1>8. Stages' = [Stages EXCEPT ![k] = "call"]
  <2>1. Stages = [t \in Terminals |-> Stages[t]] /\ Stages' = [t \in Terminals |-> Stages'[t]]
    BY DEF Stages
  <2> QED
    BY <1>2, <1>7, <2>1
<1>9. Stages[k] = "off" /\ \A u \in 1 .. k - 1 : Stages[u] = "user"
  BY <1>2, <1>6 DEF Started
<1>10. Running' = NoProc
  BY <1>1 DEF Running
<1> QED
  BY <1>1, <1>2, <1>4, <1>8, <1>9, <1>10, <1>a DEF SE!TurnOn

LEMMA SwitchMaps ==
  ASSUME Careful, TypeOK, TypeOK', SlotsChosen, SessionInv, InRows, PitSwitch
  PROVE  InRows' /\ SE!Switch
<1>a. PICK next \in Terminals : next = NextScheduled
  BY NextScheduledType
<1>1. /\ Started = Terminals /\ htp[next] \in Slots
      /\ curr_scheduled' = next /\ page32' = htp[next]
      /\ curr_scheduled \in Terminals /\ cpu.at # "idle"
  BY <1>a, PitSwitchEffect DEF TypeOK
<1>2. /\ htp' = htp /\ image' = image /\ Started' = Started
  BY DEF PitSwitch, PitPrologue, procVars, Started
<1>3. /\ Parents' = Parents
      /\ \A t \in Terminals : Standing(t)' = Standing(t)
  BY PitSwitchStands
<1>4. \A t \in Terminals : Ancestry(t)' = Ancestry(t)
  BY <1>2, <1>3, SameLines
<1>5. InRows' /\ Stacks' = Stacks
  BY <1>2, <1>3, <1>4, SameRows
<1>6. Stages' = Stages
  BY <1>1, <1>2, <1>3 DEF Stages
<1>7. ASSUME NEW t \in Terminals
      PROVE  /\ Stages[t] = StageOf(Standing(t).at)
             /\ Stages[t] \notin {"off", "stopped"}
             /\ Stages[t] = "user" <=> Standing(t).at = "user"
  <2>1. Stages[t] = StageOf(Standing(t).at)
    BY <1>1 DEF Stages
  <2>2. Standing(t).at \in {"user", "hret"} \cup Early \cup Late
    BY <1>1, PointsApart DEF SessionInv, StandingWell, StandsAt
  <2> QED
    BY <2>1, <2>2 DEF StageOf
<1>8. cpu'.at = Standing(next).at
  BY <1>1, <1>3, PlaceFields DEF Standing
<1>9. Head(Stacks[next]) = htp[next] /\ image[htp[next]] = htp[next]
  BY <1>1, TopRuns
<1>10. Running' = IF Stages'[curr_scheduled'] = "user"
                    THEN Head(Stacks[curr_scheduled']) ELSE NoProc
  BY <1>1, <1>2, <1>6, <1>7, <1>8, <1>9 DEF Running
<1>11. \A t \in SE!Terminals : Stages[t] # "off"
  BY <1>7 DEF SE!Terminals, Terminals
<1>12. curr_scheduled' = (curr_scheduled % NT) + 1
  BY <1>1, <1>a DEF NextScheduled
<1> QED
  BY <1>1, <1>5, <1>6, <1>7, <1>10, <1>11, <1>12 DEF SE!Switch

\* A machine stopped by an exception shows nothing any more.
LEMMA StoppedUnseen ==
  ASSUME Careful, cpu.at = "fault", [Next]_vars
  PROVE  UNCHANGED SE!vars
<1>1. /\ UNCHANGED <<curr_scheduled, total_terminal, htp, pcb, page32, image, cpu>>
  BY FaultStays DEF vars, termVars, procVars, memVars
<1>2. Stacks' = Stacks
  BY <1>1 DEF Stacks, Parents
<1>3. Stages' = Stages
  <2>1. Started' = Started /\ \A t \in Terminals : Standing(t)' = Standing(t)
    BY <1>1 DEF Started, Standing
  <2> QED
    BY <2>1 DEF Stages
<1>4. Running' = Running
  BY <1>1 DEF Running
<1> QED
  BY <1>1, <1>2, <1>3, <1>4 DEF SE!vars

LEMMA SessionMaps ==
  ASSUME Careful, TypeOK, TypeOK', SlotsChosen, SessionInv, InRows,
         [Next]_vars
  PROVE  (Stopped' \/ InRows') /\ [SE!Next]_(SE!vars)
<1>1. CASE PitHandler
  <2>1. ASSUME PitStartShell, total_terminal = 0
        PROVE  InRows' /\ SE!Next
    BY <2>1, FirstShellMaps DEF SE!Next, SE!Terminals, Terminals
  <2>2. ASSUME PitStartShell, total_terminal # 0
        PROVE  InRows' /\ SE!Next
    BY <2>2, NextShellMaps DEF SE!Next, SE!Terminals, Terminals
  <2>3. CASE PitFinishBoot
    BY <2>3, PitFinishBootUnseen
  <2>4. CASE PitSwitch
    BY <2>4, SwitchMaps DEF SE!Next
  <2> QED
    BY <1>1, <2>1, <2>2, <2>3, <2>4 DEF PitHandler
<1>2. ASSUME NEW t \in Terminals, PressAltFn(t)
      PROVE  InRows' /\ UNCHANGED SE!vars
  BY <1>2, PressAltFnUnseen
<1>3. CASE CallExecute
  BY <1>3, CallMaps DEF SE!Next
<1>4. CASE ExecuteStep
  <2>1. CASE ExecuteRefused \/ ExecuteFails
    BY <2>1, RefuseMaps DEF SE!Next
  <2>2. CASE ExecuteHtp
    BY <2>2, LaunchMaps DEF SE!Next
  <2>3. CASE ExecuteSwitch
    BY <2>3, EnterMaps DEF SE!Next
  <2>4. CASE \/ ExecuteFound \/ ExecuteReadCount \/ ExecuteWriteCount
             \/ ExecuteCountTerminal \/ ExecuteScan \/ ExecuteMark \/ ExecutePage
             \/ ExecuteLoad \/ ExecuteParent \/ ExecuteSetup
    <3>1. ExecuteStep
      BY <1>4
    <3>2. SessionInv'
      BY <3>1, ExecuteStepInv
    <3> QED
      BY <2>4, <3>2, ExecuteUnseen
  <2> QED
    BY <1>4, <2>1, <2>2, <2>3, <2>4 DEF ExecuteStep
<1>5. CASE HaltToParent \/ HaltRestart
  BY <1>5, EndMaps DEF SE!Next
<1>6. ~HaltNothing
  <2>1. SUFFICES ASSUME HaltNothing PROVE FALSE
    OBVIOUS
  <2>2. htp[curr_scheduled] \in Slots
    BY <2>1, HereUser DEF HaltNothing
  <2> QED
    BY <2>1, <2>2 DEF HaltNothing, ToHalt, NoProc, Slots
<1>7. CASE HaltReturn
  BY <1>7, EnterMaps DEF SE!Next
<1>8. CASE Vidmap
  BY <1>8, VidmapUnseen
<1>9. CASE RaiseException
  <2>1. Stopped'
    BY <1>9, CtxFields DEF RaiseException, Fault, Stopped
  <2> QED
    BY <1>9, <2>1, StopMaps DEF SE!Next
<1>10. CASE UNCHANGED vars
  <2>1. /\ UNCHANGED <<curr_scheduled, total_terminal, htp, pcb, page32, image, cpu>>
    BY <1>10 DEF vars, termVars, procVars, memVars
  <2>2. Parents' = Parents
    BY <2>1 DEF Parents
  <2>3. \A t \in Terminals : Ancestry(t)' = Ancestry(t)
    BY <2>1, <2>2 DEF Ancestry
  <2>4. InRows' /\ Stacks' = Stacks
    BY <2>1, <2>2, <2>3, SameRows
  <2>5. Started' = Started /\ \A t \in Terminals : Standing(t)' = Standing(t)
    BY <2>1 DEF Started, Standing
  <2>6. Stages' = Stages
    BY <2>5 DEF Stages
  <2>7. Running' = Running
    BY <2>1 DEF Running
  <2> QED
    BY <2>1, <2>4, <2>6, <2>7 DEF SE!vars
<1> QED
  BY <1>1, <1>2, <1>3, <1>4, <1>5, <1>6, <1>7, <1>8, <1>9, <1>10 DEF Next, HaltCall

-----------------------------------------------------------------------------
(* The theorems *)

\* Whatever the programs call, in whatever order, and wherever at the safe
\* points the ticks fall: each terminal stands at a context that agrees with
\* its childmost process, and slots, counters, pages and stacks with both.
THEOREM SessionsStayWell ==
  ASSUME Careful
  PROVE  Spec => []SessionIInv
<1>1. Init => SessionIInv
  BY SessionInit
<1>2. SessionIInv /\ [Next]_vars => SessionIInv'
  BY SessionStep
<1> QED
  BY <1>1, <1>2, PTL DEF Spec

\* A program in user mode always sees its own page and enters the kernel on
\* its own stack: execute, halt and the timer handler restore both.
THEOREM ProgramsRunInOwnSpace ==
  ASSUME Careful
  PROVE  Spec => []RunsInOwnSpace
<1>1. ASSUME SessionIInv
      PROVE  RunsInOwnSpace
  BY <1>1, HereUser DEF SessionIInv, Stopped, RunsInOwnSpace
<1> QED
  BY <1>1, SessionsStayWell, PTL

\* In a booted system the next tick can give the CPU to any other terminal.
THEOREM TerminalsStayResumable ==
  ASSUME Careful
  PROVE  Spec => []EveryTerminalResumable
<1>1. ASSUME SessionIInv
      PROVE  EveryTerminalResumable
  <2>0. Alive \/ (MayFault /\ cpu.at = "fault")
    BY <1>1, SessionAlive DEF SessionIInv, Stopped
  <2>1. SUFFICES ASSUME Booted, Alive, NEW t \in Terminals \ {curr_scheduled}
        PROVE  /\ htp[t] # NoProc
               /\ pcb[htp[t]].ebp_scheduler.at # "garbage"
               /\ pcb[htp[t]].ebp_scheduler.at = "user" =>
                    /\ pcb[htp[t]].ebp_scheduler.proc = htp[t]
                    /\ pcb[htp[t]].esp0 = htp[t]
    BY <2>0 DEF EveryTerminalResumable
  <2>2. TypeOK /\ SessionInv
    BY <1>1, <2>1 DEF SessionIInv, Stopped, Alive
  <2>3. t \in Started
    BY <2>1, <2>2 DEF Booted, Started, Terminals, TypeOK
  <2> DEFINE c == pcb[htp[t]].ebp_scheduler
  <2>4. SavedAt(t, c)
    BY <2>2, <2>3 DEF SessionInv, SavedInPlace
  <2>5. htp[t] # NoProc /\ c.at # "garbage"
    BY <2>4 DEF SavedAt
  <2>6. ASSUME c.at = "user"
        PROVE  c.proc = htp[t] /\ pcb[htp[t]].esp0 = htp[t]
    <3>1. Standing(t) = User(c.proc)
      BY <2>6, StandingThere DEF Place
    <3>2. StandsAt(t, User(c.proc))
      BY <2>2, <2>3, <3>1 DEF SessionInv, StandingWell
    <3>3. c.proc = htp[t]
      BY <3>2, UserFields DEF StandsAt
    <3>4. htp[t] \in Slots
      BY <2>2, <2>5, SlotsInRange DEF TypeOK
    <3>5. htp[t] \in Ancestry(t)
      BY <3>4, LineContains DEF Ancestry
    <3>6. Standing(t).at # "setup"
      BY <3>1, UserFields
    <3>7. Installed(htp[t])
      BY <2>2, <3>5, <3>6 DEF SessionInv, ProgramsInPlace
    <3> QED
      BY <3>3, <3>7 DEF Installed
  <2> QED
    BY <2>5, <2>6
<1> QED
  BY <1>1, SessionsStayWell, PTL

\* Between calls the slots in use are the ancestries of the terminals, which
\* share nothing, and both counters agree: execute and halt leak no slot.
THEOREM NoSlotIsLost ==
  ASSUME Careful
  PROVE  Spec => []SlotsAccountedFor
<1>1. ASSUME SessionIInv
      PROVE  SlotsAccountedFor
  <2>1. SUFFICES ASSUME ~ExecuteUnderWay, Alive PROVE SlotsAccountedFor
    BY DEF SlotsAccountedFor
  <2>2. TypeOK /\ SessionInv
    BY <1>1, <2>1 DEF SessionIInv, Stopped, Alive
  <2>3. Call.at \notin ExecPoints
    <3>1. CASE curr_terminal = curr_scheduled
      BY <2>1, <3>1, StandingHere, PlaceFields
      DEF Call, ExecuteUnderWay, InExecute
    <3>2. CASE curr_terminal # curr_scheduled
      <4>1. total_terminal # 0
        BY <2>2, <3>2 DEF SessionInv, BootInOrder, Booted, TypeOK
      <4>2. curr_terminal \in Started /\ curr_terminal \in Terminals
        BY <2>2, <4>1, StartedTerminals DEF Started
      <4>3. htp[curr_terminal] # NoProc
        BY <2>2, <3>2, <4>2 DEF SessionInv, SavedInPlace, SavedAt
      <4>4. htp[curr_terminal] \in Slots
        BY <2>2, <4>2, <4>3, SlotsInRange DEF TypeOK
      <4>5. pcb[htp[curr_terminal]].ebp_scheduler.at \notin ExecPoints
        BY <2>1, <4>4 DEF ExecuteUnderWay, InExecute
      <4> QED
        BY <3>2, <4>5, StandingThere, PlaceFields DEF Call
    <3> QED
      BY <3>1, <3>2
  <2>4. /\ Call.at \notin Marked \cup Counted
        /\ Call.at \notin {"perterm", "scan", "mark"}
    BY <2>3 DEF Marked, Counted, ExecPoints
  <2>5. /\ pcb_slots = UNION {Ancestry(t) : t \in Terminals}
        /\ \A t \in Terminals :
             process_per_terminal[t] = Cardinality(Ancestry(t)) + 0
        /\ process_count = Cardinality(pcb_slots) + 0
    BY <2>2, <2>4 DEF SessionInv, SlotsCounted, Live
  <2>6. /\ Cardinality(pcb_slots) \in Nat
        /\ \A t \in Terminals : Cardinality(Ancestry(t)) \in Nat
    BY <2>2, ParentsType, SlotSetsFinite, TableInRange DEF TypeOK
  <2>7. \A t \in Terminals : process_per_terminal[t] = Cardinality(Ancestry(t))
    BY <2>5, <2>6
  <2>8. process_count = Cardinality(pcb_slots)
    BY <2>5, <2>6
  <2> QED
    BY <2>2, <2>5, <2>7, <2>8 DEF SlotsAccountedFor, SessionInv, LinesApart
<1> QED
  BY <1>1, SessionsStayWell, PTL

\* A terminal whose execute has made its program the childmost has a childmost.
LEMMA LateChildmost ==
  ASSUME TypeOK, SlotsChosen, SessionInv, NEW t \in Started, Standing(t).at \in Late
  PROVE  htp[t] \in Slots
<1>1. t \in Terminals /\ StandsAt(t, Standing(t)) /\ htp[t] \in SlotsOrNone
  BY DEF SessionInv, StandingWell, Started, TypeOK
<1>2. CASE t = curr_scheduled
  <2>1. Standing(t) = cpu
    BY <1>2, StandingHere, PlaceFields DEF Late, Place
  <2>2. cpu.slot \in Slots
    BY <2>1 DEF SlotsChosen, SlotChosen, SlotUsed, Late
  <2> QED
    BY <1>1, <2>1, <2>2 DEF StandsAt
<1>3. CASE t # curr_scheduled
  BY <1>1, <1>3, SlotsInRange DEF SessionInv, SavedInPlace, SavedAt
<1> QED
  BY <1>2, <1>3

\* With a careful user and ticks at the survivable points, execute and halt
\* never reach the PCB past the table: the test of the limit, the count and the
\* search agree through every preemption in between.
THEOREM CallsStayInTable ==
  ASSUME Careful
  PROVE  Spec => []StaysInTable
<1>1. ASSUME SessionIInv PROVE StaysInTable
  <2>1. SUFFICES ASSUME Alive PROVE StaysInTable
    BY DEF StaysInTable
  <2>2. TypeOK /\ SlotsChosen /\ SessionInv
    BY <1>1, <2>1 DEF SessionIInv, Stopped, Alive
  <2>3. ASSUME NEW t \in Started
        PROVE  /\ Standing(t).at \in Marked \cup Late \cup {"mark"} => Standing(t).slot \in Table
               /\ Standing(t).at = "check" /\ Standing(t).by = "halt"
                    => Standing(t).slot \in Table
    <3>1. StandsAt(t, Standing(t)) /\ t \in Terminals
      BY <2>2, <2>3 DEF SessionInv, StandingWell, Started
    <3>2. CASE Standing(t).at \in Late
      <4>1. Standing(t).slot = htp[t]
        BY <3>1, <3>2 DEF StandsAt
      <4>2. htp[t] \in Slots
        BY <2>2, <2>3, <3>1, <3>2, LateChildmost
      <4>3. Standing(t).slot \in Table /\ Standing(t).at # "check"
        BY <2>2, <3>1, <3>2, <4>1, <4>2, LiveInTable DEF Late
      <4> QED
        BY <4>3
    <3>3. CASE Standing(t).at \in Early
      <4>1. Standing(t) = Call /\ ClaimsOf(Call)
        BY <2>2, <3>1, <3>3, PointsApart DEF StandsAt, Call, SessionInv, CallClaims
      <4>2. Call.at \in Marked => Call.slot \in Table
        BY <2>2 DEF SessionInv, SlotsCounted, TypeOK
      <4>3. Call.at \notin Late
        BY <3>3, <4>1 DEF Early, Late
      <4> QED
        BY <4>1, <4>2, <4>3 DEF ClaimsOf
    <3>4. CASE Standing(t).at \notin Early \cup Late
      BY <3>4 DEF Marked, Early, Late
    <3> QED
      BY <3>2, <3>3, <3>4
  <2>4. SlotUsed(cpu) => cpu.slot \in Table
    <3>1. SUFFICES ASSUME SlotUsed(cpu) PROVE cpu.slot \in Table
      OBVIOUS
    <3>2. CASE cpu.at = "hret"
      BY <2>2, <3>2 DEF SessionInv, CpuInPlace
    <3>3. CASE cpu.at # "hret"
      <4>1. cpu.at \in ExecPoints /\ cpu.at # "user"
        BY <3>1, <3>3 DEF SlotUsed, ExecPoints
      <4>2. curr_scheduled \in Started /\ Standing(curr_scheduled) = cpu
        BY <2>2, <4>1, HereExec, StandingHere, PlaceFields
      <4> QED
        BY <2>3, <3>1, <3>3, <4>2 DEF SlotUsed, Marked, Late
    <3> QED
      BY <3>2, <3>3
  <2>5. \A t \in Terminals : htp[t] \in Table \cup {NoProc}
    BY <2>2, LiveInTable, SlotsInRange DEF TypeOK
  <2>6. ASSUME NEW t \in Terminals \ {curr_scheduled}, htp[t] # NoProc,
               SlotUsed(pcb[htp[t]].ebp_scheduler)
        PROVE  pcb[htp[t]].ebp_scheduler.slot \in Table
    <3> DEFINE c == pcb[htp[t]].ebp_scheduler
    <3>1. t \in Started
      BY <2>2, <2>6 DEF SessionInv, BootInOrder
    <3>2. SavedAt(t, c)
      BY <2>2, <2>6, <3>1 DEF SessionInv, SavedInPlace
    <3>3. c.at # "user" /\ c.at # "hret"
      BY <2>6, <3>2 DEF SlotUsed, SavedAt
    <3>4. Standing(t) = c
      BY <2>6, <3>3 DEF Standing, Place
    <3> QED
      BY <2>3, <2>6, <3>1, <3>3, <3>4 DEF SlotUsed, Marked, Late
  <2> QED
    BY <2>4, <2>5, <2>6 DEF StaysInTable
<1> QED
  BY <1>1, SessionsStayWell, PTL

\* "MAX PROCESSES REACHED" is the truth: every slot is in use.
THEOREM RefusalsAreTrue ==
  ASSUME Careful
  PROVE  Spec => RefusesOnlyWhenFull
<1>1. ASSUME SessionIInv, ExecuteRefused
      PROVE  pcb_slots = Table
  <2>1. cpu.at = "check" /\ cpu.at \in ExecPoints /\ process_count >= MaxProc
    BY <1>1 DEF ExecuteRefused, ExecPoints, LimitReached
  <2>2. TypeOK /\ SessionInv
    BY <1>1, <2>1 DEF SessionIInv, Stopped
  <2>3. Call.at = "check"
    BY <2>1, <2>2, HereExec
  <2>4. process_count = Cardinality(pcb_slots) + 0
    BY <2>2, <2>3 DEF SessionInv, SlotsCounted
  <2>5. pcb_slots \in SUBSET Table /\ Cardinality(pcb_slots) \in Nat
    BY <2>2, SlotSetsFinite, TableInRange DEF TypeOK
  <2> QED
    BY <2>1, <2>4, <2>5, FullTable
<1>2. SessionIInv => [ExecuteRefused => pcb_slots = Table]_vars
  BY <1>1
<1> QED
  BY <1>2, SessionsStayWell, PTL DEF RefusesOnlyWhenFull

\* The status of a halted program reaches its parent, in their terminal.
THEOREM StatusReachesParent ==
  ASSUME Careful
  PROVE  Spec => StatusGoesToParent
<1> DEFINE Reaches == HaltReturn => /\ cpu' = User(pcb[cpu.slot].parent)
                                    /\ cpu'.proc = htp[curr_scheduled]
<1>1. ASSUME SessionIInv, HaltReturn
      PROVE  Reaches
  <2>1. cpu.at = "hret" /\ SessionInv
    BY <1>1 DEF HaltReturn, SessionIInv, Stopped
  <2> DEFINE p == pcb[cpu.slot].parent
  <2>2. pcb[cpu.slot].esp = Frame(p) /\ htp[curr_scheduled] = p
    BY <2>1 DEF SessionInv, CpuInPlace
  <2>3. Frame(p).at = "parked" /\ Frame(p).by = "user" /\ Frame(p).proc = p
    BY CtxFields DEF Frame
  <2>4. cpu' = User(p)
    BY <1>1, <2>2, <2>3 DEF HaltReturn, ReturnsTo
  <2> QED
    BY <2>2, <2>4, UserFields
<1>2. SessionIInv => [Reaches]_vars
  BY <1>1
<1> QED
  BY <1>2, SessionsStayWell, PTL DEF StatusGoesToParent

\* The slots, PCBs, saved contexts and mapped page implement a stack of programs
\* for every terminal: a program is launched on top of its own terminal's stack
\* or not at all, only the top one runs or ends, the one below goes on from
\* where it was, and the terminals take turns.
THEOREM SessionsAreStacks ==
  ASSUME Careful
  PROVE  Spec => ImplementsSessions
<1> DEFINE RowInv == SessionIInv /\ (Stopped \/ InRows)
<1>1. Init => RowInv /\ SE!Init
  BY SessionInit, StartMaps
<1>2. ASSUME SessionIInv, SessionIInv', Stopped \/ InRows, [Next]_vars
      PROVE  (Stopped \/ InRows)' /\ [SE!Next]_(SE!vars)
  <2>1. TypeOK /\ TypeOK' /\ SlotsChosen
    BY <1>2 DEF SessionIInv
  <2>2. CASE Stopped
    <3>1. UNCHANGED SE!vars
      BY <1>2, <2>2, StoppedUnseen DEF Stopped
    <3>2. Stopped'
      BY <1>2, <2>2, FaultStays DEF Stopped, vars
    <3> QED
      BY <3>1, <3>2
  <2>3. CASE ~Stopped
    <3>1. SessionInv /\ InRows
      BY <1>2, <2>3 DEF SessionIInv
    <3>2. (Stopped' \/ InRows') /\ [SE!Next]_(SE!vars)
      BY <1>2, <2>1, <3>1, SessionMaps
    <3> QED
      BY <3>2
  <2> QED
    BY <2>2, <2>3
<1>3. SessionIInv /\ SessionIInv' /\ (Stopped \/ InRows) /\ [Next]_vars
        => (Stopped \/ InRows)' /\ [SE!Next]_(SE!vars)
  BY <1>2
<1> QED
  BY <1>1, <1>3, SessionsStayWell, PTL DEF Spec, ImplementsSessions, SE!Spec

=============================================================================
