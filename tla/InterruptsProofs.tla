-------------------------- MODULE InterruptsProofs --------------------------
(***************************************************************************)
(* Theorems about Interrupts, for any number of terminals, any keyboard    *)
(* and any depth of nesting: no line stays in service while interrupts are *)
(* on, no handler is interrupted, no byte of the keyboard is lost or       *)
(* doubled, and every key does what it was meant to when it was pressed.   *)
(***************************************************************************)
EXTENDS Interrupts, TLAPS, SequenceTheorems, WellFoundedInduction

USE NTAssumption, KeysAssumption, BoundAssumption

-----------------------------------------------------------------------------
(* Stacks of handlers *)

TopOf(s) == IF s = <<>> THEN "none" ELSE s[Len(s)]

\* No handler of s, or none but the innermost, is inside its body.
Clean(s)      == \A n \in 1 .. Len(s) : s[n] \notin Bodies
CleanBelow(s) == \A n \in 1 .. Len(s) - 1 : s[n] \notin Bodies

\* Entering a handler on a stack whose handlers are all past their bodies.
LEMMA PushClean ==
  ASSUME NEW s \in Seq(Frames), NEW f \in Frames, Clean(s)
  PROVE  /\ Append(s, f) \in Seq(Frames)
         /\ CleanBelow(Append(s, f))
         /\ TopOf(Append(s, f)) = f
<1>1. /\ Append(s, f) \in Seq(Frames) /\ Append(s, f) # <<>>
      /\ Len(Append(s, f)) = Len(s) + 1
      /\ \A n \in 1 .. Len(s) : Append(s, f)[n] = s[n]
      /\ Append(s, f)[Len(s) + 1] = f
  BY AppendProperties
<1>2. Len(s) \in Nat
  BY LenProperties
<1> QED
  BY <1>1, <1>2 DEF Clean, CleanBelow, TopOf

\* The innermost handler past its body makes the whole stack clean.
LEMMA CleanWhole ==
  ASSUME NEW s \in Seq(Frames), CleanBelow(s), TopOf(s) \notin Bodies
  PROVE  Clean(s)
BY DEF Clean, CleanBelow, TopOf

\* What remains when the innermost handler returns, or is about to be replaced.
LEMMA PopClean ==
  ASSUME NEW s \in Seq(Frames), s # <<>>, CleanBelow(s)
  PROVE  /\ SubSeq(s, 1, Len(s) - 1) \in Seq(Frames)
         /\ Clean(SubSeq(s, 1, Len(s) - 1))
<1> DEFINE m == Len(s) - 1
<1> DEFINE r == SubSeq(s, 1, m)
<1>1. m \in Nat /\ \A i \in 1 .. m : s[i] \in Frames
  OBVIOUS
<1>2. \A i \in 1 .. m : s[i] \notin Bodies
  BY DEF CleanBelow
<1> HIDE DEF m
<1>3. r \in Seq(Frames)
  BY <1>1, SubSeqProperties
<1>4. Len(r) = m
  BY <1>1
<1>5. \A i \in 1 .. m : r[i] = s[i]
  BY <1>1
<1>6. Clean(r)
  BY <1>1, <1>2, <1>4, <1>5 DEF Clean
<1> QED
  BY <1>3, <1>6 DEF m

\* A clean stack has no handler inside its body on top.
LEMMA CleanTop ==
  ASSUME NEW s \in Seq(Frames), Clean(s)
  PROVE  TopOf(s) \notin Bodies /\ CleanBelow(s)
<1>1. "none" \notin Bodies
  BY DEF Bodies
<1> QED
  BY <1>1 DEF Clean, CleanBelow, TopOf

-----------------------------------------------------------------------------
(* The inductive invariant *)

\* The lines in service, by the handler the CPU is in.
Serves(frame) ==
  IF frame = "pit" THEN {Timer}
  ELSE IF frame \in {"keyboard", "decode"} THEN {Keyboard}
  ELSE IF frame = "rtc" THEN {Cascade, Clock}
  ELSE {}

ContextTypes ==
  /\ interrupts \in BOOLEAN
  /\ running \in 0 .. NT
  /\ stack \in [0 .. NT -> Seq(Frames)]
  /\ total_terminal \in 0 .. NT + 1

\* The handler on top accounts for every line in service and runs with
\* interrupts off; the contexts that do not run are clean, and the started ones
\* stand in the timer's handler.
ContextInv ==
  /\ serving = Serves(Top)
  /\ interrupts => Top \notin Bodies
  /\ CleanBelow(Inside)
  /\ \A t \in 0 .. NT : t # running => Clean(stack[t])
  /\ \A t \in 1 .. NT :
       t <= total_terminal /\ t # running => TopOf(stack[t]) = "pit_return"
  /\ running <= total_terminal
  /\ running = 0 => total_terminal = 0

LEMMA TopIsTopOf == Top = TopOf(Inside)
BY DEF Top, TopOf

\* The contexts as the properties speak of them.
LEMMA ContextsImply ==
  ASSUME ContextTypes, ContextInv
  PROVE  NothingLeftInService /\ HandlersRunAlone
<1>1. NothingLeftInService
  BY DEF ContextInv, NothingLeftInService, Serves, Bodies
<1>2. ASSUME NEW t \in 0 .. NT, NEW n \in 1 .. Len(stack[t]),
             stack[t][n] \in Bodies
      PROVE  t = running /\ n = Len(stack[t]) /\ ~interrupts
  <2>1. t = running
    BY <1>2 DEF ContextInv, Clean
  <2>2. stack[t] \in Seq(Frames)
    BY DEF ContextTypes
  <2>3. n = Len(stack[t])
    BY <1>2, <2>1, <2>2 DEF ContextInv, CleanBelow, Inside
  <2>4. Top \in Bodies
    BY <1>2, <2>1, <2>2, <2>3 DEF Top, Inside
  <2> QED
    BY <2>1, <2>3, <2>4 DEF ContextInv
<1>3. ASSUME NEW t \in 0 .. NT, 0 < t, t <= total_terminal, t # running
      PROVE  stack[t] # <<>> /\ stack[t][Len(stack[t])] = "pit_return"
  <2>1. TopOf(stack[t]) = "pit_return"
    BY <1>3 DEF ContextInv
  <2> QED
    BY <2>1 DEF TopOf
<1>4. HandlersRunAlone
  BY <1>2, <1>3, Zenon DEF HandlersRunAlone
<1> QED
  BY <1>1, <1>4

\* A step in which the running context gets another stack.
LEMMA ContextMoves ==
  ASSUME ContextTypes, ContextInv,
         NEW s \in Seq(Frames),
         stack' = [stack EXCEPT ![running] = s],
         UNCHANGED <<running, total_terminal>>,
         interrupts' \in BOOLEAN,
         CleanBelow(s),
         serving' = Serves(TopOf(s)),
         interrupts' => TopOf(s) \notin Bodies
  PROVE  ContextTypes' /\ ContextInv'
<1>1. ContextTypes'
  BY DEF ContextTypes
<1>2. stack'[running] = s /\ \A t \in 0 .. NT : t # running => stack'[t] = stack[t]
  BY DEF ContextTypes
<1>3. Inside' = s /\ Top' = TopOf(s)
  BY <1>2 DEF Inside, Top, TopOf
<1>4. /\ serving' = Serves(Top')
      /\ interrupts' => Top' \notin Bodies
      /\ CleanBelow(Inside')
  BY <1>3
<1>5. \A t \in 0 .. NT : t # running' => Clean(stack'[t])
  BY <1>2 DEF ContextInv
<1>6. \A t \in 1 .. NT :
        t <= total_terminal' /\ t # running' => TopOf(stack'[t]) = "pit_return"
  <2> SUFFICES ASSUME NEW t \in 1 .. NT, t <= total_terminal, t # running
               PROVE  TopOf(stack'[t]) = "pit_return"
    OBVIOUS
  <2>1. t \in 0 .. NT
    OBVIOUS
  <2>2. stack'[t] = stack[t]
    BY <1>2, <2>1
  <2> QED
    BY <2>2 DEF ContextInv
<1>7. running' <= total_terminal' /\ (running' = 0 => total_terminal' = 0)
  BY DEF ContextInv
<1> QED
  BY <1>1, <1>4, <1>5, <1>6, <1>7 DEF ContextInv, CleanBelow, Clean, TopOf

\* A step that leaves the CPU in its handler, with what that handler serves.
LEMMA ContextStays ==
  ASSUME ContextTypes, ContextInv,
         UNCHANGED <<running, stack, total_terminal>>,
         interrupts' \in BOOLEAN,
         interrupts' => Top \notin Bodies,
         serving' = Serves(Top)
  PROVE  ContextTypes' /\ ContextInv'
<1>1. Inside' = Inside /\ Top' = Top
  BY DEF Inside, Top
<1>2. ContextTypes'
  BY DEF ContextTypes
<1> QED
  BY <1>1, <1>2 DEF ContextInv, Clean, CleanBelow, TopOf

\* What is left under the handler on top.
LEMMA UnderTop ==
  ASSUME ContextTypes, ContextInv, Inside # <<>>
  PROVE  /\ Inside \in Seq(Frames)
         /\ Below \in Seq(Frames) /\ Clean(Below)
         /\ \A f \in Frames :
              /\ LeaveAs(f) \in Seq(Frames)
              /\ CleanBelow(LeaveAs(f))
              /\ TopOf(LeaveAs(f)) = f
<1>1. Inside \in Seq(Frames) /\ CleanBelow(Inside)
  BY DEF ContextTypes, ContextInv, Inside
<1>2. Below \in Seq(Frames) /\ Clean(Below)
  BY <1>1, PopClean DEF Below
<1> QED
  BY <1>1, <1>2, PushClean DEF LeaveAs

\* A handler that is not running stands on a clean stack.
LEMMA RunningClean ==
  ASSUME ContextTypes, ContextInv, interrupts
  PROVE  Inside \in Seq(Frames) /\ Clean(Inside) /\ serving = {}
<1>1. Inside \in Seq(Frames) /\ CleanBelow(Inside) /\ TopOf(Inside) \notin Bodies
  BY TopIsTopOf DEF ContextTypes, ContextInv, Inside
<1>2. serving = {}
  BY DEF ContextInv, Serves, Bodies
<1> QED
  BY <1>1, <1>2, CleanWhole

-----------------------------------------------------------------------------
(* One lemma for each kind of step *)

\* The gates of the three lines turn interrupts off, and lead to their handlers.
LEMMA GatesOfLines ==
  ASSUME NEW i \in {Timer, Keyboard, Clock}
  PROVE  /\ Vector(i) \notin TrapGates
         /\ Handler(Vector(i)) \in Frames
         /\ ServedWith(i) = Serves(Handler(Vector(i)))
<1>1. CASE i = Timer
  <2>1. Vector(i) = 32
    BY <1>1 DEF Vector, Timer
  <2> QED
    BY <1>1, <2>1 DEF Handler, TrapGates, Frames, ServedWith, Serves, Timer
<1>2. CASE i = Keyboard
  <2>1. Vector(i) = 33
    BY <1>2 DEF Vector, Keyboard
  <2> QED
    BY <1>2, <2>1 DEF Handler, TrapGates, Frames, ServedWith, Serves, Keyboard
<1>3. CASE i = Clock
  <2>1. Vector(i) = 40
    BY <1>3 DEF Vector, Clock
  <2> QED
    BY <1>3, <2>1 DEF Handler, TrapGates, Frames, ServedWith, Serves, Clock,
                      Cascade
<1> QED
  BY <1>1, <1>2, <1>3

LEMMA AcceptKeeps ==
  ASSUME TypeOK, ContextTypes, ContextInv, NEW i \in Lines, Accept(i)
  PROVE  ContextTypes' /\ ContextInv'
<1>1. i \in {Timer, Keyboard, Clock}
  BY DEF TypeOK, Accept, First, Deliverable
<1>2. interrupts' = FALSE
  <2>1. Vector(i) \notin TrapGates
    BY <1>1, GatesOfLines
  <2>2. interrupts' = (Vector(i) \in TrapGates)
    BY Zenon DEF Accept
  <2>3. (Vector(i) \in TrapGates) = FALSE
    BY <2>1
  <2> QED
    BY <2>2, <2>3, Zenon
<1>3. Inside \in Seq(Frames) /\ Clean(Inside) /\ serving = {}
  BY RunningClean DEF Accept
<1> DEFINE s == Append(Inside, Handler(Vector(i)))
<1>4. /\ s \in Seq(Frames)
      /\ CleanBelow(s)
      /\ TopOf(s) = Handler(Vector(i))
  BY <1>1, <1>3, GatesOfLines, PushClean
<1>5. serving' = Serves(TopOf(s))
  BY <1>1, <1>3, <1>4, GatesOfLines DEF Accept
<1>6. stack' = [stack EXCEPT ![running] = s]
  BY DEF Accept, Inside
<1>7. UNCHANGED <<running, total_terminal>>
  BY DEF Accept
<1> HIDE DEF s
<1> QED
  BY <1>2, <1>4, <1>5, <1>6, <1>7, ContextMoves

\* The boot code changes neither the stacks nor, with none in service, the lines.
LEMMA EntryKeeps ==
  ASSUME ContextTypes, ContextInv, entry
  PROVE  ContextTypes' /\ ContextInv'
<1>1. Inside = <<>>
  BY DEF entry, i8259_init, Enable, EnablePeriodic, SwitchOn, PitMode, PitCount,
         BootStep
<1>2. Top \notin Bodies /\ Serves(Top) = {} /\ serving = {}
  BY <1>1 DEF Top, Bodies, Serves, ContextInv
<1>3. UNCHANGED <<running, stack, total_terminal>>
  BY DEF entry, i8259_init, Enable, EnablePeriodic, SwitchOn, PitMode, PitCount,
         cpuVars
<1>4. serving' = {}
  BY <1>2 DEF entry, i8259_init, Enable, EnablePeriodic, SwitchOn, PitMode,
              PitCount, picVars
<1>5. interrupts' \in BOOLEAN
  <2>1. CASE i8259_init \/ EnablePeriodic
    BY <2>1, Zenon DEF i8259_init, EnablePeriodic
  <2>2. CASE SwitchOn("rtc_open", "enable_clock") \/ SwitchOn("sti", "hlt")
    BY <2>2, Zenon DEF SwitchOn
  <2>3. CASE \/ Enable("enable_keyboard", "clear", Keyboard)
             \/ Enable("enable_clock", "pit_init", Clock)
             \/ Enable("pit_init", "pit_mode", Timer)
             \/ PitMode \/ PitCount
    <3>1. interrupts' = interrupts
      BY <2>3 DEF Enable, PitMode, PitCount
    <3> QED
      BY <3>1 DEF ContextTypes
  <2> QED
    BY <2>1, <2>2, <2>3, Zenon DEF entry
<1> QED
  BY <1>2, <1>3, <1>4, <1>5, ContextStays

LEMMA StartsShellKeeps ==
  ASSUME ContextTypes, ContextInv, PitStartsShell
  PROVE  ContextTypes' /\ ContextInv'
<1> DEFINE n == total_terminal + 1
           f == IF running = 0 THEN "abandoned" ELSE "pit_return"
<1>1. n \in 1 .. NT /\ running \in 0 .. NT /\ running # n
  BY DEF PitStartsShell, ContextTypes, ContextInv
<1>2. Inside # <<>> /\ Top = "pit"
  BY DEF PitStartsShell, Top
<1>3. f \in Frames /\ f \notin Bodies /\ <<"execute">> \in Seq(Frames)
  BY DEF Frames, Bodies
<1>4. LeaveAs(f) \in Seq(Frames) /\ CleanBelow(LeaveAs(f)) /\ TopOf(LeaveAs(f)) = f
  BY <1>2, <1>3, UnderTop
<1>5. Clean(LeaveAs(f))
  BY <1>3, <1>4, CleanWhole
<1>6. /\ stack' = [stack EXCEPT ![running] = LeaveAs(f), ![n] = <<"execute">>]
      /\ running' = n /\ total_terminal' = n
      /\ interrupts' = interrupts /\ serving' = serving \ {Timer}
  BY DEF PitStartsShell, PitEoi, send_eoi, ServedWith, Timer
<1> HIDE DEF n, f
<1>7. interrupts = FALSE /\ serving = {Timer}
  BY <1>2 DEF ContextInv, ContextTypes, Bodies, Serves
<1>8. stack' \in [0 .. NT -> Seq(Frames)]
  BY <1>1, <1>3, <1>4, <1>6 DEF ContextTypes
<1>9. /\ stack'[n] = <<"execute">>
      /\ stack'[running] = LeaveAs(f)
      /\ \A t \in 0 .. NT : t \notin {n, running} => stack'[t] = stack[t]
  BY <1>1, <1>6 DEF ContextTypes
<1>10. ContextTypes'
  <2>1. interrupts' \in BOOLEAN
    BY <1>6, <1>7
  <2>2. running' \in 0 .. NT /\ total_terminal' \in 0 .. NT + 1
    BY <1>1, <1>6
  <2> QED
    BY <1>8, <2>1, <2>2 DEF ContextTypes
<1>11. Inside' = <<"execute">> /\ Top' = "execute"
  <2>1. Inside' = <<"execute">>
    BY <1>6, <1>9 DEF Inside
  <2>2. Len(<<"execute">>) = 1 /\ <<"execute">>[1] = "execute"
    OBVIOUS
  <2>3. <<"execute">> # <<>>
    OBVIOUS
  <2> QED
    BY <2>1, <2>2, <2>3, Zenon DEF Top
<1>12. serving' = Serves(Top') /\ ~interrupts' /\ CleanBelow(Inside')
  BY <1>6, <1>7, <1>11 DEF Serves, CleanBelow
<1>13. \A t \in 0 .. NT : t # running' => Clean(stack'[t])
  BY <1>5, <1>6, <1>9 DEF ContextInv
<1>14. ASSUME NEW t \in 1 .. NT, t <= total_terminal', t # running'
       PROVE  TopOf(stack'[t]) = "pit_return"
  <2>1. CASE t = running
    BY <1>1, <1>4, <1>9, <2>1 DEF f
  <2>2. CASE t # running
    <3>1. t \in 0 .. NT /\ t <= total_terminal
      BY <1>6, <1>14 DEF n, ContextTypes
    <3> QED
      BY <1>6, <1>9, <1>14, <2>2, <3>1 DEF ContextInv
  <2> QED
    BY <2>1, <2>2
<1>15. running' <= total_terminal' /\ (running' = 0 => total_terminal' = 0)
  BY <1>1, <1>6
<1> QED
  BY <1>10, <1>12, <1>13, <1>14, <1>15 DEF ContextInv, Clean, CleanBelow, TopOf

LEMMA SwitchesKeeps ==
  ASSUME ContextTypes, ContextInv, PitSwitches
  PROVE  ContextTypes' /\ ContextInv'
<1> DEFINE s == LeaveAs("pit_return")
<1>1. Inside # <<>> /\ Top = "pit"
  BY DEF PitSwitches, Top
<1>2. "pit_return" \in Frames \ Bodies
  BY DEF Frames, Bodies
<1>3. s \in Seq(Frames) /\ CleanBelow(s) /\ TopOf(s) = "pit_return"
  BY <1>1, <1>2, UnderTop
<1>4. Clean(s)
  BY <1>2, <1>3, CleanWhole
<1>5. running \in 1 .. NT
  BY DEF PitSwitches, ContextInv, ContextTypes
<1>6. running' \in 1 .. NT
  BY <1>5 DEF PitSwitches
<1>7. /\ stack' = [stack EXCEPT ![running] = s]
      /\ total_terminal' = NT + 1 /\ total_terminal >= NT
      /\ interrupts' = interrupts /\ serving' = serving \ {Timer}
  BY DEF PitSwitches, PitEoi, send_eoi, ServedWith, Timer, AllStarted
<1> HIDE DEF s
<1>8. interrupts = FALSE /\ serving = {Timer}
  BY <1>1 DEF ContextInv, ContextTypes, Bodies, Serves
<1>9. ContextTypes'
  BY <1>3, <1>6, <1>7, <1>8 DEF ContextTypes
<1>10. \A t \in 0 .. NT : stack'[t] = IF t = running THEN s ELSE stack[t]
  BY <1>7 DEF ContextTypes
<1>11. \A t \in 0 .. NT : Clean(stack'[t])
  BY <1>4, <1>10 DEF ContextInv
<1>12. \A t \in 1 .. NT : TopOf(stack'[t]) = "pit_return"
  <2> TAKE t \in 1 .. NT
  <2>1. t \in 0 .. NT /\ t <= total_terminal
    BY <1>7 DEF ContextTypes
  <2> QED
    BY <1>3, <1>10, <2>1 DEF ContextInv
<1>13. Inside' = stack'[running'] /\ Inside' \in Seq(Frames)
  BY <1>6, <1>9 DEF Inside, ContextTypes
<1>14. CleanBelow(Inside') /\ Top' = "pit_return"
  BY <1>6, <1>11, <1>12, <1>13 DEF Clean, CleanBelow, Top, TopOf
<1>15. serving' = Serves(Top') /\ ~interrupts'
  BY <1>7, <1>8, <1>14 DEF Serves
<1>16. running' <= total_terminal' /\ running' # 0
  BY <1>6, <1>7
<1> QED
  BY <1>9, <1>11, <1>12, <1>14, <1>15, <1>16
  DEF ContextInv, Clean, CleanBelow, TopOf

\* The handlers that return or go on past their bodies.
LEMMA HandlersKeep ==
  ASSUME ContextTypes, ContextInv,
         LeavePit \/ rtc_interrupt \/ RtcReturns \/ ReadPort \/ keyboard_handler
  PROVE  ContextTypes' /\ ContextInv'
<1>1. Inside # <<>> /\ UNCHANGED <<running, total_terminal>>
  BY DEF LeavePit, rtc_interrupt, RtcReturns, ReadPort, keyboard_handler, Top
<1>2. /\ Below \in Seq(Frames) /\ CleanBelow(Below) /\ TopOf(Below) \notin Bodies
      /\ Serves(TopOf(Below)) = {}
  <2>1. Below \in Seq(Frames) /\ Clean(Below)
    BY <1>1, UnderTop
  <2> QED
    BY <2>1, CleanTop DEF Serves, Bodies
<1>3. \A f \in Frames : /\ LeaveAs(f) \in Seq(Frames)
                        /\ CleanBelow(LeaveAs(f)) /\ TopOf(LeaveAs(f)) = f
  BY <1>1, UnderTop
<1>4. CASE LeavePit \/ RtcReturns
  <2>1. /\ stack' = [stack EXCEPT ![running] = Below]
        /\ serving' = serving /\ interrupts' \in {TRUE, interrupts}
    BY <1>4 DEF LeavePit, RtcReturns, picVars
  <2>2. serving = {}
    BY <1>4 DEF LeavePit, RtcReturns, ContextInv, Serves
  <2>3. interrupts' \in BOOLEAN
    BY <2>1 DEF ContextTypes
  <2> QED
    BY <1>1, <1>2, <2>1, <2>2, <2>3, ContextMoves
<1>5. CASE keyboard_handler
  <2>1. /\ stack' = [stack EXCEPT ![running] = Below]
        /\ serving' = serving \ {Keyboard}
    BY <1>5 DEF keyboard_handler, send_eoi, ServedWith, Keyboard
  <2>2. serving' = {}
    BY <1>5, <2>1 DEF keyboard_handler, ContextInv, Serves
  <2>3. interrupts' \in BOOLEAN
    BY <1>5, Zenon DEF keyboard_handler
  <2> QED
    BY <1>1, <1>2, <2>1, <2>2, <2>3, ContextMoves
<1>6. CASE rtc_interrupt
  <2>1. /\ stack' = [stack EXCEPT ![running] = LeaveAs("rtc_return")]
        /\ serving' = serving \ {Cascade, Clock}
    BY <1>6 DEF rtc_interrupt, send_eoi, ServedWith, Clock
  <2>2. serving' = {}
    BY <1>6, <2>1 DEF rtc_interrupt, ContextInv, Serves
  <2>3. interrupts' \in BOOLEAN
    BY <1>6, Zenon DEF rtc_interrupt
  <2>4. /\ "rtc_return" \in Frames \ Bodies /\ Serves("rtc_return") = {}
    BY DEF Frames, Bodies, Serves
  <2>5. /\ LeaveAs("rtc_return") \in Seq(Frames)
        /\ CleanBelow(LeaveAs("rtc_return"))
        /\ TopOf(LeaveAs("rtc_return")) = "rtc_return"
    BY <1>3, <2>4
  <2> QED
    BY <1>1, <2>1, <2>2, <2>3, <2>4, <2>5, ContextMoves
<1>7. CASE ReadPort
  <2>1. /\ stack' = [stack EXCEPT ![running] = LeaveAs("decode")]
        /\ serving' = serving /\ interrupts' = interrupts
    BY <1>7 DEF ReadPort, picVars
  <2>2. interrupts = FALSE /\ serving = Serves("decode")
    BY <1>7 DEF ReadPort, ContextInv, ContextTypes, Serves, Bodies
  <2>3. "decode" \in Frames
    BY DEF Frames
  <2>4. /\ LeaveAs("decode") \in Seq(Frames)
        /\ CleanBelow(LeaveAs("decode"))
        /\ TopOf(LeaveAs("decode")) = "decode"
    BY <1>3, <2>3
  <2> QED
    BY <1>1, <2>1, <2>2, <2>4, ContextMoves
<1> QED
  BY <1>4, <1>5, <1>6, <1>7

\* Programs, devices and users move no stack and end no interrupt.
LEMMA OutsideKeeps ==
  ASSUME ContextTypes, ContextInv,
         \/ Cli \/ Sti \/ PitEdge \/ ClockEdge \/ KeyEdge
         \/ \E k \in Keys : Press(k) \/ Release(k)
         \/ UNCHANGED vars
  PROVE  ContextTypes' /\ ContextInv'
<1>1. UNCHANGED <<running, stack, total_terminal, serving>>
  BY DEF Cli, Sti, PitEdge, ClockEdge, KeyEdge, Press, Release, vars, cpuVars,
         picVars
<1>2. CASE Cli \/ Sti
  <2>1. Top \notin Bodies
    BY <1>2 DEF Cli, Sti, InProgram, Top, Bodies
  <2>2. interrupts' \in BOOLEAN
    BY <1>2, Zenon DEF Cli, Sti
  <2> QED
    BY <1>1, <2>1, <2>2, ContextStays DEF ContextInv
<1>3. CASE ~(Cli \/ Sti)
  <2>1. interrupts' = interrupts
    BY <1>3 DEF PitEdge, ClockEdge, KeyEdge, Press, Release, vars
  <2> QED
    BY <1>1, <2>1, ContextStays DEF ContextInv, ContextTypes
<1> QED
  BY <1>2, <1>3

\* Every step keeps the contexts in order.
LEMMA ContextStep ==
  ASSUME TypeOK, ContextInv, [Next]_vars
  PROVE  ContextTypes' /\ ContextInv'
<1>1. ContextTypes
  BY DEF TypeOK, ContextTypes
<1>2. CASE \E i \in Lines : Accept(i)
  BY <1>1, <1>2, AcceptKeeps
<1>3. CASE entry
  BY <1>1, <1>3, EntryKeeps
<1>4. CASE PitStartsShell
  BY <1>1, <1>4, StartsShellKeeps
<1>5. CASE PitSwitches
  BY <1>1, <1>5, SwitchesKeeps
<1>6. CASE LeavePit \/ rtc_interrupt \/ RtcReturns \/ ReadPort \/ keyboard_handler
  BY <1>1, <1>6, HandlersKeep
<1>7. CASE \/ Cli \/ Sti \/ PitEdge \/ ClockEdge \/ KeyEdge
           \/ \E k \in Keys : Press(k) \/ Release(k)
           \/ UNCHANGED vars
  BY <1>1, <1>7, OutsideKeeps
<1> QED
  BY <1>2, <1>3, <1>4, <1>5, <1>6, <1>7 DEF Next, Handlers

-----------------------------------------------------------------------------
(* Types *)

\* What TypeOK says of the controllers, the devices and the flags.
ChipTypes ==
  /\ at \in {"i8259_init", "enable_keyboard", "clear", "rtc_open",
             "enable_clock", "pit_init", "pit_mode", "pit_count", "sti", "hlt"}
  /\ masked \subseteq Lines
  /\ requested \subseteq {Timer, Keyboard, Clock}
  /\ serving \subseteq {Timer, Keyboard, Cascade, Clock}
  /\ pit \in {"bios", "waiting", "on"}
  /\ register_b \in BOOLEAN /\ register_c \in BOOLEAN
KeyTypes ==
  /\ kb \in Seq(Bytes) /\ port60 \in Seq(Bytes) /\ c \in Seq(Bytes)
  /\ flags \in Flags
  /\ held \subseteq Modifiers /\ caps \in BOOLEAN

LEMMA TypesSplit == TypeOK <=> ContextTypes /\ ChipTypes /\ KeyTypes
BY Zenon DEF TypeOK, ContextTypes, ChipTypes, KeyTypes

LEMMA ChipStep ==
  ASSUME ChipTypes, [Next]_vars
  PROVE  ChipTypes'
<1>1. CASE \E i \in Lines : Accept(i)
  <2> PICK i \in Lines : Accept(i)
    BY <1>1
  <2>1. i \in {Timer, Keyboard, Clock}
    BY DEF ChipTypes, Accept, First, Deliverable
  <2>2. ServedWith(i) \subseteq {Timer, Keyboard, Cascade, Clock}
    BY <2>1 DEF ServedWith
  <2> QED
    BY <2>2 DEF Accept, ChipTypes, clkVars
<1>2. CASE entry
  <2>1. ASSUME NEW irq \in Lines
        PROVE  MaskWith(irq) \subseteq Lines
    <3>1. /\ Bits(MASTER_8259_PORT + 1) \subseteq 0 .. 7
          /\ Bits(SLAVE_8259_PORT + 1) \subseteq 0 .. 7
      BY Zenon DEF Bits
    <3>2. {8 + b : b \in Bits(SLAVE_8259_PORT + 1) \ {irq - 8}} \subseteq Lines
      BY <3>1 DEF Lines
    <3>3. masked \subseteq Lines /\ 0 .. 7 \subseteq Lines
      BY DEF ChipTypes, Lines
    <3> QED
      BY <3>1, <3>2, <3>3, Zenon DEF MaskWith
  <2>2. {Keyboard, Clock, Timer} \subseteq Lines
    BY DEF Keyboard, Clock, Timer, Lines
  <2>3. CASE i8259_init
    BY <2>3 DEF i8259_init, BootStep, ChipTypes, clkVars
  <2>4. CASE \/ Enable("enable_keyboard", "clear", Keyboard)
             \/ Enable("enable_clock", "pit_init", Clock)
             \/ Enable("pit_init", "pit_mode", Timer)
    BY <2>1, <2>2, <2>4 DEF Enable, enable_irq, BootStep, ChipTypes, clkVars
  <2>5. CASE EnablePeriodic
    <3>1. register_b' \in BOOLEAN
      BY <2>5, Zenon DEF EnablePeriodic
    <3> QED
      BY <2>5, <3>1 DEF EnablePeriodic, BootStep, ChipTypes, picVars
  <2>6. CASE SwitchOn("rtc_open", "enable_clock") \/ SwitchOn("sti", "hlt")
    BY <2>6 DEF SwitchOn, BootStep, ChipTypes, clkVars, picVars
  <2>7. CASE PitMode \/ PitCount
    BY <2>7 DEF PitMode, PitCount, BootStep, ChipTypes, clkVars, picVars
  <2> QED
    BY <1>2, <2>3, <2>4, <2>5, <2>6, <2>7, Zenon DEF entry
<1>3. CASE Handlers
  <2>1. CASE rtc_interrupt
    <3>1. register_c' \in BOOLEAN
      BY <2>1, Zenon DEF rtc_interrupt
    <3> QED
      BY <2>1, <3>1 DEF rtc_interrupt, send_eoi, ChipTypes
  <2>2. CASE PitStartsShell \/ PitSwitches
    BY <2>2 DEF PitStartsShell, PitSwitches, PitEoi, send_eoi, ChipTypes, clkVars
  <2>3. CASE LeavePit \/ RtcReturns \/ ReadPort
    BY <2>3 DEF LeavePit, RtcReturns, ReadPort, ChipTypes, clkVars, picVars
  <2>4. CASE keyboard_handler
    BY <2>4 DEF keyboard_handler, send_eoi, ChipTypes, clkVars
  <2> QED
    BY <1>3, <2>1, <2>2, <2>3, <2>4, Zenon DEF Handlers
<1>4. CASE PitEdge \/ KeyEdge
  BY <1>4 DEF PitEdge, KeyEdge, Raise, ChipTypes, clkVars
<1>5. CASE ClockEdge
  <2>1. register_c' \in BOOLEAN
    BY <1>5, Zenon DEF ClockEdge
  <2> QED
    BY <1>5, <2>1 DEF ClockEdge, Raise, ChipTypes
<1>6. CASE Cli \/ Sti \/ UNCHANGED vars
  BY <1>6 DEF Cli, Sti, vars, ChipTypes, clkVars, picVars
<1>7. CASE \E k \in Keys : Press(k) \/ Release(k)
  BY <1>7 DEF Press, Release, ChipTypes, clkVars, picVars
<1> QED
  BY <1>1, <1>2, <1>3, <1>4, <1>5, <1>6, <1>7, Zenon DEF Next

\* The flags stay Booleans.
LEMMA FlagsTyped ==
  ASSUME NEW f, NEW k
  PROVE  FlagsAfter(f, k) \in Flags
<1>1. /\ ShiftAfter(f, k) \in BOOLEAN
      /\ (k = ALT \/ (f.alt_key /\ k # Released(ALT))) \in BOOLEAN
      /\ (k = CTRL \/ (f.ctrl_key /\ k # Released(CTRL))) \in BOOLEAN
      /\ (f.cap_flag # (k = CAPS)) \in BOOLEAN
  BY Zenon DEF ShiftAfter
<1> QED
  BY <1>1, Zenon DEF FlagsAfter, Flags

LEMMA KeyStep ==
  ASSUME KeyTypes, [Next]_vars
  PROVE  KeyTypes'
<1>1. CASE UNCHANGED keyVars
  BY <1>1 DEF keyVars, KeyTypes
<1>2. CASE ReadPort
  BY <1>2 DEF ReadPort, KeyTypes
<1>3. CASE keyboard_handler
  <2>1. flags' \in Flags
    BY <1>3, FlagsTyped, Zenon DEF keyboard_handler
  <2> QED
    BY <1>3, <2>1 DEF keyboard_handler, KeyTypes
<1>4. CASE KeyEdge
  BY <1>4, HeadTailProperties DEF KeyEdge, KeyTypes
<1>5. ASSUME NEW k \in Keys, Press(k)
      PROVE  KeyTypes'
  <2>1. k \in Bytes
    BY DEF Bytes
  <2>2. kb' \in Seq(Bytes)
    BY <1>5, <2>1 DEF Press, KeyTypes
  <2>3. caps' \in BOOLEAN
    BY <1>5, Zenon DEF Press, KeyTypes
  <2>4. held' \subseteq Modifiers
    BY <1>5 DEF Press, KeyTypes
  <2>5. UNCHANGED <<port60, c, flags>>
    BY <1>5 DEF Press
  <2> QED
    BY <2>2, <2>3, <2>4, <2>5 DEF KeyTypes
<1>6. ASSUME NEW k \in Keys, Release(k)
      PROVE  KeyTypes'
  <2>1. Released(k) \in Bytes
    BY DEF Released, Bytes
  <2> QED
    BY <1>6, <2>1 DEF Release, KeyTypes
<1>7. CASE UNCHANGED vars
  BY <1>7 DEF vars, keyVars, KeyTypes
<1>8. CASE \E i \in Lines : Accept(i)
  BY <1>1, <1>8 DEF Accept
<1>9. CASE entry
  BY <1>1, <1>9 DEF entry, i8259_init, Enable, EnablePeriodic, SwitchOn, PitMode,
                    PitCount
<1>10. CASE PitStartsShell \/ PitSwitches \/ LeavePit \/ rtc_interrupt \/ RtcReturns
  BY <1>1, <1>10 DEF PitStartsShell, PitSwitches, LeavePit, rtc_interrupt,
                     RtcReturns
<1>11. CASE Cli \/ Sti \/ PitEdge \/ ClockEdge
  BY <1>1, <1>11 DEF Cli, Sti, PitEdge, ClockEdge
<1> QED
  BY <1>2, <1>3, <1>4, <1>5, <1>6, <1>7, <1>8, <1>9, <1>10, <1>11
  DEF Next, Handlers

-----------------------------------------------------------------------------
(* Theorems *)

LEMMA Start == Init => TypeOK /\ ContextInv
<1> SUFFICES ASSUME Init PROVE TypeOK /\ ContextInv
  OBVIOUS
<1>1. stack = [t \in 0 .. NT |-> <<>>] /\ running = 0 /\ total_terminal = 0
  BY DEF Init
<1>2. interrupts = FALSE /\ interrupts \in BOOLEAN
  BY Zenon DEF Init
<1>3. ContextTypes
  BY <1>1, <1>2 DEF ContextTypes
<1>4. Inside = <<>> /\ Top = "none"
  BY <1>1 DEF Inside, Top
<1>5. ContextInv
  <2>1. \A t \in 0 .. NT : stack[t] = <<>>
    BY <1>1
  <2>2. Clean(<<>>) /\ CleanBelow(<<>>)
    BY DEF Clean, CleanBelow
  <2>3. serving = Serves(Top)
    BY <1>4 DEF Init, Serves
  <2> QED
    BY <1>1, <1>2, <1>4, <2>1, <2>2, <2>3 DEF ContextInv
<1>6. ChipTypes
  <2>1. register_b \in BOOLEAN /\ register_c \in BOOLEAN
    BY Zenon DEF Init
  <2>2. masked \subseteq Lines /\ requested \subseteq {Timer, Keyboard, Clock}
        /\ serving \subseteq {Timer, Keyboard, Cascade, Clock}
    BY DEF Init
  <2> QED
    BY <2>1, <2>2 DEF Init, ChipTypes
<1>7. KeyTypes
  <2>1. caps \in BOOLEAN /\ flags \in Flags
    BY Zenon DEF Init, Flags
  <2> QED
    BY <2>1 DEF Init, KeyTypes
<1> QED
  BY <1>3, <1>5, <1>6, <1>7, TypesSplit

LEMMA InvariantHolds == Spec => [](TypeOK /\ ContextInv)
<1>1. TypeOK /\ ContextInv /\ [Next]_vars => TypeOK' /\ ContextInv'
  <2> SUFFICES ASSUME TypeOK, ContextInv, [Next]_vars
               PROVE  TypeOK' /\ ContextInv'
    OBVIOUS
  <2>1. ContextTypes' /\ ContextInv'
    BY ContextStep
  <2>2. ChipTypes' /\ KeyTypes'
    BY TypesSplit, ChipStep, KeyStep
  <2>3. ContextTypes' /\ ChipTypes' /\ KeyTypes' => TypeOK'
    BY Zenon DEF TypeOK, ContextTypes, ChipTypes, KeyTypes
  <2> QED
    BY <2>1, <2>2, <2>3
<1> QED
  BY <1>1, Start, PTL DEF Spec

\* Every variable keeps its range; the lines nothing drives are never served.
THEOREM LinesTyped == Spec => []TypeOK
BY InvariantHolds, PTL

\* i8259.c and the handlers: with interrupts on, no line is in service, however
\* the handlers were nested, abandoned or switched away from.
THEOREM EveryInterruptEnded == Spec => []NothingLeftInService
<1>1. TypeOK /\ ContextInv => NothingLeftInService
  BY ContextsImply DEF TypeOK, ContextTypes
<1> QED
  BY <1>1, InvariantHolds, PTL

\* idt.c: handlers are not interrupted, and every terminal that does not run
\* stands in the timer's handler.
THEOREM HandlersAlone == Spec => []HandlersRunAlone
<1>1. TypeOK /\ ContextInv => HandlersRunAlone
  BY ContextsImply DEF TypeOK, ContextTypes
<1> QED
  BY <1>1, InvariantHolds, PTL

-----------------------------------------------------------------------------
(* Keys *)

\* The flags say which modifiers are down (h) and whether the light is on.
Agree(f, h, on) ==
  /\ f.shift_key <=> h \cap Shifts # {}
  /\ f.alt_key   <=> ALT \in h
  /\ f.ctrl_key  <=> CTRL \in h
  /\ f.cap_flag  <=> on
OneShift(h) == \A a, b \in h \cap Shifts : a = b

\* The four flags after a scan code, each on its own.
LEMMA FlagsAre ==
  ASSUME NEW f, NEW k
  PROVE  LET now == FlagsAfter(f, k)
         IN  /\ now.shift_key <=>
                  k \in Shifts
                    \/ (f.shift_key /\ k \notin {Released(s) : s \in Shifts})
             /\ now.alt_key  <=> k = ALT \/ (f.alt_key /\ k # Released(ALT))
             /\ now.ctrl_key <=> k = CTRL \/ (f.ctrl_key /\ k # Released(CTRL))
             /\ now.cap_flag <=> (f.cap_flag # (k = CAPS))
<1> DEFINE now == FlagsAfter(f, k)
<1>1. /\ now.shift_key = ShiftAfter(f, k)
      /\ now.alt_key = (k = ALT \/ (f.alt_key /\ k # Released(ALT)))
      /\ now.ctrl_key = (k = CTRL \/ (f.ctrl_key /\ k # Released(CTRL)))
      /\ now.cap_flag = (f.cap_flag # (k = CAPS))
  BY Zenon DEF FlagsAfter
<1> QED
  BY <1>1, Zenon DEF ShiftAfter

\* A character key whose flags ask for nothing else types its character, and is
\* meant to.
LEMMA TypeEffect ==
  ASSUME NEW f, NEW k \in CharKeys, ~(k = L /\ f.ctrl_key), k \notin FnKeys,
         k \notin {SPACE, BACKSPACE, ENTER}
  PROVE  Effect(f, k) = <<"type", k, Upper(f, k)>>
<1> DEFINE typed == <<"type", k, Upper(f, k)>>
<1>1. Effect(f, k) =
        CASE k = L /\ f.ctrl_key               -> <<"clear">>
          [] k \in FnKeys /\ f.alt_key         -> <<"switch", k>>
          [] k \in {SPACE, BACKSPACE, ENTER}   -> <<"edit", k>>
          [] k \in CharKeys /\ ~(k = L /\ f.ctrl_key) -> typed
          [] OTHER                             -> Nothing
  BY Zenon DEF Effect
<1> HIDE DEF typed
<1>2. Effect(f, k) = typed
  BY <1>1
<1> QED
  BY <1>2 DEF typed

LEMMA WantedType ==
  ASSUME NEW h, NEW on, NEW k \in CharKeys, ~(k = L /\ CTRL \in h)
  PROVE  Wanted(h, on, k)
           = <<"type", k, (h \cap Shifts # {}) # (on /\ k \in Letters)>>
<1> DEFINE typed == <<"type", k, (h \cap Shifts # {}) # (on /\ k \in Letters)>>
<1>1. Wanted(h, on, k) =
        CASE k \in CharKeys /\ ~(k = L /\ CTRL \in h) -> typed
          [] k = L /\ CTRL \in h             -> <<"clear">>
          [] k \in FnKeys /\ ALT \in h       -> <<"switch", k>>
          [] k \in {SPACE, BACKSPACE, ENTER} -> <<"edit", k>>
          [] OTHER                           -> Nothing
  BY Zenon DEF Wanted
<1>2. k \notin FnKeys /\ k \notin {SPACE, BACKSPACE, ENTER}
  BY DEF CharKeys, NoChar, FnKeys, SPACE, BACKSPACE, ENTER
<1> HIDE DEF typed
<1>3. Wanted(h, on, k) = typed
  BY <1>1, <1>2
<1> QED
  BY <1>3 DEF typed

\* keyboard_handler: pressing any key, with the flags in step with the keys that
\* are down, leaves them in step and has the effect that was meant.
THEOREM PressDecoded ==
  ASSUME NEW h \in SUBSET Modifiers, OneShift(h), NEW on \in BOOLEAN,
         NEW f \in Flags, Agree(f, h, on), NEW k \in 1 .. 127, Careful(h, on, k)
  PROVE  LET now  == FlagsAfter(f, k)
             down == h \cup ({k} \cap Modifiers)
         IN  /\ Agree(now, down, IF k = CAPS THEN ~on ELSE on)
             /\ OneShift(down)
             /\ Effect(now, k) = Wanted(h, on, k)
<1> DEFINE now  == FlagsAfter(f, k)
           down == h \cup ({k} \cap Modifiers)
<1>0. /\ k \notin {Released(s) : s \in Shifts}
      /\ k # Released(ALT) /\ k # Released(CTRL)
  BY DEF Shifts, Released, ALT, CTRL
<1>a. /\ k \in Shifts => down \cap Shifts # {}
      /\ k \notin Shifts => down \cap Shifts = h \cap Shifts
      /\ ALT \in down <=> k = ALT \/ ALT \in h
      /\ CTRL \in down <=> k = CTRL \/ CTRL \in h
  BY DEF Modifiers
<1>1. now.shift_key <=> down \cap Shifts # {}
  BY <1>0, <1>a, FlagsAre, Zenon DEF Agree
<1>2. now.alt_key <=> ALT \in down
  BY <1>0, <1>a, FlagsAre, Zenon DEF Agree
<1>3. now.ctrl_key <=> CTRL \in down
  BY <1>0, <1>a, FlagsAre, Zenon DEF Agree
<1>4. now.cap_flag <=> (IF k = CAPS THEN ~on ELSE on)
  <2>1. now.cap_flag <=> (f.cap_flag # (k = CAPS))
    BY FlagsAre, Zenon
  <2>2. f.cap_flag <=> on
    BY DEF Agree
  <2>3. CASE k = CAPS
    BY <2>1, <2>2, <2>3, Zenon
  <2>4. CASE k # CAPS
    BY <2>1, <2>2, <2>4, Zenon
  <2> QED
    BY <2>3, <2>4
<1>5. OneShift(down)
  BY DEF OneShift, Careful, Shifts, Modifiers
<1>6. k \notin Modifiers \cup {CAPS} =>
        /\ down = h
        /\ now.cap_flag <=> on
  BY <1>4 DEF Modifiers
<1>7. /\ (CharKeys \cup {L, SPACE, BACKSPACE, ENTER} \cup FnKeys)
           \cap (Modifiers \cup {CAPS}) = {}
      /\ L \in Letters
  BY DEF CharKeys, NoChar, L, SPACE, BACKSPACE, ENTER, FnKeys, Modifiers, CAPS,
         Shifts, ALT, CTRL, Letters
<1>8. ASSUME k \in CharKeys
      PROVE  Upper(now, k) = ((h \cap Shifts # {}) # (on /\ k \in Letters))
  <2>1. /\ now.shift_key <=> h \cap Shifts # {}
        /\ now.cap_flag <=> on
    BY <1>1, <1>6, <1>7, <1>8
  <2>2. on /\ k \notin Letters => h \cap Shifts = {}
    BY DEF Careful
  <2>3. now.shift_key \in BOOLEAN /\ now.cap_flag \in BOOLEAN
    BY FlagsTyped DEF Flags
  <2>4. now.shift_key = (h \cap Shifts # {}) /\ now.cap_flag = on
    BY <2>1, <2>3, Zenon
  <2> HIDE DEF now
  <2>5. CASE k \in Letters
    <3>1. Upper(now, k) = (now.cap_flag # now.shift_key)
      BY <2>5, Zenon DEF Upper
    <3>2. (on /\ k \in Letters) = on
      BY <2>5, Zenon
    <3>3. Upper(now, k) = (on # (h \cap Shifts # {}))
      BY <2>4, <3>1, Zenon
    <3> QED
      BY <3>2, <3>3, Zenon
  <2>6. CASE k \notin Letters
    <3>1. Upper(now, k) = (now.shift_key /\ ~now.cap_flag)
      BY <2>6, Zenon DEF Upper
    <3>2. (now.shift_key /\ ~now.cap_flag) = (h \cap Shifts # {})
      BY <2>1, <2>2, <2>6, Zenon
    <3>3. ((h \cap Shifts # {}) # (on /\ k \in Letters)) = (h \cap Shifts # {})
      BY <2>6, Zenon
    <3> QED
      BY <3>1, <3>2, <3>3, Zenon
  <2> QED
    BY <2>5, <2>6
<1>9. Effect(now, k) = Wanted(h, on, k)
  <2>1. CASE k \in CharKeys /\ ~(k = L /\ CTRL \in h)
    <3>1. /\ ~(k = L /\ now.ctrl_key)
          /\ k \notin FnKeys /\ k \notin {SPACE, BACKSPACE, ENTER}
      BY <1>3, <1>6, <1>7, <2>1
      DEF CharKeys, NoChar, FnKeys, SPACE, BACKSPACE, ENTER
    <3>2. Effect(now, k) = <<"type", k, Upper(now, k)>>
      BY <2>1, <3>1, TypeEffect, Zenon
    <3>3. Wanted(h, on, k)
            = <<"type", k, (h \cap Shifts # {}) # (on /\ k \in Letters)>>
      BY <2>1, WantedType, Zenon
    <3>4. Upper(now, k) = ((h \cap Shifts # {}) # (on /\ k \in Letters))
      BY <1>8, <2>1, Zenon
    <3> DEFINE u == Upper(now, k)
               w == (h \cap Shifts # {}) # (on /\ k \in Letters)
    <3>5. /\ u = w
          /\ Effect(now, k) = <<"type", k, u>>
          /\ Wanted(h, on, k) = <<"type", k, w>>
      BY <3>2, <3>3, <3>4, Zenon
    <3> HIDE DEF u, w, now
    <3> QED
      BY <3>5
  <2>2. CASE ~(k \in CharKeys /\ ~(k = L /\ CTRL \in h))
    <3>1. k = L => (now.ctrl_key <=> CTRL \in h)
      BY <1>3, <1>6, <1>7
    <3>2. k \in FnKeys => (now.alt_key <=> ALT \in h)
      BY <1>2, <1>6, <1>7
    <3> QED
      BY <2>2, <3>1, <3>2
      DEF Effect, Wanted, L, FnKeys, SPACE, BACKSPACE, ENTER
  <2> QED
    BY <2>1, <2>2
<1> QED
  BY <1>1, <1>2, <1>3, <1>4, <1>5, <1>9 DEF Agree

\* Letting go of a modifier has no effect but on the flags, which stay in step.
THEOREM ReleaseDecoded ==
  ASSUME NEW h \in SUBSET Modifiers, OneShift(h), NEW on \in BOOLEAN,
         NEW f \in Flags, Agree(f, h, on), NEW k \in h
  PROVE  LET now == FlagsAfter(f, Released(k))
         IN  /\ Agree(now, h \ {k}, on)
             /\ OneShift(h \ {k})
             /\ Effect(now, Released(k)) = Nothing
<1> DEFINE now == FlagsAfter(f, Released(k))
<1>1. k \in {42, 54, 56, 29}
  BY DEF Modifiers, Shifts, ALT, CTRL
<1>0. /\ Released(k) \notin Shifts \cup {ALT, CTRL, CAPS}
      /\ Released(k) \in {Released(s) : s \in Shifts} <=> k \in Shifts
      /\ Released(k) = Released(ALT) <=> k = ALT
      /\ Released(k) = Released(CTRL) <=> k = CTRL
  BY <1>1 DEF Shifts, Released, ALT, CTRL, CAPS
<1>a. /\ k \in Shifts => (h \ {k}) \cap Shifts = {}
      /\ k \notin Shifts => (h \ {k}) \cap Shifts = h \cap Shifts
  BY DEF OneShift
<1>2. now.shift_key <=> (h \ {k}) \cap Shifts # {}
  BY <1>0, <1>a, FlagsAre, Zenon DEF Agree
<1>3. now.alt_key <=> ALT \in h \ {k}
  BY <1>0, FlagsAre, Zenon DEF Agree
<1>4. now.ctrl_key <=> CTRL \in h \ {k}
  BY <1>0, FlagsAre, Zenon DEF Agree
<1>5. now.cap_flag <=> on
  <2>1. now.cap_flag <=> (f.cap_flag # (Released(k) = CAPS))
    BY FlagsAre, Zenon
  <2>2. (f.cap_flag <=> on) /\ (Released(k) = CAPS) = FALSE
    BY <1>0 DEF Agree
  <2>3. f.cap_flag \in BOOLEAN
    BY DEF Flags
  <2>4. now.cap_flag <=> (f.cap_flag # FALSE)
    BY <2>1, <2>2, Zenon
  <2> QED
    BY <2>2, <2>3, <2>4, Zenon
<1>6. OneShift(h \ {k})
  BY DEF OneShift
<1>7. Effect(now, Released(k)) = Nothing
  BY <1>1 DEF Effect, Released, L, FnKeys, SPACE, BACKSPACE, ENTER, CharKeys,
              NoChar
<1> QED
  BY <1>2, <1>3, <1>4, <1>5, <1>6, <1>7 DEF Agree

-----------------------------------------------------------------------------
(* The keys on their way *)

\* Every nonempty set of numbers has a least one.
LEMMA LeastNumber ==
  ASSUME NEW T, T \subseteq Nat, T # {}
  PROVE  \E n \in T : \A m \in T : n <= m
<1>1. \A x, y \in Nat : <<x, y>> \in OpToRel(<, Nat) <=> x < y
  BY DEF OpToRel
<1>2. PICK n \in T : \A m \in T : ~(<<m, n>> \in OpToRel(<, Nat))
  BY NatLessThanWellFounded, WFMin
<1>3. \A m \in T : ~(m < n)
  BY <1>1, <1>2, Zenon
<1> HIDE <1>1, <1>2
<1> QED
  BY <1>3, SMT

\* a holds the flags before and after each of the bytes, from flags f; and e the
\* effects that each leaves behind.
Runs(bytes, f, a) ==
  a = [n \in 0 .. Len(bytes) |->
         IF n = 0 THEN f ELSE FlagsAfter(a[n-1], bytes[n])]
Leaves(bytes, a, e) ==
  e = [n \in 0 .. Len(bytes) |->
         IF n = 0 THEN <<>>
         ELSE IF Effect(a[n], bytes[n]) = Nothing THEN e[n-1]
         ELSE Append(e[n-1], Effect(a[n], bytes[n]))]

\* Both, from byte to byte.
LEMMA RunsAt ==
  ASSUME NEW bytes \in Seq(Bytes), NEW f, NEW a, Runs(bytes, f, a)
  PROVE  /\ a[0] = f
         /\ \A n \in 1 .. Len(bytes) : a[n] = FlagsAfter(a[n-1], bytes[n])
<1>1. ASSUME NEW n \in 0 .. Len(bytes)
      PROVE  a[n] = IF n = 0 THEN f ELSE FlagsAfter(a[n-1], bytes[n])
  BY Zenon DEF Runs
<1>2. Len(bytes) \in Nat
  OBVIOUS
<1> QED
  BY <1>1, <1>2

LEMMA LeavesAt ==
  ASSUME NEW bytes \in Seq(Bytes), NEW a, NEW e, Leaves(bytes, a, e)
  PROVE  /\ e[0] = <<>>
         /\ \A n \in 1 .. Len(bytes) :
              e[n] = IF Effect(a[n], bytes[n]) = Nothing THEN e[n-1]
                     ELSE Append(e[n-1], Effect(a[n], bytes[n]))
<1>1. ASSUME NEW n \in 0 .. Len(bytes)
      PROVE  e[n] = IF n = 0 THEN <<>>
                    ELSE IF Effect(a[n], bytes[n]) = Nothing THEN e[n-1]
                    ELSE Append(e[n-1], Effect(a[n], bytes[n]))
  BY Zenon DEF Leaves
<1>2. Len(bytes) \in Nat
  OBVIOUS
<1>3. 0 \in 0 .. Len(bytes) /\ \A n \in 1 .. Len(bytes) : n \in 0 .. Len(bytes) /\ n # 0
  BY <1>2
<1> QED
  BY <1>1, <1>3, Zenon

\* There is one such a, and one such e.
LEMMA RunsUnique ==
  ASSUME NEW bytes \in Seq(Bytes), NEW f, NEW a, NEW b,
         Runs(bytes, f, a), Runs(bytes, f, b)
  PROVE  a = b
<1> DEFINE apart == {n \in 0 .. Len(bytes) : a[n] # b[n]}
<1>0. Len(bytes) \in Nat
  OBVIOUS
<1>1. SUFFICES ASSUME apart # {} PROVE FALSE
  <2>1. \A n \in 0 .. Len(bytes) : a[n] = b[n]
    BY <1>1
  <2> QED
    BY <2>1, <1>0 DEF Runs
<1>2. apart \subseteq Nat
  BY <1>0
<1>3. PICK n \in apart : \A m \in apart : n <= m
  <2> HIDE DEF apart
  <2> QED
    BY <1>1, <1>2, LeastNumber
<1>4. CASE n = 0
  BY <1>0, <1>3, <1>4 DEF Runs
<1>5. CASE n # 0
  <2>1. n - 1 \in 0 .. Len(bytes) /\ n - 1 \notin apart
    BY <1>0, <1>3, <1>5
  <2>2. a[n - 1] = b[n - 1]
    BY <2>1
  <2>3. /\ a[n] = FlagsAfter(a[n - 1], bytes[n])
        /\ b[n] = FlagsAfter(b[n - 1], bytes[n])
    BY <1>0, <1>3, <1>5 DEF Runs
  <2> QED
    BY <1>3, <2>2, <2>3
<1> QED
  BY <1>4, <1>5

LEMMA LeavesUnique ==
  ASSUME NEW bytes \in Seq(Bytes), NEW a, NEW e, NEW d,
         Leaves(bytes, a, e), Leaves(bytes, a, d)
  PROVE  e = d
<1> DEFINE apart == {n \in 0 .. Len(bytes) : e[n] # d[n]}
<1>0. Len(bytes) \in Nat
  OBVIOUS
<1>1. SUFFICES ASSUME apart # {} PROVE FALSE
  <2>1. \A n \in 0 .. Len(bytes) : e[n] = d[n]
    BY <1>1
  <2> QED
    BY <2>1, <1>0 DEF Leaves
<1>2. apart \subseteq Nat
  BY <1>0
<1>3. PICK n \in apart : \A m \in apart : n <= m
  <2> HIDE DEF apart
  <2> QED
    BY <1>1, <1>2, LeastNumber
<1>4. CASE n = 0
  BY <1>0, <1>3, <1>4 DEF Leaves
<1>5. CASE n # 0
  <2>1. n - 1 \in 0 .. Len(bytes) /\ n - 1 \notin apart
    BY <1>0, <1>3, <1>5
  <2>2. e[n - 1] = d[n - 1]
    BY <2>1
  <2> DEFINE x == Effect(a[n], bytes[n])
  <2>3. /\ e[n] = IF x = Nothing THEN e[n-1] ELSE Append(e[n-1], x)
        /\ d[n] = IF x = Nothing THEN d[n-1] ELSE Append(d[n-1], x)
    BY <1>0, <1>3, <1>5 DEF Leaves
  <2> HIDE DEF x
  <2> QED
    BY <1>3, <2>2, <2>3
<1> QED
  BY <1>4, <1>5

\* What the property replays is what any such a and e say.
LEMMA ReplayIs ==
  ASSUME NEW bytes \in Seq(Bytes), NEW a, NEW e,
         Runs(bytes, flags, a), Leaves(bytes, a, e)
  PROVE  Replay(bytes) = e[Len(bytes)]
<1> DEFINE after[n \in 0 .. Len(bytes)] ==
             IF n = 0 THEN flags ELSE FlagsAfter(after[n-1], bytes[n])
           effects[n \in 0 .. Len(bytes)] ==
             IF n = 0 THEN <<>>
             ELSE IF Effect(after[n], bytes[n]) = Nothing THEN effects[n-1]
             ELSE Append(effects[n-1], Effect(after[n], bytes[n]))
<1>1. Replay(bytes) = effects[Len(bytes)]
  BY Zenon DEF Replay
<1>2. after = CHOOSE g : Runs(bytes, flags, g)
  BY Zenon DEF after, Runs
<1> HIDE DEF after
<1>3. effects = CHOOSE g : Leaves(bytes, after, g)
  BY Zenon DEF effects, Leaves
<1> HIDE DEF effects
<1>4. Runs(bytes, flags, after)
  BY <1>2, Zenon
<1>5. after = a
  BY <1>4, RunsUnique
<1>6. Leaves(bytes, a, effects)
  BY <1>3, <1>5, Zenon
<1>7. effects = e
  BY <1>6, LeavesUnique
<1> QED
  BY <1>1, <1>7

Effects == {Effect(z[1], z[2]) : z \in Flags \X Bytes}

\* The flags and the effects keep their types.
LEMMA RunsTyped ==
  ASSUME NEW bytes \in Seq(Bytes), NEW f \in Flags, NEW a, NEW e,
         Runs(bytes, f, a), Leaves(bytes, a, e)
  PROVE  \A n \in 0 .. Len(bytes) : a[n] \in Flags /\ e[n] \in Seq(Effects)
<1>0. Len(bytes) \in Nat
  OBVIOUS
<1>1. ASSUME NEW n \in 0 .. Len(bytes)
      PROVE  a[n] \in Flags
  <2>1. CASE n = 0
    BY <1>0, <2>1 DEF Runs
  <2>2. CASE n # 0
    <3>1. a[n] = FlagsAfter(a[n - 1], bytes[n])
      BY <1>0, <2>2 DEF Runs
    <3> QED
      BY <3>1, FlagsTyped
  <2> QED
    BY <2>1, <2>2
<1> DEFINE wrong == {n \in 0 .. Len(bytes) : e[n] \notin Seq(Effects)}
<1>2. wrong = {}
  <2>1. SUFFICES ASSUME wrong # {} PROVE FALSE
    OBVIOUS
  <2>2. wrong \subseteq Nat
    BY <1>0
  <2>3. PICK n \in wrong : \A m \in wrong : n <= m
    <3> HIDE DEF wrong
    <3> QED
      BY <2>1, <2>2, LeastNumber
  <2>4. CASE n = 0
    <3>1. e[n] = <<>>
      BY <2>4, LeavesAt
    <3> QED
      BY <2>3, <3>1, EmptySeq
  <2>5. CASE n # 0
    <3>1. n - 1 \in 0 .. Len(bytes) /\ n - 1 \notin wrong /\ n \in 1 .. Len(bytes)
      BY <1>0, <2>3, <2>5
    <3>2. e[n - 1] \in Seq(Effects)
      BY <3>1
    <3> DEFINE x == Effect(a[n], bytes[n])
    <3>3. a[n] \in Flags /\ bytes[n] \in Bytes
      BY <1>1, <3>1
    <3>4. x \in Effects
      <4> DEFINE y == <<a[n], bytes[n]>>
      <4>1. y \in Flags \X Bytes /\ y[1] = a[n] /\ y[2] = bytes[n]
        BY <3>3
      <4>2. x = Effect(y[1], y[2])
        BY <4>1
      <4> HIDE DEF x, y
      <4>3. \E z \in Flags \X Bytes : x = Effect(z[1], z[2])
        BY <4>1, <4>2, Zenon
      <4>4. x \in {Effect(z[1], z[2]) : z \in Flags \X Bytes}
        BY <4>3, Zenon
      <4> QED
        BY <4>4, Zenon DEF Effects
    <3>5. e[n] = IF x = Nothing THEN e[n-1] ELSE Append(e[n-1], x)
      <4>1. \A j \in 1 .. Len(bytes) :
              e[j] = IF Effect(a[j], bytes[j]) = Nothing THEN e[j-1]
                     ELSE Append(e[j-1], Effect(a[j], bytes[j]))
        BY LeavesAt, Zenon
      <4>2. n \in 1 .. Len(bytes)
        BY <3>1
      <4> HIDE DEF wrong
      <4> QED
        BY <4>1, <4>2
    <3> HIDE DEF x
    <3>6. Append(e[n-1], x) \in Seq(Effects)
      BY <3>2, <3>4, AppendProperties
    <3>7. e[n] \in Seq(Effects)
      BY <3>2, <3>5, <3>6
    <3> QED
      BY <2>3, <3>7
  <2> QED
    BY <2>4, <2>5
<1> QED
  BY <1>1, <1>2

\* A byte more on its way.
LEMMA RunsOn ==
  ASSUME NEW bytes \in Seq(Bytes), NEW k \in Bytes, NEW f, NEW a, NEW e,
         Runs(bytes, f, a), Leaves(bytes, a, e)
  PROVE  LET L1  == Len(bytes) + 1
             now == FlagsAfter(a[Len(bytes)], k)
         IN  \E b, d :
               /\ Runs(Append(bytes, k), f, b) /\ Leaves(Append(bytes, k), b, d)
               /\ b[L1] = now
               /\ d[L1] = IF Effect(now, k) = Nothing THEN e[Len(bytes)]
                          ELSE Append(e[Len(bytes)], Effect(now, k))
<1> DEFINE m   == Len(bytes)
           now == FlagsAfter(a[m], k)
           more == Append(bytes, k)
           last == IF Effect(now, k) = Nothing THEN e[m] ELSE Append(e[m], Effect(now, k))
           b == [n \in 0 .. m + 1 |-> IF n = m + 1 THEN now ELSE a[n]]
           d == [n \in 0 .. m + 1 |-> IF n = m + 1 THEN last ELSE e[n]]
<1>1. /\ m \in Nat /\ Len(more) = m + 1 /\ more[m + 1] = k
      /\ \A n \in 1 .. m : more[n] = bytes[n]
  OBVIOUS
<1>2. /\ a[0] = f
      /\ \A n \in 1 .. m : a[n] = FlagsAfter(a[n-1], bytes[n])
  BY RunsAt
<1>3. /\ e[0] = <<>>
      /\ \A n \in 1 .. m : e[n] = IF Effect(a[n], bytes[n]) = Nothing THEN e[n-1]
                                  ELSE Append(e[n-1], Effect(a[n], bytes[n]))
  BY LeavesAt, Zenon
<1>d. /\ now = FlagsAfter(a[m], k)
      /\ last = IF Effect(now, k) = Nothing THEN e[m] ELSE Append(e[m], Effect(now, k))
  OBVIOUS
<1> HIDE DEF m, more, now, last
<1>4. Runs(more, f, b)
  <2>1. ASSUME NEW n \in 0 .. m + 1
        PROVE  b[n] = IF n = 0 THEN f ELSE FlagsAfter(b[n-1], more[n])
    <3>1. CASE n = 0
      BY <1>1, <1>2, <3>1
    <3>2. CASE n = m + 1
      <4>1. m \in 0 .. m + 1 /\ m # m + 1 /\ n - 1 = m /\ n # 0
        BY <1>1, <3>2
      <4> QED
        BY <1>1, <1>d, <3>2, <4>1
    <3>3. CASE n # 0 /\ n # m + 1
      <4>1. n - 1 \in 0 .. m + 1 /\ n - 1 # m + 1 /\ n \in 1 .. m
        BY <1>1, <3>3
      <4> QED
        BY <1>1, <1>2, <3>3, <4>1
    <3> QED
      BY <3>1, <3>2, <3>3
  <2> QED
    BY <1>1, <2>1, Zenon DEF Runs
<1>5. Leaves(more, b, d)
  <2>1. ASSUME NEW n \in 0 .. m + 1
        PROVE  d[n] = IF n = 0 THEN <<>>
                      ELSE IF Effect(b[n], more[n]) = Nothing THEN d[n-1]
                      ELSE Append(d[n-1], Effect(b[n], more[n]))
    <3>1. CASE n = 0
      BY <1>1, <1>3, <3>1
    <3>2. CASE n = m + 1
      <4>1. m \in 0 .. m + 1 /\ m # m + 1 /\ n - 1 = m /\ n # 0
        BY <1>1, <3>2
      <4>2. b[n] = now /\ d[n] = last /\ d[n-1] = e[m] /\ more[n] = k
        BY <1>1, <3>2, <4>1
      <4> QED
        BY <1>d, <4>1, <4>2
    <3>3. CASE n # 0 /\ n # m + 1
      <4>1. n - 1 \in 0 .. m + 1 /\ n - 1 # m + 1 /\ n \in 1 .. m
        BY <1>1, <3>3
      <4>2. b[n] = a[n] /\ d[n] = e[n] /\ d[n-1] = e[n-1] /\ more[n] = bytes[n]
        BY <1>1, <3>3, <4>1
      <4> QED
        BY <1>3, <3>3, <4>1, <4>2
    <3> QED
      BY <3>1, <3>2, <3>3
  <2> QED
    BY <1>1, <2>1, Zenon DEF Leaves
<1>6. b[m + 1] = now /\ d[m + 1] = last
  BY <1>1
<1> HIDE DEF b, d
<1> QED
  BY <1>4, <1>5, <1>6 DEF m, more, now, last

\* The first of several keys leaves what comes after it.
LEMMA TailAppend ==
  ASSUME NEW S, NEW s \in Seq(S), s # <<>>, NEW y \in S
  PROVE  /\ Append(s, y) # <<>>
         /\ Tail(Append(s, y)) = Append(Tail(s), y)
<1> DEFINE m == Len(s)
           t == Tail(Append(s, y))
           u == Append(Tail(s), y)
<1>1. m \in Nat /\ m > 0 /\ Append(s, y) \in Seq(S) /\ Len(Append(s, y)) = m + 1
      /\ Append(s, y) # <<>>
  OBVIOUS
<1>2. /\ t \in Seq(S) /\ Len(t) = m
      /\ \A n \in 1 .. m : t[n] = Append(s, y)[n + 1]
  BY <1>1
<1>3. /\ u \in Seq(S) /\ Len(u) = m
      /\ \A n \in 1 .. m : u[n] = IF n = m THEN y ELSE s[n + 1]
  BY <1>1
<1>4. \A n \in 1 .. m : Append(s, y)[n + 1] = IF n = m THEN y ELSE s[n + 1]
  BY <1>1
<1> HIDE DEF t, u, m
<1>5. \A n \in 1 .. m : t[n] = u[n]
  BY <1>2, <1>3, <1>4
<1>6. t = u
  BY <1>2, <1>3, <1>5, SeqEqual
<1> QED
  BY <1>1, <1>6 DEF t, u

\* The first byte is handled: its flags are the ones to start from, and its
\* effect, if it has one, is the first.
LEMMA RunsOff ==
  ASSUME NEW bytes \in Seq(Bytes), bytes # <<>>, NEW f \in Flags, NEW a, NEW e,
         Runs(bytes, f, a), Leaves(bytes, a, e)
  PROVE  LET rest == Tail(bytes)
             now  == FlagsAfter(f, bytes[1])
         IN  \E b, d :
               /\ Runs(rest, now, b) /\ Leaves(rest, b, d)
               /\ b[Len(rest)] = a[Len(bytes)]
               /\ Effect(now, bytes[1]) = Nothing => d[Len(rest)] = e[Len(bytes)]
               /\ Effect(now, bytes[1]) # Nothing =>
                    e[Len(bytes)] # <<>> /\ d[Len(rest)] = Tail(e[Len(bytes)])
<1> DEFINE rest == Tail(bytes)
           m    == Len(rest)
           now  == FlagsAfter(f, bytes[1])
           x(n) == Effect(a[n], bytes[n])
           b    == [n \in 0 .. m |-> a[n + 1]]
<1>1. /\ rest \in Seq(Bytes) /\ m \in Nat /\ Len(bytes) = m + 1
      /\ \A n \in 1 .. m : rest[n] = bytes[n + 1]
  OBVIOUS
<1>2. /\ a[0] = f
      /\ \A n \in 1 .. m + 1 : a[n] = FlagsAfter(a[n-1], bytes[n])
  BY <1>1, RunsAt
<1>3. /\ e[0] = <<>>
      /\ \A n \in 1 .. m + 1 : e[n] = IF x(n) = Nothing THEN e[n-1] ELSE Append(e[n-1], x(n))
  <2>1. \A n \in 1 .. Len(bytes) : e[n] = IF x(n) = Nothing THEN e[n-1] ELSE Append(e[n-1], x(n))
    BY LeavesAt, Zenon
  <2>2. e[0] = <<>>
    BY LeavesAt, Zenon
  <2> HIDE DEF x
  <2> QED
    BY <1>1, <2>1, <2>2
<1>4. \A n \in 0 .. m + 1 : e[n] \in Seq(Effects)
  BY <1>1, RunsTyped
<1>5. \A n \in 1 .. m + 1 : x(n) # Nothing => x(n) \in Effects
  <2> TAKE n \in 1 .. m + 1
  <2>1. a[n] \in Flags /\ bytes[n] \in Bytes
    BY <1>1, RunsTyped
  <2> DEFINE y == <<a[n], bytes[n]>>
  <2>2. y \in Flags \X Bytes /\ x(n) = Effect(y[1], y[2])
    BY <2>1
  <2> HIDE DEF x, y
  <2>3. \E z \in Flags \X Bytes : x(n) = Effect(z[1], z[2])
    BY <2>2, Zenon
  <2>4. x(n) \in {Effect(z[1], z[2]) : z \in Flags \X Bytes}
    BY <2>3, Zenon
  <2> QED
    BY <2>4, Zenon DEF Effects
<1>6. a[1] = now /\ x(1) = Effect(now, bytes[1])
  <2>1. a[1] = now
    BY <1>1, <1>2
  <2> QED
    BY <2>1, Zenon
<1>d. Len(bytes) = m + 1
  BY <1>1
<1> HIDE DEF rest, m, now, x
<1>7. Runs(rest, now, b)
  <2>1. ASSUME NEW n \in 0 .. m
        PROVE  b[n] = IF n = 0 THEN now ELSE FlagsAfter(b[n-1], rest[n])
    <3>1. CASE n = 0
      BY <1>1, <1>6, <3>1
    <3>2. CASE n # 0
      <4>1. n - 1 \in 0 .. m /\ n \in 1 .. m /\ n + 1 \in 1 .. m + 1 /\ (n - 1) + 1 = n
            /\ (n + 1) - 1 = n
        BY <1>1, <3>2
      <4>2. b[n] = a[n + 1] /\ b[n - 1] = a[n] /\ rest[n] = bytes[n + 1]
        BY <1>1, <4>1
      <4> QED
        BY <1>2, <3>2, <4>1, <4>2
    <3> QED
      BY <3>1, <3>2
  <2> QED
    BY <2>1, Zenon DEF Runs, m
<1>8. b[m] = a[m + 1]
  BY <1>1
<1>9. \A n \in 1 .. m : Effect(b[n], rest[n]) = x(n + 1)
  <2> TAKE n \in 1 .. m
  <2>1. b[n] = a[n + 1] /\ rest[n] = bytes[n + 1]
    BY <1>1
  <2> QED
    BY <2>1 DEF x
<1> HIDE DEF b
<1>10. CASE x(1) = Nothing
  <2> DEFINE d == [n \in 0 .. m |-> e[n + 1]]
  <2>1. Leaves(rest, b, d)
    <3>1. ASSUME NEW n \in 0 .. m
          PROVE  d[n] = IF n = 0 THEN <<>>
                        ELSE IF Effect(b[n], rest[n]) = Nothing THEN d[n-1]
                        ELSE Append(d[n-1], Effect(b[n], rest[n]))
      <4>1. CASE n = 0
        <5>1. 1 \in 1 .. m + 1
          BY <1>1
        <5>2. e[1] = e[0]
          BY <1>3, <1>10, <5>1
        <5> QED
          BY <1>1, <1>3, <4>1, <5>2
      <4>2. CASE n # 0
        <5>1. n - 1 \in 0 .. m /\ n \in 1 .. m /\ n + 1 \in 1 .. m + 1 /\ (n - 1) + 1 = n
              /\ (n + 1) - 1 = n
          BY <1>1, <4>2
        <5>2. d[n] = e[n + 1] /\ d[n - 1] = e[n]
          BY <1>1, <5>1
        <5>3. e[n + 1] = IF x(n + 1) = Nothing THEN e[n] ELSE Append(e[n], x(n + 1))
          BY <1>3, <5>1
        <5>4. Effect(b[n], rest[n]) = x(n + 1)
          BY <1>9, <5>1
        <5> HIDE DEF d
        <5> QED
          BY <4>2, <5>2, <5>3, <5>4
      <4> QED
        BY <4>1, <4>2
    <3> QED
      BY <3>1, Zenon DEF Leaves, m
  <2>2. d[m] = e[m + 1]
    BY <1>1
  <2> HIDE DEF d
  <2> QED
    BY <1>d, <1>6, <1>7, <1>8, <1>10, <2>1, <2>2 DEF rest, m, now
<1>11. CASE x(1) # Nothing
  <2>1. \A n \in 1 .. m + 1 : e[n] # <<>>
    <3> DEFINE empty == {n \in 1 .. m + 1 : e[n] = <<>>}
    <3>1. SUFFICES ASSUME empty # {} PROVE FALSE
      OBVIOUS
    <3>2. empty \subseteq Nat
      OBVIOUS
    <3>3. PICK n \in empty : \A j \in empty : n <= j
      <4> HIDE DEF empty
      <4> QED
        BY <3>1, <3>2, LeastNumber
    <3>4. n \in 1 .. m + 1 /\ e[n] = <<>>
      BY <3>3
    <3>5. e[n] = IF x(n) = Nothing THEN e[n-1] ELSE Append(e[n-1], x(n))
      BY <1>3, <3>4
    <3>6. x(n) = Nothing
      <4>1. SUFFICES ASSUME x(n) # Nothing PROVE FALSE
        OBVIOUS
      <4>2. e[n] = Append(e[n-1], x(n)) /\ e[n-1] \in Seq(Effects) /\ x(n) \in Effects
        BY <1>1, <1>4, <1>5, <3>4, <3>5, <4>1
      <4> QED
        BY <3>4, <4>2, AppendProperties
    <3>7. n # 1 /\ e[n-1] = <<>>
      BY <1>11, <3>4, <3>5, <3>6
    <3>8. n - 1 \in empty /\ ~(n <= n - 1)
      BY <1>1, <3>4, <3>7
    <3> QED
      BY <3>3, <3>8
  <2> DEFINE d == [n \in 0 .. m |-> Tail(e[n + 1])]
  <2>2. Leaves(rest, b, d)
    <3>1. ASSUME NEW n \in 0 .. m
          PROVE  d[n] = IF n = 0 THEN <<>>
                        ELSE IF Effect(b[n], rest[n]) = Nothing THEN d[n-1]
                        ELSE Append(d[n-1], Effect(b[n], rest[n]))
      <4>1. CASE n = 0
        <5>1. 1 \in 1 .. m + 1 /\ 1 - 1 = 0
          BY <1>1
        <5>a. e[1] = Append(e[1 - 1], x(1))
          BY <1>3, <1>11, <5>1, Zenon
        <5>2. e[1] = Append(<<>>, x(1))
          BY <1>3, <5>1, <5>a, Zenon
        <5>3. Tail(Append(<<>>, x(1))) = <<>>
          <6>1. x(1) \in Effects
            BY <1>5, <1>11, <5>1
          <6> QED
            BY <6>1
        <5>4. d[0] = Tail(e[1])
          BY <1>1
        <5>5. d[0] = <<>>
          BY <5>2, <5>3, <5>4, Zenon
        <5> HIDE DEF d
        <5> QED
          BY <4>1, <5>5
      <4>2. CASE n # 0
        <5>1. n - 1 \in 0 .. m /\ n \in 1 .. m /\ n + 1 \in 1 .. m + 1 /\ (n - 1) + 1 = n
              /\ (n + 1) - 1 = n /\ n \in 1 .. m + 1 /\ n \in 0 .. m + 1
          BY <1>1, <4>2
        <5>2. d[n] = Tail(e[n + 1]) /\ d[n - 1] = Tail(e[n])
          BY <1>1, <5>1
        <5>3. e[n + 1] = IF x(n + 1) = Nothing THEN e[n] ELSE Append(e[n], x(n + 1))
          BY <1>3, <5>1
        <5>4. Effect(b[n], rest[n]) = x(n + 1)
          BY <1>9, <5>1
        <5>5. e[n] \in Seq(Effects) /\ e[n] # <<>>
          BY <1>4, <2>1, <5>1
        <5>6. x(n + 1) # Nothing => Tail(Append(e[n], x(n + 1))) = Append(Tail(e[n]), x(n + 1))
          BY <1>5, <5>1, <5>5, TailAppend
        <5> HIDE DEF d
        <5> QED
          BY <4>2, <5>2, <5>3, <5>4, <5>6
      <4> QED
        BY <4>1, <4>2
    <3> QED
      BY <3>1, Zenon DEF Leaves, m
  <2>3. d[m] = Tail(e[m + 1]) /\ e[m + 1] # <<>>
    BY <1>1, <2>1
  <2> HIDE DEF d
  <2> QED
    BY <1>d, <1>6, <1>7, <1>8, <1>11, <2>2, <2>3 DEF rest, m, now
<1> QED
  BY <1>10, <1>11

\* Between inb and the end of the handler the scan code is in c, and nowhere
\* else; the port holds one at most.
OneByte ==
  /\ Len(c) <= 1 /\ Len(port60) <= 1
  /\ c # <<>> => Top = "decode"

\* The keys down and the light are what the flags will be once all the bytes on
\* their way are handled; what the bytes do is what is due.
Meant ==
  /\ OneShift(held)
  /\ \E a, e :
       /\ Runs(InTransit, flags, a) /\ Leaves(InTransit, a, e)
       /\ Agree(a[Len(InTransit)], held, caps)
       /\ e[Len(InTransit)] = due

\* A step that leaves the bytes, the flags and the keys as they are.
LEMMA MeantKept ==
  ASSUME Meant, InTransit' = InTransit, UNCHANGED <<flags, held, caps, due>>
  PROVE  Meant'
<1>1. PICK a, e :
        /\ Runs(InTransit, flags, a) /\ Leaves(InTransit, a, e)
        /\ Agree(a[Len(InTransit)], held, caps)
        /\ e[Len(InTransit)] = due
  BY DEF Meant
<1>2. OneShift(held)'
  BY DEF Meant, OneShift
<1>3. PICK s : s = InTransit
  OBVIOUS
<1>4. /\ Runs(s, flags', a) /\ Leaves(s, a, e)
      /\ Agree(a[Len(s)], held', caps') /\ e[Len(s)] = due'
  BY <1>1, <1>3
<1>5. InTransit' = s
  BY <1>3
<1>6. Runs(InTransit, flags, a)'
  <2>1. Runs(InTransit', flags', a)
    BY <1>4, <1>5
  <2> QED
    BY <2>1 DEF Runs
<1>7. Leaves(InTransit, a, e)'
  <2>1. Leaves(InTransit', a, e)
    BY <1>4, <1>5
  <2> QED
    BY <2>1 DEF Leaves
<1>8. Agree(a[Len(InTransit)], held, caps)' /\ (e[Len(InTransit)] = due)'
  <2>1. Agree(a[Len(InTransit')], held', caps') /\ e[Len(InTransit')] = due'
    BY <1>4, <1>5
  <2> QED
    BY <2>1 DEF Agree
<1> QED
  BY <1>2, <1>6, <1>7, <1>8 DEF Meant

\* While a scan code is in c, nothing but keyboard_handler leaves the handler.
LEMMA HandlerNotLeft ==
  ASSUME TypeOK, ContextInv, OneByte, c # <<>>, [Next]_vars, ~keyboard_handler
  PROVE  Top' = Top /\ c' = c
<1>1. Top = "decode" /\ Inside # <<>> /\ ~interrupts
  <2>1. Top = "decode"
    BY DEF OneByte
  <2> QED
    BY <2>1 DEF Top, ContextInv, Bodies
<1>2. CASE \E i \in Lines : Accept(i)
  BY <1>1, <1>2 DEF Accept
<1>3. CASE entry
  BY <1>1, <1>3 DEF entry, i8259_init, Enable, EnablePeriodic, SwitchOn, PitMode,
                    PitCount, BootStep
<1>4. CASE PitStartsShell \/ PitSwitches \/ LeavePit
  BY <1>1, <1>4 DEF PitStartsShell, PitSwitches, LeavePit
<1>5. CASE rtc_interrupt \/ RtcReturns \/ ReadPort
  BY <1>1, <1>5 DEF rtc_interrupt, RtcReturns, ReadPort
<1>6. CASE Cli \/ Sti
  BY <1>1, <1>6 DEF Cli, Sti, InProgram
<1>7. CASE \/ PitEdge \/ ClockEdge \/ KeyEdge
           \/ \E k \in Keys : Press(k) \/ Release(k)
           \/ UNCHANGED vars
  <2>1. UNCHANGED <<running, stack, c>>
    BY <1>7 DEF PitEdge, ClockEdge, KeyEdge, Press, Release, vars, cpuVars, keyVars
  <2> QED
    BY <2>1 DEF Top, Inside
<1> QED
  BY <1>2, <1>3, <1>4, <1>5, <1>6, <1>7 DEF Next, Handlers

LEMMA OneByteStep ==
  ASSUME TypeOK, ContextInv, OneByte, [Next]_vars
  PROVE  OneByte'
<1>0. kb \in Seq(Bytes) /\ port60 \in Seq(Bytes) /\ c \in Seq(Bytes)
  BY DEF TypeOK
<1>1. Len(port60') <= 1
  <2>1. CASE KeyEdge
    BY <1>0, <2>1 DEF KeyEdge
  <2>2. CASE ReadPort
    BY <2>2 DEF ReadPort
  <2>3. CASE ~KeyEdge /\ ~ReadPort
    <3>1. port60' = port60
      BY <2>3 DEF Next, Handlers, Accept, entry, i8259_init, Enable, EnablePeriodic,
           SwitchOn, PitMode, PitCount, PitStartsShell, PitSwitches, LeavePit,
           rtc_interrupt, RtcReturns, keyboard_handler, Cli, Sti, PitEdge, ClockEdge,
           Press, Release, vars, keyVars
    <3> QED
      BY <3>1 DEF OneByte
  <2> QED
    BY <2>1, <2>2, <2>3
<1>2. CASE keyboard_handler
  BY <1>1, <1>2 DEF keyboard_handler, OneByte
<1>3. CASE ReadPort
  <2>1. Inside # <<>> /\ Inside \in Seq(Frames) /\ running \in 0 .. NT
    BY <1>3 DEF ReadPort, Top, Inside, TypeOK
  <2>2. Len(c') <= 1
    BY <1>3 DEF ReadPort, OneByte
  <2>3. TopOf(LeaveAs("decode")) = "decode"
    <3>1. ContextTypes /\ "decode" \in Frames
      BY DEF TypeOK, ContextTypes, Frames
    <3> QED
      BY <2>1, <3>1, UnderTop
  <2>4. Inside' = LeaveAs("decode")
    BY <1>3, <2>1 DEF ReadPort, Inside, TypeOK
  <2>5. Top' = "decode"
    BY <2>3, <2>4 DEF Top, TopOf
  <2> QED
    BY <1>1, <2>2, <2>5 DEF OneByte
<1>4. CASE ~keyboard_handler /\ ~ReadPort
  <2>1. c' = c
    BY <1>4 DEF Next, Handlers, Accept, entry, i8259_init, Enable, EnablePeriodic,
         SwitchOn, PitMode, PitCount, PitStartsShell, PitSwitches, LeavePit,
         rtc_interrupt, RtcReturns, Cli, Sti, PitEdge, ClockEdge, KeyEdge, Press,
         Release, vars, keyVars
  <2>2. c # <<>> => Top' = Top
    BY <1>4, HandlerNotLeft
  <2> QED
    BY <1>1, <2>1, <2>2 DEF OneByte
<1> QED
  BY <1>2, <1>3, <1>4

\* A key pressed: one byte more, and one effect more if it has one.
LEMMA PressMeant ==
  ASSUME TypeOK, OneByte, Meant, NEW k \in Keys, Press(k)
  PROVE  Meant'
<1>1. PICK s : s = InTransit
  OBVIOUS
<1>2. PICK a, e : /\ Runs(s, flags, a) /\ Leaves(s, a, e)
                  /\ Agree(a[Len(s)], held, caps)
                  /\ e[Len(s)] = due
  BY <1>1 DEF Meant
<1>3. /\ kb \in Seq(Bytes) /\ port60 \in Seq(Bytes) /\ c \in Seq(Bytes)
      /\ flags \in Flags /\ held \in SUBSET Modifiers /\ caps \in BOOLEAN
      /\ k \in Bytes /\ k \in 1 .. 127
  BY DEF TypeOK, Bytes
<1>4. s \in Seq(Bytes) /\ InTransit' = Append(s, k) /\ Len(s) \in Nat
      /\ Len(Append(s, k)) = Len(s) + 1
  <2>1. c' \o port60' \o kb' = (c \o port60) \o Append(kb, k)
    BY DEF Press
  <2> QED
    BY <1>1, <1>3, <2>1 DEF InTransit
<1> DEFINE now == FlagsAfter(a[Len(s)], k)
<1>5. PICK b, d :
        /\ Runs(Append(s, k), flags, b) /\ Leaves(Append(s, k), b, d)
        /\ b[Len(s) + 1] = now
        /\ d[Len(s) + 1] = IF Effect(now, k) = Nothing THEN e[Len(s)]
                           ELSE Append(e[Len(s)], Effect(now, k))
  BY <1>2, <1>3, <1>4, RunsOn
<1>6. /\ Agree(now, held \cup ({k} \cap Modifiers), IF k = CAPS THEN ~caps ELSE caps)
      /\ OneShift(held \cup ({k} \cap Modifiers))
      /\ Effect(now, k) = Wanted(held, caps, k)
  <2>1. a[Len(s)] \in Flags
    BY <1>2, <1>3, <1>4, RunsTyped
  <2>2. OneShift(held) /\ Careful(held, caps, k)
    BY DEF Meant, Press
  <2> QED
    BY <1>2, <1>3, <2>1, <2>2, PressDecoded
<1> HIDE DEF now
<1>7. /\ held' = held \cup ({k} \cap Modifiers)
      /\ caps' = IF k = CAPS THEN ~caps ELSE caps
      /\ due' = IF Wanted(held, caps, k) = Nothing THEN due
                ELSE Append(due, Wanted(held, caps, k))
      /\ flags' = flags
  BY Zenon DEF Press
<1>8. d[Len(s) + 1] = due'
  BY <1>2, <1>5, <1>6, <1>7
<1>9. Agree(b[Len(s) + 1], held', caps') /\ OneShift(held')
  BY <1>5, <1>6, <1>7, Zenon
<1>10. /\ Runs(InTransit', flags', b) /\ Leaves(InTransit', b, d)
       /\ Agree(b[Len(InTransit')], held', caps')
       /\ d[Len(InTransit')] = due'
  BY <1>4, <1>5, <1>7, <1>8, <1>9, Zenon
<1> QED
  BY <1>9, <1>10, Zenon DEF Meant

\* A modifier let go: one byte more, which only changes the flags.
LEMMA ReleaseMeant ==
  ASSUME TypeOK, OneByte, Meant, NEW k \in Keys, Release(k)
  PROVE  Meant'
<1>1. PICK s : s = InTransit
  OBVIOUS
<1>2. PICK a, e : /\ Runs(s, flags, a) /\ Leaves(s, a, e)
                  /\ Agree(a[Len(s)], held, caps)
                  /\ e[Len(s)] = due
  BY <1>1 DEF Meant
<1>3. /\ kb \in Seq(Bytes) /\ port60 \in Seq(Bytes) /\ c \in Seq(Bytes)
      /\ flags \in Flags /\ held \in SUBSET Modifiers /\ caps \in BOOLEAN
      /\ Released(k) \in Bytes
  BY DEF TypeOK, Bytes, Released
<1>4. s \in Seq(Bytes) /\ InTransit' = Append(s, Released(k)) /\ Len(s) \in Nat
      /\ Len(Append(s, Released(k))) = Len(s) + 1
  <2>1. c' \o port60' \o kb' = (c \o port60) \o Append(kb, Released(k))
    BY DEF Release
  <2> QED
    BY <1>1, <1>3, <2>1 DEF InTransit
<1> DEFINE now == FlagsAfter(a[Len(s)], Released(k))
<1>5. PICK b, d :
        /\ Runs(Append(s, Released(k)), flags, b) /\ Leaves(Append(s, Released(k)), b, d)
        /\ b[Len(s) + 1] = now
        /\ d[Len(s) + 1] = IF Effect(now, Released(k)) = Nothing THEN e[Len(s)]
                           ELSE Append(e[Len(s)], Effect(now, Released(k)))
  BY <1>2, <1>3, <1>4, RunsOn
<1>6. /\ Agree(now, held \ {k}, caps)
      /\ OneShift(held \ {k})
      /\ Effect(now, Released(k)) = Nothing
  <2>1. a[Len(s)] \in Flags
    BY <1>2, <1>3, <1>4, RunsTyped
  <2>2. OneShift(held) /\ k \in held
    BY DEF Meant, Release
  <2> QED
    BY <1>2, <1>3, <2>1, <2>2, ReleaseDecoded, ZenonT(40)
<1> HIDE DEF now
<1>7. held' = held \ {k} /\ caps' = caps /\ due' = due /\ flags' = flags
  BY Zenon DEF Release
<1>8. d[Len(s) + 1] = due'
  BY <1>2, <1>5, <1>6, <1>7
<1>9. Agree(b[Len(s) + 1], held', caps') /\ OneShift(held')
  BY <1>5, <1>6, <1>7, Zenon
<1>10. /\ Runs(InTransit', flags', b) /\ Leaves(InTransit', b, d)
       /\ Agree(b[Len(InTransit')], held', caps')
       /\ d[Len(InTransit')] = due'
  BY <1>4, <1>5, <1>7, <1>8, <1>9, Zenon
<1> QED
  BY <1>9, <1>10, Zenon DEF Meant

\* keyboard_handler does the first of the effects that are due.
LEMMA HandlerMeant ==
  ASSUME TypeOK, OneByte, Meant, keyboard_handler
  PROVE  Meant'
<1>1. PICK s : s = InTransit
  OBVIOUS
<1>2. PICK a, e : /\ Runs(s, flags, a) /\ Leaves(s, a, e)
                  /\ Agree(a[Len(s)], held, caps)
                  /\ e[Len(s)] = due
  BY <1>1 DEF Meant
<1>3. /\ kb \in Seq(Bytes) /\ port60 \in Seq(Bytes) /\ c \in Seq(Bytes)
      /\ flags \in Flags
  BY DEF TypeOK
<1>4. c # <<>> /\ Len(c) = 1
  <2>1. c # <<>>
    BY Zenon DEF keyboard_handler
  <2>2. Len(c) <= 1
    BY Zenon DEF OneByte
  <2>3. c \in Seq(Bytes) /\ Len(c) \in Nat /\ Len(c) # 0
    BY <1>3, <2>1, EmptySeq, LenProperties
  <2>4. Len(c) = 1
    BY <2>2, <2>3
  <2> QED
    BY <2>1, <2>4
<1>5. c' = <<>> /\ UNCHANGED <<kb, port60, held, caps>>
  BY DEF keyboard_handler
<1>6. /\ s \in Seq(Bytes) /\ s # <<>> /\ s[1] = c[1]
      /\ InTransit' = Tail(s)
  <2>a. port60 \o kb \in Seq(Bytes)
    BY <1>3
  <2>1. PICK r \in Seq(Bytes) : r = port60 \o kb
    BY <2>a, Zenon
  <2>2. s = c \o r
    BY <1>1, <1>3, <2>1 DEF InTransit
  <2>3. InTransit' = r
    <3>1. <<>> \o port60 = port60
      BY <1>3
    <3> QED
      BY <1>5, <2>1, <3>1, Zenon DEF InTransit
  <2>4. Len(s) = Len(r) + 1 /\ s \in Seq(Bytes) /\ s[1] = c[1]
        /\ \A n \in 1 .. Len(r) : s[n + 1] = r[n]
    <3>1. c \in Seq(Bytes) /\ Len(c) = 1
      BY <1>3, <1>4
    <3>2. c \o r \in Seq(Bytes) /\ Len(c \o r) = 1 + Len(r)
          /\ \A n \in 1 .. 1 + Len(r) : (c \o r)[n] = IF n <= 1 THEN c[n] ELSE r[n - 1]
      <4>1. /\ c \o r \in Seq(Bytes) /\ Len(c \o r) = Len(c) + Len(r)
            /\ \A n \in 1 .. Len(c) + Len(r) :
                 (c \o r)[n] = IF n <= Len(c) THEN c[n] ELSE r[n - Len(c)]
        BY <3>1, ConcatProperties, Zenon
      <4> QED
        BY <3>1, <4>1
    <3>3. Len(r) \in Nat
      OBVIOUS
    <3> QED
      BY <2>2, <3>2, <3>3
  <2>5. Tail(s) = r
    <3>1. Tail(s) \in Seq(Bytes) /\ Len(Tail(s)) = Len(r)
          /\ \A n \in 1 .. Len(r) : Tail(s)[n] = s[n + 1]
      BY <2>4
    <3> QED
      BY <2>4, <3>1, SeqEqual
  <2>6. s # <<>>
    BY <2>4
  <2> QED
    BY <2>3, <2>4, <2>5, <2>6
<1> DEFINE now == FlagsAfter(flags, s[1])
<1>7. PICK b, d :
        /\ Runs(Tail(s), now, b) /\ Leaves(Tail(s), b, d)
        /\ b[Len(Tail(s))] = a[Len(s)]
        /\ Effect(now, s[1]) = Nothing => d[Len(Tail(s))] = e[Len(s)]
        /\ Effect(now, s[1]) # Nothing =>
             e[Len(s)] # <<>> /\ d[Len(Tail(s))] = Tail(e[Len(s)])
  <2>1. s \in Seq(Bytes) /\ s # <<>> /\ flags \in Flags
    BY <1>3, <1>6
  <2>2. Runs(s, flags, a) /\ Leaves(s, a, e)
    BY <1>2
  <2> HIDE DEF now
  <2>3. \E b, d :
          /\ Runs(Tail(s), FlagsAfter(flags, s[1]), b) /\ Leaves(Tail(s), b, d)
          /\ b[Len(Tail(s))] = a[Len(s)]
          /\ Effect(FlagsAfter(flags, s[1]), s[1]) = Nothing => d[Len(Tail(s))] = e[Len(s)]
          /\ Effect(FlagsAfter(flags, s[1]), s[1]) # Nothing =>
               e[Len(s)] # <<>> /\ d[Len(Tail(s))] = Tail(e[Len(s)])
    BY <2>1, <2>2, RunsOff
  <2> QED
    BY <2>3, Zenon DEF now
<1>8. flags' = now
  BY <1>6, Zenon DEF keyboard_handler
<1>9. due' = IF Effect(now, s[1]) = Nothing \/ due = <<>> THEN due ELSE Tail(due)
  BY <1>6, <1>8, Zenon DEF keyboard_handler
<1> HIDE DEF now
<1>10. d[Len(Tail(s))] = due'
  BY <1>2, <1>7, <1>9
<1>11. Agree(b[Len(Tail(s))], held', caps') /\ OneShift(held')
  BY <1>2, <1>5, <1>7, Zenon DEF Meant
<1>12. /\ Runs(InTransit', flags', b) /\ Leaves(InTransit', b, d)
       /\ Agree(b[Len(InTransit')], held', caps')
       /\ d[Len(InTransit')] = due'
  BY <1>6, <1>7, <1>8, <1>10, <1>11, Zenon
<1> QED
  BY <1>11, <1>12, Zenon DEF Meant

\* The bytes move on, from the keyboard to the port and from there to c.
LEMMA MeantStep ==
  ASSUME TypeOK, ContextInv, OneByte, Meant, [Next]_vars
  PROVE  Meant'
<1>0. kb \in Seq(Bytes) /\ port60 \in Seq(Bytes) /\ c \in Seq(Bytes)
  BY DEF TypeOK
<1>1. CASE ReadPort
  <2>1. c = <<>>
    BY <1>1 DEF ReadPort, OneByte
  <2>2. InTransit' = port60 \o <<>> \o kb /\ InTransit = <<>> \o port60 \o kb
    BY <1>1, <2>1 DEF ReadPort, InTransit
  <2>3. port60 \o <<>> = port60 /\ <<>> \o port60 = port60
    BY <1>0
  <2> QED
    BY <1>1, <2>2, <2>3, MeantKept DEF ReadPort
<1>2. CASE KeyEdge
  <2>1. /\ kb # <<>> /\ port60 = <<>> /\ c' = c
        /\ port60' = <<Head(kb)>> /\ kb' = Tail(kb)
    BY <1>2 DEF KeyEdge
  <2>2. InTransit' = c \o <<Head(kb)>> \o Tail(kb) /\ InTransit = c \o <<>> \o kb
    BY <2>1, Zenon DEF InTransit
  <2>3. c \o <<>> = c
    BY <1>0
  <2>4. c \o <<Head(kb)>> \o Tail(kb) = c \o kb
    <3> DEFINE l == c \o <<Head(kb)>> \o Tail(kb)
               r == c \o kb
    <3>1. Head(kb) \in Bytes /\ Tail(kb) \in Seq(Bytes) /\ Len(Tail(kb)) = Len(kb) - 1
          /\ Len(kb) \in Nat /\ Len(kb) > 0 /\ Len(c) \in Nat
      BY <1>0, <2>1
    <3>2. l \in Seq(Bytes) /\ Len(l) = Len(c) + Len(kb)
      BY <1>0, <3>1
    <3>3. r \in Seq(Bytes) /\ Len(r) = Len(c) + Len(kb)
      BY <1>0
    <3>4. ASSUME NEW n \in 1 .. Len(c) + Len(kb)
          PROVE  l[n] = r[n]
      <4>1. CASE n <= Len(c)
        BY <1>0, <3>1, <4>1
      <4>2. CASE n = Len(c) + 1
        BY <1>0, <3>1, <4>2
      <4>3. CASE n > Len(c) + 1
        BY <1>0, <3>1, <4>3
      <4> QED
        BY <3>1, <4>1, <4>2, <4>3
    <3> HIDE DEF l, r
    <3> QED
      BY <3>2, <3>3, <3>4, SeqEqual DEF l, r
  <2> QED
    BY <1>2, <2>2, <2>3, <2>4, MeantKept DEF KeyEdge
<1>3. ASSUME NEW k \in Keys, Press(k) PROVE Meant'
  BY <1>3, PressMeant
<1>4. ASSUME NEW k \in Keys, Release(k) PROVE Meant'
  BY <1>4, ReleaseMeant
<1>5. CASE keyboard_handler
  BY <1>5, HandlerMeant
<1>6. CASE UNCHANGED keyVars
  BY <1>6, MeantKept DEF keyVars, InTransit
<1>7. CASE \E i \in Lines : Accept(i)
  BY <1>6, <1>7 DEF Accept
<1>8. CASE entry
  BY <1>6, <1>8 DEF entry, i8259_init, Enable, EnablePeriodic, SwitchOn, PitMode,
                    PitCount
<1>9. CASE PitStartsShell \/ PitSwitches \/ LeavePit \/ rtc_interrupt \/ RtcReturns
  BY <1>6, <1>9 DEF PitStartsShell, PitSwitches, LeavePit, rtc_interrupt, RtcReturns
<1>10. CASE Cli \/ Sti \/ PitEdge \/ ClockEdge \/ UNCHANGED vars
  BY <1>6, <1>10 DEF Cli, Sti, PitEdge, ClockEdge, vars
<1> QED
  BY <1>1, <1>2, <1>3, <1>4, <1>5, <1>7, <1>8, <1>9, <1>10 DEF Next, Handlers

LEMMA MeantStart == Init => OneByte /\ Meant
<1> SUFFICES ASSUME Init PROVE OneByte /\ Meant
  OBVIOUS
<1>1. c = <<>> /\ port60 = <<>> /\ kb = <<>> /\ held = {} /\ caps = FALSE /\ due = <<>>
  BY Zenon DEF Init
<1>2. OneByte
  BY <1>1 DEF OneByte
<1>3. InTransit = <<>> /\ Len(InTransit) = 0
  <2>1. InTransit = <<>>
    BY <1>1 DEF InTransit
  <2> QED
    BY <2>1
<1> DEFINE a == [n \in 0 .. 0 |-> flags]
           e == [n \in 0 .. 0 |-> <<>>]
<1>4. \A n \in 0 .. 0 : n = 0
  OBVIOUS
<1>5. Runs(<<>>, flags, a)
  <2>1. a = [n \in 0 .. 0 |-> IF n = 0 THEN flags ELSE FlagsAfter(a[n-1], <<>>[n])]
    BY <1>4, Zenon
  <2>2. Len(<<>>) = 0
    OBVIOUS
  <2> HIDE DEF a
  <2> QED
    BY <2>1, <2>2, Zenon DEF Runs
<1>6. Leaves(<<>>, a, e)
  <2>1. e = [n \in 0 .. 0 |-> IF n = 0 THEN <<>>
                              ELSE IF Effect(a[n], <<>>[n]) = Nothing THEN e[n-1]
                              ELSE Append(e[n-1], Effect(a[n], <<>>[n]))]
    BY <1>4, Zenon
  <2>2. Len(<<>>) = 0
    OBVIOUS
  <2> HIDE DEF a, e
  <2> QED
    BY <2>1, <2>2, Zenon DEF Leaves
<1>7. a[0] = flags /\ e[0] = <<>>
  OBVIOUS
<1>8. Agree(flags, held, caps)
  <2>1. ~flags.shift_key /\ ~flags.alt_key /\ ~flags.ctrl_key /\ ~flags.cap_flag
    BY DEF Init
  <2> QED
    BY <1>1, <2>1 DEF Agree
<1>9. OneShift(held)
  BY <1>1 DEF OneShift
<1> HIDE DEF a, e
<1> QED
  BY <1>1, <1>2, <1>3, <1>5, <1>6, <1>7, <1>8, <1>9, Zenon DEF Meant

\* No byte of the keyboard is lost, doubled or handled out of turn between the
\* keyboard, the port, the variable of the handler and its nested interrupts;
\* and every key does what the keys that were down when it was pressed made it
\* mean, however late it is handled.
THEOREM KeysMeant == Spec => []KeysDoWhatWasMeant
<1>1. Init => OneByte /\ Meant
  BY MeantStart
<1>2. TypeOK /\ ContextInv /\ OneByte /\ Meant /\ [Next]_vars => OneByte' /\ Meant'
  BY OneByteStep, MeantStep
<1>3. TypeOK /\ Meant => KeysDoWhatWasMeant
  <2> SUFFICES ASSUME TypeOK, Meant
               PROVE  Replay(InTransit) = due
    BY DEF KeysDoWhatWasMeant
  <2>1. InTransit \in Seq(Bytes)
    BY DEF TypeOK, InTransit
  <2>2. PICK a, e : /\ Runs(InTransit, flags, a) /\ Leaves(InTransit, a, e)
                    /\ e[Len(InTransit)] = due
    BY DEF Meant
  <2> QED
    BY <2>1, <2>2, ReplayIs, Zenon
<1> QED
  BY <1>1, <1>2, <1>3, InvariantHolds, PTL DEF Spec

=============================================================================
