--------------------------- MODULE TerminalProofs ---------------------------
(***************************************************************************)
(* Proofs about Terminal, for any number of terminals, any line length and *)
(* any alphabet: the lines always fit in their buffers, and, for a patient *)
(* user who leaves the displayed program alone while it takes a line, the  *)
(* driver implements one line discipline per terminal.                     *)
(***************************************************************************)
EXTENDS Terminal, SequenceTheorems, TLAPS

USE NTAssumption, SizeAssumption

-----------------------------------------------------------------------------
(* Lines *)

IsLine(s) == s \in Seq(Chars) /\ Len(s) <= KB_BUF_SIZE

LEMMA EmptyLine == IsLine(<<>>)
  BY EmptySeq DEF IsLine

LEMMA LineAppend ==
  ASSUME NEW s \in Seq(Chars), NEW c \in Chars, Len(s) < KB_BUF_SIZE
  PROVE  IsLine(Append(s, c))
<1>1. Append(s, c) \in Seq(Chars) /\ Len(Append(s, c)) = Len(s) + 1
  BY AppendProperties
<1>2. Len(s) \in Nat
  BY LenProperties
<1> QED
  BY <1>1, <1>2 DEF IsLine

LEMMA LineErase ==
  ASSUME NEW s \in Seq(Chars), IsLine(s), Len(s) > 0
  PROVE  IsLine(SubSeq(s, 1, Len(s) - 1))
<1>1. Len(s) \in Nat /\ \A i \in 1 .. Len(s) - 1 : s[i] \in Chars
  BY LenProperties, ElementOfSeq
<1>2. /\ SubSeq(s, 1, Len(s) - 1) \in Seq(Chars)
      /\ Len(SubSeq(s, 1, Len(s) - 1)) =
           IF 1 <= Len(s) - 1 THEN Len(s) - 1 - 1 + 1 ELSE 0
  BY <1>1, SubSeqProperties
<1> QED
  BY <1>1, <1>2 DEF IsLine

\* What TypeOK says of the lines.
LEMMA LinesOfTypeOK ==
  ASSUME TypeOK
  PROVE  /\ IsLine(keyboard_buffer)
         /\ \A t \in Terminals : IsLine(saved[t]) /\ IsLine(buf[t])
  BY DEF TypeOK, IsLine

\* A reader asks for a natural number of bytes.
LEMMA AskedIsNat ==
  ASSUME TypeOK, NEW t \in Terminals
  PROVE  nbytes[t] \in Nat
<1>1. nbytes[t] \in ReadSizes \cup {0}
  BY DEF TypeOK
<1>2. ASSUME NEW n \in ReadSizes \cup {0}
      PROVE  n \in Nat
  OBVIOUS
<1> QED
  BY <1>1, <1>2, Zenon

-----------------------------------------------------------------------------
(* Type invariant *)

LEMMA TypeInit == Init => TypeOK
<1> SUFFICES ASSUME Init PROVE TypeOK
  OBVIOUS
<1>1. <<>> \in Seq(Chars) /\ Len(<<>>) = 0
  BY EmptySeq
<1>2. 1 \in Terminals /\ 0 \in 0 .. NT
  BY DEF Terminals
<1> QED
  BY <1>1, <1>2 DEF Init, TypeOK, Points

LEMMA TypeStep == TypeOK /\ [Next]_vars => TypeOK'
<1> SUFFICES ASSUME TypeOK, [Next]_vars
             PROVE  TypeOK'
  OBVIOUS
<1> USE DEF schedVars, kbVars, readVars
<1>k. /\ keyboard_buffer \in Seq(Chars) /\ IsLine(keyboard_buffer)
      /\ Len(keyboard_buffer) \in Nat
      /\ curr_scheduled \in Terminals /\ curr_terminal \in Terminals
  BY LinesOfTypeOK, LenProperties DEF TypeOK
<1>1. ASSUME NEW c \in Chars, TypeChar(c)
      PROVE  TypeOK'
  <2>1. IsLine(Append(keyboard_buffer, c))
    BY <1>1, <1>k, LineAppend DEF TypeChar
  <2> QED
    BY <1>1, <2>1 DEF TypeChar, TypeOK, IsLine
<1>2. CASE Backspace
  <2>1. IsLine(SubSeq(keyboard_buffer, 1, Len(keyboard_buffer) - 1))
    BY <1>2, <1>k, LineErase DEF Backspace
  <2> QED
    BY <1>2, <2>1 DEF Backspace, TypeOK, IsLine
<1>3. CASE PressEnter
  BY <1>3 DEF PressEnter, TypeOK, Terminals
<1>4. ASSUME NEW t \in Terminals, PressAltFn(t)
      PROVE  TypeOK'
  <2>1. IsLine(saved[t])
    BY LinesOfTypeOK
  <2> QED
    BY <1>4, <1>k, <2>1 DEF PressAltFn, TypeOK, IsLine, Terminals
<1>5. CASE Tick
  <2>1. Shown \in Terminals /\ (curr_scheduled % NT) + 1 \in Terminals
    BY DEF Shown, TypeOK, Terminals
  <2> QED
    BY <1>5, <2>1 DEF Tick, TypeOK
<1>6. ASSUME NEW n \in ReadSizes, CallRead(n)
      PROVE  TypeOK'
  BY <1>6, EmptyLine DEF CallRead, TypeOK, IsLine, Goto, Points
<1>7. CASE SeeEnter
  BY <1>7 DEF SeeEnter, TypeOK, Goto, Points
<1>8. CASE ClaimEnter
  BY <1>8 DEF ClaimEnter, TypeOK, Goto, Points
<1>9. CASE CopyChar
  <2>1. buf[curr_scheduled] \in Seq(Chars) /\ Index \in Nat
    BY <1>k, LenProperties DEF TypeOK, Index
  <2>5. nbytes[curr_scheduled] \in Nat
    BY <1>k, AskedIsNat
  <2>6. Index < ToCopy
    BY <1>9 DEF CopyChar
  <2>2. /\ Index + 1 \in 1 .. Len(keyboard_buffer)
        /\ Index < KB_BUF_SIZE
    BY <1>k, <2>1, <2>5, <2>6 DEF ToCopy, IsLine
  <2>3. keyboard_buffer[Index + 1] \in Chars
    BY <1>k, <2>2, ElementOfSeq
  <2>4. IsLine(Append(buf[curr_scheduled], keyboard_buffer[Index + 1]))
    BY <2>1, <2>2, <2>3, LineAppend DEF Index
  <2> QED
    BY <1>9, <2>4 DEF CopyChar, TypeOK, IsLine
<1>10. CASE CopyDone
  BY <1>10 DEF CopyDone, TypeOK, Goto, Points
<1>11. CASE ClearLine
  BY <1>11, EmptyLine DEF ClearLine, TypeOK, IsLine, Goto, Points
<1>12. CASE TerminalWrite
  BY <1>12, EmptyLine DEF TerminalWrite, TypeOK, IsLine
<1>13. CASE UNCHANGED vars
  BY <1>13 DEF vars, TypeOK
<1> QED
  BY <1>1, <1>2, <1>3, <1>4, <1>5, <1>6, <1>7, <1>8, <1>9, <1>10, <1>11, <1>12,
     <1>13 DEF Next, ReadStep

\* Terminal.tla, TypeOK: no key, Alt-Fn, read or write overruns a line buffer.
THEOREM LinesFit == Spec => []TypeOK
  BY TypeInit, TypeStep, PTL DEF Spec

-----------------------------------------------------------------------------
(* Implementing the line discipline *)

\* The user the refinement needs: no Alt-Fn while one is pending or an Enter is
\* unanswered, no key in the instructions in which the displayed program takes
\* its line.
CalmUser == Patient /\ KeysAt \subseteq {"run", "wait"}

Taking(t) == pc[t] \in {"claim", "copy", "clear"}

\* While a program takes a line, its terminal stays on the display and nobody
\* asks for another one; the Enter it answers is pending until it claims it and
\* no other is pending after that; what it copied so far is the beginning of
\* the active line, and all it asked for when the copying ends.
ReadInv ==
  /\ enter_flag = 1 => switch_flag = 0
  /\ \A t \in Terminals :
       /\ Taking(t) => curr_terminal = t /\ switch_flag = 0
       /\ pc[t] = "claim" => enter_flag = 1
       /\ Copying(t) => enter_flag = 0
       /\ pc[t] \in {"wait", "claim"} => buf[t] = <<>>
       /\ Copying(t) =>
            /\ Len(buf[t]) <= Len(keyboard_buffer)
            /\ Len(buf[t]) <= nbytes[t]
            /\ \A k \in 1 .. Len(buf[t]) : buf[t][k] = keyboard_buffer[k]
       /\ pc[t] = "clear" =>
            Len(buf[t]) = nbytes[t] \/ Len(buf[t]) = Len(keyboard_buffer)

LEMMA ReadInit == Init => ReadInv
  BY DEF Init, ReadInv, Taking, Copying

\* A key comes only while the program on the display takes no line, so that no
\* program does.
LEMMA NobodyTakes ==
  ASSUME TypeOK, ReadInv, CalmUser, MayPress
  PROVE  switch_flag = 0 /\ \A t \in Terminals : ~Taking(t)
<1>1. pc[curr_terminal] \in {"run", "wait"} /\ switch_flag = 0
  BY DEF CalmUser, MayPress
<1> QED
  BY <1>1 DEF ReadInv, Taking

\* Nobody copies while nobody takes a line.
LEMMA CopyingIsTaking ==
  \A t \in Terminals : Copying(t) => Taking(t)
  BY DEF Copying, Taking

\* Only one program takes a line at a time.
LEMMA OneTakes ==
  ASSUME ReadInv, NEW t \in Terminals, Taking(t), NEW u \in Terminals, u # t
  PROVE  ~Taking(u)
  BY DEF ReadInv

LEMMA ReadInvStep ==
  ASSUME CalmUser, TypeOK, ReadInv, [Next]_vars
  PROVE  ReadInv'
<1> USE DEF schedVars, kbVars, readVars
<1>c. curr_scheduled \in Terminals /\ curr_terminal \in Terminals
  BY DEF TypeOK
<1>0. SUFFICES ASSUME NEW t \in Terminals
      PROVE  /\ enter_flag' = 1 => switch_flag' = 0
             /\ Taking(t)' => curr_terminal' = t /\ switch_flag' = 0
             /\ pc'[t] = "claim" => enter_flag' = 1
             /\ Copying(t)' => enter_flag' = 0
             /\ pc'[t] \in {"wait", "claim"} => buf'[t] = <<>>
             /\ Copying(t)' =>
                  /\ Len(buf'[t]) <= Len(keyboard_buffer')
                  /\ Len(buf'[t]) <= nbytes'[t]
                  /\ \A k \in 1 .. Len(buf'[t]) : buf'[t][k] = keyboard_buffer'[k]
             /\ pc'[t] = "clear" =>
                  Len(buf'[t]) = nbytes'[t] \/ Len(buf'[t]) = Len(keyboard_buffer')
  BY <1>c DEF ReadInv
<1>1. CASE (\E c \in Chars : TypeChar(c)) \/ Backspace \/ PressEnter
             \/ \E u \in Terminals : PressAltFn(u)
  <2>1. MayPress
    BY <1>1 DEF TypeChar, Backspace, PressEnter, PressAltFn
  <2>2. switch_flag = 0 /\ ~Taking(t) /\ ~Copying(t)
    BY <2>1, NobodyTakes, CopyingIsTaking
  <2>3. /\ pc' = pc /\ buf' = buf
        /\ ~Taking(t)' /\ ~Copying(t)' /\ pc'[t] # "claim" /\ pc'[t] # "clear"
    BY <1>1, <2>2 DEF TypeChar, Backspace, PressEnter, PressAltFn, Taking, Copying
  <2>4. enter_flag' = 1 => switch_flag' = 0
    BY <1>1, <2>2 DEF TypeChar, Backspace, PressEnter, PressAltFn, CalmUser
  <2>5. pc[t] \in {"wait", "claim"} => buf[t] = <<>>
    BY DEF ReadInv
  <2> QED
    BY <2>3, <2>4, <2>5
<1>2. CASE Tick
  BY <1>2 DEF Tick, Shown, ReadInv, Taking, Copying
<1>3. CASE \E n \in ReadSizes : CallRead(n)
  BY <1>3, <1>c DEF CallRead, At, Goto, TypeOK, ReadInv, Taking, Copying
<1>4. CASE SeeEnter
  BY <1>4, <1>c DEF SeeEnter, At, Goto, TypeOK, ReadInv, Taking, Copying
<1>5. CASE ClaimEnter
  <2>1. CASE t = curr_scheduled
    <3>1. /\ pc'[t] = "copy" /\ buf'[t] = <<>> /\ enter_flag' = 0
          /\ curr_terminal' = t /\ switch_flag' = 0
          /\ keyboard_buffer' = keyboard_buffer /\ nbytes' = nbytes
      BY <1>5, <2>1, <1>c DEF ClaimEnter, At, Goto, TypeOK, ReadInv, Taking
    <3>2. Len(keyboard_buffer) \in Nat /\ nbytes[t] \in Nat /\ Len(<<>>) = 0
      BY AskedIsNat, LenProperties, EmptySeq DEF TypeOK
    <3> QED
      BY <3>1, <3>2
  <2>2. CASE t # curr_scheduled
    <3>1. Taking(curr_scheduled)
      BY <1>5 DEF ClaimEnter, At, Taking
    <3>2. ~Taking(t) /\ pc'[t] = pc[t] /\ buf'[t] = buf[t] /\ enter_flag' = 0
      BY <1>5, <2>2, <3>1, <1>c, OneTakes DEF ClaimEnter, Goto, TypeOK
    <3> QED
      BY <3>2 DEF ReadInv, Taking, Copying
  <2> QED
    BY <2>1, <2>2
<1>6. CASE CopyChar
  <2>1. CASE t = curr_scheduled
    <3>1. /\ buf[t] \in Seq(Chars) /\ keyboard_buffer \in Seq(Chars)
          /\ Len(buf[t]) \in Nat /\ Len(keyboard_buffer) \in Nat
          /\ nbytes[t] \in Nat
      BY AskedIsNat, LenProperties DEF TypeOK
    <3>2. /\ Index = Len(buf[t])
          /\ Len(buf[t]) < Len(keyboard_buffer) /\ Len(buf[t]) < nbytes[t]
      BY <1>6, <2>1, <3>1 DEF CopyChar, Index, ToCopy
    <3>3. keyboard_buffer[Len(buf[t]) + 1] \in Chars
      BY <3>1, <3>2, ElementOfSeq
    <3>4. buf'[t] = Append(buf[t], keyboard_buffer[Len(buf[t]) + 1])
      BY <1>6, <2>1, <3>2 DEF CopyChar, TypeOK
    <3>5. /\ Len(buf'[t]) = Len(buf[t]) + 1
          /\ \A k \in 1 .. Len(buf[t]) : buf'[t][k] = buf[t][k]
          /\ buf'[t][Len(buf[t]) + 1] = keyboard_buffer[Len(buf[t]) + 1]
      BY <3>1, <3>3, <3>4, AppendProperties
    <3>6. /\ pc[t] = "copy" /\ pc' = pc /\ enter_flag' = enter_flag
          /\ curr_terminal' = curr_terminal /\ switch_flag' = switch_flag
          /\ keyboard_buffer' = keyboard_buffer /\ nbytes' = nbytes
      BY <1>6, <2>1 DEF CopyChar, At
    <3>7. /\ enter_flag = 0 /\ curr_terminal = t /\ switch_flag = 0
          /\ \A k \in 1 .. Len(buf[t]) : buf[t][k] = keyboard_buffer[k]
      BY <3>6 DEF ReadInv, Taking, Copying
    <3>8. \A k \in 1 .. Len(buf'[t]) : buf'[t][k] = keyboard_buffer'[k]
      BY <3>1, <3>5, <3>6, <3>7
    <3> QED
      BY <3>1, <3>2, <3>5, <3>6, <3>7, <3>8
  <2>2. CASE t # curr_scheduled
    <3>1. Taking(curr_scheduled)
      BY <1>6 DEF CopyChar, At, Taking
    <3>2. /\ ~Taking(t) /\ pc' = pc /\ buf'[t] = buf[t]
          /\ enter_flag' = enter_flag /\ switch_flag' = switch_flag
      BY <1>6, <2>2, <3>1, <1>c, OneTakes DEF CopyChar, TypeOK
    <3> QED
      BY <3>2 DEF ReadInv, Taking, Copying
  <2> QED
    BY <2>1, <2>2
<1>7. CASE CopyDone
  <2>1. CASE t = curr_scheduled
    <3>1. /\ Len(buf[t]) \in Nat /\ Len(keyboard_buffer) \in Nat
          /\ nbytes[t] \in Nat
      BY AskedIsNat, LenProperties DEF TypeOK
    <3>2. /\ pc[t] = "copy" /\ pc'[t] = "clear" /\ enter_flag' = enter_flag
          /\ curr_terminal' = curr_terminal /\ switch_flag' = switch_flag
          /\ keyboard_buffer' = keyboard_buffer /\ nbytes' = nbytes /\ buf' = buf
      BY <1>7, <2>1 DEF CopyDone, At, Goto, TypeOK
    <3>3. Len(buf[t]) >= nbytes[t] \/ Len(buf[t]) >= Len(keyboard_buffer)
      BY <1>7, <2>1, <3>1 DEF CopyDone, Index, ToCopy
    <3>4. /\ enter_flag = 0 /\ curr_terminal = t /\ switch_flag = 0
          /\ Len(buf[t]) <= Len(keyboard_buffer) /\ Len(buf[t]) <= nbytes[t]
          /\ \A k \in 1 .. Len(buf[t]) : buf[t][k] = keyboard_buffer[k]
      BY <3>2 DEF ReadInv, Taking, Copying
    <3> QED
      BY <3>1, <3>2, <3>3, <3>4
  <2>2. CASE t # curr_scheduled
    <3>1. Taking(curr_scheduled)
      BY <1>7 DEF CopyDone, At, Taking
    <3>2. /\ ~Taking(t) /\ pc'[t] = pc[t] /\ buf'[t] = buf[t]
          /\ enter_flag' = enter_flag /\ switch_flag' = switch_flag
      BY <1>7, <2>2, <3>1, <1>c, OneTakes DEF CopyDone, Goto, TypeOK
    <3> QED
      BY <3>2 DEF ReadInv, Taking, Copying
  <2> QED
    BY <2>1, <2>2
<1>8. CASE ClearLine
  <2>1. Taking(curr_scheduled)
    BY <1>8 DEF ClearLine, At, Taking
  <2>2. t # curr_scheduled => ~Taking(t)
    BY <2>1, <1>c, OneTakes
  <2>3. /\ pc'[t] = IF t = curr_scheduled THEN "run" ELSE pc[t]
        /\ buf' = buf /\ enter_flag' = enter_flag /\ switch_flag' = switch_flag
    BY <1>8 DEF ClearLine, Goto, TypeOK
  <2> QED
    BY <2>2, <2>3 DEF ReadInv, Taking, Copying
<1>9. CASE TerminalWrite
  BY <1>9 DEF TerminalWrite, ReadInv, Taking, Copying
<1>10. CASE UNCHANGED vars
  BY <1>10 DEF vars, ReadInv, Taking, Copying
<1> QED
  BY <1>1, <1>2, <1>3, <1>4, <1>5, <1>6, <1>7, <1>8, <1>9, <1>10 DEF Next, ReadStep

-----------------------------------------------------------------------------
(* The steps of the driver, seen as steps of the line discipline *)

LEMMA RefineInit == Init => LD!Init
  BY DEF Init, LD!Init, LD!Terminals, LD!Idle, Terminals, Shown, Line, Entered,
         Asked, Returned, Copying

\* A step that leaves the line discipline alone.
LEMMA SameView ==
  ASSUME Shown' = Shown, Line' = Line, Entered' = Entered, Asked' = Asked,
         Returned' = Returned
  PROVE  [LD!Next]_(LD!vars)
  BY DEF LD!vars

\* What the readers see does not change with their variables.
LEMMA SameReaders ==
  ASSUME pc' = pc, nbytes' = nbytes, buf' = buf
  PROVE  Asked' = Asked /\ Returned' = Returned
  BY DEF Asked, Returned, Copying

LEMMA RefineKeys ==
  ASSUME CalmUser, TypeOK, ReadInv,
         \/ \E c \in Chars : TypeChar(c)
         \/ Backspace
         \/ PressEnter
         \/ \E t \in Terminals : PressAltFn(t)
  PROVE  [LD!Next]_(LD!vars)
<1> USE DEF schedVars, kbVars, readVars
<1>k. MayPress
  BY DEF TypeChar, Backspace, PressEnter, PressAltFn
<1>s. /\ switch_flag = 0 /\ Shown = curr_terminal /\ curr_terminal \in Terminals
      /\ \A t \in Terminals : ~Copying(t)
  BY <1>k, NobodyTakes, CopyingIsTaking DEF Shown, TypeOK
<1>r. Asked' = Asked /\ Returned' = Returned /\ pc' = pc
  BY SameReaders DEF TypeChar, Backspace, PressEnter, PressAltFn
<1>e. (Entered <=> enter_flag = 1) /\ (Entered' <=> enter_flag' = 1)
  BY <1>s, <1>r DEF Entered, Copying
<1>l. Line[Shown] = keyboard_buffer
  BY <1>s DEF Line
<1>1. ASSUME NEW c \in Chars, TypeChar(c)
      PROVE  LD!Type(c)
  <2>1. Shown' = Shown /\ Entered' = Entered
    BY <1>1, <1>e DEF TypeChar, Shown, Entered, Copying
  <2>2. Line' = [Line EXCEPT ![Shown] = Append(@, c)]
    BY <1>1, <1>s, <1>l, <2>1 DEF TypeChar, Line
  <2>3. Len(Line[Shown]) < KB_BUF_SIZE
    BY <1>1, <1>l DEF TypeChar
  <2> QED
    BY <2>1, <2>2, <2>3, <1>r DEF LD!Type
<1>2. CASE Backspace
  <2>1. Shown' = Shown /\ Entered' = Entered
    BY <1>2, <1>e DEF Backspace, Shown, Entered, Copying
  <2>2. Line' = [Line EXCEPT ![Shown] = SubSeq(@, 1, Len(@) - 1)]
    BY <1>2, <1>s, <1>l, <2>1 DEF Backspace, Line
  <2>3. Line[Shown] # <<>>
    BY <1>2, <1>l, EmptySeq DEF Backspace
  <2>4. LD!Erase
    BY <2>1, <2>2, <2>3, <1>r DEF LD!Erase
  <2> QED
    BY <2>4 DEF LD!Next
<1>3. CASE PressEnter
  <2>1. Shown' = Shown /\ Line' = Line
    BY <1>3 DEF PressEnter, Shown, Line
  <2>2. Entered' = TRUE
    BY <1>3 DEF PressEnter, Entered
  <2>3. LD!Enter
    BY <2>1, <2>2, <1>r DEF LD!Enter
  <2> QED
    BY <2>3 DEF LD!Next
<1>4. ASSUME NEW t \in Terminals, PressAltFn(t)
      PROVE  LD!Focus(t)
  <2>1. Shown' = t
    BY <1>4 DEF PressAltFn, Shown, Terminals
  <2>2. Entered' = Entered
    BY <1>4 DEF PressAltFn, Entered, Copying
  <2>3. ASSUME NEW u \in Terminals
        PROVE  (IF u = t THEN keyboard_buffer' ELSE saved'[u])
                 = (IF u = Shown THEN keyboard_buffer ELSE saved[u])
    BY <1>4, <1>s DEF PressAltFn, TypeOK
  <2>4. Line' = Line
    BY <2>1, <2>3 DEF Line
  <2> QED
    BY <2>1, <2>2, <2>4, <1>r DEF LD!Focus
<1> QED
  BY <1>1, <1>2, <1>3, <1>4 DEF LD!Next, LD!Terminals, Terminals

LEMMA RefineTick ==
  ASSUME TypeOK, Tick
  PROVE  [LD!Next]_(LD!vars)
<1> USE DEF schedVars, kbVars, readVars
<1>1. Shown' = Shown
  BY DEF Tick, Shown, TypeOK, Terminals
<1>2. Line' = Line /\ Entered' = Entered
  BY <1>1 DEF Tick, Line, Entered, Copying
<1> QED
  BY <1>1, <1>2, SameView, SameReaders DEF Tick

LEMMA RefineCallRead ==
  ASSUME TypeOK, NEW n \in ReadSizes, CallRead(n)
  PROVE  LD!StartRead(curr_scheduled, n)
<1> USE DEF schedVars, kbVars, readVars
<1>c. curr_scheduled \in Terminals /\ pc[curr_scheduled] = "run"
  BY DEF TypeOK, CallRead, At
<1>1. Shown' = Shown /\ Line' = Line
  BY DEF CallRead, Shown, Line
<1>2. \A t \in Terminals : Copying(t)' <=> Copying(t)
  BY <1>c DEF CallRead, Copying, Goto, TypeOK
<1>3. Entered' = Entered
  BY <1>2 DEF CallRead, Entered
<1>4. Asked[curr_scheduled] = -1
  BY <1>c DEF Asked
<1>5. Asked' = [Asked EXCEPT ![curr_scheduled] = n]
  BY <1>c DEF Asked, CallRead, Goto, TypeOK
<1>6. Returned' = [Returned EXCEPT ![curr_scheduled] = <<>>]
  BY <1>c, <1>2 DEF Returned, CallRead, TypeOK
<1> QED
  BY <1>1, <1>3, <1>4, <1>5, <1>6 DEF LD!StartRead, LD!Idle

\* The steps of terminal_read before the last one show nothing outside.
LEMMA RefineTaking ==
  ASSUME TypeOK, ReadInv, SeeEnter \/ ClaimEnter \/ CopyChar \/ CopyDone
  PROVE  [LD!Next]_(LD!vars)
<1> USE DEF schedVars, kbVars, readVars
<1>c. curr_scheduled \in Terminals
  BY DEF TypeOK
<1>1. Shown' = Shown /\ Line' = Line
  BY DEF SeeEnter, ClaimEnter, CopyChar, CopyDone, Shown, Line
<1>2. Asked' = Asked
  BY <1>c DEF SeeEnter, ClaimEnter, CopyChar, CopyDone, Asked, At, Goto, TypeOK
<1>3. ASSUME NEW t \in Terminals
      PROVE  (IF Copying(t)' THEN <<>> ELSE buf'[t])
               = (IF Copying(t) THEN <<>> ELSE buf[t])
  <2>1. pc[t] = "claim" => buf[t] = <<>>
    BY DEF ReadInv
  <2> QED
    BY <2>1, <1>c DEF SeeEnter, ClaimEnter, CopyChar, CopyDone, Copying, At, Goto, TypeOK
<1>4. Returned' = Returned
  BY <1>3 DEF Returned
<1>5. Entered' = Entered
  <2>1. CASE SeeEnter
    BY <2>1, <1>c DEF SeeEnter, Entered
  <2>2. CASE ClaimEnter
    <3>1. enter_flag = 1 /\ pc'[curr_scheduled] = "copy"
      BY <2>2, <1>c DEF ClaimEnter, At, Goto, ReadInv, TypeOK
    <3> QED
      BY <3>1, <1>c DEF Entered, Copying
  <2>3. CASE CopyChar \/ CopyDone
    <3>1. pc[curr_scheduled] = "copy" /\ pc'[curr_scheduled] \in {"copy", "clear"}
      BY <2>3, <1>c DEF CopyChar, CopyDone, At, Goto, TypeOK
    <3> QED
      BY <3>1, <1>c DEF Entered, Copying
  <2> QED
    BY <2>1, <2>2, <2>3
<1> QED
  BY <1>1, <1>2, <1>4, <1>5, SameView

\* The last one hands over the line, or as much of it as was asked for.
LEMMA RefineClearLine ==
  ASSUME TypeOK, ReadInv, ClearLine
  PROVE  LD!Deliver(curr_scheduled)
<1> USE DEF schedVars, kbVars, readVars
<1>c. curr_scheduled \in Terminals /\ pc[curr_scheduled] = "clear"
  BY DEF TypeOK, ClearLine, At
<1>1. /\ Shown = curr_scheduled /\ Shown' = Shown /\ enter_flag = 0
      /\ Copying(curr_scheduled)
  BY <1>c DEF ReadInv, Taking, Copying, Shown, ClearLine
<1>2. \A t \in Terminals : Copying(t) <=> t = curr_scheduled
  BY <1>c, <1>1, OneTakes, CopyingIsTaking DEF Taking
<1>3. \A t \in Terminals : ~Copying(t)'
  BY <1>2, <1>c DEF ClearLine, Copying, Goto, TypeOK
<1>4. Entered /\ Entered' = FALSE
  <2>1. Entered
    BY <1>1, <1>c DEF Entered
  <2>2. ~Entered'
    BY <1>1, <1>3 DEF Entered, ClearLine
  <2>3. Entered' \in BOOLEAN
    BY DEF Entered
  <2> QED
    BY <2>1, <2>2, <2>3
<1>5. /\ nbytes[curr_scheduled] \in Nat
      /\ Asked[curr_scheduled] = nbytes[curr_scheduled]
      /\ Asked' = [Asked EXCEPT ![curr_scheduled] = -1]
  BY <1>c, AskedIsNat DEF Asked, ClearLine, Goto, TypeOK
<1>6. Line[curr_scheduled] = keyboard_buffer
  BY <1>1, <1>c DEF Line
<1>7. Line' = [Line EXCEPT ![curr_scheduled] = <<>>]
  BY <1>1, <1>c DEF Line, ClearLine
<1>8. buf[curr_scheduled] = LD!Prefix(keyboard_buffer, nbytes[curr_scheduled])
  <2> DEFINE b == buf[curr_scheduled]
             n == nbytes[curr_scheduled]
             p == LD!Prefix(keyboard_buffer, n)
  <2>1. /\ b \in Seq(Chars) /\ keyboard_buffer \in Seq(Chars)
        /\ Len(b) \in Nat /\ Len(keyboard_buffer) \in Nat
    BY <1>c, LenProperties DEF TypeOK
  <2>2. /\ Len(b) <= Len(keyboard_buffer) /\ Len(b) <= n
        /\ Len(b) = n \/ Len(b) = Len(keyboard_buffer)
        /\ \A k \in 1 .. Len(b) : b[k] = keyboard_buffer[k]
    BY <1>c, <1>1 DEF ReadInv
  <2> HIDE DEF b, n
  <2>3. p = SubSeq(keyboard_buffer, 1, Len(b))
    BY <1>5, <2>1, <2>2 DEF LD!Prefix, n
  <2> HIDE DEF p
  <2>4. \A k \in 1 .. Len(b) : keyboard_buffer[k] \in Chars
    BY <2>1, <2>2, ElementOfSeq
  <2>5. /\ p \in Seq(Chars) /\ Len(p) = Len(b)
        /\ \A k \in 1 .. Len(b) : p[k] = keyboard_buffer[k]
    BY <2>1, <2>3, <2>4, SubSeqProperties
  <2>6. b = p
    BY <2>1, <2>2, <2>5, SeqEqual
  <2> QED
    BY <2>6 DEF b, p, n
<1>9. Returned' = [Returned EXCEPT ![curr_scheduled] =
                     LD!Prefix(Line[curr_scheduled], Asked[curr_scheduled])]
  BY <1>c, <1>2, <1>3, <1>5, <1>6, <1>8 DEF Returned, ClearLine
<1> QED
  BY <1>1, <1>4, <1>5, <1>6, <1>7, <1>9 DEF LD!Deliver, LD!Idle

\* terminal_write discards the line of a terminal without the keyboard; it
\* does not reach the line of the one that has it.
LEMMA RefineTerminalWrite ==
  ASSUME TypeOK, TerminalWrite
  PROVE  [LD!Next]_(LD!vars)
<1> USE DEF schedVars, kbVars, readVars
<1>c. curr_scheduled \in Terminals
  BY DEF TypeOK
<1>1. Shown' = Shown /\ Entered' = Entered /\ Asked' = Asked /\ Returned' = Returned
  BY SameReaders DEF TerminalWrite, Shown, Entered, Copying
<1>2. CASE curr_scheduled = Shown
  <2>1. Line' = Line
    BY <1>1, <1>2 DEF TerminalWrite, Line, TypeOK
  <2> QED
    BY <1>1, <2>1, SameView
<1>3. CASE curr_scheduled # Shown
  <2>1. Line' = [Line EXCEPT ![curr_scheduled] = <<>>]
    BY <1>1, <1>3, <1>c DEF TerminalWrite, Line, TypeOK
  <2>2. LD!Discard(curr_scheduled)
    BY <1>1, <1>3, <2>1 DEF LD!Discard
  <2> QED
    BY <1>c, <2>2 DEF LD!Next, LD!Terminals, Terminals
<1> QED
  BY <1>2, <1>3

\* Every step of the driver is a step of the line discipline or a stutter.
LEMMA RefineStep ==
  CalmUser /\ TypeOK /\ ReadInv /\ [Next]_vars => [LD!Next]_(LD!vars)
<1> SUFFICES ASSUME CalmUser, TypeOK, ReadInv, [Next]_vars
             PROVE  [LD!Next]_(LD!vars)
  OBVIOUS
<1>c. curr_scheduled \in LD!Terminals
  BY DEF TypeOK, LD!Terminals, Terminals
<1>1. CASE \E n \in ReadSizes : CallRead(n)
  BY <1>1, <1>c, RefineCallRead DEF LD!Next
<1>2. CASE ClearLine
  BY <1>2, <1>c, RefineClearLine DEF LD!Next
<1>3. CASE UNCHANGED vars
  <2>1. Shown' = Shown /\ Line' = Line /\ Entered' = Entered
    BY <1>3 DEF vars, schedVars, kbVars, readVars, Shown, Line, Entered, Copying
  <2> QED
    BY <1>3, <2>1, SameView, SameReaders DEF vars, readVars
<1> QED
  BY <1>1, <1>2, <1>3, RefineKeys, RefineTick, RefineTaking, RefineTerminalWrite
  DEF Next, ReadStep

\* Terminal.tla, ImplementsLineDiscipline: for a calm user, the shared line
\* buffer, the saved buffers and terminal_read implement one line discipline
\* per terminal.
THEOREM Refinement == CalmUser /\ Spec => ImplementsLineDiscipline
<1>1. CalmUser /\ TypeOK /\ ReadInv /\ [Next]_vars => ReadInv'
  BY ReadInvStep
<1>2. CalmUser /\ Spec => [](TypeOK /\ ReadInv)
  <2>1. CalmUser => CalmUser'
    BY DEF CalmUser
  <2> QED
    BY <1>1, <2>1, TypeInit, TypeStep, ReadInit, PTL DEF Spec
<1>3. CalmUser => CalmUser'
  BY DEF CalmUser
<1> QED
  BY <1>2, <1>3, RefineInit, RefineStep, PTL DEF Spec, ImplementsLineDiscipline, LD!Spec

=============================================================================
