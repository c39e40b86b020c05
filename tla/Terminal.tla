------------------------------ MODULE Terminal ------------------------------
(***************************************************************************)
(* The keyboard and the terminal driver (keyboard.c): keyboard_handler     *)
(* edits one active line buffer and swaps it with the buffer saved for     *)
(* each terminal on Alt-Fn; terminal_read of each terminal's program spins *)
(* for an Enter and takes the active line with interrupts on; the timer    *)
(* (pit_handler) rotates the programs and carries out the Alt-Fn request   *)
(* one tick after the buffers were swapped.                                *)
(***************************************************************************)
EXTENDS Integers, Sequences

CONSTANTS
  NT,           \* NUM_T terminals, each with the one program that runs there
  KB_BUF_SIZE,  \* 128 in keyboard.c
  Chars,        \* the characters that have a key
  ReadSizes,    \* the nbytes that programs pass to read
  KeysAt,       \* points of the displayed program at which a key may arrive
  Patient       \* the user waits until an Alt-Fn is served before the next key,
                \* and until an Enter is answered before the next Alt-Fn

Terminals == 1 .. NT

\* Where a program stands: outside the driver, or in terminal_read spinning,
\* about to clear enter_flag, copying, about to clear the line.
Points == {"run", "wait", "claim", "copy", "clear"}

ASSUME NTAssumption   == NT \in Nat /\ NT >= 1
ASSUME SizeAssumption == KB_BUF_SIZE \in Nat /\ ReadSizes \subseteq Nat
ASSUME UserAssumption == KeysAt \subseteq Points /\ Patient \in BOOLEAN

VARIABLES
  curr_terminal,    \* terminal on the display
  curr_scheduled,   \* terminal whose program owns the time slice
  switch_flag,      \* terminal asked for with Alt-Fn, 0 for none
  keyboard_buffer,  \* the active line: keyboard_buffer[0..keyboard_buffer_index-1]
  saved,            \* keyboard_buffer1..3, as far as kb1_pos..kb3_pos
  enter_flag,
  pc,               \* where each terminal's program stands
  nbytes,           \* the size each reader asked for
  buf,              \* what each reader has copied so far
  enter_at          \* history: the terminal on display at the pending Enter

kbVars   == <<keyboard_buffer, saved, enter_flag, enter_at>>
readVars == <<pc, nbytes, buf>>
schedVars == <<curr_terminal, curr_scheduled, switch_flag>>
vars == <<schedVars, kbVars, readVars>>

Shown == IF switch_flag # 0 THEN switch_flag ELSE curr_terminal

Init ==
  /\ curr_terminal = 1
  /\ curr_scheduled = 1
  /\ switch_flag = 0
  /\ keyboard_buffer = <<>>
  /\ saved = [t \in Terminals |-> <<>>]
  /\ enter_flag = 0
  /\ pc = [t \in Terminals |-> "run"]
  /\ nbytes = [t \in Terminals |-> 0]
  /\ buf = [t \in Terminals |-> <<>>]
  /\ enter_at = 0

-----------------------------------------------------------------------------
(* keyboard_handler *)

\* Programs and terminal_read run with interrupts on; a key that arrives in a
\* critical section waits until its end.
MayPress ==
  /\ pc[curr_terminal] \in KeysAt
  /\ Patient => switch_flag = 0

TypeUnbounded(c) ==                                         \* mutant
  /\ MayPress
  /\ Len(keyboard_buffer) < KB_BUF_SIZE + 1
  /\ keyboard_buffer' = Append(keyboard_buffer, c)
  /\ UNCHANGED <<schedVars, saved, enter_flag, enter_at, readVars>>
\* A printing key; with the buffer full it is ignored.
TypeChar(c) ==
  /\ MayPress
  /\ Len(keyboard_buffer) < KB_BUF_SIZE
  /\ keyboard_buffer' = Append(keyboard_buffer, c)
  /\ UNCHANGED <<schedVars, saved, enter_flag, enter_at, readVars>>

\* Ignored when the cursor stands at the top left corner.
Backspace ==
  /\ MayPress
  /\ Len(keyboard_buffer) > 0
  /\ keyboard_buffer' = SubSeq(keyboard_buffer, 1, Len(keyboard_buffer) - 1)
  /\ UNCHANGED <<schedVars, saved, enter_flag, enter_at, readVars>>

PressEnter ==
  /\ MayPress
  /\ enter_flag' = 1
  /\ enter_at' = curr_terminal
  /\ UNCHANGED <<schedVars, keyboard_buffer, saved, readVars>>

\* Alt-Fn puts the active line away under the terminal on the display and
\* brings the line of terminal t, at once; the display follows at the next tick.
PressAltFn(t) ==
  /\ MayPress
  /\ Patient => enter_flag = 0
  /\ t # curr_terminal
  /\ saved' = [saved EXCEPT ![curr_terminal] = keyboard_buffer]
  /\ keyboard_buffer' = saved[t]
  /\ switch_flag' = t
  /\ UNCHANGED <<curr_terminal, curr_scheduled, enter_flag, enter_at, readVars>>

-----------------------------------------------------------------------------
(* The timer: pit_handler, as far as this driver can see it *)

Tick ==
  /\ curr_terminal' = Shown
  /\ switch_flag' = 0
  /\ curr_scheduled' = (curr_scheduled % NT) + 1
  /\ UNCHANGED <<kbVars, readVars>>

-----------------------------------------------------------------------------
(* terminal_read and terminal_write of the program that owns the slice *)

At(point) == pc[curr_scheduled] = point
Goto(point) == pc' = [pc EXCEPT ![curr_scheduled] = point]

CallReadForgetsEnter(n) ==                                  \* mutant
  /\ At("run")
  /\ Goto("wait")
  /\ nbytes' = [nbytes EXCEPT ![curr_scheduled] = n]
  /\ buf' = [buf EXCEPT ![curr_scheduled] = <<>>]
  /\ enter_flag' = 0
  /\ UNCHANGED <<schedVars, keyboard_buffer, saved, enter_at>>
CallRead(n) ==
  /\ At("run")
  /\ Goto("wait")
  /\ nbytes' = [nbytes EXCEPT ![curr_scheduled] = n]
  /\ buf' = [buf EXCEPT ![curr_scheduled] = <<>>]
  /\ UNCHANGED <<schedVars, kbVars>>

\* The polling loop ends.
SeeEnter ==
  /\ At("wait")
  /\ enter_flag = 1 /\ curr_terminal = curr_scheduled
  /\ Goto("claim")
  /\ UNCHANGED <<schedVars, kbVars, nbytes, buf>>

ClaimEnter ==
  /\ At("claim")
  /\ enter_flag' = 0
  /\ enter_at' = 0
  /\ Goto("copy")
  /\ UNCHANGED <<schedVars, keyboard_buffer, saved, nbytes, buf>>

\* The bound of the copying loop, read again for every character.
ToCopy == IF nbytes[curr_scheduled] < Len(keyboard_buffer)
          THEN nbytes[curr_scheduled] ELSE Len(keyboard_buffer)
Index == Len(buf[curr_scheduled])

CopyChar ==
  /\ At("copy")
  /\ Index < ToCopy
  /\ buf' = [buf EXCEPT ![curr_scheduled] = Append(@, keyboard_buffer[Index + 1])]
  /\ UNCHANGED <<schedVars, kbVars, pc, nbytes>>

CopyDone ==
  /\ At("copy")
  /\ Index >= ToCopy
  /\ Goto("clear")
  /\ UNCHANGED <<schedVars, kbVars, nbytes, buf>>

\* The line is emptied, whatever was typed since the copy, and read returns.
ClearLine ==
  /\ At("clear")
  /\ keyboard_buffer' = <<>>
  /\ Goto("run")
  /\ UNCHANGED <<schedVars, saved, enter_flag, enter_at, nbytes, buf>>

ReadStep == SeeEnter \/ ClaimEnter \/ CopyChar \/ CopyDone \/ ClearLine

WriteClearsActive ==                                        \* mutant
  /\ At("run")
  /\ keyboard_buffer' = <<>>
  /\ UNCHANGED <<schedVars, saved, enter_flag, enter_at, readVars>>
\* terminal_write drops what is saved for its terminal; the version that is
\* commented out in the code emptied the active line.
TerminalWrite ==
  /\ At("run")
  /\ saved' = [saved EXCEPT ![curr_scheduled] = <<>>]
  /\ UNCHANGED <<schedVars, keyboard_buffer, enter_flag, enter_at, readVars>>

-----------------------------------------------------------------------------
Next ==
  \/ \E c \in Chars : TypeChar(c)
  \/ Backspace
  \/ PressEnter
  \/ \E t \in Terminals : PressAltFn(t)
  \/ Tick
  \/ \E n \in ReadSizes : CallRead(n)
  \/ ReadStep
  \/ TerminalWrite

Spec == Init /\ [][Next]_vars

\* A time slice is long enough for at least one step of the program it runs.
FairSpec == Spec /\ WF_vars(Tick) /\ SF_vars(ReadStep)

-----------------------------------------------------------------------------
(* Properties *)

\* Every variable keeps its range; the lines fit in their buffers.
TypeOK ==
  /\ curr_terminal \in Terminals
  /\ curr_scheduled \in Terminals
  /\ switch_flag \in 0 .. NT
  /\ keyboard_buffer \in Seq(Chars)
  /\ saved \in [Terminals -> Seq(Chars)]
  /\ enter_flag \in {0, 1}
  /\ pc \in [Terminals -> Points]
  /\ nbytes \in [Terminals -> ReadSizes \cup {0}]
  /\ buf \in [Terminals -> Seq(Chars)]
  /\ enter_at \in 0 .. NT
  /\ Len(keyboard_buffer) <= KB_BUF_SIZE
  /\ \A t \in Terminals : Len(saved[t]) <= KB_BUF_SIZE /\ Len(buf[t]) <= KB_BUF_SIZE

Copying(t) == pc[t] \in {"copy", "clear"}

\* The line of a terminal is the active buffer if it was asked for last, the
\* saved one otherwise; the Enter that is being answered is still pending; a
\* reader gets its line at once, when it is complete.
Line     == [t \in Terminals |-> IF t = Shown THEN keyboard_buffer ELSE saved[t]]
Entered  == enter_flag = 1 \/ \E t \in Terminals : Copying(t)
Asked    == [t \in Terminals |-> IF pc[t] = "run" THEN -1 ELSE nbytes[t]]
Returned == [t \in Terminals |-> IF Copying(t) THEN <<>> ELSE buf[t]]

LD == INSTANCE LineDiscipline WITH
  focus <- Shown, line <- Line, entered <- Entered, asked <- Asked, got <- Returned

\* The driver implements one line discipline per terminal.
ImplementsLineDiscipline == LD!Spec

\* A program that waits on the terminal with the keyboard gets its line once
\* Enter is pressed, unless the user leaves that terminal first.
EnterAnswered ==
  \A t \in Terminals :
    enter_flag = 1 /\ pc[t] = "wait" /\ Shown = t ~> pc[t] = "run" \/ Shown # t

\* buglog.txt:110-115 "it registers for the process that is currently running,
\* not for the current terminal" (as the bug that was fixed).  An Enter is
\* answered by the terminal it was pressed on.
EnterStaysOnItsTerminal == [][ClaimEnter => enter_at = curr_scheduled]_vars

=============================================================================
