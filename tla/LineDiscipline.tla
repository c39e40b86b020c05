--------------------------- MODULE LineDiscipline ---------------------------
(***************************************************************************)
(* What the keyboard and terminal_read promise together (keyboard.c): each *)
(* terminal has a line of its own, edited by the keys typed while that     *)
(* terminal has the keyboard, and one Enter hands the line of the terminal *)
(* that has the keyboard to the program that reads there, once.            *)
(***************************************************************************)
EXTENDS Integers, Sequences

CONSTANTS
  NT,           \* terminals
  KB_BUF_SIZE,  \* longest line
  Chars,        \* characters
  ReadSizes     \* the nbytes that programs pass to read

Terminals == 1 .. NT
Idle      == -1        \* no read in progress

VARIABLES
  focus,    \* the terminal that has the keyboard
  line,     \* the line typed at each terminal and not read yet
  entered,  \* Enter was pressed and not answered
  asked,    \* nbytes of the read in progress at each terminal, or Idle
  got       \* what the last read of each terminal returned

vars == <<focus, line, entered, asked, got>>

Prefix(s, n) == SubSeq(s, 1, IF n < Len(s) THEN n ELSE Len(s))

Init ==
  /\ focus = 1
  /\ line = [t \in Terminals |-> <<>>]
  /\ entered = FALSE
  /\ asked = [t \in Terminals |-> Idle]
  /\ got = [t \in Terminals |-> <<>>]

Type(c) ==
  /\ Len(line[focus]) < KB_BUF_SIZE
  /\ line' = [line EXCEPT ![focus] = Append(@, c)]
  /\ UNCHANGED <<focus, entered, asked, got>>

Erase ==
  /\ line[focus] # <<>>
  /\ line' = [line EXCEPT ![focus] = SubSeq(@, 1, Len(@) - 1)]
  /\ UNCHANGED <<focus, entered, asked, got>>

Enter ==
  /\ entered' = TRUE
  /\ UNCHANGED <<focus, line, asked, got>>

Focus(t) ==
  /\ focus' = t
  /\ UNCHANGED <<line, entered, asked, got>>

StartRead(t, n) ==
  /\ asked[t] = Idle
  /\ asked' = [asked EXCEPT ![t] = n]
  /\ got' = [got EXCEPT ![t] = <<>>]
  /\ UNCHANGED <<focus, line, entered>>

\* The answer takes the line, even the part that did not fit in nbytes.
Deliver(t) ==
  /\ t = focus
  /\ entered
  /\ asked[t] # Idle
  /\ got' = [got EXCEPT ![t] = Prefix(line[t], asked[t])]
  /\ line' = [line EXCEPT ![t] = <<>>]
  /\ asked' = [asked EXCEPT ![t] = Idle]
  /\ entered' = FALSE
  /\ UNCHANGED focus

\* A program that writes to a terminal without the keyboard discards its line.
Discard(t) ==
  /\ t # focus
  /\ line' = [line EXCEPT ![t] = <<>>]
  /\ UNCHANGED <<focus, entered, asked, got>>

Next ==
  \/ \E c \in Chars : Type(c)
  \/ Erase
  \/ Enter
  \/ \E t \in Terminals :
       \/ Focus(t)
       \/ \E n \in ReadSizes : StartRead(t, n)
       \/ Deliver(t)
       \/ Discard(t)

Spec == Init /\ [][Next]_vars

=============================================================================
