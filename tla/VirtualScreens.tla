--------------------------- MODULE VirtualScreens ---------------------------
(***************************************************************************)
(* What the screen code promises (lib.c): every terminal has a text screen *)
(* and a cursor of its own.  A program's output goes to the screen of its  *)
(* terminal, the keyboard's echo to the screen that is shown, and showing  *)
(* another terminal changes no screen.                                     *)
(***************************************************************************)
EXTENDS Integers

CONSTANTS
  NT,        \* terminals
  NUM_ROWS,  \* size of a screen
  NUM_COLS,
  Chars,     \* printing characters
  Blank,
  Newline

Terminals == 1 .. NT
Cells     == 0 .. NUM_ROWS * NUM_COLS - 1   \* row by row
Empty     == [i \in Cells |-> Blank]
Nothing   == "nothing"

VARIABLES
  shown,  \* the terminal on display
  text,   \* the text of each terminal
  pos,    \* the cell of each terminal's cursor
  due     \* the character a program is printing, or Nothing

vars == <<shown, text, pos, due>>

Init ==
  /\ shown = 1
  /\ text = [t \in Terminals |-> Empty]
  /\ pos = [t \in Terminals |-> 0]
  /\ due = [t \in Terminals |-> Nothing]

\* The last row moves up when the cursor leaves it.
Up(f) == [i \in Cells |-> IF i + NUM_COLS \in Cells THEN f[i + NUM_COLS] ELSE Blank]

\* The character c on terminal t's screen.
Put(t, c) ==
  LET f == IF c = Newline THEN text[t] ELSE [text[t] EXCEPT ![pos[t]] = c]
      p == IF c = Newline THEN (pos[t] \div NUM_COLS + 1) * NUM_COLS ELSE pos[t] + 1
  IN  /\ text' = [text EXCEPT ![t] = IF p \in Cells THEN f ELSE Up(f)]
      /\ pos' = [pos EXCEPT ![t] = IF p \in Cells THEN p ELSE p - NUM_COLS]

\* Output in one piece, and output that other terminals may interrupt.
Write(t, c) == due[t] = Nothing /\ Put(t, c) /\ UNCHANGED <<shown, due>>
Begin(t, c) ==
  /\ due[t] = Nothing
  /\ due' = [due EXCEPT ![t] = c]
  /\ UNCHANGED <<shown, text, pos>>
End(t) ==
  /\ due[t] # Nothing
  /\ Put(t, due[t])
  /\ due' = [due EXCEPT ![t] = Nothing]
  /\ UNCHANGED shown

\* A program that called vidmap writes a cell of its screen.
Draw(t, i, c) ==
  /\ text' = [text EXCEPT ![t][i] = c]
  /\ UNCHANGED <<shown, pos, due>>

\* The keyboard: echo, backspace, and Ctrl-L (or a shell that starts again).
Echo(c) == Put(shown, c) /\ UNCHANGED <<shown, due>>
Erase ==
  /\ pos[shown] > 0
  /\ text' = [text EXCEPT ![shown][pos[shown] - 1] = Blank]
  /\ pos' = [pos EXCEPT ![shown] = @ - 1]
  /\ UNCHANGED <<shown, due>>
Clear ==
  /\ text' = [text EXCEPT ![shown] = Empty]
  /\ pos' = [pos EXCEPT ![shown] = 0]
  /\ UNCHANGED <<shown, due>>

Show(t) == shown' = t /\ UNCHANGED <<text, pos, due>>

Next ==
  \/ \E t \in Terminals, c \in Chars \cup {Newline} : Write(t, c) \/ Begin(t, c)
  \/ \E t \in Terminals : End(t) \/ Show(t)
  \/ \E t \in Terminals, i \in Cells, c \in Chars : Draw(t, i, c)
  \/ \E c \in Chars : Echo(c)
  \/ Erase
  \/ Clear

Spec == Init /\ [][Next]_vars

=============================================================================
