---------------------------- MODULE ScreenProofs ----------------------------
(***************************************************************************)
(* Theorems about Screen for screens of any size and any number of         *)
(* terminals, when the display changes and keys arrive between characters: *)
(* no cursor leaves the screen, the blinking cursor is where the next      *)
(* character of the displayed terminal goes, and the pages implement the   *)
(* private screens of VirtualScreens.                                      *)
(***************************************************************************)
EXTENDS Screen, TLAPS

USE SizeAssumption, TextAssumption

-----------------------------------------------------------------------------
(* putc, step by step, on one screen *)

Rows  == 0 .. NUM_ROWS - 1
Cols  == 0 .. NUM_COLS - 1
Texts == [Cells -> Chars \cup {Blank}]
Whole == [text : Texts, x : Cols, y : Rows]
Low   == [text : Texts, x : Cols, y : 0 .. NUM_ROWS]
Printed == Chars \cup {Blank, Newline}

LEMMA Distribute ==
  ASSUME NEW a \in Int, NEW b \in Int, NEW c \in Int
  PROVE  (a + b + 1) * c = c * a + c * b + c
OBVIOUS

\* A place on the screen has a cell.
LEMMA PositionCell ==
  ASSUME NEW x \in Cols, NEW y \in Rows
  PROVE  Position(x, y) \in Cells
<1> DEFINE k == NUM_ROWS - 1 - y
           m == NUM_COLS * y
           n == NUM_COLS * k
           size == NUM_ROWS * NUM_COLS
<1>1. /\ y \in Nat /\ k \in Nat /\ NUM_COLS \in Nat /\ NUM_ROWS \in Nat
      /\ x \in Nat /\ x < NUM_COLS
  BY DEF Rows, Cols
<1>2. m \in Nat /\ n \in Nat
  BY <1>1
<1>3. NUM_ROWS = y + k + 1
  BY <1>1
<1> HIDE DEF k
<1>4. (y + k + 1) * NUM_COLS = m + n + NUM_COLS
  BY <1>1, Distribute
<1>5. size = m + n + NUM_COLS
  BY <1>3, <1>4
<1>6. Cells = 0 .. size - 1 /\ Position(x, y) = m + x
  BY Zenon DEF Cells, Position
<1> HIDE DEF m, n, size
<1>7. m + x \in 0 .. size - 1
  BY <1>1, <1>2, <1>5
<1> QED
  BY <1>6, <1>7

\* Cell 0 exists.
LEMMA FirstCell == 0 \in Cells /\ 0 \in Rows /\ 0 \in Cols
<1>1. 0 \in Rows /\ 0 \in Cols
  BY DEF Rows, Cols
<1>2. Position(0, 0) = 0
  BY DEF Position
<1> QED
  BY <1>1, <1>2, PositionCell

LEMMA StoredTyped ==
  ASSUME NEW s \in Whole, NEW ch \in Printed
  PROVE  Stored(s, ch) \in Low /\ (ch # Newline => Stored(s, ch) \in Whole)
<1>1. s.text \in Texts /\ s.x \in Cols /\ s.y \in Rows
  BY DEF Whole
<1>2. CASE ch = Newline
  <2>1. s.y + 1 \in 0 .. NUM_ROWS /\ 0 \in Cols
    BY <1>1, FirstCell DEF Rows
  <2> QED
    BY <1>2, <2>1 DEF Stored, Low, Whole
<1>3. CASE ch # Newline
  <2>1. ch \in Chars \cup {Blank}
    BY <1>3 DEF Printed
  <2>2. [i \in Cells |-> IF i = NUM_COLS * s.y + s.x THEN ch ELSE s.text[i]] \in Texts
    BY <1>1, <2>1 DEF Texts
  <2>3. Stored(s, ch) \in Whole
    BY <1>3, <2>2 DEF Stored, Whole
  <2> QED
    BY <1>3, <2>3 DEF Whole, Low, Rows
<1> QED
  BY <1>2, <1>3

LEMMA AdvancedTyped ==
  ASSUME NEW s \in Low, NEW ch \in Printed, ch # Newline => s \in Whole
  PROVE  Advanced(s, ch) \in Low
<1>1. CASE ch = Newline
  BY <1>1 DEF Advanced
<1>2. CASE ch # Newline
  <2>1. s \in Whole /\ s.x \in Cols /\ s.y \in Rows
    BY <1>2 DEF Whole
  <2>2. (s.x + 1) % NUM_COLS \in Cols
    BY <2>1 DEF Cols
  <2>3. (s.x + 1) \div NUM_COLS \in {0, 1}
    BY <2>1, Z3 DEF Cols
  <2>4. s.y + (s.x + 1) \div NUM_COLS \in 0 .. NUM_ROWS
    BY <2>1, <2>3 DEF Rows
  <2>5. Advanced(s, ch) = [s EXCEPT !.x = (s.x + 1) % NUM_COLS,
                                    !.y = s.y + (s.x + 1) \div NUM_COLS]
    BY <1>2, <2>1 DEF Advanced, Whole
  <2> QED
    BY <2>1, <2>2, <2>4, <2>5 DEF Low, Whole
<1> QED
  BY <1>1, <1>2

LEMMA FinishedTyped ==
  ASSUME NEW s \in Low
  PROVE  Finished(s) \in Whole
<1>1. ScrollUp(s.text) \in Texts
  <2>1. s.text \in Texts
    BY DEF Low
  <2> QED
    BY <2>1 DEF ScrollUp, Texts
<1>2. CASE s.y >= NUM_ROWS
  <2>1. s.y - 1 \in Rows /\ 0 \in Cols
    BY <1>2, FirstCell DEF Low, Rows
  <2> QED
    BY <1>1, <1>2, <2>1 DEF Finished, Whole
<1>3. CASE ~(s.y >= NUM_ROWS)
  BY <1>3 DEF Finished, Whole, Low, Rows
<1> QED
  BY <1>2, <1>3

\* A character printed on a screen gives a screen.
LEMMA PutcTyped ==
  ASSUME NEW s \in Whole, NEW ch \in Printed
  PROVE  Putc(s, ch) \in Whole
<1>1. Stored(s, ch) \in Low /\ (ch # Newline => Stored(s, ch) \in Whole)
  BY StoredTyped
<1>2. Advanced(Stored(s, ch), ch) \in Low
  BY <1>1, AdvancedTyped
<1> QED
  BY <1>2, FinishedTyped DEF Putc

LEMMA MovedTyped ==
  ASSUME NEW s \in Whole, NEW x \in Int, NEW y \in Int
  PROVE  Moved(s, x, y) \in Whole
BY DEF Moved, Whole, Rows, Cols

-----------------------------------------------------------------------------
(* The invariant *)

\* The display changes, and keys arrive, only between two characters.
BetweenCharacters == SwitchAt \subseteq {"run"} /\ EchoAt \subseteq {"run"}

\* The cursor of a terminal is on the screen until its program has stored a
\* newline or moved on from the last column.
MustBeOnScreen(t) == \/ out[t].at \in {"run", "store"}
                     \/ out[t].at = "advance" /\ out[t].c # Newline
OnScreen == \A t \in Terminals : MustBeOnScreen(t) => screen_y[t] \in Rows

\* A program in the middle of a putc2 is the one of the displayed terminal.
EchoesOnDisplay == \A t \in Terminals :
  out[t].at # "run" /\ out[t].by = "putc2" => t = curr_terminal

Inv == TypeOK /\ OnScreen /\ EchoesOnDisplay /\ CursorFollows

-----------------------------------------------------------------------------
(* Reading and setting one screen *)

LEMMA PutawayTyped ==
  ASSUME NEW t \in Terminals, NEW shown \in Terminals
  PROVE  Target(t, shown) \in Pages
BY DEF Target, Pages

LEMMA ScreenOnTyped ==
  ASSUME Inv, NEW p \in Pages, NEW t \in Terminals
  PROVE  /\ ScreenOn(p, t) \in Low
         /\ screen_y[t] \in Rows => ScreenOn(p, t) \in Whole
BY DEF Inv, TypeOK, ScreenOn, Low, Whole, Texts, Rows, Cols

LEMMA SetScreenTyped ==
  ASSUME Inv, NEW p \in Pages, NEW t \in Terminals, NEW s \in Low,
         SetScreen(p, t, s)
  PROVE  /\ page' \in [Pages -> Texts]
         /\ screen_x' \in [Terminals -> Cols]
         /\ screen_y' \in [Terminals -> 0 .. NUM_ROWS]
         /\ screen_x'[t] = s.x /\ screen_y'[t] = s.y
         /\ \A u \in Terminals : u # t =>
              screen_x'[u] = screen_x[u] /\ screen_y'[u] = screen_y[u]
<1>1. s.text \in Texts /\ s.x \in Cols /\ s.y \in 0 .. NUM_ROWS
  BY DEF Low
<1>2. /\ page \in [Pages -> Texts]
      /\ screen_x \in [Terminals -> Cols]
      /\ screen_y \in [Terminals -> 0 .. NUM_ROWS]
  BY DEF Inv, TypeOK, Texts, Cols
<1> QED
  BY <1>1, <1>2 DEF SetScreen

LEMMA Rebuilt ==
  ASSUME page' \in [Pages -> Texts], screen_x' \in [Terminals -> Cols],
         screen_y' \in [Terminals -> 0 .. NUM_ROWS],
         curr_terminal' \in Terminals, curr_scheduled' \in Terminals,
         switch_flag' \in 0 .. NT, total_terminal' \in 0 .. NT + 1,
         video_mem' \in Pages, cursor' \in Cells,
         out' \in [Terminals -> [at : Points, by : {"putc", "putc2"}, c : Printed]],
         put' \in 0 .. MaxOut,
         OnScreen'
  PROVE  TypeOK'
<1>1. ASSUME NEW t \in Terminals, screen_y'[t] = NUM_ROWS
      PROVE  out'[t].at # "run"
  <2>1. screen_y'[t] \notin Rows
    BY <1>1 DEF Rows
  <2> QED
    BY <2>1 DEF OnScreen, MustBeOnScreen
<1> QED
  BY <1>1 DEF TypeOK, Texts, Cols, Printed

\* A screen set on the display.
LEMMA DisplaySet ==
  ASSUME Inv, NEW s \in Whole, SetDisplay(s), UNCHANGED <<schedVars, out>>,
         put' \in 0 .. MaxOut
  PROVE  Inv'
<1> USE DEF schedVars, MustBeOnScreen
<1>1. curr_terminal \in Terminals /\ VIDEO \in Pages /\ s \in Low
      /\ s.x \in Cols /\ s.y \in Rows
  BY DEF Inv, TypeOK, Pages, Whole, Low, Rows
<1>2. /\ page' \in [Pages -> Texts]
      /\ screen_x' \in [Terminals -> Cols]
      /\ screen_y' \in [Terminals -> 0 .. NUM_ROWS]
      /\ screen_x'[curr_terminal] = s.x /\ screen_y'[curr_terminal] = s.y
      /\ \A u \in Terminals : u # curr_terminal =>
           screen_x'[u] = screen_x[u] /\ screen_y'[u] = screen_y[u]
  BY <1>1, SetScreenTyped DEF SetDisplay
<1>3. cursor' = Position(s.x, s.y) /\ cursor' \in Cells
  BY <1>1, PositionCell DEF SetDisplay
<1>4. OnScreen'
  BY <1>1, <1>2 DEF Inv, OnScreen
<1>5. TypeOK'
  BY <1>2, <1>3, <1>4, Rebuilt DEF Inv, TypeOK, Printed
<1>6. EchoesOnDisplay'
  BY DEF Inv, EchoesOnDisplay
<1>7. CursorFollows'
  BY <1>2, <1>3 DEF CursorFollows
<1> QED
  BY <1>4, <1>5, <1>6, <1>7 DEF Inv

-----------------------------------------------------------------------------
(* Programs *)

LEMMA MorePut ==
  ASSUME Inv, MayPut, OneMore
  PROVE  put' \in 0 .. MaxOut
BY DEF Inv, TypeOK, MayPut, OneMore

LEMMA WriteKeeps ==
  ASSUME Inv, NEW ch \in Chars \cup {Newline}, Write(ch)
  PROVE  Inv'
<1> USE DEF schedVars, MustBeOnScreen
<1>1. put' \in 0 .. MaxOut /\ ch \in Printed
  BY MorePut DEF Write, Printed
<1>2. curr_terminal \in Terminals /\ curr_scheduled \in Terminals
      /\ VIDEO \in Pages /\ video_mem \in Pages
  BY DEF Inv, TypeOK, Pages
<1>3. screen_y[curr_scheduled] \in Rows
  BY <1>2 DEF Inv, OnScreen, Write, Running
<1>4. CASE /\ curr_scheduled = curr_terminal
           /\ SetDisplay(Putc(ScreenOn(VIDEO, curr_terminal), ch))
  <2>1. Putc(ScreenOn(VIDEO, curr_terminal), ch) \in Whole
    BY <1>1, <1>2, <1>3, <1>4, ScreenOnTyped, PutcTyped
  <2> QED
    BY <1>1, <1>4, <2>1, DisplaySet DEF Write
<1>5. CASE /\ curr_scheduled # curr_terminal
           /\ SetScreen(video_mem, curr_scheduled,
                        Putc(ScreenOn(video_mem, curr_scheduled), ch))
           /\ UNCHANGED cursor
  <2> DEFINE s == Putc(ScreenOn(video_mem, curr_scheduled), ch)
  <2>1. s \in Whole
    BY <1>1, <1>2, <1>3, ScreenOnTyped, PutcTyped
  <2>2. s \in Low /\ s.y \in Rows
    BY <2>1 DEF Whole, Low, Rows
  <2>3. SetScreen(video_mem, curr_scheduled, s)
    BY <1>5
  <2> HIDE DEF s
  <2>4. /\ page' \in [Pages -> Texts]
        /\ screen_x' \in [Terminals -> Cols]
        /\ screen_y' \in [Terminals -> 0 .. NUM_ROWS]
        /\ screen_y'[curr_scheduled] = s.y
        /\ \A u \in Terminals : u # curr_scheduled =>
             screen_x'[u] = screen_x[u] /\ screen_y'[u] = screen_y[u]
    BY <1>2, <2>2, <2>3, SetScreenTyped
  <2>5. UNCHANGED <<schedVars, out, cursor>>
    BY <1>5 DEF Write
  <2>6. OnScreen'
    BY <2>2, <2>4, <2>5 DEF Inv, OnScreen
  <2>7. TypeOK'
    BY <1>1, <2>4, <2>5, <2>6, Rebuilt DEF Inv, TypeOK, Printed
  <2>8. EchoesOnDisplay' /\ CursorFollows'
    BY <1>2, <1>5, <2>4, <2>5 DEF Inv, EchoesOnDisplay, CursorFollows
  <2> QED
    BY <2>6, <2>7, <2>8 DEF Inv
<1> QED
  BY <1>4, <1>5 DEF Write

LEMMA BeginKeeps ==
  ASSUME Inv, NEW by \in {"putc", "putc2"}, NEW ch \in Printed, Begin(by, ch),
         by = "putc2" => curr_terminal = curr_scheduled
  PROVE  Inv'
<1> USE DEF schedVars, screenVars, MustBeOnScreen
<1>1. put' \in 0 .. MaxOut
  BY MorePut DEF Begin
<1>2. curr_scheduled \in Terminals
      /\ out \in [Terminals -> [at : Points, by : {"putc", "putc2"}, c : Printed]]
  BY DEF Inv, TypeOK, Printed
<1>3. out' = [out EXCEPT ![curr_scheduled] = [at |-> "store", by |-> by, c |-> ch]]
      /\ UNCHANGED <<schedVars, screenVars>> /\ out[curr_scheduled].at = "run"
  BY DEF Begin, Running
<1>4. out' \in [Terminals -> [at : Points, by : {"putc", "putc2"}, c : Printed]]
      /\ out'[curr_scheduled] = [at |-> "store", by |-> by, c |-> ch]
      /\ \A u \in Terminals : u # curr_scheduled => out'[u] = out[u]
  BY <1>2, <1>3 DEF Points
<1>5. OnScreen'
  BY <1>2, <1>3, <1>4 DEF Inv, OnScreen
<1>6. TypeOK'
  BY <1>1, <1>3, <1>4, <1>5, Rebuilt DEF Inv, TypeOK, Texts, Cols
<1>7. EchoesOnDisplay'
  BY <1>2, <1>3, <1>4 DEF Inv, EchoesOnDisplay
<1>8. CursorFollows'
  BY <1>2, <1>3, <1>4 DEF Inv, TypeOK, CursorFollows
<1> QED
  BY <1>5, <1>6, <1>7, <1>8 DEF Inv

\* The three steps of putc and putc2 set a screen of the program's own terminal.
LEMMA OwnScreen ==
  ASSUME Inv, out[curr_scheduled].at # "run"
  PROVE  /\ ToPage \in Pages
         /\ ToCursor = curr_scheduled
         /\ curr_scheduled \in Terminals
         /\ out[curr_scheduled].c \in Printed
BY DEF Inv, TypeOK, EchoesOnDisplay, ToPage, ToCursor, Pages, Printed

\* A step of putc that leaves the cursor where its next point allows it.
LEMMA StepKeeps ==
  ASSUME Inv, NEW from \in Points \ {"run"}, NEW to \in Points, NEW s \in Low,
         Step(from, to, s),
         to = "run" => s \in Whole,
         to = "store" => s \in Whole,
         to = "advance" /\ out[curr_scheduled].c # Newline => s \in Whole,
         cursor' \in Cells,
         to = "run" /\ curr_scheduled = curr_terminal => cursor' = Position(s.x, s.y),
         curr_scheduled # curr_terminal => cursor' = cursor
  PROVE  Inv'
<1> USE DEF schedVars, MustBeOnScreen
<1>1. /\ out[curr_scheduled].at = from /\ out[curr_scheduled].at # "run"
      /\ UNCHANGED <<schedVars, put>>
      /\ SetScreen(ToPage, ToCursor, s)
      /\ out' = [out EXCEPT ![curr_scheduled] = IF to = "run" THEN Quiet ELSE [@ EXCEPT !.at = to]]
  BY DEF Step, Running
<1>2. ToPage \in Pages /\ ToCursor = curr_scheduled /\ curr_scheduled \in Terminals
  BY <1>1, OwnScreen
<1>3. SetScreen(ToPage, curr_scheduled, s)
  BY <1>1, <1>2
<1>4. /\ page' \in [Pages -> Texts]
      /\ screen_x' \in [Terminals -> Cols]
      /\ screen_y' \in [Terminals -> 0 .. NUM_ROWS]
      /\ screen_x'[curr_scheduled] = s.x /\ screen_y'[curr_scheduled] = s.y
      /\ \A u \in Terminals : u # curr_scheduled =>
           screen_x'[u] = screen_x[u] /\ screen_y'[u] = screen_y[u]
  BY <1>2, <1>3, SetScreenTyped
<1>5. /\ out \in [Terminals -> [at : Points, by : {"putc", "putc2"}, c : Printed]]
      /\ Quiet \in [at : Points, by : {"putc", "putc2"}, c : Printed]
      /\ Quiet.at = "run"
  BY DEF Inv, TypeOK, Printed, Quiet, Points
<1>6. /\ out' \in [Terminals -> [at : Points, by : {"putc", "putc2"}, c : Printed]]
      /\ out'[curr_scheduled].at = to
      /\ to # "run" => /\ out'[curr_scheduled].by = out[curr_scheduled].by
                       /\ out'[curr_scheduled].c = out[curr_scheduled].c
      /\ \A u \in Terminals : u # curr_scheduled => out'[u] = out[u]
  <2>1. CASE to = "run"
    BY <1>1, <1>2, <1>5, <2>1
  <2>2. CASE to # "run"
    <3>1. out' = [out EXCEPT ![curr_scheduled] = [out[curr_scheduled] EXCEPT !.at = to]]
      BY <1>1, <2>2
    <3> QED
      BY <1>2, <1>5, <2>2, <3>1
  <2> QED
    BY <2>1, <2>2
<1>7. s \in Whole => s.y \in Rows
  BY DEF Whole
<1>8. OnScreen'
  <2> SUFFICES ASSUME NEW t \in Terminals,
                      MustBeOnScreen(t)'
               PROVE  screen_y'[t] \in Rows
    BY DEF OnScreen
  <2>1. CASE t = curr_scheduled
    BY <1>4, <1>6, <1>7, <2>1
  <2>2. CASE t # curr_scheduled
    BY <1>4, <1>6, <2>2 DEF Inv, OnScreen
  <2> QED
    BY <2>1, <2>2
<1>9. TypeOK'
  BY <1>1, <1>4, <1>6, <1>8, Rebuilt DEF Inv, TypeOK
<1>10. EchoesOnDisplay'
  BY <1>1, <1>2, <1>6 DEF Inv, EchoesOnDisplay
<1>11. CursorFollows'
  BY <1>1, <1>2, <1>4, <1>6 DEF Inv, TypeOK, CursorFollows
<1> QED
  BY <1>8, <1>9, <1>10, <1>11 DEF Inv

LEMMA CursorTyped == Inv => cursor \in Cells
BY DEF Inv, TypeOK

LEMMA StoreKeeps == ASSUME Inv, Store PROVE Inv'
<1> DEFINE s == ScreenOn(ToPage, ToCursor)
           ch == out[curr_scheduled].c
<1>1. out[curr_scheduled].at = "store" /\ cursor' = cursor
      /\ Step("store", "advance", Stored(s, ch))
  BY DEF Store, Step, Running
<1>2. ToPage \in Pages /\ ToCursor = curr_scheduled
      /\ curr_scheduled \in Terminals /\ ch \in Printed
  BY <1>1, OwnScreen
<1>3. s \in Whole
  BY <1>1, <1>2, ScreenOnTyped DEF Inv, OnScreen, MustBeOnScreen
<1> HIDE DEF s
<1>4. Stored(s, ch) \in Low /\ (ch # Newline => Stored(s, ch) \in Whole)
  BY <1>2, <1>3, StoredTyped
<1> QED
  BY <1>1, <1>4, StepKeeps, CursorTyped DEF Points

LEMMA AdvanceKeeps == ASSUME Inv, Advance PROVE Inv'
<1> DEFINE s == ScreenOn(ToPage, ToCursor)
           ch == out[curr_scheduled].c
<1>1. out[curr_scheduled].at = "advance" /\ cursor' = cursor
      /\ Step("advance", "finish", Advanced(s, ch))
  BY DEF Advance, Step, Running
<1>2. ToPage \in Pages /\ ToCursor = curr_scheduled
      /\ curr_scheduled \in Terminals /\ ch \in Printed
  BY <1>1, OwnScreen
<1>3. s \in Low /\ (ch # Newline => s \in Whole)
  BY <1>1, <1>2, ScreenOnTyped DEF Inv, OnScreen, MustBeOnScreen
<1> HIDE DEF s
<1>4. Advanced(s, ch) \in Low
  BY <1>2, <1>3, AdvancedTyped
<1> QED
  BY <1>1, <1>4, StepKeeps, CursorTyped DEF Points

LEMMA FinishKeeps == ASSUME Inv, Finish PROVE Inv'
<1> DEFINE s == ScreenOn(ToPage, ToCursor)
           f == Finished(s)
<1>1. out[curr_scheduled].at = "finish" /\ Step("finish", "run", f)
      /\ cursor' = IF ToCursor = curr_terminal THEN Position(f.x, f.y) ELSE cursor
  BY DEF Finish, Step, Running
<1>2. ToPage \in Pages /\ ToCursor = curr_scheduled /\ curr_scheduled \in Terminals
  BY <1>1, OwnScreen
<1>3. s \in Low
  BY <1>2, ScreenOnTyped
<1> HIDE DEF s
<1>4. f \in Whole
  BY <1>3, FinishedTyped
<1> HIDE DEF f
<1>5. f \in Low /\ f.x \in Cols /\ f.y \in Rows
  BY <1>4 DEF Whole, Low, Rows
<1>6. Position(f.x, f.y) \in Cells
  BY <1>5, PositionCell
<1>7. cursor' \in Cells
  BY <1>1, <1>6, CursorTyped
<1> QED
  BY <1>1, <1>2, <1>4, <1>5, <1>7, StepKeeps DEF Points

LEMMA VidmapKeeps == ASSUME Inv, Vidmap PROVE Inv'
<1> USE DEF schedVars, screenVars, MustBeOnScreen
<1>1. video_mem' \in Pages
  BY PutawayTyped DEF Inv, TypeOK, Vidmap
<1>2. OnScreen' /\ EchoesOnDisplay' /\ CursorFollows'
  BY DEF Inv, OnScreen, EchoesOnDisplay, CursorFollows, Vidmap
<1>3. TypeOK'
  BY <1>1, <1>2, Rebuilt DEF Inv, TypeOK, Vidmap, Texts, Cols, Printed
<1> QED
  BY <1>2, <1>3 DEF Inv

LEMMA DrawKeeps ==
  ASSUME Inv, NEW i \in Cells, NEW ch \in Chars, Draw(i, ch)
  PROVE  Inv'
<1> USE DEF schedVars, MustBeOnScreen
<1>1. page' \in [Pages -> Texts]
  BY DEF Inv, TypeOK, Draw, Texts
<1>2. put' \in 0 .. MaxOut
  BY MorePut DEF Draw
<1>3. OnScreen' /\ EchoesOnDisplay' /\ CursorFollows'
  BY DEF Inv, OnScreen, EchoesOnDisplay, CursorFollows, Draw
<1>4. TypeOK'
  BY <1>1, <1>2, <1>3, Rebuilt DEF Inv, TypeOK, Draw, Cols, Printed
<1> QED
  BY <1>3, <1>4 DEF Inv

\* The empty screen, and an unchanged count of characters.
LEMMA EmptyScreen == [text |-> Empty, x |-> 0, y |-> 0] \in Whole
BY FirstCell DEF Whole, Texts, Empty

LEMMA SamePut == ASSUME Inv, UNCHANGED put PROVE put' \in 0 .. MaxOut
BY DEF Inv, TypeOK

LEMMA ClearKeeps ==
  ASSUME Inv, ShellExits \/ PressCtrlL
  PROVE  Inv'
<1> DEFINE s == [text |-> Empty, x |-> 0, y |-> 0]
<1>1. SetDisplay(s) /\ UNCHANGED <<schedVars, out, put>>
  BY DEF ShellExits, PressCtrlL
<1>2. s \in Whole
  BY EmptyScreen
<1> QED
  BY <1>1, <1>2, SamePut, DisplaySet

-----------------------------------------------------------------------------
(* The keyboard *)

\* A key finds the displayed terminal between two characters.
LEMMA PressFindsScreen ==
  ASSUME Inv, BetweenCharacters, MayPress
  PROVE  ScreenOn(VIDEO, curr_terminal) \in Whole
<1>1. curr_terminal \in Terminals /\ VIDEO \in Pages
  BY DEF Inv, TypeOK, Pages
<1>2. screen_y[curr_terminal] \in Rows
  BY <1>1 DEF Inv, OnScreen, MustBeOnScreen, MayPress, BetweenCharacters
<1> QED
  BY <1>1, <1>2, ScreenOnTyped

LEMMA EchoKeeps ==
  ASSUME Inv, BetweenCharacters, NEW ch \in Chars, Echo(ch)
  PROVE  Inv'
<1> DEFINE s == ScreenOn(VIDEO, curr_terminal)
<1>1. MayPress /\ SetDisplay(Putc(s, ch)) /\ UNCHANGED <<schedVars, out>>
  BY DEF Echo
<1>2. put' \in 0 .. MaxOut /\ ch \in Printed
  BY MorePut DEF Echo, Printed
<1>3. s \in Whole
  BY <1>1, PressFindsScreen
<1> HIDE DEF s
<1>4. Putc(s, ch) \in Whole
  BY <1>2, <1>3, PutcTyped
<1> QED
  BY <1>1, <1>2, <1>4, DisplaySet

LEMMA BackspaceKeeps == ASSUME Inv, BetweenCharacters, Backspace PROVE Inv'
<1> DEFINE s    == ScreenOn(VIDEO, curr_terminal)
           back == Moved(s, s.x - 1, s.y)
           wipe == Putc(back, Blank)
           last == Moved(wipe, wipe.x - 1, wipe.y)
<1>1. MayPress /\ SetDisplay(last) /\ UNCHANGED <<schedVars, out, put>>
  BY DEF Backspace
<1>2. s \in Whole
  BY <1>1, PressFindsScreen
<1> HIDE DEF s
<1>3. back \in Whole
  <2>1. s.x - 1 \in Int /\ s.y \in Int
    BY <1>2 DEF Whole, Rows, Cols
  <2> QED
    BY <1>2, <2>1, MovedTyped
<1> HIDE DEF back
<1>4. wipe \in Whole
  BY <1>3, PutcTyped DEF Printed
<1> HIDE DEF wipe
<1>5. last \in Whole
  <2>1. wipe.x - 1 \in Int /\ wipe.y \in Int
    BY <1>4 DEF Whole, Rows, Cols
  <2> QED
    BY <1>4, <2>1, MovedTyped
<1> HIDE DEF last
<1> QED
  BY <1>1, <1>5, SamePut, DisplaySet

LEMMA PressAltFnKeeps ==
  ASSUME Inv, NEW t \in Terminals, PressAltFn(t)
  PROVE  Inv'
<1> USE DEF screenVars
<1>1. OnScreen' /\ EchoesOnDisplay' /\ CursorFollows'
  BY DEF Inv, OnScreen, MustBeOnScreen, EchoesOnDisplay, CursorFollows, PressAltFn
<1>2. switch_flag' \in 0 .. NT
  BY DEF PressAltFn, Terminals
<1>3. TypeOK'
  BY <1>1, <1>2, Rebuilt DEF Inv, TypeOK, PressAltFn, Texts, Cols, Printed
<1> QED
  BY <1>1, <1>3 DEF Inv

-----------------------------------------------------------------------------
(* The timer *)

LEMMA NextTerminalTyped ==
  ASSUME NEW t \in Terminals
  PROVE  NextTerminal(t) \in Terminals
BY DEF Terminals, NextTerminal

\* switch_terminal finds every program between two characters.
LEMMA SwitchFindsScreens ==
  ASSUME Inv, BetweenCharacters, NEW from \in Terminals, NEW to \in Terminals,
         SwitchTerminal(from, to)
  PROVE  /\ page' \in [Pages -> Texts]
         /\ curr_terminal' = to
         /\ \A t \in Terminals : out[t].at = "run"
         /\ \A t \in Terminals : screen_y[t] \in Rows
         /\ CursorOf(to) \in Cells
<1>1. \A t \in Terminals : out[t].at = "run"
  BY DEF SwitchTerminal, BetweenCharacters
<1>2. \A t \in Terminals : screen_y[t] \in Rows
  BY <1>1 DEF Inv, OnScreen, MustBeOnScreen
<1>3. page' \in [Pages -> Texts]
  <2>1. from \in Pages /\ to \in Pages /\ VIDEO \in Pages /\ page \in [Pages -> Texts]
    BY DEF Pages, Inv, TypeOK, Texts
  <2> QED
    BY <2>1 DEF SwitchTerminal, Switched
<1>4. CursorOf(to) \in Cells
  <2>1. screen_x[to] \in Cols
    BY DEF Inv, TypeOK, Cols
  <2> QED
    BY <1>2, <2>1, PositionCell DEF CursorOf
<1> QED
  BY <1>1, <1>2, <1>3, <1>4 DEF SwitchTerminal

LEMMA TickRegularKeeps == ASSUME Inv, BetweenCharacters, TickRegular PROVE Inv'
<1>1. /\ UNCHANGED <<total_terminal, screen_x, screen_y, out, put>>
      /\ switch_flag' = 0
      /\ curr_scheduled' = NextTerminal(curr_scheduled)
      /\ video_mem' = Target(NextTerminal(curr_scheduled), curr_terminal')
  BY DEF TickRegular
<1>2. curr_scheduled' \in Terminals /\ switch_flag' \in 0 .. NT
  BY <1>1, NextTerminalTyped DEF Inv, TypeOK
<1>3. OnScreen'
  BY <1>1 DEF Inv, OnScreen, MustBeOnScreen
<1>4. CASE /\ switch_flag # 0
           /\ SwitchTerminal(curr_terminal, switch_flag)
           /\ cursor' = CursorOf(switch_flag)
  <2>1. curr_terminal \in Terminals /\ switch_flag \in Terminals
    BY <1>4 DEF Inv, TypeOK, Terminals
  <2>2. /\ page' \in [Pages -> Texts]
        /\ curr_terminal' = switch_flag
        /\ \A t \in Terminals : out[t].at = "run"
        /\ cursor' \in Cells
    BY <1>4, <2>1, SwitchFindsScreens
  <2>3. video_mem' \in Pages
    BY <1>1, <1>2, <2>1, <2>2, PutawayTyped
  <2>4. TypeOK'
    BY <1>1, <1>2, <1>3, <2>1, <2>2, <2>3, Rebuilt DEF Inv, TypeOK, Cols, Printed
  <2>5. EchoesOnDisplay' /\ CursorFollows'
    BY <1>1, <1>4, <2>2 DEF EchoesOnDisplay, CursorFollows, CursorOf
  <2> QED
    BY <1>3, <2>4, <2>5 DEF Inv
<1>5. CASE UNCHANGED <<curr_terminal, page, cursor>>
  <2>1. video_mem' \in Pages
    BY <1>1, <1>2, <1>5, PutawayTyped DEF Inv, TypeOK
  <2>2. TypeOK'
    BY <1>1, <1>2, <1>3, <1>5, <2>1, Rebuilt DEF Inv, TypeOK, Texts, Cols, Printed
  <2>3. EchoesOnDisplay' /\ CursorFollows'
    BY <1>1, <1>5 DEF Inv, EchoesOnDisplay, CursorFollows
  <2> QED
    BY <1>3, <2>2, <2>3 DEF Inv
<1> QED
  BY <1>4, <1>5 DEF TickRegular

LEMMA TickStartShellKeeps == ASSUME Inv, BetweenCharacters, TickStartShell PROVE Inv'
<1>1. /\ total_terminal < NT /\ total_terminal' = total_terminal + 1
      /\ video_mem' = Target(NextTerminal(curr_scheduled), curr_terminal)
      /\ screen_x' = [screen_x EXCEPT ![curr_terminal'] = 0]
      /\ screen_y' = [screen_y EXCEPT ![curr_terminal'] = 0]
      /\ cursor' = 0
      /\ UNCHANGED <<switch_flag, out, put>>
  BY DEF TickStartShell
<1>2. total_terminal' \in 0 .. NT + 1
      /\ NextTerminal(curr_scheduled) \in Terminals /\ video_mem' \in Pages
  BY <1>1, NextTerminalTyped, PutawayTyped DEF Inv, TypeOK
<1>3. /\ page' \in [Pages -> Texts]
      /\ curr_scheduled' \in Terminals /\ curr_terminal' \in Terminals
      /\ curr_terminal' = curr_terminal \/ \A t \in Terminals : out[t].at = "run"
  <2>1. CASE total_terminal = 0
    BY <2>1 DEF TickStartShell, Inv, TypeOK, Texts
  <2>2. CASE total_terminal # 0
    <3>1. total_terminal \in Terminals /\ total_terminal + 1 \in Terminals
      BY <1>1, <2>2 DEF Inv, TypeOK, Terminals
    <3>2. SwitchTerminal(total_terminal, total_terminal + 1)
          /\ curr_scheduled' = NextTerminal(curr_scheduled)
      BY <2>2 DEF TickStartShell
    <3> QED
      BY <1>2, <3>1, <3>2, SwitchFindsScreens
  <2> QED
    BY <2>1, <2>2
<1>4. /\ screen_x' \in [Terminals -> Cols]
      /\ screen_y' \in [Terminals -> 0 .. NUM_ROWS]
      /\ screen_x'[curr_terminal'] = 0 /\ screen_y'[curr_terminal'] = 0
      /\ \A u \in Terminals : u # curr_terminal' => screen_y'[u] = screen_y[u]
  <2>1. screen_x \in [Terminals -> Cols] /\ screen_y \in [Terminals -> 0 .. NUM_ROWS]
    BY DEF Inv, TypeOK, Cols
  <2> QED
    BY <1>1, <1>3, <2>1, FirstCell
<1>5. OnScreen'
  BY <1>1, <1>4, FirstCell DEF Inv, OnScreen, MustBeOnScreen
<1>6. cursor' \in Cells
  BY <1>1, FirstCell
<1>7. TypeOK'
  BY <1>1, <1>2, <1>3, <1>4, <1>5, <1>6, Rebuilt DEF Inv, TypeOK, Printed
<1>8. EchoesOnDisplay'
  BY <1>1, <1>3 DEF Inv, EchoesOnDisplay
<1>9. CursorFollows'
  BY <1>1, <1>4 DEF CursorFollows, Position
<1> QED
  BY <1>5, <1>7, <1>8, <1>9 DEF Inv

LEMMA TickFinishBootKeeps == ASSUME Inv, BetweenCharacters, TickFinishBoot PROVE Inv'
<1>1. /\ total_terminal = NT /\ total_terminal' = total_terminal + 1
      /\ video_mem' = Target(NextTerminal(curr_scheduled), curr_terminal)
      /\ SwitchTerminal(NT, 1) /\ cursor' = CursorOf(1) /\ curr_scheduled' = NT
      /\ UNCHANGED <<switch_flag, screen_x, screen_y, out, put>>
  BY DEF TickFinishBoot
<1>2. 1 \in Terminals /\ NT \in Terminals
  BY DEF Terminals
<1>3. total_terminal' \in 0 .. NT + 1 /\ video_mem' \in Pages
  BY <1>1, NextTerminalTyped, PutawayTyped DEF Inv, TypeOK
<1>4. /\ page' \in [Pages -> Texts] /\ curr_terminal' = 1
      /\ \A t \in Terminals : out[t].at = "run"
      /\ cursor' \in Cells
  BY <1>1, <1>2, SwitchFindsScreens
<1>5. OnScreen'
  BY <1>1 DEF Inv, OnScreen, MustBeOnScreen
<1>6. TypeOK'
  BY <1>1, <1>2, <1>3, <1>4, <1>5, Rebuilt DEF Inv, TypeOK, Cols, Printed
<1>7. EchoesOnDisplay' /\ CursorFollows'
  BY <1>1, <1>4 DEF EchoesOnDisplay, CursorFollows, CursorOf
<1> QED
  BY <1>5, <1>6, <1>7 DEF Inv

-----------------------------------------------------------------------------
(* Types and the blinking cursor *)

LEMMA InvInit == Init => Inv
<1> SUFFICES ASSUME Init PROVE Inv
  OBVIOUS
<1>1. /\ Quiet.at = "run"
      /\ Quiet \in [at : Points, by : {"putc", "putc2"}, c : Chars \cup {Blank, Newline}]
  BY DEF Quiet, Points
<1>2. out = [t \in Terminals |-> Quiet] /\ screen_y = [t \in Terminals |-> 0]
      /\ screen_x = [t \in Terminals |-> 0]
  BY DEF Init
<1>3. page \in [Pages -> [Cells -> Chars \cup {Blank}]]
  BY DEF Init, Empty
<1>4. \A t \in Terminals : screen_y[t] = 0 /\ out[t].at = "run"
  BY <1>1, <1>2
<1>5. TypeOK
  <2>1. screen_x \in [Terminals -> 0 .. NUM_COLS - 1]
        /\ screen_y \in [Terminals -> 0 .. NUM_ROWS]
    BY <1>2
  <2>2. out \in [Terminals -> [at : Points, by : {"putc", "putc2"},
                               c : Chars \cup {Blank, Newline}]]
    BY <1>1, <1>2
  <2>3. curr_terminal \in Terminals /\ curr_scheduled \in Terminals
        /\ switch_flag \in 0 .. NT /\ total_terminal \in 0 .. NT + 1
        /\ video_mem \in Pages /\ put \in 0 .. MaxOut
    BY DEF Init, Terminals, Pages
  <2>4. cursor \in Cells
    BY FirstCell DEF Init
  <2> QED
    BY <1>3, <1>4, <2>1, <2>2, <2>3, <2>4 DEF TypeOK
<1>6. OnScreen
  BY <1>4, FirstCell DEF OnScreen
<1>7. EchoesOnDisplay
  BY <1>4 DEF EchoesOnDisplay
<1>8. CursorFollows
  BY <1>2, FirstCell DEF CursorFollows, Position, Init, Terminals
<1> QED
  BY <1>5, <1>6, <1>7, <1>8 DEF Inv

LEMMA InvNext == BetweenCharacters /\ Inv /\ [Next]_vars => Inv'
<1> SUFFICES ASSUME BetweenCharacters, Inv, [Next]_vars PROVE Inv'
  OBVIOUS
<1>1. ASSUME NEW ch \in Chars \cup {Newline}, Write(ch) \/ BeginPrintf(ch)
      PROVE  Inv'
  BY <1>1, WriteKeeps, BeginKeeps DEF BeginPrintf, Printed
<1>2. CASE BeginNewline
  BY <1>2, BeginKeeps DEF BeginNewline, Printed
<1>3. CASE Store \/ Advance \/ Finish
  BY <1>3, StoreKeeps, AdvanceKeeps, FinishKeeps
<1>4. CASE Vidmap \/ ShellExits \/ PressCtrlL
  BY <1>4, VidmapKeeps, ClearKeeps
<1>5. ASSUME NEW i \in Cells, NEW ch \in Chars, Draw(i, ch)
      PROVE  Inv'
  BY <1>5, DrawKeeps
<1>6. ASSUME NEW ch \in Chars, Echo(ch)
      PROVE  Inv'
  BY <1>6, EchoKeeps
<1>7. CASE Backspace
  BY <1>7, BackspaceKeeps
<1>8. ASSUME NEW t \in Terminals, PressAltFn(t)
      PROVE  Inv'
  BY <1>8, PressAltFnKeeps
<1>9. CASE Tick
  BY <1>9, TickRegularKeeps, TickStartShellKeeps, TickFinishBootKeeps DEF Tick
<1>10. CASE UNCHANGED vars
  BY <1>10 DEF vars, schedVars, screenVars, Inv, TypeOK, OnScreen, MustBeOnScreen,
               EchoesOnDisplay, CursorFollows
<1> QED
  BY <1>1, <1>2, <1>3, <1>4, <1>5, <1>6, <1>7, <1>8, <1>9, <1>10 DEF Next

\* When keys and switches of the display come between characters, every
\* variable keeps its range on screens of any size: no sequence of output,
\* typing, clearing and switching moves a cursor off the screen, except, for a
\* step of putc before its scroll, to the row below it.
THEOREM ScreensTyped ==
  ASSUME BetweenCharacters
  PROVE  Spec => []TypeOK
<1>1. Inv /\ [Next]_vars => Inv'
  BY InvNext
<1>2. Inv => TypeOK
  BY DEF Inv
<1> QED
  BY InvInit, <1>1, <1>2, PTL DEF Spec

\* Under the same assumption, the blinking cursor stands where the next
\* character of the displayed terminal will be put.
THEOREM CursorIsTheNextCell ==
  ASSUME BetweenCharacters
  PROVE  Spec => []CursorFollows
<1>1. Inv /\ [Next]_vars => Inv'
  BY InvNext
<1>2. Inv => CursorFollows
  BY DEF Inv
<1> QED
  BY InvInit, <1>1, <1>2, PTL DEF Spec

-----------------------------------------------------------------------------
(* What putc does to the text and to the position *)

LEMMA RowOfPosition ==
  ASSUME NEW x \in Cols, NEW y \in Rows
  PROVE  /\ Position(x, y) \div NUM_COLS = y
         /\ (Position(x, y) = 0) <=> (x = 0 /\ y = 0)
<1>1. x \in 0 .. NUM_COLS - 1 /\ y \in Nat /\ NUM_COLS \in Nat \ {0}
  BY DEF Rows, Cols
<1>2. Position(x, y) = NUM_COLS * y + x
  BY DEF Position
<1>3. (NUM_COLS * y + x) \div NUM_COLS = y
  BY <1>1, Z3
<1>4. (NUM_COLS * y + x = 0) <=> (x = 0 /\ y = 0)
  BY <1>1
<1> QED
  BY <1>2, <1>3, <1>4

\* The cell after the last column, and the row below the last one.
LEMMA NextRow ==
  ASSUME NEW y \in Rows
  PROVE  /\ Position(0, y + 1) = Position(NUM_COLS - 1, y) + 1
         /\ Position(0, y + 1) = (y + 1) * NUM_COLS
         /\ y + 1 \in Rows => Position(0, y + 1) \in Cells
         /\ y + 1 \notin Rows => /\ y + 1 = NUM_ROWS
                                 /\ Position(0, y + 1) \notin Cells
         /\ Position(0, y) = Position(0, y + 1) - NUM_COLS
<1>1. y \in Nat /\ NUM_COLS \in Nat \ {0} /\ NUM_ROWS \in Nat \ {0} /\ y < NUM_ROWS
  BY DEF Rows
<1>2. NUM_COLS * (y + 1) = NUM_COLS * y + NUM_COLS
  BY <1>1
<1>3. NUM_COLS * y \in Nat /\ NUM_COLS * (y + 1) = (y + 1) * NUM_COLS
  BY <1>1
<1>4. /\ Position(0, y + 1) = NUM_COLS * y + NUM_COLS
      /\ Position(NUM_COLS - 1, y) = NUM_COLS * y + NUM_COLS - 1
      /\ Position(0, y) = NUM_COLS * y
      /\ Position(0, y + 1) = (y + 1) * NUM_COLS
  BY <1>1, <1>2, <1>3 DEF Position
<1>5. ASSUME y + 1 \in Rows PROVE Position(0, y + 1) \in Cells
  BY <1>5, FirstCell, PositionCell
<1>6. ASSUME y + 1 \notin Rows
      PROVE  y + 1 = NUM_ROWS /\ Position(0, y + 1) \notin Cells
  <2>1. y + 1 = NUM_ROWS
    BY <1>1, <1>6 DEF Rows
  <2>2. Position(0, y + 1) = NUM_ROWS * NUM_COLS
    BY <1>4, <2>1
  <2> QED
    BY <2>1, <2>2 DEF Cells
<1> QED
  BY <1>1, <1>3, <1>4, <1>5, <1>6

At(s)         == Position(s.x, s.y)
Written(s, c) == IF c = Newline THEN s.text ELSE [s.text EXCEPT ![At(s)] = c]
After(s, c)   == IF c = Newline THEN (At(s) \div NUM_COLS + 1) * NUM_COLS ELSE At(s) + 1

\* The part of putc before the scroll.
LEMMA BeforeScroll ==
  ASSUME NEW s \in Whole, NEW ch \in Printed
  PROVE  LET r == Advanced(Stored(s, ch), ch) IN
           /\ r.text = Written(s, ch)
           /\ At(r) = After(s, ch)
           /\ r.y \in Rows <=> After(s, ch) \in Cells
           /\ r.y \notin Rows => r.x = 0 /\ r.y = NUM_ROWS
           /\ r \in Low
           /\ r = [text |-> r.text, x |-> r.x, y |-> r.y]
<1> DEFINE r == Advanced(Stored(s, ch), ch)
<1> SUFFICES /\ r.text = Written(s, ch)
             /\ At(r) = After(s, ch)
             /\ r.y \in Rows <=> After(s, ch) \in Cells
             /\ r.y \notin Rows => r.x = 0 /\ r.y = NUM_ROWS
             /\ r \in Low
             /\ r = [text |-> r.text, x |-> r.x, y |-> r.y]
  OBVIOUS
<1>1. /\ s.text \in Texts /\ s.x \in Cols /\ s.y \in Rows
      /\ s = [text |-> s.text, x |-> s.x, y |-> s.y]
  BY DEF Whole
<1>2. r \in Low
  BY StoredTyped, AdvancedTyped
<1>3. r = [text |-> r.text, x |-> r.x, y |-> r.y]
  BY <1>2 DEF Low
<1>4. CASE ch = Newline
  <2>1. r = [text |-> s.text, x |-> 0, y |-> s.y + 1]
    BY <1>1, <1>4 DEF Advanced, Stored
  <2>2. At(r) = Position(0, s.y + 1) /\ r.x = 0 /\ r.y = s.y + 1 /\ r.text = s.text
    BY <2>1 DEF At
  <2>3. After(s, ch) = (s.y + 1) * NUM_COLS
    BY <1>1, <1>4, RowOfPosition DEF After, At
  <2> HIDE DEF r
  <2> QED
    BY <1>1, <1>2, <1>3, <1>4, <2>2, <2>3, NextRow DEF Written
<1>5. CASE ch # Newline
  <2>1. Stored(s, ch) = [text |-> Written(s, ch), x |-> s.x, y |-> s.y]
    <3>1. At(s) = NUM_COLS * s.y + s.x
      BY DEF At, Position
    <3>2. [i \in Cells |-> IF i = At(s) THEN ch ELSE s.text[i]]
            = [s.text EXCEPT ![At(s)] = ch]
      BY <1>1 DEF Texts
    <3>3. Stored(s, ch) = [s EXCEPT !.text =
            [i \in Cells |-> IF i = NUM_COLS * s.y + s.x THEN ch ELSE s.text[i]]]
      BY <1>1, <1>5 DEF Stored
    <3>4. Stored(s, ch) = [s EXCEPT !.text = [s.text EXCEPT ![At(s)] = ch]]
      BY <3>1, <3>2, <3>3
    <3> QED
      BY <1>1, <1>5, <3>4 DEF Written
  <2>2. r = [text |-> Written(s, ch), x |-> (s.x + 1) % NUM_COLS,
             y |-> s.y + (s.x + 1) \div NUM_COLS]
    <3> DEFINE st == Stored(s, ch)
    <3>1. st = [text |-> Written(s, ch), x |-> s.x, y |-> s.y]
      BY <2>1
    <3>2. r = [st EXCEPT !.x = (st.x + 1) % NUM_COLS,
                         !.y = st.y + (st.x + 1) \div NUM_COLS]
      BY <1>5 DEF Advanced
    <3> HIDE DEF st, r
    <3> QED
      BY <3>1, <3>2
  <2>3. After(s, ch) = At(s) + 1
    BY <1>5 DEF After
  <2>4. CASE s.x + 1 < NUM_COLS
    <3>1. (s.x + 1) % NUM_COLS = s.x + 1 /\ (s.x + 1) \div NUM_COLS = 0 /\ s.x + 1 \in Cols
      BY <1>1, <2>4, Z3 DEF Cols
    <3>2. r.text = Written(s, ch) /\ r.x = s.x + 1 /\ r.y = s.y
      BY <1>1, <2>2, <3>1 DEF Rows
    <3> HIDE DEF r
    <3>3. At(r) = At(s) + 1
      <4>1. NUM_COLS * s.y \in Int /\ s.x \in Int
        BY <1>1 DEF Rows, Cols
      <4> QED
        BY <3>2, <4>1 DEF At, Position
    <3>4. At(r) \in Cells
      BY <1>1, <3>1, <3>2, PositionCell DEF At
    <3> QED
      BY <1>1, <1>2, <1>3, <2>3, <3>2, <3>3, <3>4
  <2>5. CASE ~(s.x + 1 < NUM_COLS)
    <3>1. s.x = NUM_COLS - 1
      BY <1>1, <2>5 DEF Cols
    <3>2. (s.x + 1) % NUM_COLS = 0 /\ (s.x + 1) \div NUM_COLS = 1
      BY <3>1, Z3
    <3>3. r.text = Written(s, ch) /\ r.x = 0 /\ r.y = s.y + 1
      BY <1>1, <2>2, <3>2 DEF Rows
    <3> HIDE DEF r
    <3>4. At(r) = Position(0, s.y + 1) /\ At(s) = Position(NUM_COLS - 1, s.y)
      BY <3>1, <3>3 DEF At
    <3> QED
      BY <1>1, <1>2, <1>3, <2>3, <3>3, <3>4, NextRow
  <2> QED
    BY <2>4, <2>5
<1> QED
  BY <1>4, <1>5

\* putc does what Put of VirtualScreens says.
LEMMA PutcPuts ==
  ASSUME NEW s \in Whole, NEW ch \in Printed
  PROVE  LET in == After(s, ch) \in Cells IN
         /\ Putc(s, ch).text = IF in THEN Written(s, ch) ELSE VS!Up(Written(s, ch))
         /\ At(Putc(s, ch)) = IF in THEN After(s, ch) ELSE After(s, ch) - NUM_COLS
<1> DEFINE r == Advanced(Stored(s, ch), ch)
<1>1. /\ r.text = Written(s, ch)
      /\ At(r) = After(s, ch)
      /\ r.y \in Rows <=> After(s, ch) \in Cells
      /\ r.y \notin Rows => r.x = 0 /\ r.y = NUM_ROWS
      /\ r \in Low
  BY BeforeScroll
<1>2. Putc(s, ch) = Finished(r)
  BY DEF Putc
<1> HIDE DEF r
<1>3. CASE After(s, ch) \in Cells
  <2>1. Finished(r) = r
    BY <1>1, <1>3 DEF Finished, Rows
  <2> QED
    BY <1>1, <1>2, <1>3, <2>1
<1>4. CASE After(s, ch) \notin Cells
  <2>1. r.x = 0 /\ r.y = NUM_ROWS
    BY <1>1, <1>4
  <2>2. Finished(r) = [text |-> ScrollUp(r.text), x |-> 0, y |-> NUM_ROWS - 1]
    BY <2>1 DEF Finished
  <2>3. ScrollUp(r.text) = VS!Up(Written(s, ch))
    BY <1>1 DEF ScrollUp, VS!Up, VS!Cells, Cells
  <2>4. NUM_ROWS - 1 \in Rows /\ (NUM_ROWS - 1) + 1 = NUM_ROWS
    BY DEF Rows
  <2>5. Position(0, NUM_ROWS - 1) = Position(0, NUM_ROWS) - NUM_COLS
    BY <2>4, NextRow
  <2> QED
    BY <1>1, <1>2, <1>4, <2>1, <2>2, <2>3, <2>5 DEF At
<1> QED
  BY <1>3, <1>4

\* One step back from a place other than the first.
LEMMA StepBack ==
  ASSUME NEW x \in Cols, NEW y \in Rows, x # 0 \/ y # 0, NEW s \in Whole
  PROVE  LET back == Moved(s, x - 1, y) IN
         /\ back.text = s.text
         /\ back \in Whole
         /\ Position(back.x, back.y) + 1 = Position(x, y)
         /\ IF x > 0 THEN back.x = x - 1 /\ back.y = y
                     ELSE back.x = NUM_COLS - 1 /\ back.y = y - 1
<1> DEFINE back == Moved(s, x - 1, y)
<1> SUFFICES /\ back.text = s.text
             /\ back \in Whole
             /\ Position(back.x, back.y) + 1 = Position(x, y)
             /\ IF x > 0 THEN back.x = x - 1 /\ back.y = y
                         ELSE back.x = NUM_COLS - 1 /\ back.y = y - 1
  OBVIOUS
<1>1. s = [text |-> s.text, x |-> s.x, y |-> s.y]
  BY DEF Whole
<1>2. back \in Whole
  <2>1. x - 1 \in Int /\ y \in Int
    BY DEF Rows, Cols
  <2> QED
    BY <2>1, MovedTyped
<1>3. CASE x > 0
  <2>1. x - 1 \in 0 .. NUM_COLS - 1 /\ y \in 0 .. NUM_ROWS - 1 /\ ~(x - 1 < 0)
    BY <1>3 DEF Rows, Cols
  <2>2. back = [text |-> s.text, x |-> x - 1, y |-> y]
    BY <1>1, <2>1 DEF Moved
  <2>3. Position(x - 1, y) + 1 = Position(x, y)
    <3>1. NUM_COLS * y \in Int /\ x \in Int
      BY DEF Rows, Cols
    <3> QED
      BY <3>1 DEF Position
  <2> HIDE DEF back
  <2> QED
    BY <1>2, <1>3, <2>2, <2>3
<1>4. CASE ~(x > 0)
  <2>1. x = 0 /\ y - 1 \in Rows /\ x - 1 < 0 /\ NUM_COLS - 1 \in 0 .. NUM_COLS - 1
    BY <1>4 DEF Rows, Cols
  <2>2. back = [text |-> s.text, x |-> NUM_COLS - 1, y |-> y - 1]
    BY <1>1, <2>1 DEF Moved, Rows
  <2>3. Position(NUM_COLS - 1, y - 1) + 1 = Position(0, (y - 1) + 1)
    BY <2>1, NextRow
  <2>4. (y - 1) + 1 = y
    BY DEF Rows
  <2> HIDE DEF back
  <2> QED
    BY <1>2, <1>4, <2>1, <2>2, <2>3, <2>4
<1> QED
  BY <1>3, <1>4

\* Backspace: the cell before the cursor is blank and the cursor is there.
LEMMA BackspaceErases ==
  ASSUME NEW s \in Whole, <<s.x, s.y>> # <<0, 0>>
  PROVE  LET back == Moved(s, s.x - 1, s.y)
             wipe == Putc(back, Blank)
             last == Moved(wipe, wipe.x - 1, wipe.y)
         IN  /\ last.text = [s.text EXCEPT ![At(s) - 1] = Blank]
             /\ At(last) = At(s) - 1
             /\ At(s) > 0
             /\ last \in Whole
<1> DEFINE back == Moved(s, s.x - 1, s.y)
           wipe == Putc(back, Blank)
           last == Moved(wipe, wipe.x - 1, wipe.y)
<1> SUFFICES /\ last.text = [s.text EXCEPT ![At(s) - 1] = Blank]
             /\ At(last) = At(s) - 1
             /\ At(s) > 0
             /\ last \in Whole
  OBVIOUS
<1>1. s.x \in Cols /\ s.y \in Rows
  BY DEF Whole
<1>2. At(s) \in Cells /\ At(s) # 0
  BY <1>1, PositionCell, RowOfPosition DEF At
<1>3. At(s) > 0 /\ At(s) \in Int
  <2>1. NUM_ROWS * NUM_COLS \in Int
    OBVIOUS
  <2> QED
    BY <1>2, <2>1 DEF Cells
<1>4. /\ back \in Whole
      /\ back.text = s.text
      /\ At(back) + 1 = At(s)
      /\ IF s.x > 0 THEN back.x = s.x - 1 /\ back.y = s.y
                    ELSE back.x = NUM_COLS - 1 /\ back.y = s.y - 1
  <2>1. s.x # 0 \/ s.y # 0
    OBVIOUS
  <2> QED
    BY <1>1, <2>1, StepBack, ZenonT(40) DEF At
<1> HIDE DEF back
<1>5. Blank \in Printed /\ Blank # Newline /\ At(back) \in Int
  <2>1. back.x \in Int /\ back.y \in Int /\ NUM_COLS * back.y \in Int
    BY <1>4 DEF Whole, Rows, Cols
  <2> QED
    BY <2>1 DEF Printed, At, Position
<1>6. After(back, Blank) = At(s)
  BY <1>4, <1>5 DEF After
<1>7. wipe.text = [s.text EXCEPT ![At(s) - 1] = Blank] /\ At(wipe) = At(s)
  <2>1. wipe.text = Written(back, Blank) /\ At(wipe) = At(s)
    BY <1>2, <1>4, <1>5, <1>6, PutcPuts
  <2>2. At(back) = At(s) - 1
    BY <1>3, <1>4, <1>5
  <2> QED
    BY <1>4, <1>5, <2>1, <2>2 DEF Written
<1>8. wipe \in Whole
  BY <1>4, <1>5, PutcTyped
<1> HIDE DEF wipe
<1>9. wipe.x \in Cols /\ wipe.y \in Rows /\ (wipe.x # 0 \/ wipe.y # 0)
  <2>1. wipe.x \in Cols /\ wipe.y \in Rows
    BY <1>8 DEF Whole
  <2>2. Position(wipe.x, wipe.y) # 0
    BY <1>2, <1>7 DEF At
  <2> QED
    BY <2>1, <2>2, RowOfPosition, ZenonT(40)
<1>10. last.text = wipe.text /\ At(last) + 1 = At(wipe) /\ last \in Whole
  BY <1>8, <1>9, StepBack, Zenon DEF At
<1>11. At(last) \in Int
  <2>1. last.x \in Int /\ last.y \in Int /\ NUM_COLS * last.y \in Int
    BY <1>10 DEF Whole, Rows, Cols
  <2> QED
    BY <2>1 DEF At, Position
<1> HIDE DEF last
<1> QED
  BY <1>3, <1>7, <1>10, <1>11

-----------------------------------------------------------------------------
(* Whose page is where *)

\* Up to the end of boot the newest terminal is shown and runs, and the screens
\* to come are still empty.
Booting == total_terminal <= NT =>
  /\ curr_scheduled = curr_terminal
  /\ curr_terminal = IF total_terminal = 0 THEN 1 ELSE total_terminal
  /\ \A t \in Terminals :
       /\ t > total_terminal => screen_x[t] = 0 /\ screen_y[t] = 0
       /\ total_terminal = 0 => out[t].at = "run"

\* video_mem is right for a program in the middle of a putc.
PrintsMapped == out[curr_scheduled].at # "run" => Mapped

MapInv == Booting /\ PrintsMapped

LEMMA MapInit == Init => MapInv
<1> SUFFICES ASSUME Init PROVE MapInv
  OBVIOUS
<1>1. \A t \in Terminals : screen_x[t] = 0 /\ screen_y[t] = 0 /\ out[t].at = "run"
  BY DEF Init, Quiet
<1>2. 1 \in Terminals
  BY DEF Terminals
<1> QED
  BY <1>1, <1>2 DEF Init, MapInv, Booting, PrintsMapped

\* A step that leaves the scheduler alone and sets one screen of a terminal
\* that has been created.
LEMMA MapKept ==
  ASSUME Inv, MapInv, NEW t \in Terminals, t <= total_terminal,
         UNCHANGED schedVars,
         \A u \in Terminals : u # t =>
           screen_x'[u] = screen_x[u] /\ screen_y'[u] = screen_y[u],
         \A u \in Terminals : out'[u].at # "run" => out[u].at # "run" \/ Mapped
  PROVE  MapInv'
<1> USE DEF schedVars
<1>1. total_terminal \in Nat /\ \A u \in Terminals : u \in Nat
  BY DEF Inv, TypeOK, Terminals
<1>2. total_terminal' = total_terminal /\ Mapped' = Mapped
  BY DEF Mapped, Target
<1>3. curr_scheduled \in Terminals /\ t # 0 /\ total_terminal # 0
  BY <1>1 DEF Inv, TypeOK, Terminals
<1>4. Booting'
  BY <1>1, <1>2, <1>3 DEF MapInv, Booting
<1>5. PrintsMapped'
  BY <1>2, <1>3 DEF MapInv, PrintsMapped
<1> QED
  BY <1>4, <1>5 DEF MapInv

\* A program that prints is the one of a terminal that has been created.
LEMMA PrintsLive ==
  ASSUME Inv, MapInv, total_terminal > 0
  PROVE  curr_scheduled <= total_terminal /\ curr_terminal <= total_terminal
BY DEF Inv, TypeOK, MapInv, Booting, Terminals

LEMMA MappedLive == Mapped => total_terminal > 0
BY DEF Mapped

LEMMA StepMap ==
  ASSUME Inv, MapInv, NEW from \in Points \ {"run"}, NEW to \in Points, NEW s \in Low,
         Step(from, to, s)
  PROVE  MapInv'
<1>1. /\ out[curr_scheduled].at # "run" /\ UNCHANGED schedVars
      /\ SetScreen(ToPage, ToCursor, s)
      /\ \E q : out' = [out EXCEPT ![curr_scheduled] = q]
  BY DEF Step, Running
<1>2. ToPage \in Pages /\ ToCursor = curr_scheduled /\ curr_scheduled \in Terminals
  BY <1>1, OwnScreen
<1>3. Mapped /\ curr_scheduled <= total_terminal
  BY <1>1, MappedLive, PrintsLive DEF MapInv, PrintsMapped
<1>4. SetScreen(ToPage, curr_scheduled, s)
  BY <1>1, <1>2
<1>5. \A u \in Terminals : u # curr_scheduled =>
        screen_x'[u] = screen_x[u] /\ screen_y'[u] = screen_y[u]
  BY <1>2, <1>4, SetScreenTyped
<1> QED
  BY <1>1, <1>2, <1>3, <1>5, MapKept

LEMMA DisplayMap ==
  ASSUME Inv, MapInv, NEW s \in Whole, SetDisplay(s), UNCHANGED <<schedVars, out>>,
         total_terminal > 0
  PROVE  MapInv'
<1>1. curr_terminal \in Terminals /\ VIDEO \in Pages /\ s \in Low
  BY DEF Inv, TypeOK, Pages, Whole, Low, Rows
<1>2. \A u \in Terminals : u # curr_terminal =>
        screen_x'[u] = screen_x[u] /\ screen_y'[u] = screen_y[u]
  BY <1>1, SetScreenTyped DEF SetDisplay
<1> QED
  BY <1>1, <1>2, PrintsLive, MapKept

LEMMA BeginMap ==
  ASSUME Inv, MapInv, NEW by, NEW ch, Mapped, Begin(by, ch)
  PROVE  MapInv'
<1>1. curr_scheduled \in Terminals /\ UNCHANGED <<schedVars, screenVars>>
      /\ \E q : out' = [out EXCEPT ![curr_scheduled] = q]
  BY DEF Begin, Inv, TypeOK
<1>2. curr_scheduled <= total_terminal
  BY MappedLive, PrintsLive
<1>3. UNCHANGED <<screen_x, screen_y>>
  BY <1>1 DEF screenVars
<1> QED
  BY <1>1, <1>2, <1>3, MapKept

LEMMA TickMap == ASSUME Inv, BetweenCharacters, MapInv, Tick PROVE MapInv'
<1>1. total_terminal \in 0 .. NT + 1 /\ \A t \in Terminals : t \in Nat
      /\ curr_scheduled \in Terminals /\ curr_terminal \in Terminals
  BY DEF Inv, TypeOK, Terminals
<1>2. CASE TickRegular
  <2>1. total_terminal' = total_terminal /\ total_terminal > NT
        /\ video_mem' = Target(curr_scheduled', curr_terminal')
    BY <1>2 DEF TickRegular
  <2>2. Booting'
    BY <1>1, <2>1 DEF Booting
  <2>3. PrintsMapped'
    BY <1>1, <2>1 DEF PrintsMapped, Mapped
  <2> QED
    BY <2>2, <2>3 DEF MapInv
<1>3. CASE TickStartShell
  <2>1. /\ total_terminal < NT /\ total_terminal' = total_terminal + 1
        /\ screen_x' = [screen_x EXCEPT ![curr_terminal'] = 0]
        /\ screen_y' = [screen_y EXCEPT ![curr_terminal'] = 0]
        /\ UNCHANGED out
    BY <1>3 DEF TickStartShell
  <2>2. /\ curr_terminal' = total_terminal' /\ curr_scheduled' = total_terminal'
        /\ \A t \in Terminals : out[t].at = "run"
    <3>1. CASE total_terminal = 0
      BY <1>1, <1>3, <2>1, <3>1 DEF TickStartShell, MapInv, Booting
    <3>2. CASE total_terminal # 0
      <4>1. total_terminal \in Terminals /\ total_terminal + 1 \in Terminals
            /\ NextTerminal(total_terminal) = total_terminal + 1
        BY <1>1, <2>1, <3>2 DEF Terminals, NextTerminal
      <4>2. SwitchTerminal(total_terminal, total_terminal + 1)
            /\ curr_scheduled' = NextTerminal(curr_scheduled)
        BY <1>3, <3>2 DEF TickStartShell
      <4>3. curr_scheduled = total_terminal
        BY <1>1, <2>1, <3>2 DEF MapInv, Booting
      <4> QED
        BY <2>1, <4>1, <4>2, <4>3, SwitchFindsScreens
    <3> QED
      BY <3>1, <3>2
  <2>3. ASSUME NEW t \in Terminals, t > total_terminal'
        PROVE  screen_x'[t] = 0 /\ screen_y'[t] = 0
    <3>1. screen_x \in [Terminals -> Cols] /\ screen_y \in [Terminals -> 0 .. NUM_ROWS]
      BY DEF Inv, TypeOK, Cols
    <3>2. screen_x[t] = 0 /\ screen_y[t] = 0
      BY <1>1, <2>1, <2>3 DEF MapInv, Booting
    <3> QED
      BY <2>1, <3>1, <3>2
  <2>4. Booting'
    BY <1>1, <2>1, <2>2, <2>3 DEF Booting
  <2>5. PrintsMapped'
    <3>1. curr_scheduled' \in Terminals
      BY <1>1, <2>1, <2>2 DEF Terminals
    <3> QED
      BY <2>1, <2>2, <3>1 DEF PrintsMapped
  <2> QED
    BY <2>4, <2>5 DEF MapInv
<1>4. CASE TickFinishBoot
  <2>1. total_terminal' = NT + 1 /\ curr_scheduled' = NT /\ SwitchTerminal(NT, 1)
        /\ UNCHANGED out
    BY <1>4 DEF TickFinishBoot
  <2>2. NT \in Terminals /\ 1 \in Terminals
    BY DEF Terminals
  <2>3. out'[NT].at = "run"
    BY <2>1, <2>2, SwitchFindsScreens
  <2>4. Booting'
    BY <2>1 DEF Booting
  <2>5. PrintsMapped'
    BY <2>1, <2>3 DEF PrintsMapped
  <2> QED
    BY <2>4, <2>5 DEF MapInv
<1> QED
  BY <1>2, <1>3, <1>4 DEF Tick

LEMMA WriteMap ==
  ASSUME Inv, MapInv, NEW ch \in Chars \cup {Newline}, Write(ch)
  PROVE  MapInv'
<1>1. ch \in Printed
  BY DEF Printed
<1>2. curr_terminal \in Terminals /\ curr_scheduled \in Terminals
      /\ VIDEO \in Pages /\ video_mem \in Pages
  BY DEF Inv, TypeOK, Pages
<1>3. screen_y[curr_scheduled] \in Rows
  BY <1>2 DEF Inv, OnScreen, MustBeOnScreen, Write, Running
<1>4. UNCHANGED <<schedVars, out>>
  BY DEF Write
<1>5. CASE /\ curr_scheduled = curr_terminal /\ total_terminal > 0
           /\ SetDisplay(Putc(ScreenOn(VIDEO, curr_terminal), ch))
  <2>1. Putc(ScreenOn(VIDEO, curr_terminal), ch) \in Whole
    BY <1>1, <1>2, <1>3, <1>5, ScreenOnTyped, PutcTyped
  <2> QED
    BY <1>4, <1>5, <2>1, DisplayMap
<1>6. CASE /\ curr_scheduled # curr_terminal /\ Mapped
           /\ SetScreen(video_mem, curr_scheduled,
                        Putc(ScreenOn(video_mem, curr_scheduled), ch))
  <2> DEFINE s == Putc(ScreenOn(video_mem, curr_scheduled), ch)
  <2>1. s \in Whole
    BY <1>1, <1>2, <1>3, ScreenOnTyped, PutcTyped
  <2>2. s \in Low /\ SetScreen(video_mem, curr_scheduled, s)
    BY <1>6, <2>1 DEF Whole, Low, Rows
  <2> HIDE DEF s
  <2>3. \A u \in Terminals : u # curr_scheduled =>
          screen_x'[u] = screen_x[u] /\ screen_y'[u] = screen_y[u]
    BY <1>2, <2>2, SetScreenTyped
  <2>4. curr_scheduled <= total_terminal
    BY <1>6, MappedLive, PrintsLive
  <2> QED
    BY <1>2, <1>4, <2>3, <2>4, MapKept
<1> QED
  BY <1>5, <1>6 DEF Write

LEMMA MapNext ==
  ASSUME BetweenCharacters, Inv, MapInv, [Next]_vars
  PROVE  MapInv'
<1>1. ASSUME NEW ch \in Chars \cup {Newline}, Write(ch) \/ BeginPrintf(ch)
      PROVE  MapInv'
  BY <1>1, WriteMap, BeginMap DEF BeginPrintf
<1>2. CASE BeginNewline
  BY <1>2, BeginMap DEF BeginNewline
<1>3. CASE Store \/ Advance \/ Finish
  <2> DEFINE s == ScreenOn(ToPage, ToCursor)
             ch == out[curr_scheduled].c
  <2>1. out[curr_scheduled].at \in {"store", "advance", "finish"}
    BY <1>3 DEF Store, Advance, Finish, Step, Running
  <2>2. ToPage \in Pages /\ ToCursor = curr_scheduled
        /\ curr_scheduled \in Terminals /\ ch \in Printed
    BY <2>1, OwnScreen
  <2>3. s \in Low /\ (MustBeOnScreen(curr_scheduled) => s \in Whole)
    BY <2>2, ScreenOnTyped DEF Inv, OnScreen
  <2>4. CASE Store
    <3>1. Step("store", "advance", Stored(s, ch)) /\ s \in Whole
      BY <2>3, <2>4 DEF Store, Step, Running, MustBeOnScreen
    <3> HIDE DEF s, ch
    <3>2. Stored(s, ch) \in Low
      BY <2>2, <3>1, StoredTyped
    <3> QED
      BY <3>1, <3>2, StepMap DEF Points
  <2>5. CASE Advance
    <3>1. Step("advance", "finish", Advanced(s, ch)) /\ (ch # Newline => s \in Whole)
      BY <2>3, <2>5 DEF Advance, Step, Running, MustBeOnScreen
    <3> HIDE DEF s, ch
    <3>2. Advanced(s, ch) \in Low
      BY <2>2, <2>3, <3>1, AdvancedTyped
    <3> QED
      BY <3>1, <3>2, StepMap DEF Points
  <2>6. CASE Finish
    <3>1. Step("finish", "run", Finished(s))
      BY <2>6 DEF Finish
    <3> HIDE DEF s
    <3>2. Finished(s) \in Whole
      BY <2>3, FinishedTyped
    <3>3. Finished(s) \in Low
      BY <3>2 DEF Whole, Low, Rows
    <3> QED
      BY <3>1, <3>3, StepMap DEF Points
  <2> QED
    BY <1>3, <2>4, <2>5, <2>6
<1>4. CASE Vidmap
  <2>1. Booting'
    BY <1>4 DEF Vidmap, MapInv, Booting, screenVars
  <2>2. PrintsMapped'
    BY <1>4 DEF Vidmap, PrintsMapped, Running
  <2> QED
    BY <2>1, <2>2 DEF MapInv
<1>5. ASSUME NEW i \in Cells, NEW ch \in Chars, Draw(i, ch)
      PROVE  MapInv'
  <2>1. UNCHANGED <<schedVars, screen_x, screen_y, out>>
    BY <1>5 DEF Draw
  <2> QED
    BY <2>1 DEF schedVars, MapInv, Booting, PrintsMapped, Mapped, Target
<1>6. CASE ShellExits \/ PressCtrlL
  <2>1. SetDisplay([text |-> Empty, x |-> 0, y |-> 0]) /\ UNCHANGED <<schedVars, out>>
        /\ total_terminal > NT
    BY <1>6 DEF ShellExits, PressCtrlL, MayPress
  <2>2. total_terminal > 0
    BY <2>1 DEF Inv, TypeOK
  <2> QED
    BY <2>1, <2>2, EmptyScreen, DisplayMap
<1>7. ASSUME NEW ch \in Chars, Echo(ch)
      PROVE  MapInv'
  <2> DEFINE s == ScreenOn(VIDEO, curr_terminal)
  <2>1. MayPress /\ SetDisplay(Putc(s, ch)) /\ UNCHANGED <<schedVars, out>>
    BY <1>7 DEF Echo
  <2>2. s \in Whole /\ ch \in Printed /\ total_terminal > 0
    BY <2>1, PressFindsScreen DEF Printed, MayPress, Inv, TypeOK
  <2> HIDE DEF s
  <2>3. Putc(s, ch) \in Whole
    BY <2>2, PutcTyped
  <2> QED
    BY <2>1, <2>2, <2>3, DisplayMap
<1>8. CASE Backspace
  <2> DEFINE s    == ScreenOn(VIDEO, curr_terminal)
             wipe == Putc(Moved(s, s.x - 1, s.y), Blank)
             last == Moved(wipe, wipe.x - 1, wipe.y)
  <2>1. MayPress /\ SetDisplay(last) /\ UNCHANGED <<schedVars, out>>
        /\ <<s.x, s.y>> # <<0, 0>>
    BY <1>8 DEF Backspace
  <2>2. s \in Whole /\ total_terminal > 0
    BY <2>1, PressFindsScreen DEF MayPress, Inv, TypeOK
  <2> HIDE DEF s
  <2>3. last \in Whole
    BY <2>1, <2>2, BackspaceErases
  <2> HIDE DEF last
  <2> QED
    BY <2>1, <2>2, <2>3, DisplayMap
<1>9. ASSUME NEW t \in Terminals, PressAltFn(t)
      PROVE  MapInv'
  BY <1>9 DEF PressAltFn, screenVars, MapInv, Booting, PrintsMapped, Mapped, Target
<1>10. CASE Tick
  BY <1>10, TickMap
<1>11. CASE UNCHANGED vars
  BY <1>11 DEF vars, schedVars, screenVars, MapInv, Booting, PrintsMapped, Mapped, Target
<1> QED
  BY <1>1, <1>2, <1>3, <1>4, <1>5, <1>6, <1>7, <1>8, <1>9, <1>10, <1>11 DEF Next

-----------------------------------------------------------------------------
(* The screens that the pages stand for *)

\* No character is called Nothing.
Unnamed == Nothing \notin Printed

\* The screen of terminal t, wherever its page is.
Own(t) == ScreenOn(Target(t, curr_terminal), t)

LEMMA PagesDiffer ==
  ASSUME NEW t \in Terminals, NEW u \in Terminals, NEW shown \in Terminals, t # u
  PROVE  Target(t, shown) # Target(u, shown)
BY DEF Target, Terminals, VIDEO

LEMMA OwnTyped ==
  ASSUME Inv, NEW t \in Terminals
  PROVE  /\ Own(t) \in Low
         /\ MustBeOnScreen(t) => Own(t) \in Whole
<1>1. Target(t, curr_terminal) \in Pages
  BY PutawayTyped DEF Inv, TypeOK
<1> QED
  BY <1>1, ScreenOnTyped DEF Own, Inv, OnScreen

LEMMA QuietCompleted ==
  ASSUME NEW t \in Terminals, out[t].at \in {"run", "store"}
  PROVE  Completed(t) = Own(t)
<1>1. out[t].at # "advance" /\ out[t].at # "finish"
  OBVIOUS
<1> QED
  BY <1>1 DEF Completed, Own

LEMMA OwnSet ==
  ASSUME Inv, NEW t \in Terminals, NEW s \in Low,
         SetScreen(Target(t, curr_terminal), t, s), UNCHANGED curr_terminal
  PROVE  /\ Own(t)' = s
         /\ \A u \in Terminals : u # t => Own(u)' = Own(u)
<1>1. curr_terminal \in Terminals /\ page \in [Pages -> Texts]
      /\ \A u \in Terminals : Target(u, curr_terminal) \in Pages
  BY PutawayTyped DEF Inv, TypeOK, Texts
<1>2. /\ screen_x'[t] = s.x /\ screen_y'[t] = s.y
      /\ \A u \in Terminals : u # t =>
           screen_x'[u] = screen_x[u] /\ screen_y'[u] = screen_y[u]
  BY <1>1, SetScreenTyped
<1>3. page' = [page EXCEPT ![Target(t, curr_terminal)] = s.text]
  BY DEF SetScreen
<1>4. page'[Target(t, curr_terminal)] = s.text
  BY <1>1, <1>3
<1>5. s = [text |-> s.text, x |-> s.x, y |-> s.y]
  BY DEF Low
<1>6. Own(t)' = [text |-> page'[Target(t, curr_terminal)], x |-> screen_x'[t], y |-> screen_y'[t]]
  BY DEF Own, ScreenOn, Target
<1>7. ASSUME NEW u \in Terminals, u # t
      PROVE  Own(u)' = Own(u)
  <2>1. page'[Target(u, curr_terminal)] = page[Target(u, curr_terminal)]
    BY <1>1, <1>3, <1>7, PagesDiffer
  <2> QED
    BY <1>2, <1>7, <2>1 DEF Own, ScreenOn, Target
<1> QED
  BY <1>2, <1>4, <1>5, <1>6, <1>7

LEMMA SameCompleted ==
  ASSUME NEW t \in Terminals, Own(t)' = Own(t), out'[t] = out[t]
  PROVE  Completed(t)' = Completed(t)
BY DEF Completed, Own

\* One screen of the mapping changes, or none.
LEMMA OneView ==
  ASSUME NEW t \in Terminals, NEW s, Completed(t)' = s,
         \A u \in Terminals : u # t => Completed(u)' = Completed(u)
  PROVE  /\ Text' = [Text EXCEPT ![t] = s.text]
         /\ Pos' = [Pos EXCEPT ![t] = At(s)]
<1>1. Text' = [u \in Terminals |-> Completed(u)'.text]
      /\ Pos' = [u \in Terminals |-> Position(Completed(u)'.x, Completed(u)'.y)]
  BY DEF Text, Pos, Position
<1>2. Text = [u \in Terminals |-> Completed(u).text]
      /\ Pos = [u \in Terminals |-> Position(Completed(u).x, Completed(u).y)]
  BY DEF Text, Pos
<1> QED
  BY <1>1, <1>2 DEF At

LEMMA SameView ==
  ASSUME \A u \in Terminals : Completed(u)' = Completed(u)
  PROVE  Text' = Text /\ Pos' = Pos
<1>1. Text' = [u \in Terminals |-> Completed(u)'.text]
      /\ Pos' = [u \in Terminals |-> Position(Completed(u)'.x, Completed(u)'.y)]
  BY DEF Text, Pos, Position
<1>2. Text = [u \in Terminals |-> Completed(u).text]
      /\ Pos = [u \in Terminals |-> Position(Completed(u).x, Completed(u).y)]
  BY DEF Text, Pos
<1> QED
  BY <1>1, <1>2

LEMMA PutView ==
  ASSUME NEW t \in Terminals, NEW s \in Whole, NEW ch \in Printed,
         Completed(t) = s, Completed(t)' = Putc(s, ch),
         \A u \in Terminals : u # t => Completed(u)' = Completed(u)
  PROVE  VS!Put(t, ch)
<1>1. Text[t] = s.text /\ Pos[t] = At(s)
  BY DEF Text, Pos, At
<1> DEFINE r == Putc(s, ch)
           in == After(s, ch) \in Cells
<1>2. Text' = [Text EXCEPT ![t] = r.text] /\ Pos' = [Pos EXCEPT ![t] = At(r)]
  BY OneView
<1>3. /\ r.text = IF in THEN Written(s, ch) ELSE VS!Up(Written(s, ch))
      /\ At(r) = IF in THEN After(s, ch) ELSE After(s, ch) - NUM_COLS
  BY PutcPuts
<1> HIDE DEF r
<1>4. VS!Cells = Cells
  BY DEF VS!Cells, Cells
<1>5. /\ Text' = [Text EXCEPT ![t] = IF in THEN Written(s, ch) ELSE VS!Up(Written(s, ch))]
      /\ Pos' = [Pos EXCEPT ![t] = IF in THEN After(s, ch) ELSE After(s, ch) - NUM_COLS]
  BY <1>2, <1>3
<1>6. /\ Written(s, ch) = IF ch = Newline THEN Text[t] ELSE [Text[t] EXCEPT ![Pos[t]] = ch]
      /\ After(s, ch) = IF ch = Newline THEN (Pos[t] \div NUM_COLS + 1) * NUM_COLS
                        ELSE Pos[t] + 1
  BY <1>1 DEF Written, After
<1> QED
  BY <1>4, <1>5, <1>6 DEF VS!Put

LEMMA DueQuiet ==
  ASSUME NEW t \in Terminals, out[t].at # "store"
  PROVE  Due[t] = Nothing
BY DEF Due

LEMMA DueSame ==
  ASSUME \A u \in Terminals :
           \/ out'[u] = out[u]
           \/ out[u].at # "store" /\ out'[u].at # "store"
  PROVE  Due' = Due
<1>1. Due' = [u \in Terminals |-> IF out'[u].at = "store" THEN out'[u].c ELSE Nothing]
  BY DEF Due
<1> QED
  BY <1>1 DEF Due

LEMMA VSConstants ==
  /\ VS!Terminals = Terminals /\ VS!Cells = Cells /\ VS!Empty = Empty
  /\ VS!Nothing = Nothing
BY DEF VS!Terminals, Terminals, VS!Cells, Cells, VS!Empty, Empty, VS!Nothing, Nothing

\* A screen set on the display while its program is between two characters.
LEMMA DisplayView ==
  ASSUME Inv, NEW s \in Whole, SetDisplay(s), UNCHANGED <<schedVars, out>>,
         out[curr_terminal].at = "run"
  PROVE  /\ Completed(curr_terminal) = ScreenOn(VIDEO, curr_terminal)
         /\ Completed(curr_terminal)' = s
         /\ \A u \in Terminals : u # curr_terminal => Completed(u)' = Completed(u)
         /\ UNCHANGED curr_terminal /\ Due' = Due
<1>1. curr_terminal \in Terminals /\ s \in Low /\ UNCHANGED <<curr_terminal, out>>
  BY DEF Inv, TypeOK, Whole, Low, Rows, schedVars
<1>2. Target(curr_terminal, curr_terminal) = VIDEO
  BY DEF Target
<1>3. SetScreen(Target(curr_terminal, curr_terminal), curr_terminal, s)
  BY <1>2 DEF SetDisplay
<1>4. Own(curr_terminal)' = s /\ \A u \in Terminals : u # curr_terminal => Own(u)' = Own(u)
  <2> DEFINE t == curr_terminal
  <2>1. Own(t) = ScreenOn(VIDEO, t)
    BY <1>2 DEF Own
  <2>2. \A t0 \in Terminals : t0 = curr_terminal =>
          /\ Own(t0)' = s
          /\ \A u \in Terminals : u # t0 => Own(u)' = Own(u)
    BY <1>1, <1>3, OwnSet
  <2>3. \A t0 \in Terminals : t0 = curr_terminal => Own(curr_terminal)' = Own(t0)'
    BY <1>1
  <2> QED
    BY <1>1, <2>2, <2>3
<1>5. Completed(curr_terminal) = Own(curr_terminal)
  BY <1>1, QuietCompleted
<1>6. Completed(curr_terminal)' = Own(curr_terminal)'
  BY <1>1, QuietCompleted DEF Completed, Own
<1>7. \A u \in Terminals : u # curr_terminal => Completed(u)' = Completed(u)
  BY <1>1, <1>4, SameCompleted
<1>8. Due' = Due
  BY <1>1, DueSame
<1> QED
  BY <1>1, <1>2, <1>4, <1>5, <1>6, <1>7, <1>8 DEF Own

-----------------------------------------------------------------------------
(* Every action is a step of VirtualScreens or a stutter *)

LEMMA RefineWrite ==
  ASSUME Inv, NEW ch \in Chars \cup {Newline}, Write(ch)
  PROVE  VS!Write(curr_scheduled, ch)
<1>1. curr_scheduled \in Terminals /\ curr_terminal \in Terminals /\ ch \in Printed
      /\ out[curr_scheduled].at = "run" /\ UNCHANGED <<schedVars, out>>
  BY DEF Inv, TypeOK, Write, Running, Printed
<1>2. Own(curr_scheduled) \in Whole
  BY <1>1, OwnTyped DEF MustBeOnScreen
<1>3. Due[curr_scheduled] = Nothing
  BY <1>1, DueQuiet
<1>4. Due' = Due /\ UNCHANGED curr_terminal
  BY <1>1, DueSame DEF schedVars
<1>5. Completed(curr_scheduled) = Own(curr_scheduled)
  BY <1>1, QuietCompleted
<1>6. VS!Put(curr_scheduled, ch)
  <2> DEFINE s == Own(curr_scheduled)
  <2>1. SetScreen(Target(curr_scheduled, curr_terminal), curr_scheduled, Putc(s, ch))
    BY DEF Write, SetDisplay, Mapped, Own, Target
  <2>2. Putc(s, ch) \in Whole
    BY <1>1, <1>2, PutcTyped
  <2>3. Putc(s, ch) \in Low
    BY <2>2 DEF Whole, Low, Rows
  <2>4. \A t \in Terminals : t = curr_scheduled => VS!Put(t, ch)
    <3> SUFFICES ASSUME NEW t \in Terminals, t = curr_scheduled PROVE VS!Put(t, ch)
      OBVIOUS
    <3>1. Own(t) = s /\ Completed(t) = s /\ out'[t].at = "run" /\ out' = out
      BY <1>1, <1>5
    <3>2. Own(t)' = Putc(s, ch) /\ \A u \in Terminals : u # t => Own(u)' = Own(u)
      BY <1>4, <2>1, <2>3, OwnSet
    <3>3. Completed(t)' = Own(t)'
      BY <3>1 DEF Completed, Own
    <3>4. \A u \in Terminals : u # t => Completed(u)' = Completed(u)
      BY <3>1, <3>2, SameCompleted
    <3> HIDE DEF s
    <3> QED
      BY <1>1, <1>2, <3>1, <3>2, <3>3, <3>4, PutView DEF s
  <2> QED
    BY <1>1, <2>4
<1> QED
  BY <1>3, <1>4, <1>6 DEF VS!Write, VS!Nothing, Nothing

LEMMA RefineBegin ==
  ASSUME Inv, NEW by, NEW ch, Begin(by, ch)
  PROVE  VS!Begin(curr_scheduled, ch)
<1>1. curr_scheduled \in Terminals /\ out[curr_scheduled].at = "run"
      /\ out' = [out EXCEPT ![curr_scheduled] = [at |-> "store", by |-> by, c |-> ch]]
      /\ UNCHANGED <<schedVars, screenVars>>
      /\ out \in [Terminals -> [at : Points, by : {"putc", "putc2"},
                               c : Chars \cup {Blank, Newline}]]
  BY DEF Inv, TypeOK, Begin, Running
<1>2. \A u \in Terminals : Own(u)' = Own(u)
  BY <1>1 DEF Own, ScreenOn, Target, schedVars, screenVars
<1>3. ASSUME NEW u \in Terminals PROVE Completed(u)' = Completed(u)
  <2>1. CASE u = curr_scheduled
    <3>1. out[u].at = "run" /\ out'[u].at = "store"
      BY <1>1, <2>1
    <3> QED
      BY <1>2, <3>1 DEF Completed, Own
  <2>2. CASE u # curr_scheduled
    BY <1>1, <1>2, <2>2, SameCompleted
  <2> QED
    BY <2>1, <2>2
<1>4. Text' = Text /\ Pos' = Pos
  BY <1>3, SameView
<1>5. Due' = [Due EXCEPT ![curr_scheduled] = ch]
  <2>1. Due' = [u \in Terminals |-> IF out'[u].at = "store" THEN out'[u].c ELSE Nothing]
    BY DEF Due
  <2> QED
    BY <1>1, <2>1 DEF Due
<1>6. Due[curr_scheduled] = Nothing /\ UNCHANGED curr_terminal
  BY <1>1, DueQuiet DEF schedVars
<1> QED
  BY <1>4, <1>5, <1>6 DEF VS!Begin, VS!Nothing, Nothing

\* The screen and the due character of a program that steps through putc.
LEMMA StepView ==
  ASSUME Inv, MapInv, NEW from \in Points \ {"run"}, NEW to \in Points, NEW s \in Low,
         Step(from, to, s)
  PROVE  /\ Own(curr_scheduled)' = s
         /\ \A u \in Terminals : u # curr_scheduled => Completed(u)' = Completed(u)
         /\ UNCHANGED <<curr_terminal, curr_scheduled>>
         /\ out'[curr_scheduled].at = to
         /\ to # "run" => out'[curr_scheduled].c = out[curr_scheduled].c
         /\ \A u \in Terminals : u # curr_scheduled => out'[u] = out[u]
<1>1. /\ out[curr_scheduled].at # "run" /\ UNCHANGED <<curr_terminal, curr_scheduled>>
      /\ SetScreen(ToPage, ToCursor, s)
      /\ out' = [out EXCEPT ![curr_scheduled] = IF to = "run" THEN Quiet ELSE [@ EXCEPT !.at = to]]
  BY DEF Step, Running, schedVars
<1>2. /\ ToCursor = curr_scheduled /\ curr_scheduled \in Terminals
      /\ out \in [Terminals -> [at : Points, by : {"putc", "putc2"},
                               c : Chars \cup {Blank, Newline}]]
  BY <1>1, OwnScreen DEF Inv, TypeOK
<1>3. ToPage = Target(curr_scheduled, curr_terminal)
  <2>1. Mapped
    BY <1>1 DEF MapInv, PrintsMapped
  <2>2. out[curr_scheduled].by = "putc2" => curr_scheduled = curr_terminal
    BY <1>1, <1>2 DEF Inv, EchoesOnDisplay
  <2> QED
    BY <2>1, <2>2 DEF ToPage, Mapped, Target
<1>4. SetScreen(Target(curr_scheduled, curr_terminal), curr_scheduled, s)
  BY <1>1, <1>2, <1>3
<1>5. /\ out'[curr_scheduled].at = to
      /\ to # "run" => out'[curr_scheduled].c = out[curr_scheduled].c
      /\ \A u \in Terminals : u # curr_scheduled => out'[u] = out[u]
  <2>1. CASE to = "run"
    BY <1>1, <1>2, <2>1 DEF Quiet
  <2>2. CASE to # "run"
    <3>1. out' = [out EXCEPT ![curr_scheduled] = [out[curr_scheduled] EXCEPT !.at = to]]
      BY <1>1, <2>2
    <3> QED
      BY <1>2, <2>2, <3>1
  <2> QED
    BY <2>1, <2>2
<1>6. ASSUME NEW t \in Terminals, t = curr_scheduled
      PROVE  Own(t)' = s /\ \A u \in Terminals : u # t => Own(u)' = Own(u)
  BY <1>1, <1>4, <1>6, OwnSet
<1>7. Own(curr_scheduled)' = s
  <2>1. \A t \in Terminals : t = curr_scheduled => Own(curr_scheduled)' = Own(t)'
    BY <1>1
  <2> QED
    BY <1>2, <1>6, <2>1
<1>8. \A u \in Terminals : u # curr_scheduled => Completed(u)' = Completed(u)
  BY <1>2, <1>5, <1>6, SameCompleted
<1> QED
  BY <1>1, <1>5, <1>7, <1>8

\* The screen that a program in the middle of a putc reads.
LEMMA StepReads ==
  ASSUME Inv, MapInv, out[curr_scheduled].at # "run"
  PROVE  /\ ScreenOn(ToPage, ToCursor) = Own(curr_scheduled)
         /\ curr_scheduled \in Terminals
         /\ out[curr_scheduled].c \in Printed
<1>1. ToCursor = curr_scheduled /\ curr_scheduled \in Terminals
      /\ out[curr_scheduled].c \in Printed
      /\ out[curr_scheduled].by \in {"putc", "putc2"}
  BY OwnScreen DEF Inv, TypeOK
<1>2. Mapped
  BY DEF MapInv, PrintsMapped
<1>3. out[curr_scheduled].by = "putc2" => curr_scheduled = curr_terminal
  BY <1>1 DEF Inv, EchoesOnDisplay
<1>4. ToPage = Target(curr_scheduled, curr_terminal)
  BY <1>2, <1>3 DEF ToPage, Mapped, Target
<1> QED
  BY <1>1, <1>4 DEF Own

LEMMA RefineStore ==
  ASSUME Unnamed, Inv, MapInv, Store
  PROVE  VS!End(curr_scheduled)
<1> DEFINE s  == Own(curr_scheduled)
           ch == out[curr_scheduled].c
<1>1. out[curr_scheduled].at = "store"
  BY DEF Store, Step, Running
<1>2. ScreenOn(ToPage, ToCursor) = s /\ curr_scheduled \in Terminals /\ ch \in Printed
  BY <1>1, StepReads
<1>3. s \in Whole
  BY <1>1, <1>2, OwnTyped DEF MustBeOnScreen
<1>4. Step("store", "advance", Stored(s, ch))
  BY <1>2 DEF Store
<1>5. Completed(curr_scheduled) = s
  BY <1>1, <1>2, QuietCompleted
<1>6. Stored(s, ch) \in Low
  BY <1>2, <1>3, StoredTyped
<1>7. /\ Own(curr_scheduled)' = Stored(s, ch)
      /\ \A u \in Terminals : u # curr_scheduled => Completed(u)' = Completed(u)
      /\ UNCHANGED <<curr_terminal, curr_scheduled>>
      /\ out'[curr_scheduled].at = "advance" /\ out'[curr_scheduled].c = ch
      /\ \A u \in Terminals : u # curr_scheduled => out'[u] = out[u]
  <2> HIDE DEF s
  <2> QED
    BY <1>4, <1>6, StepView DEF Points
<1>8. Completed(curr_scheduled)' = Putc(s, ch)
  <2>1. Completed(curr_scheduled)' = Finished(Advanced(Own(curr_scheduled)', out'[curr_scheduled].c))
    BY <1>7 DEF Completed, Own
  <2> HIDE DEF s
  <2> QED
    BY <1>7, <2>1 DEF Putc
<1>9. VS!Put(curr_scheduled, ch)
  <2>1. \A t \in Terminals : t = curr_scheduled => Completed(t)' = Completed(curr_scheduled)'
    BY <1>7
  <2> HIDE DEF s, ch
  <2> QED
    BY <1>2, <1>3, <1>5, <1>7, <1>8, <2>1, PutView
<1>10. Due[curr_scheduled] = ch /\ ch # Nothing
  BY <1>1, <1>2 DEF Due, Unnamed
<1>11. Due' = [Due EXCEPT ![curr_scheduled] = Nothing]
  <2>1. Due' = [u \in Terminals |-> IF out'[u].at = "store" THEN out'[u].c ELSE Nothing]
    BY DEF Due
  <2> QED
    BY <1>2, <1>7, <2>1 DEF Due
<1> QED
  BY <1>7, <1>9, <1>10, <1>11 DEF VS!End, VS!Nothing, Nothing

\* What a step leaves of the abstract state.
Stutters == UNCHANGED <<curr_terminal, Text, Pos, Due>>

LEMMA RefineAdvance ==
  ASSUME Inv, MapInv, Advance
  PROVE  Stutters
<1> DEFINE s  == Own(curr_scheduled)
           ch == out[curr_scheduled].c
<1>1. out[curr_scheduled].at = "advance"
  BY DEF Advance, Step, Running
<1>2. ScreenOn(ToPage, ToCursor) = s /\ curr_scheduled \in Terminals /\ ch \in Printed
  BY <1>1, StepReads
<1>3. s \in Low /\ (ch # Newline => s \in Whole)
  BY <1>1, <1>2, OwnTyped DEF MustBeOnScreen
<1>4. Step("advance", "finish", Advanced(s, ch))
  BY <1>2 DEF Advance
<1>5. Completed(curr_scheduled) = Finished(Advanced(s, ch))
  BY <1>1 DEF Completed, Own
<1>6. Advanced(s, ch) \in Low
  BY <1>2, <1>3, AdvancedTyped
<1>7. /\ Own(curr_scheduled)' = Advanced(s, ch)
      /\ \A u \in Terminals : u # curr_scheduled => Completed(u)' = Completed(u)
      /\ UNCHANGED <<curr_terminal, curr_scheduled>>
      /\ out'[curr_scheduled].at = "finish"
      /\ \A u \in Terminals : u # curr_scheduled => out'[u] = out[u]
  <2> HIDE DEF s
  <2> QED
    BY <1>4, <1>6, StepView DEF Points
<1>8. Completed(curr_scheduled)' = Finished(Own(curr_scheduled)')
  BY <1>7 DEF Completed, Own
<1>9. Text' = Text /\ Pos' = Pos
  <2>1. \A t \in Terminals : t = curr_scheduled => Completed(t)' = Completed(curr_scheduled)'
    BY <1>7
  <2> HIDE DEF s, ch
  <2> QED
    BY <1>2, <1>5, <1>7, <1>8, <2>1, SameView
<1>10. Due' = Due
  BY <1>1, <1>7, DueSame
<1> QED
  BY <1>7, <1>9, <1>10 DEF Stutters

LEMMA RefineFinish ==
  ASSUME Inv, MapInv, Finish
  PROVE  Stutters
<1> DEFINE s == Own(curr_scheduled)
<1>1. out[curr_scheduled].at = "finish"
  BY DEF Finish, Step, Running
<1>2. ScreenOn(ToPage, ToCursor) = s /\ curr_scheduled \in Terminals
  BY <1>1, StepReads
<1>3. s \in Low
  BY <1>2, OwnTyped
<1>4. Step("finish", "run", Finished(s))
  BY <1>2 DEF Finish
<1>5. Completed(curr_scheduled) = Finished(s)
  BY <1>1 DEF Completed, Own
<1>6. Finished(s) \in Low
  <2>1. Finished(s) \in Whole
    BY <1>3, FinishedTyped
  <2> QED
    BY <2>1 DEF Whole, Low, Rows
<1>7. /\ Own(curr_scheduled)' = Finished(s)
      /\ \A u \in Terminals : u # curr_scheduled => Completed(u)' = Completed(u)
      /\ UNCHANGED <<curr_terminal, curr_scheduled>>
      /\ out'[curr_scheduled].at = "run"
      /\ \A u \in Terminals : u # curr_scheduled => out'[u] = out[u]
  <2> HIDE DEF s
  <2> QED
    BY <1>4, <1>6, StepView DEF Points
<1>8. Completed(curr_scheduled)' = Own(curr_scheduled)'
  BY <1>7 DEF Completed, Own
<1>9. Text' = Text /\ Pos' = Pos
  <2>1. \A t \in Terminals : t = curr_scheduled => Completed(t)' = Completed(curr_scheduled)'
    BY <1>7
  <2> HIDE DEF s
  <2> QED
    BY <1>2, <1>5, <1>7, <1>8, <2>1, SameView
<1>10. Due' = Due
  BY <1>1, <1>7, DueSame
<1> QED
  BY <1>7, <1>9, <1>10 DEF Stutters

\* Nothing on the screens, and no due character, changes.
LEMMA NothingSeen ==
  ASSUME UNCHANGED <<curr_terminal, page, screen_x, screen_y, out>>
  PROVE  Stutters
<1>1. \A u \in Terminals : Own(u)' = Own(u) /\ out'[u] = out[u]
  BY DEF Own, ScreenOn, Target
<1>2. \A u \in Terminals : Completed(u)' = Completed(u)
  BY <1>1, SameCompleted
<1>3. Text' = Text /\ Pos' = Pos
  BY <1>2, SameView
<1>4. Due' = Due
  BY <1>1, DueSame
<1> QED
  BY <1>3, <1>4 DEF Stutters

LEMMA RefineDraw ==
  ASSUME Inv, NEW i \in Cells, NEW ch \in Chars, Draw(i, ch)
  PROVE  VS!Draw(curr_scheduled, i, ch)
<1>1. /\ out[curr_scheduled].at = "run"
      /\ video_mem = Target(curr_scheduled, curr_terminal)
      /\ page' = [page EXCEPT ![video_mem] = [page[video_mem] EXCEPT ![i] = ch]]
      /\ UNCHANGED <<curr_terminal, curr_scheduled, screen_x, screen_y, out>>
  BY DEF Draw, Running, Mapped, schedVars
<1>2. curr_scheduled \in Terminals /\ curr_terminal \in Terminals
      /\ page \in [Pages -> Texts]
      /\ \A u \in Terminals : Target(u, curr_terminal) \in Pages
  BY PutawayTyped DEF Inv, TypeOK, Texts
<1>3. Own(curr_scheduled)' = [text |-> [page[video_mem] EXCEPT ![i] = ch],
                              x |-> screen_x[curr_scheduled], y |-> screen_y[curr_scheduled]]
  BY <1>1, <1>2 DEF Own, ScreenOn, Target
<1>4. Own(curr_scheduled) = [text |-> page[video_mem],
                             x |-> screen_x[curr_scheduled], y |-> screen_y[curr_scheduled]]
  BY <1>1 DEF Own, ScreenOn
<1>5. ASSUME NEW u \in Terminals, u # curr_scheduled
      PROVE  Completed(u)' = Completed(u)
  <2>1. page'[Target(u, curr_terminal)] = page[Target(u, curr_terminal)]
    BY <1>1, <1>2, <1>5, PagesDiffer
  <2>2. Own(u)' = Own(u)
    BY <1>1, <2>1 DEF Own, ScreenOn, Target
  <2> QED
    BY <1>1, <2>2, SameCompleted
<1>6. Completed(curr_scheduled) = Own(curr_scheduled)
  BY <1>1, <1>2, QuietCompleted
<1>7. Completed(curr_scheduled)' = Own(curr_scheduled)'
  BY <1>1 DEF Completed, Own
<1> DEFINE f == [page[video_mem] EXCEPT ![i] = ch]
           s == [text |-> f, x |-> screen_x[curr_scheduled], y |-> screen_y[curr_scheduled]]
<1>8. /\ Text' = [Text EXCEPT ![curr_scheduled] = s.text]
      /\ Pos' = [Pos EXCEPT ![curr_scheduled] = At(s)]
  <2>1. \A t \in Terminals : t = curr_scheduled => Completed(t)' = Completed(curr_scheduled)'
    BY <1>1
  <2>2. Completed(curr_scheduled)' = s
    BY <1>3, <1>7
  <2> HIDE DEF s
  <2> QED
    BY <1>2, <1>5, <2>1, <2>2, OneView
<1>9. Text[curr_scheduled] = page[video_mem]
      /\ Pos[curr_scheduled] = Position(screen_x[curr_scheduled], screen_y[curr_scheduled])
  BY <1>2, <1>4, <1>6 DEF Text, Pos
<1>10. Text' = [Text EXCEPT ![curr_scheduled][i] = ch]
  BY <1>8, <1>9
<1>11. Pos' = Pos
  BY <1>8, <1>9 DEF At, Pos
<1>12. Due' = Due
  BY <1>1, DueSame
<1> QED
  BY <1>1, <1>10, <1>11, <1>12 DEF VS!Draw

\* A display set to the screen s shows on the abstract screens.
LEMMA ShownView ==
  ASSUME Inv, NEW s \in Whole, SetDisplay(s), UNCHANGED <<schedVars, out>>,
         out[curr_terminal].at = "run"
  PROVE  /\ Text' = [Text EXCEPT ![curr_terminal] = s.text]
         /\ Pos' = [Pos EXCEPT ![curr_terminal] = At(s)]
         /\ UNCHANGED <<curr_terminal, Due>>
         /\ Text[curr_terminal] = page[VIDEO]
         /\ Pos[curr_terminal] = At(ScreenOn(VIDEO, curr_terminal))
<1>1. /\ Completed(curr_terminal) = ScreenOn(VIDEO, curr_terminal)
      /\ Completed(curr_terminal)' = s
      /\ \A u \in Terminals : u # curr_terminal => Completed(u)' = Completed(u)
      /\ UNCHANGED curr_terminal /\ Due' = Due
  BY DisplayView
<1>2. curr_terminal \in Terminals
  BY DEF Inv, TypeOK
<1>3. \A t \in Terminals : t = curr_terminal => Completed(t)' = Completed(curr_terminal)'
  BY <1>1
<1>4. /\ Text' = [Text EXCEPT ![curr_terminal] = s.text]
      /\ Pos' = [Pos EXCEPT ![curr_terminal] = At(s)]
  BY <1>1, <1>2, <1>3, OneView
<1>5. Text[curr_terminal] = page[VIDEO]
      /\ Pos[curr_terminal] = At(ScreenOn(VIDEO, curr_terminal))
  BY <1>1, <1>2 DEF Text, Pos, ScreenOn, At
<1> QED
  BY <1>1, <1>4, <1>5

LEMMA RefineClear ==
  ASSUME Inv, BetweenCharacters, ShellExits \/ PressCtrlL
  PROVE  VS!Clear
<1> DEFINE s == [text |-> Empty, x |-> 0, y |-> 0]
<1>1. SetDisplay(s) /\ UNCHANGED <<schedVars, out>> /\ out[curr_terminal].at = "run"
  BY DEF ShellExits, PressCtrlL, MayPress, BetweenCharacters, Running
<1>2. s \in Whole
  BY EmptyScreen
<1>3. At(s) = 0 /\ s.text = Empty
  BY DEF At, Position
<1> HIDE DEF s
<1>4. /\ Text' = [Text EXCEPT ![curr_terminal] = Empty]
      /\ Pos' = [Pos EXCEPT ![curr_terminal] = 0]
      /\ UNCHANGED <<curr_terminal, Due>>
  BY <1>1, <1>2, <1>3, ShownView
<1> QED
  BY <1>4, VSConstants DEF VS!Clear

LEMMA RefineEcho ==
  ASSUME Inv, BetweenCharacters, NEW ch \in Chars, Echo(ch)
  PROVE  VS!Echo(ch)
<1> DEFINE s == ScreenOn(VIDEO, curr_terminal)
<1>1. /\ MayPress /\ SetDisplay(Putc(s, ch)) /\ UNCHANGED <<schedVars, out>>
      /\ out[curr_terminal].at = "run" /\ curr_terminal \in Terminals /\ ch \in Printed
  BY DEF Echo, MayPress, BetweenCharacters, Inv, TypeOK, Printed
<1>2. s \in Whole
  BY <1>1, PressFindsScreen
<1>3. Putc(s, ch) \in Whole
  BY <1>1, <1>2, PutcTyped
<1>4. /\ Completed(curr_terminal) = s
      /\ Completed(curr_terminal)' = Putc(s, ch)
      /\ \A u \in Terminals : u # curr_terminal => Completed(u)' = Completed(u)
      /\ UNCHANGED curr_terminal /\ Due' = Due
  BY <1>1, <1>3, DisplayView
<1>5. VS!Put(curr_terminal, ch)
  <2>1. \A t \in Terminals : t = curr_terminal => Completed(t)' = Completed(curr_terminal)'
    BY <1>4
  <2> HIDE DEF s
  <2> QED
    BY <1>1, <1>2, <1>4, <2>1, PutView
<1> QED
  BY <1>4, <1>5 DEF VS!Echo

LEMMA RefineBackspace ==
  ASSUME Inv, BetweenCharacters, Backspace
  PROVE  VS!Erase
<1> DEFINE s    == ScreenOn(VIDEO, curr_terminal)
           wipe == Putc(Moved(s, s.x - 1, s.y), Blank)
           last == Moved(wipe, wipe.x - 1, wipe.y)
<1>1. /\ MayPress /\ SetDisplay(last) /\ UNCHANGED <<schedVars, out>>
      /\ <<s.x, s.y>> # <<0, 0>> /\ out[curr_terminal].at = "run"
  BY DEF Backspace, MayPress, BetweenCharacters
<1>2. s \in Whole /\ s.text = page[VIDEO] /\ curr_terminal \in Terminals
  BY <1>1, PressFindsScreen DEF ScreenOn, Inv, TypeOK
<1> HIDE DEF s
<1>3. /\ last.text = [s.text EXCEPT ![At(s) - 1] = Blank]
      /\ At(last) = At(s) - 1 /\ At(s) > 0 /\ last \in Whole
  BY <1>1, <1>2, BackspaceErases
<1> HIDE DEF last
<1>4. /\ Text' = [Text EXCEPT ![curr_terminal] = last.text]
      /\ Pos' = [Pos EXCEPT ![curr_terminal] = At(last)]
      /\ UNCHANGED <<curr_terminal, Due>>
      /\ Text[curr_terminal] = page[VIDEO] /\ Pos[curr_terminal] = At(s)
  BY <1>1, <1>3, ShownView DEF s
<1>5. Text' = [Text EXCEPT ![curr_terminal][Pos[curr_terminal] - 1] = Blank]
  BY <1>2, <1>3, <1>4
<1>6. Pos' = [Pos EXCEPT ![curr_terminal] = @ - 1]
  BY <1>3, <1>4
<1> QED
  BY <1>3, <1>4, <1>5, <1>6 DEF VS!Erase

\* switch_terminal moves the pages and leaves every screen as it is.
LEMMA RefineSwitch ==
  ASSUME Inv, BetweenCharacters, NEW to \in Terminals,
         SwitchTerminal(curr_terminal, to), UNCHANGED out,
         screen_x' = screen_x, screen_y' = screen_y
  PROVE  VS!Show(to)
<1>1. /\ curr_terminal \in Terminals /\ page \in [Pages -> Texts]
      /\ curr_terminal \in Pages /\ to \in Pages /\ VIDEO \in Pages
      /\ \A t \in Terminals : t \in Pages /\ t # VIDEO
  BY DEF Inv, TypeOK, Texts, Pages, Terminals, VIDEO
<1>2. /\ curr_terminal' = to
      /\ \A p \in Pages : page'[p] = CASE p = VIDEO /\ to = curr_terminal -> page[VIDEO]
                                         [] p = VIDEO /\ to # curr_terminal -> page[to]
                                         [] p = curr_terminal -> page[VIDEO]
                                         [] OTHER -> page[p]
      /\ \A t \in Terminals : out[t].at = "run"
  BY SwitchFindsScreens, <1>1 DEF SwitchTerminal, Switched
<1>3. ASSUME NEW t \in Terminals
      PROVE  Own(t)' = Own(t)
  <2>1. page'[Target(t, to)] = page[Target(t, curr_terminal)]
    <3>1. CASE t = to
      BY <1>1, <1>2, <3>1 DEF Target
    <3>2. CASE t = curr_terminal
      BY <1>1, <1>2, <3>2 DEF Target
    <3>3. CASE t # to /\ t # curr_terminal
      BY <1>1, <1>2, <3>3 DEF Target
    <3> QED
      BY <3>1, <3>2, <3>3
  <2> QED
    BY <1>2, <2>1 DEF Own, ScreenOn, Target
<1>4. \A t \in Terminals : Completed(t)' = Completed(t)
  BY <1>3, SameCompleted
<1>5. Text' = Text /\ Pos' = Pos /\ Due' = Due
  BY <1>4, SameView, DueSame
<1> QED
  BY <1>2, <1>5 DEF VS!Show

LEMMA RefineTick ==
  ASSUME Inv, MapInv, BetweenCharacters, Tick
  PROVE  Stutters \/ \E t \in Terminals : VS!Show(t)
<1>1. /\ curr_terminal \in Terminals /\ total_terminal \in 0 .. NT + 1
      /\ screen_x \in [Terminals -> Cols] /\ screen_y \in [Terminals -> 0 .. NUM_ROWS]
  BY DEF Inv, TypeOK, Cols
<1>2. CASE TickRegular
  <2>1. UNCHANGED <<screen_x, screen_y, out>>
    BY <1>2 DEF TickRegular
  <2>2. CASE /\ switch_flag # 0 /\ switch_flag # curr_terminal
             /\ SwitchTerminal(curr_terminal, switch_flag)
    <3>1. switch_flag \in Terminals
      BY <2>2 DEF Inv, TypeOK, Terminals
    <3> QED
      BY <2>1, <2>2, <3>1, RefineSwitch
  <2>3. CASE UNCHANGED <<curr_terminal, page>>
    BY <2>1, <2>3, NothingSeen
  <2> QED
    BY <1>2, <2>2, <2>3 DEF TickRegular
<1>3. CASE TickStartShell
  <2>1. /\ total_terminal < NT /\ UNCHANGED out
        /\ screen_x' = [screen_x EXCEPT ![curr_terminal'] = 0]
        /\ screen_y' = [screen_y EXCEPT ![curr_terminal'] = 0]
    BY <1>3 DEF TickStartShell
  <2>2. \A t \in Terminals : t > total_terminal => screen_x[t] = 0 /\ screen_y[t] = 0
    BY <1>1, <2>1 DEF MapInv, Booting
  <2>3. CASE total_terminal = 0
    <3>1. curr_terminal = 1 /\ UNCHANGED <<curr_terminal, page>>
      BY <1>1, <1>3, <2>1, <2>3 DEF TickStartShell, MapInv, Booting
    <3>2. screen_x' = screen_x /\ screen_y' = screen_y
      BY <1>1, <2>1, <2>2, <2>3, <3>1 DEF Terminals
    <3> QED
      BY <2>1, <3>1, <3>2, NothingSeen
  <2>4. CASE total_terminal # 0
    <3>1. /\ curr_terminal = total_terminal
          /\ SwitchTerminal(curr_terminal, total_terminal + 1)
          /\ total_terminal + 1 \in Terminals
      BY <1>1, <1>3, <2>1, <2>4 DEF TickStartShell, MapInv, Booting, Terminals
    <3>2. curr_terminal' = total_terminal + 1 /\ total_terminal + 1 > total_terminal
      BY <1>1, <3>1 DEF SwitchTerminal
    <3>3. screen_x' = screen_x /\ screen_y' = screen_y
      BY <1>1, <2>1, <2>2, <3>1, <3>2
    <3>4. VS!Show(total_terminal + 1)
      BY <2>1, <3>1, <3>3, RefineSwitch
    <3> QED
      BY <3>1, <3>4
  <2> QED
    BY <2>3, <2>4
<1>4. CASE TickFinishBoot
  <2>1. total_terminal = NT /\ SwitchTerminal(NT, 1) /\ UNCHANGED <<screen_x, screen_y, out>>
    BY <1>4 DEF TickFinishBoot
  <2>2. curr_terminal = NT /\ 1 \in Terminals
    BY <1>1, <2>1 DEF MapInv, Booting, Terminals
  <2>3. SwitchTerminal(curr_terminal, 1)
    BY <2>1, <2>2
  <2> QED
    BY <2>1, <2>2, <2>3, RefineSwitch
<1> QED
  BY <1>2, <1>3, <1>4 DEF Tick

-----------------------------------------------------------------------------
(* The refinement *)

LEMMA RefineInit == Init => VS!Init
<1> SUFFICES ASSUME Init PROVE VS!Init
  OBVIOUS
<1>1. /\ curr_terminal = 1
      /\ \A t \in Terminals : out[t].at = "run" /\ screen_x[t] = 0 /\ screen_y[t] = 0
      /\ \A p \in Pages : page[p] = Empty
  BY DEF Init, Quiet
<1>2. ASSUME NEW t \in Terminals
      PROVE  Completed(t) = [text |-> Empty, x |-> 0, y |-> 0] /\ Due[t] = Nothing
  <2>1. Target(t, curr_terminal) \in Pages
    BY DEF Target, Pages
  <2>2. Own(t) = [text |-> Empty, x |-> 0, y |-> 0]
    BY <1>1, <2>1 DEF Own, ScreenOn
  <2> QED
    BY <1>1, <2>2, QuietCompleted, DueQuiet
<1>3. Text = [t \in Terminals |-> Empty]
  BY <1>2 DEF Text
<1>4. Pos = [t \in Terminals |-> 0]
  BY <1>2 DEF Pos, Position
<1>5. Due = [t \in Terminals |-> Nothing]
  BY <1>2 DEF Due
<1> QED
  BY <1>1, <1>3, <1>4, <1>5, VSConstants DEF VS!Init

LEMMA RefineNext ==
  BetweenCharacters /\ Unnamed /\ Inv /\ MapInv /\ [Next]_vars => [VS!Next]_(VS!vars)
<1> SUFFICES ASSUME BetweenCharacters, Unnamed, Inv, MapInv, [Next]_vars
             PROVE  VS!Next \/ Stutters
  BY DEF Stutters, VS!vars
<1>0. /\ curr_scheduled \in VS!Terminals
      /\ VS!Terminals = Terminals /\ VS!Cells = Cells
  BY VSConstants DEF Inv, TypeOK
<1>1. ASSUME NEW ch \in Chars \cup {Newline}, Write(ch) \/ BeginPrintf(ch)
      PROVE  VS!Next
  BY <1>0, <1>1, RefineWrite, RefineBegin DEF BeginPrintf, VS!Next
<1>2. CASE BeginNewline
  BY <1>0, <1>2, RefineBegin DEF BeginNewline, VS!Next
<1>3. CASE Store
  BY <1>0, <1>3, RefineStore DEF VS!Next
<1>4. CASE Advance \/ Finish
  BY <1>4, RefineAdvance, RefineFinish
<1>5. CASE Vidmap
  BY <1>5, NothingSeen DEF Vidmap, screenVars
<1>6. ASSUME NEW i \in Cells, NEW ch \in Chars, Draw(i, ch)
      PROVE  VS!Next
  BY <1>0, <1>6, RefineDraw DEF VS!Next
<1>7. CASE ShellExits \/ PressCtrlL
  BY <1>7, RefineClear DEF VS!Next
<1>8. ASSUME NEW ch \in Chars, Echo(ch)
      PROVE  VS!Next
  BY <1>8, RefineEcho DEF VS!Next
<1>9. CASE Backspace
  BY <1>9, RefineBackspace DEF VS!Next
<1>10. ASSUME NEW t \in Terminals, PressAltFn(t)
       PROVE  Stutters
  BY <1>10, NothingSeen DEF PressAltFn, screenVars
<1>11. CASE Tick
  BY <1>0, <1>11, RefineTick DEF VS!Next
<1>12. CASE UNCHANGED vars
  BY <1>12, NothingSeen DEF vars, schedVars, screenVars
<1> QED
  BY <1>1, <1>2, <1>3, <1>4, <1>5, <1>6, <1>7, <1>8, <1>9, <1>10, <1>11, <1>12 DEF Next

\* Screen.tla, ImplementsVirtualScreens: the pages, the copying of
\* switch_terminal and the interruptible putc and putc2 implement a private
\* screen for each terminal, for any number of terminals and screens of any size.
THEOREM PrivateScreens ==
  ASSUME BetweenCharacters, Unnamed
  PROVE  Spec => ImplementsVirtualScreens
<1>1. Inv /\ [Next]_vars => Inv'
  BY InvNext
<1>2. Inv /\ MapInv /\ [Next]_vars => MapInv'
  BY MapNext
<1>3. Inv /\ MapInv /\ [Next]_vars => [VS!Next]_(VS!vars)
  BY RefineNext
<1> QED
  BY InvInit, MapInit, RefineInit, <1>1, <1>2, <1>3, PTL
  DEF Spec, ImplementsVirtualScreens, VS!Spec

=============================================================================
