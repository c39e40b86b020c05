------------------------------- MODULE Screen -------------------------------
(***************************************************************************)
(* The screen (lib.c): four text pages, VIDEO on display and one page per  *)
(* terminal in the background; a cursor per terminal; putc, putc2 and      *)
(* scroll, the keyboard's echo, and switch_terminal, which copies pages    *)
(* when pit_handler serves an Alt-Fn.                                      *)
(*                                                                         *)
(* The system call write disables interrupts, so what programs write comes *)
(* out in one piece.  The newline that terminal_read prints, and printf in *)
(* execute, run with interrupts on; they are split into the store, the     *)
(* advance of the cursor, and scroll with update_cursor.  A cell is its    *)
(* character; attribute bytes never change.                                *)
(***************************************************************************)
EXTENDS Integers

CONSTANTS
  NT,        \* NUM_T terminals, each with the one program that runs there
  NUM_ROWS,
  NUM_COLS,
  Chars,     \* printing characters
  Blank,     \* ' '
  Newline,   \* '\n'
  SwitchAt,  \* points of programs at which the display may change
  EchoAt,    \* points of the displayed program at which a key may arrive
  MaxOut     \* bound of the model: characters put on screens

Terminals == 1 .. NT
VIDEO     == 0                \* page t > 0 is VIDEOt
Pages     == {VIDEO} \cup Terminals
Cells     == 0 .. NUM_ROWS * NUM_COLS - 1
Empty     == [i \in Cells |-> Blank]

\* Where a program stands in putc or putc2.
Points == {"run", "store", "advance", "finish"}

ASSUME SizeAssumption ==
  /\ NT \in Nat \ {0} /\ NUM_ROWS \in Nat \ {0} /\ NUM_COLS \in Nat \ {0}
  /\ MaxOut \in Nat
ASSUME TextAssumption  == Blank \notin Chars /\ Newline \notin Chars \cup {Blank}
ASSUME PointAssumption == SwitchAt \subseteq Points /\ EchoAt \subseteq Points

VARIABLES
  curr_terminal,    \* terminal on the display
  curr_scheduled,   \* terminal whose program owns the slice
  switch_flag,      \* terminal asked for with Alt-Fn, 0 for none
  total_terminal,   \* terminals created, NT+1 when booted
  page,             \* the text of the four pages
  video_mem,        \* page behind video_mem and the user's video page
  screen_x,
  screen_y,
  cursor,           \* position in the registers of the display
  out,              \* what each program is printing: [at, by, c]
  put               \* characters put on screens so far

schedVars  == <<curr_terminal, curr_scheduled, switch_flag, total_terminal, video_mem>>
screenVars == <<page, screen_x, screen_y, cursor>>
vars == <<schedVars, screenVars, out, put>>

Quiet == [at |-> "run", by |-> "putc", c |-> Blank]

Init ==
  /\ curr_terminal = 1
  /\ curr_scheduled = 1
  /\ switch_flag = 0
  /\ total_terminal = 0
  /\ page = [p \in Pages |-> Empty]
  /\ video_mem = VIDEO
  /\ screen_x = [t \in Terminals |-> 0]
  /\ screen_y = [t \in Terminals |-> 0]
  /\ cursor = 0
  /\ out = [t \in Terminals |-> Quiet]
  /\ put = 0

-----------------------------------------------------------------------------
(* putc, putc2 and scroll, on a screen s = [text, x, y] *)

ScrollUp(text) ==
  [i \in Cells |-> IF i + NUM_COLS \in Cells THEN text[i + NUM_COLS] ELSE Blank]

\* Below the last row lies memory of the page that is not displayed.
Stored(s, c) ==
  IF c = Newline THEN [s EXCEPT !.y = @ + 1, !.x = 0]
  ELSE [s EXCEPT !.text = [i \in Cells |-> IF i = NUM_COLS * s.y + s.x THEN c ELSE @[i]]]

Advanced(s, c) ==
  IF c = Newline THEN s
  ELSE [s EXCEPT !.x = (@ + 1) % NUM_COLS, !.y = @ + (s.x + 1) \div NUM_COLS]

FinishedTooLate(s) ==                                       \* mutant
  IF s.y > NUM_ROWS THEN [text |-> ScrollUp(s.text), x |-> 0, y |-> s.y - 1] ELSE s
Finished(s) ==
  IF s.y >= NUM_ROWS THEN [text |-> ScrollUp(s.text), x |-> 0, y |-> s.y - 1] ELSE s

Putc(s, c) == Finished(Advanced(Stored(s, c), c))

ScreenOn(p, t) == [text |-> page[p], x |-> screen_x[t], y |-> screen_y[t]]

SetScreen(p, t, s) ==
  /\ page' = [page EXCEPT ![p] = s.text]
  /\ screen_x' = [screen_x EXCEPT ![t] = s.x]
  /\ screen_y' = [screen_y EXCEPT ![t] = s.y]

\* update_cursor
Position(x, y) == NUM_COLS * y + x

SetDisplay(s) ==
  /\ SetScreen(VIDEO, curr_terminal, s)
  /\ cursor' = Position(s.x, s.y)

MayPut == put < MaxOut
OneMore == put' = put + 1

-----------------------------------------------------------------------------
(* Programs *)

Target(t, shown) == IF t = shown THEN VIDEO ELSE t

\* The boot ticks leave video_mem on another terminal's page.  Bound of the
\* model: until a later tick or vidmap has set it, programs print only by write,
\* and only on the display.
Mapped == total_terminal > 0 /\ video_mem = Target(curr_scheduled, curr_terminal)

Running(point) == out[curr_scheduled].at = point

\* write: terminal_write prints with putc2 or putc, whichever terminal is shown.
Write(c) ==
  /\ Running("run") /\ MayPut /\ OneMore
  /\ \/ /\ curr_scheduled = curr_terminal /\ total_terminal > 0
        /\ SetDisplay(Putc(ScreenOn(VIDEO, curr_terminal), c))
     \/ /\ curr_scheduled # curr_terminal /\ Mapped
        /\ SetScreen(video_mem, curr_scheduled,
                     Putc(ScreenOn(video_mem, curr_scheduled), c))
        /\ UNCHANGED cursor
  /\ UNCHANGED <<schedVars, out>>

Begin(by, c) ==
  /\ Running("run") /\ MayPut /\ OneMore
  /\ out' = [out EXCEPT ![curr_scheduled] = [at |-> "store", by |-> by, c |-> c]]
  /\ UNCHANGED <<schedVars, screenVars>>

\* execute prints MAX PROCESSES REACHED.
BeginPrintf(c) == Mapped /\ Begin("putc", c)

\* terminal_read saw Enter.
BeginNewline == curr_terminal = curr_scheduled /\ Mapped /\ Begin("putc2", Newline)

\* The page and the cursor that putc and putc2 use, read at every step.
ToPage   == IF out[curr_scheduled].by = "putc2" THEN VIDEO ELSE video_mem
ToCursor == IF out[curr_scheduled].by = "putc2" THEN curr_terminal ELSE curr_scheduled

Step(from, to, s) ==
  /\ Running(from)
  /\ SetScreen(ToPage, ToCursor, s)
  /\ out' = [out EXCEPT ![curr_scheduled] = IF to = "run" THEN Quiet ELSE [@ EXCEPT !.at = to]]
  /\ UNCHANGED <<schedVars, put>>

Store ==
  /\ Step("store", "advance",
          Stored(ScreenOn(ToPage, ToCursor), out[curr_scheduled].c))
  /\ UNCHANGED cursor

Advance ==
  /\ Step("advance", "finish",
          Advanced(ScreenOn(ToPage, ToCursor), out[curr_scheduled].c))
  /\ UNCHANGED cursor

\* scroll, and update_cursor: putc leaves it to the displayed program.
Finish ==
  LET s == Finished(ScreenOn(ToPage, ToCursor)) IN
  /\ Step("finish", "run", s)
  /\ cursor' = IF ToCursor = curr_terminal THEN Position(s.x, s.y) ELSE cursor

\* vidmap maps the page as pit_handler does.
Vidmap ==
  /\ Running("run") /\ total_terminal > 0
  /\ video_mem' = Target(curr_scheduled, curr_terminal)
  /\ UNCHANGED <<curr_terminal, curr_scheduled, switch_flag, total_terminal,
                 screenVars, out, put>>

\* A program that called vidmap writes into the page mapped for it.
Draw(i, c) ==
  /\ Running("run") /\ MayPut /\ OneMore
  /\ Mapped
  /\ page' = [page EXCEPT ![video_mem][i] = c]
  /\ UNCHANGED <<schedVars, screen_x, screen_y, cursor, out>>

\* halt of the last program of a terminal clears the display.  Bound of the
\* model: that terminal is shown (see halt in Processes).
ShellExits ==
  /\ Running("run") /\ curr_scheduled = curr_terminal /\ total_terminal > NT
  /\ SetDisplay([text |-> Empty, x |-> 0, y |-> 0])
  /\ UNCHANGED <<schedVars, out, put>>

-----------------------------------------------------------------------------
(* The keyboard *)

MayPress == total_terminal > NT /\ out[curr_terminal].at \in EchoAt

Echo(c) ==
  /\ MayPress /\ MayPut /\ OneMore
  /\ SetDisplay(Putc(ScreenOn(VIDEO, curr_terminal), c))
  /\ UNCHANGED <<schedVars, out>>

\* set_cursors: one column before the first is the end of the row above;
\* a place off the screen is ignored.
Moved(s, x, y) ==
  LET to == IF x < 0 THEN <<NUM_COLS - 1, y - 1>> ELSE <<x, y>>
  IN  IF to[1] \in 0 .. NUM_COLS - 1 /\ to[2] \in 0 .. NUM_ROWS - 1
        THEN [s EXCEPT !.x = to[1], !.y = to[2]] ELSE s

\* Step back, print a blank, step back.
Backspace ==
  LET s    == ScreenOn(VIDEO, curr_terminal)
      back == Moved(s, s.x - 1, s.y)
      wipe == Putc(back, Blank)
  IN  /\ MayPress
      /\ <<s.x, s.y>> # <<0, 0>>
      /\ SetDisplay(Moved(wipe, wipe.x - 1, wipe.y))
      /\ UNCHANGED <<schedVars, out, put>>

PressCtrlL ==
  /\ MayPress
  /\ SetDisplay([text |-> Empty, x |-> 0, y |-> 0])
  /\ UNCHANGED <<schedVars, out, put>>

PressAltFn(t) ==
  /\ MayPress
  /\ t # curr_terminal
  /\ switch_flag' = t
  /\ UNCHANGED <<curr_terminal, curr_scheduled, total_terminal, video_mem,
                 screenVars, out, put>>

-----------------------------------------------------------------------------
(* The timer *)

SwitchWithoutSaving(from, to) == [page EXCEPT ![VIDEO] = page[to]]   \* mutant
\* switch_terminal: VIDEO to the page put away, the other page to VIDEO.
Switched(from, to) ==
  LET saved == [page EXCEPT ![from] = page[VIDEO]]
  IN  [saved EXCEPT ![VIDEO] = saved[to]]

CursorStays(t) == cursor                                    \* mutant
CursorOf(t) == Position(screen_x[t], screen_y[t])

SwitchTerminal(from, to) ==
  /\ \A t \in Terminals : out[t].at \in SwitchAt
  /\ curr_terminal' = to
  /\ page' = Switched(from, to)

NextTerminal(t) == (t % NT) + 1

\* After boot: serve Alt-Fn, then map the next terminal.
TickRegular ==
  /\ total_terminal > NT
  /\ \/ /\ switch_flag # 0 /\ switch_flag # curr_terminal
        /\ SwitchTerminal(curr_terminal, switch_flag)
        /\ cursor' = CursorOf(switch_flag)
     \/ /\ switch_flag \in {0, curr_terminal}
        /\ UNCHANGED <<curr_terminal, page, cursor>>
  /\ switch_flag' = 0
  /\ video_mem' = Target(NextTerminal(curr_scheduled), curr_terminal')
  /\ curr_scheduled' = NextTerminal(curr_scheduled)
  /\ UNCHANGED <<total_terminal, screen_x, screen_y, out, put>>

\* Each of the first ticks shows a new terminal; the page is chosen before.
TickStartShell ==
  /\ total_terminal < NT
  /\ total_terminal' = total_terminal + 1
  /\ video_mem' = Target(NextTerminal(curr_scheduled), curr_terminal)
  /\ IF total_terminal = 0
       THEN UNCHANGED <<curr_terminal, curr_scheduled, page>>
       ELSE /\ SwitchTerminal(total_terminal, total_terminal + 1)
            /\ curr_scheduled' = NextTerminal(curr_scheduled)
  /\ screen_x' = [screen_x EXCEPT ![curr_terminal'] = 0]
  /\ screen_y' = [screen_y EXCEPT ![curr_terminal'] = 0]
  /\ cursor' = 0
  /\ UNCHANGED <<switch_flag, out, put>>

TickFinishBoot ==
  /\ total_terminal = NT
  /\ total_terminal' = total_terminal + 1
  /\ video_mem' = Target(NextTerminal(curr_scheduled), curr_terminal)
  /\ SwitchTerminal(NT, 1)
  /\ cursor' = CursorOf(1)
  /\ curr_scheduled' = NT
  /\ UNCHANGED <<switch_flag, screen_x, screen_y, out, put>>

Tick == TickRegular \/ TickStartShell \/ TickFinishBoot

-----------------------------------------------------------------------------
Next ==
  \/ \E c \in Chars \cup {Newline} : Write(c) \/ BeginPrintf(c)
  \/ BeginNewline
  \/ Store \/ Advance \/ Finish
  \/ Vidmap
  \/ \E i \in Cells, c \in Chars : Draw(i, c)
  \/ ShellExits
  \/ \E c \in Chars : Echo(c)
  \/ Backspace
  \/ PressCtrlL
  \/ \E t \in Terminals : PressAltFn(t)
  \/ Tick

Spec == Init /\ [][Next]_vars

-----------------------------------------------------------------------------
(* Properties *)

\* Every variable keeps its range: the cursors stay on the screen, but for one
\* row below it in the middle of a putc.
TypeOK ==
  /\ curr_terminal \in Terminals /\ curr_scheduled \in Terminals
  /\ switch_flag \in 0 .. NT
  /\ total_terminal \in 0 .. NT + 1
  /\ page \in [Pages -> [Cells -> Chars \cup {Blank}]]
  /\ video_mem \in Pages
  /\ screen_x \in [Terminals -> 0 .. NUM_COLS - 1]
  /\ screen_y \in [Terminals -> 0 .. NUM_ROWS]
  /\ \A t \in Terminals : screen_y[t] = NUM_ROWS => out[t].at # "run"
  /\ cursor \in Cells
  /\ out \in [Terminals -> [at : Points, by : {"putc", "putc2"},
                            c : Chars \cup {Blank, Newline}]]
  /\ put \in 0 .. MaxOut

\* The blinking cursor stands where the next character of the displayed
\* terminal goes, after echo, output of either kind, clearing and switching.
CursorFollows == out[curr_terminal].at = "run" =>
  cursor = Position(screen_x[curr_terminal], screen_y[curr_terminal])

\* A terminal's screen, with the character that is half printed completed.
Completed(t) ==
  LET s == ScreenOn(Target(t, curr_terminal), t) IN
  CASE out[t].at = "advance" -> Finished(Advanced(s, out[t].c))
    [] out[t].at = "finish"  -> Finished(s)
    [] OTHER                 -> s

Nothing == "nothing"

Text == [t \in Terminals |-> Completed(t).text]
Pos  == [t \in Terminals |-> Position(Completed(t).x, Completed(t).y)]
Due  == [t \in Terminals |-> IF out[t].at = "store" THEN out[t].c ELSE Nothing]

VS == INSTANCE VirtualScreens WITH
  shown <- curr_terminal, text <- Text, pos <- Pos, due <- Due

\* The pages and their copying implement a private screen for each terminal:
\* nothing printed, typed or drawn ends on another terminal's screen, and
\* nothing is lost by switching.
ImplementsVirtualScreens == VS!Spec

=============================================================================
