-------------------------------- MODULE Blink --------------------------------
(***************************************************************************)
(* The blinkers of fish: mp1_ioctl and mp1_rtc_tasklet (blink.S) and the   *)
(* allocator they use (mp1_malloc and mp1_free in fish.c).  A blinker is a *)
(* cell of blink_array, linked into a list by its field next; a cell is    *)
(* free when its location is 0.                                            *)
(*                                                                         *)
(* The program that calls them is one loop, so a call is one step.  The    *)
(* list is walked with the function Nth, which stops after as many cells   *)
(* as there are; ListHoldsBlinkers says that the loops of the code end     *)
(* there too.                                                              *)
(***************************************************************************)
EXTENDS Integers, FiniteSets

CONSTANTS
  NumCells,   \* 80*25, the length of blink_array
  NumPlaces,  \* 80*25, the places on the screen
  Structs,    \* what the program passes to RTC_ADD
  Blank

MaxLength == 2^15 - 1      \* countdown is compared as a signed short
Cells     == 1 .. NumCells
NULL      == 0
Places    == 0 .. NumPlaces - 1

\* Bound of the model: no blinker is added at place 0, which mp1_malloc would
\* take for free; fish puts its frames at column 40 and beyond.
ASSUME SizeAssumption   == NumCells \in Nat \ {0} /\ NumPlaces \in Nat \ {0}
ASSUME StructAssumption ==
  \A s \in Structs : /\ s.location \in Nat \ {0}
                     /\ s.on_length \in 0 .. MaxLength
                     /\ s.off_length \in 0 .. MaxLength

VARIABLES
  blink_array,    \* the cells
  mp1_list_head,  \* first cell of the list, or NULL
  screen,         \* the character at each place
  synced          \* history: <<c, d>> if d took the rhythm of c and both kept it

vars == <<blink_array, mp1_list_head, screen, synced>>

\* A cell after memset.
Zero == [location |-> 0, on_char |-> 0, off_char |-> 0, on_length |-> 0,
         off_length |-> 0, countdown |-> 0, status |-> 0, next |-> NULL]

Init ==
  /\ blink_array = [c \in Cells |-> Zero]
  /\ mp1_list_head = NULL
  /\ screen = [p \in Places |-> Blank]
  /\ synced = {}

-----------------------------------------------------------------------------
(* The list *)

\* The cell n links behind the head.
Nth[n \in 0 .. NumCells] ==
  IF n = 0 THEN mp1_list_head
  ELSE IF Nth[n - 1] = NULL THEN NULL ELSE blink_array[Nth[n - 1]].next

Linked == {n \in 0 .. NumCells - 1 : Nth[n] # NULL}
Taken  == {c \in Cells : blink_array[c].location # 0}

Links(l) == {n \in Linked : blink_array[Nth[n]].location = l}

FindLast(l) == Nth[CHOOSE n \in Links(l) : \A k \in Links(l) : k <= n]   \* mutant
\* mp1_find_helper: the first cell at place l.
FindHelper(l) == Nth[CHOOSE n \in Links(l) : \A k \in Links(l) : n <= k]

Found(l) == Links(l) # {}

\* mp1_malloc: the first cell whose location is 0.
Free   == {c \in Cells : blink_array[c].location = 0}
Malloc == CHOOSE c \in Free : \A d \in Free : c <= d

-----------------------------------------------------------------------------
(* mp1_ioctl *)

\* RTC_ADD, with a place on the screen and memory left.
Add(s) ==
  /\ s.location \in Places
  /\ Free # {}
  /\ blink_array' = [blink_array EXCEPT ![Malloc] =
       [location |-> s.location, on_char |-> s.on_char, off_char |-> s.off_char,
        on_length |-> s.on_length, off_length |-> s.off_length,
        countdown |-> s.on_length, status |-> 1, next |-> mp1_list_head]]
  /\ mp1_list_head' = Malloc
  /\ screen' = [screen EXCEPT ![s.location] = s.on_char]
  /\ UNCHANGED synced

FreeNothing(array, c) == array                              \* mutant
\* mp1_free
Freed(array, c) == [array EXCEPT ![c] = Zero]

\* RTC_REMOVE: the one link that leads to the cell skips it.
Remove(l) ==
  LET c == FindHelper(l)
      Skip(link) == IF link = c THEN blink_array[c].next ELSE link
  IN  /\ Found(l)
      /\ mp1_list_head' = Skip(mp1_list_head)
      /\ blink_array' = Freed([d \in Cells |-> [blink_array[d] EXCEPT !.next = Skip(@)]], c)
      /\ synced' = {pair \in synced : c \notin {pair[1], pair[2]}}
      /\ UNCHANGED screen

TakesHalf(b, from) ==                                       \* mutant
  [b EXCEPT !.on_length = from.on_length,
            !.countdown = from.countdown, !.status = from.status]
Takes(b, from) ==
  [b EXCEPT !.on_length = from.on_length, !.off_length = from.off_length,
            !.countdown = from.countdown, !.status = from.status]

\* RTC_SYNC: the cell at m takes its rhythm from the cell at l.  What is shown
\* is always off_char: cmovl after testb of bit 0 never moves.
Sync(l, m) ==
  LET from == FindHelper(l)
      to   == FindHelper(m)
  IN  /\ Found(l) /\ Found(m)
      /\ blink_array' = [blink_array EXCEPT ![to] = Takes(@, blink_array[from])]
      /\ screen' = [screen EXCEPT ![m] = blink_array[to].off_char]
      /\ synced' = IF from = to THEN synced
                   ELSE {pair \in synced : to \notin {pair[1], pair[2]}} \cup {<<from, to>>}
      /\ UNCHANGED mp1_list_head

-----------------------------------------------------------------------------
(* mp1_rtc_tasklet *)

\* decw, then jg: a length of 0 counts like 1.
Expired(countdown) == countdown <= 0

Due(c)  == Expired(blink_array[c].countdown - 1)
Char(b) == IF b.status = 1 THEN b.off_char ELSE b.on_char

Blinked(b) ==
  IF Expired(b.countdown - 1)
    THEN [b EXCEPT !.countdown = IF b.status = 1 THEN b.off_length ELSE b.on_length,
                   !.status = 1 - @]
    ELSE [b EXCEPT !.countdown = @ - 1]

OnList == {Nth[n] : n \in Linked}

RtcTasklet ==
  /\ blink_array' = [c \in Cells |->
       IF c \in OnList THEN Blinked(blink_array[c]) ELSE blink_array[c]]
  /\ screen' = [p \in Places |->
       LET writers == {n \in Links(p) : Due(Nth[n])} IN
       IF writers = {} THEN screen[p]
       ELSE Char(blink_array[Nth[CHOOSE n \in writers : \A k \in writers : k <= n]])]
  /\ UNCHANGED <<mp1_list_head, synced>>

-----------------------------------------------------------------------------
Next ==
  \/ \E s \in Structs : Add(s)
  \/ \E l \in Places : Remove(l)
  \/ \E l, m \in Places : Sync(l, m)
  \/ RtcTasklet

Spec == Init /\ [][Next]_vars

-----------------------------------------------------------------------------
(* Properties *)

Chars   == {0} \cup {s.on_char : s \in Structs} \cup {s.off_char : s \in Structs}
Lengths == 0 .. MaxLength

\* Every field keeps its range; no countdown runs below zero.
TypeOK ==
  /\ blink_array \in [Cells ->
       [location : Places, on_char : Chars, off_char : Chars, on_length : Lengths,
        off_length : Lengths, countdown : Lengths, status : {0, 1},
        next : Cells \cup {NULL}]]
  /\ mp1_list_head \in Cells \cup {NULL}
  /\ screen \in [Places -> Chars \cup {Blank}]
  /\ synced \subseteq Cells \X Cells

\* The walk from the head meets every cell that mp1_malloc gave out, meets none
\* twice, meets no free one, and ends: no call of mp1_ioctl loses a blinker,
\* hands out a cell in use, or closes the list into a ring.
ListHoldsBlinkers ==
  /\ OnList = Taken
  /\ Nth[NumCells] = NULL
  /\ \A n, k \in Linked : Nth[n] = Nth[k] => n = k

\* Two blinkers of which one was synced to the other blink together from then
\* on, as long as neither is synced anew.
SyncedInStep ==
  \A pair \in synced :
    LET b == blink_array[pair[1]]  d == blink_array[pair[2]] IN
    b.status = d.status /\ b.countdown = d.countdown

\* The cells and links implement the list of blinkers, the newest first, and
\* the screen shows what that list would show.
Blinker(b) ==
  [location |-> b.location, on_char |-> b.on_char, off_char |-> b.off_char,
   on_length |-> b.on_length, off_length |-> b.off_length,
   countdown |-> b.countdown, status |-> b.status]

BL == INSTANCE Blinkers WITH
  Capacity <- NumCells,
  list     <- [i \in 1 .. Cardinality(Linked) |-> Blinker(blink_array[Nth[i - 1]])],
  shown    <- screen

ImplementsBlinkers == BL!Spec

=============================================================================
