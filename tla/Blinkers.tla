------------------------------ MODULE Blinkers ------------------------------
(***************************************************************************)
(* What the blink module of fish promises (blink.S): a list of blinkers,   *)
(* the newest first.  A blinker shows one character for on_length calls of *)
(* the tasklet and another for off_length; add, remove and sync name a     *)
(* blinker by its place on the screen and act on the newest one there.     *)
(***************************************************************************)
EXTENDS Integers, Sequences

CONSTANTS
  Capacity,  \* blinkers that fit
  Structs,   \* what a program may ask to add
  Places,    \* places on the screen
  Blank

VARIABLES
  list,   \* the blinkers
  shown   \* the character at each place

vars == <<list, shown>>

Init == list = <<>> /\ shown = [p \in Places |-> Blank]

At(l)     == {i \in DOMAIN list : list[i].location = l}
Newest(l) == CHOOSE i \in At(l) : \A j \in At(l) : i <= j

Add(s) ==
  /\ s.location \in Places
  /\ Len(list) < Capacity
  /\ list' = <<[location |-> s.location,
                on_char |-> s.on_char, off_char |-> s.off_char,
                on_length |-> s.on_length, off_length |-> s.off_length,
                countdown |-> s.on_length, status |-> 1]>> \o list
  /\ shown' = [shown EXCEPT ![s.location] = s.on_char]

Remove(l) ==
  /\ At(l) # {}
  /\ list' = SubSeq(list, 1, Newest(l) - 1) \o SubSeq(list, Newest(l) + 1, Len(list))
  /\ UNCHANGED shown

\* The blinker at m takes the rhythm of the one at l.
Sync(l, m) ==
  /\ At(l) # {} /\ At(m) # {}
  /\ LET from == list[Newest(l)]
     IN  list' = [list EXCEPT ![Newest(m)] =
                    [@ EXCEPT !.on_length = from.on_length, !.off_length = from.off_length,
                              !.countdown = from.countdown, !.status = from.status]]
  /\ shown' = [shown EXCEPT ![m] = list[Newest(m)].off_char]

Due(b) == b.countdown <= 1
Char(b) == IF b.status = 1 THEN b.off_char ELSE b.on_char

\* Of several blinkers at a place, the oldest that is due writes last.
Tick ==
  /\ list' = [i \in DOMAIN list |->
       LET b == list[i] IN
       IF Due(b)
         THEN [b EXCEPT !.countdown = IF b.status = 1 THEN b.off_length ELSE b.on_length,
                        !.status = 1 - @]
         ELSE [b EXCEPT !.countdown = @ - 1]]
  /\ shown' = [p \in Places |->
       LET writers == {i \in At(p) : Due(list[i])} IN
       IF writers = {} THEN shown[p]
       ELSE Char(list[CHOOSE i \in writers : \A j \in writers : i >= j])]

Next ==
  \/ \E s \in Structs : Add(s)
  \/ \E l \in Places : Remove(l)
  \/ \E l, m \in Places : Sync(l, m)
  \/ Tick

Spec == Init /\ [][Next]_vars

=============================================================================
