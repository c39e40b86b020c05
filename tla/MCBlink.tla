------------------------------ MODULE MCBlink ------------------------------
(***************************************************************************)
(* A program for Blink: two places, with two rhythms at the first.         *)
(***************************************************************************)
EXTENDS Blink

\* Lengths of 0, 1 and 2, and a place off the screen; characters are bytes.
SmallStructs ==
  {[location |-> 1, on_char |-> 73, off_char |-> 77, on_length |-> 2, off_length |-> 1],
   [location |-> 1, on_char |-> 79, off_char |-> 77, on_length |-> 0, off_length |-> 2],
   [location |-> 2, on_char |-> 73, off_char |-> 77, on_length |-> 1, off_length |-> 2],
   [location |-> 3, on_char |-> 73, off_char |-> 77, on_length |-> 1, off_length |-> 1]}

=============================================================================
