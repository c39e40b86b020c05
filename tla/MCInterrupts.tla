---------------------------- MODULE MCInterrupts ----------------------------
(***************************************************************************)
(* Model values for Interrupts: the keys.                                  *)
(***************************************************************************)
EXTENDS Interrupts

\* A shift key and a letter.
FewKeys == {42, 30}

=============================================================================
