------------------------------ MODULE MCScreen ------------------------------
(***************************************************************************)
(* Model values for Screen.                                                *)
(***************************************************************************)
EXTENDS Screen

\* The display changes, and keys arrive, between two characters.
BetweenChars == {"run"}

=============================================================================
