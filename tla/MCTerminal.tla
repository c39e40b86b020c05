----------------------------- MODULE MCTerminal -----------------------------
(***************************************************************************)
(* Model values for Terminal.                                              *)
(***************************************************************************)
EXTENDS Terminal

\* The displayed program is not taking a line.
OutsideCopy == {"run", "wait"}

AnyRead == {1, 2}

=============================================================================
