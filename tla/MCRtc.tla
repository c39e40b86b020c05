-------------------------------- MODULE MCRtc --------------------------------
(***************************************************************************)
(* Model values for Rtc: a rate that divides HZ, one that does not, and    *)
(* one out of range.                                                       *)
(***************************************************************************)
EXTENDS Rtc

SomeFreqs == {2, 3, 5}

=============================================================================
