---------------------------- MODULE MCProcesses ----------------------------
(***************************************************************************)
(* Model values for Processes: at which points of execute and halt the     *)
(* timer may tick, beside the SafePoints of SessionInvariant.              *)
(***************************************************************************)
EXTENDS SessionInvariant

\* One point of every stretch between two accesses to shared state, the
\* unsafe ones included.
AnyStretch == {<<"user", "rdcount">>, <<"user", "load">>, <<"user", "setup">>,
               <<"boot", "load">>, <<"halt", "hret">>, <<"halt", "load">>}

=============================================================================
