------------------------------ MODULE Sessions ------------------------------
(***************************************************************************)
(* What execute, halt and the scheduler promise together: each terminal    *)
(* has a stack of programs of its own, the top one running or waiting for  *)
(* its turn and every other one waiting for the program it executed; the   *)
(* terminals take turns, and the program whose code the CPU executes is    *)
(* the top one of the terminal whose turn it is.                           *)
(***************************************************************************)
EXTENDS Naturals, Sequences

CONSTANTS
  NT,        \* terminals
  Programs,  \* the programs there can be
  None,      \* no program
  MayFault   \* a program may raise an exception

Terminals == 1 .. NT

VARIABLES
  stack,    \* the programs of each terminal, the newest first
  state,    \* what each terminal is in: "off" before its first shell, "call"
            \* while a program is being started, "enter" while the top one is
            \* about to run, "user" when it runs, "stopped" after an exception
  now,      \* the terminal whose turn it is
  running   \* the program whose code the CPU executes

vars == <<stack, state, now, running>>

Free(p) == \A t \in Terminals : \A i \in DOMAIN stack[t] : stack[t][i] # p

Init ==
  /\ stack = [t \in Terminals |-> <<>>]
  /\ state = [t \in Terminals |-> "off"]
  /\ now = 1
  /\ running = None

\* The terminals get their first shells one after the other.
TurnOn(t) ==
  /\ state[t] = "off"
  /\ \A u \in 1 .. t - 1 : state[u] = "user"
  /\ state' = [state EXCEPT ![t] = "call"]
  /\ now' = t
  /\ running' = None
  /\ UNCHANGED stack

\* The top program asks for another one.
Call ==
  /\ state[now] = "user"
  /\ state' = [state EXCEPT ![now] = "call"]
  /\ running' = None
  /\ UNCHANGED <<stack, now>>

\* There is no such program, or no room for it: the one that asked goes on.
Refuse ==
  /\ state[now] = "call" /\ stack[now] # <<>>
  /\ state' = [state EXCEPT ![now] = "user"]
  /\ running' = Head(stack[now])
  /\ UNCHANGED <<stack, now>>

\* A program that no terminal has goes on top.
Launch(p) ==
  /\ state[now] = "call" /\ Free(p)
  /\ stack' = [stack EXCEPT ![now] = <<p>> \o @]
  /\ state' = [state EXCEPT ![now] = "enter"]
  /\ UNCHANGED <<now, running>>

Enter ==
  /\ state[now] = "enter"
  /\ state' = [state EXCEPT ![now] = "user"]
  /\ running' = Head(stack[now])
  /\ UNCHANGED <<stack, now>>

\* The top program ends: the one that executed it goes on, and a terminal
\* left without programs gets a new shell.
End ==
  /\ state[now] = "user"
  /\ stack' = [stack EXCEPT ![now] = Tail(@)]
  /\ state' = [state EXCEPT ![now] = IF Len(stack[now]) = 1 THEN "call" ELSE "enter"]
  /\ running' = None
  /\ UNCHANGED now

\* The next terminal goes on from where it was.
Switch ==
  /\ \A t \in Terminals : state[t] # "off"
  /\ state[now] # "stopped"
  /\ now' = (now % NT) + 1
  /\ running' = IF state[now'] = "user" THEN Head(stack[now']) ELSE None
  /\ UNCHANGED <<stack, state>>

Stop ==
  /\ MayFault /\ state[now] = "user"
  /\ state' = [state EXCEPT ![now] = "stopped"]
  /\ running' = None
  /\ UNCHANGED <<stack, now>>

Next ==
  \/ \E t \in Terminals : TurnOn(t)
  \/ Call \/ Refuse \/ (\E p \in Programs : Launch(p)) \/ Enter \/ End
  \/ Switch \/ Stop

Spec == Init /\ [][Next]_vars

=============================================================================
