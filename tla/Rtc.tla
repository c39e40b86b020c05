--------------------------------- MODULE Rtc ---------------------------------
(***************************************************************************)
(* The real time clock (rtc.c).  The chip interrupts HZ times a second;    *)
(* rtc_handler counts down one counter per terminal, and rtc_read of the   *)
(* program of a terminal spins, with interrupts on, until its own counter  *)
(* is down: one clock of any rate for each terminal.                       *)
(***************************************************************************)
EXTENDS Integers

CONSTANTS
  NT,      \* NUM_T terminals, each with the one program that runs there
  HZ,      \* F_1024, the rate of the chip
  MinFreq, \* F_2, the lowest rate rtc_write takes
  Freqs    \* the rates that programs pass to rtc_write

Terminals == 1 .. NT

ASSUME NTAssumption   == NT \in Nat \ {0}
ASSUME RateAssumption == HZ \in Nat /\ MinFreq \in Nat /\ 1 <= MinFreq /\ MinFreq <= HZ
ASSUME FreqAssumption == Freqs \subseteq Int

VARIABLES
  curr_scheduled,  \* terminal whose program owns the time slice
  rtc_rates,
  rtc_counter,
  register_c,      \* the chip has a periodic interrupt nobody read out yet
  irq8,            \* its line went up and the handler has not run
  pc,              \* where each program stands: "run" or inside rtc_read
  waited           \* history: interrupts handled since the last rtc_read (at
                   \* most HZ, a bound of the model)

vars == <<curr_scheduled, rtc_rates, rtc_counter, register_c, irq8, pc,
          waited>>
chip == <<register_c, irq8>>

Init ==
  /\ curr_scheduled = 1
  /\ rtc_rates = [t \in Terminals |-> 1]
  /\ rtc_counter = [t \in Terminals |-> 1]
  /\ register_c = FALSE
  /\ irq8 = FALSE
  /\ pc = [t \in Terminals |-> "run"]
  /\ waited = [t \in Terminals |-> 0]

-----------------------------------------------------------------------------
(* The chip, rtc_handler and the timer *)

\* A period that ends before register C was read raises no interrupt.
Period ==
  /\ ~register_c
  /\ register_c' = TRUE
  /\ irq8' = TRUE
  /\ UNCHANGED <<curr_scheduled, rtc_rates, rtc_counter, pc, waited>>

\* Down by one, but never below 0.
DownBelowZero(n) == n - 1                                   \* mutant
Down(n) == IF n - 1 < 0 THEN 0 ELSE n - 1

DownScheduled ==                                            \* mutant
  [rtc_counter EXCEPT ![curr_scheduled] = Down(@)]
CountDown == [t \in Terminals |-> Down(rtc_counter[t])]

OneMore(n) == IF n < HZ THEN n + 1 ELSE HZ

KeepRegisterC == register_c                                 \* mutant
\* The handler reads register C, so that the chip can interrupt again.
ReadRegisterC == FALSE

RtcHandler ==
  /\ irq8
  /\ irq8' = FALSE
  /\ register_c' = ReadRegisterC
  /\ rtc_counter' = CountDown
  /\ waited' = [t \in Terminals |-> OneMore(waited[t])]
  /\ UNCHANGED <<curr_scheduled, rtc_rates, pc>>

Tick ==
  /\ curr_scheduled' = (curr_scheduled % NT) + 1
  /\ UNCHANGED <<rtc_rates, rtc_counter, chip, pc, waited>>

-----------------------------------------------------------------------------
(* rtc_read and rtc_write of the program that owns the slice *)

RtcRead ==
  /\ pc[curr_scheduled] = "run"
  /\ rtc_counter' = [rtc_counter EXCEPT ![curr_scheduled] =
                       HZ \div rtc_rates[curr_scheduled]]
  /\ waited' = [waited EXCEPT ![curr_scheduled] = 0]
  /\ pc' = [pc EXCEPT ![curr_scheduled] = "read"]
  /\ UNCHANGED <<curr_scheduled, rtc_rates, chip>>

CountedSoon == rtc_counter[curr_scheduled] <= 1             \* mutant
Counted == rtc_counter[curr_scheduled] <= 0

\* The spinning loop ends.
RtcReadReturns ==
  /\ pc[curr_scheduled] = "read"
  /\ Counted
  /\ pc' = [pc EXCEPT ![curr_scheduled] = "run"]
  /\ UNCHANGED <<curr_scheduled, rtc_rates, rtc_counter, chip, waited>>

\* A rate out of range is refused and changes nothing.
RtcWrite(freq) ==
  /\ pc[curr_scheduled] = "run"
  /\ MinFreq <= freq /\ freq <= HZ
  /\ rtc_rates' = [rtc_rates EXCEPT ![curr_scheduled] = freq]
  /\ UNCHANGED <<curr_scheduled, rtc_counter, chip, pc, waited>>

-----------------------------------------------------------------------------
Next ==
  \/ Period
  \/ RtcHandler
  \/ Tick
  \/ RtcRead
  \/ RtcReadReturns
  \/ \E freq \in Freqs : RtcWrite(freq)

Spec == Init /\ [][Next]_vars

\* The crystal does not stop, an interrupt is taken within a slice, and a slice
\* (50 ms) is long enough for one turn of the spinning loop.
FairSpec ==
  /\ Spec
  /\ WF_vars(Period)
  /\ WF_vars(RtcHandler)
  /\ WF_vars(Tick)
  /\ \A t \in Terminals : SF_vars(curr_scheduled = t /\ RtcReadReturns)

-----------------------------------------------------------------------------
(* Properties *)

\* Every variable keeps its range; the rates are never 0, by which rtc_read
\* divides, and the counters never negative.
TypeOK ==
  /\ curr_scheduled \in Terminals
  /\ rtc_rates \in [Terminals -> 1 .. HZ]
  /\ rtc_counter \in [Terminals -> 0 .. HZ]
  /\ register_c \in BOOLEAN /\ irq8 \in BOOLEAN
  /\ pc \in [Terminals -> {"run", "read"}]
  /\ waited \in [Terminals -> 0 .. HZ]

PeriodOf(t) == HZ \div rtc_rates[t]

\* While a program waits, its counter is exactly what is left of its period:
\* no read, write or slice of another terminal slows its clock down or speeds
\* it up.
ClockIsPrivate ==
  \A t \in Terminals :
    pc[t] = "read" => rtc_counter[t] = IF waited[t] < PeriodOf(t)
                                       THEN PeriodOf(t) - waited[t] ELSE 0

\* rtc_read does not return before the period of its terminal's rate is over.
ReadTakesItsPeriod ==
  [][\A t \in Terminals :
       pc[t] = "read" /\ pc'[t] = "run" => waited[t] >= PeriodOf(t)]_vars

\* Every rtc_read returns.
ReadReturns == \A t \in Terminals : pc[t] = "read" ~> pc[t] = "run"

=============================================================================
