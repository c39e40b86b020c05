----------------------------- MODULE RtcProofs -----------------------------
(***************************************************************************)
(* Proofs about Rtc: every terminal has a clock of its own, for any number *)
(* of terminals and any rates.                                             *)
(***************************************************************************)
EXTENDS Rtc, TLAPS

\* The period rtc_read loads into its counter: HZ divided by a rate is at least
\* 0 and at most HZ.
LEMMA PeriodRange ==
  ASSUME NEW r \in 1 .. HZ
  PROVE  HZ \div r \in 0 .. HZ
<1>1. HZ \in Nat /\ r \in Nat /\ r >= 1
  BY RateAssumption
<1> QED
  BY <1>1, Z3

\* Counting down stays in range.
LEMMA DownRange ==
  ASSUME NEW n \in 0 .. HZ
  PROVE  Down(n) \in 0 .. HZ /\ Down(n) = IF n = 0 THEN 0 ELSE n - 1
BY RateAssumption DEF Down

\* The ghost counter stays in range.
LEMMA OneMoreRange ==
  ASSUME NEW n \in 0 .. HZ
  PROVE  OneMore(n) \in 0 .. HZ
BY RateAssumption DEF OneMore

\* Every variable keeps its range: no rate is 0 and no counter negative.
THEOREM TypeInvariant == Spec => []TypeOK
<1>1. Init => TypeOK
  <2> SUFFICES ASSUME Init PROVE TypeOK
    OBVIOUS
  <2>1. 1 \in Terminals /\ 1 \in 1 .. HZ /\ 0 \in 0 .. HZ /\ 1 \in 0 .. HZ
    BY NTAssumption, RateAssumption DEF Terminals
  <2>2. register_c \in BOOLEAN /\ irq8 \in BOOLEAN
    BY Zenon DEF Init
  <2>3. rtc_rates \in [Terminals -> 1 .. HZ] /\ rtc_counter \in [Terminals -> 0 .. HZ]
    BY <2>1, Zenon DEF Init
  <2>4. pc \in [Terminals -> {"run", "read"}] /\ waited \in [Terminals -> 0 .. HZ]
    BY <2>1 DEF Init
  <2> QED
    BY <2>1, <2>2, <2>3, <2>4 DEF Init, TypeOK
<1>2. TypeOK /\ [Next]_vars => TypeOK'
  <2> SUFFICES ASSUME TypeOK, [Next]_vars
               PROVE  TypeOK'
    OBVIOUS
  <2>1. CASE Period
    BY <2>1 DEF Period, TypeOK
  <2>2. CASE RtcHandler
    BY <2>2, DownRange, OneMoreRange
    DEF RtcHandler, TypeOK, CountDown, ReadRegisterC
  <2>3. CASE Tick
    <3>1. (curr_scheduled % NT) + 1 \in 1 .. NT
      BY NTAssumption DEF TypeOK, Terminals
    <3> QED
      BY <2>3, <3>1 DEF Tick, TypeOK, chip, Terminals
  <2>4. CASE RtcRead
    <3>1. HZ \div rtc_rates[curr_scheduled] \in 0 .. HZ
      BY PeriodRange DEF TypeOK
    <3> QED
      BY <2>4, <3>1, RateAssumption DEF RtcRead, TypeOK, chip
  <2>5. CASE RtcReadReturns
    BY <2>5 DEF RtcReadReturns, TypeOK, chip
  <2>6. CASE \E freq \in Freqs : RtcWrite(freq)
    BY <2>6, RateAssumption, FreqAssumption DEF RtcWrite, TypeOK, chip
  <2>7. CASE UNCHANGED vars
    BY <2>7 DEF vars, TypeOK
  <2> QED
    BY <2>1, <2>2, <2>3, <2>4, <2>5, <2>6, <2>7 DEF Next
<1> QED
  BY <1>1, <1>2, PTL DEF Spec

\* The counter of a waiting program is what is left of its period.  It is
\* inductive over TypeOK: the only steps that change the counter of a terminal
\* are its own rtc_read and the interrupt, which counts both sides.
LEMMA ClockStep ==
  TypeOK /\ ClockIsPrivate /\ [Next]_vars => ClockIsPrivate'
<1> SUFFICES ASSUME TypeOK, ClockIsPrivate, [Next]_vars,
                    NEW t \in Terminals, pc'[t] = "read"
             PROVE  rtc_counter'[t] = IF waited'[t] < PeriodOf(t)'
                                      THEN PeriodOf(t)' - waited'[t] ELSE 0
  BY DEF ClockIsPrivate
<1>t. /\ rtc_counter[t] \in 0 .. HZ /\ waited[t] \in 0 .. HZ
      /\ rtc_rates[t] \in 1 .. HZ /\ HZ \in Nat /\ HZ >= 1
      /\ curr_scheduled \in Terminals
  BY RateAssumption DEF TypeOK
<1>p. PeriodOf(t) \in 0 .. HZ
  BY <1>t, PeriodRange DEF PeriodOf
<1>1. CASE RtcHandler
  <2>1. pc[t] = "read" /\ rtc_rates' = rtc_rates
    BY <1>1 DEF RtcHandler
  <2>2. rtc_counter[t] = IF waited[t] < PeriodOf(t) THEN PeriodOf(t) - waited[t] ELSE 0
    BY <2>1 DEF ClockIsPrivate
  <2>3. /\ rtc_counter'[t] = IF rtc_counter[t] = 0 THEN 0 ELSE rtc_counter[t] - 1
        /\ waited'[t] = IF waited[t] < HZ THEN waited[t] + 1 ELSE HZ
    BY <1>1, <1>t, DownRange DEF RtcHandler, CountDown, OneMore
  <2>4. PeriodOf(t)' = PeriodOf(t)
    BY <2>1 DEF PeriodOf
  <2> QED
    BY <2>2, <2>3, <2>4, <1>t, <1>p
<1>2. CASE RtcRead
  <2>1. CASE t = curr_scheduled
    <3>1. /\ rtc_counter'[t] = PeriodOf(t)
          /\ waited'[t] = 0
          /\ PeriodOf(t)' = PeriodOf(t)
      BY <1>2, <2>1 DEF RtcRead, PeriodOf, TypeOK
    <3> QED
      BY <3>1, <1>p
  <2>2. CASE t # curr_scheduled
    <3>1. /\ rtc_counter'[t] = rtc_counter[t]
          /\ waited'[t] = waited[t]
          /\ pc[t] = "read"
          /\ PeriodOf(t)' = PeriodOf(t)
      BY <1>2, <2>2 DEF RtcRead, PeriodOf, TypeOK
    <3> QED
      BY <3>1 DEF ClockIsPrivate
  <2> QED
    BY <2>1, <2>2
<1>3. CASE \E freq \in Freqs : RtcWrite(freq)
  <2>1. t # curr_scheduled
    BY <1>3 DEF RtcWrite
  <2>2. /\ rtc_counter' = rtc_counter
        /\ waited' = waited
        /\ pc[t] = "read"
        /\ PeriodOf(t)' = PeriodOf(t)
    BY <1>3, <2>1 DEF RtcWrite, PeriodOf, TypeOK
  <2> QED
    BY <2>2 DEF ClockIsPrivate
<1>4. CASE RtcReadReturns
  <2>1. /\ rtc_counter' = rtc_counter /\ waited' = waited /\ rtc_rates' = rtc_rates
        /\ pc[t] = "read"
    BY <1>4 DEF RtcReadReturns, TypeOK
  <2> QED
    BY <2>1 DEF ClockIsPrivate, PeriodOf
<1>5. CASE Period \/ Tick \/ UNCHANGED vars
  <2>1. /\ rtc_counter' = rtc_counter /\ waited' = waited /\ rtc_rates' = rtc_rates
        /\ pc' = pc
    BY <1>5 DEF Period, Tick, vars
  <2> QED
    BY <2>1 DEF ClockIsPrivate, PeriodOf
<1> QED
  BY <1>1, <1>2, <1>3, <1>4, <1>5 DEF Next

\* Rtc.tla, ClockIsPrivate: no terminal disturbs the clock of another.
THEOREM PrivateClocks == Spec => [](TypeOK /\ ClockIsPrivate)
<1>1. Init => ClockIsPrivate
  BY DEF Init, ClockIsPrivate
<1> QED
  BY <1>1, TypeInvariant, ClockStep, PTL DEF Spec

\* Rtc.tla, ReadTakesItsPeriod: rtc_read never returns early.
THEOREM NoEarlyReturn == Spec => ReadTakesItsPeriod
<1>1. TypeOK /\ ClockIsPrivate /\ [Next]_vars
        => [\A t \in Terminals :
              pc[t] = "read" /\ pc'[t] = "run" => waited[t] >= PeriodOf(t)]_vars
  <2> SUFFICES ASSUME TypeOK, ClockIsPrivate, Next,
                      NEW t \in Terminals, pc[t] = "read", pc'[t] = "run"
               PROVE  waited[t] >= PeriodOf(t)
    BY DEF vars
  <2>1. RtcReadReturns /\ t = curr_scheduled
    BY DEF Next, Period, RtcHandler, Tick, RtcRead, RtcReadReturns, RtcWrite, TypeOK
  <2>2. rtc_counter[t] \in Int /\ rtc_counter[t] <= 0
    BY <2>1 DEF RtcReadReturns, Counted, TypeOK
  <2>3. waited[t] \in Int /\ PeriodOf(t) \in Int
    BY PeriodRange DEF PeriodOf, TypeOK
  <2> QED
    BY <2>2, <2>3 DEF ClockIsPrivate
<1> QED
  BY <1>1, PrivateClocks, PTL DEF Spec, ReadTakesItsPeriod

=============================================================================
