----------------------------- MODULE RatesProofs ------------------------------
(***************************************************************************)
(* Proofs about Rates.                                                     *)
(***************************************************************************)
EXTENDS Rates, FiniteFacts

\* What a counter can grow by in t ticks.
Span(t) == Cap * t

\* It is a natural number, and grows by Cap in a tick.
LEMMA SpanFacts ==
  /\ Cap \in Nat /\ Span(0) = 0
  /\ \A t \in Nat : Span(t) \in Nat /\ Span(t + 1) = Span(t) + Cap
BY RatesAssumption DEF Span

Readings == [Devices -> [Counters -> Nat]]

-----------------------------------------------------------------------------
(* Types.                                                                  *)

\* A total over devices is a sum for each counter.
LEMMA TotalsAre ==
  ASSUME NEW S \in SUBSET Devices, NEW r \in Readings, NEW c \in Counters
  PROVE  /\ Totals(S, r)[c] = SumOver([d \in S |-> r[d][c]], S)
         /\ Totals(S, r)[c] \in Nat
<1> DEFINE f == [d \in S |-> r[d][c]]
<1>1. f \in [S -> Nat] /\ IsFiniteSet(S)
  <2>1. IsFiniteSet(Devices)
    BY RatesAssumption
  <2>2. IsFiniteSet(S)
    BY <2>1, FS_Subset
  <2>3. \A d \in S : r[d][c] \in Nat
    BY DEF Readings
  <2> QED BY <2>2, <2>3
<1>2. Totals(S, r)[c] = FoldFunctionOnSet(+, 0, f, S)
  BY DEF Totals
<1> HIDE DEF f
<1>3. Totals(S, r)[c] = SumOver(f, S)
  BY <1>2, FoldUnfold
<1>4. SumOver(f, S) \in Nat
  BY <1>1, SumNat
<1> QED BY <1>3, <1>4 DEF f

\* Rates are never negative, whatever the readings are.
LEMMA SinceType ==
  ASSUME NEW now \in [Counters -> Nat], NEW then \in [Counters -> Nat]
  PROVE  /\ EachSince(now, then) \in [Counters -> Nat]
         /\ AllSince(now, then) \in [Counters -> Nat]
BY DEF EachSince, AllSince, Zeros

\* So are a container's.
LEMMA TotalsType ==
  ASSUME NEW S \in SUBSET Devices, NEW r \in Readings
  PROVE  Totals(S, r) \in [Counters -> Nat]
<1>1. \A c \in Counters : Totals(S, r)[c] \in Nat
  BY TotalsAre
<1>2. DOMAIN Totals(S, r) = Counters
  BY DEF Totals
<1>3. Totals(S, r) = [c \in Counters |-> Totals(S, r)[c]]
  BY DEF Totals
<1> QED BY <1>1, <1>3

\* The first state.
LEMMA RateTypeInit == RateInit => RateTypeOK
<1> SUFFICES ASSUME RateInit PROVE RateTypeOK
  OBVIOUS
<1>1. Zeros \in [Counters -> Nat]
  BY DEF Zeros
<1>2. counter \in [Devices -> [Counters -> Nat]]
  <2>1. PICK s \in [Devices -> Starts] :
          counter = [d \in Devices |-> [c \in Counters |-> s[d]]]
    BY DEF RateInit
  <2>2. \A d \in Devices : s[d] \in Nat
    BY RatesAssumption
  <2> QED BY <2>1, <2>2
<1>3. 0 \in 0..MaxMoves
  BY RatesAssumption
<1> QED BY <1>1, <1>2, <1>3 DEF RateInit, RateTypeOK

\* Every step preserves the types.
LEMMA TypeStep == RateTypeOK /\ [RateNext]_rateVars => RateTypeOK'
<1> SUFFICES ASSUME RateTypeOK, [RateNext]_rateVars PROVE RateTypeOK'
  OBVIOUS
<1> USE DEF RateTypeOK, deviceVars, resultVars
<1>z. Zeros \in [Counters -> Nat]
  BY DEF Zeros
<1>1. CASE BeginPoll
  BY <1>1 DEF BeginPoll
<1>s. Snapshot \in [Devices -> [Counters -> Nat]]
  BY <1>z DEF Snapshot
<1>2. CASE FirstPoll
  BY <1>2, <1>s DEF FirstPoll
<1>3. CASE SecondPoll
  BY <1>3, <1>s DEF SecondPoll
<1>4. CASE StartWatch \/ WakeUp \/ CancelSleep
  BY <1>4 DEF StartWatch, WakeUp, CancelSleep
<1>5. ASSUME NEW d \in Devices, NEW c \in Counters, ReadCounter(d, c)
      PROVE  RateTypeOK'
  <2> DEFINE value == IF d \in here THEN counter[d][c] ELSE 0
  <2>1. value \in Nat
    OBVIOUS
  <2>2. /\ left' = left \ {<<d, c>>}
        /\ \/ first' = [first EXCEPT ![d][c] = value] /\ second' = second
           \/ second' = [second EXCEPT ![d][c] = value] /\ first' = first
        /\ gaps' \in {gaps, gaps \cup {d}}
        /\ UNCHANGED <<pollAt, kind, deviceVars, before, after, elapsed,
                       resultVars, slack>>
    BY <1>5 DEF ReadCounter
  <2> HIDE DEF value
  <2>4. \A r \in Readings : [r EXCEPT ![d][c] = value] \in Readings
    BY <2>1 DEF Readings
  <2>3. first' \in Readings /\ second' \in Readings
    <3>1. first \in Readings /\ second \in Readings
      BY DEF Readings
    <3> QED BY <2>2, <2>4, <3>1
  <2> QED BY <2>2, <2>3 DEF Readings
<1>6. CASE Report
  <2>1. \A d \in Devices : Since(d) \in [Counters -> Nat]
    BY <1>z, SinceType DEF Since
  <2>2. growth' \in [Devices -> [Counters -> Nat]]
    BY <1>6, <2>1 DEF Report
  <2>3. Totals(after, second) \in [Counters -> Nat]
        /\ Totals(before, first) \in [Counters -> Nat]
    BY TotalsType DEF Readings
  <2>4. total' \in [Counters -> Nat]
    BY <1>6, <1>z, <2>3, SinceType DEF Report
  <2> QED BY <1>6, <2>2, <2>4 DEF Report, Rated
<1>7. CASE RateTick
  <2>1. PICK g \in [Devices -> Loads] :
          /\ counter' = [d \in Devices |->
                           [c \in Counters |-> counter[d][c] + g[d][c]]]
          /\ grown' = [d \in Devices |-> [c \in Counters |->
                         IF Between(d, c) THEN grown[d][c] + g[d][c]
                         ELSE grown[d][c]]]
    BY <1>7 DEF RateTick
  <2>2. \A d \in Devices, c \in Counters : g[d][c] \in Nat
    BY RatesAssumption DEF Counters
  <2>3. \A d \in Devices, c \in Counters :
          counter[d][c] + g[d][c] \in Nat /\ grown[d][c] + g[d][c] \in Nat
    BY <2>2
  <2>4. counter' \in Readings /\ grown' \in Readings
    BY <2>1, <2>3 DEF Readings
  <2>5. elapsed' \in Nat /\ slack' \in Nat
    BY <1>7 DEF RateTick
  <2> QED BY <1>7, <2>4, <2>5 DEF RateTick, samplerVars, Readings
<1>8. ASSUME NEW d \in Devices, Restart(d) \/ Come(d) \/ Go(d)
      PROVE  RateTypeOK'
  <2>1. moves' \in 0..MaxMoves
    BY <1>8, RatesAssumption DEF Restart, Come, Go, Move
  <2>2. counter' \in Readings
    BY <1>8, <1>z DEF Restart, Come, Go, Readings
  <2> QED BY <1>8, <2>1, <2>2 DEF Restart, Come, Go, Move, samplerVars, Readings
<1>9. CASE UNCHANGED rateVars
  BY <1>9 DEF rateVars
<1> QED
  BY <1>1, <1>2, <1>3, <1>4, <1>5, <1>6, <1>7, <1>8, <1>9 DEF RateNext, Sampling
-----------------------------------------------------------------------------
(* Where the sampler is.                                                   *)

Polled  == {"firstRead", "sleep", "second", "secondRead", "returned"}
Elapsed == elapsed + slack

\* The first reading of a counter has been taken, and the second.
Taken(d, c) ==
  /\ d \in before /\ pollAt \in Polled
  /\ pollAt = "firstRead" => <<d, c>> \notin left

Closed(d, c) ==
  /\ d \in after /\ pollAt \in {"secondRead", "returned"} /\ <<d, c>> \notin left

\* Only the files of interfaces are read one by one, and only an interface is
\* listed and gone; before the first poll nothing has happened.
PollInv ==
  /\ left # {} => pollAt \in {"firstRead", "secondRead"}
  /\ kind # "networks" => left = {} /\ gaps = {}
  /\ pollAt \in {"idle", "first"} =>
       /\ elapsed = 0 /\ slack = 0 /\ gaps = {} /\ touched = {} /\ left = {}
       /\ grown = [d \in Devices |-> Zeros]

\* Every step preserves PollInv.
LEMMA PollStep == RateTypeOK /\ PollInv /\ [RateNext]_rateVars => PollInv'
<1> SUFFICES ASSUME RateTypeOK, PollInv, [RateNext]_rateVars PROVE PollInv'
  OBVIOUS
<1> USE DEF PollInv, deviceVars, resultVars
<1>1. CASE BeginPoll
  BY <1>1 DEF BeginPoll
<1>2. CASE FirstPoll \/ SecondPoll
  BY <1>2 DEF FirstPoll, SecondPoll
<1>3. CASE StartWatch \/ WakeUp \/ CancelSleep
  BY <1>3 DEF StartWatch, WakeUp, CancelSleep
<1>4. ASSUME NEW d \in Devices, NEW c \in Counters, ReadCounter(d, c)
      PROVE  PollInv'
  <2>1. /\ left # {} /\ left' = left \ {<<d, c>>}
        /\ UNCHANGED <<pollAt, kind, elapsed, slack, touched, grown>>
    BY <1>4 DEF ReadCounter
  <2> QED BY <2>1
<1>5. CASE Report
  BY <1>5 DEF Report
<1>6. CASE RateTick
  BY <1>6 DEF RateTick, samplerVars, Polling
<1>7. ASSUME NEW d \in Devices, Restart(d) \/ Come(d) \/ Go(d)
      PROVE  PollInv'
  BY <1>7 DEF Restart, Come, Go, Move, samplerVars, Polling
<1>8. CASE UNCHANGED rateVars
  BY <1>8 DEF rateVars
<1> QED
  BY <1>1, <1>2, <1>3, <1>4, <1>5, <1>6, <1>7, <1>8 DEF RateNext, Sampling

-----------------------------------------------------------------------------
(* What a device can have counted since its first reading.                 *)

\* A reading of zero is not where the counter stood; every other one is, and a
\* device that restarts, goes or comes back does not count more than Cap a tick.
SpanInv ==
  \A d \in before \ gaps, c \in Counters :
    /\ Taken(d, c) => counter[d][c] <= first[d][c] + Span(Elapsed)
    /\ Closed(d, c) => second[d][c] <= first[d][c] + Span(Elapsed)

\* Every step up to the report preserves SpanInv.
LEMMA SpanStep ==
  RateTypeOK /\ PollInv /\ SpanInv /\ [RateNext]_rateVars => SpanInv'
<1> SUFFICES ASSUME RateTypeOK, PollInv, SpanInv, [RateNext]_rateVars
             PROVE  SpanInv'
  OBVIOUS
<1> USE DEF deviceVars, resultVars
<1>0. /\ before \subseteq Devices
      /\ \A d \in Devices, c \in Counters :
           counter[d][c] \in Nat /\ first[d][c] \in Nat /\ second[d][c] \in Nat
      /\ Elapsed \in Nat /\ Span(Elapsed) \in Nat
  BY SpanFacts DEF RateTypeOK, Elapsed
<1>k. ASSUME UNCHANGED <<before, gaps, counter, first, second, elapsed, slack>>,
             \A d \in before, c \in Counters :
               (Taken(d, c)' => Taken(d, c)) /\ (Closed(d, c)' => Closed(d, c))
      PROVE  SpanInv'
  BY <1>k DEF SpanInv, Elapsed, Span
<1>1. CASE BeginPoll
  BY <1>1 DEF BeginPoll, SpanInv, Taken, Closed, Polled
<1>2. CASE FirstPoll
  <2>1. /\ pollAt' = "firstRead" /\ pollAt = "first" /\ before' = here
        /\ UNCHANGED <<counter, elapsed, slack, gaps>>
        /\ Elapsed' = Elapsed
    BY <1>2 DEF FirstPoll, Elapsed
  <2>2. ASSUME NEW d \in here, NEW c \in Counters, Taken(d, c)'
        PROVE  first'[d][c] = counter[d][c]
    <3>1. kind # "networks"
      BY <1>2, <2>1, <2>2 DEF FirstPoll, Taken
    <3>2. first' = Snapshot
      BY <1>2, <3>1 DEF FirstPoll
    <3> QED BY <3>2 DEF Snapshot, RateTypeOK
  <2>3. ASSUME NEW d \in here, NEW c \in Counters, Taken(d, c)'
        PROVE  counter'[d][c] <= first'[d][c] + Span(Elapsed')
    <3>1. counter[d][c] \in Nat
      BY <1>0 DEF RateTypeOK
    <3>2. counter[d][c] <= counter[d][c] + Span(Elapsed)
      BY <3>1, <1>0
    <3> QED BY <2>1, <2>2, <2>3, <3>2
  <2> QED BY <2>1, <2>3 DEF SpanInv, Closed, Span
<1>3. CASE SecondPoll
  <2>1. /\ pollAt' = "secondRead" /\ pollAt = "second" /\ left = {} /\ after' = here
        /\ UNCHANGED <<before, first, counter, elapsed, slack, gaps>>
        /\ Elapsed' = Elapsed
    BY <1>3 DEF SecondPoll, Elapsed, PollInv
  <2>2. ASSUME NEW d \in before \ gaps, NEW c \in Counters
        PROVE  counter[d][c] <= first[d][c] + Span(Elapsed)
    BY <2>1, <2>2 DEF SpanInv, Taken, Polled
  <2>3. ASSUME NEW d \in before \ gaps, NEW c \in Counters, Closed(d, c)'
        PROVE  second'[d][c] = counter[d][c]
    <3>1. d \in here
      BY <2>1, <2>3 DEF Closed
    <3>2. kind # "networks"
      BY <1>3, <2>1, <2>3, <3>1 DEF SecondPoll, Closed
    <3>3. second' = Snapshot
      BY <1>3, <3>2 DEF SecondPoll
    <3> QED BY <3>1, <3>3 DEF Snapshot, RateTypeOK
  <2> QED BY <2>1, <2>2, <2>3 DEF SpanInv, Span
<1>4. CASE StartWatch \/ WakeUp \/ CancelSleep
  <2>1. UNCHANGED <<before, gaps, counter, first, second, elapsed, slack, left, after>>
    BY <1>4 DEF StartWatch, WakeUp, CancelSleep
  <2>2. ASSUME NEW d \in before, NEW c \in Counters
        PROVE  (Taken(d, c)' => Taken(d, c)) /\ (Closed(d, c)' => Closed(d, c))
    BY <1>4, <2>1 DEF StartWatch, WakeUp, CancelSleep, Taken, Closed, Polled
  <2> QED BY <1>k, <2>1, <2>2
<1>5. ASSUME NEW e \in Devices, NEW b \in Counters, ReadCounter(e, b)
      PROVE  SpanInv'
  <2> DEFINE value == IF e \in here THEN counter[e][b] ELSE 0
  <2>1. /\ left' = left \ {<<e, b>>} /\ <<e, b>> \in left
        /\ UNCHANGED <<pollAt, before, after, counter, elapsed, slack>>
        /\ Elapsed' = Elapsed /\ pollAt \in {"firstRead", "secondRead"}
    BY <1>5 DEF ReadCounter, Elapsed
  <2>2. SUFFICES ASSUME NEW d \in before \ gaps', NEW c \in Counters
                 PROVE  /\ Taken(d, c)' =>
                             counter[d][c] <= first'[d][c] + Span(Elapsed)
                        /\ Closed(d, c)' =>
                             second'[d][c] <= first'[d][c] + Span(Elapsed)
    BY <2>1 DEF SpanInv, Span
  <2>3. d \in Devices /\ d \in before \ gaps
    BY <1>0, <1>5, <2>2 DEF ReadCounter
  <2>4. value \in Nat /\ value <= counter[e][b] /\ (e \in here => value = counter[e][b])
    BY <1>0
  <2>5. CASE d = e /\ c = b
    <3>1. CASE pollAt = "firstRead"
      <4>1. first' = [first EXCEPT ![e][b] = value] /\ (e \notin here => e \in gaps')
        BY <1>5, <3>1 DEF ReadCounter
      <4>2. first'[d][c] = counter[d][c]
        BY <2>2, <2>4, <2>5, <4>1 DEF RateTypeOK
      <4>3. counter[d][c] <= counter[d][c] + Span(Elapsed)
        BY <1>0, <2>3
      <4> QED BY <2>1, <3>1, <4>2, <4>3 DEF Closed
    <3>2. CASE pollAt = "secondRead"
      <4>1. second' = [second EXCEPT ![e][b] = value] /\ first' = first
        BY <1>5, <3>2 DEF ReadCounter
      <4>2. second'[d][c] = value
        BY <2>5, <4>1 DEF RateTypeOK
      <4>3. counter[d][c] <= first[d][c] + Span(Elapsed)
        BY <2>3, <3>2 DEF SpanInv, Taken, Polled
      <4>4. counter[d][c] \in Nat /\ first[d][c] + Span(Elapsed) \in Nat
        BY <1>0, <2>3
      <4>5. value <= first[d][c] + Span(Elapsed)
        <5>1. value \in Nat /\ value <= counter[d][c]
          BY <2>4, <2>5
        <5> HIDE DEF value
        <5> QED BY ONLY <4>3, <4>4, <5>1
      <4> QED BY <4>1, <4>2, <4>3, <4>5
    <3> QED BY <2>1, <3>1, <3>2
  <2>6. CASE ~(d = e /\ c = b)
    <3>1. first'[d][c] = first[d][c] /\ second'[d][c] = second[d][c]
      BY <1>5, <2>3, <2>6 DEF ReadCounter, RateTypeOK
    <3>2. (Taken(d, c)' => Taken(d, c)) /\ (Closed(d, c)' => Closed(d, c))
      BY <2>1, <2>6 DEF Taken, Closed
    <3> QED BY <2>3, <3>1, <3>2 DEF SpanInv
  <2> QED BY <2>5, <2>6
<1>6. CASE Report
  <2>1. UNCHANGED <<before, gaps, counter, first, second, elapsed, slack, left, after>>
    BY <1>6 DEF Report
  <2>2. ASSUME NEW d \in before, NEW c \in Counters
        PROVE  (Taken(d, c)' => Taken(d, c)) /\ (Closed(d, c)' => Closed(d, c))
    BY <1>6, <2>1 DEF Report, Taken, Closed, Polled
  <2> QED BY <1>k, <2>1, <2>2
<1>7. CASE RateTick
  <2>1. PICK g \in [Devices -> Loads] :
          counter' = [d \in Devices |->
                        [c \in Counters |-> counter[d][c] + g[d][c]]]
    BY <1>7 DEF RateTick
  <2>2. /\ UNCHANGED <<pollAt, before, after, left, gaps, first, second>>
        /\ Elapsed' = Elapsed + 1
    BY <1>7 DEF RateTick, samplerVars, Elapsed, RateTypeOK
  <2>3. Span(Elapsed') = Span(Elapsed) + Cap /\ Cap \in Nat
    BY <1>0, <2>2, SpanFacts
  <2>4. SUFFICES ASSUME NEW d \in before \ gaps, NEW c \in Counters
                 PROVE  /\ Taken(d, c) =>
                             counter'[d][c] <= first[d][c] + Span(Elapsed')
                        /\ Closed(d, c) =>
                             second[d][c] <= first[d][c] + Span(Elapsed')
    BY <2>2 DEF SpanInv, Taken, Closed, Span
  <2>5. g[d][c] \in Nat /\ g[d][c] <= Cap
    BY <1>0, RatesAssumption DEF Counters
  <2>6. counter'[d][c] = counter[d][c] + g[d][c]
    BY <1>0, <2>1
  <2>7. /\ Taken(d, c) => counter[d][c] <= first[d][c] + Span(Elapsed)
        /\ Closed(d, c) => second[d][c] <= first[d][c] + Span(Elapsed)
    BY DEF SpanInv
  <2>8. counter[d][c] \in Nat /\ first[d][c] \in Nat /\ second[d][c] \in Nat
    BY <1>0
  <2> QED BY <1>0, <2>3, <2>5, <2>6, <2>7, <2>8
<1>8. ASSUME NEW e \in Devices, Restart(e) \/ Come(e) \/ Go(e)
      PROVE  SpanInv'
  <2>1. /\ UNCHANGED <<pollAt, before, after, left, gaps, first, second>>
        /\ Elapsed' = Elapsed
        /\ \A d \in Devices, c \in Counters : counter'[d][c] \in {0, counter[d][c]}
    BY <1>8
    DEF Restart, Come, Go, Move, samplerVars, Elapsed, RateTypeOK, Zeros
  <2>2. SUFFICES ASSUME NEW d \in before \ gaps, NEW c \in Counters
                 PROVE  /\ Taken(d, c) =>
                             counter'[d][c] <= first[d][c] + Span(Elapsed)
                        /\ Closed(d, c) =>
                             second[d][c] <= first[d][c] + Span(Elapsed)
    BY <2>1 DEF SpanInv, Taken, Closed, Span
  <2>3. 0 <= first[d][c] + Span(Elapsed)
    BY <1>0
  <2>4. counter'[d][c] \in {0, counter[d][c]}
    BY <1>0, <2>1
  <2> QED BY <2>3, <2>4 DEF SpanInv
<1>9. CASE UNCHANGED rateVars
  BY <1>9, <1>k DEF rateVars, Taken, Closed
<1> QED
  BY <1>1, <1>2, <1>3, <1>4, <1>5, <1>6, <1>7, <1>8, <1>9 DEF RateNext, Sampling
-----------------------------------------------------------------------------
(* A device nothing happens to.                                            *)

\* A device that was not touched is in every poll or in none, and what it
\* counts between its readings is what they differ by.
SteadyInv ==
  \A d \in Devices \ touched, c \in Counters :
    /\ pollAt \in Polled => (d \in here <=> d \in before)
    /\ pollAt \in {"secondRead", "returned"} => (d \in here <=> d \in after)
    /\ pollAt \in Polled /\ d \in here /\ ~Taken(d, c) => grown[d][c] = 0
    /\ d \in here /\ Taken(d, c) /\ ~Closed(d, c) =>
         counter[d][c] = first[d][c] + grown[d][c]
    /\ d \in here /\ Taken(d, c) /\ Closed(d, c) =>
         second[d][c] = first[d][c] + grown[d][c]

\* Every step up to the report preserves SteadyInv.
LEMMA SteadyStep ==
  RateTypeOK /\ PollInv /\ SteadyInv /\ [RateNext]_rateVars => SteadyInv'
<1> SUFFICES ASSUME RateTypeOK, PollInv, SteadyInv, [RateNext]_rateVars
             PROVE  SteadyInv'
  OBVIOUS
<1> USE DEF deviceVars, resultVars
<1>0. \A d \in Devices, c \in Counters :
        /\ counter[d][c] \in Nat /\ first[d][c] \in Nat
        /\ second[d][c] \in Nat /\ grown[d][c] \in Nat
  BY DEF RateTypeOK
<1>1. CASE BeginPoll
  BY <1>1 DEF BeginPoll, SteadyInv, Taken, Closed, Polled
<1>2. CASE FirstPoll
  <2>1. /\ pollAt' = "firstRead" /\ pollAt = "first" /\ before' = here
        /\ UNCHANGED <<here, counter, grown, touched>>
        /\ grown = [d \in Devices |-> Zeros]
    BY <1>2 DEF FirstPoll, PollInv
  <2>2. ASSUME NEW d \in Devices, NEW c \in Counters, d \in here, Taken(d, c)'
        PROVE  first'[d][c] = counter[d][c]
    <3>1. kind # "networks"
      BY <1>2, <2>1, <2>2 DEF FirstPoll, Taken
    <3>2. first' = Snapshot
      BY <1>2, <3>1 DEF FirstPoll
    <3> QED BY <2>2, <3>2 DEF Snapshot
  <2>3. \A d \in Devices, c \in Counters : grown[d][c] = 0
    BY <2>1 DEF Zeros
  <2>4. ASSUME NEW d \in Devices, NEW c \in Counters, d \in here, Taken(d, c)'
        PROVE  counter[d][c] = first'[d][c] + grown[d][c]
    <3>1. first'[d][c] = counter[d][c] /\ grown[d][c] = 0 /\ counter[d][c] \in Nat
      BY <1>0, <2>2, <2>3, <2>4
    <3> QED BY <3>1
  <2> QED BY <2>1, <2>3, <2>4 DEF SteadyInv, Closed, Polled
<1>3. CASE SecondPoll
  <2>1. /\ pollAt' = "secondRead" /\ pollAt = "second" /\ left = {} /\ after' = here
        /\ UNCHANGED <<before, here, first, counter, grown, touched>>
    BY <1>3 DEF SecondPoll, PollInv
  <2>2. ASSUME NEW d \in Devices \ touched, NEW c \in Counters, d \in here
        PROVE  /\ d \in before /\ Taken(d, c) /\ Taken(d, c)'
               /\ counter[d][c] = first[d][c] + grown[d][c]
    <3>1. d \in before
      BY <2>1, <2>2 DEF SteadyInv, Polled
    <3>2. Taken(d, c) /\ ~Closed(d, c) /\ Taken(d, c)'
      BY <2>1, <3>1 DEF Taken, Closed, Polled
    <3> QED BY <2>2, <3>1, <3>2 DEF SteadyInv
  <2>3. ASSUME NEW d \in Devices, NEW c \in Counters, d \in here, Closed(d, c)'
        PROVE  second'[d][c] = counter[d][c]
    <3>1. kind # "networks"
      BY <1>3, <2>1, <2>3 DEF SecondPoll, Closed
    <3>2. second' = Snapshot
      BY <1>3, <3>1 DEF SecondPoll
    <3> QED BY <2>3, <3>2 DEF Snapshot
  <2>4. \A d \in Devices \ touched : d \in here <=> d \in before
    BY <2>1 DEF SteadyInv, Polled, Counters
  <2> QED BY <2>1, <2>2, <2>3, <2>4 DEF SteadyInv
<1>4. CASE StartWatch \/ WakeUp \/ CancelSleep
  <2>1. /\ UNCHANGED <<before, here, counter, first, second, grown, touched, left, after>>
        /\ left = {} /\ pollAt \in Polled
        /\ pollAt' \in {"sleep", "second", "cancelled"}
        /\ pollAt \notin {"secondRead", "returned"}
    BY <1>4 DEF StartWatch, WakeUp, CancelSleep, PollInv, Polled
  <2>2. ASSUME NEW d \in Devices, NEW c \in Counters
        PROVE  /\ pollAt' \in Polled => (Taken(d, c)' <=> Taken(d, c))
               /\ ~Closed(d, c) /\ ~Closed(d, c)'
               /\ Taken(d, c)' => Taken(d, c)
    BY <2>1 DEF Taken, Closed, Polled
  <2> QED BY <2>1, <2>2 DEF SteadyInv
<1>5. ASSUME NEW e \in Devices, NEW b \in Counters, ReadCounter(e, b)
      PROVE  SteadyInv'
  <2> DEFINE value == IF e \in here THEN counter[e][b] ELSE 0
  <2>1. /\ left' = left \ {<<e, b>>} /\ <<e, b>> \in left
        /\ UNCHANGED <<pollAt, before, after, here, counter, grown, touched>>
        /\ pollAt \in {"firstRead", "secondRead"}
    BY <1>5 DEF ReadCounter
  <2>2. SUFFICES
          ASSUME NEW d \in Devices \ touched, NEW c \in Counters, d \in here
          PROVE  /\ ~Taken(d, c)' => grown[d][c] = 0
                 /\ Taken(d, c)' /\ ~Closed(d, c)' =>
                      counter[d][c] = first'[d][c] + grown[d][c]
                 /\ Taken(d, c)' /\ Closed(d, c)' =>
                      second'[d][c] = first'[d][c] + grown[d][c]
    BY <2>1 DEF SteadyInv
  <2>3. /\ d \in before /\ (pollAt = "secondRead" => d \in after)
        /\ counter[d][c] \in Nat /\ grown[d][c] \in Nat
    BY <1>0, <2>1, <2>2 DEF SteadyInv, Polled
  <2>4. CASE d = e /\ c = b
    <3>1. value = counter[d][c]
      BY <2>2, <2>4
    <3>2. CASE pollAt = "firstRead"
      <4>1. first' = [first EXCEPT ![e][b] = value]
        BY <1>5, <3>2 DEF ReadCounter
      <4>2. first'[d][c] = counter[d][c]
        <5> HIDE DEF value
        <5> QED BY <2>4, <3>1, <4>1 DEF RateTypeOK
      <4>3. ~Taken(d, c) /\ grown[d][c] = 0
        BY <2>1, <2>2, <2>4, <3>2 DEF Taken, SteadyInv, Polled
      <4>4. ~Closed(d, c)' /\ Taken(d, c)'
        BY <2>1, <2>3, <2>4, <3>2 DEF Closed, Taken, Polled
      <4> QED BY <2>3, <4>2, <4>3, <4>4
    <3>3. CASE pollAt = "secondRead"
      <4>1. second' = [second EXCEPT ![e][b] = value] /\ first' = first
        BY <1>5, <3>3 DEF ReadCounter
      <4>2. second'[d][c] = counter[d][c]
        <5> HIDE DEF value
        <5> QED BY <2>4, <3>1, <4>1 DEF RateTypeOK
      <4>3. Taken(d, c) /\ ~Closed(d, c) /\ Taken(d, c)' /\ Closed(d, c)'
        BY <2>1, <2>3, <2>4, <3>3 DEF Closed, Taken, Polled
      <4>4. counter[d][c] = first[d][c] + grown[d][c]
        BY <2>2, <4>3 DEF SteadyInv
      <4> QED BY <4>1, <4>2, <4>3, <4>4
    <3> QED BY <2>1, <3>2, <3>3
  <2>5. CASE ~(d = e /\ c = b)
    <3>1. first'[d][c] = first[d][c] /\ second'[d][c] = second[d][c]
      BY <1>5, <2>5 DEF ReadCounter, RateTypeOK
    <3>2. (Taken(d, c)' <=> Taken(d, c)) /\ (Closed(d, c)' <=> Closed(d, c))
      BY <2>1, <2>5 DEF Taken, Closed
    <3>3. pollAt \in Polled
      BY <2>1 DEF Polled
    <3> QED BY <2>2, <3>1, <3>2, <3>3 DEF SteadyInv
  <2> QED BY <2>4, <2>5
<1>6. CASE Report
  <2>1. /\ UNCHANGED <<before, here, counter, first, second, grown, touched, left, after>>
        /\ pollAt = "secondRead" /\ pollAt' = "returned"
    BY <1>6 DEF Report
  <2>2. ASSUME NEW d \in Devices, NEW c \in Counters
        PROVE  (Taken(d, c)' <=> Taken(d, c)) /\ (Closed(d, c)' <=> Closed(d, c))
    BY <2>1 DEF Taken, Closed, Polled
  <2> QED BY <2>1, <2>2 DEF SteadyInv, Polled
<1>7. CASE RateTick
  <2>1. PICK g \in [Devices -> Loads] :
          /\ counter' = [d \in Devices |->
                           [c \in Counters |-> counter[d][c] + g[d][c]]]
          /\ grown' = [d \in Devices |-> [c \in Counters |->
                         IF Between(d, c) THEN grown[d][c] + g[d][c]
                         ELSE grown[d][c]]]
    BY <1>7 DEF RateTick
  <2>2. /\ UNCHANGED <<pollAt, before, after, here, touched, left, first, second>>
        /\ pollAt \in Polled \ {"returned"}
    BY <1>7 DEF RateTick, samplerVars, Polling, Polled
  <2>t. \A d, c : (Taken(d, c)' <=> Taken(d, c)) /\ (Closed(d, c)' <=> Closed(d, c))
    BY <2>2 DEF Taken, Closed
  <2>3. SUFFICES
          ASSUME NEW d \in Devices \ touched, NEW c \in Counters, d \in here
          PROVE  /\ ~Taken(d, c) => grown'[d][c] = 0
                 /\ Taken(d, c) /\ ~Closed(d, c) =>
                      counter'[d][c] = first[d][c] + grown'[d][c]
                 /\ Taken(d, c) /\ Closed(d, c) =>
                      second[d][c] = first[d][c] + grown'[d][c]
    BY <2>2, <2>t DEF SteadyInv
  <2>4. /\ d \in before /\ (pollAt = "secondRead" => d \in after)
        /\ g[d][c] \in Nat
    BY <2>2, <2>3, RatesAssumption DEF SteadyInv, Counters
  <2>5. /\ counter'[d][c] = counter[d][c] + g[d][c]
        /\ Between(d, c) => grown'[d][c] = grown[d][c] + g[d][c]
        /\ ~Between(d, c) => grown'[d][c] = grown[d][c]
    BY <2>1
  <2>6. CASE ~Taken(d, c)
    <3>1. ~Between(d, c)
      BY <2>2, <2>4, <2>6 DEF Taken, Between, Polled
    <3> QED BY <2>2, <2>3, <2>5, <2>6, <3>1 DEF SteadyInv
  <2>7. CASE Taken(d, c) /\ ~Closed(d, c)
    <3>1. Between(d, c)
      BY <2>2, <2>4, <2>7 DEF Taken, Closed, Between, Polled
    <3>2. counter[d][c] = first[d][c] + grown[d][c]
      BY <2>3, <2>7 DEF SteadyInv
    <3>3. counter[d][c] \in Nat /\ first[d][c] \in Nat /\ grown[d][c] \in Nat
      BY <1>0
    <3> QED BY <2>4, <2>5, <2>7, <3>1, <3>2, <3>3
  <2>8. CASE Taken(d, c) /\ Closed(d, c)
    <3>1. ~Between(d, c)
      BY <2>2, <2>8 DEF Closed, Between, Polled
    <3> QED BY <2>3, <2>5, <2>8, <3>1 DEF SteadyInv
  <2> QED BY <2>6, <2>7, <2>8
<1>8. ASSUME NEW e \in Devices, Restart(e) \/ Come(e) \/ Go(e)
      PROVE  SteadyInv'
  <2>1. /\ UNCHANGED <<pollAt, before, after, left, first, second, grown>>
        /\ touched' = touched \cup {e}
        /\ \A d \in Devices \ {e} :
             counter'[d] = counter[d] /\ (d \in here' <=> d \in here)
    BY <1>8 DEF Restart, Come, Go, Move, samplerVars, RateTypeOK
  <2>2. \A d, c : (Taken(d, c)' <=> Taken(d, c)) /\ (Closed(d, c)' <=> Closed(d, c))
    BY <2>1 DEF Taken, Closed
  <2>3. Devices \ touched' = (Devices \ touched) \ {e}
    BY <2>1
  <2> QED BY <2>1, <2>2, <2>3 DEF SteadyInv
<1>9. CASE UNCHANGED rateVars
  <2>1. UNCHANGED <<pollAt, here, before, after, first, second, counter, grown, touched>>
    BY <1>9 DEF rateVars
  <2>2. \A d, c : (Taken(d, c)' <=> Taken(d, c)) /\ (Closed(d, c)' <=> Closed(d, c))
    BY <1>9 DEF rateVars, Taken, Closed
  <2> QED BY <2>1, <2>2 DEF SteadyInv
<1> QED
  BY <1>1, <1>2, <1>3, <1>4, <1>5, <1>6, <1>7, <1>8, <1>9 DEF RateNext, Sampling
-----------------------------------------------------------------------------
(* What is reported.                                                       *)

\* Nothing happens after the report.
LEMMA ReturnStep ==
  [RateNext]_rateVars /\ pollAt' = "returned" => Report \/ UNCHANGED rateVars
BY DEF RateNext, Sampling, BeginPoll, FirstPoll, SecondPoll, StartWatch, WakeUp,
       CancelSleep, ReadCounter, RateTick, Restart, Come, Go, Move, samplerVars,
       Polling

IInv == RateTypeOK /\ PollInv /\ SpanInv /\ SteadyInv

\* IInv holds at first and after every step.
LEMMA IInvInit == RateInit => IInv
<1> SUFFICES ASSUME RateInit PROVE IInv
  OBVIOUS
<1>1. PollInv /\ SpanInv /\ SteadyInv
  BY DEF RateInit, PollInv, SpanInv, SteadyInv, Taken, Closed, Polled
<1> QED BY <1>1, RateTypeInit DEF IInv

\* A step preserves each of its parts.
LEMMA IInvStep == IInv /\ [RateNext]_rateVars => IInv'
BY TypeStep, PollStep, SpanStep, SteadyStep DEF IInv

\* A difference is either zero or exact, and zero only when one went backwards.
LEMMA SinceIs ==
  ASSUME NEW now \in [Counters -> Nat], NEW then \in [Counters -> Nat],
         NEW c \in Counters
  PROVE  /\ EachSince(now, then)[c] \in {0, now[c] - then[c]}
         /\ AllSince(now, then)[c] \in {0, now[c] - then[c]}
         /\ EachSince(now, then)[c] = 0 \/ then[c] <= now[c]
         /\ AllSince(now, then)[c] = 0 \/ then[c] <= now[c]
         /\ (\A b \in Counters : then[b] <= now[b]) =>
              /\ EachSince(now, then)[c] = now[c] - then[c]
              /\ AllSince(now, then)[c] = now[c] - then[c]
BY DEF EachSince, AllSince, Zeros

\* Report's rates are within the span.
LEMMA ReportedWithin ==
  ASSUME IInv, Report
  PROVE  RateWithinSpan'
<1>0. /\ pollAt = "secondRead" /\ left = {} /\ UNCHANGED <<gaps, elapsed, slack, kind>>
      /\ rated' \subseteq before \cap after
      /\ growth' = [d \in Devices |-> Since(d)]
  BY DEF Report, Rated
<1>1. ASSUME NEW d \in rated' \ gaps, NEW c \in Counters
      PROVE  growth'[d][c] <= Span(Elapsed)
  <2>1. d \in Devices /\ d \in before \ gaps /\ d \in after
    BY <1>0 DEF IInv, RateTypeOK
  <2>2. /\ second[d] \in [Counters -> Nat] /\ first[d] \in [Counters -> Nat]
        /\ second[d][c] \in Nat /\ first[d][c] \in Nat
    BY <2>1 DEF IInv, RateTypeOK
  <2>3. Closed(d, c)
    BY <1>0, <2>1 DEF Closed
  <2>4. second[d][c] <= first[d][c] + Span(Elapsed)
    BY <2>1, <2>3 DEF IInv, SpanInv
  <2>5. Elapsed \in Nat /\ Span(Elapsed) \in Nat
    BY SpanFacts DEF IInv, RateTypeOK, Elapsed
  <2>6. growth'[d] \in {EachSince(second[d], first[d]), AllSince(second[d], first[d])}
    BY <1>0, <2>1 DEF Since
  <2>7. growth'[d][c] \in {0, second[d][c] - first[d][c]}
    BY <2>2, <2>6, SinceIs
  <2> QED BY <2>2, <2>4, <2>5, <2>7
<1>2. (Cap * (elapsed + slack))' = Span(Elapsed)
  BY <1>0 DEF Span, Elapsed
<1> QED BY <1>0, <1>1, <1>2 DEF RateWithinSpan

\* A product grows with its factor.
LEMMA TimesMonotonic == \A k, m, n \in Nat : m <= n => k * m <= k * n
OBVIOUS

\* So is the container's total, apart from what its new devices had counted.
LEMMA ReportedTotal ==
  ASSUME IInv, Report
  PROVE  TotalWithinSpan'
<1> SUFFICES ASSUME kind = "container", NEW c \in Counters
             PROVE  total'[c] <= Span(Elapsed) * Cardinality(after)
                                 + Totals(after \ before, second)[c]
  BY DEF Report, TotalWithinSpan, Span, Elapsed
<1> DEFINE both == after \cap before
           new  == [d \in after |-> second[d][c]]
           old  == [d \in before |-> first[d][c]]
           newBoth == [d \in both |-> second[d][c]]
           oldBoth == [d \in both |-> first[d][c]]
           newcomers == [d \in after \ before |-> second[d][c]]
           k == Span(Elapsed)
<1>0. /\ pollAt = "secondRead" /\ left = {} /\ gaps = {}
      /\ total' = AllSince(Totals(after, second), Totals(before, first))
  BY DEF Report, IInv, PollInv
<1>1. /\ before \in SUBSET Devices /\ after \in SUBSET Devices /\ both \in SUBSET after
      /\ both \in SUBSET before /\ both \subseteq Devices
      /\ first \in Readings /\ second \in Readings
      /\ IsFiniteSet(before) /\ IsFiniteSet(after) /\ IsFiniteSet(both)
      /\ IsFiniteSet(after \ before) /\ IsFiniteSet(before \ both)
  <2>1. before \in SUBSET Devices /\ after \in SUBSET Devices /\ IsFiniteSet(Devices)
    BY RatesAssumption DEF IInv, RateTypeOK
  <2>2. first \in Readings /\ second \in Readings
    BY DEF IInv, RateTypeOK, Readings
  <2> QED BY <2>1, <2>2, FS_Subset
<1>2. /\ new \in [after -> Nat] /\ old \in [before -> Nat]
      /\ newBoth \in [both -> Nat] /\ oldBoth \in [both -> Nat]
      /\ newcomers \in [after \ before -> Nat]
  BY <1>1 DEF Readings
<1>3. /\ Totals(after, second)[c] = SumOver(new, after)
      /\ Totals(before, first)[c] = SumOver(old, before)
      /\ Totals(after \ before, second)[c] = SumOver(newcomers, after \ before)
  BY <1>1, TotalsAre
<1>4. SumOver(new, after) = SumOver(newBoth, both) + SumOver(newcomers, after \ before)
  <2>1. after \ both = after \ before
    OBVIOUS
  <2>2. /\ \A d \in both : newBoth[d] = new[d]
        /\ \A d \in after \ both : newcomers[d] = new[d]
    BY <2>1
  <2>3. newcomers \in [after \ both -> Nat]
    BY <1>2, <2>1
  <2> HIDE DEF new, both, newBoth, newcomers
  <2>4. SumOver(new, after) = SumOver(newBoth, both) + SumOver(newcomers, after \ both)
    BY <1>1, <1>2, <2>2, <2>3, SumSplits
  <2> QED BY <2>1, <2>4
<1>5. SumOver(oldBoth, both) <= SumOver(old, before)
  <2> DEFINE rest == [d \in before \ both |-> old[d]]
  <2>1. /\ \A d \in both : oldBoth[d] = old[d]
        /\ \A d \in before \ both : rest[d] = old[d]
    OBVIOUS
  <2>2. rest \in [before \ both -> Nat]
    BY <1>2
  <2> HIDE DEF rest, oldBoth, old, both
  <2>3. SumOver(old, before) = SumOver(oldBoth, both) + SumOver(rest, before \ both)
    BY <1>1, <1>2, <2>1, <2>2, SumSplits
  <2>4. SumOver(rest, before \ both) \in Nat /\ SumOver(oldBoth, both) \in Nat
    BY <1>1, <1>2, <2>2, SumNat
  <2> QED BY <2>3, <2>4
<1>6. SumOver(newBoth, both) <= SumOver(oldBoth, both) + k * Cardinality(both)
  <2> DEFINE most == [d \in both |-> oldBoth[d] + k]
             same == [d \in both |-> k]
             each == [d \in both |-> oldBoth[d] + same[d]]
  <2>1. k \in Nat
    BY SpanFacts DEF IInv, RateTypeOK, Elapsed
  <2>2. ASSUME NEW d \in both PROVE newBoth[d] <= oldBoth[d] + k
    <3>1. Closed(d, c) /\ d \in before \ gaps
      BY <1>0 DEF Closed
    <3>2. second[d][c] <= first[d][c] + k
      BY <3>1 DEF IInv, SpanInv
    <3> QED BY <3>2
  <2> HIDE DEF newBoth, oldBoth, both, k
  <2>3. each \in [both -> Nat] /\ same \in [both -> Nat]
    BY <1>2, <2>1
  <2>4. SumOver(each, both) = SumOver(oldBoth, both) + SumOver(same, both)
    <3> HIDE DEF same
    <3> QED BY <1>1, <1>2, <2>3, SumAdds
  <2>5. \A d \in both : newBoth[d] <= each[d]
    BY <2>2
  <2>6. SumOver(newBoth, both) <= SumOver(each, both)
    <3> HIDE DEF each
    <3> QED BY <1>1, <1>2, <2>3, <2>5, SumMonotonic
  <2>7. SumOver(same, both) <= k * Cardinality(both)
    <3>1. \A d \in both : same[d] <= k
      BY <2>1
    <3> HIDE DEF same
    <3> QED BY <1>1, <2>1, <2>3, <3>1, SumBounded
  <2> HIDE DEF each, same
  <2>8. /\ SumOver(newBoth, both) \in Nat /\ SumOver(each, both) \in Nat
        /\ SumOver(oldBoth, both) \in Nat /\ SumOver(same, both) \in Nat
        /\ Cardinality(both) \in Nat
    BY <1>1, <1>2, <2>3, SumNat, FS_CardinalityType
  <2>9. k * Cardinality(both) \in Nat
    BY <2>1, <2>8
  <2> QED BY <2>4, <2>6, <2>7, <2>8, <2>9
<1>7. k * Cardinality(both) <= k * Cardinality(after)
  <2>1. k \in Nat
    BY SpanFacts DEF IInv, RateTypeOK, Elapsed
  <2>2. /\ Cardinality(both) \in Nat /\ Cardinality(after) \in Nat
        /\ Cardinality(both) <= Cardinality(after)
    BY <1>1, FS_CardinalityType, FS_Subset
  <2> HIDE DEF k, both
  <2> QED BY <2>1, <2>2, TimesMonotonic
<1>8. /\ SumOver(new, after) \in Nat /\ SumOver(old, before) \in Nat
      /\ SumOver(newBoth, both) \in Nat /\ SumOver(oldBoth, both) \in Nat
      /\ SumOver(newcomers, after \ before) \in Nat
      /\ k * Cardinality(both) \in Nat /\ k * Cardinality(after) \in Nat
  <2>1. k \in Nat
    BY SpanFacts DEF IInv, RateTypeOK, Elapsed
  <2>2. Cardinality(both) \in Nat /\ Cardinality(after) \in Nat
    BY <1>1, FS_CardinalityType
  <2> HIDE DEF k, both, new, old, newBoth, oldBoth, newcomers
  <2>3. k * Cardinality(both) \in Nat /\ k * Cardinality(after) \in Nat
    BY <2>1, <2>2
  <2> QED BY <1>1, <1>2, <2>3, SumNat
<1>9. total'[c] \in {0, SumOver(new, after) - SumOver(old, before)}
  <2>1. Totals(after, second) \in [Counters -> Nat]
        /\ Totals(before, first) \in [Counters -> Nat]
    BY <1>1, TotalsType
  <2>2. total'[c] \in {0, Totals(after, second)[c] - Totals(before, first)[c]}
    BY <1>0, <2>1, SinceIs
  <2> QED BY <1>3, <2>2
<1> HIDE DEF k, both, new, old, newBoth, oldBoth, newcomers
<1>10. total'[c] <= k * Cardinality(after) + SumOver(newcomers, after \ before)
  BY ONLY <1>4, <1>5, <1>6, <1>7, <1>8, <1>9
<1> QED BY <1>3, <1>10 DEF k

\* Rates are exact for what nothing happened to.
LEMMA ReportedSteady ==
  ASSUME IInv, Report
  PROVE  SteadyRowsExact'
<1>0. /\ pollAt = "secondRead" /\ left = {}
      /\ UNCHANGED <<kind, here, touched, grown>>
      /\ growth' = [d \in Devices |-> Since(d)]
      /\ rated' = IF kind = "container" THEN {} ELSE before \cap after
      /\ kind = "container" =>
           total' = AllSince(Totals(after, second), Totals(before, first))
  BY DEF Report, Rated, deviceVars
<1>1. ASSUME NEW d \in Devices \ touched
      PROVE  /\ (d \in here <=> d \in before) /\ (d \in here <=> d \in after)
             /\ d \in here =>
                  \A c \in Counters : second[d][c] = first[d][c] + grown[d][c]
  <2>1. /\ (d \in here <=> d \in before) /\ (d \in here <=> d \in after)
    BY <1>0 DEF IInv, SteadyInv, Polled, Counters
  <2>2. d \in here => \A c \in Counters : Taken(d, c) /\ Closed(d, c)
    BY <1>0, <2>1 DEF Taken, Closed, Polled
  <2> QED BY <2>1, <2>2 DEF IInv, SteadyInv
<1>2. ASSUME kind # "container", NEW d \in here \ touched
      PROVE  d \in rated' /\ growth'[d] = grown[d]
  <2>1. d \in Devices /\ d \in before /\ d \in after /\ d \in rated'
    BY <1>0, <1>1, <1>2 DEF IInv, RateTypeOK
  <2>2. /\ second[d] \in [Counters -> Nat] /\ first[d] \in [Counters -> Nat]
        /\ grown[d] \in [Counters -> Nat]
    BY <2>1 DEF IInv, RateTypeOK
  <2>3. ASSUME NEW c \in Counters
        PROVE  first[d][c] <= second[d][c] /\ second[d][c] - first[d][c] = grown[d][c]
    <3>1. second[d][c] = first[d][c] + grown[d][c]
      BY <1>1, <1>2, <2>1
    <3>2. first[d][c] \in Nat /\ grown[d][c] \in Nat
      BY <2>2
    <3> QED BY <3>1, <3>2
  <2>4. growth'[d] \in {EachSince(second[d], first[d]), AllSince(second[d], first[d])}
    BY <1>0, <2>1 DEF Since
  <2>5. ASSUME NEW c \in Counters PROVE growth'[d][c] = grown[d][c]
    <3>1. \A b \in Counters : first[d][b] <= second[d][b]
      BY <2>3
    <3>2. /\ EachSince(second[d], first[d])[c] = second[d][c] - first[d][c]
          /\ AllSince(second[d], first[d])[c] = second[d][c] - first[d][c]
      BY <2>2, <3>1, SinceIs
    <3> QED BY <2>3, <2>4, <3>2
  <2>6. growth'[d] \in [Counters -> Nat]
    BY <2>2, <2>4, SinceType
  <2> QED BY <2>1, <2>2, <2>5, <2>6
<1>3. ASSUME kind = "container", touched = {}
      PROVE  total' = Totals(here, grown)
  <2>1. here = before /\ here = after /\ here \in SUBSET Devices
    BY <1>1, <1>3 DEF IInv, RateTypeOK
  <2>2. first \in Readings /\ second \in Readings /\ grown \in Readings
    BY DEF IInv, RateTypeOK, Readings
  <2>3. IsFiniteSet(here)
    BY <2>1, RatesAssumption, FS_Subset
  <2>4. ASSUME NEW c \in Counters
        PROVE  Totals(here, second)[c] = Totals(here, first)[c] + Totals(here, grown)[c]
    <3> DEFINE f == [d \in here |-> first[d][c]]
               g == [d \in here |-> grown[d][c]]
               s == [d \in here |-> second[d][c]]
    <3>1. f \in [here -> Nat] /\ g \in [here -> Nat]
      BY <2>1, <2>2 DEF Readings
    <3>2. s = [d \in here |-> f[d] + g[d]]
      BY <1>1, <1>3, <2>1
    <3>3. /\ Totals(here, second)[c] = SumOver(s, here)
          /\ Totals(here, first)[c] = SumOver(f, here)
          /\ Totals(here, grown)[c] = SumOver(g, here)
      BY <2>1, <2>2, TotalsAre
    <3> HIDE DEF f, g, s
    <3>4. SumOver([d \in here |-> f[d] + g[d]], here) = SumOver(f, here) + SumOver(g, here)
      BY <2>3, <3>1, SumAdds
    <3> QED BY <3>2, <3>3, <3>4
  <2> DEFINE now == Totals(here, second)
             then == Totals(here, first)
             more == Totals(here, grown)
  <2>5. now \in [Counters -> Nat] /\ then \in [Counters -> Nat] /\ more \in [Counters -> Nat]
    BY <2>1, <2>2, TotalsType
  <2>6. total' = AllSince(now, then)
    BY <1>0, <1>3, <2>1
  <2> HIDE DEF now, then, more
  <2>7. ASSUME NEW c \in Counters
        PROVE  then[c] <= now[c] /\ now[c] - then[c] = more[c]
    <3>1. now[c] = then[c] + more[c]
      BY <2>4 DEF now, then, more
    <3>2. then[c] \in Nat /\ more[c] \in Nat
      BY <2>5
    <3> QED BY <3>1, <3>2
  <2>8. \A c \in Counters : AllSince(now, then)[c] = more[c]
    BY <2>5, <2>7, SinceIs
  <2>9. AllSince(now, then) \in [Counters -> Nat]
    BY <2>5, SinceType
  <2>10. AllSince(now, then) = more
    BY <2>5, <2>8, <2>9
  <2> QED BY <2>6, <2>10 DEF more
<1> QED BY <1>0, <1>2, <1>3 DEF SteadyRowsExact

\* A property of what is reported, once reported, stays.
LEMMA ReportStays ==
  ASSUME IInv, [RateNext]_rateVars
  PROVE  /\ RateWithinSpan => RateWithinSpan'
         /\ TotalWithinSpan => TotalWithinSpan'
         /\ SteadyRowsExact => SteadyRowsExact'
<1>1. CASE pollAt' # "returned"
  BY <1>1 DEF RateWithinSpan, TotalWithinSpan, SteadyRowsExact
<1>2. CASE UNCHANGED rateVars
  BY <1>2
  DEF rateVars, deviceVars, resultVars, RateWithinSpan, TotalWithinSpan,
      SteadyRowsExact
<1>3. CASE Report
  BY <1>3, ReportedWithin, ReportedTotal, ReportedSteady
<1> QED BY <1>1, <1>2, <1>3, ReturnStep

\* RateTypeOK is an invariant: no rate is negative, not even of a counter that
\* restarted.
THEOREM RatesTypeCorrect == RateSpec => []RateTypeOK
<1>1. IInv => RateTypeOK
  BY DEF IInv
<1> QED BY <1>1, IInvInit, IInvStep, PTL DEF RateSpec

\* RateWithinSpan is an invariant: deltaPerSec and RatesSince never underflow
\* into an enormous rate, whatever restarts, goes or comes between the polls.
THEOREM SpanSound == RateSpec => []RateWithinSpan
<1>1. RateInit => RateWithinSpan
  BY DEF RateInit, RateWithinSpan
<1> QED BY <1>1, IInvInit, IInvStep, ReportStays, PTL DEF RateSpec

\* TotalWithinSpan is an invariant: nor does a container's total.
THEOREM TotalSound == RateSpec => []TotalWithinSpan
<1>1. RateInit => TotalWithinSpan
  BY DEF RateInit, TotalWithinSpan
<1> QED BY <1>1, IInvInit, IInvStep, ReportStays, PTL DEF RateSpec

\* SteadyRowsExact is an invariant: a device that stays gets a rate, made of
\* exactly what it counted, whatever happens to the others.
THEOREM SteadyRowsSound == RateSpec => []SteadyRowsExact
<1>1. RateInit => SteadyRowsExact
  BY DEF RateInit, SteadyRowsExact
<1> QED BY <1>1, IInvInit, IInvStep, ReportStays, PTL DEF RateSpec
===============================================================================
