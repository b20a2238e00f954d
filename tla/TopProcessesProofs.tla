------------------------- MODULE TopProcessesProofs -------------------------
(***************************************************************************)
(* Proofs about TopProcesses for any number of pids, cores, incarnations   *)
(* and any length of the sampling window.                                  *)
(***************************************************************************)
EXTENDS TopProcesses, FiniteFacts

\* CPU ticks one process can be charged in d ticks of wall time.
Budget(d) == Cores * d

Horizon == MaxClock + Window

\* What a process can burn is a natural number, monotonic in the time, and less
\* than 2^64 over the whole call.
LEMMA BudgetFacts ==
  /\ \A d \in Nat : Budget(d) \in Nat
  /\ \A d \in Nat : Budget(d + 1) = Budget(d) + Cores
  /\ \A d, e \in Nat : d <= e => Budget(d) <= Budget(e)
  /\ Budget(0) = 0
  /\ Budget(Horizon) < Word
  /\ Horizon \in Nat
BY ProcAssumption, CallAssumption DEF Budget, Horizon

-----------------------------------------------------------------------------
(* Type correctness.                                                       *)

\* cands is a finite set, so that sorting it gives a sequence.
TypeInv == TypeOK /\ IsFiniteSet(cands)

\* A wrapped difference is never negative.
LEMMA Sub64Type == \A a, b \in Nat : Sub64(a, b) \in Nat
<1>1. Word \in Nat \ {0}
  BY BudgetFacts, CallAssumption
<1> QED BY <1>1 DEF Sub64

\* A candidate has the type of one.
LEMMA CandidateType ==
  ASSUME TypeOK, NEW p \in Pids, NEW found \in BOOLEAN,
         sample1[p] # None, req.mode = "instant" => sample2[p] # None
  PROVE  CandidateOf(p, found) \in Candidate
<1>1. sample1[p] \in Stat /\ (req.mode = "instant" => sample2[p] \in Stat)
  BY DEF TypeOK, Samples
<1>2. req.mode \in {"instant", "average"}
  BY CallAssumption DEF TypeOK, Requests
<1>3. start \in Nat /\ elapsed \in Nat /\ rss[p] \in Nat
  BY ProcAssumption DEF TypeOK, KernelTypeOK
<1>4. ASSUME req.mode = "average" PROVE
        AverageCPUPercent(sample1[p].cpu, sample1[p].starttime, start) \in Usage
  BY <1>1, <1>3 DEF AverageCPUPercent, Usage, Zero, Stat
<1>5. ASSUME req.mode = "instant" PROVE
        InstantCPUPercent(sample1[p].cpu, sample2[p].cpu, elapsed) \in Usage
  <2>1. Sub64(sample2[p].cpu, sample1[p].cpu) \in Nat
    BY <1>1, <1>5, Sub64Type DEF Stat
  <2> QED BY <2>1, <1>3 DEF InstantCPUPercent, Usage, Zero
<1> QED BY <1>1, <1>2, <1>3, <1>4, <1>5 DEF CandidateOf, Candidate, Stat

\* Sorting or listing a finite set of n elements gives a sequence of length n.
LEMMA OrderIsSeq ==
  ASSUME NEW S, NEW T, S \subseteq T, IsFiniteSet(S),
         NEW s \in [1..Cardinality(S) -> S]
  PROVE  s \in Seq(T) /\ Len(s) = Cardinality(S)
<1>1. Cardinality(S) \in Nat
  BY FS_CardinalityType
<1> QED BY <1>1

\* The first state.
LEMMA TypeInit == Init => TypeInv
<1> SUFFICES ASSUME Init PROVE TypeInv
  OBVIOUS
<1> USE DEF Init, KernelInit
<1>1. KernelTypeOK
  <2>1. Cores * Uptime0 \in Nat
    BY ProcAssumption
  <2> QED BY <2>1, ProcAssumption DEF KernelTypeOK
<1>2. sample1 \in Samples /\ sample2 \in Samples
  BY DEF Samples, NoSamples
<1>3. IsFiniteSet(cands)
  BY FS_EmptySet
<1> QED
  BY <1>1, <1>2, <1>3
  DEF TypeInv, TypeOK, Locations, Early, Collecting, Enriching, Final

-----------------------------------------------------------------------------
(* What each location of the call can rely on.                             *)

PhaseInv ==
  /\ pc \in {"start", "uptime"} => sample1 = NoSamples
  /\ pc \in {"start", "uptime", "sample1", "sleep"} => sample2 = NoSamples
  /\ pc = "uptime" => req.mode = "average"
  /\ pc \in {"sleep", "sample2"} => req.mode = "instant"
  /\ pc \in {"sample1", "sleep", "sample2"} => start <= clock
  /\ pc = "status" =>
       /\ i <= Len(pids)
       /\ sample1[pids[i]] # None
       /\ req.mode = "instant" => sample2[pids[i]] # None
  /\ pc \in {"io", "ioRead"} => i <= Len(ranked) /\ row \in Row

\* A row has the type of one.
LEMMA RowType ==
  /\ \A c \in Candidate, g \in Nat :
       [cand |-> c, gen |-> g, fds |-> FALSE, io |-> FALSE, ioRead |-> FALSE]
         \in Row
  /\ \A r \in Row, a, b \in BOOLEAN : [r EXCEPT !.fds = a, !.io = b] \in Row
  /\ \A r \in Row, a \in BOOLEAN : [r EXCEPT !.ioRead = a] \in Row
BY DEF Row

\* Each step of the call keeps the types.
LEMMA TypeCall ==
  ASSUME TypeInv, PhaseInv, Call
  PROVE  TypeInv'
<1> USE DEF TypeInv, TypeOK, Locations, Early, Collecting, Enriching, Final
<1>0. kernelVars' = kernelVars /\ cancelled' = cancelled
  BY DEF Call
<1>1. KernelTypeOK'
  BY <1>0 DEF kernelVars, KernelTypeOK
<1>2. \A p \in Pids : StatOf(p) \in Stat
  BY DEF StatOf, Stat, KernelTypeOK
<1>3. ASSUME NEW why \in {"sort", "proc", "meminfo", "uptime", "ctx", "panic"},
             Fail(why)
      PROVE  TypeInv'
  BY <1>0, <1>1, <1>3 DEF Fail
<1>4. CASE ListPids
  <2>1. CASE /\ pids' \in ListOrders(alive)
             /\ i' = 1
             /\ IF req.mode = "average"
                THEN pc' = "uptime" /\ UNCHANGED start
                ELSE pc' = "sample1" /\ start' = clock
             /\ UNCHANGED <<req, wake, sample1, sample2, elapsed, cands,
                            ranked, row, out, gone, err>>
    <3>1. IsFiniteSet(alive)
      BY FS_Subset, ProcAssumption DEF KernelTypeOK
    <3>2. pids' \in Seq(Pids)
      BY <2>1, <3>1, OrderIsSeq DEF ListOrders, KernelTypeOK
    <3> QED BY <2>1, <3>2, <1>0, <1>1 DEF KernelTypeOK
  <2> QED BY <1>4, <2>1, <1>3 DEF ListPids
<1>5. CASE ReadUptime
  <2>1. CASE Fail("uptime")
    BY <2>1, <1>3
  <2>2. CASE ~Fail("uptime")
    BY <2>2, <1>5, <1>0, <1>1 DEF ReadUptime, KernelTypeOK
  <2> QED BY <2>1, <2>2
<1>6. CASE Sample1
  <2>1. pids[i] \in Pids
    BY <1>6 DEF Sample1
  <2>2. sample1' \in Samples
    BY <1>6, <2>1, <1>2 DEF Sample1, Samples
  <2> QED BY <1>6, <2>2, <1>0, <1>1 DEF Sample1
<1>7. CASE EndSample1
  <2>1. /\ clock - start \in Nat
        /\ clock + Window \in Nat
    BY <1>7, ProcAssumption DEF EndSample1, PhaseInv, KernelTypeOK
  <2> QED BY <1>7, <2>1, <1>0, <1>1 DEF EndSample1
<1>8. CASE SleepElapses
  BY <1>8, <1>0, <1>1 DEF SleepElapses
<1>9. CASE SleepCancelled
  BY <1>9, <1>3 DEF SleepCancelled
<1>10. CASE Sample2
  <2>1. pids[i] \in Pids
    BY <1>10 DEF Sample2
  <2>2. sample2' \in Samples
    BY <1>10, <2>1, <1>2 DEF Sample2, Samples
  <2> QED BY <1>10, <2>2, <1>0, <1>1 DEF Sample2
<1>11. CASE EndSample2
  <2>1. clock - start \in Nat
    BY <1>11 DEF EndSample2, PhaseInv, KernelTypeOK
  <2> QED BY <1>11, <2>1, <1>0, <1>1 DEF EndSample2
<1>12. CASE Collect
  <2>1. CASE cancelled # "no"
    BY <2>1, <1>12, <1>3 DEF Collect
  <2>2. CASE cancelled = "no"
    BY <2>2, <1>12, <1>0, <1>1 DEF Collect
  <2> QED BY <2>1, <2>2
<1>13. CASE ReadStatus
  <2>0. /\ i <= Len(pids)
        /\ sample1[pids[i]] # None
        /\ req.mode = "instant" => sample2[pids[i]] # None
    <3>1. pc = "status"
      BY <1>13 DEF ReadStatus
    <3> QED BY <3>1 DEF PhaseInv
  <2>1. pids[i] \in Pids
    BY <2>0
  <2>2. CandidateOf(pids[i], pids[i] \in alive) \in Candidate
    <3>1. (pids[i] \in alive) \in BOOLEAN
      OBVIOUS
    <3> QED BY <2>0, <2>1, <3>1, CandidateType
  <2>3. IsFiniteSet(cands')
    BY <1>13, FS_AddElement DEF ReadStatus
  <2> QED BY <1>13, <2>2, <2>3, <1>0, <1>1 DEF ReadStatus
<1>14. CASE SortAndLimit
  <2>1. CASE req.count < 0
    BY <2>1, <1>14, <1>3 DEF SortAndLimit
  <2>2. CASE ~(req.count < 0)
    <3>1. PICK s \in SortedOrders(cands) :
            ranked' = IF Len(s) > req.count THEN SubSeq(s, 1, req.count) ELSE s
      BY <2>2, <1>14 DEF SortAndLimit
    <3>2. s \in Seq(Candidate)
      BY <3>1, OrderIsSeq DEF SortedOrders
    <3>3. req.count \in Int
      BY CallAssumption DEF Requests
    <3>4. ranked' \in Seq(Candidate)
      <4>1. CASE Len(s) > req.count
        <5>1. \A n \in 1..req.count : s[n] \in Candidate
          BY <4>1, <3>2, <3>3
        <5> QED BY <5>1, <4>1, <3>1, <3>3, <2>2
      <4> QED BY <4>1, <3>1, <3>2
    <3>5. NoSamples \in Samples
      BY DEF NoSamples, Samples
    <3> QED BY <2>2, <1>14, <3>4, <3>5, <1>0, <1>1 DEF SortAndLimit
  <2> QED BY <2>1, <2>2
<1>15. CASE EnrichStat
  <2>0. i <= Len(ranked)
    BY <1>15 DEF EnrichStat
  <2>1. ranked[i] \in Candidate /\ ranked[i].pid \in Pids
    <3>1. ranked[i] \in Candidate
      BY <2>0
    <3> QED BY <3>1 DEF Candidate
  <2>2. row' \in Row \cup {None}
    <3>1. gen[ranked[i].pid] \in Nat
      BY <2>1 DEF KernelTypeOK
    <3> DEFINE new == [cand |-> ranked[i], gen |-> gen[ranked[i].pid], fds |-> FALSE,
                       io |-> FALSE, ioRead |-> FALSE]
    <3>2. new \in Row
      BY ONLY <2>1, <3>1, RowType
    <3>3. row' \in {row, new}
      BY <1>15 DEF EnrichStat
    <3> QED BY <3>2, <3>3
  <2>3. gone' \subseteq Pids
    BY <1>15, <2>1 DEF EnrichStat
  <2>4. pc' \in Locations /\ i' \in Nat \ {0}
    BY <1>15 DEF EnrichStat
  <2> QED BY <1>15, <2>2, <2>3, <2>4, <1>0, <1>1 DEF EnrichStat
<1>16. CASE StatProcIO
  <2>1. row' \in Row
    <3>1. row \in Row
      BY <1>16 DEF StatProcIO, PhaseInv
    <3>2. \A a, b \in BOOLEAN : [row EXCEPT !.fds = a, !.io = b] \in Row
      BY <3>1, RowType
    <3>3. /\ (ranked[i].pid \in alive \ Private) \in BOOLEAN
          /\ (ranked[i].pid \in alive) \in BOOLEAN
      OBVIOUS
    <3>4. [row EXCEPT !.fds = ranked[i].pid \in alive \ Private,
                      !.io = ranked[i].pid \in alive] \in Row
      BY ONLY <3>2, <3>3, Zenon
    <3> QED BY <1>16, <3>4 DEF StatProcIO
  <2> QED BY <1>16, <2>1, <1>0, <1>1 DEF StatProcIO
<1>17. CASE ReadProcIO
  <2>1. out' \in Seq(Row)
    <3>1. row \in Row
      BY <1>17 DEF ReadProcIO, PhaseInv
    <3>2. PICK a \in BOOLEAN : out' = Append(out, [row EXCEPT !.ioRead = a])
      BY <1>17, Zenon DEF ReadProcIO
    <3>3. [row EXCEPT !.ioRead = a] \in Row
      BY <3>1, RowType
    <3> QED BY <3>2, <3>3
  <2> QED BY <1>17, <2>1, <1>0, <1>1 DEF ReadProcIO
<1>18. CASE Return
  BY <1>18, <1>0, <1>1 DEF Return
<1> QED
  BY <1>4, <1>5, <1>6, <1>7, <1>8, <1>9, <1>10, <1>11, <1>12, <1>13, <1>14,
     <1>15, <1>16, <1>17, <1>18 DEF Call, CallStep

-----------------------------------------------------------------------------
(* What the environment may do between two steps of the call.              *)

EnvStep == Cancel \/ Time \/ Lifecycle \/ UNCHANGED vars

\* The account of a pid: either the same process went on, charged at most its
\* budget for the time that passed, or a new one took over the pid.
SameProcess(p) ==
  /\ gen'[p] = gen[p] /\ born'[p] = born[p]
  /\ ticks[p] <= ticks'[p] /\ ticks'[p] <= ticks[p] + Cores * (clock' - clock)

Recycled(p) ==
  /\ gen'[p] = gen[p] + 1 /\ born'[p] = clock /\ ticks'[p] = 0
  /\ clock' = clock /\ p \notin alive

\* What may happen between two steps of the call.
LEMMA EnvEffect ==
  ASSUME TypeInv, EnvStep
  PROVE  /\ KernelTypeOK'
         /\ UNCHANGED callVars
         /\ clock <= clock' /\ clock' <= clock + 1
         /\ clock <= Horizon => clock' <= Horizon
         /\ \A p \in Pids : SameProcess(p) \/ Recycled(p)
         /\ \A p \in Pids : p \notin alive /\ p \in alive' => Recycled(p)
<1> USE DEF TypeInv, TypeOK, KernelTypeOK, SameProcess, Recycled
<1>0. Cores \in Nat /\ MaxClock \in Nat /\ Window \in Nat
  BY ProcAssumption
<1>1. CASE Cancel \/ UNCHANGED vars
  BY <1>0, <1>1 DEF Cancel, vars, kernelVars, Horizon
<1>2. CASE Time
  <2>1. /\ clock' = clock + 1 /\ clock < Limit
        /\ UNCHANGED <<alive, born, gen, rss>> /\ UNCHANGED callVars
    BY <1>2 DEF Time, Tick
  <2>2. PICK d \in [Pids -> 0..Cores] :
          ticks' = [p \in Pids |-> ticks[p] + d[p]]
    BY <1>2 DEF Time, Tick
  <2>3. \A p \in Pids : d[p] \in Nat /\ d[p] <= Cores
    BY <2>2, <1>0
  <2>4. ticks' \in [Pids -> Nat]
    BY <2>2, <2>3
  <2>5. \A p \in Pids : ticks[p] <= ticks'[p] /\ ticks'[p] <= ticks[p] + Cores
    <3> TAKE p \in Pids
    <3>1. ticks'[p] = ticks[p] + d[p] /\ ticks[p] \in Nat
      BY <2>2
    <3> QED BY <3>1, <2>3, <1>0
  <2>6. Cores * (clock' - clock) = Cores
    BY <2>1, <1>0
  <2>7. clock' <= Horizon
    BY <2>1, <1>0 DEF Limit, Horizon
  <2> QED BY <2>1, <2>4, <2>5, <2>6, <2>7, <1>0
<1>3. CASE Lifecycle
  <2>1. UNCHANGED callVars /\ UNCHANGED clock
    BY <1>3 DEF Lifecycle, Spawn, Exit
  <2>2. Cores * (clock' - clock) = 0
    BY <2>1, <1>0
  <2>3. PICK p \in Pids : Spawn(p) \/ Exit(p)
    BY <1>3 DEF Lifecycle
  <2>4. CASE Spawn(p)
    <3>1. KernelTypeOK'
      BY <2>4 DEF Spawn
    <3>2. Recycled(p)
      BY <2>4 DEF Spawn
    <3>3. \A q \in Pids \ {p} : SameProcess(q) /\ (q \in alive' => q \in alive)
      BY <2>4, <2>2 DEF Spawn
    <3>4. \A q \in Pids : SameProcess(q) \/ Recycled(q)
      BY <3>2, <3>3, Zenon
    <3>5. \A q \in Pids : q \notin alive /\ q \in alive' => Recycled(q)
      BY <3>2, <3>3, Zenon
    <3>6. clock <= clock' /\ clock' <= clock + 1 /\ (clock <= Horizon => clock' <= Horizon)
      BY <2>1
    <3> QED BY ONLY <3>1, <3>4, <3>5, <3>6, <2>1, Zenon
  <2>5. CASE Exit(p)
    BY <2>5, <2>1, <2>2 DEF Exit
  <2> QED BY <2>3, <2>4, <2>5
<1> QED BY <1>1, <1>2, <1>3 DEF EnvStep

\* A step is one of the call's or one of its environment's.
LEMMA StepSplit == [Next]_vars => Call \/ EnvStep
BY DEF Next, EnvStep, Returned

\* Every step preserves the types.
LEMMA TypeStep == TypeInv /\ PhaseInv /\ [Next]_vars => TypeInv'
<1> SUFFICES ASSUME TypeInv, PhaseInv, EnvStep PROVE TypeInv'
  BY TypeCall, StepSplit
<1>1. KernelTypeOK' /\ UNCHANGED callVars
  BY EnvEffect
<1>2. cancelled' \in {"no", "early", "late"}
  BY DEF EnvStep, Cancel, Time, Lifecycle, vars, TypeInv, TypeOK
<1> QED BY <1>1, <1>2 DEF TypeInv, TypeOK, callVars

-----------------------------------------------------------------------------
(* The control facts hold of every location.                               *)

\* The first state.
LEMMA PhaseInit == Init => PhaseInv
BY DEF Init, PhaseInv

\* Every step preserves what a location can rely on.
LEMMA PhaseStep == TypeInv /\ PhaseInv /\ [Next]_vars => PhaseInv'
<1> SUFFICES ASSUME TypeInv, PhaseInv, Call \/ EnvStep PROVE PhaseInv'
  BY StepSplit
<1>1. CASE EnvStep
  <2>1. UNCHANGED callVars /\ clock <= clock' /\ clock' \in Nat
    BY <1>1, EnvEffect DEF KernelTypeOK
  <2>2. clock \in Nat /\ start \in Nat
    BY DEF TypeInv, TypeOK, KernelTypeOK
  <2> QED BY <2>1, <2>2 DEF PhaseInv, callVars
<1>2. CASE Call
  <2>0. clock' = clock /\ clock \in Nat
    BY <1>2 DEF Call, kernelVars, TypeInv, TypeOK, KernelTypeOK
  <2>1. ASSUME NEW why, Fail(why) PROVE PhaseInv'
    BY <2>1 DEF Fail, PhaseInv
  <2>2. CASE ListPids
    <3>1. CASE Fail("sort") \/ Fail("proc") \/ Fail("meminfo")
      BY <3>1, <2>1
    <3>2. CASE ~(Fail("sort") \/ Fail("proc") \/ Fail("meminfo"))
      <4>1. /\ pc = "start" /\ UNCHANGED <<req, sample1, sample2>>
            /\ \/ req.mode = "average" /\ pc' = "uptime"
               \/ pc' = "sample1" /\ start' = clock
        BY <2>2, <3>2 DEF ListPids
      <4>2. sample1' = NoSamples /\ sample2' = NoSamples
        BY <4>1 DEF PhaseInv
      <4> QED BY <2>0, <4>1, <4>2 DEF PhaseInv
    <3> QED BY <3>1, <3>2
  <2>3. CASE ReadUptime
    BY <2>0, <2>1, <2>3 DEF ReadUptime, PhaseInv
  <2>4. CASE Sample1
    BY <2>0, <2>4 DEF Sample1, PhaseInv
  <2>5. CASE EndSample1
    <3>1. req.mode \in {"instant", "average"}
      BY CallAssumption DEF TypeInv, TypeOK, Requests
    <3> QED BY <2>0, <2>5, <3>1 DEF EndSample1, PhaseInv
  <2>6. CASE SleepElapses
    BY <2>0, <2>6 DEF SleepElapses, PhaseInv
  <2>7. CASE SleepCancelled
    BY <2>1, <2>7 DEF SleepCancelled
  <2>8. CASE Sample2
    BY <2>0, <2>8 DEF Sample2, PhaseInv
  <2>9. CASE EndSample2
    BY <2>0, <2>9 DEF EndSample2, PhaseInv
  <2>10. CASE Collect
    BY <2>0, <2>1, <2>10 DEF Collect, PhaseInv
  <2>11. CASE ReadStatus
    BY <2>0, <2>11 DEF ReadStatus, PhaseInv
  <2>12. CASE SortAndLimit
    BY <2>0, <2>1, <2>12 DEF SortAndLimit, PhaseInv
  <2>13. CASE EnrichStat
    <3>1. i <= Len(ranked) => ranked[i] \in Candidate
      BY DEF TypeInv, TypeOK
    <3>2. \A c \in Candidate : gen[c.pid] \in Nat
      BY DEF Candidate, TypeInv, TypeOK, KernelTypeOK
    <3> QED BY <2>0, <2>13, <3>1, <3>2, RowType DEF EnrichStat, PhaseInv
  <2>14. CASE StatProcIO
    <3>1. row \in Row /\ i <= Len(ranked)
      BY <2>14 DEF StatProcIO, PhaseInv
    <3>2. row' \in Row
      <4>1. \A a, b \in BOOLEAN : [row EXCEPT !.fds = a, !.io = b] \in Row
        BY <3>1, RowType
      <4>2. /\ (ranked[i].pid \in alive \ Private) \in BOOLEAN
            /\ (ranked[i].pid \in alive) \in BOOLEAN
        OBVIOUS
      <4>3. [row EXCEPT !.fds = ranked[i].pid \in alive \ Private,
                        !.io = ranked[i].pid \in alive] \in Row
        BY ONLY <4>1, <4>2, Zenon
      <4> QED BY <2>14, <4>3 DEF StatProcIO
    <3> QED BY <2>0, <2>14, <3>1, <3>2 DEF StatProcIO, PhaseInv
  <2>15. CASE ReadProcIO
    BY <2>0, <2>15 DEF ReadProcIO, PhaseInv
  <2>16. CASE Return
    BY <2>0, <2>16 DEF Return, PhaseInv
  <2> QED
    BY <1>2, <2>2, <2>3, <2>4, <2>5, <2>6, <2>7, <2>8, <2>9, <2>10, <2>11,
       <2>12, <2>13, <2>14, <2>15, <2>16 DEF Call, CallStep
<1> QED BY <1>1, <1>2

\* TypeOK is an invariant: every variable of a GetTopProcesses call keeps its
\* type; in particular no CPU figure is ever negative, whatever the samples.
THEOREM TypeCorrect == Spec => []TypeOK
<1>1. Init => TypeInv /\ PhaseInv
  BY TypeInit, PhaseInit
<1>2. TypeInv /\ PhaseInv /\ [Next]_vars => TypeInv' /\ PhaseInv'
  BY TypeStep, PhaseStep
<1>3. TypeInv => TypeOK
  BY DEF TypeInv
<1> QED BY <1>1, <1>2, <1>3, PTL DEF Spec

-----------------------------------------------------------------------------
(* The sampling argument.  Each sample is tied to the account of the       *)
(* process it was taken of, and through it to the clock.                   *)

AccountInv ==
  /\ clock <= Horizon
  /\ \A p \in Pids :
       born[p] <= clock /\ ticks[p] <= Budget(clock - born[p])

\* A first sample of a process still running: it was charged no more since
\* than the time since start allows.
FirstSampleInv ==
  \A p \in Pids : sample1[p] # None =>
    /\ sample1[p].gen <= gen[p]
    /\ sample1[p].cpu <= Budget(Horizon)
    /\ pc \in {"sample1", "sleep", "sample2"} /\ sample1[p].gen = gen[p] =>
         /\ sample1[p].cpu <= ticks[p]
         /\ ticks[p] <= sample1[p].cpu + Budget(clock - start)

\* Two samples of one process are as far apart as the window allows, and the
\* window is closed when elapsed is taken.
SecondSampleInv ==
  \A p \in Pids : sample2[p] # None =>
    /\ sample2[p].gen <= gen[p]
    /\ sample2[p].cpu <= Budget(Horizon)
    /\ sample1[p] # None /\ sample1[p].gen = sample2[p].gen =>
         /\ sample1[p].cpu <= sample2[p].cpu
         /\ pc = "sample2" =>
              sample2[p].cpu <= sample1[p].cpu + Budget(clock - start)
         /\ pc \in Collecting =>
              sample2[p].cpu <= sample1[p].cpu + Budget(elapsed)

\* In average mode a stat belongs to a process that lived, when it was read,
\* as long as its account says.
LifetimeInv ==
  req.mode = "average" =>
    \A p \in Pids : sample1[p] # None =>
      /\ pc = "sample1" =>
           /\ sample1[p].starttime <= clock
           /\ sample1[p].cpu <= Budget(clock - sample1[p].starttime)
      /\ pc \in Collecting =>
           /\ sample1[p].starttime <= start + elapsed
           /\ sample1[p].cpu <= Budget((start + elapsed) - sample1[p].starttime)

SampleInv == AccountInv /\ FirstSampleInv /\ SecondSampleInv /\ LifetimeInv

\* What a process can burn is additive in the time.
LEMMA BudgetAdd ==
  \A d, e \in Nat : Budget(d + e) = Budget(d) + Cores * e /\ Cores * e \in Nat
BY ProcAssumption DEF Budget

\* A window [c, a] that grows to [c, b].
LEMMA Shift ==
  \A a, b, c \in Nat :
    c <= a /\ a <= b => /\ a - c \in Nat /\ b - c \in Nat /\ b - a \in Nat
                       /\ a - c <= b - c
                       /\ b - c = (a - c) + (b - a)
OBVIOUS

\* The first state.
LEMMA SampleInit == Init => SampleInv
<1> SUFFICES ASSUME Init PROVE SampleInv
  OBVIOUS
<1>1. AccountInv
  <2>1. Uptime0 \in Nat /\ Cores * Uptime0 \in Nat /\ Uptime0 <= Horizon
    BY ProcAssumption DEF Horizon
  <2>2. clock = Uptime0
    BY DEF Init, KernelInit
  <2>3. \A p \in Pids : born[p] = 0 /\ ticks[p] <= Cores * Uptime0
    BY <2>1 DEF Init, KernelInit
  <2>4. clock - 0 = Uptime0
    BY <2>1, <2>2
  <2> QED BY <2>1, <2>2, <2>3, <2>4 DEF AccountInv, Budget
<1>2. \A p \in Pids : sample1[p] = None /\ sample2[p] = None
  BY DEF Init, NoSamples
<1> QED
  BY <1>1, <1>2 DEF SampleInv, FirstSampleInv, SecondSampleInv, LifetimeInv

\* The environment charges a sampled process within its budget, and a recycled
\* pid no longer matches the sample.
LEMMA SampleEnv ==
  ASSUME TypeInv, PhaseInv, SampleInv, EnvStep
  PROVE  SampleInv'
<1>1. /\ UNCHANGED callVars
      /\ clock \in Nat /\ clock' \in Nat /\ clock <= clock'
      /\ clock' <= Horizon
      /\ \A p \in Pids : SameProcess(p) \/ Recycled(p)
      /\ KernelTypeOK /\ KernelTypeOK'
  BY EnvEffect DEF TypeInv, TypeOK, KernelTypeOK, SampleInv, AccountInv
<1>2. \A p \in Pids :
        /\ born[p] \in Nat /\ ticks[p] \in Nat /\ gen[p] \in Nat
        /\ born'[p] \in Nat /\ ticks'[p] \in Nat /\ gen'[p] \in Nat
  BY <1>1 DEF KernelTypeOK
<1>3. start \in Nat /\ elapsed \in Nat
  BY DEF TypeInv, TypeOK
<1>4. \A p \in Pids : /\ sample1[p] # None => sample1[p] \in Stat
                      /\ sample2[p] # None => sample2[p] \in Stat
  BY DEF TypeInv, TypeOK, Samples
<1>t. clock \in Nat /\ clock' \in Nat /\ clock <= clock'
  BY <1>1
<1>s. pc \in {"sample1", "sleep", "sample2"} => start <= clock
  BY DEF PhaseInv
<1>5. AccountInv'
  <2> SUFFICES ASSUME NEW p \in Pids
               PROVE  born'[p] <= clock' /\ ticks'[p] <= Budget(clock' - born'[p])
    BY <1>1 DEF AccountInv, Horizon
  <2>1. CASE SameProcess(p)
    <3>1. /\ born[p] <= clock /\ ticks[p] <= Budget(clock - born[p])
      BY DEF SampleInv, AccountInv
    <3> DEFINE d == clock - born[p]
               e == clock' - clock
    <3>2. d \in Nat /\ e \in Nat /\ clock' - born[p] = d + e
      BY <1>1, <1>2, <3>1
    <3>3. Budget(d + e) = Budget(d) + Cores * e /\ Cores * e \in Nat
      BY <3>2, BudgetAdd
    <3>4. ticks'[p] <= ticks[p] + Cores * e /\ born'[p] = born[p]
      BY <2>1 DEF SameProcess
    <3>5. Budget(d) \in Nat
      BY <3>2, BudgetFacts
    <3> HIDE DEF d, e
    <3> QED BY <1>1, <1>2, <3>1, <3>2, <3>3, <3>4, <3>5 DEF d
  <2>2. CASE Recycled(p)
    BY <2>2, <1>1, BudgetFacts DEF Recycled
  <2> QED BY <1>1, <2>1, <2>2
<1>6. FirstSampleInv'
  <2> SUFFICES ASSUME NEW p \in Pids, sample1[p] # None
               PROVE  /\ sample1[p].gen <= gen'[p]
                      /\ sample1[p].cpu <= Budget(Horizon)
                      /\ /\ pc \in {"sample1", "sleep", "sample2"}
                         /\ sample1[p].gen = gen'[p]
                         => /\ sample1[p].cpu <= ticks'[p]
                            /\ ticks'[p] <= sample1[p].cpu + Budget(clock' - start)
    BY <1>1 DEF FirstSampleInv, callVars, Horizon, Budget
  <2>1. /\ sample1[p].gen <= gen[p]
        /\ sample1[p].cpu <= Budget(Horizon)
        /\ pc \in {"sample1", "sleep", "sample2"} /\ sample1[p].gen = gen[p] =>
             /\ sample1[p].cpu <= ticks[p]
             /\ ticks[p] <= sample1[p].cpu + Budget(clock - start)
    BY DEF SampleInv, FirstSampleInv
  <2>2. sample1[p].gen \in Nat /\ sample1[p].cpu \in Nat
    BY <1>4 DEF Stat
  <2>3. CASE SameProcess(p)
    <3>1. /\ gen'[p] = gen[p] /\ ticks[p] <= ticks'[p]
          /\ ticks'[p] <= ticks[p] + Cores * (clock' - clock)
      BY <2>3 DEF SameProcess
    <3>2. ASSUME pc \in {"sample1", "sleep", "sample2"}
          PROVE  Budget(clock' - start)
                   = Budget(clock - start) + Cores * (clock' - clock)
      <4> DEFINE d == clock - start
                 e == clock' - clock
      <4>1. d \in Nat /\ e \in Nat /\ clock' - start = d + e
        BY <1>t, <1>s, <1>3, <3>2, Shift
      <4>2. Budget(d + e) = Budget(d) + Cores * e
        BY <4>1, BudgetAdd
      <4> QED BY <4>1, <4>2
    <3>3. ASSUME pc \in {"sample1", "sleep", "sample2"}
          PROVE  Budget(clock - start) \in Nat /\ Cores * (clock' - clock) \in Nat
      <4>1. clock - start \in Nat /\ clock' - clock \in Nat
        BY <1>t, <1>s, <1>3, <3>3, Shift
      <4> QED BY <4>1, BudgetFacts, BudgetAdd
    <3> QED BY <2>1, <2>2, <1>2, <3>1, <3>2, <3>3
  <2>4. CASE Recycled(p)
    <3>1. gen'[p] = gen[p] + 1
      BY <2>4 DEF Recycled
    <3> QED BY <2>1, <2>2, <1>2, <3>1
  <2> QED BY <1>1, <2>3, <2>4
<1>7. SecondSampleInv'
  <2> SUFFICES ASSUME NEW p \in Pids, sample2[p] # None
               PROVE  /\ sample2[p].gen <= gen'[p]
                      /\ sample2[p].cpu <= Budget(Horizon)
                      /\ sample1[p] # None /\ sample1[p].gen = sample2[p].gen =>
                           /\ sample1[p].cpu <= sample2[p].cpu
                           /\ pc = "sample2" =>
                                sample2[p].cpu
                                  <= sample1[p].cpu + Budget(clock' - start)
                           /\ pc \in Collecting =>
                                sample2[p].cpu <= sample1[p].cpu + Budget(elapsed)
    BY <1>1 DEF SecondSampleInv, callVars, Horizon, Budget
  <2>1. /\ sample2[p].gen <= gen[p]
        /\ sample2[p].cpu <= Budget(Horizon)
        /\ sample1[p] # None /\ sample1[p].gen = sample2[p].gen =>
             /\ sample1[p].cpu <= sample2[p].cpu
             /\ pc = "sample2" =>
                  sample2[p].cpu <= sample1[p].cpu + Budget(clock - start)
             /\ pc \in Collecting =>
                  sample2[p].cpu <= sample1[p].cpu + Budget(elapsed)
    BY DEF SampleInv, SecondSampleInv
  <2>2. sample2[p].gen \in Nat /\ sample2[p].cpu \in Nat
        /\ (sample1[p] # None => sample1[p].cpu \in Nat)
    BY <1>4 DEF Stat
  <2>3. gen[p] <= gen'[p]
    BY <1>1, <1>2 DEF SameProcess, Recycled
  <2>4. ASSUME pc = "sample2" PROVE
          /\ Budget(clock - start) <= Budget(clock' - start)
          /\ Budget(clock - start) \in Nat /\ Budget(clock' - start) \in Nat
    <3>1. /\ clock - start \in Nat /\ clock' - start \in Nat
          /\ clock - start <= clock' - start
      BY <1>t, <1>s, <1>3, <2>4, Shift
    <3> QED BY <3>1, BudgetFacts
  <2> QED BY <2>1, <2>2, <2>3, <2>4, <1>2
<1>8. LifetimeInv'
  <2> SUFFICES ASSUME req.mode = "average", NEW p \in Pids, sample1[p] # None
               PROVE  /\ pc = "sample1" =>
                           /\ sample1[p].starttime <= clock'
                           /\ sample1[p].cpu
                                <= Budget(clock' - sample1[p].starttime)
                      /\ pc \in Collecting =>
                           /\ sample1[p].starttime <= start + elapsed
                           /\ sample1[p].cpu
                                <= Budget((start + elapsed) - sample1[p].starttime)
    BY <1>1 DEF LifetimeInv, callVars, Budget
  <2>1. sample1[p].starttime \in Nat /\ sample1[p].cpu \in Nat
    BY <1>4 DEF Stat
  <2>2. /\ pc = "sample1" =>
             /\ sample1[p].starttime <= clock
             /\ sample1[p].cpu <= Budget(clock - sample1[p].starttime)
        /\ pc \in Collecting =>
             /\ sample1[p].starttime <= start + elapsed
             /\ sample1[p].cpu <= Budget((start + elapsed) - sample1[p].starttime)
    BY DEF SampleInv, LifetimeInv
  <2>3. ASSUME pc = "sample1" PROVE
          /\ Budget(clock - sample1[p].starttime)
               <= Budget(clock' - sample1[p].starttime)
          /\ Budget(clock - sample1[p].starttime) \in Nat
          /\ Budget(clock' - sample1[p].starttime) \in Nat
    <3>1. /\ clock - sample1[p].starttime \in Nat
          /\ clock' - sample1[p].starttime \in Nat
          /\ clock - sample1[p].starttime <= clock' - sample1[p].starttime
      BY <1>1, <2>1, <2>2, <2>3
    <3> QED BY <3>1, BudgetFacts
  <2> QED BY <1>1, <2>1, <2>2, <2>3
<1> QED BY <1>5, <1>6, <1>7, <1>8 DEF SampleInv

\* What reading /proc/<pid>/stat records.
LEMMA SampleOf ==
  ASSUME TypeInv, AccountInv, NEW p \in Pids
  PROVE  /\ StatOf(p) \in Stat
         /\ StatOf(p).gen = gen[p] /\ StatOf(p).cpu = ticks[p]
         /\ StatOf(p).starttime = born[p]
         /\ gen[p] \in Nat /\ ticks[p] \in Nat /\ born[p] \in Nat
         /\ ticks[p] <= Budget(Horizon)
<1>1. gen[p] \in Nat /\ ticks[p] \in Nat /\ born[p] \in Nat /\ clock \in Nat
  BY DEF TypeInv, TypeOK, KernelTypeOK
<1>2. clock <= Horizon /\ born[p] <= clock /\ ticks[p] <= Budget(clock - born[p])
  BY DEF AccountInv
<1>3. Budget(clock - born[p]) <= Budget(Horizon)
  <2>1. Horizon \in Nat
    BY BudgetFacts
  <2>2. clock - born[p] \in Nat /\ clock - born[p] <= Horizon
    BY <1>1, <1>2, <2>1
  <2> QED BY <2>1, <2>2, BudgetFacts
<1>4. Budget(clock - born[p]) \in Nat /\ Budget(Horizon) \in Nat
  <2>1. clock - born[p] \in Nat
    BY <1>1, <1>2
  <2> QED BY <2>1, BudgetFacts
<1> QED BY <1>1, <1>2, <1>3, <1>4 DEF StatOf, Stat

\* A step of the call preserves SampleInv.
LEMMA SampleCall ==
  ASSUME TypeInv, PhaseInv, SampleInv, Call
  PROVE  SampleInv'
<1>0. UNCHANGED <<clock, alive, born, ticks, gen, rss>>
  BY DEF Call, kernelVars
<1>1. AccountInv'
  BY <1>0 DEF SampleInv, AccountInv, Budget, Horizon
<1>2. /\ clock \in Nat /\ start \in Nat /\ elapsed \in Nat
      /\ \A p \in Pids : /\ sample1[p] # None => sample1[p] \in Stat
                         /\ sample2[p] # None => sample2[p] \in Stat
      /\ sample1 \in [Pids -> Stat \cup {None}]
      /\ sample2 \in [Pids -> Stat \cup {None}]
  BY DEF TypeInv, TypeOK, Samples, KernelTypeOK
<1>3. ASSUME NEW why, Fail(why) PROVE SampleInv'
  <2>1. /\ UNCHANGED <<req, start, elapsed, sample1, sample2>> /\ pc' = "failed"
    BY <1>3 DEF Fail
  <2> QED
    BY <1>0, <1>1, <2>1
    DEF SampleInv, FirstSampleInv, SecondSampleInv, LifetimeInv, Collecting,
        Budget, Horizon
<1>4. ASSUME sample1' = NoSamples, sample2' = NoSamples PROVE SampleInv'
  <2>1. \A p \in Pids : sample1'[p] = None /\ sample2'[p] = None
    BY <1>4 DEF NoSamples
  <2> QED
    BY <1>1, <2>1 DEF SampleInv, FirstSampleInv, SecondSampleInv, LifetimeInv
<1>5. CASE ListPids
  <2>1. CASE Fail("sort") \/ Fail("proc") \/ Fail("meminfo")
    BY <2>1, <1>3
  <2>2. CASE ~(Fail("sort") \/ Fail("proc") \/ Fail("meminfo"))
    <3>1. sample1' = sample1 /\ sample2' = sample2 /\ pc = "start"
      BY <1>5, <2>2 DEF ListPids
    <3> QED BY <1>4, <3>1 DEF PhaseInv
  <2> QED BY <2>1, <2>2
<1>6. CASE ReadUptime
  <2>1. CASE Fail("uptime")
    BY <2>1, <1>3
  <2>2. CASE ~Fail("uptime")
    <3>1. sample1' = sample1 /\ sample2' = sample2 /\ pc = "uptime"
      BY <1>6, <2>2 DEF ReadUptime
    <3> QED BY <1>4, <3>1 DEF PhaseInv
  <2> QED BY <2>1, <2>2
<1>7. CASE Sample1
  <2>1. /\ pc = "sample1" /\ UNCHANGED <<req, pc, start, elapsed, sample2>>
        /\ pids[i] \in Pids /\ start <= clock
    BY <1>7 DEF Sample1, PhaseInv, TypeInv, TypeOK
  <2>2. \A p \in Pids : sample2'[p] = None
    BY <2>1 DEF PhaseInv, NoSamples
  <2>3. clock - start \in Nat /\ Budget(clock - start) \in Nat
    <3>1. clock - start \in Nat
      BY <1>2, <2>1
    <3> QED BY <3>1, BudgetFacts
  <2>4. \A p \in Pids : sample1'[p] = sample1[p] \/ sample1'[p] = StatOf(p)
    BY <1>7, <1>2, <2>1 DEF Sample1
  <2>5. FirstSampleInv'
    <3> SUFFICES ASSUME NEW p \in Pids, sample1'[p] # None
                 PROVE  /\ sample1'[p].gen <= gen[p]
                        /\ sample1'[p].cpu <= Budget(Horizon)
                        /\ sample1'[p].gen = gen[p] =>
                             /\ sample1'[p].cpu <= ticks[p]
                             /\ ticks[p] <= sample1'[p].cpu + Budget(clock - start)
      BY <1>0, <2>1 DEF FirstSampleInv, Budget, Horizon
    <3>1. CASE sample1'[p] = sample1[p]
      BY <3>1, <2>1 DEF SampleInv, FirstSampleInv
    <3>2. CASE sample1'[p] = StatOf(p)
      BY <3>2, <2>3, SampleOf DEF SampleInv
    <3> QED BY <2>4, <3>1, <3>2
  <2>6. LifetimeInv'
    <3> SUFFICES ASSUME req.mode = "average", NEW p \in Pids, sample1'[p] # None
                 PROVE  /\ sample1'[p].starttime <= clock
                        /\ sample1'[p].cpu <= Budget(clock - sample1'[p].starttime)
      BY <1>0, <2>1 DEF LifetimeInv, Collecting, Budget
    <3>1. CASE sample1'[p] = sample1[p]
      BY <3>1, <2>1 DEF SampleInv, LifetimeInv
    <3>2. CASE sample1'[p] = StatOf(p)
      BY <3>2, SampleOf DEF SampleInv, AccountInv
    <3> QED BY <2>4, <3>1, <3>2
  <2>7. SecondSampleInv'
    BY <2>2 DEF SecondSampleInv
  <2> QED BY <1>1, <2>5, <2>6, <2>7 DEF SampleInv
<1>8. CASE EndSample1
  <2>1. /\ pc = "sample1" /\ UNCHANGED <<req, start, sample1, sample2>>
        /\ pc' \in {"collect", "sleep"}
        /\ start <= clock
    BY <1>8 DEF EndSample1, PhaseInv
  <2>2. req.mode = "average" => pc' = "collect" /\ elapsed' = clock - start
    BY <1>8 DEF EndSample1
  <2>3. \A p \in Pids : sample2'[p] = None
    BY <2>1 DEF PhaseInv, NoSamples
  <2>4. FirstSampleInv'
    BY <1>0, <2>1 DEF SampleInv, FirstSampleInv, Budget, Horizon
  <2>5. LifetimeInv'
    <3>1. req.mode = "average" => start + elapsed' = clock
      BY <1>2, <2>2
    <3> SUFFICES ASSUME req.mode = "average", NEW p \in Pids, sample1[p] # None
                 PROVE  /\ sample1[p].starttime <= start + elapsed'
                        /\ sample1[p].cpu
                             <= Budget((start + elapsed') - sample1[p].starttime)
      BY <1>0, <2>1, <2>2 DEF LifetimeInv, Budget
    <3>2. /\ sample1[p].starttime <= clock
          /\ sample1[p].cpu <= Budget(clock - sample1[p].starttime)
      BY <2>1 DEF SampleInv, LifetimeInv
    <3> DEFINE w == start + elapsed'
    <3>3. w = clock
      BY <3>1
    <3> HIDE DEF w
    <3>4. /\ sample1[p].starttime <= w
          /\ sample1[p].cpu <= Budget(w - sample1[p].starttime)
      BY <3>2, <3>3
    <3> QED BY <3>4 DEF w
  <2>6. SecondSampleInv'
    BY <2>3 DEF SecondSampleInv
  <2> QED BY <1>1, <2>4, <2>5, <2>6 DEF SampleInv
<1>9. CASE SleepElapses
  <2>1. /\ pc = "sleep" /\ pc' = "sample2"
        /\ UNCHANGED <<req, start, elapsed, sample1, sample2>>
    BY <1>9 DEF SleepElapses
  <2>2. \A p \in Pids : sample2'[p] = None
    BY <2>1 DEF PhaseInv, NoSamples
  <2>3. FirstSampleInv'
    BY <1>0, <2>1 DEF SampleInv, FirstSampleInv, Budget, Horizon
  <2>4. LifetimeInv'
    BY <2>1 DEF PhaseInv, LifetimeInv
  <2>5. SecondSampleInv'
    BY <2>2 DEF SecondSampleInv
  <2> QED BY <1>1, <2>3, <2>4, <2>5 DEF SampleInv
<1>10. CASE SleepCancelled
  BY <1>10, <1>3 DEF SleepCancelled
<1>11. CASE Sample2
  <2>1. /\ pc = "sample2" /\ UNCHANGED <<req, pc, start, elapsed, sample1>>
        /\ pids[i] \in Pids
    BY <1>11 DEF Sample2, TypeInv, TypeOK
  <2>2. \A p \in Pids : sample2'[p] = sample2[p] \/ sample2'[p] = StatOf(p)
    BY <1>11, <1>2, <2>1 DEF Sample2
  <2>3. FirstSampleInv'
    BY <1>0, <2>1 DEF SampleInv, FirstSampleInv, Budget, Horizon
  <2>4. LifetimeInv'
    BY <2>1 DEF PhaseInv, LifetimeInv
  <2>5. SecondSampleInv'
    <3> SUFFICES ASSUME NEW p \in Pids, sample2'[p] # None
                 PROVE  /\ sample2'[p].gen <= gen[p]
                        /\ sample2'[p].cpu <= Budget(Horizon)
                        /\ sample1[p] # None /\ sample1[p].gen = sample2'[p].gen =>
                             /\ sample1[p].cpu <= sample2'[p].cpu
                             /\ sample2'[p].cpu <= sample1[p].cpu + Budget(clock - start)
      BY <1>0, <2>1 DEF SecondSampleInv, Budget, Horizon, Collecting
    <3>1. CASE sample2'[p] = sample2[p]
      BY <3>1, <2>1 DEF SampleInv, SecondSampleInv
    <3>2. CASE sample2'[p] = StatOf(p)
      <4>1. /\ sample2'[p].gen = gen[p] /\ sample2'[p].cpu = ticks[p]
            /\ gen[p] \in Nat /\ ticks[p] <= Budget(Horizon)
        BY <3>2, SampleOf DEF SampleInv
      <4>2. sample1[p] # None /\ sample1[p].gen = gen[p] =>
              /\ sample1[p].cpu <= ticks[p]
              /\ ticks[p] <= sample1[p].cpu + Budget(clock - start)
        BY <2>1 DEF SampleInv, FirstSampleInv
      <4> QED BY <4>1, <4>2
    <3> QED BY <2>2, <3>1, <3>2
  <2> QED BY <1>1, <2>3, <2>4, <2>5 DEF SampleInv
<1>12. CASE EndSample2
  <2>1. /\ pc = "sample2" /\ pc' = "collect" /\ elapsed' = clock - start
        /\ UNCHANGED <<req, start, sample1, sample2>> /\ req.mode = "instant"
    BY <1>12 DEF EndSample2, PhaseInv
  <2>2. FirstSampleInv'
    BY <1>0, <2>1 DEF SampleInv, FirstSampleInv, Budget, Horizon
  <2>3. LifetimeInv'
    BY <2>1 DEF LifetimeInv
  <2>4. SecondSampleInv'
    BY <1>0, <2>1 DEF SampleInv, SecondSampleInv, Budget, Horizon
  <2> QED BY <1>1, <2>2, <2>3, <2>4 DEF SampleInv
<1>13. (/\ req' = req /\ start' = start /\ elapsed' = elapsed
        /\ sample1' = sample1 /\ sample2' = sample2
        /\ \/ pc \in Collecting /\ pc' \in Collecting
           \/ pc \in Enriching \cup Final /\ pc' \in Enriching \cup Final)
         => SampleInv'
  <2> SUFFICES ASSUME req' = req /\ start' = start /\ elapsed' = elapsed,
                      sample1' = sample1 /\ sample2' = sample2,
                      \/ pc \in Collecting /\ pc' \in Collecting
                      \/ pc \in Enriching \cup Final /\ pc' \in Enriching \cup Final
               PROVE  SampleInv'
    OBVIOUS
  <2>1. FirstSampleInv'
    BY <1>0
    DEF SampleInv, FirstSampleInv, Collecting, Enriching, Final, Budget, Horizon
  <2>2. SecondSampleInv'
    BY <1>0
    DEF SampleInv, SecondSampleInv, Collecting, Enriching, Final, Budget, Horizon
  <2>3. LifetimeInv'
    BY <1>0
    DEF SampleInv, LifetimeInv, Collecting, Enriching, Final, Budget
  <2> QED BY <1>1, <2>1, <2>2, <2>3 DEF SampleInv
<1>14. CASE Collect
  <2>1. CASE Fail("ctx")
    BY <2>1, <1>3
  <2>2. CASE ~Fail("ctx")
    <3>1. /\ req' = req /\ start' = start /\ elapsed' = elapsed
          /\ sample1' = sample1 /\ sample2' = sample2
          /\ pc \in Collecting /\ pc' \in Collecting
      BY <1>14, <2>2 DEF Collect, Collecting
    <3> QED BY <1>13, <3>1
  <2> QED BY <2>1, <2>2
<1>15. CASE ReadStatus
  <2>1. /\ req' = req /\ start' = start /\ elapsed' = elapsed
        /\ sample1' = sample1 /\ sample2' = sample2
        /\ pc \in Collecting /\ pc' \in Collecting
    BY <1>15 DEF ReadStatus, Collecting
  <2> QED BY <1>13, <2>1
<1>16. CASE SortAndLimit
  BY <1>16, <1>3, <1>4 DEF SortAndLimit
<1>17. CASE EnrichStat
  BY <1>17, <1>13 DEF EnrichStat, Enriching
<1>18. CASE StatProcIO
  BY <1>18, <1>13 DEF StatProcIO, Enriching
<1>19. CASE ReadProcIO
  BY <1>19, <1>13 DEF ReadProcIO, Enriching
<1>20. CASE Return
  BY <1>20, <1>13 DEF Return, Enriching, Final
<1> QED
  BY <1>5, <1>6, <1>7, <1>8, <1>9, <1>10, <1>11, <1>12, <1>14, <1>15, <1>16,
     <1>17, <1>18, <1>19, <1>20 DEF Call, CallStep

\* Every step preserves SampleInv.
LEMMA SampleStep ==
  TypeInv /\ PhaseInv /\ SampleInv /\ [Next]_vars => SampleInv'
BY SampleCall, SampleEnv, StepSplit

\* Unsigned subtraction of samples in the right order does not wrap.
LEMMA Sub64Exact ==
  \A a, b \in Nat : b <= a /\ a < Word => Sub64(a, b) = a - b
BY CallAssumption DEF Sub64

\* The candidate built from the two samples claims no more than the window.
LEMMA CandidateWithinWindow ==
  ASSUME TypeInv, PhaseInv, SampleInv, pc = "status", NEW found \in BOOLEAN,
         NEW c, c = CandidateOf(pids[i], found), c.gen1 = c.gen2
  PROVE  c.cpu.num <= Cores * (c.cpu.den + c.lag)
<1> DEFINE p == pids[i]
<1>1. /\ i <= Len(pids) /\ sample1[p] # None
      /\ req.mode = "instant" => sample2[p] # None
  BY DEF PhaseInv
<1>2. p \in Pids
  BY <1>1 DEF TypeInv, TypeOK
<1>3. sample1[p] \in Stat /\ (req.mode = "instant" => sample2[p] \in Stat)
  BY <1>1, <1>2 DEF TypeInv, TypeOK, Samples
<1>4. start \in Nat /\ elapsed \in Nat /\ Cores \in Nat
  BY ProcAssumption DEF TypeInv, TypeOK
<1>5. pc \in Collecting
  BY DEF Collecting
<1>6. req.mode \in {"instant", "average"}
  BY CallAssumption DEF TypeInv, TypeOK, Requests
<1>7. c.cpu = Zero => c.cpu.num <= Cores * (c.cpu.den + c.lag)
  <2>1. c.lag \in Nat
    BY <1>4 DEF CandidateOf
  <2>2. Cores * (1 + c.lag) \in Nat
    <3>1. 1 + c.lag \in Nat
      BY <2>1
    <3> QED BY <3>1, <1>4
  <2>3. Zero.num = 0 /\ Zero.den = 1
    BY DEF Zero
  <2> QED BY <2>2, <2>3
<1>8. CASE req.mode = "average"
  <2> DEFINE born1 == sample1[p].starttime
  <2>1. c.cpu = AverageCPUPercent(sample1[p].cpu, born1, start) /\ c.lag = elapsed
    BY <1>8 DEF CandidateOf
  <2>2. /\ born1 <= start + elapsed
        /\ sample1[p].cpu <= Budget((start + elapsed) - born1)
    BY <1>1, <1>2, <1>5, <1>8 DEF SampleInv, LifetimeInv
  <2>3. CASE start - born1 > 0
    <3>1. c.cpu.num = sample1[p].cpu /\ c.cpu.den = start - born1
      <4>1. start - born1 \in Int
        BY <1>3, <1>4 DEF Stat
      <4>2. ~(start - born1 <= 0)
        BY <4>1, <2>3
      <4> QED BY <2>1, <4>2 DEF AverageCPUPercent
    <3>2. (start + elapsed) - born1 = (start - born1) + elapsed
      BY <1>3, <1>4 DEF Stat
    <3> QED BY <2>1, <2>2, <3>1, <3>2 DEF Budget
  <2>4. CASE ~(start - born1 > 0)
    <3>1. start - born1 <= 0
      BY <1>3, <1>4, <2>4 DEF Stat
    <3> QED BY <1>7, <2>1, <3>1 DEF AverageCPUPercent
  <2> QED BY <2>3, <2>4
<1>9. CASE req.mode = "instant"
  <2>0. req.mode # "average"
    BY <1>9
  <2>1. /\ c.cpu = InstantCPUPercent(sample1[p].cpu, sample2[p].cpu, elapsed)
        /\ c.lag = 0 /\ c.gen1 = sample1[p].gen /\ c.gen2 = sample2[p].gen
    BY <2>0 DEF CandidateOf
  <2>2. /\ sample1[p].cpu <= sample2[p].cpu
        /\ sample2[p].cpu <= sample1[p].cpu + Budget(elapsed)
        /\ sample2[p].cpu <= Budget(Horizon)
    BY <1>1, <1>2, <1>5, <1>9, <2>1 DEF SampleInv, SecondSampleInv
  <2>3. sample1[p].cpu \in Nat /\ sample2[p].cpu \in Nat
    BY <1>3, <1>9 DEF Stat
  <2>4. Sub64(sample2[p].cpu, sample1[p].cpu) = sample2[p].cpu - sample1[p].cpu
    <3>1. Budget(Horizon) \in Nat /\ Budget(Horizon) < Word /\ Word \in Nat
      BY BudgetFacts, CallAssumption
    <3>2. sample2[p].cpu < Word
      BY <2>2, <2>3, <3>1
    <3> QED BY <2>2, <2>3, <3>2, Sub64Exact
  <2>5. CASE elapsed = 0
    BY <1>7, <2>1, <2>5 DEF InstantCPUPercent
  <2>6. CASE elapsed # 0
    <3>1. c.cpu.num = sample2[p].cpu - sample1[p].cpu /\ c.cpu.den = elapsed
      BY <2>1, <2>4, <2>6, <1>4 DEF InstantCPUPercent
    <3>2. Budget(elapsed) \in Nat
      BY <1>4, BudgetFacts
    <3>3. sample2[p].cpu - sample1[p].cpu <= Budget(elapsed)
      BY <2>2, <2>3, <3>2
    <3>4. c.cpu.den + c.lag = elapsed
      BY <3>1, <2>1, <1>4
    <3> QED BY <3>1, <3>3, <3>4 DEF Budget
  <2> QED BY <2>5, <2>6
<1> QED BY <1>6, <1>8, <1>9

\* Every step keeps the reported usage within the budget.
LEMMA UsageStep ==
  ASSUME TypeInv, PhaseInv, SampleInv, UsageWithinWindow, [Next]_vars
  PROVE  UsageWithinWindow'
<1>1. CASE ReadStatus
  <2>1. cands' = cands \cup {CandidateOf(pids[i], pids[i] \in alive)}
        /\ pc = "status"
    BY <1>1 DEF ReadStatus
  <2> SUFFICES ASSUME NEW c \in cands', c.gen1 = c.gen2
               PROVE  c.cpu.num <= Cores * (c.cpu.den + c.lag)
    BY DEF UsageWithinWindow
  <2>2. CASE c \in cands
    BY <2>2 DEF UsageWithinWindow
  <2>3. CASE c = CandidateOf(pids[i], pids[i] \in alive)
    <3>1. (pids[i] \in alive) \in BOOLEAN
      OBVIOUS
    <3> QED BY <2>1, <2>3, <3>1, CandidateWithinWindow
  <2> QED BY <2>1, <2>2, <2>3
<1>2. CASE ~ReadStatus
  <2>1. cands' = cands
    <3>1. EnvStep => cands' = cands
      BY EnvEffect DEF callVars
    <3>2. Call => cands' = cands
      BY <1>2
      DEF Call, CallStep, Fail, ListPids, ReadUptime, Sample1, EndSample1,
          SleepElapses, SleepCancelled, Sample2, EndSample2, Collect,
          SortAndLimit, EnrichStat, StatProcIO, ReadProcIO, Return
    <3> QED BY <3>1, <3>2, StepSplit
  <2> QED BY <2>1 DEF UsageWithinWindow
<1> QED BY <1>1, <1>2

\* UsageWithinWindow is an invariant: a CPU figure whose samples belong to one
\* process never exceeds what the machine could give that process in the window
\* it is divided by, for any number of cores and however long the window.
THEOREM UsageSound == Spec => []UsageWithinWindow
<1> DEFINE IInv == TypeInv /\ PhaseInv /\ SampleInv /\ UsageWithinWindow
<1>1. Init => IInv
  BY TypeInit, PhaseInit, SampleInit DEF Init, UsageWithinWindow
<1>2. IInv /\ [Next]_vars => IInv'
  BY TypeStep, PhaseStep, SampleStep, UsageStep
<1>3. IInv => UsageWithinWindow
  OBVIOUS
<1> QED BY <1>1, <1>2, <1>3, PTL DEF Spec

-----------------------------------------------------------------------------
(* Cancellation.                                                           *)

CancelInv ==
  cancelled = "early" /\ pids # <<>> =>
    /\ pc = "collect" => i = 1
    /\ pc \notin {"status", "ok"} \cup Enriching

\* Every step preserves what a cancelled call returns.
LEMMA CancelStep ==
  ASSUME TypeInv, CancelInv, [Next]_vars
  PROVE  CancelInv'
<1> USE DEF CancelInv, Enriching
<1>1. CASE EnvStep
  <2>1. UNCHANGED callVars
    BY <1>1, EnvEffect
  <2>2. cancelled' = cancelled \/ pc \in Early \/ cancelled' = "late"
    BY <1>1 DEF EnvStep, Cancel, Time, Lifecycle, vars
  <2> QED BY <2>1, <2>2 DEF callVars, Early
<1>2. CASE Call
  <2>0. cancelled' = cancelled
    BY <1>2 DEF Call
  <2>1. ASSUME NEW why, Fail(why) PROVE CancelInv'
    BY <2>1 DEF Fail
  <2>2. CASE ListPids
    <3>1. \/ Fail("sort") \/ Fail("proc") \/ Fail("meminfo")
          \/ pc' \in {"uptime", "sample1"}
      BY <2>2 DEF ListPids
    <3> QED BY <2>1, <3>1
  <2>3. CASE ReadUptime \/ Sample1 \/ SleepElapses \/ Sample2
    BY <2>0, <2>1, <2>3 DEF ReadUptime, Sample1, SleepElapses, Sample2
  <2>4. CASE EndSample1 \/ EndSample2
    BY <2>0, <2>4 DEF EndSample1, EndSample2
  <2>5. CASE SleepCancelled
    BY <2>1, <2>5 DEF SleepCancelled
  <2>6. CASE Collect
    BY <2>0, <2>1, <2>6 DEF Collect
  <2>7. CASE SortAndLimit
    <3>1. pids # <<>> => Len(pids) >= 1
      BY DEF TypeInv, TypeOK
    <3> QED BY <2>0, <2>1, <2>7, <3>1 DEF SortAndLimit
  <2>8. CASE ReadStatus \/ EnrichStat \/ StatProcIO \/ ReadProcIO \/ Return
    BY <2>0, <2>8 DEF ReadStatus, EnrichStat, StatProcIO, ReadProcIO, Return
  <2> QED
    BY <1>2, <2>2, <2>3, <2>4, <2>5, <2>6, <2>7, <2>8 DEF Call, CallStep
<1> QED BY <1>1, <1>2, StepSplit

\* CancelStopsCollection is an invariant: a context done before the candidate
\* loop never lets a call with a pid to look at reach its result.
THEOREM CancelSound == Spec => []CancelStopsCollection
<1> DEFINE IInv == TypeInv /\ PhaseInv /\ CancelInv
<1>1. Init => IInv
  BY TypeInit, PhaseInit DEF Init, CancelInv
<1>2. IInv /\ [Next]_vars => IInv'
  BY TypeStep, PhaseStep, CancelStep
<1>3. IInv => CancelStopsCollection
  BY DEF CancelInv, CancelStopsCollection
<1> QED BY <1>1, <1>2, <1>3, PTL DEF Spec

-----------------------------------------------------------------------------
(* Rows without an owner.                                                  *)

\* Whose row it may be: an ownerless candidate's process had exited when its
\* status was read, so from then on its pid is free or belongs to another one.
Holder(c) ==
  /\ c.gen2 <= gen[c.pid]
  /\ ~c.owned => c.pid \notin alive \/ gen[c.pid] # c.gen2

OwnerInv ==
  /\ \A c \in cands : Holder(c)
  /\ \A n \in 1..Len(ranked) : ranked[n] \in cands
  /\ pc \in {"io", "ioRead"} =>
       (~row.cand.owned => row.gen # row.cand.gen2)
  /\ OwnerlessOnlyIfRecycled

\* An exit frees the pid and a spawn starts a new incarnation: neither brings
\* a process back.
LEMMA HolderEnv ==
  ASSUME TypeInv, EnvStep, NEW c \in Candidate, Holder(c)
  PROVE  Holder(c)'
<1>1. c.pid \in Pids /\ c.gen2 \in Nat
  BY DEF Candidate
<1>2. /\ SameProcess(c.pid) \/ Recycled(c.pid)
      /\ c.pid \notin alive /\ c.pid \in alive' => Recycled(c.pid)
  BY <1>1, EnvEffect
<1>3. gen[c.pid] \in Nat
  BY <1>1 DEF TypeInv, TypeOK, KernelTypeOK
<1>4. CASE Recycled(c.pid)
  <2>1. gen'[c.pid] = gen[c.pid] + 1
    BY <1>4 DEF Recycled
  <2> QED BY <2>1, <1>1, <1>3 DEF Holder
<1>5. CASE ~Recycled(c.pid)
  <2>1. gen'[c.pid] = gen[c.pid]
    BY <1>2, <1>5 DEF SameProcess
  <2> QED BY <2>1, <1>2, <1>5 DEF Holder
<1> QED BY <1>4, <1>5

\* The candidate ReadStatus makes is of an incarnation no later than the
\* current one, and ownerless only if the status file was gone.
LEMMA HolderOfCandidate ==
  ASSUME TypeInv, PhaseInv, SampleInv, pc = "status"
  PROVE  Holder(CandidateOf(pids[i], pids[i] \in alive))
<1> DEFINE p == pids[i]
           c == CandidateOf(p, p \in alive)
<1>1. /\ i <= Len(pids) /\ sample1[p] # None
      /\ req.mode = "instant" => sample2[p] # None
  BY DEF PhaseInv
<1>2. p \in Pids
  BY <1>1 DEF TypeInv, TypeOK
<1>3. req.mode \in {"instant", "average"}
  BY CallAssumption DEF TypeInv, TypeOK, Requests
<1>4. c.pid = p /\ c.owned = (p \in alive)
  BY DEF CandidateOf
<1>5. c.gen2 <= gen[p]
  <2>1. CASE req.mode = "average"
    BY <2>1, <1>1, <1>2 DEF CandidateOf, SampleInv, FirstSampleInv
  <2>2. CASE req.mode = "instant"
    BY <2>2, <1>1, <1>2 DEF CandidateOf, SampleInv, SecondSampleInv
  <2> QED BY <1>3, <2>1, <2>2
<1> HIDE DEF c
<1>6. Holder(c)
  BY <1>4, <1>5 DEF Holder
<1> QED BY <1>6 DEF c

\* OwnerInv is kept: only ReadStatus adds a candidate, and only EnrichStat looks
\* at who holds its pid now.
LEMMA OwnerStep ==
  ASSUME TypeInv, PhaseInv, SampleInv, OwnerInv, [Next]_vars
  PROVE  OwnerInv'
<1>1. CASE EnvStep
  <2>1. UNCHANGED callVars
    BY <1>1, EnvEffect
  <2>2. \A c \in cands : Holder(c)'
    <3> TAKE c \in cands
    <3>1. c \in Candidate /\ Holder(c)
      BY DEF OwnerInv, TypeInv, TypeOK
    <3> QED BY <1>1, <3>1, HolderEnv
  <2> QED BY <2>1, <2>2 DEF OwnerInv, OwnerlessOnlyIfRecycled, callVars, Holder
<1>2. CASE Call
  <2>0. gen' = gen /\ alive' = alive
    BY <1>2 DEF Call, kernelVars
  <2>1. ASSUME cands' = cands, ranked' = ranked, out' = out,
               pc' \in {"io", "ioRead"} => pc = "io" /\ row'.cand = row.cand
                                            /\ row'.gen = row.gen
        PROVE  OwnerInv'
    BY <2>0, <2>1 DEF OwnerInv, OwnerlessOnlyIfRecycled, Holder
  <2>2. ASSUME NEW why, Fail(why) PROVE OwnerInv'
    BY <2>1, <2>2 DEF Fail
  <2>3. CASE ListPids \/ ReadUptime
    <3>1. CASE \E why : Fail(why)
      BY <2>2, <3>1
    <3>2. CASE ~\E why : Fail(why)
      BY <2>1, <2>3, <3>2 DEF ListPids, ReadUptime
    <3> QED BY <3>1, <3>2
  <2>4. CASE Sample1 \/ EndSample1 \/ SleepElapses \/ Sample2 \/ EndSample2
    BY <2>1, <2>4 DEF Sample1, EndSample1, SleepElapses, Sample2, EndSample2
  <2>5. CASE SleepCancelled
    BY <2>2, <2>5 DEF SleepCancelled
  <2>6. CASE Collect
    <3>1. CASE cancelled # "no"
      BY <2>2, <2>6, <3>1 DEF Collect
    <3>2. CASE cancelled = "no"
      BY <2>1, <2>6, <3>2 DEF Collect
    <3> QED BY <3>1, <3>2
  <2>7. CASE ReadStatus
    <3>1. /\ pc = "status" /\ pc' = "collect" /\ ranked' = ranked /\ out' = out
          /\ cands' = cands \cup {CandidateOf(pids[i], pids[i] \in alive)}
      BY <2>7 DEF ReadStatus
    <3>2. Holder(CandidateOf(pids[i], pids[i] \in alive))
      BY <3>1, HolderOfCandidate
    <3>3. \A c \in cands' : Holder(c)
      BY <3>1, <3>2 DEF OwnerInv
    <3>4. \A c \in cands' : Holder(c)'
      BY <3>3, <2>0 DEF Holder
    <3> QED BY <3>1, <3>4 DEF OwnerInv, OwnerlessOnlyIfRecycled
  <2>8. CASE SortAndLimit
    <3>1. CASE req.count < 0
      BY <2>2, <2>8, <3>1 DEF SortAndLimit
    <3>2. CASE ~(req.count < 0)
      <4>1. PICK s \in SortedOrders(cands) :
              ranked' = IF Len(s) > req.count THEN SubSeq(s, 1, req.count) ELSE s
        BY <2>8, <3>2 DEF SortAndLimit
      <4>2. s \in Seq(cands)
        BY <4>1, OrderIsSeq DEF SortedOrders, TypeInv
      <4>3. req.count \in Nat
        <5>1. req.count \in Int
          BY CallAssumption DEF Requests, TypeInv, TypeOK
        <5> QED BY <5>1, <3>2
      <4>4. \A n \in 1..Len(ranked') : ranked'[n] \in cands
        BY <4>1, <4>2, <4>3
      <4>5. cands' = cands /\ out' = out /\ pc' = "enrich"
        BY <2>8, <3>2 DEF SortAndLimit
      <4> QED BY <4>4, <4>5, <2>0 DEF OwnerInv, OwnerlessOnlyIfRecycled, Holder
    <3> QED BY <3>1, <3>2
  <2>9. CASE EnrichStat
    <3>1. i <= Len(ranked) /\ i \in Nat \ {0} /\ ranked \in Seq(Candidate)
      BY <2>9 DEF EnrichStat, TypeInv, TypeOK
    <3>2. Holder(ranked[i])
      BY <3>1 DEF OwnerInv
    <3>3. /\ pc = "enrich" /\ cands' = cands /\ ranked' = ranked /\ out' = out
          /\ \/ pc' = pc
             \/ /\ ranked[i].pid \in alive /\ pc' = "io"
                /\ row'.cand = ranked[i] /\ row'.gen = gen[ranked[i].pid]
      BY <2>9 DEF EnrichStat
    <3>4. pc' = "io" => (~row'.cand.owned => row'.gen # row'.cand.gen2)
      BY <3>2, <3>3 DEF Holder
    <3> QED BY <2>0, <3>3, <3>4 DEF OwnerInv, OwnerlessOnlyIfRecycled, Holder
  <2>10. CASE StatProcIO
    <3>1. row \in Row /\ pc = "io"
      BY <2>10 DEF StatProcIO, PhaseInv
    <3>2. row'.cand = row.cand /\ row'.gen = row.gen
      BY <2>10, <3>1 DEF StatProcIO, Row
    <3> QED BY <2>1, <2>10, <3>1, <3>2 DEF StatProcIO
  <2>11. CASE ReadProcIO
    <3>1. row \in Row /\ pc = "ioRead" /\ out \in Seq(Row)
      BY <2>11 DEF ReadProcIO, PhaseInv, TypeInv, TypeOK
    <3>2. PICK r : out' = Append(out, r) /\ r.cand = row.cand /\ r.gen = row.gen
      BY <2>11, <3>1 DEF ReadProcIO, Row
    <3>3. ~r.cand.owned => r.gen # r.cand.gen2
      BY <3>1, <3>2 DEF OwnerInv
    <3>4. OwnerlessOnlyIfRecycled'
      <4> SUFFICES ASSUME NEW n \in 1..Len(out'), ~out'[n].cand.owned
                   PROVE  out'[n].gen # out'[n].cand.gen2
        BY DEF OwnerlessOnlyIfRecycled
      <4>1. CASE n = Len(out) + 1
        BY <4>1, <3>1, <3>2, <3>3
      <4>2. CASE n # Len(out) + 1
        <5>1. n \in 1..Len(out) /\ out'[n] = out[n]
          BY <4>2, <3>1, <3>2
        <5> QED BY <5>1 DEF OwnerInv, OwnerlessOnlyIfRecycled
      <4> QED BY <4>1, <4>2
    <3> QED BY <2>0, <2>11, <3>4 DEF ReadProcIO, OwnerInv, Holder
  <2>12. CASE Return
    BY <2>1, <2>12 DEF Return
  <2> QED
    BY <1>2, <2>3, <2>4, <2>5, <2>6, <2>7, <2>8, <2>9, <2>10, <2>11, <2>12
    DEF Call, CallStep
<1> QED BY <1>1, <1>2, StepSplit

\* OwnerlessOnlyIfRecycled is an invariant: a candidate whose status file had
\* gone becomes a row only when its pid was given to a new process before
\* enrichProcess looked.
THEOREM OwnerSound == Spec => []OwnerlessOnlyIfRecycled
<1> DEFINE IInv == TypeInv /\ PhaseInv /\ SampleInv /\ OwnerInv
<1>1. Init => IInv
  <2>1. Init => OwnerInv
    BY DEF Init, OwnerInv, OwnerlessOnlyIfRecycled
  <2> QED BY <2>1, TypeInit, PhaseInit, SampleInit
<1>2. IInv /\ [Next]_vars => IInv'
  BY TypeStep, PhaseStep, SampleStep, OwnerStep
<1>3. IInv => OwnerlessOnlyIfRecycled
  BY DEF OwnerInv
<1> QED BY <1>1, <1>2, <1>3, PTL DEF Spec

-----------------------------------------------------------------------------
(* Ranking.                                                                *)

\* Only the sort key of the request decides what comes before what.
LEMMA MoreStable ==
  req' = req => \A a, b : More(a, b)' <=> More(a, b)
BY DEF More

\* What sortAndLimit leaves: no inversion, at most count candidates, and one
\* left out only if count others come no later.
Ranking(r) ==
  /\ Len(r) <= req.count
  /\ \A m, n \in 1..Len(r) : m < n => ~More(r[n], r[m])
  /\ \A c \in cands :
       \/ \E n \in 1..Len(r) : r[n] = c
       \/ /\ Len(r) = req.count
          /\ \A n \in 1..Len(r) : ~More(c, r[n])

\* Any order sort.Slice may leave, cut at count, is a Ranking.
LEMMA RankingOfSort ==
  ASSUME TypeInv, req.count >= 0, NEW s \in SortedOrders(cands),
         NEW r, r = IF Len(s) > req.count THEN SubSeq(s, 1, req.count) ELSE s
  PROVE  r \in Seq(Candidate) /\ Ranking(r)
<1>1. req.count \in Nat
  <2>1. req.count \in Int
    BY CallAssumption DEF Requests, TypeInv, TypeOK
  <2> QED BY <2>1
<1>2. /\ s \in [1..Cardinality(cands) -> cands]
      /\ \A m, n \in 1..Cardinality(cands) :
           m < n => s[m] # s[n] /\ ~More(s[n], s[m])
  BY DEF SortedOrders
<1>3. s \in Seq(Candidate) /\ Len(s) = Cardinality(cands)
  BY <1>2, OrderIsSeq DEF TypeInv, TypeOK
<1>4. \A c \in cands : \E n \in 1..Len(s) : s[n] = c
  BY <1>2, <1>3, SortedOnto DEF TypeInv
<1>5. \A m, n \in 1..Len(s) : m < n => ~More(s[n], s[m])
  BY <1>2, <1>3
<1>6. CASE Len(s) > req.count
  <2>1. /\ r \in Seq(Candidate) /\ Len(r) = req.count
        /\ \A n \in 1..Len(r) : r[n] = s[n] /\ n \in 1..Len(s)
    <3>1. \A n \in 1..req.count : s[n] \in Candidate
      BY <1>1, <1>3, <1>6
    <3> QED BY <1>1, <1>3, <1>6, <3>1
  <2>2. \A m, n \in 1..Len(r) : m < n => ~More(r[n], r[m])
    BY <1>5, <2>1
  <2>3. ASSUME NEW c \in cands
        PROVE  \/ \E n \in 1..Len(r) : r[n] = c
               \/ \A n \in 1..Len(r) : ~More(c, r[n])
    <3>1. PICK k \in 1..Len(s) : s[k] = c
      BY <1>4
    <3>2. CASE k <= req.count
      <4>1. k \in 1..Len(r)
        BY <2>1, <3>2, <1>1
      <4> QED BY <2>1, <3>1, <4>1
    <3>3. CASE ~(k <= req.count)
      <4>1. \A n \in 1..Len(r) : n \in 1..Len(s) /\ n < k /\ r[n] = s[n]
        BY <2>1, <3>3, <1>1
      <4> QED BY <1>5, <3>1, <4>1
    <3> QED BY <3>2, <3>3
  <2>4. Len(r) <= req.count
    BY <1>1, <2>1
  <2>5. Ranking(r)
    BY ONLY <2>1, <2>2, <2>3, <2>4, Zenon DEF Ranking
  <2> QED BY <2>1, <2>5
<1>7. CASE ~(Len(s) > req.count)
  BY <1>1, <1>3, <1>4, <1>5, <1>7 DEF Ranking
<1> QED BY <1>6, <1>7

\* The enrichment loop: out holds, in the order of ranked, the candidates
\* before i that were still there.
OutInv ==
  /\ pc \in Early \cup Collecting => out = <<>>
  /\ pc \in Enriching \cup {"ok"} =>
       /\ Ranking(ranked)
       /\ i <= Len(ranked) + 1
       /\ Len(out) <= i - 1
       /\ \A n \in 1..Len(out) : \E k \in 1..(i - 1) : out[n].cand = ranked[k]
       /\ \A m, n \in 1..Len(out) : m < n => ~More(out[n].cand, out[m].cand)
       /\ \A k \in 1..(i - 1) :
            \/ ranked[k].pid \in gone
            \/ \E n \in 1..Len(out) : out[n].cand = ranked[k]
  /\ pc \in {"io", "ioRead"} => row.cand = ranked[i]
  /\ pc = "ok" => i > Len(ranked)

\* Steps that neither sort nor add a row keep OutInv.
LEMMA OutStable ==
  ASSUME OutInv, UNCHANGED <<req, cands, ranked, out, i, gone>>,
         \/ pc \in Early \cup Collecting /\ pc' \in Early \cup Collecting
         \/ pc \in Enriching /\ pc' = "io" /\ row'.cand = ranked[i]
         \/ pc \in {"io", "ioRead"} /\ pc' = "ioRead" /\ row'.cand = row.cand
         \/ pc = "enrich" /\ i > Len(ranked) /\ pc' = "ok"
         \/ pc' = pc /\ row' = row
         \/ pc' = "failed"
  PROVE  OutInv'
<1>1. \A a, b : More(a, b)' <=> More(a, b)
  BY MoreStable
<1>2. Ranking(ranked) => Ranking(ranked)'
  BY <1>1 DEF Ranking
<1> QED
  BY <1>1, <1>2 DEF OutInv, Early, Collecting, Enriching

\* OutInv is kept by every step: rows are appended in ranked order.
LEMMA OutStep ==
  ASSUME TypeInv, PhaseInv, OutInv, [Next]_vars
  PROVE  OutInv'
<1>1. CASE EnvStep
  <2>1. UNCHANGED callVars
    BY <1>1, EnvEffect
  <2> QED BY <2>1, OutStable DEF callVars
<1>2. CASE Call
  <2>0. /\ i \in Nat \ {0} /\ ranked \in Seq(Candidate) /\ out \in Seq(Row)
        /\ Len(ranked) \in Nat /\ Len(out) \in Nat
    BY DEF TypeInv, TypeOK
  <2>1. ASSUME UNCHANGED out, pc \in Early \cup Collecting,
               pc' \in Early \cup Collecting
        PROVE  OutInv'
    BY <2>1 DEF OutInv, Early, Collecting, Enriching
  <2>2. ASSUME NEW why, Fail(why) PROVE OutInv'
    BY <2>2, OutStable DEF Fail
  <2>3. CASE ListPids \/ ReadUptime
    <3>1. CASE \E why : Fail(why)
      BY <2>2, <3>1
    <3>2. CASE ~\E why : Fail(why)
      BY <2>1, <2>3, <3>2 DEF ListPids, ReadUptime, Early
    <3> QED BY <3>1, <3>2
  <2>4. CASE Sample1 \/ EndSample1 \/ SleepElapses \/ Sample2 \/ EndSample2
    BY <2>1, <2>4
    DEF Sample1, EndSample1, SleepElapses, Sample2, EndSample2, Early, Collecting
  <2>5. CASE SleepCancelled
    BY <2>2, <2>5 DEF SleepCancelled
  <2>6. CASE Collect \/ ReadStatus
    <3>1. CASE \E why : Fail(why)
      BY <2>2, <3>1
    <3>2. CASE ~\E why : Fail(why)
      BY <2>1, <2>6, <3>2 DEF Collect, ReadStatus, Collecting
    <3> QED BY <3>1, <3>2
  <2>8. CASE SortAndLimit
    <3>1. CASE req.count < 0
      BY <2>2, <2>8, <3>1 DEF SortAndLimit
    <3>2. CASE ~(req.count < 0)
      <4>0. req.count >= 0
        <5>1. req.count \in Int
          BY CallAssumption DEF Requests, TypeInv, TypeOK
        <5> QED BY <5>1, <3>2
      <4>1. PICK s \in SortedOrders(cands) :
              ranked' = IF Len(s) > req.count THEN SubSeq(s, 1, req.count) ELSE s
        BY <2>8, <3>2 DEF SortAndLimit
      <4>2. ranked' \in Seq(Candidate) /\ Ranking(ranked')
        BY <4>0, <4>1, RankingOfSort
      <4>3. /\ cands' = cands /\ req' = req /\ out' = out /\ pc = "collect"
            /\ pc' = "enrich" /\ i' = 1
        BY <2>8, <3>2 DEF SortAndLimit
      <4>4. out' = <<>>
        BY <4>3 DEF OutInv, Collecting
      <4>5. Ranking(ranked)'
        BY <4>2, <4>3, MoreStable DEF Ranking
      <4> QED BY <4>2, <4>3, <4>4, <4>5 DEF OutInv, Early, Collecting, Enriching
    <3> QED BY <3>1, <3>2
  <2>9. CASE EnrichStat
    <3>1. i <= Len(ranked) /\ pc = "enrich"
      BY <2>9 DEF EnrichStat
    <3>2. CASE ranked[i].pid \in alive
      <4>1. /\ pc' = "io" /\ row'.cand = ranked[i]
            /\ UNCHANGED <<req, cands, ranked, out, i, gone>>
        BY <2>9, <3>2 DEF EnrichStat
      <4> QED BY <3>1, <4>1, OutStable DEF Enriching
    <3>3. CASE ranked[i].pid \notin alive
      <4>1. /\ gone' = gone \cup {ranked[i].pid} /\ i' = i + 1
            /\ pc' = "enrich" /\ UNCHANGED <<req, cands, ranked, out>>
        BY <2>9, <3>3 DEF EnrichStat
      <4>2. Ranking(ranked)'
        BY <3>1, <4>1, MoreStable DEF Ranking, OutInv, Enriching
      <4>3. /\ i' <= Len(ranked) + 1 /\ Len(out) <= i' - 1
            /\ \A n \in 1..Len(out) : \E k \in 1..(i' - 1) : out[n].cand = ranked[k]
            /\ \A k \in 1..(i' - 1) :
                 \/ ranked[k].pid \in gone'
                 \/ \E n \in 1..Len(out) : out[n].cand = ranked[k]
        <5>1. 1..(i' - 1) = 1..(i - 1) \cup {i}
          BY <2>0, <4>1
        <5>2. /\ Len(out) <= i - 1
              /\ \A n \in 1..Len(out) : \E k \in 1..(i - 1) : out[n].cand = ranked[k]
              /\ \A k \in 1..(i - 1) :
                   \/ ranked[k].pid \in gone
                   \/ \E n \in 1..Len(out) : out[n].cand = ranked[k]
          BY <3>1 DEF OutInv, Enriching
        <5> QED BY <5>1, <5>2, <2>0, <3>1, <4>1
      <4> QED
        BY <3>1, <4>1, <4>2, <4>3, MoreStable
        DEF OutInv, Enriching, Early, Collecting
    <3> QED BY <3>2, <3>3
  <2>10. CASE StatProcIO
    <3>1. row \in Row /\ pc = "io"
      BY <2>10 DEF StatProcIO, PhaseInv
    <3>2. /\ row'.cand = row.cand /\ pc' = "ioRead"
          /\ UNCHANGED <<req, cands, ranked, out, i, gone>>
      BY <2>10, <3>1 DEF StatProcIO, Row
    <3> QED BY <3>1, <3>2, OutStable
  <2>11. CASE ReadProcIO
    <3>1. row \in Row /\ pc = "ioRead" /\ i <= Len(ranked) /\ row.cand = ranked[i]
      BY <2>11 DEF ReadProcIO, PhaseInv, OutInv
    <3>2. PICK r : out' = Append(out, r) /\ r.cand = ranked[i]
      BY <2>11, <3>1 DEF ReadProcIO, Row
    <3>3. /\ i' = i + 1 /\ pc' = "enrich"
          /\ UNCHANGED <<req, cands, ranked, gone>>
      BY <2>11 DEF ReadProcIO
    <3>4. Ranking(ranked)'
      BY <3>1, <3>3, MoreStable DEF Ranking, OutInv, Enriching
    <3>5. /\ 1..(i' - 1) = 1..(i - 1) \cup {i}
          /\ Len(out') = Len(out) + 1
          /\ 1..Len(out') = 1..Len(out) \cup {Len(out) + 1}
          /\ out'[Len(out) + 1] = r
          /\ \A n \in 1..Len(out) : out'[n] = out[n]
      BY <2>0, <3>2, <3>3
    <3>6. /\ Len(out) <= i - 1
          /\ \A n \in 1..Len(out) : \E k \in 1..(i - 1) : out[n].cand = ranked[k]
          /\ \A k \in 1..(i - 1) :
               \/ ranked[k].pid \in gone
               \/ \E n \in 1..Len(out) : out[n].cand = ranked[k]
          /\ \A m, n \in 1..Len(out) : m < n => ~More(out[n].cand, out[m].cand)
          /\ \A m, n \in 1..Len(ranked) : m < n => ~More(ranked[n], ranked[m])
      BY <3>1 DEF OutInv, Enriching, Ranking
    <3>7. \A n \in 1..Len(out') : \E k \in 1..(i' - 1) : out'[n].cand = ranked[k]
      <4> SUFFICES ASSUME NEW n \in 1..Len(out')
                   PROVE  \E k \in 1..(i - 1) \cup {i} : out'[n].cand = ranked[k]
        BY <3>5
      <4>1. CASE n \in 1..Len(out)
        BY <4>1, <3>5, <3>6
      <4>2. CASE n = Len(out) + 1
        BY <4>2, <3>2, <3>5
      <4> QED BY <3>5, <4>1, <4>2
    <3>8. \A k \in 1..(i' - 1) :
               \/ ranked[k].pid \in gone
               \/ \E n \in 1..Len(out') : out'[n].cand = ranked[k]
      BY <3>2, <3>5, <3>6
    <3>9. \A m, n \in 1..Len(out') : m < n => ~More(out'[n].cand, out'[m].cand)
      <4> SUFFICES ASSUME NEW m \in 1..Len(out'), NEW n \in 1..Len(out'), m < n
                   PROVE  ~More(out'[n].cand, out'[m].cand)
        OBVIOUS
      <4>1. m \in 1..Len(out)
        BY <2>0, <3>5
      <4>2. CASE n \in 1..Len(out)
        BY <4>1, <4>2, <3>5, <3>6
      <4>3. CASE n = Len(out) + 1
        <5>1. PICK k \in 1..(i - 1) : out[m].cand = ranked[k]
          BY <4>1, <3>6
        <5>2. k \in 1..Len(ranked) /\ i \in 1..Len(ranked) /\ k < i
          BY <2>0, <3>1
        <5> QED BY <5>1, <5>2, <4>1, <4>3, <3>2, <3>5, <3>6
      <4> QED BY <3>5, <4>2, <4>3
    <3>10. i' <= Len(ranked) + 1 /\ Len(out') <= i' - 1
      BY <2>0, <3>1, <3>3, <3>5, <3>6
    <3> QED
      BY <3>3, <3>4, <3>7, <3>8, <3>9, <3>10, MoreStable
      DEF OutInv, Early, Collecting, Enriching
  <2>12. CASE Return
    BY <2>12, OutStable DEF Return
  <2> QED
    BY <1>2, <2>3, <2>4, <2>5, <2>6, <2>8, <2>9, <2>10, <2>11, <2>12
    DEF Call, CallStep
<1> QED BY <1>1, <1>2, StepSplit

\* RankedByUsage is an invariant: whatever order the unstable sort picks among
\* equals and whichever processes exit meanwhile, the result has at most count
\* rows in descending order, and a candidate it lacks had exited or is outranked.
THEOREM RankingSound == Spec => []RankedByUsage
<1> DEFINE IInv == TypeInv /\ PhaseInv /\ OutInv
<1>1. Init => IInv
  <2>1. Init => OutInv
    BY DEF Init, OutInv, Enriching
  <2> QED BY <2>1, TypeInit, PhaseInit
<1>2. IInv /\ [Next]_vars => IInv'
  BY TypeStep, PhaseStep, OutStep
<1>3. IInv => RankedByUsage
  <2> SUFFICES ASSUME TypeInv, OutInv, pc = "ok"
               PROVE  /\ Len(out) <= req.count
                      /\ \A m, n \in 1..Len(out) :
                           m < n => ~More(out[n].cand, out[m].cand)
                      /\ \A c \in cands :
                           \/ \E n \in 1..Len(out) : out[n].cand = c
                           \/ c.pid \in gone
                           \/ /\ Len(ranked) = req.count
                              /\ \A n \in 1..Len(ranked) : ~More(c, ranked[n])
    BY DEF RankedByUsage
  <2>0. req.count \in Int
    BY CallAssumption DEF TypeInv, TypeOK, Requests
  <2>1. /\ i \in Nat \ {0} /\ Len(ranked) \in Nat /\ Len(out) \in Nat
        /\ req.count \in Int
    BY <2>0 DEF TypeInv, TypeOK
  <2>2. /\ i <= Len(ranked) + 1 /\ i > Len(ranked)
        /\ Len(out) <= i - 1 /\ Ranking(ranked)
        /\ \A m, n \in 1..Len(out) : m < n => ~More(out[n].cand, out[m].cand)
        /\ \A k \in 1..(i - 1) :
             \/ ranked[k].pid \in gone
             \/ \E n \in 1..Len(out) : out[n].cand = ranked[k]
    BY <2>1 DEF OutInv
  <2>3. i - 1 = Len(ranked)
    BY <2>1, <2>2
  <2>4. Len(out) <= req.count
    BY <2>1, <2>2, <2>3 DEF Ranking
  <2> QED BY <2>2, <2>3, <2>4 DEF Ranking
<1> QED BY <1>1, <1>2, <1>3, PTL DEF Spec
=============================================================================
