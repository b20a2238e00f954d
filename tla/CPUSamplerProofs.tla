-------------------------- MODULE CPUSamplerProofs --------------------------
(***************************************************************************)
(* Proofs about CPUSampler for any number of CPUs, any readings they start *)
(* from and any length of the sampling window.                             *)
(***************************************************************************)
EXTENDS CPUSampler, FiniteFacts

\* CPU time the host can give in d ticks of wall time.
Budget(d) == Cardinality(Cpus) * d

Horizon == MaxClock + Window

\* What the host can burn is a natural number, monotonic and additive in the
\* time, and less than 2^64 over the whole call.
LEMMA BudgetFacts ==
  /\ Cardinality(Cpus) \in Nat \ {0}
  /\ \A d \in Nat : Budget(d) \in Nat
  /\ \A d, e \in Nat : d <= e => Budget(d) <= Budget(e)
  /\ \A d, e \in Nat : Budget(d + e) = Budget(d) + Budget(e)
  /\ Budget(0) = 0 /\ Budget(1) = Cardinality(Cpus)
  /\ Horizon \in Nat /\ Budget(Horizon) < Word
<1>1. Cardinality(Cpus) \in Nat \ {0}
  BY CPUAssumption, FS_CardinalityType, FS_EmptySet
<1> QED BY <1>1, CPUAssumption DEF Budget, Horizon

-----------------------------------------------------------------------------
(* /proc/stat.                                                             *)

\* The lines for any CPUs online and any counters.
Lines(on, u, d) ==
  LET cpus == InOrder(on) IN
  <<[used |-> Sum(u), idle |-> Sum(d)]>> \o
    [n \in DOMAIN cpus |-> [used |-> u[cpus[n]], idle |-> d[cpus[n]]]]

\* /proc/stat is Lines of the current counters, in this state and the next.
LEMMA ProcStatIsLines ==
  ProcStat = Lines(online, used, idle) /\ ProcStat' = Lines(online', used', idle')
BY DEF ProcStat, Lines

\* The CHOOSE of InOrder has something to choose.
LEMMA InOrderType ==
  ASSUME NEW on \in SUBSET Cpus
  PROVE  /\ Cardinality(on) \in Nat
         /\ InOrder(on) \in [1..Cardinality(on) -> on]
<1>1. IsFiniteSet(on) /\ on \subseteq Nat /\ Cardinality(on) \in Nat
  BY CPUAssumption, FS_Subset, FS_CardinalityType
<1> DEFINE P(s) == \A m, n \in DOMAIN s : m < n => s[m] < s[n]
<1>2. \E s \in [1..Cardinality(on) -> on] : P(s)
  BY <1>1, SortedExists
<1>3. InOrder(on) = CHOOSE s \in [1..Cardinality(on) -> on] : P(s)
  BY DEF InOrder
<1> HIDE DEF P
<1> QED BY <1>1, <1>2, <1>3, Zenon

\* The "cpu" line is a sum over the finite set of CPUs.
LEMMA SumIs == \A f : Sum(f) = SumOver(f, Cpus)
BY SumUnfold DEF Sum

\* The contents of /proc/stat: the sum, then one line per CPU online.
LEMMA LinesFacts ==
  ASSUME NEW on \in SUBSET Cpus, NEW u \in [Cpus -> Nat], NEW d \in [Cpus -> Nat]
  PROVE  /\ Lines(on, u, d) \in Seq(Line)
         /\ Len(Lines(on, u, d)) = Cardinality(on) + 1
         /\ Cardinality(on) \in Nat
         /\ Lines(on, u, d)[1] = [used |-> SumOver(u, Cpus), idle |-> SumOver(d, Cpus)]
         /\ \A n \in 1..Cardinality(on) :
              /\ InOrder(on)[n] \in Cpus
              /\ Lines(on, u, d)[n + 1] =
                   [used |-> u[InOrder(on)[n]], idle |-> d[InOrder(on)[n]]]
<1> DEFINE cpus == InOrder(on)
           rest == [n \in DOMAIN cpus |-> [used |-> u[cpus[n]], idle |-> d[cpus[n]]]]
           sum == [used |-> SumOver(u, Cpus), idle |-> SumOver(d, Cpus)]
<1>1. /\ Cardinality(on) \in Nat /\ DOMAIN cpus = 1..Cardinality(on)
      /\ \A n \in 1..Cardinality(on) : cpus[n] \in Cpus
  BY InOrderType
<1>2. sum \in Line
  BY SumNat, CPUAssumption DEF Line
<1>3. rest \in Seq(Line) /\ Len(rest) = Cardinality(on)
  <2>1. \A n \in 1..Cardinality(on) :
          [used |-> u[cpus[n]], idle |-> d[cpus[n]]] \in Line
    BY <1>1 DEF Line
  <2>2. rest \in [1..Cardinality(on) -> Line]
    <3> HIDE DEF cpus
    <3> QED BY <1>1, <2>1
  <2> HIDE DEF rest
  <2> QED BY <1>1, <2>2, FunctionIsSeq
<1>4. \A n \in 1..Cardinality(on) :
        rest[n] = [used |-> u[cpus[n]], idle |-> d[cpus[n]]]
  <2> HIDE DEF cpus
  <2> QED BY <1>1
<1>5. Lines(on, u, d) = <<sum>> \o rest
  BY SumIs DEF Lines
<1> HIDE DEF rest, sum, cpus
<1>6. /\ <<sum>> \o rest \in Seq(Line)
      /\ Len(<<sum>> \o rest) = Cardinality(on) + 1
      /\ (<<sum>> \o rest)[1] = sum
      /\ \A n \in 1..Cardinality(on) : (<<sum>> \o rest)[n + 1] = rest[n]
  BY <1>1, <1>2, <1>3
<1> QED BY <1>1, <1>4, <1>5, <1>6 DEF sum, cpus

\* From one reading of a line to the next nothing goes backwards, and no more
\* time is booked than k.
Grown(a, b, k) ==
  /\ a.used <= b.used /\ a.idle <= b.idle
  /\ b.used + b.idle <= (a.used + a.idle) + k

\* Growth adds up.
LEMMA GrownTrans ==
  ASSUME NEW a \in Line, NEW b \in Line, NEW c \in Line,
         NEW k \in Nat, NEW l \in Nat, Grown(a, b, k), Grown(b, c, l)
  PROVE  Grown(a, c, k + l)
BY DEF Grown, Line

\* A line that did not change has grown, by any amount.
LEMMA GrownSame ==
  ASSUME NEW a \in Line, NEW k \in Nat
  PROVE  Grown(a, a, k)
BY DEF Grown, Line

\* A tick on every line: one CPU books at most a unit, all together at most one
\* each.
LEMMA LinesGrow ==
  ASSUME NEW on \in SUBSET Cpus, NEW busy \in SUBSET on,
         NEW resting \in SUBSET (on \ busy),
         NEW u \in [Cpus -> Nat], NEW d \in [Cpus -> Nat],
         NEW v, v = [c \in Cpus |-> u[c] + IF c \in busy THEN 1 ELSE 0],
         NEW e, e = [c \in Cpus |-> d[c] + IF c \in resting THEN 1 ELSE 0],
         NEW n \in 1..(Cardinality(on) + 1)
  PROVE  Grown(Lines(on, u, d)[n], Lines(on, v, e)[n], Cardinality(Cpus))
<1>t. v \in [Cpus -> Nat] /\ e \in [Cpus -> Nat]
  OBVIOUS
<1>0. /\ v \in [Cpus -> Nat] /\ e \in [Cpus -> Nat]
      /\ \A c \in Cpus : /\ u[c] <= v[c] /\ d[c] <= e[c]
                         /\ v[c] + e[c] <= (u[c] + d[c]) + 1
  OBVIOUS
<1>c. Cardinality(Cpus) \in Nat \ {0}
  BY BudgetFacts
<1>1. CASE n = 1
  <2> DEFINE du == [c \in Cpus |-> IF c \in busy THEN 1 ELSE 0]
             dd == [c \in Cpus |-> IF c \in resting THEN 1 ELSE 0]
             ds == [c \in Cpus |-> du[c] + dd[c]]
  <2>1. du \in [Cpus -> Nat] /\ dd \in [Cpus -> Nat] /\ ds \in [Cpus -> Nat]
    OBVIOUS
  <2>2. v = [c \in Cpus |-> u[c] + du[c]] /\ e = [c \in Cpus |-> d[c] + dd[c]]
    OBVIOUS
  <2>3. \A c \in Cpus : ds[c] <= 1
    OBVIOUS
  <2>f. IsFiniteSet(Cpus)
    BY CPUAssumption
  <2> HIDE DEF du, dd
  <2>4. /\ SumOver(v, Cpus) = SumOver(u, Cpus) + SumOver(du, Cpus)
        /\ SumOver(e, Cpus) = SumOver(d, Cpus) + SumOver(dd, Cpus)
        /\ SumOver(ds, Cpus) = SumOver(du, Cpus) + SumOver(dd, Cpus)
    BY <2>1, <2>2, <2>f, SumAdds, SMTT(30)
  <2> HIDE DEF ds
  <2>5. SumOver(ds, Cpus) <= Cardinality(Cpus)
    BY <2>1, <2>3, <2>f, SumOfOnes
  <2>6. /\ SumOver(u, Cpus) \in Nat /\ SumOver(du, Cpus) \in Nat
        /\ SumOver(d, Cpus) \in Nat /\ SumOver(dd, Cpus) \in Nat
    BY <2>1, <2>f, SumNat
  <2>7. /\ Lines(on, u, d)[1] = [used |-> SumOver(u, Cpus), idle |-> SumOver(d, Cpus)]
        /\ Lines(on, v, e)[1] = [used |-> SumOver(v, Cpus), idle |-> SumOver(e, Cpus)]
    BY ONLY <1>0, LinesFacts
  <2> DEFINE us == SumOver(u, Cpus)
             is == SumOver(d, Cpus)
             vs == SumOver(v, Cpus)
             es == SumOver(e, Cpus)
  <2>8. Grown([used |-> us, idle |-> is], [used |-> vs, idle |-> es],
              Cardinality(Cpus))
    <3>1. us <= vs /\ is <= es /\ vs + es <= (us + is) + Cardinality(Cpus)
      BY <2>4, <2>5, <2>6, <1>c
    <3> HIDE DEF us, is, vs, es
    <3> QED BY <3>1 DEF Grown
  <2> QED BY ONLY <1>1, <2>7, <2>8
<1>2. CASE n # 1
  <2> DEFINE m == n - 1
             c == InOrder(on)[m]
  <2>1. m \in 1..Cardinality(on) /\ n = m + 1
    BY <1>2, InOrderType
  <2> HIDE DEF m
  <2>2. /\ c \in Cpus
        /\ Lines(on, u, d)[n] = [used |-> u[c], idle |-> d[c]]
        /\ Lines(on, v, e)[n] = [used |-> v[c], idle |-> e[c]]
    <3>1. ASSUME NEW w \in [Cpus -> Nat], NEW x \in [Cpus -> Nat]
          PROVE  /\ c \in Cpus
                 /\ Lines(on, w, x)[m + 1] = [used |-> w[c], idle |-> x[c]]
      <4>1. \A k \in 1..Cardinality(on) :
              /\ InOrder(on)[k] \in Cpus
              /\ Lines(on, w, x)[k + 1] =
                   [used |-> w[InOrder(on)[k]], idle |-> x[InOrder(on)[k]]]
        BY LinesFacts
      <4>2. /\ InOrder(on)[m] \in Cpus
            /\ Lines(on, w, x)[m + 1] =
                 [used |-> w[InOrder(on)[m]], idle |-> x[InOrder(on)[m]]]
        BY ONLY <2>1, <4>1, Zenon
      <4> QED BY ONLY <4>2 DEF c
    <3>2. /\ c \in Cpus
          /\ Lines(on, u, d)[m + 1] = [used |-> u[c], idle |-> d[c]]
          /\ Lines(on, v, e)[m + 1] = [used |-> v[c], idle |-> e[c]]
      BY ONLY <3>1, <1>t, u \in [Cpus -> Nat], d \in [Cpus -> Nat]
    <3> QED BY ONLY <2>1, <3>2
  <2> HIDE DEF c
  <2>3. /\ u[c] \in Nat /\ v[c] \in Nat /\ d[c] \in Nat /\ e[c] \in Nat
        /\ u[c] <= v[c] /\ d[c] <= e[c] /\ v[c] + e[c] <= (u[c] + d[c]) + 1
    BY <1>0, <2>2
  <2>4. v[c] + e[c] <= (u[c] + d[c]) + Cardinality(Cpus)
    BY <2>3, <1>c
  <2>5. Grown([used |-> u[c], idle |-> d[c]], [used |-> v[c], idle |-> e[c]],
              Cardinality(Cpus))
    BY <2>3, <2>4 DEF Grown
  <2> QED BY ONLY <2>2, <2>5
<1> QED BY <1>1, <1>2

-----------------------------------------------------------------------------
(* The arithmetic of a line.                                               *)

\* A wrapped difference is never negative.
LEMMA Sub64Nat == \A a, b \in Nat : Sub64(a, b) \in Nat
BY CPUAssumption DEF Sub64

\* Without a wrap it is the difference.
LEMMA Sub64Exact ==
  \A a, b, k \in Nat : b <= a /\ a <= b + k /\ k < Word => Sub64(a, b) = a - b
BY CPUAssumption DEF Sub64

\* Quotients of naturals are naturals.
LEMMA DivNat == \A x \in Nat, p \in Nat \ {0} : x \div p \in Nat
OBVIOUS

\* A share of at most the whole is at most 100 percent.
LEMMA DivBound ==
  \A x \in Nat, p \in Nat \ {0} : x <= 100 * p => x \div p <= 100
OBVIOUS

\* A percentage is a natural number, even when its counters went backwards.
LEMMA PercentType ==
  ASSUME NEW n, stat1[n] \in Line, stat2[n] \in Line
  PROVE  Passed(n) \in Nat /\ (Passed(n) > 0 => Percent(n) \in Nat)
<1>1. Passed(n) \in Nat
  BY Sub64Nat DEF Passed, Line
<1>2. (100 * Sub64(stat2[n].used, stat1[n].used)) % Word \in Nat
  <2> DEFINE x == Sub64(stat2[n].used, stat1[n].used)
  <2>1. x \in Nat
    BY Sub64Nat DEF Line
  <2> HIDE DEF x
  <2>2. (100 * x) % Word \in Nat
    BY <2>1, CPUAssumption
  <2> QED BY <2>2 DEF x
<1> QED BY <1>1, <1>2, DivNat DEF Percent

\* A line that grew by less than 2^64 shows a percentage.
LEMMA PercentBound ==
  ASSUME NEW n, stat1[n] \in Line, stat2[n] \in Line, NEW k \in Nat, k < Word,
         Grown(stat1[n], stat2[n], k), Passed(n) > 0
  PROVE  Percent(n) <= 100
<1> DEFINE du == stat2[n].used - stat1[n].used
           p == (stat2[n].used + stat2[n].idle) - (stat1[n].used + stat1[n].idle)
<1>1. du \in Nat /\ p \in Nat /\ du <= p
  BY DEF Grown, Line
<1>2. Sub64(stat2[n].used, stat1[n].used) = du
  BY Sub64Exact DEF Grown, Line
<1>3. Passed(n) = p
  BY Sub64Exact DEF Grown, Line, Passed
<1> HIDE DEF du, p
<1>4. (100 * du) % Word <= 100 * du /\ (100 * du) % Word \in Nat
  BY <1>1, CPUAssumption
<1>5. ((100 * du) % Word) \div p <= 100
  BY <1>1, <1>3, <1>4, DivBound
<1> QED BY <1>2, <1>3, <1>5 DEF Percent

-----------------------------------------------------------------------------
(* What each location can rely on.                                         *)

Locations == Early \cup {"parse", "apply", "cpuinfo", "loadavg"} \cup Final

PhaseInv ==
  /\ clock <= Horizon
  /\ pc \notin {"stat1", "failed"} => start <= clock /\ Len(stat1) >= 1
  /\ pc = "sleep" => start + Window <= wake
  /\ pc \in {"stat2", "usage2"} => start + Window <= clock
  /\ pc \in {"parse", "apply"} => Window <= elapsed
  /\ pc \in {"stat1", "quota", "period"} => cgroup = "none"
  /\ pc \in {"stat1", "quota", "period", "usage1"} => usage1 = None
  /\ pc \in Early => usage2 = None
  /\ pc \in Early \cup {"parse", "apply"} => load.of = "host"

\* The cgroup's counter since its first sample: it burned no more than the host
\* can give in the time since start.
UsageInv ==
  /\ usage1 # None => usage1 <= usage
  /\ usage1 # None /\ pc \in {"sleep", "stat2", "usage2"} =>
       usage <= usage1 + Budget(clock - start)
  /\ usage1 # None /\ usage2 # None => usage1 <= usage2
  /\ usage1 # None /\ usage2 # None /\ pc \in {"parse", "apply"} =>
       usage2 <= usage1 + Budget(elapsed)
  /\ QuotaWithinHost

EnvStep == Cancel \/ Time \/ Plug \/ MoveAway \/ UNCHANGED vars

\* A step is one of the call's or one of its environment's.
LEMMA StepSplit == [Next]_vars => Call \/ EnvStep
BY DEF Next, EnvStep, Returned

\* What may happen between two steps of the call.
LEMMA EnvEffect ==
  ASSUME TypeOK, clock <= Horizon, EnvStep
  PROVE  /\ UNCHANGED callVars
         /\ clock' \in Nat /\ online' \in SUBSET Cpus
         /\ used' \in [Cpus -> Nat] /\ idle' \in [Cpus -> Nat]
         /\ usage' \in Nat /\ own' \in BOOLEAN /\ plugged' \in BOOLEAN
         /\ cancelled' \in BOOLEAN
         /\ clock <= clock' /\ clock' <= Horizon
         /\ usage <= usage' /\ usage' <= usage + Budget(clock' - clock)
         /\ own' => own
         /\ ~plugged' => ~plugged /\ online' = online
<1> USE DEF TypeOK
<1>0. MaxClock \in Nat /\ Window \in Nat /\ Budget(0) = 0
      /\ Budget(1) = Cardinality(Cpus) /\ Cardinality(Cpus) \in Nat
  BY CPUAssumption, BudgetFacts
<1>1. CASE Cancel \/ Plug \/ MoveAway \/ UNCHANGED vars
  <2>1. UNCHANGED <<clock, usage, used, idle, callVars>>
    BY <1>1 DEF Cancel, Plug, MoveAway, vars, hostVars
  <2>2. clock' - clock = 0
    BY <2>1
  <2>3. /\ online' \in SUBSET Cpus /\ own' \in BOOLEAN /\ plugged' \in BOOLEAN
        /\ cancelled' \in BOOLEAN /\ (own' => own)
        /\ (~plugged' => ~plugged /\ online' = online)
    <3>1. CASE Plug
      <4>1. PICK c \in Cpus :
              online' = IF c \in online THEN online \ {c} ELSE online \cup {c}
        BY <3>1 DEF Plug
      <4>2. online' \in SUBSET Cpus
        BY <4>1
      <4> QED BY <3>1, <4>2 DEF Plug
    <3>2. CASE MoveAway
      BY <3>2 DEF MoveAway
    <3>3. CASE Cancel \/ UNCHANGED vars
      <4>1. UNCHANGED <<online, own, plugged>>
        BY <3>3 DEF Cancel, vars, hostVars
      <4>2. cancelled' = TRUE \/ cancelled' = cancelled
        BY <3>3 DEF Cancel, vars, hostVars
      <4> QED BY <4>1, <4>2
    <3> QED BY <1>1, <3>1, <3>2, <3>3
  <2> QED BY <1>0, <2>1, <2>2, <2>3
<1>2. CASE Time
  <2>1. /\ UNCHANGED <<online, own, plugged, callVars, cancelled>>
        /\ clock' = clock + 1
        /\ clock < MaxClock + IF pc = "sleep" THEN Window ELSE 0
    BY <1>2 DEF Time
  <2>2. PICK busy \in SUBSET online, resting \in SUBSET online :
          /\ used' = [c \in Cpus |-> used[c] + IF c \in busy THEN 1 ELSE 0]
          /\ idle' = [c \in Cpus |-> idle[c] + IF c \in resting THEN 1 ELSE 0]
    BY <1>2 DEF Time
  <2>3. used' \in [Cpus -> Nat] /\ idle' \in [Cpus -> Nat]
    BY <2>2
  <2>4. PICK d \in 0..Cardinality(Cpus) : usage' = usage + d \/ usage' = usage
    BY <1>2 DEF Time
  <2>5. usage' \in Nat /\ usage <= usage' /\ usage' <= usage + Cardinality(Cpus)
    BY <2>4, <1>0
  <2>6. clock' - clock = 1 /\ clock' <= Horizon /\ clock' \in Nat
    BY <2>1, <1>0 DEF Horizon
  <2>7. Budget(clock' - clock) = Cardinality(Cpus)
    BY <1>0, <2>6
  <2>8. clock <= clock'
    BY <2>1
  <2> QED BY <2>1, <2>3, <2>5, <2>6, <2>7, <2>8
<1> QED BY <1>1, <1>2 DEF EnvStep

-----------------------------------------------------------------------------
(* Type correctness.                                                       *)

\* The types of what a reading of /proc/stat delivers.
LEMMA ProcStatType ==
  TypeOK => ProcStat \in Seq(Line) /\ Len(ProcStat) = Cardinality(online) + 1
            /\ Cardinality(online) \in Nat
BY ProcStatIsLines, LinesFacts DEF TypeOK

\* The first state.
LEMMA TypeInit == Init => TypeOK /\ PhaseInv /\ UsageInv
<1> SUFFICES ASSUME Init PROVE TypeOK /\ PhaseInv /\ UsageInv
  OBVIOUS
<1>1. /\ used \in [Cpus -> Nat] /\ idle \in [Cpus -> Nat]
  BY CPUAssumption DEF Init
<1>2. load \in HostLoad /\ load.of = "host"
  BY DEF Init, HostLoad
<1>3. TypeOK
  <2>1. {start, wake, elapsed, noOfCores} \subseteq Nat /\ clock \in Nat /\ usage \in Nat
    BY DEF Init
  <2>2. stat1 \in Seq(Line) /\ stat2 \in Seq(Line) /\ coreAvg \in Seq(Nat)
    BY DEF Init
  <2>3. /\ cancelled \in BOOLEAN /\ own \in BOOLEAN /\ plugged \in BOOLEAN
        /\ online \in SUBSET Cpus /\ pc \in Early /\ req \in Requests
        /\ cgroup \in {"none", "unlimited", "limited"}
        /\ usage1 = None /\ usage2 = None
        /\ err \in {"none", "file", "ctx", "panic"}
    BY DEF Init, Early
  <2> QED BY <1>1, <1>2, <2>1, <2>2, <2>3 DEF TypeOK
<1>4. PhaseInv
  BY <1>2, BudgetFacts DEF Init, PhaseInv, Early
<1>5. UsageInv
  BY <1>2 DEF Init, UsageInv, QuotaWithinHost
<1> QED BY <1>3, <1>4, <1>5

\* A step of the call preserves the types.
LEMMA TypeCall ==
  ASSUME TypeOK, PhaseInv, UsageInv, Call
  PROVE  TypeOK'
<1> USE DEF TypeOK, Early, Final
<1>0. UNCHANGED <<clock, online, used, idle, usage, own, plugged, cancelled>>
  BY DEF Call, hostVars
<1>1. ASSUME NEW why \in {"file", "ctx", "panic"}, Fail(why) PROVE TypeOK'
  BY <1>0, <1>1 DEF Fail
<1>2. CASE ReadStat1
  <2>1. CASE Fail("file")
    BY <1>1, <2>1
  <2>2. CASE ~Fail("file")
    <3>1. /\ start' = clock /\ stat1' = ProcStat
          /\ pc' \in {"quota", "sleep"} /\ wake' \in {wake, clock + Window}
          /\ UNCHANGED <<req, stat2, cgroup, usage1, usage2, elapsed, load,
                         coreAvg, noOfCores, err>>
      BY <1>2, <2>2 DEF ReadStat1
    <3>2. wake' \in Nat
      BY <3>1, CPUAssumption
    <3> QED BY <1>0, <3>1, <3>2, ProcStatType
  <2> QED BY <2>1, <2>2
<1>3. ASSUME NEW info \in {"none", "unlimited", "limited"}, Resolved(info)
      PROVE  TypeOK'
  <2>1. /\ cgroup' = info /\ pc' \in {"sleep", "usage1"}
        /\ wake' \in {wake, clock + Window}
        /\ UNCHANGED <<req, stat1, stat2, usage1, usage2, start, elapsed, load,
                       coreAvg, noOfCores, err>>
    BY <1>3 DEF Resolved
  <2>2. wake' \in Nat
    BY <2>1, CPUAssumption
  <2> QED BY <1>0, <2>1, <2>2
<1>4. CASE ReadQuota
  <2>1. CASE \E info \in {"none", "unlimited", "limited"} : Resolved(info)
    BY <1>3, <2>1
  <2>2. CASE ~\E info \in {"none", "unlimited", "limited"} : Resolved(info)
    BY <1>0, <1>4, <2>2 DEF ReadQuota
  <2> QED BY <2>1, <2>2
<1>5. CASE ReadPeriod
  BY <1>1, <1>3, <1>5 DEF ReadPeriod
<1>6. CASE SampleUsage
  <2>1. CASE Fail("panic")
    BY <1>1, <2>1
  <2>2. CASE ~Fail("panic")
    <3>1. PICK value \in Nat \cup {None} : Sampled(value)
      BY <1>6, <2>2 DEF SampleUsage
    <3>2. /\ usage1' \in {usage1, value} /\ usage2' \in {usage2, value}
          /\ pc' \in {"sleep", "parse"} /\ wake' \in {wake, clock + Window}
          /\ elapsed' \in {elapsed, clock - start}
          /\ UNCHANGED <<req, stat1, stat2, cgroup, start, load, coreAvg,
                         noOfCores, err>>
      BY <3>1 DEF Sampled
    <3>3. wake' \in Nat
      BY <3>2, CPUAssumption
    <3>4. clock - start \in Nat
      BY <1>6 DEF SampleUsage, PhaseInv
    <3> QED BY <1>0, <3>2, <3>3, <3>4, SMTT(30)
  <2> QED BY <2>1, <2>2
<1>7. CASE SleepElapses
  BY <1>0, <1>7 DEF SleepElapses
<1>8. CASE SleepCancelled
  BY <1>1, <1>8 DEF SleepCancelled
<1>9. CASE ReadStat2
  <2>1. CASE Fail("file")
    BY <1>1, <2>1
  <2>2. CASE ~Fail("file")
    <3>1. /\ stat2' = ProcStat /\ pc' \in {"usage2", "parse"}
          /\ elapsed' \in {elapsed, clock - start}
          /\ UNCHANGED <<req, stat1, cgroup, usage1, usage2, start, wake, load,
                         coreAvg, noOfCores, err>>
      BY <1>9, <2>2 DEF ReadStat2
    <3>2. clock - start \in Nat
      BY <1>9 DEF ReadStat2, PhaseInv
    <3>3. elapsed' \in Nat /\ stat2' \in Seq(Line)
      BY <3>1, <3>2, ProcStatType
    <3> QED BY <1>0, <3>1, <3>3
  <2> QED BY <2>1, <2>2
<1>10. CASE Parse
  <2>1. CASE Len(stat2) < Len(stat1)
    BY <1>1, <1>10, <2>1 DEF Parse
  <2>2. CASE ~(Len(stat2) < Len(stat1))
    <3> DEFINE core(n) == IF Passed(n) > 0 THEN Percent(n) ELSE 0
               cores == [n \in 1..Len(stat1) - 1 |-> core(n + 1)]
    <3>1. Len(stat1) \in Nat /\ Len(stat2) \in Nat /\ Len(stat1) >= 1
      BY <1>10 DEF Parse, PhaseInv
    <3>2. \A n \in 1..Len(stat1) : core(n) \in Nat
      <4> TAKE n \in 1..Len(stat1)
      <4>1. stat1[n] \in Line /\ stat2[n] \in Line
        BY <3>1, <2>2
      <4> QED BY <4>1, PercentType
    <3>3. \A n \in 1..Len(stat1) - 1 : n + 1 \in 1..Len(stat1)
      BY <3>1
    <3>4. cores \in [1..(Len(stat1) - 1) -> Nat]
      <4> HIDE DEF core
      <4> QED BY <3>2, <3>3
    <3>5. /\ load' = [of |-> "host", percent |-> core(1)]
          /\ coreAvg' = IF Passed(1) > 0 THEN cores ELSE <<0>> \o cores
          /\ pc' = "apply"
          /\ UNCHANGED <<req, stat1, stat2, cgroup, usage1, usage2, start,
                         wake, elapsed, noOfCores, err>>
      BY <1>10, <2>2 DEF Parse
    <3>6. 1 \in 1..Len(stat1) /\ Len(stat1) - 1 \in Nat
      BY <3>1
    <3> HIDE DEF core, cores
    <3>7. load' \in HostLoad
      BY <3>2, <3>5, <3>6 DEF HostLoad
    <3>8. coreAvg' \in Seq(Nat)
      <4>1. cores \in Seq(Nat)
        BY <3>4, <3>6, FunctionIsSeq
      <4> QED BY <3>5, <4>1
    <3> QED BY <1>0, <3>5, <3>7, <3>8
  <2> QED BY <2>1, <2>2
<1>11. CASE Apply
  <2>1. /\ noOfCores' = Len(coreAvg) /\ pc' = "cpuinfo"
        /\ UNCHANGED <<req, stat1, stat2, cgroup, usage1, usage2, start, wake,
                       elapsed, err>>
        /\ coreAvg' = <<>> \/ coreAvg' = coreAvg
        /\ \/ load' = load
           \/ /\ None \notin {usage1, usage2} /\ elapsed > 0
              /\ load' = [of |-> "cgroup", num |-> usage2 - usage1, den |-> elapsed]
    BY <1>11 DEF Apply
  <2>2. load' \in HostLoad \cup CgroupLoad
    <3>1. CASE load' = load
      BY <3>1
    <3>2. CASE load' # load
      <4>1. usage2 - usage1 \in Nat /\ elapsed \in Nat \ {0}
        BY <2>1, <3>2 DEF UsageInv
      <4> QED BY <2>1, <3>2, <4>1 DEF CgroupLoad
    <3> QED BY <3>1, <3>2
  <2>3. Len(coreAvg) \in Nat /\ coreAvg' \in Seq(Nat)
    <3>1. coreAvg \in Seq(Nat) /\ <<>> \in Seq(Nat) /\ Len(coreAvg) \in Nat
      OBVIOUS
    <3>2. coreAvg' = <<>> \/ coreAvg' = coreAvg
      BY <2>1
    <3> QED BY ONLY <3>1, <3>2
  <2> QED BY <1>0, <2>1, <2>2, <2>3
<1>12. CASE ReadCPUInfo
  <2>1. Cardinality(online) \in Nat
    BY ProcStatType
  <2> QED BY <1>0, <1>1, <1>12, <2>1 DEF ReadCPUInfo
<1>13. CASE ReadLoadAvg
  BY <1>0, <1>1, <1>13 DEF ReadLoadAvg
<1> QED
  BY <1>2, <1>4, <1>5, <1>6, <1>7, <1>8, <1>9, <1>10, <1>11, <1>12, <1>13
  DEF Call, CallStep

\* Every step preserves the types.
LEMMA TypeStep == TypeOK /\ PhaseInv /\ UsageInv /\ [Next]_vars => TypeOK'
<1> SUFFICES ASSUME TypeOK, PhaseInv, EnvStep PROVE TypeOK'
  BY TypeCall, StepSplit
<1>1. /\ UNCHANGED callVars
      /\ clock' \in Nat /\ online' \in SUBSET Cpus
      /\ used' \in [Cpus -> Nat] /\ idle' \in [Cpus -> Nat]
      /\ usage' \in Nat /\ own' \in BOOLEAN /\ plugged' \in BOOLEAN
      /\ cancelled' \in BOOLEAN
  BY EnvEffect DEF PhaseInv
<1> QED BY <1>1 DEF TypeOK, callVars

\* The call's own steps between two locations; clock stands still.
LEMMA PhaseCall ==
  ASSUME TypeOK, PhaseInv, Call
  PROVE  PhaseInv'
<1> USE DEF PhaseInv, Early
<1>0. clock' = clock /\ clock \in Nat /\ Window \in Nat \ {0}
  BY CPUAssumption DEF Call, hostVars, TypeOK
<1>1. ASSUME NEW why, Fail(why) PROVE PhaseInv'
  BY <1>0, <1>1 DEF Fail, Horizon
<1>2. CASE ReadStat1
  <2>1. CASE Fail("file")
    BY <1>1, <2>1
  <2>2. CASE ~Fail("file")
    <3>1. /\ start' = clock /\ stat1' = ProcStat /\ pc = "stat1"
          /\ \/ pc' = "quota"
             \/ pc' = "sleep" /\ wake' = clock + Window
          /\ UNCHANGED <<cgroup, usage1, usage2, load>>
      BY <1>2, <2>2 DEF ReadStat1
    <3>2. Len(stat1') >= 1
      BY <3>1, ProcStatType
    <3> QED BY <1>0, <3>1, <3>2 DEF Horizon
  <2> QED BY <2>1, <2>2
<1>3. ASSUME NEW info, Resolved(info), pc \in {"quota", "period"}
      PROVE  PhaseInv'
  <2>1. /\ \/ pc' = "usage1"
           \/ pc' = "sleep" /\ wake' = clock + Window
        /\ UNCHANGED <<start, stat1, usage1, usage2, load>>
    BY <1>3 DEF Resolved
  <2>2. start \in Nat /\ start <= clock
    BY <1>3 DEF TypeOK
  <2>3. pc' = "sleep" => start + Window <= wake'
    BY <1>0, <2>1, <2>2
  <2> QED BY <1>0, <1>3, <2>1, <2>2, <2>3 DEF Horizon
<1>4. CASE ReadQuota
  <2>1. CASE \E info : Resolved(info)
    BY <1>3, <1>4, <2>1 DEF ReadQuota
  <2>2. CASE ~\E info : Resolved(info)
    BY <1>0, <1>4, <2>2 DEF ReadQuota, Horizon
  <2> QED BY <2>1, <2>2
<1>5. CASE ReadPeriod
  BY <1>1, <1>3, <1>5 DEF ReadPeriod
<1>6. CASE SampleUsage
  <2>1. CASE Fail("panic")
    BY <1>1, <2>1
  <2>2. CASE ~Fail("panic")
    <3>1. PICK value : Sampled(value)
      BY <1>6, <2>2 DEF SampleUsage
    <3>2. start \in Nat /\ start <= clock
      BY <1>6 DEF SampleUsage, TypeOK
    <3>3. CASE pc = "usage1"
      <4>1. /\ pc' = "sleep" /\ wake' = clock + Window
            /\ UNCHANGED <<start, stat1, usage2, load>>
        BY <3>1, <3>3 DEF Sampled
      <4>2. start + Window <= wake'
        BY <1>0, <3>2, <4>1
      <4> QED BY <1>0, <3>2, <3>3, <4>1, <4>2 DEF Horizon
    <3>4. CASE pc = "usage2"
      <4>1. /\ pc' = "parse" /\ elapsed' = clock - start
            /\ UNCHANGED <<start, stat1, usage1, load>>
        BY <3>1, <3>4 DEF Sampled
      <4>2. Window <= elapsed'
        BY <1>0, <3>2, <3>4, <4>1
      <4> QED BY <1>0, <3>2, <3>4, <4>1, <4>2 DEF Horizon
    <3> QED BY <1>6, <3>3, <3>4 DEF SampleUsage
  <2> QED BY <2>1, <2>2
<1>7. CASE SleepElapses
  <2>1. /\ pc = "sleep" /\ pc' = "stat2" /\ clock >= wake
        /\ UNCHANGED <<start, stat1, usage2, load>>
    BY <1>7 DEF SleepElapses
  <2>2. start + Window <= clock
    BY <1>0, <2>1 DEF TypeOK
  <2> QED BY <1>0, <2>1, <2>2 DEF Horizon
<1>8. CASE SleepCancelled
  BY <1>1, <1>8 DEF SleepCancelled
<1>9. CASE ReadStat2
  <2>1. CASE Fail("file")
    BY <1>1, <2>1
  <2>2. CASE ~Fail("file")
    <3>1. /\ pc = "stat2"
          /\ \/ pc' = "usage2"
             \/ pc' = "parse" /\ elapsed' = clock - start
          /\ UNCHANGED <<start, stat1, usage2, load>>
      BY <1>9, <2>2 DEF ReadStat2
    <3>2. start \in Nat /\ start + Window <= clock
      BY <3>1 DEF TypeOK
    <3>3. pc' = "parse" => Window <= elapsed'
      BY <1>0, <3>1, <3>2
    <3> QED BY <1>0, <3>1, <3>2, <3>3 DEF Horizon
  <2> QED BY <2>1, <2>2
<1>10. CASE Parse
  <2>1. CASE Fail("panic")
    BY <1>1, <2>1
  <2>2. CASE ~Fail("panic")
    <3>1. /\ pc = "parse" /\ pc' = "apply" /\ load'.of = "host"
          /\ UNCHANGED <<start, stat1, elapsed>>
      BY <1>10, <2>2 DEF Parse
    <3> QED BY <1>0, <3>1 DEF Horizon
  <2> QED BY <2>1, <2>2
<1>11. CASE Apply
  BY <1>0, <1>11 DEF Apply, Horizon
<1>12. CASE ReadCPUInfo
  BY <1>0, <1>1, <1>12 DEF ReadCPUInfo, Horizon
<1>13. CASE ReadLoadAvg
  BY <1>0, <1>1, <1>13 DEF ReadLoadAvg, Horizon
<1> QED
  BY <1>2, <1>4, <1>5, <1>6, <1>7, <1>8, <1>9, <1>10, <1>11, <1>12, <1>13
  DEF Call, CallStep

\* Every step preserves what a location can rely on.
LEMMA PhaseStep == TypeOK /\ PhaseInv /\ [Next]_vars => PhaseInv'
<1> SUFFICES ASSUME TypeOK, PhaseInv, EnvStep PROVE PhaseInv'
  BY PhaseCall, StepSplit
<1>1. /\ UNCHANGED callVars /\ clock' \in Nat /\ clock <= clock'
      /\ clock' <= Horizon
  BY EnvEffect DEF PhaseInv
<1>2. clock \in Nat /\ start \in Nat /\ Window \in Nat
  BY CPUAssumption DEF TypeOK
<1>3. /\ start <= clock => start <= clock'
      /\ start + Window <= clock => start + Window <= clock'
  BY <1>1, <1>2
<1> QED BY <1>1, <1>3 DEF PhaseInv, callVars, Horizon

-----------------------------------------------------------------------------
(* The cgroup's usage.                                                     *)

\* A window [c, a] that grows to [c, b].
LEMMA Shift ==
  \A a, b, c \in Nat :
    c <= a /\ a <= b => /\ a - c \in Nat /\ b - a \in Nat
                       /\ b - c = (a - c) + (b - a)
OBVIOUS

\* What happens to the cgroup's counter between two steps of the call.
LEMMA UsageEnv ==
  ASSUME TypeOK, PhaseInv, UsageInv, EnvStep
  PROVE  UsageInv'
<1>1. /\ UNCHANGED callVars /\ clock' \in Nat /\ clock <= clock'
      /\ usage' \in Nat
      /\ usage <= usage' /\ usage' <= usage + Budget(clock' - clock)
  BY EnvEffect DEF PhaseInv
<1>2. /\ clock \in Nat /\ start \in Nat /\ usage \in Nat
      /\ usage1 # None => usage1 \in Nat
  BY DEF TypeOK
<1>3. ASSUME usage1 # None, pc \in {"sleep", "stat2", "usage2"}
      PROVE  usage' <= usage1 + Budget(clock' - start)
  <2> DEFINE d == clock - start
             e == clock' - clock
  <2>1. start <= clock
    BY <1>3 DEF PhaseInv
  <2>2. d \in Nat /\ e \in Nat /\ clock' - start = d + e
    BY <1>1, <1>2, <2>1, Shift
  <2>3. usage <= usage1 + Budget(d) /\ usage' <= usage + Budget(e)
    BY <1>1, <1>3 DEF UsageInv
  <2> HIDE DEF d, e
  <2>4. /\ Budget(d + e) = Budget(d) + Budget(e)
        /\ Budget(d) \in Nat /\ Budget(e) \in Nat
    BY <2>2, BudgetFacts
  <2>5. usage' <= usage1 + Budget(d + e)
    BY <1>1, <1>2, <1>3, <2>3, <2>4
  <2> QED BY <2>2, <2>5
<1>4. usage1 # None => usage1 <= usage'
  BY <1>1, <1>2 DEF UsageInv
<1> QED
  BY <1>1, <1>3, <1>4 DEF UsageInv, callVars, Budget, QuotaWithinHost

\* A step of the call preserves UsageInv: start is taken before the first
\* sample and elapsed after the second.
LEMMA UsageCall ==
  ASSUME TypeOK, PhaseInv, UsageInv, Call
  PROVE  UsageInv'
<1>0. clock' = clock /\ usage' = usage
  BY DEF Call, hostVars
<1>t. /\ clock \in Nat /\ start \in Nat /\ usage \in Nat /\ elapsed \in Nat
      /\ usage1 # None => usage1 \in Nat
      /\ usage2 # None => usage2 \in Nat
      /\ None \notin Nat
  BY CPUAssumption DEF TypeOK
<1>k. ASSUME UNCHANGED <<usage1, usage2, start, elapsed, load>>,
             \/ pc' \notin {"sleep", "stat2", "usage2", "parse", "apply"}
             \/ pc = "sleep" /\ pc' = "stat2"
             \/ pc = "stat2" /\ pc' = "usage2"
             \/ pc = "parse" /\ pc' = "apply"
             \/ usage1 = None
      PROVE  UsageInv'
  BY <1>0, <1>k DEF UsageInv, Budget, QuotaWithinHost
<1>1. ASSUME NEW why, Fail(why) PROVE UsageInv'
  BY <1>1, <1>k DEF Fail
<1>2. CASE ReadStat1
  <2>1. CASE Fail("file")
    BY <1>1, <2>1
  <2>2. CASE ~Fail("file")
    <3>1. /\ pc = "stat1" /\ UNCHANGED <<usage1, usage2, load>>
      BY <1>2, <2>2 DEF ReadStat1
    <3>2. usage1' = None /\ load'.of # "cgroup"
      BY <3>1 DEF PhaseInv, Early
    <3> QED BY <3>2 DEF UsageInv, QuotaWithinHost
  <2> QED BY <2>1, <2>2
<1>3. ASSUME NEW info, Resolved(info), pc \in {"quota", "period"}
      PROVE  UsageInv'
  <2>1. UNCHANGED <<usage1, usage2, start, elapsed, load>> /\ usage1 = None
    BY <1>3 DEF Resolved, PhaseInv
  <2> QED BY <1>k, <2>1
<1>4. CASE ReadQuota
  <2>1. CASE \E info : Resolved(info)
    BY <1>3, <1>4, <2>1 DEF ReadQuota
  <2>2. CASE ~\E info : Resolved(info)
    BY <1>4, <1>k, <2>2 DEF ReadQuota
  <2> QED BY <2>1, <2>2
<1>5. CASE ReadPeriod
  BY <1>1, <1>3, <1>5 DEF ReadPeriod
<1>6. CASE SampleUsage
  <2>1. CASE Fail("panic")
    BY <1>1, <2>1
  <2>2. CASE ~Fail("panic")
    <3>1. PICK value : Sampled(value) /\ (value = usage \/ value = None)
      BY <1>6, <2>2 DEF SampleUsage
    <3>2. start <= clock /\ load.of = "host"
      BY <1>6 DEF SampleUsage, PhaseInv, Early
    <3>3. clock - start \in Nat /\ Budget(clock - start) \in Nat
      <4>1. clock - start \in Nat
        BY <1>t, <3>2
      <4> QED BY <4>1, BudgetFacts
    <3>4. CASE pc = "usage1"
      <4>1. /\ pc' = "sleep" /\ usage1' = value
            /\ UNCHANGED <<start, usage2, load>> /\ usage2 = None
        BY <3>1, <3>4 DEF Sampled, PhaseInv, Early
      <4>2. usage1' # None => usage1' <= usage
                              /\ usage <= usage1' + Budget(clock - start)
        BY <1>t, <3>1, <3>3, <4>1
      <4> QED BY <1>0, <3>2, <4>1, <4>2 DEF UsageInv, Budget, QuotaWithinHost
    <3>5. CASE pc = "usage2"
      <4>1. /\ pc' = "parse" /\ usage2' = value /\ elapsed' = clock - start
            /\ UNCHANGED <<start, usage1, load>>
        BY <3>1, <3>5 DEF Sampled
      <4>2. usage1 # None /\ usage2' # None =>
              usage1 <= usage2' /\ usage2' <= usage1 + Budget(elapsed')
        BY <1>t, <3>1, <3>5, <4>1 DEF UsageInv
      <4>3. usage1 # None => usage1 <= usage
        BY DEF UsageInv
      <4> QED BY <1>0, <3>2, <4>1, <4>2, <4>3 DEF UsageInv, Budget, QuotaWithinHost
    <3> QED BY <1>6, <3>4, <3>5 DEF SampleUsage
  <2> QED BY <2>1, <2>2
<1>7. CASE SleepElapses
  BY <1>7, <1>k DEF SleepElapses
<1>8. CASE SleepCancelled
  BY <1>1, <1>8 DEF SleepCancelled
<1>9. CASE ReadStat2
  <2>1. CASE Fail("file")
    BY <1>1, <2>1
  <2>2. CASE ~Fail("file")
    <3>1. /\ pc = "stat2" /\ UNCHANGED <<usage1, usage2, start, load>>
          /\ \/ pc' = "usage2" /\ UNCHANGED elapsed
             \/ pc' = "parse"
      BY <1>9, <2>2 DEF ReadStat2
    <3>2. CASE pc' = "usage2"
      BY <1>k, <3>1, <3>2
    <3>3. CASE pc' = "parse"
      <4>1. usage2' = None
        BY <3>1 DEF PhaseInv, Early
      <4>2. load.of = "host"
        BY <3>1 DEF PhaseInv, Early
      <4> QED BY <1>0, <3>1, <3>3, <4>1, <4>2 DEF UsageInv, QuotaWithinHost
    <3> QED BY <3>1, <3>2, <3>3
  <2> QED BY <2>1, <2>2
<1>10. CASE Parse
  <2>1. CASE Fail("panic")
    BY <1>1, <2>1
  <2>2. CASE ~Fail("panic")
    <3>1. /\ pc = "parse" /\ pc' = "apply" /\ load'.of = "host"
          /\ UNCHANGED <<usage1, usage2, start, elapsed>>
      BY <1>10, <2>2 DEF Parse
    <3> QED BY <1>0, <3>1 DEF UsageInv, Budget, QuotaWithinHost
  <2> QED BY <2>1, <2>2
<1>11. CASE Apply
  <2>1. /\ pc = "apply" /\ pc' = "cpuinfo" /\ UNCHANGED <<usage1, usage2>>
        /\ \/ load' = load
           \/ /\ usage1 # None /\ usage2 # None
              /\ load' = [of |-> "cgroup", num |-> usage2 - usage1, den |-> elapsed]
    BY <1>11 DEF Apply
  <2>2. QuotaWithinHost'
    <3>1. CASE load' = load
      BY <3>1 DEF UsageInv, QuotaWithinHost
    <3>2. CASE load' # load
      <4>1. usage2 <= usage1 + Budget(elapsed) /\ usage1 <= usage2
        BY <2>1, <3>2 DEF UsageInv
      <4>2. Budget(elapsed) \in Nat
        BY <1>t, BudgetFacts
      <4>3. usage2 - usage1 <= Budget(elapsed)
        BY <1>t, <2>1, <3>2, <4>1, <4>2
      <4> QED BY <2>1, <3>2, <4>3 DEF Budget, QuotaWithinHost
    <3> QED BY <3>1, <3>2
  <2> QED BY <1>0, <2>1, <2>2 DEF UsageInv
<1>12. CASE ReadCPUInfo
  BY <1>1, <1>12, <1>k DEF ReadCPUInfo
<1>13. CASE ReadLoadAvg
  BY <1>1, <1>13, <1>k DEF ReadLoadAvg
<1> QED
  BY <1>2, <1>4, <1>5, <1>6, <1>7, <1>8, <1>9, <1>10, <1>11, <1>12, <1>13
  DEF Call, CallStep

\* Every step preserves UsageInv.
LEMMA UsageStep ==
  TypeOK /\ PhaseInv /\ UsageInv /\ [Next]_vars => UsageInv'
BY UsageEnv, UsageCall, StepSplit

\* TypeOK is an invariant: whatever the counters do and CPUs come or go, the
\* percentages and the quota's figure are never negative.
THEOREM TypeCorrect == Spec => []TypeOK
<1> DEFINE IInv == TypeOK /\ PhaseInv /\ UsageInv
<1>1. Init => IInv
  BY TypeInit
<1>2. IInv /\ [Next]_vars => IInv'
  BY TypeStep, PhaseStep, UsageStep
<1>3. IInv => TypeOK
  OBVIOUS
<1> QED BY <1>1, <1>2, <1>3, PTL DEF Spec

\* QuotaWithinHost is an invariant: the cores a quota is reported to use never
\* exceed the host's, because the window that divides holds both samples.
THEOREM QuotaSound == Spec => []QuotaWithinHost
<1> DEFINE IInv == TypeOK /\ PhaseInv /\ UsageInv
<1>1. Init => IInv
  BY TypeInit
<1>2. IInv /\ [Next]_vars => IInv'
  BY TypeStep, PhaseStep, UsageStep
<1>3. IInv => QuotaWithinHost
  BY DEF UsageInv
<1> QED BY <1>1, <1>2, <1>3, PTL DEF Spec

-----------------------------------------------------------------------------
(* A cgroup with a quota that stays.                                       *)

LimitInv ==
  own /\ cgroup = "limited" =>
    /\ pc \in {"sleep", "stat2", "usage2", "parse", "apply"} => usage1 # None
    /\ pc \in {"parse", "apply"} => usage2 # None
    /\ pc \in {"cpuinfo", "loadavg", "ok"} =>
         load.of = "cgroup" /\ coreAvg = <<>>

\* Every step preserves LimitInv.
LEMMA LimitStep ==
  ASSUME TypeOK, PhaseInv, LimitInv, [Next]_vars
  PROVE  LimitInv'
<1> USE DEF LimitInv
<1>1. CASE EnvStep
  <2>1. UNCHANGED callVars /\ (own' => own)
    BY <1>1, EnvEffect DEF PhaseInv
  <2> QED BY <2>1 DEF callVars
<1>2. CASE Call
  <2>0. own' = own
    BY <1>2 DEF Call, hostVars
  <2>k. ASSUME UNCHANGED <<cgroup, usage1, usage2, load, coreAvg>>,
               \/ pc' \in {"quota", "period", "usage1", "failed"}
               \/ pc = "sleep" /\ pc' = "stat2"
               \/ pc = "cpuinfo" /\ pc' = "loadavg"
               \/ pc = "loadavg" /\ pc' = "ok"
               \/ cgroup # "limited"
        PROVE  LimitInv'
    BY <2>0, <2>k
  <2>1. ASSUME NEW why, Fail(why) PROVE LimitInv'
    BY <2>1, <2>k DEF Fail
  <2>2. CASE ReadStat1
    <3>1. CASE Fail("file")
      BY <2>1, <3>1
    <3>2. CASE ~Fail("file")
      <4>1. pc = "stat1" /\ cgroup' = cgroup
        BY <2>2, <3>2 DEF ReadStat1
      <4> QED BY <4>1 DEF PhaseInv
    <3> QED BY <3>1, <3>2
  <2>3. ASSUME NEW info, Resolved(info) PROVE LimitInv'
    BY <2>3 DEF Resolved
  <2>4. CASE ReadQuota
    <3>1. CASE \E info : Resolved(info)
      BY <2>3, <3>1
    <3>2. CASE ~\E info : Resolved(info)
      BY <2>4, <2>k, <3>2 DEF ReadQuota
    <3> QED BY <3>1, <3>2
  <2>5. CASE ReadPeriod
    BY <2>1, <2>3, <2>5 DEF ReadPeriod
  <2>6. CASE SampleUsage
    <3>1. CASE Fail("panic")
      BY <2>1, <3>1
    <3>2. CASE ~Fail("panic")
      <4>1. PICK value : Sampled(value) /\ (own => value = usage)
        BY <2>6, <3>2 DEF SampleUsage
      <4>2. own => value # None
        BY <4>1, CPUAssumption DEF TypeOK
      <4>3. CASE pc = "usage1"
        BY <2>0, <4>1, <4>2, <4>3 DEF Sampled
      <4>4. CASE pc = "usage2"
        BY <2>0, <4>1, <4>2, <4>4 DEF Sampled
      <4> QED BY <2>6, <4>3, <4>4 DEF SampleUsage
    <3> QED BY <3>1, <3>2
  <2>7. CASE SleepElapses
    BY <2>7, <2>k DEF SleepElapses
  <2>8. CASE SleepCancelled
    BY <2>1, <2>8 DEF SleepCancelled
  <2>9. CASE ReadStat2
    <3>1. CASE Fail("file")
      BY <2>1, <3>1
    <3>2. CASE ~Fail("file")
      <4>1. /\ pc = "stat2" /\ UNCHANGED <<cgroup, usage1, usage2, load, coreAvg>>
            /\ pc' = "usage2" \/ (pc' = "parse" /\ cgroup = "none")
        BY <2>9, <3>2 DEF ReadStat2
      <4> QED BY <2>0, <4>1
    <3> QED BY <3>1, <3>2
  <2>10. CASE Parse
    <3>1. CASE Fail("panic")
      BY <2>1, <3>1
    <3>2. CASE ~Fail("panic")
      BY <2>0, <2>10, <3>2 DEF Parse
    <3> QED BY <3>1, <3>2
  <2>11. CASE Apply
    <3>1. pc = "apply" /\ pc' = "cpuinfo" /\ UNCHANGED <<cgroup, usage1, usage2>>
      BY <2>11 DEF Apply
    <3>2. own /\ cgroup = "limited" => usage1 # None /\ usage2 # None
      BY <3>1
    <3>3. elapsed > 0
      BY <3>1, CPUAssumption DEF PhaseInv, TypeOK
    <3>4. own /\ cgroup = "limited" => load'.of = "cgroup" /\ coreAvg' = <<>>
      BY <2>11, <3>2, <3>3 DEF Apply
    <3> QED BY <2>0, <3>1, <3>4
  <2>12. CASE ReadCPUInfo
    BY <2>1, <2>12, <2>k DEF ReadCPUInfo
  <2>13. CASE ReadLoadAvg
    BY <2>1, <2>13, <2>k DEF ReadLoadAvg
  <2> QED
    BY <1>2, <2>2, <2>4, <2>5, <2>6, <2>7, <2>8, <2>9, <2>10, <2>11, <2>12, <2>13
    DEF Call, CallStep
<1> QED BY <1>1, <1>2, StepSplit

\* LimitedIsOfQuota is an invariant: as long as the cgroup stays, a quota found
\* is the quota reported, whenever its samples fell.
THEOREM LimitedSound == Spec => []LimitedIsOfQuota
<1> DEFINE IInv == TypeOK /\ PhaseInv /\ UsageInv /\ LimitInv
<1>1. Init => IInv
  <2>1. Init => LimitInv
    BY DEF Init, LimitInv
  <2> QED BY <2>1, TypeInit
<1>2. IInv /\ [Next]_vars => IInv'
  BY TypeStep, PhaseStep, UsageStep, LimitStep
<1>3. IInv => LimitedIsOfQuota
  BY DEF LimitInv, LimitedIsOfQuota
<1> QED BY <1>1, <1>2, <1>3, PTL DEF Spec

-----------------------------------------------------------------------------
(* The two readings of /proc/stat while no CPU comes or goes.              *)

FirstRead  == {"quota", "period", "usage1", "sleep", "stat2"}
SecondRead == {"usage2", "parse", "apply", "cpuinfo", "loadavg", "ok"}

\* Line by line the second reading continues the first.
StatInv ==
  ~plugged =>
    /\ pc \in FirstRead \cup SecondRead => Len(stat1) = Cardinality(online) + 1
    /\ pc \in FirstRead =>
         \A n \in 1..(Cardinality(online) + 1) :
           Grown(stat1[n], ProcStat[n], Budget(clock - start))
    /\ pc \in SecondRead =>
         /\ Len(stat2) = Len(stat1)
         /\ \A n \in 1..Len(stat1) : Grown(stat1[n], stat2[n], Budget(Horizon))

\* A later time is ahead by a natural number.
LEMMA Forward == \A a, b \in Nat : a <= b => b - a \in Nat
OBVIOUS

\* Between two steps a line of /proc/stat grows by no more than the host can
\* burn in the time that passed.
LEMMA ProcStatGrows ==
  ASSUME TypeOK, clock <= Horizon, EnvStep, ~plugged',
         NEW n \in 1..(Cardinality(online) + 1)
  PROVE  /\ ProcStat[n] \in Line /\ ProcStat'[n] \in Line
         /\ Grown(ProcStat[n], ProcStat'[n], Budget(clock' - clock))
<1>0. /\ used \in [Cpus -> Nat] /\ idle \in [Cpus -> Nat]
      /\ used' \in [Cpus -> Nat] /\ idle' \in [Cpus -> Nat]
      /\ online \in SUBSET Cpus /\ online' = online
      /\ clock \in Nat /\ clock' \in Nat /\ clock <= clock'
  BY EnvEffect DEF TypeOK
<1>1. /\ ProcStat = Lines(online, used, idle)
      /\ ProcStat' = Lines(online, used', idle')
  BY <1>0, ProcStatIsLines
<1>2. ASSUME NEW u \in [Cpus -> Nat], NEW d \in [Cpus -> Nat]
      PROVE  Lines(online, u, d)[n] \in Line
  <2>1. /\ Lines(online, u, d) \in Seq(Line)
        /\ Len(Lines(online, u, d)) = Cardinality(online) + 1
    BY <1>0, LinesFacts
  <2> QED BY <2>1
<1>3. ProcStat[n] \in Line /\ ProcStat'[n] \in Line
  BY <1>0, <1>1, <1>2
<1>4. CASE Time
  <2>1. PICK busy \in SUBSET online : \E resting \in SUBSET (online \ busy) :
          /\ used' = [c \in Cpus |-> used[c] + IF c \in busy THEN 1 ELSE 0]
          /\ idle' = [c \in Cpus |-> idle[c] + IF c \in resting THEN 1 ELSE 0]
    BY <1>4 DEF Time
  <2>2. PICK resting \in SUBSET (online \ busy) :
          /\ used' = [c \in Cpus |-> used[c] + IF c \in busy THEN 1 ELSE 0]
          /\ idle' = [c \in Cpus |-> idle[c] + IF c \in resting THEN 1 ELSE 0]
    BY <2>1
  <2>5. Grown(Lines(online, used, idle)[n], Lines(online, used', idle')[n],
              Cardinality(Cpus))
    BY <1>0, <2>2, LinesGrow
  <2>3. clock' - clock = 1
    BY <1>0, <1>4 DEF Time
  <2>4. Budget(clock' - clock) = Cardinality(Cpus)
    BY <2>3, BudgetFacts
  <2> QED BY <1>1, <1>3, <2>4, <2>5
<1>5. CASE ~Time
  <2>1. used' = used /\ idle' = idle
    BY <1>5 DEF EnvStep, Cancel, Plug, MoveAway, vars, hostVars
  <2>2. clock' - clock \in Nat /\ Budget(clock' - clock) \in Nat
    <3>1. clock' - clock \in Nat
      BY <1>0, Forward
    <3> QED BY <3>1, BudgetFacts
  <2>3. ProcStat'[n] = ProcStat[n]
    BY <1>1, <2>1
  <2> QED BY <1>3, <2>2, <2>3, GrownSame
<1> QED BY <1>4, <1>5

\* Nothing but a CPU coming or going spoils StatInv.
LEMMA StatEnv ==
  ASSUME TypeOK, PhaseInv, StatInv, EnvStep
  PROVE  StatInv'
<1> SUFFICES ASSUME ~plugged' PROVE StatInv'
  BY DEF StatInv
<1>0. /\ UNCHANGED callVars /\ clock' \in Nat /\ clock <= clock'
      /\ ~plugged /\ online' = online
  BY EnvEffect DEF PhaseInv
<1>1. ASSUME pc \in FirstRead, NEW n \in 1..(Cardinality(online) + 1)
      PROVE  Grown(stat1[n], ProcStat'[n], Budget(clock' - start))
  <2> DEFINE d == clock - start
             e == clock' - clock
  <2>1. start <= clock /\ clock \in Nat /\ start \in Nat
    BY <1>1 DEF PhaseInv, FirstRead, TypeOK
  <2>2. d \in Nat /\ e \in Nat /\ clock' - start = d + e
    BY <1>0, <2>1, Shift
  <2>3. Grown(stat1[n], ProcStat[n], Budget(d))
    BY <1>0, <1>1 DEF StatInv
  <2>4. /\ ProcStat[n] \in Line /\ ProcStat'[n] \in Line
        /\ Grown(ProcStat[n], ProcStat'[n], Budget(e))
    BY ProcStatGrows DEF PhaseInv
  <2>5. stat1[n] \in Line
    <3>1. n \in 1..Len(stat1)
      BY <1>0, <1>1 DEF StatInv
    <3> QED BY <3>1 DEF TypeOK
  <2> HIDE DEF d, e
  <2>6. /\ Budget(d) \in Nat /\ Budget(e) \in Nat
        /\ Budget(d + e) = Budget(d) + Budget(e)
    BY <2>2, BudgetFacts
  <2>7. Grown(stat1[n], ProcStat'[n], Budget(d) + Budget(e))
    BY <2>3, <2>4, <2>5, <2>6, GrownTrans
  <2> QED BY <2>2, <2>6, <2>7
<1> QED
  BY <1>0, <1>1 DEF StatInv, callVars, FirstRead, SecondRead, Grown, Budget, Horizon

\* A step of the call preserves StatInv.
LEMMA StatCall ==
  ASSUME TypeOK, PhaseInv, StatInv, Call
  PROVE  StatInv'
<1> SUFFICES ASSUME ~plugged PROVE StatInv'
  BY DEF StatInv, Call, hostVars
<1>0. UNCHANGED <<clock, online, used, idle, plugged>>
  BY DEF Call, hostVars
<1>p. ProcStat' = ProcStat
  BY <1>0, ProcStatIsLines
<1>k. ASSUME UNCHANGED <<stat1, stat2, start>>,
             \/ pc \in FirstRead /\ pc' \in FirstRead
             \/ pc \in SecondRead /\ pc' \in SecondRead
             \/ pc' = "failed"
      PROVE  StatInv'
  BY <1>0, <1>p, <1>k DEF StatInv, FirstRead, SecondRead, Grown, Budget, Horizon
<1>1. ASSUME NEW why, Fail(why) PROVE StatInv'
  BY <1>1, <1>k DEF Fail
<1>2. CASE ReadStat1
  <2>1. CASE Fail("file")
    BY <1>1, <2>1
  <2>2. CASE ~Fail("file")
    <3>1. start' = clock /\ stat1' = ProcStat /\ pc' \in {"quota", "sleep"}
      BY <1>2, <2>2 DEF ReadStat1
    <3>2. /\ ProcStat \in Seq(Line) /\ Len(ProcStat) = Cardinality(online) + 1
      BY ProcStatType
    <3>3. clock - clock = 0 /\ Budget(0) \in Nat
      BY BudgetFacts DEF TypeOK
    <3>4. \A n \in 1..(Cardinality(online) + 1) :
            Grown(ProcStat[n], ProcStat[n], Budget(clock - clock))
      BY <3>2, <3>3, GrownSame
    <3> QED
      BY <1>0, <1>p, <3>1, <3>2, <3>4
      DEF StatInv, FirstRead, SecondRead, Grown, Budget
  <2> QED BY <2>1, <2>2
<1>3. ASSUME NEW info, Resolved(info), pc \in FirstRead PROVE StatInv'
  BY <1>3, <1>k DEF Resolved, FirstRead
<1>4. CASE ReadQuota
  <2>1. pc \in FirstRead
    BY <1>4 DEF ReadQuota, FirstRead
  <2>2. CASE \E info : Resolved(info)
    BY <1>3, <2>1, <2>2
  <2>3. CASE ~\E info : Resolved(info)
    BY <1>4, <1>k, <2>1, <2>3 DEF ReadQuota, FirstRead
  <2> QED BY <2>2, <2>3
<1>5. CASE ReadPeriod
  BY <1>1, <1>3, <1>5 DEF ReadPeriod, FirstRead
<1>6. CASE SampleUsage
  <2>1. CASE Fail("panic")
    BY <1>1, <2>1
  <2>2. CASE ~Fail("panic")
    <3>1. PICK value : Sampled(value)
      BY <1>6, <2>2 DEF SampleUsage
    <3>2. /\ UNCHANGED <<stat1, stat2, start>>
          /\ \/ pc = "usage1" /\ pc' = "sleep"
             \/ pc = "usage2" /\ pc' = "parse"
      BY <1>6, <3>1 DEF Sampled, SampleUsage
    <3> QED BY <1>k, <3>2 DEF FirstRead, SecondRead
  <2> QED BY <2>1, <2>2
<1>7. CASE SleepElapses
  BY <1>7, <1>k DEF SleepElapses, FirstRead
<1>8. CASE SleepCancelled
  BY <1>1, <1>8 DEF SleepCancelled
<1>9. CASE ReadStat2
  <2>1. CASE Fail("file")
    BY <1>1, <2>1
  <2>2. CASE ~Fail("file")
    <3>1. /\ stat2' = ProcStat /\ UNCHANGED <<stat1, start>> /\ pc = "stat2"
          /\ pc' \in {"usage2", "parse"}
      BY <1>9, <2>2 DEF ReadStat2
    <3>2. /\ ProcStat \in Seq(Line) /\ Len(ProcStat) = Cardinality(online) + 1
          /\ Len(stat1) = Cardinality(online) + 1
      BY <3>1, ProcStatType DEF StatInv, FirstRead
    <3>3. /\ clock - start \in Nat /\ clock - start <= Horizon
          /\ Budget(clock - start) <= Budget(Horizon)
          /\ Budget(clock - start) \in Nat /\ Budget(Horizon) \in Nat
      <4>1. start <= clock /\ clock <= Horizon
        BY <3>1 DEF PhaseInv
      <4>2. start \in Nat /\ clock \in Nat
        BY DEF TypeOK
      <4>3. Horizon \in Nat
        BY BudgetFacts
      <4>4. clock - start \in Nat /\ clock - start <= Horizon
        BY ONLY <4>1, <4>2, <4>3
      <4> QED BY <4>3, <4>4, BudgetFacts
    <3>4. \A n \in 1..Len(stat1) : Grown(stat1[n], ProcStat[n], Budget(Horizon))
      <4> TAKE n \in 1..Len(stat1)
      <4>1. Grown(stat1[n], ProcStat[n], Budget(clock - start))
        BY <3>1, <3>2 DEF StatInv, FirstRead
      <4>2. stat1[n] \in Line /\ ProcStat[n] \in Line
        BY <3>2 DEF TypeOK
      <4> QED BY <3>3, <4>1, <4>2 DEF Grown, Line
    <3> QED
      BY <1>0, <3>1, <3>2, <3>4
      DEF StatInv, FirstRead, SecondRead, Grown, Budget, Horizon
  <2> QED BY <2>1, <2>2
<1>10. CASE Parse
  <2>1. CASE Fail("panic")
    BY <1>1, <2>1
  <2>2. CASE ~Fail("panic")
    BY <1>10, <1>k, <2>2 DEF Parse, SecondRead
  <2> QED BY <2>1, <2>2
<1>11. CASE Apply
  BY <1>11, <1>k DEF Apply, SecondRead
<1>12. CASE ReadCPUInfo
  BY <1>1, <1>12, <1>k DEF ReadCPUInfo, SecondRead
<1>13. CASE ReadLoadAvg
  BY <1>1, <1>13, <1>k DEF ReadLoadAvg, SecondRead
<1> QED
  BY <1>2, <1>4, <1>5, <1>6, <1>7, <1>8, <1>9, <1>10, <1>11, <1>12, <1>13
  DEF Call, CallStep

\* Every step preserves StatInv.
LEMMA StatStep == TypeOK /\ PhaseInv /\ StatInv /\ [Next]_vars => StatInv'
BY StatEnv, StatCall, StepSplit

\* A panic needs a line that is missing, or a cgroup file.
LEMMA PanicStep ==
  ASSUME TypeOK, PhaseInv, StatInv, PanicsOnlyOnChange, [Next]_vars
  PROVE  PanicsOnlyOnChange'
<1>1. CASE EnvStep
  <2>1. UNCHANGED callVars /\ (own' => own) /\ (~plugged' => ~plugged)
    BY <1>1, EnvEffect DEF PhaseInv
  <2> QED BY <2>1 DEF callVars, PanicsOnlyOnChange
<1>2. CASE Call
  <2>0. own' = own /\ plugged' = plugged
    BY <1>2 DEF Call, hostVars
  <2>1. err' = err \/ (err' = "panic" => plugged \/ ~own)
    <3>1. CASE ReadPeriod \/ SampleUsage
      BY <3>1 DEF ReadPeriod, SampleUsage, Fail, Resolved, Sampled
    <3>2. CASE Parse
      <4>1. pc = "parse" /\ (Len(stat2) < Len(stat1) \/ err' = err)
        BY <3>2 DEF Parse
      <4>2. ~plugged => ~(Len(stat2) < Len(stat1))
        <5>1. Len(stat1) \in Nat
          BY DEF TypeOK
        <5> QED BY <4>1, <5>1 DEF StatInv, SecondRead
      <4> QED BY <4>1, <4>2
    <3>3. CASE \/ ReadStat1 \/ ReadQuota \/ SleepElapses \/ SleepCancelled
               \/ ReadStat2 \/ Apply \/ ReadCPUInfo \/ ReadLoadAvg
      BY <3>3
      DEF ReadStat1, ReadQuota, SleepElapses, SleepCancelled, ReadStat2, Apply,
          ReadCPUInfo, ReadLoadAvg, Fail, Resolved
    <3> QED BY <1>2, <3>1, <3>2, <3>3 DEF Call, CallStep
  <2> QED BY <2>0, <2>1 DEF PanicsOnlyOnChange
<1> QED BY <1>1, <1>2, StepSplit

\* PanicsOnlyOnChange is an invariant: without hotplug or a move out of the
\* cgroup no parser of GetCPU indexes past its input or converts "".
THEOREM PanicSound == Spec => []PanicsOnlyOnChange
<1> DEFINE IInv == TypeOK /\ PhaseInv /\ UsageInv /\ StatInv /\ PanicsOnlyOnChange
<1>1. Init => IInv
  <2>1. Init => StatInv /\ PanicsOnlyOnChange
    BY DEF Init, StatInv, FirstRead, SecondRead, PanicsOnlyOnChange
  <2> QED BY <2>1, TypeInit
<1>2. IInv /\ [Next]_vars => IInv'
  BY TypeStep, PhaseStep, UsageStep, StatStep, PanicStep
<1>3. IInv => PanicsOnlyOnChange
  OBVIOUS
<1> QED BY <1>1, <1>2, <1>3, PTL DEF Spec

-----------------------------------------------------------------------------
(* The host's figures.                                                     *)

Shown == {"apply", "cpuinfo", "loadavg", "ok"}

\* Once parsed there is a percentage per online CPU, and once those are counted
\* NoOfCores is their number, whichever of its two sources it came from.
CoreInv ==
  ~plugged /\ load.of = "host" /\ Passed(1) > 0 =>
    /\ pc \in Shown =>
         /\ Len(coreAvg) = Cardinality(online)
         /\ \A n \in DOMAIN coreAvg : coreAvg[n] <= 100
         /\ load.percent <= 100
    /\ pc \in Shown \ {"apply"} => noOfCores = Cardinality(online)

\* What Parse leaves when time passed: a figure per line after the first, each
\* a percentage because the readings grew by less than 2^64.
LEMMA Parsed ==
  ASSUME TypeOK, PhaseInv, StatInv, ~plugged, Parse, pc' # "failed",
         Passed(1) > 0
  PROVE  /\ Len(coreAvg') = Cardinality(online)
         /\ \A n \in DOMAIN coreAvg' : coreAvg'[n] <= 100
         /\ load'.percent <= 100
<1> DEFINE core(n) == IF Passed(n) > 0 THEN Percent(n) ELSE 0
           cores == [n \in 1..(Len(stat1) - 1) |-> core(n + 1)]
<1>0. /\ pc = "parse" /\ load' = [of |-> "host", percent |-> core(1)]
      /\ coreAvg' = cores
  BY DEF Parse, Fail
<1>1. /\ Len(stat1) = Cardinality(online) + 1 /\ Len(stat2) = Len(stat1)
      /\ \A n \in 1..Len(stat1) : Grown(stat1[n], stat2[n], Budget(Horizon))
  BY <1>0 DEF StatInv, SecondRead
<1>2. Cardinality(online) \in Nat
  BY ProcStatType
<1>3. ASSUME NEW n \in 1..Len(stat1) PROVE core(n) <= 100
  <2>1. stat1[n] \in Line /\ stat2[n] \in Line
    BY <1>1 DEF TypeOK
  <2>2. Budget(Horizon) \in Nat /\ Budget(Horizon) < Word
    BY BudgetFacts
  <2>3. Grown(stat1[n], stat2[n], Budget(Horizon))
    BY <1>1
  <2>4. Passed(n) > 0 => Percent(n) <= 100
    BY <2>1, <2>2, <2>3, PercentBound
  <2> QED BY <2>4
<1> HIDE DEF core
<1>4. Len(cores) = Cardinality(online) /\ DOMAIN cores = 1..Cardinality(online)
  BY <1>1, <1>2
<1>5. ASSUME NEW n \in DOMAIN cores PROVE cores[n] <= 100
  <2>1. n + 1 \in 1..Len(stat1) /\ cores[n] = core(n + 1)
    BY <1>1, <1>2, <1>4
  <2> QED BY <1>3, <2>1
<1>6. core(1) <= 100
  BY <1>1, <1>2, <1>3
<1> QED BY <1>0, <1>4, <1>5, <1>6

\* A step preserves CoreInv.
LEMMA CoreStep ==
  ASSUME TypeOK, PhaseInv, StatInv, CoreInv, [Next]_vars
  PROVE  CoreInv'
<1>1. CASE EnvStep
  <2>1. UNCHANGED callVars /\ (~plugged' => ~plugged /\ online' = online)
    BY <1>1, EnvEffect DEF PhaseInv
  <2> QED BY <2>1 DEF callVars, CoreInv, Passed, Sub64, Shown
<1>2. CASE Call
  <2>0. plugged' = plugged /\ online' = online
    BY <1>2 DEF Call, hostVars
  <2>k. ASSUME pc' \notin Shown PROVE CoreInv'
    BY <2>k DEF CoreInv
  <2>1. ASSUME NEW why, Fail(why) PROVE CoreInv'
    BY <2>1, <2>k DEF Fail, Shown
  <2>2. CASE \/ ReadStat1 \/ ReadQuota \/ ReadPeriod \/ SampleUsage
             \/ SleepElapses \/ SleepCancelled \/ ReadStat2
    <3>1. pc' \notin Shown
      BY <2>2
      DEF ReadStat1, ReadQuota, ReadPeriod, SampleUsage, SleepElapses,
          SleepCancelled, ReadStat2, Fail, Resolved, Sampled, Shown
    <3> QED BY <2>k, <3>1
  <2>3. CASE Parse
    <3>1. CASE pc' = "failed"
      BY <2>k, <3>1 DEF Shown
    <3>2. CASE pc' # "failed"
      <4>1. pc' = "apply" /\ UNCHANGED <<stat1, stat2>>
        BY <2>3, <3>2 DEF Parse, Fail
      <4>2. Passed(1)' = Passed(1)
        BY <4>1 DEF Passed, Sub64
      <4> QED BY <2>0, <2>3, <3>2, <4>1, <4>2, Parsed DEF CoreInv, Shown
    <3> QED BY <3>1, <3>2
  <2>4. CASE Apply
    <3>1. /\ pc = "apply" /\ pc' = "cpuinfo" /\ UNCHANGED <<stat1, stat2>>
          /\ noOfCores' = Len(coreAvg)
          /\ load'.of = "host" => UNCHANGED <<load, coreAvg>>
      BY <2>4 DEF Apply
    <3>2. Passed(1)' = Passed(1)
      BY <3>1 DEF Passed, Sub64
    <3> QED BY <2>0, <3>1, <3>2 DEF CoreInv, Shown
  <2>5. CASE ReadCPUInfo
    <3>1. CASE Fail("file")
      BY <2>1, <3>1
    <3>2. CASE ~Fail("file")
      <4>1. /\ pc = "cpuinfo" /\ pc' = "loadavg"
            /\ UNCHANGED <<stat1, stat2, load, coreAvg>>
            /\ noOfCores' \in {noOfCores, Cardinality(online)}
        BY <2>5, <3>2 DEF ReadCPUInfo
      <4>2. Passed(1)' = Passed(1)
        BY <4>1 DEF Passed, Sub64
      <4> QED BY <2>0, <4>1, <4>2 DEF CoreInv, Shown
    <3> QED BY <3>1, <3>2
  <2>6. CASE ReadLoadAvg
    <3>1. CASE Fail("file")
      BY <2>1, <3>1
    <3>2. CASE ~Fail("file")
      <4>1. /\ pc = "loadavg" /\ pc' = "ok"
            /\ UNCHANGED <<stat1, stat2, load, coreAvg, noOfCores>>
        BY <2>6, <3>2 DEF ReadLoadAvg
      <4>2. Passed(1)' = Passed(1)
        BY <4>1 DEF Passed, Sub64
      <4> QED BY <2>0, <4>1, <4>2 DEF CoreInv, Shown
    <3> QED BY <3>1, <3>2
  <2> QED BY <1>2, <2>2, <2>3, <2>4, <2>5, <2>6 DEF Call, CallStep
<1> QED BY <1>1, <1>2, StepSplit

\* SteadyCores is an invariant: on a host whose CPUs stay, CoreAvg has a
\* percentage for each of the NoOfCores CPUs, at any scheduling of the ticks.
THEOREM SteadySound == Spec => []SteadyCores
<1> DEFINE IInv == TypeOK /\ PhaseInv /\ UsageInv /\ StatInv /\ CoreInv
<1>1. Init => IInv
  <2>1. Init => StatInv /\ CoreInv
    BY DEF Init, StatInv, FirstRead, SecondRead, CoreInv, Shown
  <2> QED BY <2>1, TypeInit
<1>2. IInv /\ [Next]_vars => IInv'
  BY TypeStep, PhaseStep, UsageStep, StatStep, CoreStep
<1>3. IInv => SteadyCores
  BY DEF CoreInv, SteadyCores, Shown
<1> QED BY <1>1, <1>2, <1>3, PTL DEF Spec
=============================================================================
