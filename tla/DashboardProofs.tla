--------------------------- MODULE DashboardProofs --------------------------
(***************************************************************************)
(* Proofs about Dashboard for any set of readers, any number of waits, any *)
(* readers that share and any that may find a limit.                       *)
(*                                                                         *)
(* The invariant is built in layers, each resting on the ones before:      *)
(*   Bookkeeping  the WaitGroup counts the goroutines that run;            *)
(*   Guarded      the mutex has one holder, and what it loaded is current; *)
(*   Settling     a reader's data or problem appears at one place only;    *)
(*   Checked      what the caller's look at the context leaves true.       *)
(***************************************************************************)
EXTENDS Dashboard, FiniteSetTheorems, TLAPS

Finals == {"written", "dropped", "error"}

\* The WaitGroup counts the goroutines that run; once spawning is over all have
\* started, and once Wait has returned all are gone.  Who waits still has a wait.
Bookkeeping ==
  /\ wg = Cardinality(Running)
  /\ main # "spawn" => \A w \in Workers : at[w] # "unstarted"
  /\ Collected => \A w \in Workers : at[w] = "gone"
  /\ \A w \in Workers : at[w] = "nap" => naps[w] > 0

BaseInv == TypeOK /\ Bookkeeping

\* The mutex is held by the one goroutine at publish, load or store, and what
\* an append loaded is still the list when it stores.
Guarded ==
  /\ \A w \in Workers : at[w] \in {"publish", "load", "store"} <=> mu = w
  /\ \A w \in Workers : at[w] = "store" => seen[w] = problems

\* Only readers that share come to lock, only those with a panel to fill.
Paths ==
  \A w \in Workers :
    /\ at[w] \in {"lock", "publish"} => w \in Shared
    /\ at[w] = "fill" => w \notin Limiters

\* Data and problem are both absent until the last step of the goroutine's own
\* work; from then on exactly one is there.
Settling ==
  \A w \in Workers :
    IF at[w] \in {"exit", "gone"}
    THEN HasData(w) <=> ~Occurs(w, problems)
    ELSE ~HasData(w) /\ ~Occurs(w, problems)

Distinct ==
  \A m, n \in DOMAIN problems : problems[m] = problems[n] => m = n

SettleInv == Paths /\ Settling /\ Distinct

\* Only a context that is done makes a reader fail for it, and a handler that
\* goes on to write saw a context that was not.
Checked ==
  /\ ~done => \A w \in Workers : why[w] # "ctx"
  /\ mode = "serve" /\ main \in {"write", "written", "error"} =>
       \A w \in Workers : why[w] # "ctx"

-----------------------------------------------------------------------------
(* Types and the WaitGroup.                                                *)

\* Finitely many collectors run.
LEMMA RunningFinite == IsFiniteSet(Running) /\ Cardinality(Running) \in Nat
BY FS_Subset, FS_CardinalityType, WorkerAssumption DEF Running

\* A goroutine that neither starts nor ends leaves the count alone.
LEMMA RunningSame ==
  ASSUME NEW w \in Workers, NEW place \in Places \ {"unstarted", "gone"},
         TypeOK, at[w] \in Places \ {"unstarted", "gone"}, Goto(w, place)
  PROVE  Running' = Running
BY DEF TypeOK, Goto, Running, Places

\* The first state.
LEMMA BaseInit == Init => BaseInv
<1> SUFFICES ASSUME Init PROVE BaseInv
  OBVIOUS
<1> USE DEF Init
<1>1. Running = {}
  BY DEF Running
<1>2. TypeOK
  <2>1. \A T : <<>> \in Seq(T)
    OBVIOUS
  <2>2. problems \in Seq(Workers) /\ seen \in [Workers -> Seq(Workers)]
    BY <2>1
  <2> QED BY <2>2, WorkerAssumption DEF TypeOK, Places
<1>3. Bookkeeping
  BY <1>1, FS_EmptySet DEF Bookkeeping, Collected
<1> QED BY <1>2, <1>3 DEF BaseInv

\* A step of a goroutine keeps the types and the count.
LEMMA BaseStep ==
  ASSUME BaseInv, NEW w \in Workers, Step(w)
  PROVE  BaseInv'
<1> USE DEF BaseInv
<1>0. UNCHANGED mode /\ UNCHANGED done /\ UNCHANGED main /\ UNCHANGED box
  BY DEF Step
<1>1. at[w] \notin {"unstarted", "gone"}
  BY DEF Step, ReadOK, ReadFails, NapOver, NapCancelled, Lock, Publish, Fill,
         Load, Store, Exit
<1>2. ~Collected
  BY <1>1 DEF Bookkeeping
<1>3. CASE Exit(w)
  <2>1. Running' = Running \ {w} /\ w \in Running
    BY <1>3 DEF Exit, Goto, Running, TypeOK, Places
  <2>2. Cardinality(Running') = wg - 1
    BY <2>1, RunningFinite, FS_RemoveElement DEF Bookkeeping
  <2>3. Cardinality(Running') \in Nat
    BY <2>1, RunningFinite, FS_RemoveElement, FS_CardinalityType
  <2>4. wg' = wg - 1 /\ wg' \in Nat
    BY <1>3, <2>2, <2>3 DEF Exit
  <2>5. TypeOK'
    BY <1>0, <1>3, <2>4 DEF TypeOK, Exit, Goto, Places
  <2>6. Bookkeeping'
    BY <1>0, <1>2, <1>3, <2>2, <2>4 DEF Bookkeeping, Collected, Exit, Goto, TypeOK
  <2> QED BY <2>5, <2>6
<1>4. CASE ~Exit(w)
  <2>1. wg' = wg
    BY <1>4 DEF Step, ReadOK, ReadFails, NapOver, NapCancelled, Lock, Publish,
                Fill, Load, Store
  <2>2. PICK place \in Places \ {"unstarted", "gone"} : Goto(w, place)
    BY <1>4 DEF Step, ReadOK, ReadFails, NapOver, NapCancelled, Lock, Publish,
                Fill, Load, Store, NextPlace, Places
  <2>3. Bookkeeping'
    <3>1. Running' = Running
      BY <1>1, <2>2, RunningSame DEF TypeOK
    <3>2. \A v \in Workers : at'[v] = "nap" => naps'[v] > 0
      BY <1>4 DEF Step, ReadOK, ReadFails, NapOver, NapCancelled, Lock, Publish,
                  Fill, Load, Store, NextPlace, Goto, TypeOK, Bookkeeping
    <3> QED BY <1>0, <1>2, <2>1, <2>2, <3>1, <3>2 DEF Bookkeeping, Collected, Goto, TypeOK
  <2>4. at' \in [Workers -> Places]
    BY <2>2 DEF Goto, TypeOK
  <2>5. TypeOK'
    <3> USE <1>0, <2>1, <2>4 DEF TypeOK
    <3>1. CASE ReadOK(w)
      BY <3>1 DEF ReadOK
    <3>2. CASE ReadFails(w)
      BY <3>2 DEF ReadFails
    <3>3. CASE NapOver(w)
      <4>1. naps[w] \in Nat /\ naps[w] > 0
        BY <3>3 DEF NapOver, Bookkeeping
      <4>2. naps[w] - 1 \in Nat
        BY <4>1
      <4>3. naps' \in [Workers -> Nat]
        BY <3>3, <4>2 DEF NapOver
      <4> QED BY <3>3, <4>3 DEF NapOver
    <3>4. CASE NapCancelled(w)
      BY <3>4 DEF NapCancelled
    <3>5. CASE Lock(w)
      BY <3>5 DEF Lock
    <3>6. CASE Publish(w)
      BY <3>6 DEF Publish
    <3>7. CASE Fill(w)
      BY <3>7 DEF Fill
    <3>8. CASE Load(w)
      BY <3>8 DEF Load
    <3>9. CASE Store(w)
      <4>1. problems' \in Seq(Workers) /\ seen' \in [Workers -> Seq(Workers)]
        BY <3>9 DEF Store
      <4> QED BY <3>9, <4>1 DEF Store
    <3> QED BY <1>4, <3>1, <3>2, <3>3, <3>4, <3>5, <3>6, <3>7, <3>8, <3>9 DEF Step
  <2> QED BY <2>3, <2>5
<1> QED BY <1>3, <1>4

\* The list of problems stays a list of readers when it is sorted.
LEMMA SortedType ==
  ASSUME TypeOK, NEW t \in Sorted(problems)
  PROVE  t \in Seq(Workers)
<1>1. t \in [DOMAIN problems -> Workers]
  BY DEF Sorted
<1>2. DOMAIN problems = 1..Len(problems) /\ Len(problems) \in Nat
  BY DEF TypeOK
<1> QED BY <1>1, <1>2

\* A step of collect() or of its caller keeps the types and the count.
LEMMA BaseMain ==
  ASSUME BaseInv, Main
  PROVE  BaseInv'
<1> USE DEF BaseInv
<1>1. CASE Spawn
  <2>1. PICK w \in Workers : at[w] = "unstarted" /\ Goto(w, "read")
    BY <1>1 DEF Spawn
  <2>2. Running' = Running \cup {w} /\ w \notin Running
    BY <2>1 DEF Goto, Running, TypeOK, Places
  <2>3. Cardinality(Running') = wg + 1
    BY <2>2, RunningFinite, FS_AddElement DEF Bookkeeping
  <2>4. TypeOK'
    BY <1>1, <2>1 DEF Spawn, Goto, TypeOK, Places
  <2>5. Bookkeeping'
    BY <1>1, <2>1, <2>3 DEF Spawn, Goto, Bookkeeping, Collected, TypeOK
  <2> QED BY <2>4, <2>5
<1>2. CASE ~Spawn
  <2>1. /\ at' = at /\ wg' = wg /\ naps' = naps /\ mode' = mode /\ done' = done
        /\ mu' = mu /\ why' = why /\ limited' = limited /\ seen' = seen
        /\ panels' = panels /\ published' = published
    BY <1>2 DEF Main, Spawned, Wait, Build, CheckContext, Write, workerVars
  <2>2. TypeOK'
    <3>1. problems' \in Seq(Workers)
      BY <1>2, SortedType
      DEF Main, Spawned, Wait, Build, CheckContext, Write, workerVars, TypeOK
    <3>2. box' \in BOOLEAN
      <4>1. (\E w \in Limiters : published[w] = "limited") \in BOOLEAN
        OBVIOUS
      <4>2. CASE Build
        BY <4>1, <4>2, Zenon DEF Build
      <4>3. CASE ~Build
        BY <1>2, <4>3 DEF Main, Spawned, Wait, CheckContext, Write, TypeOK
      <4> QED BY <4>2, <4>3
    <3>3. main' \in {"spawn", "wait", "build", "check", "write", "written",
                     "dropped", "error"}
      BY <1>2 DEF Main, Spawned, Wait, Build, CheckContext, Write
    <3> QED BY <2>1, <3>1, <3>2, <3>3 DEF TypeOK
  <2>3. Running' = Running
    BY <2>1 DEF Running
  <2>4. main' # "spawn" => \A w \in Workers : at[w] # "unstarted"
    BY <1>2 DEF Main, Spawned, Wait, Build, CheckContext, Write, Bookkeeping
  <2>5. Collected' => \A w \in Workers : at[w] = "gone"
    <3>1. CASE Wait
      <4>1. Running = {}
        BY <3>1, RunningFinite, FS_EmptySet DEF Wait, Bookkeeping
      <4> QED BY <3>1, <4>1 DEF Running, Wait, Bookkeeping, TypeOK, Places
    <3>2. CASE ~Wait
      BY <1>2, <3>2
      DEF Main, Spawned, Build, CheckContext, Write, Bookkeeping, Collected
    <3> QED BY <3>1, <3>2
  <2> QED BY <2>1, <2>2, <2>3, <2>4, <2>5 DEF Bookkeeping
<1> QED BY <1>1, <1>2

\* Every step preserves BaseInv.
LEMMA BaseNext == BaseInv /\ [Next]_vars => BaseInv'
<1> SUFFICES ASSUME BaseInv, [Next]_vars PROVE BaseInv'
  OBVIOUS
<1>1. ASSUME NEW w \in Workers, Step(w) PROVE BaseInv'
  BY <1>1, BaseStep
<1>2. CASE Main
  BY <1>2, BaseMain
<1>3. CASE Cancel
  BY <1>3 DEF Cancel, workerVars, BaseInv, TypeOK, Bookkeeping, Running, Collected
<1>4. CASE UNCHANGED vars
  BY <1>4
  DEF vars, workerVars, BaseInv, TypeOK, Bookkeeping, Running, Collected
<1> QED BY <1>1, <1>2, <1>3, <1>4 DEF Next, Finished

\* Every variable of a rendering keeps its type: the WaitGroup's counter never
\* goes below zero, since only a goroutine it counts calls Done (run).
THEOREM TypeCorrect == Spec => []TypeOK
<1>1. Spec => []BaseInv
  BY BaseInit, BaseNext, PTL DEF Spec
<1> QED BY <1>1, PTL DEF BaseInv

-----------------------------------------------------------------------------
(* The mutex.                                                              *)

\* What the steps that do not touch the mutex leave alone.
LEMMA GuardedElsewhere ==
  ASSUME TypeOK, Guarded, NEW w \in Workers,
         NEW place \in Places \ {"publish", "load", "store"}, Goto(w, place),
         at[w] \notin {"publish", "load", "store"},
         mu' = mu, seen' = seen, problems' = problems
  PROVE  Guarded'
BY DEF TypeOK, Guarded, Goto

\* Every step preserves Guarded.
LEMMA GuardedStep ==
  ASSUME TypeOK, Guarded, NEW w \in Workers, Step(w)
  PROVE  Guarded'
<1>1. CASE ReadOK(w)
  BY <1>1, GuardedElsewhere DEF ReadOK, NextPlace, Places
<1>2. CASE ReadFails(w)
  BY <1>2, GuardedElsewhere DEF ReadFails, Places
<1>3. CASE NapOver(w) \/ NapCancelled(w)
  BY <1>3, GuardedElsewhere DEF NapOver, NapCancelled, Places
<1>4. CASE Fill(w) \/ Exit(w)
  BY <1>4, GuardedElsewhere DEF Fill, Exit, Places
<1>5. CASE Lock(w)
  <2>1. \A v \in Workers : at[v] \notin {"publish", "load", "store"}
    BY <1>5, WorkerAssumption DEF Lock, Guarded
  <2> QED BY <1>5, <2>1 DEF Lock, Goto, Guarded, TypeOK
<1>6. CASE Publish(w)
  BY <1>6, WorkerAssumption DEF Publish, Goto, Guarded, TypeOK
<1>7. CASE Load(w)
  BY <1>7 DEF Load, Goto, Guarded, TypeOK
<1>8. CASE Store(w)
  BY <1>8, WorkerAssumption DEF Store, Goto, Guarded, TypeOK
<1> QED BY <1>1, <1>2, <1>3, <1>4, <1>5, <1>6, <1>7, <1>8 DEF Step

\* Sorting happens when no goroutine is left to store.
LEMMA GuardedNext == BaseInv /\ Guarded /\ [Next]_vars => Guarded'
<1> SUFFICES ASSUME BaseInv, Guarded, [Next]_vars PROVE Guarded'
  OBVIOUS
<1>1. ASSUME NEW w \in Workers, Step(w) PROVE Guarded'
  BY <1>1, GuardedStep DEF BaseInv
<1>2. CASE Main
  <2>1. CASE Spawn
    BY <2>1 DEF Spawn, Goto, Guarded, BaseInv, TypeOK
  <2>2. CASE Build
    BY <2>2 DEF Build, Guarded, BaseInv, Bookkeeping, Collected
  <2>3. CASE Spawned \/ Wait \/ CheckContext \/ Write
    BY <2>3 DEF Spawned, Wait, CheckContext, Write, workerVars, Guarded
  <2> QED BY <1>2, <2>1, <2>2, <2>3 DEF Main
<1>3. CASE Cancel
  BY <1>3 DEF Cancel, workerVars, Guarded
<1>4. CASE UNCHANGED vars
  BY <1>4 DEF vars, workerVars, Guarded
<1> QED BY <1>1, <1>2, <1>3, <1>4 DEF Next, Finished

\* The first state.
LEMMA GuardedInit == Init => Guarded
BY WorkerAssumption DEF Init, Guarded

-----------------------------------------------------------------------------
(* Readers settle once.                                                    *)

\* What occurs in an appended list.
LEMMA OccursAppend ==
  ASSUME NEW s \in Seq(Workers), NEW w \in Workers, NEW v \in Workers
  PROVE  Occurs(v, Append(s, w)) <=> Occurs(v, s) \/ v = w
<1>1. /\ Len(Append(s, w)) = Len(s) + 1 /\ Len(s) \in Nat
      /\ \A n \in 1..Len(s) : Append(s, w)[n] = s[n]
      /\ Append(s, w)[Len(s) + 1] = w
      /\ DOMAIN s = 1..Len(s) /\ DOMAIN Append(s, w) = 1..(Len(s) + 1)
  OBVIOUS
<1>2. 1..(Len(s) + 1) = 1..Len(s) \cup {Len(s) + 1}
  BY <1>1
<1> QED BY <1>1, <1>2 DEF Occurs

\* A first problem of a reader keeps the problems distinct.
LEMMA DistinctAppend ==
  ASSUME TypeOK, Distinct, NEW w \in Workers, ~Occurs(w, problems),
         problems' = Append(problems, w)
  PROVE  Distinct'
<1>1. problems \in Seq(Workers)
  BY DEF TypeOK
<1>2. /\ Len(problems) \in Nat
      /\ \A n \in 1..Len(problems) : problems'[n] = problems[n]
      /\ problems'[Len(problems) + 1] = w
      /\ DOMAIN problems = 1..Len(problems)
      /\ DOMAIN problems' = 1..(Len(problems) + 1)
  BY <1>1
<1>3. \A n \in 1..(Len(problems) + 1) :
         n \in 1..Len(problems) \/ n = Len(problems) + 1
  BY <1>2
<1> QED BY <1>2, <1>3 DEF Distinct, Occurs

\* The first state.
LEMMA SettleInit == Init => SettleInv
<1> SUFFICES ASSUME Init PROVE SettleInv
  OBVIOUS
<1>1. \A w \in Workers : ~HasData(w) /\ ~Occurs(w, problems)
  BY WorkerAssumption DEF Init, HasData, Occurs
<1>2. Paths
  BY DEF Init, Paths
<1>3. Settling
  BY <1>1 DEF Init, Settling
<1>4. Distinct
  BY DEF Init, Distinct
<1> QED BY <1>2, <1>3, <1>4 DEF SettleInv

\* Every step of a goroutine that neither publishes, fills nor stores.
LEMMA SettleElsewhere ==
  ASSUME TypeOK, SettleInv, NEW w \in Workers,
         NEW place \in Places, Goto(w, place),
         place \in {"lock", "publish"} => w \in Shared,
         place = "fill" => w \notin Limiters,
         at[w] \in {"exit", "gone"} <=> place \in {"exit", "gone"},
         panels' = panels, published' = published, problems' = problems
  PROVE  SettleInv'
<1>1. \A v \in Workers : /\ HasData(v)' <=> HasData(v)
                         /\ Occurs(v, problems)' <=> Occurs(v, problems)
  BY DEF HasData, Occurs
<1>2. Paths'
  BY DEF TypeOK, SettleInv, Paths, Goto
<1>3. Settling'
  BY <1>1 DEF TypeOK, SettleInv, Settling, Goto
<1>4. Distinct'
  BY DEF SettleInv, Distinct
<1> QED BY <1>2, <1>3, <1>4 DEF SettleInv

\* Publishing a value settles its reader.
LEMMA SettlePublish ==
  ASSUME TypeOK, SettleInv, NEW w \in Workers, Publish(w)
  PROVE  SettleInv'
<1>1. w \in Shared /\ ~HasData(w) /\ ~Occurs(w, problems)
  BY DEF Publish, SettleInv, Paths, Settling
<1>2. /\ published'[w] # "zero"
      /\ \A v \in Shared \ {w} : published'[v] = published[v]
      /\ panels' = panels /\ problems' = problems
  BY <1>1 DEF Publish, TypeOK
<1>3. \A v \in Workers \ {w} : HasData(v)' <=> HasData(v)
  BY <1>2, WorkerAssumption DEF HasData
<1>4. IF w \in Limiters THEN HasData(w)' ELSE ~HasData(w)'
  BY <1>1, <1>2 DEF HasData
<1>5. \A v \in Workers : Occurs(v, problems)' <=> Occurs(v, problems)
  BY <1>2
<1>6. Paths'
  BY DEF Publish, Goto, TypeOK, SettleInv, Paths
<1>7. Settling'
  <2>1. at' = [at EXCEPT ![w] = IF w \in Limiters THEN "exit" ELSE "fill"]
    BY DEF Publish, Goto
  <2> QED BY <1>1, <1>3, <1>4, <1>5, <2>1 DEF TypeOK, SettleInv, Settling
<1>8. Distinct'
  BY <1>2 DEF SettleInv, Distinct
<1> QED BY <1>6, <1>7, <1>8 DEF SettleInv

\* Filling a panel settles its reader.
LEMMA SettleFill ==
  ASSUME TypeOK, SettleInv, NEW w \in Workers, Fill(w)
  PROVE  SettleInv'
<1>1. w \notin Limiters /\ ~Occurs(w, problems)
  BY DEF Fill, SettleInv, Paths, Settling
<1>2. panels' = panels \cup {w} /\ published' = published /\ problems' = problems
  BY DEF Fill
<1>3. \A v \in Workers : HasData(v)' <=> HasData(v) \/ v = w
  BY <1>1, <1>2 DEF HasData
<1>4. \A v \in Workers : Occurs(v, problems)' <=> Occurs(v, problems)
  BY <1>2
<1>5. Paths'
  BY DEF Fill, Goto, TypeOK, SettleInv, Paths
<1>6. Settling'
  BY <1>1, <1>3, <1>4 DEF Fill, Goto, TypeOK, SettleInv, Settling
<1>7. Distinct'
  BY <1>2 DEF SettleInv, Distinct
<1> QED BY <1>5, <1>6, <1>7 DEF SettleInv

\* What the append loaded is what it is stored over: no problem is lost.
LEMMA SettleStore ==
  ASSUME TypeOK, Guarded, SettleInv, NEW w \in Workers, Store(w)
  PROVE  SettleInv'
<1>1. ~HasData(w) /\ ~Occurs(w, problems)
  BY DEF Store, SettleInv, Settling
<1>2. /\ problems' = Append(problems, w)
      /\ panels' = panels /\ published' = published
  BY DEF Store, Guarded
<1>3. \A v \in Workers : Occurs(v, problems)' <=> Occurs(v, problems) \/ v = w
  BY <1>2, OccursAppend DEF TypeOK
<1>4. \A v \in Workers : HasData(v)' <=> HasData(v)
  BY <1>2 DEF HasData
<1>5. Paths'
  BY DEF Store, Goto, TypeOK, SettleInv, Paths
<1>6. Settling'
  BY <1>1, <1>3, <1>4 DEF Store, Goto, TypeOK, SettleInv, Settling
<1>7. Distinct'
  BY <1>1, <1>2, DistinctAppend DEF SettleInv
<1> QED BY <1>5, <1>6, <1>7 DEF SettleInv

\* A step preserves SettleInv.
LEMMA SettleStep ==
  ASSUME TypeOK, Guarded, SettleInv, NEW w \in Workers, Step(w)
  PROVE  SettleInv'
<1>1. CASE ReadOK(w)
  BY <1>1, SettleElsewhere, WorkerAssumption DEF ReadOK, NextPlace, Places
<1>2. CASE ReadFails(w)
  BY <1>2, SettleElsewhere DEF ReadFails, Places
<1>3. CASE NapOver(w) \/ NapCancelled(w)
  BY <1>3, SettleElsewhere DEF NapOver, NapCancelled, Places
<1>4. CASE Lock(w)
  BY <1>4, SettleElsewhere DEF Lock, Places, SettleInv, Paths
<1>5. CASE Load(w) \/ Exit(w)
  BY <1>5, SettleElsewhere DEF Load, Exit, Places
<1> QED
  BY <1>1, <1>2, <1>3, <1>4, <1>5, SettlePublish, SettleFill, SettleStore
  DEF Step

\* Sorting neither loses, adds nor repeats a problem.
LEMMA SettleBuild ==
  ASSUME TypeOK, SettleInv, Build
  PROVE  SettleInv'
<1>1. /\ at' = at /\ panels' = panels /\ published' = published
      /\ problems' \in Sorted(problems)
  BY DEF Build
<1>2. \A v \in Workers : Occurs(v, problems)' <=> Occurs(v, problems)
  BY <1>1 DEF Sorted
<1>3. Distinct'
  <2>1. /\ DOMAIN problems' = DOMAIN problems
        /\ \A n \in DOMAIN problems : n \in Nat /\ problems'[n] \in Workers
        /\ \A m, n \in DOMAIN problems :
             m < n => Rank[problems'[m]] < Rank[problems'[n]]
    BY <1>1 DEF Sorted, TypeOK
  <2> SUFFICES ASSUME NEW m \in DOMAIN problems, NEW n \in DOMAIN problems,
                      problems'[m] = problems'[n]
               PROVE  m = n
    BY <2>1 DEF Distinct
  <2>2. Rank[problems'[m]] \in Int /\ m \in Nat /\ n \in Nat
    BY <2>1, WorkerAssumption
  <2>3. ~(m < n) /\ ~(n < m)
    BY <2>1, <2>2
  <2> QED BY <2>2, <2>3
<1> QED BY <1>1, <1>2, <1>3 DEF SettleInv, Paths, Settling, HasData

\* Every step preserves SettleInv.
LEMMA SettleNext == TypeOK /\ Guarded /\ SettleInv /\ [Next]_vars => SettleInv'
<1> SUFFICES ASSUME TypeOK, Guarded, SettleInv, [Next]_vars PROVE SettleInv'
  OBVIOUS
<1>1. ASSUME NEW w \in Workers, Step(w) PROVE SettleInv'
  BY <1>1, SettleStep
<1>2. CASE Main
  <2>1. CASE Spawn
    BY <2>1, SettleElsewhere DEF Spawn, Places
  <2>2. CASE Build
    BY <2>2, SettleBuild
  <2>3. CASE Spawned \/ Wait \/ CheckContext \/ Write
    BY <2>3
    DEF Spawned, Wait, CheckContext, Write, workerVars, SettleInv, Paths,
        Settling, Distinct, HasData
  <2> QED BY <1>2, <2>1, <2>2, <2>3 DEF Main
<1>3. CASE Cancel
  BY <1>3 DEF Cancel, workerVars, SettleInv, Paths, Settling, Distinct, HasData
<1>4. CASE UNCHANGED vars
  BY <1>4 DEF vars, workerVars, SettleInv, Paths, Settling, Distinct, HasData
<1> QED BY <1>1, <1>2, <1>3, <1>4 DEF Next, Finished

\* Once Wait has returned, every reader either gave its data or is named by
\* exactly one problem, for any readers and any interleaving (run, fail).
THEOREM SettledOnce == Spec => []EveryReaderSettledOnce
<1>1. Spec => [](BaseInv /\ Guarded /\ SettleInv)
  <2>1. BaseInv => TypeOK
    BY DEF BaseInv
  <2> QED
    BY <2>1, BaseInit, BaseNext, GuardedInit, GuardedNext, SettleInit,
       SettleNext, PTL
    DEF Spec
<1>2. BaseInv /\ SettleInv => EveryReaderSettledOnce
  BY DEF BaseInv, Bookkeeping, SettleInv, Settling, Distinct,
         EveryReaderSettledOnce
<1> QED BY <1>1, <1>2, PTL

-----------------------------------------------------------------------------
(* The page after Wait.                                                    *)

\* No goroutine takes a step once Wait has returned.
LEMMA NoStepAfterWait ==
  ASSUME BaseInv, NEW w \in Workers, Step(w)
  PROVE  ~Collected
BY DEF BaseInv, Bookkeeping, Step, ReadOK, ReadFails, NapOver, NapCancelled,
       Lock, Publish, Fill, Load, Store, Exit

\* No goroutine touches the page after wg.Wait(), so that the caller may build
\* the container panel, sort and render without a lock (collect).
THEOREM PageStill == Spec => PageStillAfterWait
<1>1. ASSUME BaseInv, [Next]_vars
      PROVE  [Collected => /\ panels' = panels /\ published' = published
                           /\ main # "build" => problems' = problems]_vars
  <2>1. ASSUME NEW w \in Workers, Step(w) PROVE ~Collected
    BY <1>1, <2>1, NoStepAfterWait
  <2>2. ASSUME Main \/ Cancel, Collected
        PROVE  /\ panels' = panels /\ published' = published
               /\ main # "build" => problems' = problems
    BY <2>2
    DEF Main, Spawn, Spawned, Wait, Build, CheckContext, Write, Cancel,
        workerVars, Collected
  <2> QED BY <1>1, <2>1, <2>2 DEF Next, Finished, vars
<1>2. Spec => []BaseInv
  BY BaseInit, BaseNext, PTL DEF Spec
<1> QED BY <1>1, <1>2, PTL DEF Spec, PageStillAfterWait

\* The first state.
LEMMA CheckedInit == Init => Checked
BY DEF Init, Checked

\* A step preserves Checked.
LEMMA CheckedStep ==
  ASSUME BaseInv, Checked, NEW w \in Workers, Step(w)
  PROVE  Checked'
<1>1. ~Collected /\ done' = done /\ main' = main
  BY NoStepAfterWait DEF Step
<1>2. ~done => \A v \in Workers : why'[v] # "ctx"
  BY DEF Step, ReadOK, ReadFails, NapOver, NapCancelled, Lock, Publish, Fill,
         Load, Store, Exit, Checked, BaseInv, TypeOK
<1> QED BY <1>1, <1>2 DEF Checked, Collected

\* Every step preserves Checked.
LEMMA CheckedNext == BaseInv /\ Checked /\ [Next]_vars => Checked'
<1> SUFFICES ASSUME BaseInv, Checked, [Next]_vars PROVE Checked'
  OBVIOUS
<1>1. ASSUME NEW w \in Workers, Step(w) PROVE Checked'
  BY <1>1, CheckedStep
<1>2. CASE Main
  BY <1>2
  DEF Main, Spawn, Spawned, Wait, Build, CheckContext, Write, workerVars, Checked
<1>3. CASE Cancel
  BY <1>3 DEF Cancel, workerVars, Checked
<1>4. CASE UNCHANGED vars
  BY <1>4 DEF vars, workerVars, Checked
<1> QED BY <1>1, <1>2, <1>3, <1>4 DEF Next, Finished

\* A page served over HTTP never lacks a panel because its request was given up
\* (serveDashboard looks at the context after collect()).
THEOREM NothingCancelledServed == Spec => []NoCancelledPanelServed
<1>1. Spec => [](BaseInv /\ Checked)
  BY BaseInit, BaseNext, CheckedInit, CheckedNext, PTL DEF Spec
<1> QED BY <1>1, PTL DEF Checked, NoCancelledPanelServed

-----------------------------------------------------------------------------
(* The promise of Collection, up to liveness.                              *)

Outcomes == [w \in Workers |-> Outcome(w)]

\* The first state maps to one of the promise's.
LEMMA PromiseInit == Init => Promise!Init
<1> SUFFICES ASSUME Init PROVE Promise!Init
  OBVIOUS
<1>1. \A w \in Workers : Outcome(w) = "pending"
  BY WorkerAssumption DEF Init, Outcome, HasData, Occurs
<1>2. PageOf = "collecting" /\ box = FALSE
  BY DEF Init, PageOf
<1> QED BY <1>1, <1>2 DEF Promise!Init

\* Only publishing a limit's reading, filling and storing settle a reader.
LEMMA OutcomeSame ==
  ASSUME panels' = panels, published' = published, problems' = problems
  PROVE  Outcomes' = Outcomes
BY DEF Outcomes, Outcome, HasData, Occurs

\* A step that gives w's data or its problem, and nobody else's, settles w.
LEMMA PromiseSettle ==
  ASSUME BaseInv, SettleInv, NEW w \in Workers, at[w] \notin {"exit", "gone"},
         Outcome(w)' \in {"filled", "failed"} \/
           (w \in Limiters /\ Outcome(w)' = "limited"),
         \A v \in Workers \ {w} : Outcome(v)' = Outcome(v),
         PageOf = "collecting", PageOf' = "collecting", box' = box
  PROVE  Promise!Settle(w)
<1>1. Outcome(w) = "pending"
  BY DEF SettleInv, Settling, Outcome
<1>2. Outcomes' = [Outcomes EXCEPT ![w] = Outcome(w)']
  BY DEF Outcomes
<1> QED BY <1>1, <1>2 DEF Promise!Settle, Promise!Settled, Outcomes

\* A step maps to a step of the promise or to a stutter.
LEMMA PromiseStep ==
  ASSUME BaseInv, Guarded, SettleInv, NEW w \in Workers, Step(w)
  PROVE  Promise!Settle(w) \/ UNCHANGED Promise!vars
<1>1. /\ main \in {"spawn", "wait"} /\ main' = main /\ box' = box
      /\ PageOf = "collecting" /\ PageOf' = "collecting"
  BY NoStepAfterWait DEF Step, Collected, PageOf
<1>2. CASE Publish(w)
  <2>1. at[w] = "publish" /\ w \in Shared /\ ~Occurs(w, problems)
    BY <1>2 DEF Publish, SettleInv, Paths, Settling
  <2>2. /\ published'[w] \in {"limited", "unlimited"}
        /\ \A v \in Shared \ {w} : published'[v] = published[v]
        /\ panels' = panels /\ problems' = problems
    BY <1>2, <2>1 DEF Publish, BaseInv, TypeOK
  <2>3. \A v \in Workers \ {w} : Outcome(v)' = Outcome(v)
    BY <2>2, WorkerAssumption DEF Outcome, HasData
  <2>4. CASE w \in Limiters
    <3>1. Outcome(w)' \in {"filled", "limited"}
      BY <2>1, <2>2, <2>4 DEF Outcome, HasData
    <3> QED BY <1>1, <2>1, <2>3, <2>4, <3>1, PromiseSettle
  <2>5. CASE w \notin Limiters
    <3>1. Outcome(w)' = Outcome(w)
      BY <2>2, <2>5 DEF Outcome, HasData
    <3>2. Outcomes' = Outcomes
      BY <2>3, <3>1 DEF Outcomes
    <3> QED BY <1>1, <3>2 DEF Promise!vars, Outcomes
  <2> QED BY <2>4, <2>5
<1>3. CASE Fill(w)
  <2>1. at[w] = "fill" /\ w \notin Limiters /\ ~Occurs(w, problems)
    BY <1>3 DEF Fill, SettleInv, Paths, Settling
  <2>2. panels' = panels \cup {w} /\ published' = published /\ problems' = problems
    BY <1>3 DEF Fill
  <2>3. \A v \in Workers \ {w} : Outcome(v)' = Outcome(v)
    BY <2>2 DEF Outcome, HasData
  <2>4. Outcome(w)' = "filled"
    BY <2>1, <2>2 DEF Outcome, HasData
  <2> QED BY <1>1, <2>1, <2>3, <2>4, PromiseSettle
<1>4. CASE Store(w)
  <2>1. /\ problems' = Append(problems, w)
        /\ panels' = panels /\ published' = published
    BY <1>4 DEF Store, Guarded
  <2>2. \A v \in Workers : Occurs(v, problems)' <=> Occurs(v, problems) \/ v = w
    BY <2>1, OccursAppend DEF BaseInv, TypeOK
  <2>3. \A v \in Workers \ {w} : Outcome(v)' = Outcome(v)
    BY <2>1, <2>2 DEF Outcome, HasData
  <2>4. Outcome(w)' = "failed"
    BY <2>2 DEF Outcome
  <2>5. at[w] = "store"
    BY <1>4 DEF Store
  <2> QED BY <1>1, <2>3, <2>4, <2>5, PromiseSettle
<1>5. CASE ~Publish(w) /\ ~Fill(w) /\ ~Store(w)
  <2>1. panels' = panels /\ published' = published /\ problems' = problems
    BY <1>5
    DEF Step, ReadOK, ReadFails, NapOver, NapCancelled, Lock, Load, Exit
  <2> QED BY <1>1, <2>1, OutcomeSame DEF Promise!vars, Outcomes
<1> QED BY <1>2, <1>3, <1>4, <1>5

\* With every goroutine gone every reader has settled, and a limit was found
\* exactly when one of the readings stored says so.
LEMMA PromiseAssemble ==
  ASSUME BaseInv, SettleInv, Build
  PROVE  Promise!Assemble
<1>1. \A w \in Workers : HasData(w) <=> ~Occurs(w, problems)
  BY DEF Build, BaseInv, Bookkeeping, Collected, SettleInv, Settling
<1>2. \A w \in Workers : Outcome(w) # "pending"
  BY <1>1 DEF Outcome
<1>3. \A w \in Workers :
         Outcome(w) = "limited" <=> w \in Limiters /\ published[w] = "limited"
  BY <1>1, WorkerAssumption DEF Outcome, HasData
<1>4. box' = (\E w \in Workers : Outcomes[w] = "limited")
  <2>1. (\E w \in Limiters : published[w] = "limited")
          <=> \E w \in Workers : Outcomes[w] = "limited"
    BY <1>3, WorkerAssumption DEF Outcomes
  <2>2. box' = (\E w \in Limiters : published[w] = "limited")
    BY DEF Build
  <2> QED BY <2>1, <2>2, Zenon
<1>5. Outcomes' = Outcomes
  <2>1. \A w \in Workers : Occurs(w, problems)' <=> Occurs(w, problems)
    BY DEF Build, Sorted
  <2>2. \A w \in Workers : Outcome(w)' = Outcome(w)
    BY <2>1 DEF Build, Outcome, HasData
  <2> QED BY <2>2 DEF Outcomes
<1>6. PageOf = "collecting" /\ PageOf' = "assembled"
  BY DEF Build, PageOf
<1> QED BY <1>2, <1>4, <1>5, <1>6 DEF Promise!Assemble, Outcomes

\* Every step does.
LEMMA PromiseNext ==
  BaseInv /\ Guarded /\ SettleInv /\ [Next]_vars
    => [Promise!Next]_(Promise!vars)
<1> SUFFICES ASSUME BaseInv, Guarded, SettleInv, [Next]_vars
             PROVE  Promise!Next \/ UNCHANGED Promise!vars
  OBVIOUS
<1>1. ASSUME NEW w \in Workers, Step(w)
      PROVE  Promise!Next \/ UNCHANGED Promise!vars
  BY <1>1, PromiseStep DEF Promise!Next
<1>2. CASE Build
  BY <1>2, PromiseAssemble DEF Promise!Next
<1>3. CASE CheckContext \/ Write
  <2>1. Outcomes' = Outcomes /\ box' = box
    BY <1>3, OutcomeSame DEF CheckContext, Write, workerVars
  <2>2. /\ PageOf = "assembled"
        /\ PageOf' \in {"assembled", "delivered", "dropped"}
    BY <1>3 DEF CheckContext, Write, PageOf
  <2> QED
    BY <2>1, <2>2 DEF Promise!Next, Promise!Finish, Promise!vars, Outcomes
<1>4. CASE Spawn \/ Spawned \/ Wait
  <2>1. Outcomes' = Outcomes /\ box' = box
    BY <1>4, OutcomeSame DEF Spawn, Spawned, Wait, workerVars
  <2>2. PageOf = "collecting" /\ PageOf' = "collecting"
    BY <1>4 DEF Spawn, Spawned, Wait, PageOf
  <2> QED BY <2>1, <2>2 DEF Promise!vars, Outcomes
<1>5. CASE Cancel \/ UNCHANGED vars
  <2>1. Outcomes' = Outcomes /\ box' = box
    BY <1>5, OutcomeSame DEF Cancel, vars, workerVars
  <2>2. PageOf' = PageOf
    BY <1>5 DEF Cancel, vars, PageOf
  <2> QED BY <2>1, <2>2 DEF Promise!vars, Outcomes
<1> QED BY <1>1, <1>2, <1>3, <1>4, <1>5 DEF Next, Main, Finished

\* Whatever the readers, collect() and its caller start as Collection does and
\* take only steps it allows: readers settle once and for good, the page is
\* assembled from all of them, and given away or dropped once.
THEOREM KeepsPromiseSafely ==
  Spec => Promise!Init /\ [][Promise!Next]_(Promise!vars)
<1>1. Spec => [](BaseInv /\ Guarded /\ SettleInv)
  <2>1. BaseInv => TypeOK
    BY DEF BaseInv
  <2> QED
    BY <2>1, BaseInit, BaseNext, GuardedInit, GuardedNext, SettleInit,
       SettleNext, PTL
    DEF Spec
<1> QED BY <1>1, PromiseInit, PromiseNext, PTL DEF Spec

=============================================================================
