-------------------------- MODULE ContainersProofs --------------------------
(***************************************************************************)
(* Theorems about Containers, for any containers, one inside another or    *)
(* not, any processes, requests and times.                                 *)
(***************************************************************************)
EXTENDS Containers, FiniteFacts

\* Groups of variables are read as the variables in them.
USE DEF walkVars, layerVars, envVars

-----------------------------------------------------------------------------
(* Types.                                                                  *)

\* The locations at which a row is being filled in, and those after the window.
Filling   == {"counters", "network", "layer", "layerRoot", "layerWalk"}
Reporting == Filling \cup {"memory", "ok"}
Finding   == {"start", "walk", "metadata", "match"}

\* No layer is being walked.
Unwalked == left = {} /\ counted = {} /\ seen = {}

\* Where the loops are: which samples there are, and which row is filled in.
PhaseInv ==
  /\ pc \in Finding => usage1 = <<>> /\ usage2 = <<>> /\ i = 1
  /\ pc \in Finding \cup Sampling => out = <<>> /\ row = None
  /\ pc = "sample1" => usage2 = <<>> /\ Len(usage1) = i - 1
  /\ pc = "sleep" => usage2 = <<>> /\ Len(usage1) = Len(refs) /\ i = 1
  /\ pc = "sample2" => Len(usage1) = Len(refs) /\ Len(usage2) = i - 1
  /\ pc \in Reporting => Len(usage1) = Len(refs) /\ Len(usage2) = Len(refs)
  /\ pc \in Sampling \cup Reporting => i <= Len(refs) + 1
  /\ pc \in Filling =>
       /\ row \in Row /\ i <= Len(refs)
       /\ row.id = refs[i].id /\ row.files = None
  /\ pc \notin Filling => row = None \/ pc = "failed"
  /\ pc \in {"layerRoot", "layerWalk"} => row.upper \in DOMAIN Layer
  /\ pc \notin {"layerWalk", "failed"} => Unwalked
  /\ pc = "ok" => i > Len(refs) /\ (req.query = None \/ out # <<>>)
  /\ pc # "failed" => err = "none"

\* When the window is: it begins, its clock starts, and it has passed.
TimeInv ==
  /\ pc \in Sampling => begun <= clock
  /\ pc \in {"sleep", "sample2"} => begun <= start /\ start <= clock
  /\ pc \in Reporting => begun <= start

TypeInv == TypeOK /\ PhaseInv /\ TimeInv

\* Reports remain rows when a field is set.
LEMMA RowType ==
  /\ \A r \in Row : [r EXCEPT !.accessible = TRUE] \in Row
  /\ \A r \in Row, o \in Owners : [r EXCEPT !.net = o] \in Row
  /\ \A r \in Row, o \in Ids : [r EXCEPT !.upper = o] \in Row
  /\ \A r \in Row, k \in Nat : [r EXCEPT !.files = k] \in Row
  /\ \A r \in Row, k \in Nat : [r EXCEPT !.cpu = k] \in Row
BY DEF Row

\* What the sums of Elapse are.
LEMMA SumsAre ==
  ASSUME NEW d \in [Ids -> 0..Cores]
  PROVE  /\ d \in [Ids -> Nat]
         /\ \A S \in SUBSET Ids :
              /\ SumFunctionOnSet(d, S) = SumOver(d, S)
              /\ SumFunctionOnSet(d, S) \in Nat
         /\ SumFunction(d) = SumOver(d, Ids)
<1>1. IsFiniteSet(Ids) /\ Cores \in Nat
  BY CgroupAssumption
<1>2. d \in [Ids -> Nat]
  BY <1>1
<1>3. ASSUME NEW S \in SUBSET Ids
      PROVE  SumFunctionOnSet(d, S) = SumOver(d, S) /\ SumOver(d, S) \in Nat
  <2>1. SumFunctionOnSet(d, S) = SumOver(d, S)
    BY FoldUnfold DEF SumFunctionOnSet
  <2>2. SumOver(d, S) \in Nat
    BY <1>1, <1>2, SumOnSubset
  <2> QED BY <2>1, <2>2
<1>4. SumFunction(d) = SumOver(d, Ids)
  BY FunctionUnfold
<1> QED BY <1>2, <1>3, <1>4

\* A list with one element more.
LEMMA Longer ==
  ASSUME NEW T, NEW s \in Seq(T), NEW x
  PROVE  /\ Len(s) + 1 \in Nat /\ Len(s) + 1 \notin 1..Len(s)
         /\ 1..Len(Append(s, x)) = 1..Len(s) \cup {Len(s) + 1}
         /\ \A n \in 1..Len(s) : Append(s, x)[n] = s[n]
         /\ Append(s, x)[Len(s) + 1] = x
OBVIOUS

\* The processes of a cgroup and below, and where a container's are looked for.
LEMMA Subtrees ==
  /\ \A id \in Ids : Subtree(id) \subseteq Ids /\ id \in Subtree(id)
  /\ \A S : Busy(S) \subseteq Pids
  /\ \A id : FirstPids(id) \subseteq Busy(Subtree(id))
BY DEF Subtree, Busy, FirstPids

\* A step of the call, the runtime's answer included, leaves what it reads alone.
Step    == (CallStep \/ RuntimeAnswers) /\ UNCHANGED envVars
EnvStep == Cancel \/ Time \/ Lifecycle \/ Write \/ UNCHANGED vars

\* A step is one of the call's or one of its environment's.
LEMMA StepSplit == [Next]_vars => Step \/ EnvStep
BY Zenon DEF Next, Call, Answer, Returned, Step, EnvStep

\* What may happen between two steps of the call.
LEMMA EnvTypes ==
  ASSUME TypeOK, EnvStep
  PROVE  /\ UNCHANGED callVars /\ CgroupTypeOK' /\ cancelled' \in BOOLEAN
         /\ linked' \subseteq Files /\ touched' \subseteq Files
         /\ clock <= clock' /\ version' = version
<1> USE DEF TypeOK, layerVars
<1>1. CASE Cancel \/ UNCHANGED vars
  <2>1. UNCHANGED <<cgroupVars, layerVars, callVars>> /\ cancelled' \in BOOLEAN
    BY <1>1, Zenon DEF Cancel, vars
  <2> QED BY <2>1 DEF cgroupVars, CgroupTypeOK
<1>2. CASE Time
  <2>1. PICK d \in [Ids -> 0..Cores] :
          usage' = [id \in Ids |-> usage[id] + SumFunctionOnSet(d, Subtree(id))]
    BY <1>2 DEF Time, Elapse
  <2>2. \A id \in Ids : SumFunctionOnSet(d, Subtree(id)) \in Nat
    BY SumsAre, Subtrees
  <2>3. usage' \in [Ids -> Nat]
    <3>1. \A id \in Ids : usage[id] \in Nat
      BY DEF CgroupTypeOK
    <3> QED BY ONLY <2>1, <2>2, <3>1
  <2> QED BY <1>2, <2>3 DEF Time, Elapse, CgroupTypeOK
<1>3. CASE Lifecycle
  <2>1. Churn /\ UNCHANGED <<callVars, layerVars, cancelled>>
    BY <1>3 DEF Lifecycle
  <2>2. ASSUME NEW id \in Ids, Create(id)
        PROVE  CgroupTypeOK' /\ UNCHANGED <<clock, version>>
    <3>1. churn' \in Nat
      BY <2>1 DEF Churn, Change, CgroupTypeOK
    <3> QED BY ONLY TypeOK, <2>2, <3>1 DEF Create, TypeOK, CgroupTypeOK
  <2>3. ASSUME NEW id \in Ids, NEW C \in SUBSET Controllers, Rmdir(id, C)
        PROVE  CgroupTypeOK' /\ UNCHANGED <<clock, version>>
    BY <2>1, <2>3 DEF Churn, Change, Rmdir, CgroupTypeOK
  <2>4. ASSUME NEW p \in Pids, NEW owner \in Ids \cup {Host}, Enter(p, owner)
        PROVE  CgroupTypeOK' /\ UNCHANGED <<clock, version>>
    BY <2>1, <2>4 DEF Churn, Change, Enter, CgroupTypeOK, Owners
  <2>5. ASSUME NEW p \in Pids, Leave(p)
        PROVE  CgroupTypeOK' /\ UNCHANGED <<clock, version>>
    <3>1. \A id \in Ids : Around(id) \subseteq Ids
      BY CgroupAssumption DEF Around
    <3> QED BY <2>1, <2>5, <3>1 DEF Churn, Change, Leave, CgroupTypeOK, Owners
  <2>6. CgroupTypeOK' /\ UNCHANGED <<clock, version>>
    BY <2>1, <2>2, <2>3, <2>4, <2>5 DEF Churn
  <2> QED BY <2>1, <2>6 DEF CgroupTypeOK
<1>4. CASE Write
  BY <1>4 DEF Write, Touch, Change, CgroupTypeOK
<1> QED BY <1>1, <1>2, <1>3, <1>4 DEF EnvStep

\* The first match is one.
LEMMA Earliest ==
  ASSUME NEW T \in SUBSET Nat, T # {}
  PROVE  LET first == CHOOSE n \in T : \A m \in T : n <= m
         IN first \in T /\ \A m \in T : first <= m
<1>1. \E n \in T : \A m \in T : n <= m
  BY NatMinimum
<1> QED BY <1>1

\* A match is one of the containers found.
LEMMA MatchType ==
  ASSUME refs \in Seq(Ref), NEW q
  PROVE  MatchContainer(q) \subseteq 1..Len(refs)
<1> DEFINE Exact  == {n \in 1..Len(refs) :
                       \/ refs[n].id = q
                       \/ refs[n].id \in named /\ NameOf[refs[n].id] = q}
           First  == CHOOSE n \in Exact : \A m \in Exact : n <= m
<1>1. Exact # {} => First \in Exact
  <2>1. Exact \in SUBSET Nat
    OBVIOUS
  <2> HIDE DEF Exact
  <2> QED BY <2>1, Earliest
<1>2. Exact \subseteq 1..Len(refs)
  OBVIOUS
<1> DEFINE Prefix == {n \in 1..Len(refs) : IsPrefix(q, refs[n].id)}
<1>3. MatchContainer(q) =
        IF q = <<>> THEN {}
        ELSE IF Exact # {} THEN {First}
        ELSE IF Cardinality(Prefix) = 1 THEN Prefix ELSE {}
  BY DEF MatchContainer
<1>4. Prefix \subseteq 1..Len(refs)
  OBVIOUS
<1> HIDE DEF Exact, First, Prefix
<1> QED BY <1>1, <1>2, <1>3, <1>4

\* One step of the walk: everything below goes with the match, and the container
\* is found when there is a process in it or below.
LEMMA VisitEffect ==
  ASSUME Visit
  PROVE  /\ pc = "walk"
         /\ \E id \in todo :
              /\ Inside[id] \notin todo
              /\ todo' = todo \ Subtree(id)
              /\ \/ Busy(Subtree(id)) = {} /\ refs' = refs
                 \/ \E p \in Busy(Subtree(id)) :
                      refs' = Append(refs, [id |-> id, pid |-> p])
         /\ UNCHANGED <<req, pc, named, i, found, deadline, begun, start, wake,
                        usage1, usage2, elapsed, row, walkVars, out, err>>
<1>1. PICK id \in todo : Matched(id, Subtree(id), FirstPids(id))
  BY DEF Visit
<1>2. {id} \cup Subtree(id) = Subtree(id)
  BY DEF Subtree
<1>3. /\ FirstPids(id) \subseteq Busy(Subtree(id))
      /\ FirstPids(id) = {} => Busy(Subtree(id)) = {}
  BY DEF FirstPids, Busy, Subtree
<1>4. /\ Inside[id] \notin todo /\ todo' = todo \ Subtree(id)
      /\ \/ FirstPids(id) = {} /\ refs' = refs
         \/ \E p \in FirstPids(id) : refs' = Append(refs, [id |-> id, pid |-> p])
  BY <1>1, <1>2, Zenon DEF Matched
<1>5. \/ Busy(Subtree(id)) = {} /\ refs' = refs
      \/ \E p \in Busy(Subtree(id)) :
           refs' = Append(refs, [id |-> id, pid |-> p])
  BY ONLY <1>3, <1>4, Zenon
<1> QED BY <1>1, <1>4, <1>5, Zenon DEF Matched

\* Discovery keeps the types.
LEMMA FindingTypes ==
  ASSUME TypeInv, UNCHANGED envVars,
         Begin \/ Visit \/ EndWalk \/ MetadataExpires \/ RuntimeAnswers \/ Match
  PROVE  TypeInv'
<1> USE DEF TypeInv, TypeOK, CgroupTypeOK, envVars, layerVars, cgroupVars,
            Locations, Filling, Reporting, Finding, Sampling, Layering, Final, Errors,
            Unwalked
<1>1. CASE Begin
  <2>1. TypeOK' 
    BY <1>1 DEF Begin, Fail
  <2>2. PhaseInv' 
    BY <1>1 DEF Begin, Fail, PhaseInv
  <2>3. TimeInv' 
    BY <1>1 DEF Begin, Fail, TimeInv
  <2> QED BY <2>1, <2>2, <2>3
<1>2. CASE Visit
  <2>1. PICK id \in todo :
          /\ todo' = todo \ Subtree(id)
          /\ \/ refs' = refs
             \/ \E p \in Busy(Subtree(id)) :
                  refs' = Append(refs, [id |-> id, pid |-> p])
    BY <1>2, VisitEffect
  <2>2. refs' \in Seq(Ref) /\ todo' \subseteq Ids
    <3>1. \A p \in Busy(Subtree(id)) : [id |-> id, pid |-> p] \in Ref
      BY Subtrees DEF Ref
    <3>2. \A r \in Ref : Append(refs, r) \in Seq(Ref)
      OBVIOUS
    <3> QED BY <2>1, <3>1, <3>2
  <2>3. /\ pc = "walk"
        /\ UNCHANGED <<req, pc, named, i, found, deadline, begun, start, wake,
                       usage1, usage2, elapsed, row, walkVars, out, err>>
    BY <1>2, VisitEffect
  <2> QED BY <2>2, <2>3 DEF PhaseInv, TimeInv
<1>3. CASE EndWalk
  BY <1>3, ContainerAssumption DEF EndWalk, PhaseInv, TimeInv
<1>4. CASE MetadataExpires \/ RuntimeAnswers
  <2>1. PICK known \in SUBSET Ids : pc = "metadata" /\ AfterMetadata(known)
    BY <1>4, ContainerAssumption DEF MetadataExpires, RuntimeAnswers
  <2> QED BY <2>1 DEF AfterMetadata, PhaseInv, TimeInv
<1>5. CASE Match
  <2>1. CASE Fail("match")
    BY <1>5, <2>1 DEF Match, Fail, PhaseInv, TimeInv
  <2>2. CASE ~ Fail("match")
    <3>1. /\ pc = "match" /\ pc' = "sample1" /\ begun' = clock
          /\ UNCHANGED <<req, todo, named, i, found, deadline, start, wake,
                         usage1, usage2, elapsed, row, walkVars, out, err>>
      BY <1>5, <2>2, Zenon DEF Match
    <3>2. \/ refs' = refs
          \/ \E n \in MatchContainer(req.query) : refs' = <<refs[n]>>
      BY <1>5, <2>2, Zenon DEF Match
    <3>3. refs' \in Seq(Ref)
      <4>1. CASE refs' = refs
        BY <4>1
      <4>2. ASSUME NEW n \in MatchContainer(req.query), refs' = <<refs[n]>>
            PROVE  refs' \in Seq(Ref)
        <5>1. refs[n] \in Ref
          BY <4>2, MatchType
        <5> QED BY <4>2, <5>1
      <4> QED BY <3>2, <4>1, <4>2
    <3> QED BY <3>1, <3>3 DEF PhaseInv, TimeInv
  <2> QED BY <2>1, <2>2
<1> QED BY <1>1, <1>2, <1>3, <1>4, <1>5

\* The window keeps the types.
LEMMA WindowTypes ==
  ASSUME TypeInv, UNCHANGED envVars,
         SampleStat \/ SampleRead \/ EndSample1 \/ SleepElapses
           \/ SleepCancelled \/ EndSample2
  PROVE  TypeInv'
<1> USE DEF TypeInv, TypeOK,
            Locations, Filling, Reporting, Finding, Sampling, Layering, Final, Errors,
            Unwalked
<1>c. /\ CgroupTypeOK' /\ cancelled' \in BOOLEAN /\ clock' = clock
      /\ linked' \subseteq Files /\ touched' \subseteq Files
  BY DEF envVars, layerVars, cgroupVars, CgroupTypeOK
<1>f. refs \in Seq(Ref) /\ i \in Nat \ {0} /\ Len(refs) \in Nat
  OBVIOUS
<1>1. ASSUME NEW value \in Nat \cup {None}, Sampled(value), i <= Len(refs),
             pc \in {"sample1", "sample2"}
      PROVE  TypeInv'
  <2>1. \A u \in Seq(Nat \cup {None}) :
          /\ Append(u, value) \in Seq(Nat \cup {None})
          /\ Len(Append(u, value)) = Len(u) + 1
    BY <1>1
  <2>2. CASE pc = "sample1"
    <3>1. usage1' = Append(usage1, value)
      BY <1>1, <2>2, Zenon DEF Sampled
    <3>4. /\ usage2' = usage2 /\ i' = i + 1 /\ found' = FALSE
          /\ UNCHANGED <<req, pc, todo, refs, named, deadline, begun, start,
                         wake, elapsed, row, walkVars, out, err>>
      BY <1>1, <2>2 DEF Sampled
    <3>2. usage1 \in Seq(Nat \cup {None})
      OBVIOUS
    <3>3. usage1' \in Seq(Nat \cup {None}) /\ Len(usage1') = Len(usage1) + 1
      BY ONLY <2>1, <3>1, <3>2
    <3>5. TypeOK'
      <4>1. CgroupTypeOK' /\ req' \in Requests /\ pc' \in Locations
        BY <1>c, <3>4
      <4>2. todo' \subseteq Ids /\ refs' \in Seq(Ref) /\ named' \subseteq Ids
        BY <3>4
      <4>3. found' \in BOOLEAN
        BY ONLY <3>4, Zenon
      <4>7. i' \in Nat \ {0}
        BY ONLY <1>f, <3>4
      <4>4. {deadline, begun, start, wake, elapsed}' \subseteq Nat
        BY <3>4
      <4>5. usage1' \in Seq(Nat \cup {None}) /\ usage2' \in Seq(Nat \cup {None})
        BY <3>3, <3>4
      <4>6. /\ row' \in Row \cup {None} /\ out' \in Seq(Row) /\ err' \in Errors
            /\ left' \subseteq Files /\ counted' \subseteq Files /\ seen' \subseteq Nat
        BY <3>4
      <4> QED BY <1>c, <4>1, <4>2, <4>3, <4>4, <4>5, <4>6, <4>7
    <3>6. PhaseInv'
      BY <1>1, <1>f, <2>2, <3>3, <3>4 DEF PhaseInv
    <3>7. TimeInv'
      BY <1>c, <2>2, <3>4 DEF TimeInv
    <3> QED BY <3>5, <3>6, <3>7
  <2>3. CASE pc = "sample2"
    <3>1. usage2' = Append(usage2, value)
      BY <1>1, <2>3, Zenon DEF Sampled
    <3>4. /\ usage1' = usage1 /\ i' = i + 1 /\ found' = FALSE
          /\ UNCHANGED <<req, pc, todo, refs, named, deadline, begun, start,
                         wake, elapsed, row, walkVars, out, err>>
      BY <1>1, <2>3 DEF Sampled
    <3>2. usage2 \in Seq(Nat \cup {None})
      OBVIOUS
    <3>3. usage2' \in Seq(Nat \cup {None}) /\ Len(usage2') = Len(usage2) + 1
      BY ONLY <2>1, <3>1, <3>2
    <3>5. TypeOK'
      <4>1. CgroupTypeOK' /\ req' \in Requests /\ pc' \in Locations
        BY <1>c, <3>4
      <4>2. todo' \subseteq Ids /\ refs' \in Seq(Ref) /\ named' \subseteq Ids
        BY <3>4
      <4>3. found' \in BOOLEAN
        BY ONLY <3>4, Zenon
      <4>7. i' \in Nat \ {0}
        BY ONLY <1>f, <3>4
      <4>4. {deadline, begun, start, wake, elapsed}' \subseteq Nat
        BY <3>4
      <4>5. usage1' \in Seq(Nat \cup {None}) /\ usage2' \in Seq(Nat \cup {None})
        BY <3>3, <3>4
      <4>6. /\ row' \in Row \cup {None} /\ out' \in Seq(Row) /\ err' \in Errors
            /\ left' \subseteq Files /\ counted' \subseteq Files /\ seen' \subseteq Nat
        BY <3>4
      <4> QED BY <1>c, <4>1, <4>2, <4>3, <4>4, <4>5, <4>6, <4>7
    <3>6. PhaseInv'
      BY <1>1, <1>f, <2>3, <3>3, <3>4 DEF PhaseInv
    <3>7. TimeInv'
      BY <1>c, <2>3, <3>4 DEF TimeInv
    <3> QED BY <3>5, <3>6, <3>7
  <2> QED BY <1>1, <2>2, <2>3
<1>2. ASSUME Fail("panic") \/ Fail("ctx") PROVE TypeInv'
  BY <1>2, <1>c DEF Fail, PhaseInv, TimeInv
<1>3. i <= Len(refs) => refs[i].id \in Ids /\ usage[refs[i].id] \in Nat
  <2>1. usage \in [Ids -> Nat]
    BY DEF CgroupTypeOK
  <2>2. i <= Len(refs) => refs[i] \in Ref
    BY ONLY <1>f
  <2> QED BY ONLY <2>1, <2>2 DEF Ref
<1>4. CASE SampleStat
  <2>1. i <= Len(refs) /\ pc \in {"sample1", "sample2"}
    BY ONLY <1>4, Zenon DEF SampleStat
  <2>2. \/ Sampled(None) \/ Sampled(usage[refs[i].id])
        \/ /\ found' = TRUE
           /\ UNCHANGED <<req, pc, todo, refs, named, i, deadline, begun,
                          start, wake, usage1, usage2, elapsed, row, walkVars,
                          out, err>>
    BY ONLY <1>4, Zenon DEF SampleStat
  <2>3. ASSUME found' = TRUE,
               UNCHANGED <<req, pc, todo, refs, named, i, deadline, begun,
                           start, wake, usage1, usage2, elapsed, row, walkVars,
                           out, err>>
        PROVE  TypeInv'
    BY <2>3, <1>c DEF PhaseInv, TimeInv
  <2> QED BY ONLY <1>1, <1>3, <2>1, <2>2, <2>3
<1>5. CASE SampleRead
  BY <1>1, <1>2, <1>3, <1>5 DEF SampleRead
<1>6. CASE EndSample1
  BY <1>6, <1>c, <1>f, CgroupAssumption DEF CgroupTypeOK, EndSample1, PhaseInv, TimeInv
<1>7. CASE SleepElapses
  BY <1>7, <1>c DEF SleepElapses, PhaseInv, TimeInv
<1>8. CASE SleepCancelled
  BY <1>2, <1>8 DEF SleepCancelled
<1>9. CASE EndSample2
  <2>1. /\ pc = "sample2" /\ i > Len(refs)
        /\ elapsed' = clock - start /\ i' = 1 /\ pc' = "memory"
        /\ UNCHANGED <<req, todo, refs, named, found, deadline, begun, start, wake,
                       usage1, usage2, row, walkVars, out, err>>
    BY <1>9 DEF EndSample2
  <2>2. elapsed' \in Nat
    BY <2>1 DEF CgroupTypeOK, TimeInv
  <2>3. TypeOK'
    BY <1>c, <2>1, <2>2
  <2>4. PhaseInv'
    BY <1>f, <2>1 DEF PhaseInv
  <2>5. TimeInv'
    BY <1>c, <2>1 DEF TimeInv
  <2> QED BY <2>3, <2>4, <2>5
<1> QED BY <1>4, <1>5, <1>6, <1>7, <1>8, <1>9

\* A CPU figure is never negative.
LEMMA CoresUsedType ==
  ASSUME TypeInv, pc \in Reporting, i <= Len(refs)
  PROVE  CoresUsed(i) \in Nat
<1>1. i \in 1..Len(usage1) /\ i \in 1..Len(usage2)
  BY DEF TypeInv, TypeOK, PhaseInv
<1>2. /\ usage1 \in Seq(Nat \cup {None}) /\ usage2 \in Seq(Nat \cup {None})
      /\ elapsed \in Nat
  BY DEF TypeInv, TypeOK
<1>3. usage1[i] \in Nat \cup {None} /\ usage2[i] \in Nat \cup {None}
  BY ONLY <1>1, <1>2
<1> QED BY <1>2, <1>3 DEF CoresUsed

\* Leaving a container out, going on with a row and finishing it keep the types.
LEMMA RowSteps ==
  ASSUME TypeInv, UNCHANGED envVars,
         pc \in Filling \cup {"memory"}, i <= Len(refs)
  PROVE  /\ Drop /\ Unwalked => TypeInv'
         /\ \A r \in Row : Finish(r) /\ pc # "memory" => TypeInv'
         /\ \A r \in Row : \A where \in Filling :
              /\ Continue(where, r) /\ where # "layerWalk" /\ Unwalked
              /\ r.id = refs[i].id /\ r.files = None
              /\ where = "layerRoot" => r.upper \in DOMAIN Layer
              => TypeInv'
<1> USE DEF TypeInv, TypeOK,
            Locations, Filling, Reporting, Finding, Sampling, Layering, Final, Errors,
            Unwalked
<1>c. /\ CgroupTypeOK' /\ cancelled' \in BOOLEAN /\ clock' = clock
      /\ linked' \subseteq Files /\ touched' \subseteq Files
  BY DEF envVars, layerVars, cgroupVars, CgroupTypeOK
<1>f. refs \in Seq(Ref) /\ i \in Nat \ {0} /\ Len(refs) \in Nat
  OBVIOUS
<1>1. ASSUME Drop, Unwalked PROVE TypeInv'
  <2>1. found' \in BOOLEAN
    BY ONLY <1>1, Zenon DEF Drop
  <2>2. /\ i' = i + 1 /\ pc' = "memory" /\ row' = None
        /\ UNCHANGED <<req, todo, refs, named, deadline, begun, start, wake,
                       usage1, usage2, elapsed, walkVars, out, err>>
    BY <1>1 DEF Drop
  <2>3. TypeOK'
    <3>1. i' \in Nat \ {0}
      BY ONLY <1>f, <2>2
    <3> QED BY <1>c, <2>1, <2>2, <3>1
  <2>4. PhaseInv'
    <3>1. /\ i <= Len(refs) /\ err = "none"
          /\ Len(usage1) = Len(refs) /\ Len(usage2) = Len(refs)
      BY DEF PhaseInv
    <3> QED BY ONLY <1>1, <1>f, <2>2, <3>1 DEF PhaseInv, Unwalked, Filling, Finding,
                                              Reporting, Sampling, Final
  <2>5. TimeInv'
    BY <1>c, <2>2 DEF TimeInv
  <2> QED BY <2>3, <2>4, <2>5
<1>2. ASSUME NEW r \in Row, Finish(r), pc # "memory" PROVE TypeInv'
  <2>1. [r EXCEPT !.cpu = CoresUsed(i)] \in Row
    BY CoresUsedType, RowType
  <2>2. out' \in Seq(Row)
    BY <1>2, <2>1 DEF Finish
  <2>3. TypeOK'
    BY <1>2, <1>c, <1>f, <2>2 DEF Finish
  <2>4. PhaseInv'
    <3>1. /\ pc' = "memory" /\ i' = i + 1 /\ row' = None /\ Unwalked'
          /\ UNCHANGED <<refs, usage1, usage2, err>>
      BY <1>2 DEF Finish
    <3>2. /\ i <= Len(refs) /\ err = "none"
          /\ Len(usage1) = Len(refs) /\ Len(usage2) = Len(refs)
      BY <1>2 DEF PhaseInv
    <3> QED BY ONLY <1>f, <3>1, <3>2 DEF PhaseInv, Unwalked, Filling, Finding,
                                         Reporting, Sampling, Final
  <2>5. TimeInv'
    BY <1>2, <1>c DEF Finish, TimeInv
  <2> QED BY <2>3, <2>4, <2>5
<1>3. ASSUME NEW r \in Row, NEW where \in Filling, Continue(where, r),
             where # "layerWalk", Unwalked, r.id = refs[i].id, r.files = None,
             where = "layerRoot" => r.upper \in DOMAIN Layer
      PROVE  TypeInv'
  <2>1. TypeOK'
    BY <1>3, <1>c DEF Continue
  <2>2. PhaseInv'
    BY <1>3, <1>f DEF Continue, PhaseInv
  <2>3. TimeInv'
    BY <1>3, <1>c DEF Continue, TimeInv
  <2> QED BY <2>1, <2>2, <2>3
<1> QED BY <1>1, <1>2, <1>3

ReportStep ==
  \/ ReadMemory \/ StatCounters \/ ReadCounters \/ StatNetwork \/ ReadNetwork
  \/ FindLayer \/ LayerCancelled \/ LayerUnreadable \/ OpenLayer
  \/ LayerEntry \/ LayerDone \/ Return

\* The report keeps the types.
LEMMA ReportTypes ==
  ASSUME TypeInv, UNCHANGED envVars, ReportStep
  PROVE  TypeInv'
<1> USE DEF TypeInv, TypeOK,
            Locations, Filling, Reporting, Finding, Sampling, Layering, Final, Errors,
            Unwalked
<1>c. /\ CgroupTypeOK' /\ cancelled' \in BOOLEAN /\ clock' = clock
      /\ linked' \subseteq Files /\ touched' \subseteq Files
  BY DEF envVars, layerVars, cgroupVars, CgroupTypeOK
<1>f. refs \in Seq(Ref) /\ i \in Nat \ {0} /\ Len(refs) \in Nat
  OBVIOUS
<1>r. pc \in Filling => row \in Row /\ row.id = refs[i].id /\ row.files = None
                          /\ i <= Len(refs)
  BY DEF PhaseInv
<1>w. pc \in {"memory", "counters", "network", "layer", "layerRoot"} => Unwalked
  BY DEF PhaseInv
<1>i. i <= Len(refs) => refs[i] \in Ref /\ refs[i].id \in Ids /\ refs[i].pid \in Pids
  <2>1. i <= Len(refs) => refs[i] \in Ref
    BY ONLY <1>f
  <2> QED BY ONLY <2>1 DEF Ref
<1>d. pc \in Filling \cup {"memory"} /\ i <= Len(refs) /\ Unwalked /\ Drop => TypeInv'
  BY RowSteps
<1>g. ASSUME NEW r \in Row, NEW where \in Filling, Continue(where, r),
             where # "layerWalk", Unwalked, pc \in Filling \cup {"memory"}, i <= Len(refs),
             r.id = refs[i].id, r.files = None,
             where = "layerRoot" => r.upper \in DOMAIN Layer
      PROVE  TypeInv'
  BY <1>g, RowSteps
<1>e. ASSUME NEW r \in Row, Finish(r), pc \in Filling PROVE TypeInv'
  BY <1>e, <1>r, RowSteps
<1>x. ASSUME NEW why \in Errors, Fail(why) PROVE TypeInv'
  BY <1>x, <1>c DEF Fail, PhaseInv, TimeInv
<1>1. CASE ReadMemory
  <2>1. NewRow \in Row /\ NewRow.id = refs[i].id /\ NewRow.files = None
    BY <1>1, <1>i DEF NewRow, Row, Owners, ReadMemory
  <2> QED BY <1>1, <1>d, <1>g, <1>w, <2>1 DEF ReadMemory
<1>2. CASE StatCounters
  <2>1. CASE "cpuacct" \notin dirs[refs[i].id]
    BY <1>2, <1>g, <1>r, <1>w, <2>1 DEF StatCounters
  <2>2. CASE "cpuacct" \in dirs[refs[i].id]
    <3>1. found' \in BOOLEAN
      BY ONLY <1>2, <2>2, Zenon DEF StatCounters
    <3>2. UNCHANGED <<req, pc, todo, refs, named, i, deadline, begun, start, wake,
                      usage1, usage2, elapsed, row, walkVars, out, err>>
      BY <1>2, <2>2 DEF StatCounters
    <3>3. TypeOK'
      BY <1>c, <3>1, <3>2
    <3>4. PhaseInv' /\ TimeInv'
      BY <1>c, <3>2 DEF PhaseInv, TimeInv
    <3> QED BY <3>3, <3>4
  <2> QED BY <2>1, <2>2
<1>3. CASE ReadCounters
  <2>1. CASE "cpuacct" \notin dirs[refs[i].id]
    BY <1>3, <1>d, <1>r, <1>w, <2>1 DEF ReadCounters
  <2>2. CASE "cpuacct" \in dirs[refs[i].id]
    <3>1. found' \in BOOLEAN
      BY ONLY <1>3, <2>2, Zenon DEF ReadCounters
    <3>2. /\ pc = "counters" /\ pc' = "network"
          /\ UNCHANGED <<req, todo, refs, named, i, deadline, begun, start, wake,
                         usage1, usage2, elapsed, row, walkVars, out, err>>
      BY <1>3, <2>2 DEF ReadCounters
    <3> QED BY <1>c, <1>f, <3>1, <3>2 DEF PhaseInv, TimeInv
  <2> QED BY <2>1, <2>2
<1>4. ASSUME NEW r \in Row, AfterNetwork(r), pc = "network",
             r.id = refs[i].id, r.files = None
      PROVE  TypeInv'
  BY <1>4, <1>e, <1>g, <1>r, <1>w DEF AfterNetwork
<1>5. CASE StatNetwork \/ ReadNetwork
  <2>1. proc[refs[i].pid] \in Owners
    BY <1>5, <1>r, <1>i DEF CgroupTypeOK, StatNetwork, ReadNetwork
  <2>2. LET a == [row EXCEPT !.accessible = TRUE]
            b == [row EXCEPT !.net = proc[refs[i].pid]]
        IN /\ a \in Row /\ a.id = row.id /\ a.files = row.files
           /\ b \in Row /\ b.id = row.id /\ b.files = row.files
    BY <1>5, <1>r, <2>1, RowType DEF StatNetwork, ReadNetwork, Row
  <2> QED BY <1>5, <1>4, <1>g, <1>r, <1>w, <2>2 DEF StatNetwork, ReadNetwork
<1>6. CASE FindLayer
  <2> DEFINE owner == proc[refs[i].pid]
             r == [row EXCEPT !.upper = owner]
  <2>1. pc = "layer" /\ (Finish(row) \/ (/\ owner \in DOMAIN Layer
                                         /\ Continue("layerRoot", r)))
    BY <1>6 DEF FindLayer
  <2>2. ASSUME owner \in DOMAIN Layer, Continue("layerRoot", r)
        PROVE  TypeInv'
    <3>1. owner \in Ids
      BY <2>2, ContainerAssumption
    <3>2. r \in Row /\ r.id = row.id /\ r.files = row.files /\ r.upper = owner
      BY <1>r, <2>1, <3>1, RowType DEF Row
    <3> HIDE DEF owner, r
    <3> QED BY <1>g, <1>r, <1>w, <2>1, <2>2, <3>2
  <2> QED BY <1>e, <1>r, <2>1, <2>2
<1>7. CASE LayerCancelled
  BY <1>7, <1>x DEF LayerCancelled
<1>8. CASE LayerUnreadable
  BY <1>8, <1>e, <1>r DEF LayerUnreadable
<1>9. CASE OpenLayer
  <2>1. row.upper \in DOMAIN Layer /\ Layer[row.upper] \subseteq Files
    BY <1>9, ContainerAssumption DEF PhaseInv, OpenLayer
  <2>2. /\ pc = "layerRoot" /\ pc' = "layerWalk"
        /\ left' = Layer[row.upper] /\ counted' = {} /\ seen' = {}
        /\ UNCHANGED <<req, todo, refs, named, i, found, deadline, begun, start,
                       wake, usage1, usage2, elapsed, row, out, err>>
    BY <1>9 DEF OpenLayer
  <2>3. TypeOK'
    BY <1>c, <2>1, <2>2
  <2>4. PhaseInv'
    BY <1>f, <2>1, <2>2 DEF PhaseInv
  <2>5. TimeInv'
    BY <1>c, <2>2 DEF TimeInv
  <2> QED BY <2>3, <2>4, <2>5
<1>10. CASE LayerEntry
  <2>1. PICK f \in left :
          /\ left' = left \ {f}
          /\ counted' \subseteq counted \cup {f}
          /\ seen' \subseteq seen \cup {InodeOf[f]}
    BY <1>10 DEF LayerEntry, CountFile, SkipFile
  <2>2. /\ pc = "layerWalk"
        /\ UNCHANGED <<req, pc, todo, refs, named, i, found, deadline, begun, start,
                       wake, usage1, usage2, elapsed, row, out, err>>
    BY <1>10 DEF LayerEntry, CountFile, SkipFile
  <2>3. f \in Files /\ InodeOf[f] \in Nat
    BY ContainerAssumption
  <2>4. TypeOK'
    BY <1>c, <2>1, <2>2, <2>3
  <2>5. PhaseInv'
    BY <1>f, <2>2 DEF PhaseInv
  <2>6. TimeInv'
    BY <1>c, <2>2 DEF TimeInv
  <2> QED BY <2>4, <2>5, <2>6
<1>12. CASE LayerDone
  <2>1. Cardinality(counted) \in Nat
    BY ContainerAssumption, FS_Subset, FS_CardinalityType
  <2>2. [row EXCEPT !.files = Cardinality(counted)] \in Row /\ pc \in Filling
    BY <1>12, <1>r, <2>1, RowType DEF LayerDone
  <2> QED BY <1>12, <1>e, <2>2 DEF LayerDone
<1>11. CASE Return
  <2>1. CASE Fail("stopped")
    BY <1>x, <2>1
  <2>2. CASE ~ Fail("stopped")
    BY <1>11, <1>c, <1>f, <2>2 DEF Return, PhaseInv, TimeInv
  <2> QED BY <2>1, <2>2
<1> QED BY <1>1, <1>2, <1>3, <1>5, <1>6, <1>7, <1>8, <1>9, <1>10, <1>11, <1>12
        DEF ReportStep

-----------------------------------------------------------------------------
\* A step of the call is one of its three parts'.
LEMMA StepParts ==
  CallStep \/ RuntimeAnswers =>
    \/ Begin \/ Visit \/ EndWalk \/ MetadataExpires \/ RuntimeAnswers \/ Match
    \/ SampleStat \/ SampleRead \/ EndSample1 \/ SleepElapses
         \/ SleepCancelled \/ EndSample2
    \/ ReportStep
BY Zenon DEF CallStep, ReportStep

\* The types are inductive.
LEMMA TypesStay == TypeInv /\ [Next]_vars => TypeInv'
<1> SUFFICES ASSUME TypeInv, [Next]_vars PROVE TypeInv'
  OBVIOUS
<1>1. CASE Step
  <2>1. UNCHANGED envVars
    BY <1>1, Zenon DEF Step
  <2>2. CallStep \/ RuntimeAnswers
    BY <1>1, Zenon DEF Step
  <2> QED BY ONLY TypeInv, <2>1, <2>2, StepParts, FindingTypes, WindowTypes, ReportTypes
<1>2. CASE EnvStep
  <2>1. /\ UNCHANGED callVars /\ CgroupTypeOK' /\ cancelled' \in BOOLEAN
        /\ linked' \subseteq Files /\ touched' \subseteq Files
        /\ clock <= clock'
    BY <1>2, EnvTypes DEF TypeInv
  <2>2. clock \in Nat /\ clock' \in Nat /\ begun \in Nat /\ start \in Nat
    BY <2>1 DEF TypeInv, TypeOK, CgroupTypeOK
  <2>3. TypeOK'
    BY <2>1 DEF TypeInv, TypeOK, callVars
  <2>4. PhaseInv'
    BY <2>1 DEF TypeInv, PhaseInv, Unwalked, callVars
  <2>5. TimeInv'
    BY <2>1, <2>2 DEF TypeInv, TimeInv, callVars
  <2> QED BY <2>3, <2>4, <2>5 DEF TypeInv
<1> QED BY <1>1, <1>2, StepSplit

\* The types hold at first.
LEMMA TypesInit == Init => TypeInv
<1> SUFFICES ASSUME Init PROVE TypeInv
  OBVIOUS
<1>1. CgroupTypeOK
  BY DEF Init, CgroupInit, CgroupTypeOK, Controllers
<1>2. cancelled \in BOOLEAN /\ found \in BOOLEAN
  BY ONLY Init, Zenon DEF Init
<1>3. TypeOK
  BY <1>1, <1>2 DEF Init, TypeOK, Locations, Sampling, Layering, Final, Errors
<1> QED BY <1>3 DEF Init, TypeInv, PhaseInv, TimeInv, Unwalked, Filling, Reporting,
                   Finding, Sampling, Final

\* Every variable keeps its type whatever containers, the runtime and the context do
\* between two reads; above all, applyContainerCPUSample never reports a negative
\* number of cores.
THEOREM TypeCorrect == Spec => []TypeOK
<1>1. TypeInv => TypeOK
  BY DEF TypeInv
<1> QED BY TypesInit, TypesStay, <1>1, PTL DEF Spec

-----------------------------------------------------------------------------
(* Layers.                                                                 *)

\* What a step adds to the result.
LEMMA Reported ==
  ASSUME TypeInv, [Next]_vars, out' # out
  PROVE  /\ pc \in Filling /\ pc' = "memory"
         /\ \E r \in Row :
              /\ Finish(r)
              /\ \/ /\ pc = "network" /\ row.accessible
                    /\ r = [row EXCEPT !.net = proc[refs[i].pid]]
                 \/ /\ pc = "network" /\ ~row.accessible
                    /\ proc[refs[i].pid] = None /\ r = row
                 \/ pc \in Layering /\ r = row
                 \/ /\ pc = "layerWalk" /\ left = {}
                    /\ r = [row EXCEPT !.files = Cardinality(counted)]
<1>1. CallStep /\ UNCHANGED envVars
  BY StepSplit, EnvTypes DEF Step, TypeInv, callVars, RuntimeAnswers, AfterMetadata
<1>2. ReportStep
  <2>1. CASE Begin \/ Visit \/ EndWalk \/ MetadataExpires \/ RuntimeAnswers \/ Match
    BY <2>1, VisitEffect DEF Begin, EndWalk, MetadataExpires, RuntimeAnswers,
         AfterMetadata, Match, Fail
  <2>2. CASE SampleStat \/ SampleRead \/ EndSample1 \/ SleepElapses
               \/ SleepCancelled \/ EndSample2
    BY <2>2 DEF SampleStat, SampleRead, EndSample1, SleepElapses, SleepCancelled,
         EndSample2, Sampled, Fail
  <2> QED BY <1>1, <2>1, <2>2, StepParts
<1>3. CASE ReadMemory \/ StatCounters \/ ReadCounters \/ LayerCancelled
             \/ OpenLayer \/ LayerEntry \/ Return
  BY <1>3 DEF ReadMemory, StatCounters, ReadCounters, LayerCancelled, OpenLayer,
       LayerEntry, CountFile, SkipFile, Return, Drop, Continue, Fail
<1>4. CASE StatNetwork
  <2>1. /\ pc = "network" /\ ~row.accessible /\ proc[refs[i].pid] = None
        /\ Finish(row)
    BY <1>4, Zenon DEF StatNetwork, AfterNetwork, Continue
  <2>2. row \in Row
    BY <2>1 DEF TypeInv, PhaseInv, Filling
  <2> QED BY <2>1, <2>2 DEF Finish, Filling
<1>5. CASE ReadNetwork
  <2> DEFINE r == [row EXCEPT !.net = proc[refs[i].pid]]
  <2>1. pc = "network" /\ row.accessible /\ Finish(r)
    BY <1>5, Zenon DEF ReadNetwork, AfterNetwork, Continue
  <2>2. row \in Row /\ i \in 1..Len(refs)
    BY <2>1 DEF TypeInv, TypeOK, PhaseInv, Filling
  <2>3. refs \in Seq(Ref) /\ proc \in [Pids -> Owners]
    BY DEF TypeInv, TypeOK, CgroupTypeOK
  <2>4. refs[i] \in Ref
    BY ONLY <2>2, <2>3
  <2>5. proc[refs[i].pid] \in Owners
    BY ONLY <2>3, <2>4 DEF Ref
  <2>6. r \in Row
    BY <2>2, <2>5, RowType
  <2> QED BY <2>1, <2>6 DEF Finish, Filling
<1>6. CASE FindLayer
  <2>1. pc = "layer" /\ Finish(row)
    BY <1>6, Zenon DEF FindLayer, Continue
  <2>2. row \in Row
    BY <2>1 DEF TypeInv, PhaseInv, Filling
  <2> QED BY <2>1, <2>2 DEF Finish, Filling, Layering
<1>7. CASE LayerUnreadable
  <2>1. pc = "layerRoot" /\ Finish(row) /\ row \in Row
    BY <1>7 DEF LayerUnreadable, TypeInv, PhaseInv, Filling
  <2> QED BY <2>1 DEF Finish, Filling, Layering
<1>8. CASE LayerDone
  <2> DEFINE r == [row EXCEPT !.files = Cardinality(counted)]
  <2>1. pc = "layerWalk" /\ left = {} /\ Finish(r) /\ row \in Row
    BY <1>8 DEF LayerDone, TypeInv, PhaseInv, Filling
  <2>2. Cardinality(counted) \in Nat
    BY ContainerAssumption, FS_Subset, FS_CardinalityType DEF TypeInv, TypeOK
  <2>3. r \in Row
    BY <2>1, <2>2, RowType
  <2> QED BY <2>1, <2>3 DEF Finish, Filling
<1> QED BY <1>2, <1>3, <1>4, <1>5, <1>6, <1>7, <1>8 DEF ReportStep

\* The names of a layer that were there and could be read all along, and the files
\* behind them.
Kept(names)   == (names \cap linked) \ (touched \cup Sealed)
Inodes(names) == {InodeOf[f] : f \in Kept(names)}

\* A count is right for a layer when it is no less than the files kept and exceeds them
\* by no more than one for each name touched.
Right(files, names) ==
  /\ Cardinality(Inodes(names)) <= files
  /\ files <= Cardinality(Inodes(names)) + Cardinality(names \cap touched)

\* What is reported right is reported of a layer.
LayersInv ==
  \A n \in DOMAIN out : out[n].files # None =>
    out[n].upper \in DOMAIN Layer /\ Right(out[n].files, Layer[out[n].upper])

\* The walk so far: each file kept and gone by is counted by one of its names, two names
\* counted that were kept are of two files, and of a file that has another name still
\* the inode is known.
WalkInv ==
  pc = "layerWalk" =>
    LET names == Layer[row.upper] IN
    /\ left \subseteq names /\ counted \subseteq names /\ counted \cap left = {}
    /\ \A f \in Kept(names) \ left : \E g \in counted : InodeOf[g] = InodeOf[f]
    /\ \A x \in seen : \E g \in counted : InodeOf[g] = x
    /\ counted \ touched \subseteq Kept(names)
    /\ \A f \in counted \ touched : \A g \in linked \ touched :
         InodeOf[g] = InodeOf[f] /\ g # f => InodeOf[f] \in seen
    /\ \A f, g \in counted \ touched : InodeOf[f] = InodeOf[g] => f = g

\* What can be said of the names of a layer and the files behind them.
LEMMA NamesType ==
  ASSUME NEW names \in SUBSET Files
  PROVE  /\ IsFiniteSet(names)
         /\ \A S \in SUBSET names : IsFiniteSet(S) /\ Cardinality(S) \in Nat
         /\ \A S \in SUBSET Kept(names) :
              LET inodes == {InodeOf[f] : f \in S}
              IN IsFiniteSet(inodes) /\ Cardinality(inodes) \in Nat
<1>1. /\ IsFiniteSet(names)
      /\ \A S \in SUBSET names : IsFiniteSet(S) /\ Cardinality(S) \in Nat
  BY ContainerAssumption, FS_Subset, FS_CardinalityType
<1>2. ASSUME NEW S \in SUBSET Kept(names)
      PROVE  LET inodes == {InodeOf[f] : f \in S}
             IN IsFiniteSet(inodes) /\ Cardinality(inodes) \in Nat
  <2> DEFINE inodes == {InodeOf[f] : f \in S}
             inode  == [f \in S |-> InodeOf[f]]
  <2>1. inode \in Surjection(S, inodes)
    BY DEF Surjection
  <2>2. IsFiniteSet(S)
    BY <1>1 DEF Kept
  <2> HIDE DEF inodes, inode
  <2>3. IsFiniteSet(inodes)
    BY <2>1, <2>2, FS_Surjection
  <2>4. Cardinality(inodes) \in Nat
    BY <2>3, FS_CardinalityType
  <2> QED BY <2>3, <2>4 DEF inodes
<1> QED BY <1>1, <1>2

\* Once everything was gone by, the count is right.
LEMMA WalkedRight ==
  ASSUME NEW names \in SUBSET Files, NEW C \in SUBSET names,
         \A f \in Kept(names) : \E g \in C : InodeOf[g] = InodeOf[f],
         C \ touched \subseteq Kept(names),
         \A f, g \in C \ touched : InodeOf[f] = InodeOf[g] => f = g
  PROVE  Right(Cardinality(C), names)
<1> DEFINE I == Inodes(names)
           D == {f \in C : InodeOf[f] \in I}
           U == C \ touched
           T == C \cap touched
           onto == [f \in D |-> InodeOf[f]]
           into == [f \in U |-> InodeOf[f]]
<1>1. /\ IsFiniteSet(I) /\ Cardinality(I) \in Nat
      /\ IsFiniteSet(C) /\ Cardinality(C) \in Nat
      /\ IsFiniteSet(D) /\ Cardinality(D) \in Nat
      /\ IsFiniteSet(U) /\ Cardinality(U) \in Nat
      /\ IsFiniteSet(T) /\ Cardinality(T) \in Nat
      /\ IsFiniteSet(names \cap touched) /\ Cardinality(names \cap touched) \in Nat
  BY NamesType DEF Inodes
<1>2. onto \in Surjection(D, I)
  BY DEF Surjection, Inodes
<1>3. into \in Injection(U, I)
  BY DEF Injection, IsInjective, Inodes
<1>4. D \subseteq C /\ T \subseteq names \cap touched /\ U \cup T = C /\ U \cap T = {}
  OBVIOUS
<1> HIDE DEF I, D, U, T, onto, into
<1>5. Cardinality(I) <= Cardinality(D)
  BY <1>1, <1>2, FS_Surjection
<1>6. Cardinality(D) <= Cardinality(C)
  BY <1>1, <1>4, FS_Subset
<1>7. Cardinality(U) <= Cardinality(I)
  BY <1>1, <1>3, FS_Injection
<1>8. Cardinality(T) <= Cardinality(names \cap touched)
  BY <1>1, <1>4, FS_Subset
<1>9. Cardinality(C) = Cardinality(U) + Cardinality(T)
  <2>1. Cardinality(U \cup T) = Cardinality(U) + Cardinality(T) - Cardinality(U \cap T)
    BY <1>1, FS_Union
  <2>2. Cardinality({}) = 0
    BY FS_EmptySet
  <2>3. U \cap T = {} /\ U \cup T = C
    BY <1>4
  <2>4. Cardinality(C) = Cardinality(U) + Cardinality(T) - Cardinality({})
    BY ONLY <2>1, <2>3
  <2> QED BY ONLY <1>1, <2>2, <2>4
<1> QED BY <1>1, <1>5, <1>6, <1>7, <1>8, <1>9 DEF Right, I

\* A count that is right stays so when a name is made or removed.
LEMMA TouchedRight ==
  ASSUME NEW names \in SUBSET Files, NEW files \in Nat, Right(files, names),
         NEW f, Touch(f)
  PROVE  Right(files, names)'
<1> DEFINE I == Inodes(names)
           J == Inodes(names)'
           S == names \cap touched
           T == (names \cap touched)'
<1>1. /\ linked' = IF f \in linked THEN linked \ {f} ELSE linked \cup {f}
      /\ touched' = touched \cup {f}
  BY DEF Touch
<1>2. Kept(names)' = Kept(names) \ {f}
  BY <1>1 DEF Kept
<1>3. J = {InodeOf[g] : g \in Kept(names) \ {f}}
  BY <1>2 DEF Inodes
<1>4. /\ IsFiniteSet(I) /\ Cardinality(I) \in Nat
      /\ IsFiniteSet(J) /\ Cardinality(J) \in Nat
      /\ IsFiniteSet(S) /\ Cardinality(S) \in Nat
      /\ IsFiniteSet(T) /\ Cardinality(T) \in Nat
  <2>1. IsFiniteSet(J) /\ Cardinality(J) \in Nat
    BY <1>3, NamesType
  <2> QED BY <2>1, NamesType DEF Inodes
<1>5. J \subseteq I /\ S \subseteq T
  BY <1>1, <1>3 DEF Inodes
<1>6. f \notin Kept(names) => I = J
  BY <1>3 DEF Inodes
<1>7. f \in Kept(names) => /\ I \subseteq J \cup {InodeOf[f]}
                           /\ T = S \cup {f} /\ f \notin S
  BY <1>1, <1>3 DEF Inodes, Kept
<1> HIDE DEF I, J, S, T
<1>8. Cardinality(J) <= Cardinality(I) /\ Cardinality(S) <= Cardinality(T)
  BY <1>4, <1>5, FS_Subset
<1>9. Cardinality(I) + Cardinality(S) <= Cardinality(J) + Cardinality(T)
  <2>1. CASE f \notin Kept(names)
    BY <1>4, <1>6, <1>8, <2>1
  <2>2. CASE f \in Kept(names)
    <3>1. Cardinality(T) = Cardinality(S) + 1
      BY <1>4, <1>7, <2>2, FS_AddElement
    <3>2. /\ IsFiniteSet(J \cup {InodeOf[f]})
          /\ Cardinality(J \cup {InodeOf[f]}) \in Nat
          /\ Cardinality(J \cup {InodeOf[f]}) <= Cardinality(J) + 1
      <4> DEFINE x == InodeOf[f]
      <4>1. /\ IsFiniteSet(J \cup {x})
            /\ Cardinality(J \cup {x}) = IF x \in J THEN Cardinality(J)
                                         ELSE Cardinality(J) + 1
        BY <1>4, FS_AddElement
      <4> HIDE DEF x
      <4>2. /\ Cardinality(J \cup {x}) <= Cardinality(J) + 1
            /\ Cardinality(J \cup {x}) \in Nat
        BY ONLY <1>4, <4>1
      <4> QED BY <4>1, <4>2 DEF x
    <3>3. Cardinality(I) <= Cardinality(J \cup {InodeOf[f]})
      BY <1>4, <1>7, <2>2, <3>2, FS_Subset
    <3> QED BY <1>4, <3>1, <3>2, <3>3
  <2> QED BY <2>1, <2>2
<1>10. Cardinality(I) <= files /\ files <= Cardinality(I) + Cardinality(S)
  BY DEF Right, I, S
<1>11. Cardinality(J) <= files /\ files <= Cardinality(J) + Cardinality(T)
  BY <1>4, <1>8, <1>9, <1>10
<1> QED BY <1>11 DEF Right, J, T

\* The walk goes on as it should.
LEMMA WalkStays == TypeInv /\ WalkInv /\ [Next]_vars => WalkInv'
<1> SUFFICES ASSUME TypeInv, WalkInv, [Next]_vars, pc' = "layerWalk" PROVE WalkInv'
  BY DEF WalkInv
<1>i. InodeOf \in [Files -> Nat] /\ linked \subseteq Files
  BY ContainerAssumption DEF TypeInv, TypeOK
<1>1. CASE LayerEntry /\ UNCHANGED envVars
  <2> DEFINE names == Layer[row.upper]
  <2>1. PICK f \in left : CountFile(f) \/ SkipFile(f)
    BY <1>1 DEF LayerEntry
  <2>2. /\ pc = "layerWalk" /\ left' = left \ {f}
        /\ UNCHANGED <<row, linked, touched>>
    BY <1>1, <2>1 DEF CountFile, SkipFile
  <2>3. Kept(names)' = Kept(names) /\ names' = names
    BY <2>2 DEF Kept
  <2>4. /\ left \subseteq names /\ counted \subseteq names /\ counted \cap left = {}
        /\ \A g \in Kept(names) \ left : \E h \in counted : InodeOf[h] = InodeOf[g]
        /\ \A x \in seen : \E h \in counted : InodeOf[h] = x
        /\ counted \ touched \subseteq Kept(names)
        /\ \A g \in counted \ touched : \A h \in linked \ touched :
             InodeOf[h] = InodeOf[g] /\ h # g => InodeOf[g] \in seen
        /\ \A g, h \in counted \ touched : InodeOf[g] = InodeOf[h] => g = h
    BY <2>2 DEF WalkInv
  <2> HIDE DEF names
  <2>5. CASE SkipFile(f)
    <3>1. counted' = counted /\ seen' = seen /\ f \notin Kept(names)
      BY <2>5 DEF SkipFile, Kept
    <3> QED BY <2>2, <2>3, <2>4, <3>1 DEF WalkInv, names
  <2>6. CASE CountFile(f)
    <3>1. f \in linked \ Sealed
      BY <2>6 DEF CountFile
    <3>2. \/ /\ InodeOf[f] \in seen /\ counted' = counted /\ seen' = seen
          \/ /\ InodeOf[f] \notin seen /\ counted' = counted \cup {f}
             /\ seen' = seen \cup {InodeOf[f]}
          \/ /\ \A g \in linked \ {f} : InodeOf[g] # InodeOf[f]
             /\ counted' = counted \cup {f} /\ seen' = seen
      BY <2>6 DEF CountFile
    <3>3. f \notin touched => f \in Kept(names)
      BY <2>4, <3>1 DEF Kept
    <3>4. \A g \in counted \ touched : g \in linked /\ g # f
      BY <2>4 DEF Kept
    <3>5. /\ left' \subseteq names /\ counted' \subseteq names
          /\ counted' \cap left' = {}
          /\ counted' \ touched \subseteq Kept(names)
      BY <2>2, <2>4, <3>2, <3>3
    <3>6. \A g \in Kept(names) \ left' : \E h \in counted' : InodeOf[h] = InodeOf[g]
      BY <2>2, <2>4, <3>2
    <3>7. \A x \in seen' : \E h \in counted' : InodeOf[h] = x
      BY <2>4, <3>2
    <3>8. \A g \in counted' \ touched : \A h \in linked \ touched :
            InodeOf[h] = InodeOf[g] /\ h # g => InodeOf[g] \in seen'
      BY <2>4, <3>2
    <3>9. \A g, h \in counted' \ touched : InodeOf[g] = InodeOf[h] => g = h
      BY <2>4, <3>1, <3>2, <3>4
    <3> QED BY <2>2, <2>3, <3>5, <3>6, <3>7, <3>8, <3>9 DEF WalkInv, names
  <2> QED BY <2>1, <2>5, <2>6
<1>2. CASE OpenLayer /\ UNCHANGED envVars
  BY <1>2 DEF OpenLayer, WalkInv, Kept
<1>3. CASE Write
  <2>1. PICK f \in Files \ Sealed : Touch(f)
    BY <1>3 DEF Write
  <2>2. /\ pc = "layerWalk" /\ UNCHANGED <<row, left, counted, seen>>
        /\ linked' = IF f \in linked THEN linked \ {f} ELSE linked \cup {f}
        /\ touched' = touched \cup {f}
    BY <2>1 DEF Touch, callVars
  <2> DEFINE names == Layer[row.upper]
  <2>3. Kept(names)' = Kept(names) \ {f} /\ names' = names
    BY <2>2 DEF Kept
  <2>4. /\ left \subseteq names /\ counted \subseteq names /\ counted \cap left = {}
        /\ \A g \in Kept(names) \ left : \E h \in counted : InodeOf[h] = InodeOf[g]
        /\ \A x \in seen : \E h \in counted : InodeOf[h] = x
        /\ counted \ touched \subseteq Kept(names)
        /\ \A g \in counted \ touched : \A h \in linked \ touched :
             InodeOf[h] = InodeOf[g] /\ h # g => InodeOf[g] \in seen
        /\ \A g, h \in counted \ touched : InodeOf[g] = InodeOf[h] => g = h
    BY <2>2 DEF WalkInv
  <2>5. linked' \ touched' \subseteq linked \ touched
    BY <2>2
  <2> HIDE DEF names
  <2> QED BY <2>2, <2>3, <2>4, <2>5 DEF WalkInv, names
<1>4. CASE Cancel \/ Time \/ Lifecycle \/ UNCHANGED vars
  <2>1. UNCHANGED <<callVars, linked, touched>>
    BY <1>4 DEF Cancel, Time, Lifecycle, vars
  <2> QED BY <2>1 DEF WalkInv, Kept, callVars
<1>5. CASE Step /\ ~ OpenLayer /\ ~ LayerEntry
  <2>1. pc' # "layerWalk"
    <3>1. CASE Begin \/ Visit \/ EndWalk \/ MetadataExpires \/ RuntimeAnswers \/ Match
      BY <3>1, VisitEffect DEF Begin, EndWalk, MetadataExpires, RuntimeAnswers,
           AfterMetadata, Match, Fail
    <3>2. CASE SampleStat \/ SampleRead \/ EndSample1 \/ SleepElapses
                 \/ SleepCancelled \/ EndSample2
      BY <3>2 DEF SampleStat, SampleRead, EndSample1, SleepElapses, SleepCancelled,
           EndSample2, Sampled, Fail
    <3>3. CASE ReportStep
      BY <1>5, <3>3 DEF ReportStep, ReadMemory, StatCounters, ReadCounters,
           StatNetwork, ReadNetwork, AfterNetwork, FindLayer, LayerCancelled,
           LayerUnreadable, LayerDone, Return, Drop, Continue, Finish, Fail
    <3> QED BY <1>5, <3>1, <3>2, <3>3, StepParts DEF Step
  <2> QED BY <2>1
<1> QED BY <1>1, <1>2, <1>3, <1>4, <1>5, StepSplit DEF Step, EnvStep

\* The layers reported stay right, step by step.
LEMMA LayersStay == TypeInv /\ WalkInv /\ LayersInv /\ [Next]_vars => LayersInv'
<1> SUFFICES ASSUME TypeInv, WalkInv, LayersInv, [Next]_vars PROVE LayersInv'
  OBVIOUS
<1>n. \A u \in DOMAIN Layer : Layer[u] \in SUBSET Files
  BY ContainerAssumption
<1>r. \A n \in DOMAIN out : out[n] \in Row
  BY DEF TypeInv, TypeOK
<1>1. CASE Write
  <2>1. PICK f \in Files \ Sealed : Touch(f)
    BY <1>1 DEF Write
  <2>2. out' = out
    BY <2>1 DEF Touch, callVars
  <2>3. ASSUME NEW n \in DOMAIN out, out[n].files # None
        PROVE  out[n].upper \in DOMAIN Layer /\ Right(out[n].files, Layer[out[n].upper])'
    <3>1. out[n].upper \in DOMAIN Layer /\ Right(out[n].files, Layer[out[n].upper])
      BY <2>3 DEF LayersInv
    <3>2. out[n].files \in Nat
      BY <1>r, <2>3 DEF Row
    <3> DEFINE files == out[n].files
               names == Layer[out[n].upper]
    <3>3. files \in Nat /\ names \in SUBSET Files /\ Right(files, names)
      BY <1>n, <3>1, <3>2
    <3>4. files' = files /\ names' = names
      BY <2>2
    <3>5. \A k \in Nat, N \in SUBSET Files : Right(k, N) => Right(k, N)'
      BY <2>1, TouchedRight
    <3> QED BY <3>1, <3>3, <3>4, <3>5 DEF Right, Inodes, Kept
  <2> QED BY <2>2, <2>3 DEF LayersInv
<1>2. CASE ~ Write
  <2>1. UNCHANGED <<linked, touched>>
    BY <1>2, StepSplit DEF Step, EnvStep, Cancel, Time, Lifecycle, vars
  <2>2. \A k, N : Right(k, N)' <=> Right(k, N)
    BY <2>1 DEF Right, Inodes, Kept
  <2>3. CASE out' = out
    BY <2>2, <2>3 DEF LayersInv
  <2>4. CASE out' # out
    <3>1. PICK r \in Row :
            /\ pc \in Filling /\ Finish(r)
            /\ r.files # None => pc = "layerWalk" /\ left = {}
            /\ r.files # None => r = [row EXCEPT !.files = Cardinality(counted)]
      <4>1. pc \in Filling => row \in Row /\ row.files = None
        BY DEF TypeInv, PhaseInv
      <4>2. pc \in Filling => [row EXCEPT !.net = proc[refs[i].pid]].files = None
        BY <4>1 DEF Row
      <4> QED BY <2>4, <4>1, <4>2, Reported
    <3> DEFINE q == [r EXCEPT !.cpu = CoresUsed(i)]
    <3>2. q.files # None =>
            q.upper \in DOMAIN Layer /\ Right(q.files, Layer[q.upper])
      <4> SUFFICES ASSUME r.files # None
                   PROVE  /\ q.files = Cardinality(counted) /\ q.upper = row.upper
                          /\ row.upper \in DOMAIN Layer
                          /\ Right(Cardinality(counted), Layer[row.upper])
        BY DEF Row
      <4>1. row \in Row /\ row.upper \in DOMAIN Layer
        BY <3>1 DEF TypeInv, PhaseInv
      <4>2. q.files = Cardinality(counted) /\ q.upper = row.upper
        BY <3>1, <4>1 DEF Row
      <4>3. Right(Cardinality(counted), Layer[row.upper])
        BY <1>n, <3>1, <4>1, WalkedRight DEF WalkInv
      <4> QED BY <4>1, <4>2, <4>3
    <3>3. q \in Row
      <4>1. i <= Len(refs) /\ pc \in Reporting
        BY <3>1 DEF TypeInv, PhaseInv, Reporting
      <4> QED BY <4>1, CoresUsedType, RowType
    <3>4. out \in Seq(Row) /\ out' = Append(out, q)
      BY <3>1 DEF Finish, TypeInv, TypeOK
    <3> HIDE DEF q
    <3>5. /\ DOMAIN out' = DOMAIN out \cup {Len(out) + 1}
          /\ \A n \in DOMAIN out : out'[n] = out[n]
          /\ out'[Len(out) + 1] = q
      BY <3>3, <3>4
    <3> QED BY <2>2, <3>2, <3>5 DEF LayersInv
  <2> QED BY <2>3, <2>4
<1> QED BY <1>1, <1>2

\* A layer reported as measured was gone through to the end: the files that were there
\* and could be read all along are counted once each, and besides them at most one for
\* each name made or removed during the walk, whatever the context did (layerSize).
THEOREM LayerCountedSound == Spec => []LayerCounted
<1>1. Init => WalkInv /\ LayersInv
  BY DEF Init, WalkInv, LayersInv
<1>2. LayersInv => LayerCounted
  BY DEF LayersInv, LayerCounted, Right, Inodes, Kept
<1> QED BY TypesInit, TypesStay, WalkStays, LayersStay, <1>1, <1>2, PTL DEF Spec

-----------------------------------------------------------------------------
(* Containers that stop.                                                   *)

\* What a container found is.
LEMMA RefsType ==
  ASSUME refs \in Seq(Ref)
  PROVE  /\ Len(refs) \in Nat
         /\ \A n \in 1..Len(refs) : refs[n].id \in Ids /\ refs[n].pid \in Pids
<1>1. \A n \in 1..Len(refs) : refs[n] \in Ref
  OBVIOUS
<1> QED BY <1>1 DEF Ref

\* The host keeps its cgroups in order: a cgroup with a process in it, or around one
\* that exists, has all its directories.
HostInv ==
  /\ \A p \in Pids : proc[p] \in Ids => dirs[proc[p]] = Controllers
  /\ \A id \in Ids :
       Inside[id] \in Ids /\ dirs[id] # {} => dirs[Inside[id]] = Controllers

\* A container that was not disturbed still has its directories, and after its turn is
\* among those reported; a counter is stat'ed and read in two steps under v1 alone.
StopInv ==
  /\ version = "none" => pc \in {"start", "failed"}
  /\ found = TRUE \/ pc = "counters" => version = "v1"
  /\ pc = "start" => refs = <<>>
  /\ \A n \in 1..Len(refs) :
       refs[n].id \notin disturbed => dirs[refs[n].id] = Controllers
  /\ pc \in Sampling \cup Reporting /\ req.query # None => Len(refs) = 1
  /\ pc \in Reporting /\ out = <<>> =>
       \A n \in 1..Len(refs) : n < i => refs[n].id \in disturbed

\* A cgroup with a process in it or below has all its directories.
LEMMA BusyThere ==
  ASSUME TypeOK, HostInv, NEW id \in Ids, Busy(Subtree(id)) # {}
  PROVE  dirs[id] = Controllers
<1>1. PICK p \in Pids : proc[p] \in Subtree(id)
  BY DEF Busy
<1>2. proc[p] = id \/ (proc[p] \in Ids /\ Inside[proc[p]] = id)
  BY <1>1 DEF Subtree
<1>3. Controllers # {}
  BY DEF Controllers
<1> QED BY <1>2, <1>3 DEF HostInv

\* What containers and processes do keeps the host in order, and removes the directories
\* of none that is not disturbed.
LEMMA HostStays ==
  ASSUME TypeOK, HostInv, [Next]_vars
  PROVE  /\ HostInv' /\ disturbed \subseteq disturbed'
         /\ \A id \in Ids \ disturbed' : dirs'[id] = dirs[id]
<1> DEFINE Held == /\ HostInv' /\ disturbed \subseteq disturbed'
                    /\ \A id \in Ids \ disturbed' : dirs'[id] = dirs[id]
<1>0. /\ dirs \in [Ids -> SUBSET Controllers] /\ proc \in [Pids -> Owners]
      /\ Controllers # {}
  BY DEF TypeOK, CgroupTypeOK, Controllers
<1>1. CASE UNCHANGED <<dirs, proc, disturbed>>
  BY <1>1 DEF HostInv
<1>2. ASSUME NEW id \in Ids, Create(id) PROVE Held
  BY <1>0, <1>2, CgroupAssumption DEF Create, HostInv
<1>3. ASSUME NEW id \in Ids, NEW C \in SUBSET Controllers, Rmdir(id, C) PROVE Held
  <2>1. /\ dirs' = [dirs EXCEPT ![id] = @ \ C] /\ disturbed' = disturbed \cup {id}
        /\ proc' = proc
        /\ \A p \in Pids : proc[p] # id
        /\ \A j \in Ids : Inside[j] = id /\ j # id => dirs[j] = {}
    BY <1>3 DEF Rmdir, Busy, Subtree
  <2>2. Inside[id] # id
    BY CgroupAssumption
  <2>3. \A p \in Pids : proc'[p] \in Ids => dirs'[proc'[p]] = Controllers
    BY <1>0, <2>1 DEF HostInv
  <2>4. \A j \in Ids :
          Inside[j] \in Ids /\ dirs'[j] # {} => dirs'[Inside[j]] = Controllers
    BY <1>0, <2>1, <2>2 DEF HostInv
  <2>5. \A j \in Ids \ disturbed' : dirs'[j] = dirs[j]
    BY <1>0, <2>1
  <2> QED BY <2>1, <2>3, <2>4, <2>5 DEF HostInv
<1>4. ASSUME NEW p \in Pids, NEW owner \in Ids \cup {Host}, Enter(p, owner)
      PROVE  Held
  BY <1>0, <1>4, CgroupAssumption DEF Enter, HostInv
<1>5. ASSUME NEW p \in Pids, Leave(p) PROVE Held
  BY <1>0, <1>5, CgroupAssumption DEF Leave, HostInv
<1>6. CASE Step \/ Cancel \/ Time \/ Write \/ UNCHANGED vars
  BY <1>1, <1>6 DEF Step, Cancel, Time, Elapse, Write, Touch, vars, cgroupVars
<1>7. CASE Lifecycle
  BY <1>2, <1>3, <1>4, <1>5, <1>7 DEF Lifecycle, Churn
<1> QED BY <1>6, <1>7, StepSplit DEF EnvStep

\* Leaving a container out: its directories went, so it was disturbed.
LEMMA StopStays == TypeInv /\ HostInv /\ StopInv /\ [Next]_vars => StopInv'
<1> SUFFICES ASSUME TypeInv, HostInv, StopInv, [Next]_vars PROVE StopInv'
  OBVIOUS
<1> USE DEF Sampling, Reporting, Filling
<1>h. /\ disturbed \subseteq disturbed'
      /\ \A id \in Ids \ disturbed' : dirs'[id] = dirs[id]
  BY HostStays DEF TypeInv
<1>r. /\ refs \in Seq(Ref) /\ i \in Nat \ {0} /\ Len(refs) \in Nat
      /\ \A n \in 1..Len(refs) : refs[n].id \in Ids
  BY RefsType DEF TypeInv, TypeOK
<1>1. CASE EnvStep
  <2>1. UNCHANGED callVars /\ version' = version
    BY <1>1, EnvTypes DEF TypeInv
  <2> QED BY <1>h, <1>r, <2>1 DEF StopInv, callVars
<1>2. CASE Step
  <2>1. /\ UNCHANGED <<version, dirs, disturbed>>
        /\ CallStep \/ RuntimeAnswers
    BY <1>2, Zenon DEF Step, cgroupVars
  <2>v. version \in {"v1", "v2", "none"}
    BY CgroupAssumption DEF TypeInv, TypeOK, CgroupTypeOK
  <2>2. CASE Begin
    BY <2>1, <2>2 DEF Begin, Fail, StopInv
  <2>3. CASE Visit
    <3>1. PICK id \in todo :
            \/ refs' = refs
            \/ \E p \in Busy(Subtree(id)) :
                 refs' = Append(refs, [id |-> id, pid |-> p])
      BY <2>3, VisitEffect
    <3>2. pc = "walk" /\ pc' = "walk" /\ found' = found
      BY <2>3, VisitEffect
    <3>3. CASE refs' = refs
      BY <2>1, <3>2, <3>3 DEF StopInv
    <3>4. ASSUME NEW p \in Busy(Subtree(id)),
                 refs' = Append(refs, [id |-> id, pid |-> p])
          PROVE  StopInv'
      <4> DEFINE k == Len(refs) + 1
      <4>1. /\ 1..Len(refs') = 1..Len(refs) \cup {k}
            /\ \A n \in 1..Len(refs) : refs'[n] = refs[n]
            /\ refs'[k].id = id
        BY ONLY <1>r, <3>4, Longer
      <4>2. dirs[id] = Controllers
        BY <3>4, BusyThere DEF TypeInv, TypeOK
      <4> HIDE DEF k
      <4> QED BY <2>1, <3>2, <4>1, <4>2 DEF StopInv
    <3> QED BY <3>1, <3>3, <3>4
  <2>4. CASE EndWalk \/ MetadataExpires \/ RuntimeAnswers
    BY <2>1, <2>4 DEF EndWalk, MetadataExpires, RuntimeAnswers, AfterMetadata, StopInv
  <2>5. CASE Match
    <3>1. /\ pc = "match" /\ found' = found /\ req' = req
          /\ \/ pc' = "failed" /\ refs' = refs
             \/ pc' = "sample1" /\ req.query = None /\ refs' = refs
             \/ pc' = "sample1" /\ \E n \in 1..Len(refs) : refs' = <<refs[n]>>
      BY <2>5, MatchType DEF Match, Fail, TypeInv, TypeOK
    <3>2. CASE refs' = refs
      BY <2>1, <3>1, <3>2 DEF StopInv
    <3>3. ASSUME NEW n \in 1..Len(refs), refs' = <<refs[n]>>, pc' = "sample1"
          PROVE  StopInv'
      <4>1. Len(refs') = 1 /\ 1..Len(refs') = {1} /\ refs'[1] = refs[n]
        BY <3>3
      <4> QED BY <2>1, <3>1, <3>3, <4>1 DEF StopInv
    <3> QED BY <3>1, <3>2, <3>3
  <2>6. CASE SampleStat \/ SampleRead \/ EndSample1 \/ SleepElapses
               \/ SleepCancelled \/ EndSample2
    <3>1. /\ UNCHANGED <<req, refs>> /\ pc \in Sampling
          /\ \/ pc' \in Sampling \cup {"failed"}
             \/ pc' = "memory" /\ i' = 1
      BY <2>6 DEF SampleStat, SampleRead, EndSample1, SleepElapses, SleepCancelled,
           EndSample2, Sampled, Fail
    <3>2. found' = TRUE => version = "v1"
      BY <2>v, <2>6, <3>1 DEF SampleStat, SampleRead, EndSample1, SleepElapses,
           SleepCancelled, EndSample2, Sampled, Fail, StopInv
    <3> QED BY <1>r, <2>1, <3>1, <3>2 DEF StopInv
  <2>7. CASE ReportStep
    <3>1. /\ UNCHANGED <<req, refs>> /\ pc \in Reporting
          /\ pc' \in Reporting \cup {"failed"}
      BY <2>7 DEF ReportStep, ReadMemory, StatCounters, ReadCounters,
           StatNetwork, ReadNetwork, AfterNetwork, FindLayer, LayerCancelled,
           LayerUnreadable, OpenLayer, LayerEntry, CountFile, SkipFile, LayerDone,
           Return, Drop, Continue, Finish, Fail
    <3>2. found' = TRUE \/ pc' = "counters" => version = "v1"
      BY <2>v, <2>7, <3>1 DEF StopInv, ReportStep, ReadMemory, StatCounters,
           ReadCounters, StatNetwork, ReadNetwork, AfterNetwork, FindLayer,
           LayerCancelled, LayerUnreadable, OpenLayer, LayerEntry, CountFile, SkipFile,
           LayerDone, Return, Drop, Continue, Finish, Fail
    <3>3. out' = out =>
            i' = i \/ (i' = i + 1 /\ i <= Len(refs) /\ dirs[refs[i].id] # Controllers)
      <4>1. pc \in Filling => i <= Len(refs)
        BY DEF TypeInv, PhaseInv
      <4>2. \A r : out' = out => ~ Finish(r)
        BY DEF Finish, TypeInv, TypeOK
      <4> QED BY <2>7, <4>1, <4>2 DEF ReportStep, ReadMemory, StatCounters,
           ReadCounters, StatNetwork, ReadNetwork, AfterNetwork, FindLayer,
           LayerCancelled, LayerUnreadable, OpenLayer, LayerEntry, CountFile, SkipFile,
           LayerDone, Return, Drop, Continue, Fail, Controllers
    <3>4. out' = <<>> => out' = out
      <4>1. \A r : Finish(r) => out' # <<>>
        BY DEF Finish, TypeInv, TypeOK
      <4>2. out' # out => \E r : Finish(r)
        BY Reported
      <4> QED BY <4>1, <4>2
    <3>5. \A n \in 1..Len(refs) : n < i' /\ i' = i + 1 => n < i \/ n = i
      BY <1>r
    <3> QED BY <1>r, <2>1, <3>1, <3>2, <3>3, <3>4, <3>5 DEF StopInv
  <2> QED BY <2>1, <2>2, <2>3, <2>4, <2>5, <2>6, <2>7, StepParts
<1> QED BY <1>1, <1>2, StepSplit

\* A failure for a container's sake stays explained.
LEMMA CauseStays ==
  TypeInv /\ HostInv /\ StopInv /\ FailsOnlyIfDisturbed /\ [Next]_vars
    => FailsOnlyIfDisturbed'
<1> SUFFICES ASSUME TypeInv, HostInv, StopInv, FailsOnlyIfDisturbed, [Next]_vars
             PROVE  FailsOnlyIfDisturbed'
  OBVIOUS
<1> USE DEF Sampling, Reporting, Filling
<1>h. disturbed \subseteq disturbed'
  BY HostStays DEF TypeInv
<1>e. pc # "failed" => err = "none"
  BY DEF TypeInv, PhaseInv
<1>r. refs \in Seq(Ref) /\ i \in Nat \ {0} /\ Len(refs) \in Nat
  BY DEF TypeInv, TypeOK
<1>1. CASE EnvStep
  <2>1. UNCHANGED callVars /\ version' = version
    BY <1>1, EnvTypes DEF TypeInv
  <2> QED BY <1>h, <2>1 DEF FailsOnlyIfDisturbed, callVars
<1>2. CASE Step
  <2>1. UNCHANGED <<version, dirs, disturbed>> /\ (CallStep \/ RuntimeAnswers)
    BY <1>2, Zenon DEF Step, cgroupVars
  <2>2. CASE Begin \/ Visit \/ EndWalk \/ MetadataExpires \/ RuntimeAnswers \/ Match
    <3>1. pc # "failed" /\ err' \notin {"panic", "stopped"}
      BY <1>e, <2>2, VisitEffect DEF Begin, EndWalk, MetadataExpires, RuntimeAnswers,
           AfterMetadata, Match, Fail
    <3> QED BY <3>1 DEF FailsOnlyIfDisturbed
  <2>3. CASE SampleRead /\ err' = "panic"
    <3>1. /\ pc \in Sampling /\ i <= Len(refs) /\ found = TRUE
          /\ dirs[refs[i].id] # Controllers /\ UNCHANGED <<refs, i>>
      BY <1>e, <2>3 DEF SampleRead, Sampled, Fail, Controllers
    <3>2. i \in 1..Len(refs)
      BY <1>r, <3>1
    <3> QED BY <2>1, <2>3, <3>1, <3>2 DEF StopInv, FailsOnlyIfDisturbed
  <2>4. CASE SampleStat \/ (SampleRead /\ err' # "panic") \/ EndSample1
               \/ SleepElapses \/ SleepCancelled \/ EndSample2
    <3>1. err' \notin {"panic", "stopped"}
      BY <1>e, <2>4 DEF SampleStat, SampleRead, EndSample1, SleepElapses,
           SleepCancelled, EndSample2, Sampled, Fail
    <3> QED BY <3>1 DEF FailsOnlyIfDisturbed
  <2>5. CASE ReportStep /\ err' = "stopped"
    <3>1. /\ pc = "memory" /\ i > Len(refs) /\ req.query # None /\ out = <<>>
          /\ UNCHANGED refs
      BY <1>e, <2>5 DEF ReportStep, ReadMemory, StatCounters, ReadCounters,
           StatNetwork, ReadNetwork, AfterNetwork, FindLayer, LayerCancelled,
           LayerUnreadable, OpenLayer, LayerEntry, CountFile, SkipFile, LayerDone,
           Return, Drop, Continue, Finish, Fail
    <3>2. Len(refs) = 1 /\ 1 \in 1..Len(refs) /\ 1 < i
      BY <1>r, <3>1 DEF StopInv
    <3>3. refs[1].id \in disturbed
      BY <3>1, <3>2 DEF StopInv
    <3> QED BY <2>1, <2>5, <3>1, <3>3 DEF FailsOnlyIfDisturbed
  <2>6. CASE ReportStep /\ err' # "stopped"
    <3>1. err' # "panic"
      BY <1>e, <2>6 DEF ReportStep, ReadMemory, StatCounters, ReadCounters,
           StatNetwork, ReadNetwork, AfterNetwork, FindLayer, LayerCancelled,
           LayerUnreadable, OpenLayer, LayerEntry, CountFile, SkipFile, LayerDone,
           Return, Drop, Continue, Finish, Fail
    <3> QED BY <2>6, <3>1 DEF FailsOnlyIfDisturbed
  <2> QED BY <2>1, <2>2, <2>3, <2>4, <2>5, <2>6, StepParts
<1> QED BY <1>1, <1>2, StepSplit

\* The host is in order and nothing was disturbed at first.
LEMMA StopInit == Init => HostInv /\ StopInv /\ FailsOnlyIfDisturbed
<1> SUFFICES ASSUME Init PROVE HostInv /\ StopInv /\ FailsOnlyIfDisturbed
  OBVIOUS
<1>1. HostInv
  BY CgroupAssumption DEF Init, CgroupInit, HostInv, Controllers
<1>2. StopInv
  BY DEF Init, StopInv, Sampling, Reporting, Filling
<1> QED BY <1>1, <1>2 DEF Init, FailsOnlyIfDisturbed

\* A call fails for a container's sake only when that container was removed or lost a
\* process during the call, and panics in the sampling loop only under cgroup v1; the
\* stop of any other leaves it to succeed (collectContainers, GetContainer).
THEOREM StopSound == Spec => []FailsOnlyIfDisturbed
BY TypesInit, TypesStay, StopInit, HostStays, StopStays, CauseStays, PTL
   DEF Spec, TypeInv

-----------------------------------------------------------------------------
(* Steady containers.                                                      *)

\* Until a steady container is disturbed, its directory stays, and so do the processes
\* in it and below; and no container becomes steady.
LEMMA SteadyKept ==
  ASSUME TypeOK, EnvStep
  PROVE  /\ Steady' \subseteq Steady
         /\ \A id \in Steady' :
              /\ dirs'[id] = dirs[id]
              /\ \A p \in Pids : proc[p] \in Subtree(id) => proc'[p] \in Subtree(id)
<1> DEFINE Still == /\ disturbed \subseteq disturbed'
                   /\ \A id \in Ids \ disturbed' :
                        /\ dirs'[id] = dirs[id]
                        /\ Inside[id] = None =>
                             /\ \A p \in Pids :
                                  proc[p] \in Subtree(id) => proc'[p] \in Subtree(id)
                             /\ Busy(Subtree(id))' # {} => Busy(Subtree(id)) # {}
<1>0. /\ dirs \in [Ids -> SUBSET Controllers] /\ proc \in [Pids -> Owners]
  BY DEF TypeOK, CgroupTypeOK
<1>1. Still
  <2>1. CASE UNCHANGED <<dirs, proc, disturbed>>
    BY <2>1 DEF Busy, Subtree
  <2>2. ASSUME NEW id \in Ids, Create(id) PROVE Still
    BY <1>0, <2>2 DEF Create, Busy, Subtree
  <2>3. ASSUME NEW id \in Ids, NEW C \in SUBSET Controllers, Rmdir(id, C)
        PROVE  Still
    BY <1>0, <2>3 DEF Rmdir, Busy, Subtree
  <2>4. ASSUME NEW p \in Pids, NEW owner \in Ids \cup {Host}, Enter(p, owner)
        PROVE  Still
    BY <1>0, <2>4, CgroupAssumption DEF Enter, Busy, Subtree
  <2>5. ASSUME NEW p \in Pids, Leave(p) PROVE Still
    BY <1>0, <2>5, CgroupAssumption DEF Leave, Around, Busy, Subtree
  <2>6. CASE Cancel \/ Time \/ Write \/ UNCHANGED vars
    BY <2>1, <2>6 DEF Cancel, Time, Elapse, Write, Touch, vars, cgroupVars
  <2> QED BY <2>2, <2>3, <2>4, <2>5, <2>6 DEF EnvStep, Lifecycle, Churn
<1> QED BY <1>1 DEF Steady, Busy

\* What is in no other container, and has a process, is found unless it is still to
\* come; once found it is not to come any more, nor found again.
FoundInv ==
  /\ \A id \in Steady : dirs[id] = Controllers
  /\ pc = "start" => refs = <<>>
  /\ \A m, n \in 1..Len(refs) : refs[m].id = refs[n].id => m = n
  /\ pc = "walk" => \A n \in 1..Len(refs) : refs[n].id \notin todo
  /\ \A n \in 1..Len(refs) :
       refs[n].id \in Steady => proc[refs[n].pid] \in Subtree(refs[n].id)
  /\ pc = "walk" =>
       \A id \in Steady : id \in todo \/ \E n \in 1..Len(refs) : refs[n].id = id
  /\ \/ pc \in {"metadata", "match"}
     \/ pc \in Sampling \cup Reporting /\ req.query = None
     => \A id \in Steady : \E n \in 1..Len(refs) : refs[n].id = id

\* After the match neither the containers nor the request change.
LEMMA LaterStep ==
  ASSUME TypeInv,
         \/ SampleStat \/ SampleRead \/ EndSample1 \/ SleepElapses
              \/ SleepCancelled \/ EndSample2
         \/ ReportStep
  PROVE  /\ UNCHANGED <<req, refs, named>>
         /\ pc \in Sampling \cup Reporting
         /\ pc' \in Sampling \cup Reporting \cup {"failed"}
<1> USE DEF Sampling, Reporting, Filling
<1>1. CASE SampleStat \/ SampleRead \/ EndSample1 \/ SleepElapses
             \/ SleepCancelled \/ EndSample2
  BY <1>1 DEF SampleStat, SampleRead, EndSample1, SleepElapses, SleepCancelled,
       EndSample2, Sampled, Fail
<1>2. CASE ReportStep
  BY <1>2 DEF ReportStep, ReadMemory, StatCounters, ReadCounters, StatNetwork,
       ReadNetwork, AfterNetwork, FindLayer, LayerCancelled, LayerUnreadable,
       OpenLayer, LayerEntry, CountFile, SkipFile, LayerDone, Return, Drop, Continue,
       Finish, Fail
<1> QED BY <1>1, <1>2

\* A host that goes on does not disturb what was found.
LEMMA FoundWaits == TypeInv /\ FoundInv /\ EnvStep => FoundInv'
<1> SUFFICES ASSUME TypeInv, FoundInv, EnvStep PROVE FoundInv'
  OBVIOUS
<1>1. /\ UNCHANGED callVars /\ Steady' \subseteq Steady
      /\ \A id \in Steady' :
           /\ dirs'[id] = dirs[id]
           /\ \A p \in Pids : proc[p] \in Subtree(id) => proc'[p] \in Subtree(id)
  BY EnvTypes, SteadyKept DEF TypeInv
<1>2. \A n \in 1..Len(refs) : refs[n].pid \in Pids
  BY RefsType DEF TypeInv, TypeOK
<1> QED BY <1>1, <1>2 DEF FoundInv, callVars

\* Nor does a step of the call.
LEMMA FoundStays == TypeInv /\ FoundInv /\ Step => FoundInv'
<1> SUFFICES ASSUME TypeInv, FoundInv, Step PROVE FoundInv'
  OBVIOUS
<1>1. /\ CallStep \/ RuntimeAnswers
      /\ UNCHANGED <<proc, dirs, disturbed>> /\ Steady' = Steady
  BY DEF Step, envVars, cgroupVars, Steady, Busy
<1>2. CASE Begin
  <2>1. pc' # "failed" =>
          refs' = refs /\ pc' = "walk" /\ todo' = {id \in Ids : "memory" \in dirs[id]}
    BY <1>2 DEF Begin, Fail
  <2>2. refs' = <<>> /\ pc' \in {"walk", "failed"}
    BY <1>2 DEF Begin, Fail, FoundInv
  <2>3. Steady \subseteq {id \in Ids : "memory" \in dirs[id]}
    BY DEF FoundInv, Controllers, Steady
  <2> QED BY <1>1, <2>1, <2>2, <2>3 DEF FoundInv, Sampling, Reporting, Filling
<1>3. CASE Visit
  <2>1. PICK id \in todo :
          /\ todo' = todo \ Subtree(id)
          /\ \/ Busy(Subtree(id)) = {} /\ refs' = refs
             \/ \E p \in Busy(Subtree(id)) :
                  refs' = Append(refs, [id |-> id, pid |-> p])
    BY <1>3, VisitEffect
  <2>2. pc = "walk" /\ pc' = "walk"
    BY <1>3, VisitEffect
  <2>3. id \in Ids /\ id \notin todo' /\ todo' \subseteq todo
    BY <2>1, Subtrees DEF TypeInv, TypeOK
  <2>4. ASSUME NEW j \in Steady, j # id, j \in todo PROVE j \in todo'
    BY <2>1, <2>4, <2>3, CgroupAssumption DEF Steady, Subtree
  <2>5. CASE Busy(Subtree(id)) = {} /\ refs' = refs
    <3>1. id \notin Steady
      BY <2>5 DEF Steady
    <3> QED BY <1>1, <2>2, <2>3, <2>4, <2>5, <3>1
             DEF FoundInv, Sampling, Reporting, Filling
  <2>6. ASSUME NEW p \in Busy(Subtree(id)),
               refs' = Append(refs, [id |-> id, pid |-> p])
        PROVE  FoundInv'
    <3> DEFINE k == Len(refs) + 1
    <3>0. refs \in Seq(Ref)
      BY DEF TypeInv, TypeOK
    <3>1. /\ k \in Nat /\ k \notin 1..Len(refs)
          /\ 1..Len(refs') = 1..Len(refs) \cup {k}
          /\ \A n \in 1..Len(refs) : refs'[n] = refs[n]
          /\ refs'[k].id = id /\ refs'[k].pid = p
      BY ONLY <2>6, <3>0, Longer
    <3>2. \A n \in 1..Len(refs) : refs[n].id \notin todo
      BY <2>2 DEF FoundInv
    <3>3. proc[p] \in Subtree(id)
      BY DEF Busy
    <3> HIDE DEF k
    <3>4. \A m, n \in 1..Len(refs') : refs'[m].id = refs'[n].id => m = n
      BY <3>1, <3>2 DEF FoundInv
    <3>5. \A n \in 1..Len(refs') : refs'[n].id \notin todo'
      BY <2>3, <3>1, <3>2
    <3>6. \A n \in 1..Len(refs') :
            refs'[n].id \in Steady => proc[refs'[n].pid] \in Subtree(refs'[n].id)
      BY <3>1, <3>3 DEF FoundInv
    <3>7. \A j \in Steady : j \in todo' \/ \E n \in 1..Len(refs') : refs'[n].id = j
      BY <2>2, <2>4, <3>1 DEF FoundInv
    <3> QED BY <1>1, <2>2, <3>4, <3>5, <3>6, <3>7
            DEF FoundInv, Sampling, Reporting, Filling
  <2> QED BY <2>1, <2>5, <2>6
<1>4. CASE EndWalk \/ MetadataExpires \/ RuntimeAnswers
  BY <1>1, <1>4 DEF FoundInv, EndWalk, MetadataExpires, RuntimeAnswers, AfterMetadata,
       Sampling, Reporting, Filling
<1>5. CASE Match
  <2>1. CASE refs' = refs /\ req' = req
    <3>1. pc' \in {"sample1", "failed"} /\ pc = "match"
      BY <1>5 DEF Match, Fail
    <3> QED BY <1>1, <2>1, <3>1 DEF FoundInv, Sampling, Reporting, Filling
  <2>2. CASE ~ (refs' = refs /\ req' = req)
    <3>1. /\ pc' = "sample1" /\ req' = req /\ req.query # None
          /\ \E n \in MatchContainer(req.query) : refs' = <<refs[n]>>
      BY <1>5, <2>2, Zenon DEF Match, Fail
    <3>2. PICK n \in 1..Len(refs) : refs' = <<refs[n]>>
      BY <3>1, MatchType DEF TypeInv, TypeOK
    <3>3. 1..Len(refs') = {1} /\ refs'[1] = refs[n]
      BY <3>2
    <3> QED BY <1>1, <3>1, <3>3 DEF FoundInv, Sampling, Reporting, Filling
  <2> QED BY <2>1, <2>2
<1>6. CASE \/ SampleStat \/ SampleRead \/ EndSample1 \/ SleepElapses
               \/ SleepCancelled \/ EndSample2
           \/ ReportStep
  BY <1>1, <1>6, LaterStep DEF FoundInv, Sampling, Reporting, Filling
<1> QED BY <1>1, <1>2, <1>3, <1>4, <1>5, <1>6, StepParts

\* A steady container that was found is still to be reported or has been, with the
\* network of its own processes.
ReportInv ==
  /\ \A n \in 1..Len(out) : \E k \in 1..Len(refs) : k < i /\ out[n].id = refs[k].id
  /\ \A m, n \in 1..Len(out) : out[m].id = out[n].id => m = n
  /\ pc \in Reporting =>
       \A k \in 1..Len(refs) :
         refs[k].id \in Steady /\ k < i => \E n \in 1..Len(out) : out[n].id = refs[k].id
  /\ \A n \in 1..Len(out) :
       out[n].id \in Steady => out[n].accessible /\ out[n].net \in Subtree(out[n].id)
  /\ pc \in Layering /\ row.id \in Steady =>
       row.accessible /\ row.net \in Subtree(row.id)

SteadyInv == FoundInv /\ ReportInv

\* A host that goes on changes nothing in the report.
LEMMA ReportWaits == TypeInv /\ ReportInv /\ EnvStep => ReportInv'
<1> SUFFICES ASSUME TypeInv, ReportInv, EnvStep PROVE ReportInv'
  OBVIOUS
<1>1. UNCHANGED callVars /\ Steady' \subseteq Steady
  BY EnvTypes, SteadyKept DEF TypeInv
<1> QED BY <1>1 DEF ReportInv, callVars

\* Before the report nothing is reported.
LEMMA ReportOpens ==
  ASSUME TypeInv, Step, out = <<>>, out' = <<>>, pc' \notin Layering,
         pc' \in Reporting => i' = 1
  PROVE  ReportInv'
<1>1. 1..Len(out') = {}
  OBVIOUS
<1> QED BY <1>1 DEF ReportInv

\* Nothing is reported before the report, and it begins with the first container.
LEMMA ReportBegins ==
  ASSUME TypeInv, Step, ~ ReportStep
  PROVE  /\ out = <<>> /\ out' = <<>>
         /\ pc' \notin Layering
         /\ pc' \in Reporting => i' = 1
<1> USE DEF Finding, Sampling, Reporting, Filling, Layering
<1>1. CASE Begin \/ Visit \/ EndWalk \/ MetadataExpires \/ RuntimeAnswers \/ Match
  <2>1. pc \in Finding /\ out' = out /\ pc' \in Finding \cup Sampling \cup {"failed"}
    BY <1>1, VisitEffect DEF Begin, EndWalk, MetadataExpires, RuntimeAnswers,
         AfterMetadata, Match, Fail
  <2> QED BY <2>1 DEF TypeInv, PhaseInv
<1>2. CASE SampleStat \/ SampleRead \/ EndSample1 \/ SleepElapses
             \/ SleepCancelled \/ EndSample2
  <2>1. /\ pc \in Sampling /\ out' = out
        /\ pc' \in Sampling \cup {"failed"} \/ (pc' = "memory" /\ i' = 1)
    BY <1>2 DEF SampleStat, SampleRead, EndSample1, SleepElapses, SleepCancelled,
         EndSample2, Sampled, Fail
  <2> QED BY <2>1 DEF TypeInv, PhaseInv
<1> QED BY <1>1, <1>2, StepParts DEF Step

\* The network a steady container's process is in is its own.
LEMMA SteadyNetwork ==
  ASSUME TypeInv, FoundInv, pc \in Filling \cup {"memory"}, i <= Len(refs),
         refs[i].id \in Steady
  PROVE  /\ dirs[refs[i].id] = Controllers
         /\ proc[refs[i].pid] \in Subtree(refs[i].id) /\ proc[refs[i].pid] # None
<1>1. i \in 1..Len(refs)
  BY RefsType DEF TypeInv, TypeOK
<1>2. proc[refs[i].pid] \in Subtree(refs[i].id) /\ dirs[refs[i].id] = Controllers
  BY <1>1 DEF FoundInv
<1>3. Subtree(refs[i].id) \subseteq Ids
  BY Subtrees DEF Steady
<1> QED BY <1>2, <1>3, CgroupAssumption

\* Going on with the report without reporting: only a container that is not steady is
\* left out, and the layer comes after the network.
LEMMA Unreported ==
  ASSUME TypeInv, SteadyInv, ReportStep, out' = out
  PROVE  /\ \/ i' = i
            \/ i' = i + 1 /\ pc' = "memory" /\ refs[i].id \notin Steady
         /\ pc' \in Layering /\ row'.id \in Steady =>
              row'.accessible /\ row'.net \in Subtree(row'.id)
<1> USE DEF Sampling, Reporting, Filling, Layering
<1>0. /\ out \in Seq(Row)
      /\ pc \in Filling => /\ row \in Row /\ i <= Len(refs) /\ row.id = refs[i].id
      /\ i \in Nat
  BY DEF TypeInv, TypeOK, PhaseInv
<1>1. \A r : ~ Finish(r)
  BY <1>0 DEF Finish
<1>n. /\ pc \in Filling \cup {"memory"} /\ i <= Len(refs) /\ refs[i].id \in Steady =>
           /\ dirs[refs[i].id] = Controllers
           /\ proc[refs[i].pid] \in Subtree(refs[i].id) /\ proc[refs[i].pid] # None
  BY SteadyNetwork DEF SteadyInv
<1>2. CASE ReadMemory
  <2>1. CASE "memory" \in dirs[refs[i].id]
    BY <1>2, <2>1 DEF ReadMemory, Continue
  <2>2. CASE "memory" \notin dirs[refs[i].id]
    <3>1. refs[i].id \notin Steady
      BY <1>n, <1>2, <2>2 DEF Controllers, ReadMemory
    <3> QED BY <1>2, <2>2, <3>1 DEF ReadMemory, Drop
  <2> QED BY <2>1, <2>2
<1>3. CASE StatCounters
  BY <1>3 DEF StatCounters, Continue
<1>4. CASE ReadCounters
  <2>1. CASE "cpuacct" \in dirs[refs[i].id]
    BY <1>4, <2>1 DEF ReadCounters
  <2>2. CASE "cpuacct" \notin dirs[refs[i].id]
    <3>1. refs[i].id \notin Steady
      BY <1>n, <1>0, <1>4, <2>2 DEF Controllers, ReadCounters
    <3> QED BY <1>4, <2>2, <3>1 DEF ReadCounters, Drop
  <2> QED BY <2>1, <2>2
<1>5. CASE StatNetwork
  <2>1. CASE proc[refs[i].pid] = None
    <3>1. row.id \notin Steady /\ pc = "network"
      BY <1>n, <1>0, <1>5, <2>1 DEF StatNetwork
    <3>2. i' = i /\ row' = row
      BY <1>1, <1>5, <2>1 DEF StatNetwork, AfterNetwork, Continue
    <3> QED BY <3>1, <3>2
  <2>2. CASE proc[refs[i].pid] # None
    BY <1>5, <2>2 DEF StatNetwork, Continue
  <2> QED BY <2>1, <2>2
<1>6. CASE ReadNetwork
  <2>1. pc = "network" /\ row.accessible
    BY <1>6, Zenon DEF ReadNetwork
  <2>2. i' = i /\ row' = [row EXCEPT !.net = proc[refs[i].pid]]
    BY <1>1, <1>6 DEF ReadNetwork, AfterNetwork, Continue
  <2>3. row'.id = row.id /\ row'.accessible = row.accessible
        /\ row'.net = proc[refs[i].pid]
    BY <1>0, <2>1, <2>2 DEF Row
  <2> QED BY <1>n, <1>0, <2>1, <2>2, <2>3
<1>7. CASE FindLayer
  <2> DEFINE owner == proc[refs[i].pid]
  <2>1. pc = "layer" /\ i' = i /\ row' = [row EXCEPT !.upper = owner]
    BY <1>1, <1>7 DEF FindLayer, Continue
  <2>2. row'.id = row.id /\ row'.accessible = row.accessible /\ row'.net = row.net
    BY <1>0, <2>1 DEF Row
  <2> QED BY <2>1, <2>2 DEF SteadyInv, ReportInv
<1>8. CASE LayerCancelled \/ LayerUnreadable \/ OpenLayer \/ LayerEntry \/ LayerDone
  <2>1. i' = i /\ row' = row /\ pc \in Layering
    BY <1>1, <1>8 DEF LayerCancelled, LayerUnreadable, OpenLayer, LayerEntry,
         CountFile, SkipFile, LayerDone, Fail
  <2> QED BY <2>1 DEF SteadyInv, ReportInv
<1>9. CASE Return
  BY <1>9 DEF Return, Fail
<1> QED BY <1>2, <1>3, <1>4, <1>5, <1>6, <1>7, <1>8, <1>9 DEF ReportStep

\* Reporting: the container of the loop, with the network of its own processes when it
\* is steady.
LEMMA ReportedSteady ==
  ASSUME TypeInv, SteadyInv, [Next]_vars, out' # out
  PROVE  /\ pc \in Filling /\ pc' = "memory" /\ i' = i + 1 /\ UNCHANGED refs
         /\ i \in 1..Len(refs)
         /\ \E q \in Row :
              /\ out' = Append(out, q) /\ q.id = refs[i].id
              /\ q.id \in Steady => q.accessible /\ q.net \in Subtree(q.id)
<1>1. PICK r \in Row :
        /\ pc \in Filling /\ pc' = "memory" /\ Finish(r)
        /\ \/ /\ pc = "network" /\ row.accessible
              /\ r = [row EXCEPT !.net = proc[refs[i].pid]]
           \/ /\ pc = "network" /\ ~row.accessible
              /\ proc[refs[i].pid] = None /\ r = row
           \/ pc \in Layering /\ r = row
           \/ /\ pc = "layerWalk" /\ left = {}
              /\ r = [row EXCEPT !.files = Cardinality(counted)]
  BY Reported
<1>2. /\ row \in Row /\ i \in 1..Len(refs) /\ row.id = refs[i].id
      /\ i <= Len(refs)
  BY <1>1 DEF TypeInv, TypeOK, PhaseInv
<1>3. refs[i].id \in Steady =>
        proc[refs[i].pid] \in Subtree(refs[i].id) /\ proc[refs[i].pid] # None
  BY <1>1, <1>2, SteadyNetwork DEF SteadyInv
<1>4. r.id = row.id /\ (row.id \in Steady => r.accessible /\ r.net \in Subtree(row.id))
  <2>1. CASE pc = "network"
    BY <1>1, <1>2, <1>3, <2>1 DEF Row, Layering
  <2>2. CASE pc # "network"
    <3>1. row.id \in Steady => row.accessible /\ row.net \in Subtree(row.id)
      BY <1>1, <2>2 DEF SteadyInv, ReportInv, Layering
    <3>2. r = row \/ r = [row EXCEPT !.files = Cardinality(counted)]
      BY <1>1, <2>2
    <3> QED BY <1>2, <3>1, <3>2 DEF Row
  <2> QED BY <2>1, <2>2
<1> DEFINE q == [r EXCEPT !.cpu = CoresUsed(i)]
<1>5. q \in Row
  BY <1>1, <1>2, CoresUsedType, RowType DEF Reporting
<1>6. q.id = r.id /\ q.accessible = r.accessible /\ q.net = r.net
  BY DEF Row
<1>7. out' = Append(out, q) /\ i' = i + 1 /\ UNCHANGED refs
  BY <1>1 DEF Finish
<1> HIDE DEF q
<1> QED BY <1>1, <1>2, <1>4, <1>5, <1>6, <1>7

\* What is reported stays as it should be.
LEMMA ReportStays == TypeInv /\ SteadyInv /\ Step => ReportInv'
<1> SUFFICES ASSUME TypeInv, SteadyInv, Step PROVE ReportInv'
  OBVIOUS
<1>1. CASE ~ ReportStep
  BY <1>1, ReportBegins, ReportOpens
<1>s. UNCHANGED <<proc, dirs, disturbed>> /\ Steady' = Steady
  BY DEF Step, envVars, cgroupVars, Steady, Busy
<1>t. /\ out \in Seq(Row) /\ i \in Nat \ {0} /\ Len(out) \in Nat
      /\ \A k \in 1..Len(refs) : k \in Nat
  BY RefsType DEF TypeInv, TypeOK
<1>2. CASE ReportStep /\ out' = out
  <2>1. /\ \/ i' = i
           \/ i' = i + 1 /\ pc' = "memory" /\ refs[i].id \notin Steady
        /\ pc' \in Layering /\ row'.id \in Steady =>
             row'.accessible /\ row'.net \in Subtree(row'.id)
    BY <1>2, Unreported
  <2>2. UNCHANGED refs /\ pc \in Reporting
    <3>1. UNCHANGED refs
      BY <1>2, LaterStep
    <3>2. pc \in Reporting
      BY <1>2 DEF ReportStep, ReadMemory, StatCounters, ReadCounters, StatNetwork,
           ReadNetwork, FindLayer, LayerCancelled, LayerUnreadable, OpenLayer,
           LayerEntry, CountFile, SkipFile, LayerDone, Return, Reporting, Filling
    <3> QED BY <3>1, <3>2
  <2>3. \A k \in 1..Len(refs) : k < i' => k < i \/ (k = i /\ i' = i + 1)
    BY <1>t, <2>1
  <2> QED BY <1>2, <1>s, <1>t, <2>1, <2>2, <2>3 DEF SteadyInv, ReportInv, Layering
<1>3. CASE ReportStep /\ out' # out
  <2>1. PICK q \in Row :
          /\ out' = Append(out, q) /\ q.id = refs[i].id
          /\ q.id \in Steady => q.accessible /\ q.net \in Subtree(q.id)
    BY <1>3, ReportedSteady DEF Step, Next, Call, ReportStep, CallStep
  <2>2. /\ pc \in Filling /\ pc' = "memory" /\ i' = i + 1 /\ UNCHANGED refs
        /\ i \in 1..Len(refs)
    BY <1>3, ReportedSteady DEF Step, Next, Call, ReportStep, CallStep
  <2> DEFINE l == Len(out) + 1
  <2>3. /\ l \in Nat /\ l \notin 1..Len(out) /\ 1..Len(out') = 1..Len(out) \cup {l}
        /\ \A n \in 1..Len(out) : out'[n] = out[n]
        /\ out'[l] = q
    BY <1>t, <2>1
  <2> HIDE DEF l
  <2>4. \A n \in 1..Len(out) : out[n].id # refs[i].id
    BY <1>t, <2>2 DEF SteadyInv, FoundInv, ReportInv
  <2>5. \A n \in 1..Len(out') :
          \E k \in 1..Len(refs) : k < i + 1 /\ out'[n].id = refs[k].id
    BY <1>t, <2>1, <2>2, <2>3 DEF SteadyInv, ReportInv
  <2>6. \A m, n \in 1..Len(out') : out'[m].id = out'[n].id => m = n
    BY <2>1, <2>3, <2>4 DEF SteadyInv, ReportInv
  <2>7. \A k \in 1..Len(refs) :
          refs[k].id \in Steady /\ k < i + 1 =>
            \E n \in 1..Len(out') : out'[n].id = refs[k].id
    BY <1>t, <2>1, <2>2, <2>3 DEF SteadyInv, ReportInv, Reporting
  <2>8. \A n \in 1..Len(out') :
          out'[n].id \in Steady =>
            out'[n].accessible /\ out'[n].net \in Subtree(out'[n].id)
    BY <2>1, <2>3 DEF SteadyInv, ReportInv
  <2> QED BY <1>s, <2>2, <2>5, <2>6, <2>7, <2>8 DEF ReportInv, Layering
<1> QED BY <1>1, <1>2, <1>3

\* Finding and reporting hold at first.
LEMMA SteadyInit == Init => SteadyInv
<1> SUFFICES ASSUME Init PROVE SteadyInv
  OBVIOUS
<1>1. \A id \in Steady : dirs[id] = Controllers
  <2> SUFFICES ASSUME NEW id \in Steady PROVE dirs[id] = Controllers
    OBVIOUS
  <2>1. PICK p \in Pids : proc[p] \in Subtree(id)
    BY DEF Steady, Busy
  <2>2. id \in Ids /\ (proc[p] = id \/ (proc[p] \in Ids /\ Inside[proc[p]] = id))
    BY <2>1 DEF Steady, Subtree
  <2>3. dirs[id] # {}
    BY <2>2, CgroupAssumption DEF Init, CgroupInit
  <2> QED BY <2>2, <2>3 DEF Init, CgroupInit
<1>2. FoundInv
  BY <1>1 DEF Init, FoundInv, Sampling, Reporting, Filling
<1>3. ReportInv
  BY DEF Init, ReportInv, Reporting, Filling, Layering
<1> QED BY <1>2, <1>3 DEF SteadyInv

\* Finding and reporting are inductive.
LEMMA SteadyStays == TypeInv /\ SteadyInv /\ [Next]_vars => SteadyInv'
BY StepSplit, FoundWaits, FoundStays, ReportWaits, ReportStays DEF SteadyInv

\* A container that ran through the whole call and lost no process is reported exactly
\* once, with the network of its own processes, whatever other containers did: the
\* walk, firstPidInSubtree and the loop of collectContainers leave none out.
THEOREM SteadyReportedSound == Spec => []SteadyReported
<1>1. TypeInv /\ SteadyInv => SteadyReported
  <2> SUFFICES ASSUME TypeInv, SteadyInv, pc = "ok", req.query = None,
                      NEW id \in Steady
               PROVE  \E n \in DOMAIN out :
                        /\ out[n].id = id
                        /\ out[n].accessible /\ out[n].net \in Subtree(id)
                        /\ \A m \in DOMAIN out : out[m].id = id => m = n
    BY DEF SteadyReported
  <2>1. DOMAIN out = 1..Len(out)
    BY DEF TypeInv, TypeOK
  <2>2. PICK k \in 1..Len(refs) : refs[k].id = id
    BY DEF SteadyInv, FoundInv, Reporting
  <2>3. k < i
    BY RefsType DEF TypeInv, TypeOK, PhaseInv
  <2>4. PICK n \in 1..Len(out) : out[n].id = id
    BY <2>2, <2>3 DEF SteadyInv, ReportInv, Reporting
  <2> QED BY <2>1, <2>4 DEF SteadyInv, ReportInv
<1> QED BY TypesInit, TypesStay, SteadyInit, SteadyStays, <1>1, PTL DEF Spec

-----------------------------------------------------------------------------
(* Lookups.                                                                *)

\* No two containers have the same name, and no name is the ID of another.
NamesTell ==
  \A a, b \in Ids : NameOf[a] = NameOf[b] \/ NameOf[a] = b => a = b

\* The container looked up is the steady one that bears the ID or the name, if there is
\* one; a prefix only selects when no other steady one begins that way.
LookupInv ==
  req.query \notin {None, <<>>} =>
    /\ err \in {"match", "stopped"} => \A id \in Steady : ~ Bears(id)
    /\ pc \in Sampling \cup Reporting =>
         /\ Len(refs) = 1
         /\ \A id \in Steady : Bears(id) => id = refs[1].id
         /\ \/ Bears(refs[1].id)
            \/ \A id \in Steady : IsPrefix(req.query, id) => id = refs[1].id

\* What matchContainer selects among the containers found.
LEMMA MatchFacts ==
  ASSUME refs \in Seq(Ref), NamesTell, NEW q, q # <<>>
  PROVE  LET Bearing(id) == id = q \/ (id \in named /\ NameOf[id] = q)
             Found == {refs[k].id : k \in 1..Len(refs)}
         IN /\ MatchContainer(q) = {} => \A id \in Found : ~ Bearing(id)
            /\ \A n \in MatchContainer(q) :
                 /\ \A id \in Found : Bearing(id) => id = refs[n].id
                 /\ \/ Bearing(refs[n].id)
                    \/ \A id \in Found : IsPrefix(q, id) => id = refs[n].id
<1> DEFINE Bearing(id) == id = q \/ (id \in named /\ NameOf[id] = q)
           Exact  == {n \in 1..Len(refs) :
                       \/ refs[n].id = q
                       \/ refs[n].id \in named /\ NameOf[refs[n].id] = q}
           Prefix == {n \in 1..Len(refs) : IsPrefix(q, refs[n].id)}
           First  == CHOOSE n \in Exact : \A m \in Exact : n <= m
<1>1. MatchContainer(q) =
        IF Exact # {} THEN {First}
        ELSE IF Cardinality(Prefix) = 1 THEN Prefix ELSE {}
  BY DEF MatchContainer
<1>2. Exact # {} => First \in Exact
  <2>1. Exact \in SUBSET Nat
    OBVIOUS
  <2> HIDE DEF Exact
  <2> QED BY <2>1, Earliest
<1>3. \A n \in 1..Len(refs) : n \in Exact <=> Bearing(refs[n].id)
  OBVIOUS
<1>4. Exact \subseteq 1..Len(refs)
  OBVIOUS
<1>5. \A a, b \in Ids : Bearing(a) /\ Bearing(b) => a = b
  BY DEF NamesTell
<1>6. \A n \in 1..Len(refs) : refs[n].id \in Ids
  BY RefsType
<1>7. \A n \in 1..Len(refs) : n \in Prefix <=> IsPrefix(q, refs[n].id)
  OBVIOUS
<1>8. Prefix \subseteq 1..Len(refs)
  OBVIOUS
<1>9. Cardinality(Prefix) = 1 => \E n : Prefix = {n}
  <2>1. IsFiniteSet(Prefix)
    <3>1. IsFiniteSet(1..Len(refs))
      BY RefsType, FS_Interval
    <3> QED BY <1>8, <3>1, FS_Subset
  <2> HIDE DEF Prefix
  <2> QED BY <2>1, FS_Singleton
<1> HIDE DEF Exact, First, Prefix, Bearing
<1>10. MatchContainer(q) = {} => \A n \in 1..Len(refs) : ~ Bearing(refs[n].id)
  BY <1>1, <1>3
<1>11. ASSUME NEW n \in MatchContainer(q)
       PROVE  /\ \A k \in 1..Len(refs) : Bearing(refs[k].id) => refs[k].id = refs[n].id
              /\ \/ Bearing(refs[n].id)
                 \/ \A k \in 1..Len(refs) :
                      IsPrefix(q, refs[k].id) => refs[k].id = refs[n].id
  <2>1. CASE Exact # {}
    <3>1. n \in Exact /\ n \in 1..Len(refs)
      BY <1>1, <1>2, <1>4, <1>11, <2>1
    <3>2. Bearing(refs[n].id)
      BY <1>3, <3>1
    <3> QED BY <1>5, <1>6, <3>1, <3>2
  <2>2. CASE Exact = {}
    <3>1. \E m : Prefix = {m}
      BY <1>1, <1>9, <1>11, <2>2
    <3>2. Prefix = {n}
      BY <1>1, <1>11, <2>2, <3>1
    <3> QED BY <1>3, <1>7, <2>2, <3>2
  <2> QED BY <2>1, <2>2
<1> QED BY <1>10, <1>11 DEF Bearing

\* The lookup stays right.
LEMMA LookupStays ==
  ASSUME NamesTell
  PROVE  TypeInv /\ SteadyInv /\ LookupInv /\ [Next]_vars => LookupInv'
<1> SUFFICES ASSUME TypeInv, SteadyInv, LookupInv, [Next]_vars,
                    req'.query \notin {None, <<>>}
             PROVE  LookupInv'
  BY DEF LookupInv
<1> USE DEF Sampling, Reporting, Filling
<1>e. pc # "failed" => err = "none"
  BY DEF TypeInv, PhaseInv
<1>1. CASE EnvStep
  <2>1. UNCHANGED callVars /\ Steady' \subseteq Steady
    BY <1>1, EnvTypes, SteadyKept DEF TypeInv
  <2> QED BY <2>1 DEF LookupInv, Bears, callVars
<1>2. CASE Step
  <2>s. Steady' = Steady /\ (CallStep \/ RuntimeAnswers)
    BY <1>2 DEF Step, envVars, cgroupVars, Steady, Busy
  <2>1. CASE Begin \/ Visit \/ EndWalk \/ MetadataExpires \/ RuntimeAnswers
    <3>1. pc \notin {"failed", "match"} /\ err' \notin {"match", "stopped"}
          /\ pc' \in {"walk", "metadata", "match", "failed"}
      BY <1>e, <2>1, VisitEffect DEF Begin, EndWalk, MetadataExpires, RuntimeAnswers,
           AfterMetadata, Fail
    <3> QED BY <3>1 DEF LookupInv
  <2>2. CASE Match
    <3> DEFINE Found == {refs[k].id : k \in 1..Len(refs)}
    <3>1. req' = req /\ named' = named /\ pc = "match"
      BY <2>2 DEF Match, Fail
    <3>2. req.query \notin {None, <<>>}
      BY <3>1
    <3>3. Steady \subseteq Found
      BY <3>1 DEF SteadyInv, FoundInv
    <3>4. /\ MatchContainer(req.query) = {} => \A id \in Found : ~ Bears(id)
          /\ \A n \in MatchContainer(req.query) :
               /\ \A id \in Found : Bears(id) => id = refs[n].id
               /\ \/ Bears(refs[n].id)
                  \/ \A id \in Found : IsPrefix(req.query, id) => id = refs[n].id
      BY <3>2, MatchFacts DEF TypeInv, TypeOK, Bears
    <3>5. \A id : Bears(id)' <=> Bears(id)
      BY <3>1 DEF Bears
    <3> HIDE DEF Found
    <3>6. CASE MatchContainer(req.query) = {}
      <4>1. pc' = "failed" /\ err' = "match"
        BY <2>2, <3>2, <3>6 DEF Match, Fail
      <4> QED BY <2>s, <3>1, <3>3, <3>4, <3>5, <3>6, <4>1 DEF LookupInv
    <3>7. CASE MatchContainer(req.query) # {}
      <4>1. /\ pc' = "sample1" /\ err' = "none"
            /\ \E n \in MatchContainer(req.query) : refs' = <<refs[n]>>
        BY <1>e, <2>2, <3>2, <3>7 DEF Match
      <4>2. PICK n \in MatchContainer(req.query) : refs' = <<refs[n]>>
        BY <4>1
      <4>3. Len(refs') = 1 /\ refs'[1] = refs[n]
        BY <4>2
      <4> QED BY <2>s, <3>1, <3>3, <3>4, <3>5, <4>1, <4>3 DEF LookupInv
    <3> QED BY <3>6, <3>7
  <2>3. CASE \/ SampleStat \/ SampleRead \/ EndSample1 \/ SleepElapses
                 \/ SleepCancelled \/ EndSample2
             \/ ReportStep
    <3>1. UNCHANGED <<req, refs, named>> /\ pc \in Sampling \cup Reporting
      BY <2>3, LaterStep
    <3>2. \A id : Bears(id)' <=> Bears(id)
      BY <3>1 DEF Bears
    <3>3. err' = "match" => err' = err
      BY <2>3 DEF SampleStat, SampleRead, EndSample1, SleepElapses, SleepCancelled,
           EndSample2, Sampled, ReportStep, ReadMemory, StatCounters, ReadCounters,
           StatNetwork, ReadNetwork, AfterNetwork, FindLayer, LayerCancelled,
           LayerUnreadable, OpenLayer, LayerEntry, CountFile, SkipFile, LayerDone,
           Return, Drop, Continue, Finish, Fail
    <3>4. err' = "stopped" => err' = err \/ (Return /\ out = <<>>)
      BY <2>3 DEF SampleStat, SampleRead, EndSample1, SleepElapses, SleepCancelled,
           EndSample2, Sampled, ReportStep, ReadMemory, StatCounters, ReadCounters,
           StatNetwork, ReadNetwork, AfterNetwork, FindLayer, LayerCancelled,
           LayerUnreadable, OpenLayer, LayerEntry, CountFile, SkipFile, LayerDone,
           Return, Drop, Continue, Finish, Fail
    <3>5. Return /\ out = <<>> => \A id \in Steady : ~ Bears(id)
      <4> SUFFICES ASSUME Return, out = <<>>, NEW id \in Steady, Bears(id) PROVE FALSE
        OBVIOUS
      <4>1. pc = "memory" /\ i > Len(refs)
        BY DEF Return
      <4>2. Len(refs) = 1 /\ id = refs[1].id
        BY <3>1, <4>1 DEF LookupInv
      <4>3. 1 \in 1..Len(refs) /\ 1 < i
        BY <4>1, <4>2 DEF TypeInv, TypeOK
      <4>4. \E n \in 1..Len(out) : out[n].id = id
        BY <4>1, <4>2, <4>3 DEF SteadyInv, ReportInv
      <4> QED BY <4>4
    <3> QED BY <1>e, <2>s, <3>1, <3>2, <3>3, <3>4, <3>5 DEF LookupInv
  <2> QED BY <2>s, <2>1, <2>2, <2>3, StepParts
<1> QED BY <1>1, <1>2, StepSplit

\* Where no name is another container's name or ID, GetContainer finds a steady
\* container by its ID or by its name, and a prefix only ever selects a container when
\* no steady one besides it begins that way (matchContainer).
THEOREM LookupSound ==
  ASSUME NamesTell
  PROVE  Spec => []LookupFindsSteady
<1>1. Init => LookupInv
  BY DEF Init, LookupInv, Sampling, Reporting, Filling
<1>2. TypeInv /\ SteadyInv /\ LookupInv => LookupFindsSteady
  <2> SUFFICES ASSUME TypeInv, SteadyInv, LookupInv, req.query \notin {None, <<>>},
                      pc = "ok"
               PROVE  out[1].id = refs[1].id
    BY DEF LookupInv, LookupFindsSteady, Reporting
  <2>1. Len(refs) = 1
    BY DEF LookupInv, Reporting
  <2>2. 1 \in 1..Len(out)
    BY DEF TypeInv, TypeOK, PhaseInv
  <2> QED BY <2>1, <2>2 DEF SteadyInv, ReportInv
<1>3. TypeInv /\ SteadyInv /\ LookupInv /\ [Next]_vars => LookupInv'
  BY LookupStays
<1> QED BY TypesInit, TypesStay, SteadyInit, SteadyStays, <1>1, <1>2, <1>3, PTL
        DEF Spec

-----------------------------------------------------------------------------
(* CPU.                                                                    *)

\* No cgroup found is inside another: what was found does not come again, nor does what
\* it is in, nor what is in it.
ApartInv ==
  /\ pc = "start" => refs = <<>>
  /\ \A m, n \in 1..Len(refs) :
       m # n => Subtree(refs[m].id) \cap Subtree(refs[n].id) = {}
  /\ pc = "walk" =>
       \A n \in 1..Len(refs) :
         Subtree(refs[n].id) \cap todo = {} /\ Inside[refs[n].id] \notin todo

\* Two cgroups neither of which is in the other have nothing in common.
LEMMA SubtreesApart ==
  ASSUME NEW a \in Ids, NEW b \in Ids, a \notin Subtree(b), b \notin Subtree(a)
  PROVE  Subtree(a) \cap Subtree(b) = {}
BY CgroupAssumption DEF Subtree

\* Cgroups found stay apart.
LEMMA ApartStays == TypeInv /\ ApartInv /\ [Next]_vars => ApartInv'
<1> SUFFICES ASSUME TypeInv, ApartInv, [Next]_vars PROVE ApartInv'
  OBVIOUS
<1>i. \A id : Subtree(id)' = Subtree(id)
  BY DEF Subtree
<1>1. CASE EnvStep
  BY <1>1, <1>i, EnvTypes DEF ApartInv, callVars, TypeInv
<1>2. CASE Visit
  <2>1. PICK id \in todo :
          /\ Inside[id] \notin todo
          /\ todo' = todo \ Subtree(id)
          /\ \/ Busy(Subtree(id)) = {} /\ refs' = refs
             \/ \E p \in Busy(Subtree(id)) :
                  refs' = Append(refs, [id |-> id, pid |-> p])
    BY <1>2, VisitEffect
  <2>2. pc = "walk" /\ pc' = "walk"
    BY <1>2, VisitEffect
  <2>3. id \in Ids /\ todo' \subseteq todo
    BY <2>1 DEF TypeInv, TypeOK
  <2>4. CASE refs' = refs
    BY <1>i, <2>2, <2>3, <2>4 DEF ApartInv
  <2>5. ASSUME NEW p \in Busy(Subtree(id)),
               refs' = Append(refs, [id |-> id, pid |-> p])
        PROVE  ApartInv'
    <3> DEFINE k == Len(refs) + 1
    <3>0. refs \in Seq(Ref)
      BY DEF TypeInv, TypeOK
    <3>1. /\ k \in Nat /\ k \notin 1..Len(refs)
          /\ 1..Len(refs') = 1..Len(refs) \cup {k}
          /\ \A n \in 1..Len(refs) : refs'[n] = refs[n]
          /\ refs'[k].id = id
      BY ONLY <2>5, <3>0, Longer
    <3> HIDE DEF k
    <3>2. \A n \in 1..Len(refs) : refs[n].id \in Ids
      BY RefsType DEF TypeInv, TypeOK
    <3>3. \A n \in 1..Len(refs) :
            id \notin Subtree(refs[n].id) /\ refs[n].id \notin Subtree(id)
      <4> SUFFICES ASSUME NEW n \in 1..Len(refs)
                   PROVE  id \notin Subtree(refs[n].id) /\ refs[n].id \notin Subtree(id)
        OBVIOUS
      <4>1. Subtree(refs[n].id) \cap todo = {} /\ Inside[refs[n].id] \notin todo
        BY <2>2 DEF ApartInv
      <4>2. refs[n].id \in Subtree(refs[n].id)
        BY <3>2, Subtrees
      <4> QED BY <4>1, <4>2, <2>1 DEF Subtree
    <3>4. \A n \in 1..Len(refs) :
            /\ Subtree(refs[n].id) \cap Subtree(id) = {}
            /\ Subtree(id) \cap Subtree(refs[n].id) = {}
      BY <2>3, <3>2, <3>3, SubtreesApart
    <3>5. \A m, n \in 1..Len(refs') :
            m # n => Subtree(refs'[m].id) \cap Subtree(refs'[n].id) = {}
      <4>1. \A m, n \in 1..Len(refs) :
              m # n => Subtree(refs[m].id) \cap Subtree(refs[n].id) = {}
        BY DEF ApartInv
      <4> QED BY ONLY <3>1, <3>4, <4>1
    <3>6. \A n \in 1..Len(refs') :
            Subtree(refs'[n].id) \cap todo' = {} /\ Inside[refs'[n].id] \notin todo'
      BY <2>1, <2>2, <2>3, <3>1 DEF ApartInv
    <3> QED BY <1>i, <2>2, <3>5, <3>6 DEF ApartInv
  <2> QED BY <2>1, <2>4, <2>5
<1>3. CASE Begin
  <2>1. refs' = <<>> /\ pc' \in {"walk", "failed"}
    BY <1>3 DEF Begin, Fail, ApartInv
  <2> QED BY <2>1 DEF ApartInv
<1>4. CASE EndWalk \/ MetadataExpires \/ RuntimeAnswers
  BY <1>4, <1>i DEF ApartInv, EndWalk, MetadataExpires, RuntimeAnswers, AfterMetadata
<1>5. CASE Match
  <2>1. pc' \in {"sample1", "failed"}
    BY <1>5 DEF Match, Fail
  <2>2. refs' = refs \/ \E n : refs' = <<refs[n]>>
    BY <1>5, Zenon DEF Match, Fail
  <2>3. CASE refs' = refs
    BY <1>i, <2>1, <2>3 DEF ApartInv
  <2>4. ASSUME NEW n, refs' = <<refs[n]>> PROVE ApartInv'
    <3>1. \A m \in 1..Len(refs') : m = 1
      BY <2>4
    <3> QED BY <2>1, <3>1 DEF ApartInv
  <2> QED BY <2>2, <2>3, <2>4
<1>6. CASE \/ SampleStat \/ SampleRead \/ EndSample1 \/ SleepElapses
               \/ SleepCancelled \/ EndSample2
           \/ ReportStep
  BY <1>6, <1>i, LaterStep DEF ApartInv, Sampling, Reporting, Filling
<1> QED BY <1>1, <1>2, <1>3, <1>4, <1>5, <1>6, StepSplit, StepParts DEF Step

\* What a counter grew by, nothing when there is no sample or it went backwards.
Over(now, was) ==
  IF was = None \/ now = None THEN 0
  ELSE IF now < was THEN 0 ELSE now - was

\* What a container has burned since its first sample s[n], up to the second one t[n]
\* or, while there is none, up to now.
BurnedBy(r, now, s, t, n) ==
  IF n > Len(s) THEN 0
  ELSE IF n > Len(t) THEN Over(now[r[n].id], s[n])
  ELSE Over(t[n], s[n])

Burned(n)  == BurnedBy(refs, usage, usage1, usage2, n)
Burns      == [n \in 1..Len(refs) |-> Burned(n)]
BurnsBelow == [n \in 1..Len(refs) |-> IF n < i THEN Burned(n) ELSE 0]

Total == SumOver(Burns, 1..Len(refs))

\* A counter's growth is a natural number, grows no faster than the counter, and is none
\* when the counter starts again.
LEMMA OverFacts ==
  \A was \in Nat \cup {None} :
    /\ \A now \in Nat \cup {None} : Over(now, was) \in Nat
    /\ \A now, more \in Nat : Over(now + more, was) <= Over(now, was) + more
    /\ Over(0, was) = 0 /\ Over(None, was) = 0 /\ Over(was, was) = 0
BY CgroupAssumption DEF Over

\* What was burned is a natural number.
LEMMA BurnedType ==
  ASSUME NEW r \in Seq(Ref), NEW now \in [Ids -> Nat],
         NEW s \in Seq(Nat \cup {None}), NEW t \in Seq(Nat \cup {None}),
         NEW n \in 1..Len(r)
  PROVE  BurnedBy(r, now, s, t, n) \in Nat
<1>1. Len(s) \in Nat /\ Len(t) \in Nat /\ n \in Nat \ {0}
  OBVIOUS
<1>2. r[n].id \in Ids
  <2>1. r[n] \in Ref
    OBVIOUS
  <2> QED BY ONLY <2>1 DEF Ref
<1>3. /\ n <= Len(s) => s[n] \in Nat \cup {None}
      /\ n <= Len(t) => t[n] \in Nat \cup {None}
      /\ now[r[n].id] \in Nat \cup {None}
  BY <1>1, <1>2
<1>4. \A was, is \in Nat \cup {None} : Over(is, was) \in Nat
  BY OverFacts
<1>5. CASE n > Len(s)
  BY ONLY <1>5 DEF BurnedBy
<1>6. CASE n <= Len(s) /\ n > Len(t)
  BY ONLY <1>1, <1>3, <1>4, <1>6 DEF BurnedBy
<1>7. CASE n <= Len(s) /\ n <= Len(t)
  BY ONLY <1>1, <1>3, <1>4, <1>7 DEF BurnedBy
<1> QED BY <1>1, <1>5, <1>6, <1>7

\* Types of what was burned.
LEMMA BurnsType ==
  ASSUME TypeInv
  PROVE  /\ \A n \in 1..Len(refs) : Burned(n) \in Nat
         /\ Burns \in [1..Len(refs) -> Nat] /\ BurnsBelow \in [1..Len(refs) -> Nat]
         /\ IsFiniteSet(1..Len(refs))
<1>1. \A n \in 1..Len(refs) : Burned(n) \in Nat
  BY BurnedType DEF Burned, TypeInv, TypeOK, CgroupTypeOK
<1>2. IsFiniteSet(1..Len(refs))
  BY RefsType, FS_Interval DEF TypeInv, TypeOK
<1> QED BY <1>1, <1>2 DEF Burns, BurnsBelow

\* The samples of the containers found.
LEMMA SamplesType ==
  ASSUME TypeInv, NEW n \in 1..Len(refs)
  PROVE  /\ refs[n].id \in Ids /\ usage[refs[n].id] \in Nat
         /\ Len(usage1) \in Nat /\ Len(usage2) \in Nat /\ n \in Nat \ {0}
         /\ n <= Len(usage1) => usage1[n] \in Nat \cup {None}
         /\ n <= Len(usage2) => usage2[n] \in Nat \cup {None}
<1>1. /\ usage1 \in Seq(Nat \cup {None}) /\ usage2 \in Seq(Nat \cup {None})
      /\ usage \in [Ids -> Nat] /\ refs \in Seq(Ref)
  BY DEF TypeInv, TypeOK, CgroupTypeOK
<1>2. refs[n].id \in Ids
  BY <1>1, RefsType
<1> QED BY ONLY <1>1, <1>2, n \in 1..Len(refs)

\* The sum falls, or stays, when none of what was burned grows.
LEMMA BurnsFall ==
  ASSUME TypeInv, TypeInv', refs' = refs,
         \A n \in 1..Len(refs) : Burned(n)' <= Burned(n)
  PROVE  Total' \in Nat /\ Total' <= Total
<1> DEFINE S == 1..Len(refs)
           f == Burns'
           h == Burns
<1>1. /\ f \in [S -> Nat] /\ h \in [S -> Nat] /\ IsFiniteSet(S)
      /\ (1..Len(refs))' = S
      /\ \A c \in S : f[c] <= h[c]
  <2>1. h \in [S -> Nat] /\ IsFiniteSet(S) /\ (1..Len(refs))' = S
    BY BurnsType
  <2>2. \A n \in S : Burned(n)' \in Nat
    BY BurnedType DEF Burned, TypeInv, TypeOK, CgroupTypeOK
  <2>3. f = [n \in S |-> Burned(n)']
    BY DEF Burns
  <2>4. \A c \in S : f[c] = Burned(c)' /\ h[c] = Burned(c)
    BY <2>3 DEF Burns
  <2> QED BY <2>1, <2>2, <2>3, <2>4
<1> HIDE DEF S, f, h
<1>2. SumOver(f, S) <= SumOver(h, S)
  BY <1>1, SumMonotonic
<1>3. SumOver(f, S) \in Nat
  BY <1>1, SumNat
<1>4. Total' = SumOver(f, S) /\ Total = SumOver(h, S)
  BY DEF Total, S, f, h
<1> QED BY <1>2, <1>3, <1>4

\* A cgroup's counter that starts again takes nothing more.
LEMMA BurnsRestart ==
  ASSUME TypeInv, TypeInv', Cancel \/ Lifecycle \/ Write \/ UNCHANGED vars
  PROVE  /\ refs' = refs /\ clock' = clock
         /\ Total' \in Nat /\ Total' <= Total
<1>1. UNCHANGED callVars
  BY DEF Cancel, Lifecycle, Write, Touch, vars
<1>2. /\ clock' = clock
      /\ \A id \in Ids : usage'[id] = usage[id] \/ usage'[id] = 0
  <2>1. CASE Cancel \/ Write \/ UNCHANGED vars
    BY <2>1 DEF Cancel, Write, Touch, vars, cgroupVars
  <2>2. ASSUME NEW id \in Ids, Create(id)
        PROVE  /\ clock' = clock
               /\ \A j \in Ids : usage'[j] = usage[j] \/ usage'[j] = 0
    BY <2>2 DEF Create, TypeInv, TypeOK, CgroupTypeOK
  <2>3. CASE Lifecycle /\ ~ \E id \in Ids : Create(id)
    BY <2>3 DEF Lifecycle, Churn, Rmdir, Enter, Leave
  <2> QED BY <2>1, <2>2, <2>3
<1>3. ASSUME NEW n \in 1..Len(refs) PROVE Burned(n)' <= Burned(n)
  <2>1. /\ refs[n].id \in Ids /\ usage[refs[n].id] \in Nat
        /\ Len(usage1) \in Nat /\ Len(usage2) \in Nat /\ n \in Nat \ {0}
        /\ n <= Len(usage1) => usage1[n] \in Nat \cup {None}
    BY SamplesType
  <2>2. Burned(n)' = BurnedBy(refs, usage', usage1, usage2, n)
    BY <1>1 DEF Burned, BurnedBy, callVars
  <2>3. Burned(n) \in Nat
    BY BurnsType
  <2>4. CASE n <= Len(usage1) /\ n > Len(usage2) /\ usage'[refs[n].id] = 0
    <3>1. usage1[n] \in Nat \cup {None}
      BY <2>1, <2>4
    <3>2. Burned(n)' = 0
      BY <2>1, <2>2, <2>4, <3>1, OverFacts DEF BurnedBy
    <3> QED BY <2>3, <3>2
  <2>5. CASE ~ (n <= Len(usage1) /\ n > Len(usage2) /\ usage'[refs[n].id] = 0)
    <3>1. Burned(n)' = Burned(n)
      BY <1>2, <2>1, <2>2, <2>5 DEF Burned, BurnedBy
    <3> QED BY <2>3, <3>1
  <2> QED BY <2>4, <2>5
<1> QED BY <1>1, <1>2, <1>3, BurnsFall DEF callVars

\* In a tick the containers found burn no more than the host has, since what one burns
\* none of the others does.
LEMMA BurnsTick ==
  ASSUME TypeInv, TypeInv', ApartInv, Time
  PROVE  /\ refs' = refs /\ clock' = clock + 1
         /\ Total' \in Nat /\ Total' <= Total + Cores
<1>1. UNCHANGED callVars /\ clock' = clock + 1
  BY DEF Time, Elapse
<1>2. PICK d \in [Ids -> 0..Cores] :
        /\ SumFunction(d) <= Cores
        /\ usage' = [id \in Ids |-> usage[id] + SumFunctionOnSet(d, Subtree(id))]
  BY DEF Time, Elapse
<1> DEFINE S == 1..Len(refs)
           A == [n \in S |-> Subtree(refs[n].id)]
           F == [n \in S |-> SumFunctionOnSet(d, Subtree(refs[n].id))]
<1>3. /\ d \in [Ids -> Nat] /\ SumOver(d, Ids) <= Cores /\ IsFiniteSet(Ids)
      /\ \A T \in SUBSET Ids : /\ SumFunctionOnSet(d, T) = SumOver(d, T)
                               /\ SumFunctionOnSet(d, T) \in Nat
  BY <1>2, SumsAre, CgroupAssumption
<1>4. /\ A \in [S -> SUBSET Ids] /\ F \in [S -> Nat]
      /\ \A n \in S : F[n] = SumOver(d, A[n])
      /\ \A m, n \in S : m # n => A[m] \cap A[n] = {}
  <2>1. \A n \in S : Subtree(refs[n].id) \in SUBSET Ids
    BY RefsType, Subtrees DEF TypeInv, TypeOK
  <2> QED BY <1>3, <2>1 DEF ApartInv
<1>5. IsFiniteSet(S) /\ Burns \in [S -> Nat]
  BY BurnsType
<1>6. ASSUME NEW n \in S PROVE Burned(n)' \in Nat /\ Burned(n)' <= Burned(n) + F[n]
  <2>1. /\ refs[n].id \in Ids /\ usage[refs[n].id] \in Nat
        /\ Len(usage1) \in Nat /\ Len(usage2) \in Nat /\ n \in Nat \ {0}
        /\ n <= Len(usage1) => usage1[n] \in Nat \cup {None}
    BY SamplesType
  <2>2. Burned(n)' = BurnedBy(refs, usage', usage1, usage2, n)
    BY <1>1 DEF Burned, BurnedBy, callVars
  <2>3. Burned(n) \in Nat /\ F[n] \in Nat
    BY <1>4, BurnsType
  <2>4. Burned(n)' \in Nat
    <3>1. usage' \in [Ids -> Nat]
      BY DEF TypeInv, TypeOK, CgroupTypeOK
    <3>2. /\ refs \in Seq(Ref) /\ usage1 \in Seq(Nat \cup {None})
          /\ usage2 \in Seq(Nat \cup {None})
      BY DEF TypeInv, TypeOK
    <3>3. BurnedBy(refs, usage', usage1, usage2, n) \in Nat
      BY ONLY <3>1, <3>2, n \in S, BurnedType
    <3> QED BY <2>2, <3>3
  <2>5. usage'[refs[n].id] = usage[refs[n].id] + F[n]
    BY <1>2, <2>1
  <2> HIDE DEF F
  <2>6. CASE n <= Len(usage1) /\ n > Len(usage2)
    <3>1. usage1[n] \in Nat \cup {None}
      BY <2>1, <2>6
    <3>2. /\ Burned(n)' = Over(usage[refs[n].id] + F[n], usage1[n])
          /\ Burned(n) = Over(usage[refs[n].id], usage1[n])
      BY <2>1, <2>2, <2>5, <2>6 DEF Burned, BurnedBy
    <3>3. Over(usage[refs[n].id] + F[n], usage1[n])
            <= Over(usage[refs[n].id], usage1[n]) + F[n]
      BY <2>1, <2>3, <3>1, OverFacts
    <3> QED BY <2>4, <3>2, <3>3
  <2>7. CASE ~ (n <= Len(usage1) /\ n > Len(usage2))
    <3>1. Burned(n)' = Burned(n)
      BY <2>1, <2>2, <2>7 DEF Burned, BurnedBy
    <3> QED BY <2>3, <2>4, <3>1
  <2> QED BY <2>6, <2>7
<1>7. refs' = refs
  BY <1>1 DEF callVars
<1> DEFINE b == Burns
           c == Burns'
           e == [n \in S |-> b[n] + F[n]]
<1>8. /\ b \in [S -> Nat] /\ c \in [S -> Nat] /\ e \in [S -> Nat]
      /\ \A n \in S : c[n] <= e[n]
  <2>1. c = [n \in S |-> Burned(n)']
    BY <1>7 DEF Burns
  <2>2. \A n \in S : c[n] = Burned(n)' /\ b[n] = Burned(n) /\ e[n] = b[n] + F[n]
    BY <2>1 DEF Burns
  <2>3. b \in [S -> Nat] /\ e \in [S -> Nat]
    BY <1>4, <1>5
  <2> HIDE DEF F, b, c, e
  <2> QED BY <1>6, <2>1, <2>2, <2>3
<1> HIDE DEF S, A, F, b, c
<1>9. SumOver(F, S) <= SumOver(d, Ids)
  BY ONLY <1>3, <1>4, <1>5, SumDisjoint
<1>10. SumOver(e, S) = SumOver(b, S) + SumOver(F, S)
  BY ONLY <1>4, <1>5, <1>8, SumAdds
<1> HIDE DEF e
<1>11. SumOver(c, S) <= SumOver(e, S)
  BY ONLY <1>5, <1>8, SumMonotonic
<1>12. /\ SumOver(F, S) \in Nat /\ SumOver(b, S) \in Nat /\ SumOver(c, S) \in Nat
       /\ SumOver(e, S) \in Nat /\ SumOver(d, Ids) \in Nat /\ Cores \in Nat
  BY <1>3, <1>4, <1>5, <1>8, SumNat, CgroupAssumption
<1>13. SumOver(c, S) <= SumOver(b, S) + Cores
  BY ONLY <1>3, <1>9, <1>10, <1>11, <1>12
<1>14. Total' = SumOver(c, S) /\ Total = SumOver(b, S)
  BY <1>7 DEF Total, S, b, c
<1> QED BY <1>1, <1>7, <1>12, <1>13, <1>14

\* While sampling, and in the report, what was burned since the first sample fits in the
\* time since; and the rows reported add up to no more than was burned of it.
BurnInv ==
  /\ pc \in Sampling  => Total <= Cores * (clock - begun)
  /\ pc \in Reporting => Total <= Cores * (elapsed + (start - begun))

RowsInv ==
  pc \in Reporting =>
    SumOver(CPUOf(out), 1..Len(out)) <= SumOver(BurnsBelow, 1..Len(refs))

\* The total is a natural number.
LEMMA TotalType == TypeInv => Total \in Nat
BY BurnsType, SumNat DEF Total

\* The total depends on nothing else.
LEMMA TotalKept ==
  ASSUME UNCHANGED <<refs, usage1, usage2, usage>>, TypeInv
  PROVE  Total' = Total /\ Total \in Nat
<1>1. Burns' = Burns
  BY DEF Burns, Burned, BurnedBy
<1> QED BY <1>1, TotalType DEF Total

\* Without a sample nothing was burned yet.
LEMMA NothingYet ==
  ASSUME TypeInv', usage1' = <<>>
  PROVE  Total' = 0
<1> DEFINE S == 1..Len(refs')
           f == Burns'
<1>1. f \in [S -> Nat] /\ \A n \in S : f[n] <= 0
  BY DEF Burns, Burned, BurnedBy
<1>2. IsFiniteSet(S)
  BY FS_Interval DEF TypeInv, TypeOK
<1>3. Total' = SumOver(f, S)
  BY DEF Total
<1> HIDE DEF S, f
<1>4. SumOver(f, S) <= 0 * Cardinality(S) /\ SumOver(f, S) \in Nat
  BY <1>1, <1>2, SumBounded, SumNat
<1>5. Cardinality(S) \in Nat
  BY <1>2, FS_CardinalityType
<1> QED BY <1>3, <1>4, <1>5

\* A sample counts what was burned up to now, or nothing.
LEMMA BurnsSampled ==
  ASSUME TypeInv, TypeInv', UNCHANGED <<usage, clock>>, NEW value,
         pc \in {"sample1", "sample2"}, i <= Len(refs),
         value = None \/ value = usage[refs[i].id], Sampled(value)
  PROVE  Total' \in Nat /\ Total' <= Total
<1>1. refs' = refs
  BY DEF Sampled
<1>2. ASSUME NEW n \in 1..Len(refs) PROVE Burned(n)' <= Burned(n)
  <2>1. /\ refs[n].id \in Ids /\ usage[refs[n].id] \in Nat
        /\ Len(usage1) \in Nat /\ Len(usage2) \in Nat /\ n \in Nat \ {0}
        /\ n <= Len(usage1) => usage1[n] \in Nat \cup {None}
    BY SamplesType
  <2>2. Burned(n)' = BurnedBy(refs, usage, usage1', usage2', n)
    BY <1>1 DEF Burned, BurnedBy
  <2>3. Burned(n) \in Nat
    BY BurnsType
  <2>4. i \in Nat
    BY DEF TypeInv, TypeOK
  <2>5. CASE pc = "sample1"
    <3>1. /\ usage1 \in Seq(Nat \cup {None}) /\ usage2 = <<>> /\ Len(usage1) = i - 1
      BY <2>5 DEF TypeInv, TypeOK, PhaseInv
    <3>2. usage1' = Append(usage1, value) /\ usage2' = <<>>
      BY <2>5, <3>1 DEF Sampled
    <3>3. /\ Len(usage1') = i /\ usage1'[i] = value
          /\ \A k \in 1..Len(usage1) : usage1'[k] = usage1[k]
      BY <2>4, <3>1, <3>2
    <3>4. CASE n = i
      <4>1. value \in Nat \cup {None} /\ (value = None \/ value = usage[refs[n].id])
        BY <2>1, <3>4
      <4>2. Over(usage[refs[n].id], value) = 0
        BY <2>1, <4>1, OverFacts DEF Over
      <4>3. Burned(n)' = 0
        BY <2>1, <2>2, <3>2, <3>3, <3>4, <4>2 DEF BurnedBy
      <4> QED BY <2>3, <4>3
    <3>5. CASE n # i
      <4>1. Burned(n)' = Burned(n)
        BY <2>1, <2>2, <2>4, <3>1, <3>2, <3>3, <3>5 DEF Burned, BurnedBy
      <4> QED BY <2>3, <4>1
    <3> QED BY <3>4, <3>5
  <2>6. CASE pc = "sample2"
    <3>1. /\ usage2 \in Seq(Nat \cup {None}) /\ Len(usage1) = Len(refs)
          /\ Len(usage2) = i - 1
      BY <2>6 DEF TypeInv, TypeOK, PhaseInv
    <3>2. usage2' = Append(usage2, value) /\ usage1' = usage1
      BY <2>6 DEF Sampled
    <3>3. /\ Len(usage2') = i /\ usage2'[i] = value
          /\ \A k \in 1..Len(usage2) : usage2'[k] = usage2[k]
      BY <2>4, <3>1, <3>2
    <3>4. CASE n = i
      <4>1. /\ usage1[n] \in Nat \cup {None} /\ n <= Len(usage1)
        BY <2>1, <3>1
      <4>2. /\ Burned(n)' = Over(value, usage1[n])
            /\ Burned(n) = Over(usage[refs[n].id], usage1[n])
        BY <2>1, <2>2, <3>1, <3>2, <3>3, <3>4, <4>1 DEF Burned, BurnedBy
      <4>3. value = None => Over(value, usage1[n]) = 0
        BY <4>1, OverFacts
      <4>4. CASE value = None
        BY <2>3, <4>2, <4>3, <4>4
      <4>5. CASE value = usage[refs[n].id]
        BY <2>3, <4>2, <4>5
      <4> QED BY <3>4, <4>4, <4>5
    <3>5. CASE n # i
      <4>1. Burned(n)' = Burned(n)
        BY <2>1, <2>2, <2>4, <3>1, <3>2, <3>3, <3>5 DEF Burned, BurnedBy
      <4> QED BY <2>3, <4>1
    <3> QED BY <3>4, <3>5
  <2> QED BY <2>5, <2>6
<1> QED BY <1>1, <1>2, BurnsFall

\* What was burned fits, whatever happens next.
LEMMA BurnStays == TypeInv /\ TypeInv' /\ ApartInv /\ BurnInv /\ [Next]_vars => BurnInv'
<1> SUFFICES ASSUME TypeInv, TypeInv', ApartInv, BurnInv, [Next]_vars PROVE BurnInv'
  OBVIOUS
<1> USE DEF Sampling, Reporting, Filling
<1>t. /\ Total \in Nat
      /\ Cores \in Nat /\ clock \in Nat /\ begun \in Nat /\ start \in Nat
      /\ elapsed \in Nat /\ (pc \in Sampling => begun <= clock)
      /\ (pc = "sample2" => begun <= start)
  BY TotalType, CgroupAssumption DEF TypeInv, TypeOK, CgroupTypeOK, TimeInv
<1>1. CASE Cancel \/ Lifecycle \/ Write \/ UNCHANGED vars
  <2>1. UNCHANGED callVars
    BY <1>1 DEF Cancel, Lifecycle, Write, Touch, vars
  <2>2. refs' = refs /\ clock' = clock /\ Total' \in Nat /\ Total' <= Total
    BY <1>1, BurnsRestart
  <2>3. Cores * (clock - begun) \in Int /\ Cores * (elapsed + (start - begun)) \in Int
    BY <1>t
  <2> QED BY <1>t, <2>1, <2>2, <2>3 DEF BurnInv, callVars
<1>2. CASE Time
  <2>1. /\ UNCHANGED callVars /\ pc \notin Reporting
    BY <1>2 DEF Time
  <2>2. /\ refs' = refs /\ clock' = clock + 1
        /\ Total' \in Nat /\ Total' <= Total + Cores
    BY <1>2, BurnsTick
  <2>3. CASE pc \in Sampling
    <3>1. Total <= Cores * (clock - begun)
      BY <2>3 DEF BurnInv
    <3>2. /\ Cores * ((clock - begun) + 1) = Cores * (clock - begun) + Cores
          /\ Cores * (clock - begun) \in Nat
      BY <1>t, <2>3, OneMore
    <3>3. (clock + 1) - begun = (clock - begun) + 1
      BY <1>t
    <3>4. Total' <= Cores * (clock' - begun)
      BY <1>t, <2>2, <3>1, <3>2, <3>3
    <3> QED BY <2>1, <3>4 DEF BurnInv, callVars
  <2> QED BY <2>1, <2>3 DEF BurnInv, callVars
<1>3. CASE Step
  <2>1. /\ CallStep \/ RuntimeAnswers
        /\ UNCHANGED <<clock, usage>>
    BY <1>3 DEF Step, envVars, cgroupVars
  <2>2. CASE Begin \/ Visit \/ EndWalk \/ MetadataExpires \/ RuntimeAnswers
    <3>1. pc' \notin Sampling \cup Reporting
      BY <2>2, VisitEffect DEF Begin, EndWalk, MetadataExpires, RuntimeAnswers,
           AfterMetadata, Fail
    <3> QED BY <3>1 DEF BurnInv
  <2>3. CASE Match
    <3>1. CASE pc' = "failed"
      BY <3>1 DEF BurnInv
    <3>2. CASE pc' # "failed"
      <4>1. pc' = "sample1" /\ begun' = clock /\ usage1' = <<>>
        BY <2>3, <3>2 DEF Match, Fail, TypeInv, PhaseInv, Finding
      <4>2. Total' = 0
        BY <4>1, NothingYet
      <4>3. Cores * (clock - clock) = 0
        BY <1>t
      <4> QED BY <2>1, <4>1, <4>2, <4>3 DEF BurnInv
    <3> QED BY <3>1, <3>2
  <2>4. CASE SampleStat \/ SampleRead
    <3>1. pc \in {"sample1", "sample2"} /\ i <= Len(refs)
      BY <2>4 DEF SampleStat, SampleRead
    <3>2. CASE pc' = "failed"
      BY <3>2 DEF BurnInv
    <3>3. CASE pc' # "failed"
      <4>1. pc' = pc /\ begun' = begun
        BY <2>4, <3>3 DEF SampleStat, SampleRead, Sampled, Fail
      <4>2. \/ \E value : /\ value = None \/ value = usage[refs[i].id]
                          /\ Sampled(value)
            \/ UNCHANGED <<refs, usage1, usage2>>
        BY <2>4, <3>3, Zenon DEF SampleStat, SampleRead, Fail
      <4>3. Total' \in Nat /\ Total' <= Total
        BY <2>1, <3>1, <4>2, BurnsSampled, TotalKept
      <4>4. Total <= Cores * (clock - begun) /\ Cores * (clock - begun) \in Nat
        BY <1>t, <3>1 DEF BurnInv
      <4> QED BY <1>t, <2>1, <3>1, <4>1, <4>3, <4>4 DEF BurnInv
    <3> QED BY <3>2, <3>3
  <2>5. CASE EndSample1 \/ SleepElapses \/ SleepCancelled
    <3>1. pc \in Sampling /\ (pc' \in Sampling \cup {"failed"})
          /\ UNCHANGED <<refs, usage1, usage2, begun>>
      BY <2>5 DEF EndSample1, SleepElapses, SleepCancelled, Fail
    <3> QED BY <1>t, <2>1, <3>1, TotalKept DEF BurnInv
  <2>6. CASE EndSample2
    <3>1. /\ pc = "sample2" /\ pc' = "memory" /\ elapsed' = clock - start
          /\ UNCHANGED <<refs, usage1, usage2, begun, start>>
      BY <2>6 DEF EndSample2
    <3>2. (clock - start) + (start - begun) = clock - begun
      BY <1>t
    <3> QED BY <1>t, <2>1, <3>1, <3>2, TotalKept DEF BurnInv
  <2>7. CASE ReportStep
    <3>1. /\ pc \in Reporting /\ (pc' \in Reporting \cup {"failed"})
          /\ UNCHANGED <<refs, usage1, usage2, begun, start, elapsed>>
      BY <2>7 DEF ReportStep, ReadMemory, StatCounters, ReadCounters, StatNetwork,
           ReadNetwork, AfterNetwork, FindLayer, LayerCancelled, LayerUnreadable,
           OpenLayer, LayerEntry, CountFile, SkipFile, LayerDone, Return, Drop,
           Continue, Finish, Fail
    <3> QED BY <1>t, <2>1, <3>1, TotalKept DEF BurnInv
  <2> QED BY <2>1, <2>2, <2>3, <2>4, <2>5, <2>6, <2>7, StepParts
<1> QED BY <1>1, <1>2, <1>3, StepSplit DEF EnvStep

\* The figures of rows are numbers.
LEMMA CPUType ==
  ASSUME NEW rows \in Seq(Row)
  PROVE  /\ CPUOf(rows) \in [1..Len(rows) -> Nat] /\ IsFiniteSet(1..Len(rows))
         /\ Len(rows) \in Nat
         /\ SumOver(CPUOf(rows), 1..Len(rows)) \in Nat
         /\ SumFunction(CPUOf(rows)) = SumOver(CPUOf(rows), 1..Len(rows))
<1> DEFINE S == 1..Len(rows)
           f == CPUOf(rows)
<1>1. \A n \in S : rows[n] \in Row
  OBVIOUS
<1>2. f \in [S -> Nat] /\ IsFiniteSet(S) /\ DOMAIN f = S /\ Len(rows) \in Nat
  <2>1. f = [n \in S |-> rows[n].cpu] /\ Len(rows) \in Nat
    BY DEF CPUOf
  <2>2. \A n \in S : rows[n].cpu \in Nat
    BY <1>1 DEF Row
  <2>3. IsFiniteSet(S)
    BY <2>1, FS_Interval
  <2> QED BY <2>1, <2>2, <2>3
<1> HIDE DEF S, f
<1>3. SumOver(f, S) \in Nat /\ SumFunction(f) = SumOver(f, S)
  BY <1>2, SumNat, FunctionUnfold
<1> QED BY <1>2, <1>3 DEF S, f

\* A row is charged no more than its container is known to have burned.
LEMMA ChargedBurned ==
  ASSUME TypeInv, pc \in Reporting, i <= Len(refs)
  PROVE  CoresUsed(i) \in Nat /\ Burned(i) \in Nat /\ CoresUsed(i) <= Burned(i)
<1>1. i \in 1..Len(refs) /\ Len(usage1) = Len(refs) /\ Len(usage2) = Len(refs)
  BY DEF TypeInv, TypeOK, PhaseInv
<1>2. /\ usage1[i] \in Nat \cup {None} /\ usage2[i] \in Nat \cup {None}
      /\ i \in Nat /\ Len(refs) \in Nat
  BY <1>1, SamplesType
<1>3. Burned(i) = Over(usage2[i], usage1[i])
  BY <1>1, <1>2 DEF Burned, BurnedBy
<1>4. CoresUsed(i) \in Nat /\ Burned(i) \in Nat
  BY <1>1, CoresUsedType, BurnsType
<1>5. elapsed \in Nat
  BY DEF TypeInv, TypeOK
<1> QED BY <1>2, <1>3, <1>4, <1>5 DEF CoresUsed, Over

\* In the report, what was burned is settled.
LEMMA BurnedSettled ==
  ASSUME TypeInv, pc \in Reporting, UNCHANGED <<refs, usage1, usage2>>,
         NEW n \in 1..Len(refs)
  PROVE  Burned(n)' = Burned(n)
<1>1. Len(usage1) = Len(refs) /\ Len(usage2) = Len(refs)
  BY DEF TypeInv, PhaseInv
<1>2. n <= Len(refs) /\ n \in Nat /\ Len(refs) \in Nat
  BY RefsType DEF TypeInv, TypeOK
<1> QED BY <1>1, <1>2 DEF Burned, BurnedBy

\* In the report, what was burned of the containers before the one of the loop only
\* grows as the loop goes on.
LEMMA BelowGrows ==
  ASSUME TypeInv, pc \in Reporting, UNCHANGED <<refs, usage1, usage2>>,
         i' = i \/ i' = i + 1
  PROVE  LET now   == SumOver(BurnsBelow, 1..Len(refs))
             later == SumOver(BurnsBelow, 1..Len(refs))'
         IN /\ now \in Nat /\ later \in Nat
            /\ i' = i => later = now
            /\ i' = i + 1 /\ i <= Len(refs) => later = now + Burned(i)
            /\ later >= now
<1> DEFINE S == 1..Len(refs)
           f == BurnsBelow
           h == BurnsBelow'
<1>1. /\ f \in [S -> Nat] /\ IsFiniteSet(S) /\ \A n \in S : Burned(n) \in Nat
      /\ i \in Nat \ {0} /\ Len(refs) \in Nat
  BY BurnsType, RefsType DEF TypeInv, TypeOK
<1>2. /\ f = [n \in S |-> IF n < i THEN Burned(n) ELSE 0]
      /\ h = [n \in S |-> IF n < i' THEN Burned(n) ELSE 0]
  BY BurnedSettled DEF BurnsBelow
<1>3. h \in [S -> Nat]
  BY <1>1, <1>2
<1>4. i' = i + 1 => \A n \in S \ {i} : h[n] = f[n]
  BY <1>1, <1>2
<1>5. i' = i + 1 /\ i \in S => h[i] = f[i] + Burned(i)
  BY <1>1, <1>2
<1>6. i' = i \/ (i' = i + 1 /\ i \notin S) => h = f
  <2>1. i' = i + 1 /\ i \notin S => \A n \in S : n < i' <=> n < i
    BY <1>1
  <2> QED BY <1>2, <2>1
<1>7. i <= Len(refs) => i \in S
  BY <1>1
<1>8. (1..Len(refs))' = S
  OBVIOUS
<1> HIDE DEF S, f, h
<1>9. SumOver(f, S) \in Nat /\ SumOver(h, S) \in Nat
  BY <1>1, <1>3, SumNat
<1>10. i' = i + 1 /\ i \in S => SumOver(h, S) = SumOver(f, S) + Burned(i)
  <2> SUFFICES ASSUME i' = i + 1, i \in S
               PROVE  SumOver(h, S) = SumOver(f, S) + Burned(i)
    OBVIOUS
  <2> DEFINE x == Burned(i)
             k == i
  <2>1. /\ x \in Nat /\ k \in S /\ h[k] = f[k] + x
        /\ \A n \in S \ {k} : h[n] = f[n]
    BY <1>1, <1>4, <1>5
  <2>f. f \in [S -> Nat] /\ IsFiniteSet(S)
    BY <1>1
  <2> HIDE DEF x, k
  <2>2. SumOver(h, S) = SumOver(f, S) + x
    BY ONLY <1>3, <2>1, <2>f, SumPoint
  <2> QED BY <2>2 DEF x
<1>11. i' = i \/ (i' = i + 1 /\ i \notin S) => SumOver(h, S) = SumOver(f, S)
  BY <1>6
<1>12. SumOver(h, S) >= SumOver(f, S)
  BY <1>1, <1>9, <1>10, <1>11
<1>13. /\ i' = i => SumOver(h, S) = SumOver(f, S)
       /\ i' = i + 1 /\ i <= Len(refs) => SumOver(h, S) = SumOver(f, S) + Burned(i)
  BY <1>7, <1>10, <1>11
<1> QED BY <1>8, <1>9, <1>12, <1>13 DEF S, f, h

\* A row more adds its figure.
LEMMA OneRowMore ==
  ASSUME NEW rows \in Seq(Row), NEW q \in Row
  PROVE  LET more == Append(rows, q)
         IN SumOver(CPUOf(more), 1..Len(more))
              = SumOver(CPUOf(rows), 1..Len(rows)) + q.cpu
<1> DEFINE more == Append(rows, q)
           k == Len(rows) + 1
           S == 1..Len(more)
           f == CPUOf(more)
           h == CPUOf(rows)
<1>1. /\ more \in Seq(Row) /\ Len(more) = k /\ more[k] = q
      /\ \A n \in 1..Len(rows) : more[n] = rows[n]
      /\ Len(rows) \in Nat
  OBVIOUS
<1>2. k \in S /\ S \ {k} = 1..Len(rows)
  BY <1>1
<1>3. f \in [S -> Nat] /\ h \in [1..Len(rows) -> Nat] /\ IsFiniteSet(S)
  BY <1>1, CPUType
<1>4. f[k] = q.cpu /\ \A n \in 1..Len(rows) : h[n] = f[n]
  BY <1>1 DEF CPUOf
<1> HIDE DEF more, S, f, h, k
<1>5. h \in [S \ {k} -> Nat] /\ \A n \in S \ {k} : h[n] = f[n]
  BY <1>2, <1>3, <1>4
<1>6. SumOver(f, S) = SumOver(h, S \ {k}) + f[k]
  BY ONLY <1>2, <1>3, <1>5, SumInsert
<1> QED BY <1>2, <1>4, <1>6 DEF more, S, f, h, k

\* The rows reported stay within what was burned.
LEMMA RowsStay == TypeInv /\ SteadyInv /\ RowsInv /\ [Next]_vars => RowsInv'
<1> SUFFICES ASSUME TypeInv, SteadyInv, RowsInv, [Next]_vars, TypeInv',
                    pc' \in Reporting
             PROVE  SumOver(CPUOf(out), 1..Len(out))'
                      <= SumOver(BurnsBelow, 1..Len(refs))'
  BY TypesStay DEF RowsInv
<1> DEFINE rows  == SumOver(CPUOf(out), 1..Len(out))
           below == SumOver(BurnsBelow, 1..Len(refs))
<1>t. rows \in Nat /\ below \in Nat /\ i \in Nat
  BY CPUType, BurnsType, SumNat DEF TypeInv, TypeOK
<1>b. pc \in Reporting => rows <= below
  BY DEF RowsInv
<1>1. CASE EnvStep
  <2>1. UNCHANGED callVars
    BY <1>1, EnvTypes DEF TypeInv
  <2>2. pc \in Reporting /\ i' = i /\ UNCHANGED <<refs, usage1, usage2, out>>
    BY <2>1 DEF callVars
  <2>3. below' = below
    BY <2>2, BelowGrows
  <2>4. rows' = rows
    BY <2>2 DEF CPUOf
  <2> QED BY <1>b, <2>2, <2>3, <2>4
<1>2. CASE Step /\ ~ ReportStep
  <2>1. out' = <<>>
    BY <1>2, ReportBegins
  <2>2. rows' = 0
    <3>1. CPUOf(<<>>) \in [{} -> Nat] /\ 1..Len(<<>>) = {}
      BY DEF CPUOf
    <3> QED BY <2>1, <3>1, SumEmpty DEF CPUOf
  <2>3. below' \in Nat
    <3>1. /\ refs' \in Seq(Ref) /\ usage' \in [Ids -> Nat]
          /\ usage1' \in Seq(Nat \cup {None}) /\ usage2' \in Seq(Nat \cup {None})
      BY DEF TypeInv, TypeOK, CgroupTypeOK
    <3>2. \A n \in 1..Len(refs') : BurnedBy(refs', usage', usage1', usage2', n) \in Nat
      BY ONLY <3>1, BurnedType
    <3>3. BurnsBelow' \in [1..Len(refs') -> Nat]
      BY <3>2 DEF BurnsBelow, Burned
    <3>4. IsFiniteSet(1..Len(refs'))
      BY <3>1, FS_Interval
    <3> QED BY <3>3, <3>4, SumNat
  <2> QED BY <2>2, <2>3
<1>3. CASE Step /\ ReportStep
  <2>1. pc \in Reporting /\ UNCHANGED <<refs, usage1, usage2>>
    BY <1>3 DEF ReportStep, ReadMemory, StatCounters, ReadCounters, StatNetwork,
         ReadNetwork, AfterNetwork, FindLayer, LayerCancelled, LayerUnreadable,
         OpenLayer, LayerEntry, CountFile, SkipFile, LayerDone, Return, Drop,
         Continue, Finish, Fail, Reporting, Filling
  <2>2. CASE out' = out
    <3>1. i' = i \/ i' = i + 1
      BY <1>3, <2>2, Unreported
    <3>2. below' \in Nat /\ below' >= below
      BY <2>1, <3>1, BelowGrows
    <3>3. rows' = rows
      BY <2>2 DEF CPUOf
    <3> QED BY <1>t, <1>b, <2>1, <3>2, <3>3
  <2>3. CASE out' # out
    <3>1. PICK r \in Row : pc \in Filling /\ Finish(r)
      BY <2>3, Reported
    <3> DEFINE q == [r EXCEPT !.cpu = CoresUsed(i)]
    <3>2. i' = i + 1 /\ out' = Append(out, q) /\ i <= Len(refs)
      BY <3>1 DEF Finish, TypeInv, PhaseInv
    <3>3. CoresUsed(i) \in Nat /\ Burned(i) \in Nat /\ CoresUsed(i) <= Burned(i)
      BY <2>1, <3>2, ChargedBurned
    <3>4. q \in Row /\ q.cpu = CoresUsed(i)
      BY <3>3, RowType DEF Row
    <3>5. out \in Seq(Row)
      BY DEF TypeInv, TypeOK
    <3> HIDE DEF q
    <3>6. rows' = rows + q.cpu
      BY <3>2, <3>4, <3>5, OneRowMore DEF CPUOf
    <3>7. below' = below + Burned(i)
      BY <2>1, <3>2, BelowGrows
    <3> QED BY <1>t, <1>b, <2>1, <3>3, <3>4, <3>6, <3>7
  <2> QED BY <2>2, <2>3
<1> QED BY <1>1, <1>2, <1>3, StepSplit

\* A call that fails leaves its figures as they were.
FailedInv == pc = "failed" => TotalWithinHost

TotalInv == ApartInv /\ BurnInv /\ RowsInv /\ FailedInv

\* The figures reported fit in the window.
LEMMA TotalFits == TypeInv /\ TotalInv => TotalWithinHost
<1> SUFFICES ASSUME TypeInv, TotalInv, pc # "failed", out # <<>>
             PROVE  SumFunction(CPUOf(out)) <= Cores * (elapsed + (start - begun))
  BY DEF TotalInv, FailedInv, TotalWithinHost
<1>1. pc \in Reporting
  BY DEF TypeInv, TypeOK, PhaseInv, Reporting, Filling, Locations, Sampling,
         Layering, Final, Finding
<1> DEFINE below == SumOver(BurnsBelow, 1..Len(refs))
<1>2. SumFunction(CPUOf(out)) \in Nat /\ SumFunction(CPUOf(out)) <= below
  BY <1>1, CPUType DEF TotalInv, RowsInv, TypeInv, TypeOK
<1>3. below <= Total /\ below \in Nat /\ Total \in Nat
  <2> DEFINE S == 1..Len(refs)
             f == BurnsBelow
             h == Burns
  <2>1. f \in [S -> Nat] /\ h \in [S -> Nat] /\ IsFiniteSet(S)
    BY BurnsType
  <2>2. \A n \in S : f[n] <= h[n]
    BY BurnsType DEF BurnsBelow, Burns
  <2> HIDE DEF S, f, h
  <2>3. SumOver(f, S) <= SumOver(h, S) /\ SumOver(f, S) \in Nat
    BY <2>1, <2>2, SumMonotonic, SumNat
  <2> QED BY <2>3, TotalType DEF S, f, h, Total
<1>4. Total <= Cores * (elapsed + (start - begun))
  BY <1>1 DEF TotalInv, BurnInv
<1>5. Cores * (elapsed + (start - begun)) \in Int
  BY CgroupAssumption DEF TypeInv, TypeOK
<1> HIDE DEF below
<1> QED BY <1>2, <1>3, <1>4, <1>5

\* A failure changes no figure.
LEMMA FailedStays == TypeInv /\ TotalInv /\ [Next]_vars => FailedInv'
<1> SUFFICES ASSUME TypeInv, TotalInv, [Next]_vars, pc' = "failed"
             PROVE  TotalWithinHost'
  BY DEF FailedInv
<1>1. UNCHANGED <<out, elapsed, start, begun>>
  <2>1. CASE EnvStep
    BY <2>1, EnvTypes DEF TypeInv, callVars
  <2>2. CASE Step
    <3>1. CASE Begin \/ Visit \/ EndWalk \/ MetadataExpires \/ RuntimeAnswers \/ Match
      BY <3>1, VisitEffect DEF Begin, EndWalk, MetadataExpires, RuntimeAnswers,
         AfterMetadata, Match, Fail
    <3>2. CASE SampleStat \/ SampleRead \/ EndSample1 \/ SleepElapses
                 \/ SleepCancelled \/ EndSample2
      BY <3>2 DEF SampleStat, SampleRead, EndSample1, SleepElapses, SleepCancelled,
         EndSample2, Sampled, Fail
    <3>3. CASE ReportStep
      BY <3>3 DEF ReportStep, ReadMemory, StatCounters, ReadCounters, StatNetwork,
           ReadNetwork, AfterNetwork, FindLayer, LayerCancelled, LayerUnreadable,
           OpenLayer, LayerEntry, CountFile, SkipFile, LayerDone, Return, Drop,
           Continue, Finish, Fail
    <3> QED BY <2>2, <3>1, <3>2, <3>3, StepParts DEF Step
  <2> QED BY <2>1, <2>2, StepSplit
<1> QED BY <1>1, TotalFits DEF TotalWithinHost, CPUOf

\* Added up, the CPU figures of the containers are no more than the host has in the
\* window they are divided by and the time the first samples took before it: no cgroup
\* is counted again inside another (discoverContainers), and one created again mid-call
\* does not inflate it (applyContainerCPUSample).
THEOREM TotalSound == Spec => []TotalWithinHost
<1>1. Init => TotalInv
  <2> SUFFICES ASSUME Init PROVE TotalInv
    OBVIOUS
  <2>1. refs = <<>> /\ pc = "start"
    BY DEF Init
  <2>2. ApartInv
    BY <2>1 DEF ApartInv
  <2> QED BY <2>1, <2>2 DEF TotalInv, BurnInv, RowsInv, FailedInv, Sampling,
                           Reporting, Filling
<1>2. TypeInv /\ SteadyInv /\ TotalInv /\ [Next]_vars => TotalInv'
  BY TypesStay, ApartStays, BurnStays, RowsStay, FailedStays DEF TotalInv
<1> QED BY TypesInit, TypesStay, SteadyInit, SteadyStays, TotalFits, <1>1, <1>2, PTL
        DEF Spec

===============================================================================
