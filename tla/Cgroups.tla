------------------------------ MODULE Cgroups ------------------------------
(***************************************************************************)
(* What the kernel and a container runtime let systats see of containers:  *)
(* their cgroup directories, the processes in them and the CPU time        *)
(* charged to them, and how all of it changes while a call is reading.     *)
(* External to the repository: modelled from the files container.go,       *)
(* container_discover.go and cgroup.go read.                               *)
(*                                                                         *)
(* Version 2 has one directory per cgroup; version 1 has one per           *)
(* controller, removed one after the other (cgroupDirsFor).  The figures   *)
(* of a cgroup include those of the cgroups inside it.                     *)
(***************************************************************************)
EXTENDS Integers, Sequences, FiniteSets, Functions

CONSTANTS
  Ids,        \* container ids, as sequences of digits
  Inside,     \* the container whose cgroup an id's cgroup is in, or None
  Pids,       \* process ids
  Host,       \* stands for processes in no container
  None,       \* no process, no value, not nested
  Versions,   \* cgroup versions the host may run
  Cores,      \* CPU ticks the host has per tick of wall time
  MaxChurn,   \* bound: cgroups, processes and files that come or go in a call
  MaxClock,   \* bound: wall time that passes outside the sampling sleep
  Window      \* CPUSampleWindow in ticks

ASSUME CgroupAssumption ==
  /\ Ids \subseteq Seq(Nat) /\ IsFiniteSet(Ids)
  /\ Inside \in [Ids -> Ids \cup {None}]
  /\ \A id \in Ids : Inside[id] \in Ids => Inside[Inside[id]] = None
  /\ Host \notin Ids /\ None \notin Ids /\ Host # None
  /\ None \notin Nat /\ None \notin Pids
  /\ Versions \subseteq {"v1", "v2", "none"}
  /\ Cores \in Nat \ {0} /\ Window \in Nat \ {0}
  /\ MaxChurn \in Nat /\ MaxClock \in Nat

VARIABLES
  version,    \* what detectCgroupVersion finds
  clock,      \* wall time in ticks
  dirs,       \* controllers under which an id has a directory
  proc,       \* whose process each pid is: a container's, the host's, no one's
  usage,      \* cumulative CPU ticks of each cgroup
  churn,      \* cgroups, processes and files that came or went
  disturbed   \* history: ids that started, lost a process, or were removed

cgroupVars == <<version, clock, dirs, proc, usage, churn, disturbed>>

Controllers == {"memory", "cpuacct"}

Owners == Ids \cup {Host, None}

Subtree(id) == {id} \cup {j \in Ids : Inside[j] = id}

Around(id) == IF Inside[id] = None THEN {id} ELSE {id, Inside[id]}

Busy(S) == {p \in Pids : proc[p] \in S}

-----------------------------------------------------------------------------
CgroupTypeOK ==
  /\ version \in Versions
  /\ clock \in Nat
  /\ dirs \in [Ids -> SUBSET Controllers]
  /\ proc \in [Pids -> Owners]
  /\ usage \in [Ids -> Nat]
  /\ churn \in Nat
  /\ disturbed \subseteq Ids

CgroupInit ==
  /\ version \in Versions
  /\ clock = 0
  /\ dirs \in [Ids -> {{}, Controllers}]
  /\ \A id \in Ids : Inside[id] # None /\ dirs[id] # {} => dirs[Inside[id]] # {}
  /\ proc \in [Pids -> Owners]
  /\ \A p \in Pids : proc[p] \in Ids => dirs[proc[p]] # {}
  /\ usage = [id \in Ids |-> 0]
  /\ churn = 0
  /\ disturbed = {}

\* A container is started (again): its counters start from zero.
Create(id) ==
  /\ dirs[id] = {}
  /\ Inside[id] # None => dirs[Inside[id]] = Controllers
  /\ dirs' = [dirs EXCEPT ![id] = Controllers]
  /\ usage' = [usage EXCEPT ![id] = 0]
  /\ disturbed' = disturbed \cup {id}
  /\ UNCHANGED <<version, clock, proc>>

\* rmdir of an empty cgroup.
Rmdir(id, C) ==
  /\ C \subseteq dirs[id] /\ C # {}
  /\ version = "v2" => C = Controllers
  /\ Busy(Subtree(id)) = {}
  /\ \A j \in Subtree(id) \ {id} : dirs[j] = {}
  /\ dirs' = [dirs EXCEPT ![id] = @ \ C]
  /\ disturbed' = disturbed \cup {id}
  /\ UNCHANGED <<version, clock, proc, usage>>

\* A process starts, under a pid that may have been another's before.
Enter(p, owner) ==
  /\ proc[p] = None
  /\ owner \in Ids => dirs[owner] = Controllers
  /\ proc' = [proc EXCEPT ![p] = owner]
  /\ disturbed' = disturbed \cup
       {id \in Ids : owner \in Subtree(id) /\ Busy(Subtree(id)) = {}}
  /\ UNCHANGED <<version, clock, dirs, usage>>

Leave(p) ==
  /\ proc[p] # None
  /\ proc' = [proc EXCEPT ![p] = None]
  /\ disturbed' = disturbed \cup
       IF proc[p] \in Ids THEN Around(proc[p]) ELSE {}
  /\ UNCHANGED <<version, clock, dirs, usage>>

Change == churn < MaxChurn /\ churn' = churn + 1

Churn ==
  /\ Change
  /\ \/ \E id \in Ids : Create(id)
     \/ \E id \in Ids : \E C \in SUBSET Controllers : Rmdir(id, C)
     \/ \E p \in Pids : \E owner \in Ids \cup {Host} : Enter(p, owner)
     \/ \E p \in Pids : Leave(p)

\* One tick of wall time: what containers burn of it, the host has.
Elapse ==
  /\ clock' = clock + 1
  /\ \E d \in [Ids -> 0..Cores] :
       /\ SumFunction(d) <= Cores
       /\ \A id \in Ids : Busy({id}) = {} => d[id] = 0
       /\ usage' = [id \in Ids |->
                      usage[id] + SumFunctionOnSet(d, Subtree(id))]
  /\ UNCHANGED <<version, dirs, proc, churn, disturbed>>

-----------------------------------------------------------------------------
\* firstPid of cgroup.procs, whose order the kernel does not promise, or of
\* the first cgroup below that has a process.
FirstPids(id) ==
  IF Busy({id}) # {} THEN Busy({id}) ELSE Busy(Subtree(id))
=============================================================================
