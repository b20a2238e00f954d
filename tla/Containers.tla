----------------------------- MODULE Containers -----------------------------
(***************************************************************************)
(* One call of GetContainersWithContext or GetContainerWithContext         *)
(* (container.go) while containers start, stop and are removed: discovery, *)
(* best-effort metadata, one CPU window shared by all, then the figures of *)
(* each.  Every read that can meet a cgroup or a process that is gone is a *)
(* step of its own.                                                        *)
(*                                                                         *)
(* CoresUsed is kept as its numerator: every row divides by elapsed.  The  *)
(* memory, pids, pressure, block I/O and mount figures carry no control    *)
(* beyond "the memory cgroup could not be read" and are left out.          *)
(***************************************************************************)
EXTENDS Cgroups, SequencesExt

CONSTANTS
  NameOf,        \* the name a container was given
  Known,         \* ids the runtime behind ContainerSocketPath manages
  Files,         \* names of regular files in writable layers
  Layer,         \* the names in the layer of each container on overlayfs
  Sealed,        \* names in directories systats may not read
  InodeOf,       \* the file a name is a link to
  Requests,      \* arguments the caller may pass
  SocketTimeout  \* ContainerSocketTimeout in ticks

ASSUME ContainerAssumption ==
  /\ NameOf \in [Ids -> Seq(Nat)]
  /\ Known \subseteq Ids
  /\ IsFiniteSet(Files)
  /\ DOMAIN Layer \subseteq Ids /\ Layer \in [DOMAIN Layer -> SUBSET Files]
  /\ Sealed \subseteq Files /\ InodeOf \in [Files -> Nat]
  /\ Requests \subseteq [unit : {"MB", "TB"}, layer : BOOLEAN,
                         query : Seq(Nat) \cup {None}]
  /\ SocketTimeout \in Nat

VARIABLES
  req,        \* unit, ContainerLayerSize, and idOrName (None for all)
  cancelled,  \* whether the context is done
  pc,         \* where the call is
  todo,       \* directories WalkDir has listed and not yet visited
  refs,       \* containers found: id and one of its pids
  named,      \* ids with metadata
  i,          \* loop index
  found,      \* the file being read was there when stat'ed
  deadline,   \* when the metadata request times out
  begun,      \* clock at the first CPU sample (history)
  start,      \* start := time.Now(), after the first samples
  wake,       \* when the sampling timer fires
  usage1, usage2,  \* CPU samples, aligned with refs; None when not ok
  elapsed,    \* time.Since(start) after the second samples
  row,        \* the Container being filled in
  left,       \* names of the layer the walk has not come to
  counted,    \* those layerSize has counted
  seen,       \* inodes it will not count again
  out,        \* the result
  err,        \* "none", or why the call failed
  linked,     \* names there are in the layers
  touched     \* history: names made or removed during a walk

layerVars == <<linked, touched>>
walkVars  == <<left, counted, seen>>
callVars  == <<req, pc, todo, refs, named, i, found, deadline, begun, start,
               wake, usage1, usage2, elapsed, row, walkVars, out, err>>
envVars   == <<cgroupVars, layerVars, cancelled>>
vars      == <<cgroupVars, layerVars, callVars, cancelled>>

-----------------------------------------------------------------------------
Ref == [id : Ids, pid : Pids]

Row == [id : Ids, named : BOOLEAN, cpu : Nat, accessible : BOOLEAN,
        net : Owners, upper : Ids \cup {None}, files : Nat \cup {None}]

Sampling == {"sample1", "sleep", "sample2"}
Layering == {"layer", "layerRoot", "layerWalk"}
Final    == {"ok", "failed"}
Locations ==
  {"start", "walk", "metadata", "match", "memory", "counters", "network"}
    \cup Sampling \cup Layering \cup Final

Errors == {"none", "unit", "cgroup", "match", "ctx", "panic", "stopped"}

\* Types of every variable; above all, no container's CPU figure is negative.
TypeOK ==
  /\ CgroupTypeOK
  /\ req \in Requests
  /\ cancelled \in BOOLEAN /\ found \in BOOLEAN
  /\ pc \in Locations
  /\ todo \subseteq Ids
  /\ refs \in Seq(Ref)
  /\ named \subseteq Ids
  /\ i \in Nat \ {0}
  /\ {deadline, begun, start, wake, elapsed} \subseteq Nat
  /\ usage1 \in Seq(Nat \cup {None}) /\ usage2 \in Seq(Nat \cup {None})
  /\ row \in Row \cup {None}
  /\ left \subseteq Files /\ counted \subseteq Files
  /\ seen \subseteq Nat
  /\ out \in Seq(Row)
  /\ err \in Errors
  /\ linked \subseteq Files /\ touched \subseteq Files

Init ==
  /\ CgroupInit
  /\ req \in Requests
  /\ cancelled = FALSE /\ found = FALSE
  /\ pc = "start" /\ todo = {} /\ refs = <<>> /\ named = {} /\ i = 1
  /\ deadline = 0 /\ begun = 0 /\ start = 0 /\ wake = 0 /\ elapsed = 0
  /\ usage1 = <<>> /\ usage2 = <<>>
  /\ row = None /\ left = {} /\ counted = {} /\ seen = {}
  /\ out = <<>> /\ err = "none"
  /\ linked \in SUBSET Files /\ touched = {}
  /\ IF req.layer THEN Sealed \subseteq linked ELSE linked = {}

Fail(why) ==
  /\ pc' = "failed" /\ err' = why
  /\ UNCHANGED <<req, todo, refs, named, i, found, deadline, begun, start,
                 wake, usage1, usage2, elapsed, row, walkVars, out>>

-----------------------------------------------------------------------------
(* Discovery and metadata.                                                 *)

\* The unit, detectCgroupVersion, and WalkDir's reading of the directories.
Begin ==
  /\ pc = "start"
  /\ IF req.unit = "TB" THEN Fail("unit")
     ELSE IF version = "none" THEN Fail("cgroup")
     ELSE /\ todo' = {id \in Ids : "memory" \in dirs[id]}
          /\ pc' = "walk"
          /\ UNCHANGED <<req, refs, named, i, found, deadline, begun, start,
                         wake, usage1, usage2, elapsed, row, walkVars, out, err>>

\* WalkDir comes to a directory before those inside it; the names of siblings,
\* and so their order, may be any.
Matched(id, below, pidsOf) ==
  /\ pc = "walk" /\ Inside[id] \notin todo
  /\ todo' = todo \ ({id} \cup below)
  /\ IF pidsOf = {} THEN UNCHANGED refs
     ELSE \E p \in pidsOf : refs' = Append(refs, [id |-> id, pid |-> p])
  /\ UNCHANGED <<req, pc, named, i, found, deadline, begun, start, wake,
                 usage1, usage2, elapsed, row, walkVars, out, err>>

\* Mutant: the walk goes on below a match.
DescendIntoMatch == \E id \in todo : Matched(id, {}, FirstPids(id))

\* Mutant: only the matched cgroup's own cgroup.procs is looked at.
OwnPidOnly == \E id \in todo : Matched(id, Subtree(id), Busy({id}))

\* discoverContainers' callback on a match: a container with no process is
\* left out, and SkipDir hides what is inside it either way.
Visit == \E id \in todo : Matched(id, Subtree(id), FirstPids(id))

\* The metadata request, made only when a container was found; its context
\* ends after ContainerSocketTimeout.
EndWalk ==
  /\ pc = "walk" /\ todo = {}
  /\ IF refs = <<>> THEN pc' = "match" /\ UNCHANGED deadline
     ELSE pc' = "metadata" /\ deadline' = clock + SocketTimeout
  /\ UNCHANGED <<req, todo, refs, named, i, found, begun, start, wake,
                 usage1, usage2, elapsed, row, walkVars, out, err>>

AfterMetadata(known) ==
  /\ named' = known
  /\ pc' = "match" /\ deadline' = 0
  /\ UNCHANGED <<req, todo, refs, i, found, begun, start, wake, usage1,
                 usage2, elapsed, row, walkVars, out, err>>

\* The runtime lists what it runs now, or the request fails at once; neither
\* need ever happen.
RuntimeAnswers ==
  /\ pc = "metadata"
  /\ \/ AfterMetadata({id \in Known : FirstPids(id) # {}})
     \/ AfterMetadata({})

\* Mutant: the request is only bounded by the caller's context.
NoSocketTimeout ==
  /\ pc = "metadata" /\ cancelled
  /\ AfterMetadata({})

\* The request's context ends; the failure is ignored.
MetadataExpires ==
  /\ pc = "metadata"
  /\ clock >= deadline \/ cancelled
  /\ AfterMetadata({})

\* Mutant: a prefix is taken before the names are looked at.
PrefixFirst(q) ==
  LET Prefix == {n \in 1..Len(refs) : IsPrefix(q, refs[n].id)}
      Exact  == {n \in 1..Len(refs) :
                   refs[n].id \in named /\ NameOf[refs[n].id] = q}
  IN IF q = <<>> THEN {}
     ELSE IF Cardinality(Prefix) = 1 THEN Prefix ELSE Exact

\* matchContainer: the index of the match, none when it is an error.
MatchContainer(q) ==
  LET Exact  == {n \in 1..Len(refs) :
                   \/ refs[n].id = q
                   \/ refs[n].id \in named /\ NameOf[refs[n].id] = q}
      Prefix == {n \in 1..Len(refs) : IsPrefix(q, refs[n].id)}
  IN IF q = <<>> THEN {}
     ELSE IF Exact # {} THEN {CHOOSE n \in Exact : \A m \in Exact : n <= m}
     ELSE IF Cardinality(Prefix) = 1 THEN Prefix ELSE {}

\* GetContainer narrows the list to the match, or fails.
Match ==
  /\ pc = "match"
  /\ IF req.query # None /\ MatchContainer(req.query) = {} THEN Fail("match")
     ELSE /\ IF req.query = None THEN UNCHANGED refs
             ELSE \E n \in MatchContainer(req.query) : refs' = <<refs[n]>>
          /\ pc' = "sample1" /\ begun' = clock
          /\ UNCHANGED <<req, todo, named, i, found, deadline, start, wake,
                         usage1, usage2, elapsed, row, walkVars, out, err>>

-----------------------------------------------------------------------------
(* The CPU window.                                                         *)

Sampled(value) ==
  /\ i' = i + 1 /\ found' = FALSE
  /\ IF pc = "sample1"
     THEN usage1' = Append(usage1, value) /\ UNCHANGED usage2
     ELSE usage2' = Append(usage2, value) /\ UNCHANGED usage1
  /\ UNCHANGED <<req, pc, todo, refs, named, deadline, begun, start, wake,
                 elapsed, row, walkVars, out, err>>

\* sampleCgroupCPUUsageSeconds up to the IsFile of the counter.  Under v2 the
\* read belongs to the same step: an empty cpu.stat is "not ok" just as a
\* missing one is.
SampleStat ==
  /\ pc \in {"sample1", "sample2"} /\ i <= Len(refs) /\ ~found
  /\ LET id == refs[i].id IN
     IF "cpuacct" \notin dirs[id] THEN Sampled(None)
     ELSE IF version = "v2" THEN Sampled(usage[id])
     ELSE /\ found' = TRUE
          /\ UNCHANGED <<req, pc, todo, refs, named, i, deadline, begun,
                         start, wake, usage1, usage2, elapsed, row, walkVars,
                         out, err>>

\* The read of v1's cpuacct.usage.  When it went away since the IsFile, ToUint64
\* panics on "", outside readContainerStats and its recover.
SampleRead ==
  /\ pc \in {"sample1", "sample2"} /\ i <= Len(refs) /\ found
  /\ IF "cpuacct" \in dirs[refs[i].id] THEN Sampled(usage[refs[i].id])
     ELSE Fail("panic")

\* start is only taken once every first sample is.
EndSample1 ==
  /\ pc = "sample1" /\ i > Len(refs)
  /\ start' = clock /\ wake' = clock + Window
  /\ i' = 1 /\ pc' = "sleep"
  /\ UNCHANGED <<req, todo, refs, named, found, deadline, begun, usage1,
                 usage2, elapsed, row, walkVars, out, err>>

\* sleepCtx: the select takes either ready case.
SleepElapses ==
  /\ pc = "sleep" /\ clock >= wake
  /\ pc' = "sample2" /\ wake' = 0
  /\ UNCHANGED <<req, todo, refs, named, i, found, deadline, begun, start,
                 usage1, usage2, elapsed, row, walkVars, out, err>>

SleepCancelled ==
  /\ pc = "sleep" /\ cancelled
  /\ Fail("ctx")

\* Mutant: the loop over the containers does not start over.
EndSample2Here ==
  /\ pc = "sample2" /\ i > Len(refs)
  /\ elapsed' = clock - start
  /\ pc' = "memory"
  /\ UNCHANGED <<req, todo, refs, named, i, found, deadline, begun, start, wake,
                 usage1, usage2, row, walkVars, out, err>>

EndSample2 ==
  /\ pc = "sample2" /\ i > Len(refs)
  /\ elapsed' = clock - start
  /\ i' = 1 /\ pc' = "memory"
  /\ UNCHANGED <<req, todo, refs, named, found, deadline, begun, start, wake,
                 usage1, usage2, row, walkVars, out, err>>

-----------------------------------------------------------------------------
(* The figures of one container.                                           *)

\* Mutant: a counter that went backwards is subtracted all the same.
CoresUsedUnguarded(n) ==
  IF usage1[n] = None \/ usage2[n] = None \/ elapsed <= 0 THEN 0
  ELSE usage2[n] - usage1[n]

\* applyContainerCPUSample; a failed sample, or a counter that went backwards
\* because the cgroup was created again, gives zero.
CoresUsed(n) ==
  IF usage1[n] = None \/ usage2[n] = None \/ elapsed <= 0 THEN 0
  ELSE IF usage2[n] < usage1[n] THEN 0
  ELSE usage2[n] - usage1[n]

\* readContainerStats failed or panicked: the container is left out.
Drop ==
  /\ i' = i + 1 /\ pc' = "memory" /\ row' = None /\ found' = FALSE
  /\ UNCHANGED <<req, todo, refs, named, deadline, begun, start, wake,
                 usage1, usage2, elapsed, walkVars, out, err>>

Finish(r) ==
  /\ out' = Append(out, [r EXCEPT !.cpu = CoresUsed(i)])
  /\ row' = None /\ i' = i + 1 /\ pc' = "memory"
  /\ left' = {} /\ counted' = {} /\ seen' = {}
  /\ UNCHANGED <<req, todo, refs, named, found, deadline, begun, start, wake,
                 usage1, usage2, elapsed, err>>

Continue(where, r) ==
  /\ pc' = where /\ row' = r
  /\ UNCHANGED <<req, todo, refs, named, i, found, deadline, begun, start,
                 wake, usage1, usage2, elapsed, walkVars, out, err>>

NewRow == [id |-> refs[i].id, named |-> refs[i].id \in named, cpu |-> 0,
           accessible |-> FALSE, net |-> None, upper |-> None, files |-> None]

\* readContainerMemory: the one source whose failure drops the container.
ReadMemory ==
  /\ pc = "memory" /\ i <= Len(refs)
  /\ IF "memory" \notin dirs[refs[i].id] THEN Drop
     ELSE Continue(IF version = "v2" THEN "network" ELSE "counters", NewRow)

\* readContainerCPUCounters under v1 samples cpuacct.usage once more; here the
\* panic is recovered and costs only this container.
StatCounters ==
  /\ pc = "counters" /\ ~found
  /\ IF "cpuacct" \notin dirs[refs[i].id] THEN Continue("network", row)
     ELSE /\ found' = TRUE
          /\ UNCHANGED <<req, pc, todo, refs, named, i, deadline, begun,
                         start, wake, usage1, usage2, elapsed, row, walkVars,
                         out, err>>

ReadCounters ==
  /\ pc = "counters" /\ found
  /\ IF "cpuacct" \notin dirs[refs[i].id] THEN Drop
     ELSE /\ found' = FALSE /\ pc' = "network"
          /\ UNCHANGED <<req, todo, refs, named, i, deadline, begun, start,
                         wake, usage1, usage2, elapsed, row, walkVars, out, err>>

AfterNetwork(r) == IF req.layer THEN Continue("layer", r) ELSE Finish(r)

\* readContainerNetwork: IsFile on /proc/<pid>/net/dev decides Accessible, ...
StatNetwork ==
  /\ pc = "network" /\ ~row.accessible
  /\ IF proc[refs[i].pid] = None THEN AfterNetwork(row)
     ELSE Continue("network", [row EXCEPT !.accessible = TRUE])

\* ... and the read gives the interfaces of whoever the pid belongs to by then.
ReadNetwork ==
  /\ pc = "network" /\ row.accessible
  /\ AfterNetwork([row EXCEPT !.net = proc[refs[i].pid]])

-----------------------------------------------------------------------------
(* The writable layer.                                                     *)

\* overlayUpperDir of /proc/<pid>/mounts.
FindLayer ==
  /\ pc = "layer"
  /\ LET owner == proc[refs[i].pid] IN
     IF owner \in DOMAIN Layer
     THEN Continue("layerRoot", [row EXCEPT !.upper = owner])
     ELSE Finish(row)

\* Mutant: a cancelled walk reports what it has counted so far.
CancelledWalkCounts ==
  /\ cancelled /\ pc \in {"layerRoot", "layerWalk"}
  /\ Finish([row EXCEPT !.files = Cardinality(counted)])

\* The callback looks at ctx before an entry it can read, the directory itself
\* first, and the error fails the call; readContainerLayer prefers it to another.
LayerCancelled ==
  /\ cancelled
  /\ \/ pc = "layerRoot"
     \/ pc = "layerWalk" /\ left # {}
  /\ Fail("ctx")

\* The layer itself cannot be read: it is not Available.
LayerUnreadable ==
  /\ pc = "layerRoot" /\ ~cancelled
  /\ Finish(row)

OpenLayer ==
  /\ pc = "layerRoot" /\ ~cancelled
  /\ pc' = "layerWalk"
  /\ left' = Layer[row.upper] /\ counted' = {} /\ seen' = {}
  /\ UNCHANGED <<req, todo, refs, named, i, found, deadline, begun, start,
                 wake, usage1, usage2, elapsed, row, out, err>>

\* layerSize's callback on a regular file that is still there: one with other
\* links is counted unless its inode was seen.
CountFile(f) ==
  /\ pc = "layerWalk" /\ ~cancelled /\ f \in linked \ Sealed
  /\ left' = left \ {f}
  /\ IF \E g \in linked \ {f} : InodeOf[g] = InodeOf[f]
     THEN /\ seen' = seen \cup {InodeOf[f]}
          /\ counted' = IF InodeOf[f] \in seen THEN counted ELSE counted \cup {f}
     ELSE UNCHANGED seen /\ counted' = counted \cup {f}
  /\ UNCHANGED <<req, pc, todo, refs, named, i, found, deadline, begun, start,
                 wake, usage1, usage2, elapsed, row, out, err>>

\* A file gone before it is looked at, one in a directory that cannot be read or
\* came after its directory was listed: passed over, with no error.
SkipFile(f) ==
  /\ pc = "layerWalk" /\ f \in (Files \ linked) \cup Sealed \cup touched
  /\ left' = left \ {f}
  /\ UNCHANGED <<req, pc, todo, refs, named, i, found, deadline, begun, start,
                 wake, usage1, usage2, elapsed, row, counted, seen, out, err>>

LayerEntry == \E f \in left : CountFile(f) \/ SkipFile(f)

LayerDone ==
  /\ pc = "layerWalk" /\ left = {}
  /\ Finish([row EXCEPT !.files = Cardinality(counted)])

\* The result; GetContainer has no container to return when its match stopped.
Return ==
  /\ pc = "memory" /\ i > Len(refs)
  /\ IF req.query # None /\ out = <<>> THEN Fail("stopped")
     ELSE /\ pc' = "ok"
          /\ UNCHANGED <<req, todo, refs, named, i, found, deadline, begun,
                         start, wake, usage1, usage2, elapsed, row, walkVars,
                         out, err>>

CallStep ==
  \/ Begin \/ Visit \/ EndWalk \/ MetadataExpires \/ Match
  \/ SampleStat \/ SampleRead \/ EndSample1 \/ SleepElapses \/ SleepCancelled
  \/ EndSample2 \/ ReadMemory \/ StatCounters \/ ReadCounters
  \/ StatNetwork \/ ReadNetwork
  \/ FindLayer \/ LayerCancelled \/ LayerUnreadable \/ OpenLayer
  \/ LayerEntry \/ LayerDone \/ Return

Call == CallStep /\ UNCHANGED envVars

-----------------------------------------------------------------------------
(* The environment.                                                        *)

Answer == RuntimeAnswers /\ UNCHANGED envVars

\* After the window only the walk of a layer looks at the context.
Cancel ==
  /\ ~cancelled
  /\ \/ pc \in {"start", "walk", "metadata", "match", "sample1", "sleep"}
     \/ req.layer /\ pc \notin Final
  /\ cancelled' = TRUE
  /\ UNCHANGED <<cgroupVars, layerVars, callVars>>

\* Time goes on while the call waits, and elsewhere within a bound, from the first
\* step that depends on it to the second samples.
Time ==
  /\ \/ pc = "metadata" /\ clock < deadline
     \/ pc = "sleep" /\ clock < wake
     \/ pc \in {"metadata", "match"} \cup Sampling /\ clock < MaxClock
  /\ Elapse
  /\ UNCHANGED <<callVars, layerVars, cancelled>>

Lifecycle == pc \notin Final /\ Churn /\ UNCHANGED <<callVars, layerVars, cancelled>>

\* A name is made in a layer or removed while one is walked; before, it would only
\* change what there is to walk, and one that cannot be read is not counted anyway.
Touch(f) ==
  /\ pc \in {"layerRoot", "layerWalk"} /\ Change
  /\ linked' = IF f \in linked THEN linked \ {f} ELSE linked \cup {f}
  /\ touched' = touched \cup {f}
  /\ UNCHANGED <<version, clock, dirs, proc, usage, disturbed, callVars, cancelled>>

Write == \E f \in Files \ Sealed : Touch(f)

Returned == pc \in Final /\ UNCHANGED vars

Next == Call \/ Answer \/ Cancel \/ Time \/ Lifecycle \/ Write \/ Returned

\* The call is scheduled and time passes.  The runtime, the containers and the
\* caller owe nothing.
Spec == Init /\ [][Next]_vars /\ WF_vars(Call) /\ WF_vars(Time)

-----------------------------------------------------------------------------
(* Properties.                                                             *)

CPUOf(rows) == [n \in DOMAIN rows |-> rows[n].cpu]

\* "PercentOfHost is CoresUsed as a share of every logical CPU on the host (0-100)"
\* (ContainerCPU).
PercentWithinHost == \A n \in DOMAIN out : out[n].cpu <= Cores * elapsed

\* Added up over the containers, CoresUsed is no more than the host has from the
\* first of the first samples on: the window every row is divided by, and the time
\* those samples took, by which it may exceed the host.  No cgroup is counted again
\* inside another (discoverContainers), and one created again mid-call does not
\* inflate the sum (applyContainerCPUSample).
TotalWithinHost ==
  out # <<>> =>
    SumFunction(CPUOf(out)) <= Cores * (elapsed + (start - begun))

\* Containers that ran through the whole call and lost no process.
Steady == {id \in Ids \ disturbed : Inside[id] = None /\ Busy(Subtree(id)) # {}}

\* A steady container is reported exactly once, with the interfaces of its own
\* network namespace, whatever other containers did meanwhile
\* (discoverContainers, firstPidInSubtree and the loop of collectContainers).
SteadyReported ==
  pc = "ok" /\ req.query = None =>
    \A id \in Steady : \E n \in DOMAIN out :
      /\ out[n].id = id
      /\ out[n].accessible /\ out[n].net \in Subtree(id)
      /\ \A m \in DOMAIN out : out[m].id = id => m = n

\* A call fails for a container's sake only when that container was removed or lost
\* a process during the call: a panic of the sampling loop, and a lookup that has
\* nothing left to return.
FailsOnlyIfDisturbed ==
  /\ err = "panic" => version = "v1" /\ refs[i].id \in disturbed
  /\ err = "stopped" => refs[1].id \in disturbed

\* A container that stops mid-call never makes the call fail ("one that stops
\* mid-call is dropped from the result rather than failing it", README.md).
StopNeverFails ==
  /\ err # "panic"
  /\ err = "stopped" => req.query # None

Bears(id) == id = req.query \/ (id \in named /\ NameOf[id] = req.query)

\* GetContainer finds a steady container by its ID, or by its name once the
\* runtime told it, even when that name begins other IDs; and a prefix only
\* ever selects a container when no steady one besides it begins that way
\* (matchContainer).
LookupFindsSteady ==
  req.query \notin {None, <<>>} =>
    /\ \A id \in Steady : Bears(id) =>
         /\ err \notin {"match", "stopped"}
         /\ pc = "ok" => Bears(out[1].id)
    /\ pc = "ok" => \/ Bears(out[1].id)
                    \/ \A id \in Steady :
                         IsPrefix(req.query, id) => id = out[1].id

\* A layer is reported as measured only once all of it was gone through: the files
\* counted are those that were there and could be read all along, each once however
\* many links it has, and besides them at most one for each name that was made or
\* removed meanwhile; whatever the context did during the walk (layerSize).
LayerCounted ==
  \A n \in DOMAIN out : out[n].files # None =>
    LET names  == Layer[out[n].upper]
        kept   == (names \cap linked) \ (touched \cup Sealed)
        inodes == {InodeOf[f] : f \in kept}
    IN  /\ Cardinality(inodes) <= out[n].files
        /\ out[n].files <= Cardinality(inodes) + Cardinality(names \cap touched)

\* The call returns, even when the runtime's socket never answers
\* (fetchContainerMetadata's timeout, sleepCtx).
CallReturns == <>(pc \in Final)
=============================================================================
