---------------------------- MODULE TopProcesses ----------------------------
(***************************************************************************)
(* One call of GetTopProcessesWithContext (process.go, systats.go) while   *)
(* processes start, exit and burn CPU.  Every /proc read is a step of its  *)
(* own: /proc is never read atomically, and what the call knows of a pid   *)
(* may be out of date by the time it is used.                              *)
(*                                                                         *)
(* A CPU percentage is kept as the exact fraction num/den of ticks used    *)
(* over ticks elapsed (times 100 and without the rounding of float64).     *)
(* Memory percentages all divide by the same MemTotal, so a candidate      *)
(* keeps its VmRSS.                                                        *)
(***************************************************************************)
EXTENDS ProcFS, ProcUsage

CONSTANTS
  Counts,     \* values of the count argument
  SortOrders, \* values of the sort argument, unsupported ones included
  Modes,      \* values of ProcessCPUMode
  None        \* an absent map entry

ASSUME CallAssumption ==
  /\ Counts \subseteq Int
  /\ Modes \subseteq {"instant", "average"}
  /\ Word \in Nat
  /\ Cores * (MaxClock + Window) < Word
  /\ None \notin Stat

VARIABLES
  req,        \* the arguments and ProcessCPUMode
  cancelled,  \* "no", or whether the context was done "early" (before the
              \* candidate loop) or "late"
  pc,         \* where the call is
  pids,       \* result of listPids
  i,          \* loop index of the current loop
  start,      \* start := time.Now(), or the uptime read in average mode
  wake,       \* when the sampling timer fires
  sample1, sample2,
  elapsed,    \* time.Since(start) once both samples are taken; in average mode,
              \* how long after the uptime the stats were read (history)
  cands,      \* candidates (a set: no pid occurs twice)
  ranked,     \* candidates after sortAndLimit
  row,        \* the Process being filled in
  out,        \* rows of the result
  gone,       \* ranked pids whose enrichment failed (history)
  err         \* "none", or why the call failed

callVars == <<req, pc, pids, i, start, wake, sample1, sample2, elapsed,
              cands, ranked, row, out, gone, err>>
vars     == <<kernelVars, callVars, cancelled>>

-----------------------------------------------------------------------------
Requests == [count : Counts, sort : SortOrders, mode : Modes]

Candidate == [pid : Pids, cpu : Usage, mem : Nat, owned : BOOLEAN,
              gen1 : Nat, gen2 : Nat, lag : Nat]

Row == [cand : Candidate, gen : Nat, fds : BOOLEAN, io : BOOLEAN,
        ioRead : BOOLEAN]

Early      == {"start", "uptime", "sample1", "sleep", "sample2"}
Collecting == {"collect", "status"}
Enriching  == {"enrich", "io", "ioRead"}
Final      == {"ok", "failed"}
Locations  == Early \cup Collecting \cup Enriching \cup Final

Samples   == [Pids -> Stat \cup {None}]
NoSamples == [p \in Pids |-> None]

\* Types of every variable.
TypeOK ==
  /\ KernelTypeOK
  /\ req \in Requests
  /\ cancelled \in {"no", "early", "late"}
  /\ pc \in Locations
  /\ pids \in Seq(Pids)
  /\ i \in Nat \ {0}
  /\ start \in Nat /\ wake \in Nat /\ elapsed \in Nat
  /\ sample1 \in Samples /\ sample2 \in Samples
  /\ cands \subseteq Candidate
  /\ ranked \in Seq(Candidate)
  /\ row \in Row \cup {None}
  /\ out \in Seq(Row)
  /\ gone \subseteq Pids
  /\ err \in {"none", "sort", "proc", "meminfo", "uptime", "ctx", "panic"}

Init ==
  /\ KernelInit
  /\ req \in Requests
  /\ cancelled = "no"
  /\ pc = "start" /\ pids = <<>> /\ i = 1
  /\ start = 0 /\ wake = 0 /\ elapsed = 0
  /\ sample1 = NoSamples /\ sample2 = NoSamples
  /\ cands = {} /\ ranked = <<>> /\ row = None /\ out = <<>>
  /\ gone = {} /\ err = "none"

-----------------------------------------------------------------------------
(* Operators the call is built from.                                       *)

\* The "less" functions of sortAndLimit: a must come before b.
More(a, b) ==
  IF req.sort = "memory" THEN a.mem > b.mem
  ELSE a.cpu.num * b.cpu.den > b.cpu.num * a.cpu.den

\* Mutant: the sort is forgotten.
UnsortedOrders(S) ==
  {s \in [1..Cardinality(S) -> S] :
     \A m, n \in 1..Cardinality(S) : m < n => s[m] # s[n]}

\* sort.Slice: any order of the candidates with no inversion.  It is not
\* stable, so equal candidates may come out either way round.
SortedOrders(S) ==
  {s \in [1..Cardinality(S) -> S] :
     \A m, n \in 1..Cardinality(S) :
        m < n => s[m] # s[n] /\ ~More(s[n], s[m])}

ListOrders(S) ==
  {s \in [1..Cardinality(S) -> S] :
     \A m, n \in 1..Cardinality(S) : m < n => s[m] < s[n]}

Fail(why) ==
  /\ pc' = "failed" /\ err' = why
  /\ UNCHANGED <<req, pids, i, start, wake, sample1, sample2, elapsed,
                 cands, ranked, row, out, gone>>

-----------------------------------------------------------------------------
(* The call.  Every action leaves the kernel and the context alone.        *)

\* validateSortBy, then listPids and totalMemoryKB: a listing of whoever is
\* alive now, or an unreadable /proc or meminfo.
ListPids ==
  /\ pc = "start"
  /\ \/ req.sort \notin {"", "cpu", "memory"} /\ Fail("sort")
     \/ req.sort \in {"", "cpu", "memory"} /\ Fail("proc")
     \/ req.sort \in {"", "cpu", "memory"} /\ Fail("meminfo")
     \/ /\ req.sort \in {"", "cpu", "memory"}
        /\ pids' \in ListOrders(alive)
        /\ i' = 1
        /\ IF req.mode = "average"
           THEN pc' = "uptime" /\ UNCHANGED start
           ELSE pc' = "sample1" /\ start' = clock
        /\ UNCHANGED <<req, wake, sample1, sample2, elapsed, cands, ranked,
                       row, out, gone, err>>

\* systemUptimeSeconds, before the stats are read
ReadUptime ==
  /\ pc = "uptime"
  /\ \/ Fail("uptime")
     \/ /\ start' = clock
        /\ pc' = "sample1"
        /\ UNCHANGED <<req, pids, i, wake, sample1, sample2, elapsed, cands,
                       ranked, row, out, gone, err>>

\* One iteration of sampleProcStats' loop for the first (or only) sample; a
\* pid that cannot be read is left out of the map.
Sample1 ==
  /\ pc = "sample1" /\ i <= Len(pids)
  /\ sample1' = IF pids[i] \in alive
                THEN [sample1 EXCEPT ![pids[i]] = StatOf(pids[i])]
                ELSE sample1
  /\ i' = i + 1
  /\ UNCHANGED <<req, pc, pids, start, wake, sample2, elapsed, cands, ranked,
                 row, out, gone, err>>

\* Mutant: start := time.Now() is taken after the first sample.
LateStart ==
  /\ pc = "sample1" /\ i > Len(pids)
  /\ i' = 1
  /\ IF req.mode = "average"
     THEN pc' = "collect" /\ elapsed' = clock - start /\ UNCHANGED <<start, wake>>
     ELSE /\ pc' = "sleep" /\ wake' = clock + Window /\ start' = clock
          /\ UNCHANGED elapsed
  /\ UNCHANGED <<req, pids, sample1, sample2, cands, ranked, row, out, gone,
                 err>>

\* End of the first sample: start the timer of sleepCtx, or in average mode
\* go straight to the candidates.
EndSample1 ==
  /\ pc = "sample1" /\ i > Len(pids)
  /\ i' = 1
  /\ IF req.mode = "average"
     THEN pc' = "collect" /\ elapsed' = clock - start /\ UNCHANGED wake
     ELSE pc' = "sleep" /\ wake' = clock + Window /\ UNCHANGED elapsed
  /\ UNCHANGED <<req, pids, start, sample1, sample2, cands, ranked, row, out,
                 gone, err>>

\* Mutant: the timer is stopped before the select, so only ctx can end it.
TimerStopped ==
  /\ pc = "sleep" /\ clock >= wake /\ cancelled # "no"
  /\ pc' = "sample2"
  /\ UNCHANGED <<req, pids, i, start, wake, sample1, sample2, elapsed, cands,
                 ranked, row, out, gone, err>>

\* sleepCtx: the select takes either ready case.
SleepElapses ==
  /\ pc = "sleep" /\ clock >= wake
  /\ pc' = "sample2"
  /\ UNCHANGED <<req, pids, i, start, wake, sample1, sample2, elapsed, cands,
                 ranked, row, out, gone, err>>

SleepCancelled ==
  /\ pc = "sleep" /\ cancelled # "no"
  /\ Fail("ctx")

Sample2 ==
  /\ pc = "sample2" /\ i <= Len(pids)
  /\ sample2' = IF pids[i] \in alive
                THEN [sample2 EXCEPT ![pids[i]] = StatOf(pids[i])]
                ELSE sample2
  /\ i' = i + 1
  /\ UNCHANGED <<req, pc, pids, start, wake, sample1, elapsed, cands, ranked,
                 row, out, gone, err>>

\* elapsedSeconds is taken after the whole of the second sample.
EndSample2 ==
  /\ pc = "sample2" /\ i > Len(pids)
  /\ elapsed' = clock - start
  /\ i' = 1 /\ pc' = "collect"
  /\ UNCHANGED <<req, pids, start, wake, sample1, sample2, cands, ranked,
                 row, out, gone, err>>

\* Mutant: the loop does not look at ctx.
CollectRegardless ==
  /\ pc = "collect" /\ i <= Len(pids)
  /\ IF /\ sample1[pids[i]] # None
        /\ req.mode = "instant" => sample2[pids[i]] # None
        /\ pids[i] \in alive
     THEN pc' = "status" /\ UNCHANGED i
     ELSE i' = i + 1 /\ UNCHANGED pc
  /\ UNCHANGED <<req, pids, start, wake, sample1, sample2, elapsed, cands,
                 ranked, row, out, gone, err>>

\* Head of the candidate loop: ctx.Err(), the sample maps, and the IsFile
\* check of /proc/<pid>/status.
Collect ==
  /\ pc = "collect" /\ i <= Len(pids)
  /\ LET p == pids[i]
         sampled == /\ sample1[p] # None
                    /\ req.mode = "instant" => sample2[p] # None
     IN IF cancelled # "no" THEN Fail("ctx")
        ELSE /\ IF sampled /\ p \in alive
                THEN pc' = "status" /\ UNCHANGED i
                ELSE i' = i + 1 /\ UNCHANGED pc
             /\ UNCHANGED <<req, pids, start, wake, sample1, sample2, elapsed,
                            cands, ranked, row, out, gone, err>>

\* The candidate for pid p, when its status file could be opened (found) or
\* not: parseProcStatus of "" leaves the uid empty and the memory at zero.
CandidateOf(p, found) ==
  [pid   |-> p,
   cpu   |-> IF req.mode = "average"
             THEN AverageCPUPercent(sample1[p].cpu, sample1[p].starttime, start)
             ELSE InstantCPUPercent(sample1[p].cpu, sample2[p].cpu, elapsed),
   mem   |-> IF found THEN rss[p] ELSE 0,
   owned |-> found,
   gen1  |-> sample1[p].gen,
   gen2  |-> IF req.mode = "average" THEN sample1[p].gen ELSE sample2[p].gen,
   lag   |-> IF req.mode = "average" THEN elapsed ELSE 0]

\* The read of /proc/<pid>/status: the process may be gone since the check.
ReadStatus ==
  /\ pc = "status"
  /\ cands' = cands \cup {CandidateOf(pids[i], pids[i] \in alive)}
  /\ i' = i + 1 /\ pc' = "collect"
  /\ UNCHANGED <<req, pids, start, wake, sample1, sample2, elapsed, ranked,
                 row, out, gone, err>>

\* The collector returns (its samples and times go out of scope), then
\* sortAndLimit; candidates[:count] panics for a negative count, which
\* withRecover turns into the call's error.
SortAndLimit ==
  /\ pc = "collect" /\ i > Len(pids)
  /\ IF req.count < 0 THEN Fail("panic")
     ELSE /\ \E s \in SortedOrders(cands) :
               ranked' = IF Len(s) > req.count
                         THEN SubSeq(s, 1, req.count) ELSE s
          /\ i' = 1 /\ pc' = "enrich"
          /\ start' = 0 /\ wake' = 0 /\ elapsed' = 0
          /\ sample1' = NoSamples /\ sample2' = NoSamples
          /\ UNCHANGED <<req, pids, cands, row, out, gone, err>>

\* Mutant: enrichProcess does not report an unreadable stat file.
EnrichAnyway ==
  /\ pc = "enrich" /\ i <= Len(ranked)
  /\ row' = [cand |-> ranked[i], gen |-> gen[ranked[i].pid], fds |-> FALSE,
             io |-> FALSE, ioRead |-> FALSE]
  /\ pc' = "io"
  /\ UNCHANGED <<req, pids, i, start, wake, sample1, sample2, elapsed, cands,
                 ranked, out, gone, err>>

\* enrichProcess: the stat file decides whether the row is kept.
EnrichStat ==
  /\ pc = "enrich" /\ i <= Len(ranked)
  /\ LET p == ranked[i].pid
     IN IF p \in alive
        THEN /\ row' = [cand |-> ranked[i], gen |-> gen[p], fds |-> FALSE,
                        io |-> FALSE, ioRead |-> FALSE]
             /\ pc' = "io"
             /\ UNCHANGED <<i, gone>>
        ELSE /\ gone' = gone \cup {p}
             /\ i' = i + 1
             /\ UNCHANGED <<pc, row>>
  /\ UNCHANGED <<req, pids, start, wake, sample1, sample2, elapsed, cands,
                 ranked, out, err>>

\* countOpenFDs, whose ReadDir of /proc/<pid>/fd fails without permission, and
\* the first half of readProcIO: ReadFileWithError only fails when stat(2)
\* does, and anyone may stat the file; parseProcIO then reports Accessible.
\* (An exit between the two reads is not told apart.)
StatProcIO ==
  /\ pc = "io"
  /\ row' = [row EXCEPT !.fds = ranked[i].pid \in alive \ Private,
                        !.io = ranked[i].pid \in alive]
  /\ pc' = "ioRead"
  /\ UNCHANGED <<req, pids, i, start, wake, sample1, sample2, elapsed, cands,
                 ranked, out, gone, err>>

\* readProcIO, second half: the open and read, whose error ReadFile drops.
\* ioRead is history: whether there was anything to parse.
ReadProcIO ==
  /\ pc = "ioRead"
  /\ out' = Append(out, [row EXCEPT
       !.ioRead = row.io /\ ranked[i].pid \in alive \ Private])
  /\ row' = None
  /\ i' = i + 1 /\ pc' = "enrich"
  /\ UNCHANGED <<req, pids, start, wake, sample1, sample2, elapsed, cands,
                 ranked, gone, err>>

Return ==
  /\ pc = "enrich" /\ i > Len(ranked)
  /\ pc' = "ok"
  /\ UNCHANGED <<req, pids, i, start, wake, sample1, sample2, elapsed, cands,
                 ranked, row, out, gone, err>>

CallStep ==
  \/ ListPids \/ ReadUptime
  \/ Sample1 \/ EndSample1 \/ SleepElapses \/ SleepCancelled
  \/ Sample2 \/ EndSample2 \/ Collect \/ ReadStatus \/ SortAndLimit
  \/ EnrichStat \/ StatProcIO \/ ReadProcIO \/ Return

Call == CallStep /\ UNCHANGED <<kernelVars, cancelled>>

-----------------------------------------------------------------------------
(* The environment.  Nothing it does after the call has returned matters.  *)

\* The caller cancels the context or its deadline passes.  Enrichment never
\* looks at the context, so a later cancellation changes nothing.
Cancel ==
  /\ pc \in Early \cup Collecting /\ cancelled = "no"
  /\ cancelled' = IF pc \in Early THEN "early" ELSE "late"
  /\ UNCHANGED <<kernelVars, callVars>>

\* Time always goes on while the call sleeps; elsewhere it is bounded, and
\* after the last sample nothing the call reads depends on it.
Limit == IF pc = "sleep" THEN MaxClock + Window ELSE MaxClock

Time == pc \in Early /\ Tick(Limit) /\ UNCHANGED <<callVars, cancelled>>

Lifecycle ==
  /\ pc \notin Final
  /\ \E p \in Pids : Spawn(p) \/ Exit(p)
  /\ UNCHANGED <<callVars, cancelled>>

\* The call has returned.
Returned == pc \in Final /\ UNCHANGED vars

Next == Call \/ Cancel \/ Time \/ Lifecycle \/ Returned

\* The goroutine running the call is scheduled and time passes; processes and
\* the caller owe nothing.
Spec == Init /\ [][Next]_vars /\ WF_vars(Call) /\ WF_vars(Time)

-----------------------------------------------------------------------------
(* Properties.                                                             *)

\* A CPU figure whose samples are of one process never claims more than the
\* machine could give it: start is taken before the first read and the elapsed
\* time after the last (collectCandidatesInstant), so the window that divides
\* always contains the window that was measured.  In average mode uptime is read
\* first, so the figure can overstate, by no more than the lag of the stat read.
UsageWithinWindow ==
  \A c \in cands :
    c.gen1 = c.gen2 => c.cpu.num <= Cores * (c.cpu.den + c.lag)

\* getTopProcesses returns at most count rows, in descending order, and leaves a
\* candidate out only if it exited before enrichProcess or count rows outrank it.
RankedByUsage ==
  pc = "ok" =>
    /\ Len(out) <= req.count
    /\ \A m, n \in 1..Len(out) : m < n => ~More(out[n].cand, out[m].cand)
    /\ \A c \in cands :
         \/ \E n \in 1..Len(out) : out[n].cand = c
         \/ c.pid \in gone
         \/ /\ Len(ranked) = req.count
            /\ \A n \in 1..Len(ranked) : ~More(c, ranked[n])

\* ReadFileWithError hands parseProcStatus an empty string when the process exits
\* between its stat and its open.  Such an ownerless candidate never becomes a
\* row, unless the pid was given to a new process before enrichProcess looked.
OwnerlessOnlyIfRecycled ==
  \A n \in 1..Len(out) : ~out[n].cand.owned => out[n].gen # out[n].cand.gen2

\* A context that was done before the candidate loop began never yields a result:
\* the loop checks ctx.Err() before every pid, and sleepCtx may miss the
\* cancellation only for the loop to find it.
CancelStopsCollection ==
  cancelled = "early" /\ pids # <<>> => pc \notin Enriching \cup {"ok"}

\* GetTopProcesses returns, whatever processes do meanwhile.
CallReturns == <>(pc \in Final)

\* systats.go says of CPUUsageInstant that it is "correct for monitoring what's
\* using CPU right now": no row reports more CPU than the machine has.
RowsWithinCapacity ==
  \A n \in 1..Len(out) :
    out[n].cand.cpu.num <= Cores * out[n].cand.cpu.den

\* ProcessIO's comment: Accessible is false when /proc/<pid>/io couldn't be read.
AccessibleMeansRead ==
  \A n \in 1..Len(out) : out[n].io => out[n].ioRead
=============================================================================
