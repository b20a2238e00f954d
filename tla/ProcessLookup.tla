--------------------------- MODULE ProcessLookup ----------------------------
(***************************************************************************)
(* One call of GetProcessWithContext (getProcess in process.go): the       *)
(* samples, the status and the details of one pid, while its process may   *)
(* exit and the pid go to another.  Unlike GetTopProcesses, which leaves   *)
(* out what it cannot read, the call fails.                                *)
(***************************************************************************)
EXTENDS ProcFS, ProcUsage

ASSUME LookupAssumption == Cores * (MaxClock + Window) < Word /\ Word \in Nat

VARIABLES
  lookAt,     \* where the call is
  pid,        \* its argument
  average,    \* ProcessCPUMode is CPUUsageAverage
  lookDone,   \* the context is done
  lookStart,  \* start := time.Now(), or the uptime
  lookWake,   \* when the timer of sleepCtx fires
  lookSample, \* s1, or the one sample of the average mode
  lookUsage,  \* cpuUsage
  lookLag,    \* history: in average mode, how old the uptime was
  uidRead,    \* the status file had a uid to read
  lookGen,    \* history: incarnations read by the samples, status and details
  answer,     \* "none", a row, or why there is none
  met         \* history: the pid's incarnation when the call began, or none

lookVars == <<lookAt, pid, average, lookDone, lookStart, lookWake, lookSample,
              lookUsage, lookLag, uidRead, lookGen, answer, met>>
lookupVars == <<kernelVars, lookVars>>

\* Types of every variable.
LookupTypeOK ==
  /\ KernelTypeOK
  /\ lookAt \in {"idle", "start", "sample", "sleep", "again", "status", "statusRead",
                 "details", "returned"}
  /\ pid \in Pids /\ average \in BOOLEAN /\ lookDone \in BOOLEAN
  /\ lookStart \in Nat /\ lookWake \in Nat /\ lookLag \in Nat
  /\ lookSample \in Stat /\ lookUsage \in Usage /\ uidRead \in BOOLEAN
  /\ lookGen \subseteq Nat
  /\ answer \in {"none", "row", "proc", "meminfo", "ctx"}
  /\ met \in Nat \cup {-1}

LookupInit ==
  /\ KernelInit
  /\ lookAt = "idle" /\ pid \in Pids /\ average = FALSE /\ lookDone = FALSE
  /\ lookStart = 0 /\ lookWake = 0 /\ lookLag = 0
  /\ lookSample = [cpu |-> 0, starttime |-> 0, gen |-> 0]
  /\ lookUsage = Zero /\ uidRead = FALSE /\ lookGen = {}
  /\ answer = "none" /\ met = -1

-----------------------------------------------------------------------------
(* The call.                                                               *)

BeginLookup ==
  /\ lookAt = "idle" /\ lookAt' = "start"
  /\ average' \in BOOLEAN /\ pid' \in Pids
  /\ met' = IF pid' \in alive THEN gen[pid'] ELSE -1
  /\ UNCHANGED <<kernelVars, lookDone, lookStart, lookWake, lookSample, lookUsage,
                 lookLag, uidRead, lookGen, answer>>

Answer(a) ==
  /\ lookAt' = "returned" /\ answer' = a
  /\ UNCHANGED <<lookStart, lookWake, lookSample, lookUsage, lookLag, uidRead, lookGen>>

\* totalMemoryKB, and systemUptimeSeconds or the start of the window.
ReadTotals ==
  /\ lookAt = "start"
  /\ \/ Answer("meminfo")
     \/ /\ lookAt' = "sample" /\ lookStart' = clock
        /\ UNCHANGED <<lookWake, lookSample, lookUsage, lookLag, uidRead, lookGen, answer>>

\* readProcStat; averageCPUPercent, or sleepCtx with its timer.
FirstStat ==
  /\ lookAt = "sample"
  /\ \/ pid \notin alive /\ Answer("proc")
     \/ /\ pid \in alive
        /\ lookSample' = StatOf(pid) /\ lookGen' = {gen[pid]}
        /\ IF average
           THEN /\ lookUsage' = AverageCPUPercent(ticks[pid], born[pid], lookStart)
                /\ lookLag' = clock - lookStart
                /\ lookAt' = "status" /\ UNCHANGED lookWake
           ELSE lookAt' = "sleep" /\ lookWake' = clock + Window
                /\ UNCHANGED <<lookUsage, lookLag>>
        /\ UNCHANGED <<lookStart, uidRead, answer>>

\* Mutant: the context's error is given as the process's.
SleepLosesError ==
  /\ lookAt = "sleep"
  /\ \/ lookDone /\ Answer("proc")
     \/ /\ clock >= lookWake /\ lookAt' = "again"
        /\ UNCHANGED <<lookStart, lookWake, lookSample, lookUsage, lookLag,
                       uidRead, lookGen, answer>>

\* sleepCtx: either case of its select.
LookupSleeps ==
  /\ lookAt = "sleep"
  /\ \/ lookDone /\ Answer("ctx")
     \/ /\ clock >= lookWake /\ lookAt' = "again"
        /\ UNCHANGED <<lookStart, lookWake, lookSample, lookUsage, lookLag,
                       uidRead, lookGen, answer>>

\* The second readProcStat, and time.Since(start) after it.
SecondStat ==
  /\ lookAt = "again"
  /\ \/ pid \notin alive /\ Answer("proc")
     \/ /\ pid \in alive
        /\ lookUsage' = InstantCPUPercent(lookSample.cpu, ticks[pid], clock - lookStart)
        /\ lookGen' = lookGen \cup {gen[pid]} /\ lookAt' = "status"
        /\ UNCHANGED <<lookStart, lookWake, lookSample, lookLag, uidRead, answer>>

\* readProcMemAndUID: ReadFileWithError's stat, then its read.
StatStatus ==
  /\ lookAt = "status"
  /\ \/ pid \notin alive /\ Answer("proc")
     \/ /\ pid \in alive /\ lookAt' = "statusRead"
        /\ UNCHANGED <<lookStart, lookWake, lookSample, lookUsage, lookLag,
                       uidRead, lookGen, answer>>

\* Of a process that went in between, no uid and no memory is read.
ReadStatusFile ==
  /\ lookAt = "statusRead"
  /\ uidRead' = (pid \in alive)
  /\ lookGen' = IF pid \in alive THEN lookGen \cup {gen[pid]} ELSE lookGen
  /\ lookAt' = "details"
  /\ UNCHANGED <<lookStart, lookWake, lookSample, lookUsage, lookLag, answer>>

\* Mutant: enrichProcess's error is passed over, as in GetTopProcesses.
EnrichLenient ==
  /\ lookAt = "details"
  /\ lookAt' = "returned" /\ answer' = "row"
  /\ lookGen' = lookGen \cup {gen[pid]}
  /\ UNCHANGED <<lookStart, lookWake, lookSample, lookUsage, lookLag, uidRead>>

\* enrichProcess: without the stat file there is no row; the files it reads
\* after it only fill in fields.
Enrich ==
  /\ lookAt = "details"
  /\ \/ pid \notin alive /\ Answer("proc")
     \/ /\ pid \in alive
        /\ lookAt' = "returned" /\ answer' = "row"
        /\ lookGen' = lookGen \cup {gen[pid]}
        /\ UNCHANGED <<lookStart, lookWake, lookSample, lookUsage, lookLag, uidRead>>

LookupStep ==
  /\ \/ ReadTotals \/ FirstStat \/ LookupSleeps \/ SecondStat
     \/ StatStatus \/ ReadStatusFile \/ Enrich
  /\ UNCHANGED <<kernelVars, pid, average, lookDone, met>>

-----------------------------------------------------------------------------
(* The processes, the caller and the clock.                                *)

Looking == lookAt \notin {"idle", "returned"}

LookupCancelled ==
  /\ Looking /\ ~lookDone
  /\ lookDone' = TRUE
  /\ UNCHANGED <<kernelVars, lookAt, pid, average, lookStart, lookWake, lookSample,
                 lookUsage, lookLag, uidRead, lookGen, answer, met>>

\* After the last sample nothing depends on time.
LookupTime ==
  /\ lookAt \in {"start", "sample", "sleep", "again"}
  /\ Tick(IF lookAt = "sleep" THEN MaxClock + Window ELSE MaxClock)
  /\ UNCHANGED lookVars

Turnover ==
  /\ Looking
  /\ \E p \in Pids : Spawn(p) \/ Exit(p)
  /\ UNCHANGED lookVars

LookupNext == BeginLookup \/ LookupStep \/ LookupCancelled \/ LookupTime \/ Turnover

LookupSpec == LookupInit /\ [][LookupNext]_lookupVars

-----------------------------------------------------------------------------
(* Properties.                                                             *)

\* GetProcess's row is of one process unless the pid was recycled on the way:
\* then it has its owner and memory, and no more CPU time than the machine could
\* give it in the window it is divided by (in average mode, less the lag of the
\* sample behind the uptime).
RowOfOneProcess ==
  (answer = "row" /\ lookGen = {gen[pid]}) =>
    /\ uidRead
    /\ lookUsage.num <= Cores * (lookUsage.den + lookLag)

\* "A targeted lookup of a pid that isn't there should say so rather than return
\* an empty result" (process.go:137-138): no row for a pid that nobody had; and
\* for a process that was there all along no failure but the caller's or
\* meminfo's.
LookupAnswers ==
  /\ answer = "row" => met # -1 \/ gen[pid] > 0
  /\ answer = "proc" => ~(pid \in alive /\ met = gen[pid])
=============================================================================
