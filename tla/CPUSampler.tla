----------------------------- MODULE CPUSampler -----------------------------
(***************************************************************************)
(* One call of GetCPUWithContext (cpu.go) while CPUs burn time, go online  *)
(* and offline, and the process may be moved out of the cgroup whose       *)
(* budget it is measured against.                                          *)
(*                                                                         *)
(* /proc/stat counts in its own ticks, which may lag wall time; the        *)
(* cgroup's counter is exact.  Host percentages are the code's unsigned    *)
(* integer arithmetic; the cgroup figure is kept as num/den cores.         *)
(***************************************************************************)
EXTENDS Integers, Sequences, FiniteSets, FiniteSetsExt

CONSTANTS
  Cpus,      \* CPU numbers
  Stat0,     \* what each CPU has been charged when the call begins
  Hotplug,   \* whether CPUs may go online and offline during the call
  Requests,  \* ContainerAware, the cgroup version and whether it has a quota,
             \* and whether /proc/cpuinfo lists processors
  Word,      \* 2^64 in the code
  MaxClock,  \* bound: wall time that passes outside the sampling sleep
  Window,    \* CPUSampleWindow
  None

ASSUME CPUAssumption ==
  /\ Cpus \subseteq Nat /\ IsFiniteSet(Cpus) /\ Cpus # {}
  /\ Stat0 \in [Cpus -> [used : Nat, idle : Nat]]
  /\ Hotplug \in BOOLEAN
  /\ Requests \subseteq [aware : BOOLEAN, version : {"v1", "v2"},
                         quota : BOOLEAN, masked : BOOLEAN]
  /\ Word \in Nat \ {0} /\ MaxClock \in Nat /\ Window \in Nat \ {0}
  /\ Cardinality(Cpus) * (MaxClock + Window) < Word
  /\ None \notin Nat

VARIABLES
  req,
  cancelled,
  clock,         \* wall time
  online,        \* CPUs with a line of their own in /proc/stat
  used, idle,    \* user + system, and idle, of each CPU
  usage,         \* CPU time of the cgroup found by resolveCgroupCPU
  own,           \* that cgroup is there: always, while the process is in it
  plugged,       \* history: a CPU went online or offline
  pc,
  stat1, stat2,  \* parsed contents of /proc/stat, the "cpu" line first
  cgroup,        \* cgInfo: "none", "unlimited" or "limited"
  usage1, usage2,  \* the cgroup samples, None when not ok
  start, wake, elapsed,
  load,          \* LoadAvg: of the host, or num/den cores of the cgroup's quota
  coreAvg,       \* CoreAvg, empty when nil
  noOfCores,     \* NoOfCores
  err

hostVars == <<clock, online, used, idle, usage, own, plugged>>
callVars == <<req, pc, stat1, stat2, cgroup, usage1, usage2, start, wake,
              elapsed, load, coreAvg, noOfCores, err>>
vars == <<hostVars, callVars, cancelled>>

-----------------------------------------------------------------------------
Line == [used : Nat, idle : Nat]

Early == {"stat1", "quota", "period", "usage1", "sleep", "stat2", "usage2"}
Final == {"ok", "failed"}

HostLoad   == [of : {"host"}, percent : Nat]
CgroupLoad == [of : {"cgroup"}, num : Nat, den : Nat \ {0}]

\* Types of every variable; the cgroup's usage is never negative.
TypeOK ==
  /\ req \in Requests /\ cancelled \in BOOLEAN
  /\ clock \in Nat /\ online \in SUBSET Cpus
  /\ used \in [Cpus -> Nat] /\ idle \in [Cpus -> Nat]
  /\ usage \in Nat /\ own \in BOOLEAN /\ plugged \in BOOLEAN
  /\ pc \in Early \cup {"parse", "apply", "cpuinfo", "loadavg"} \cup Final
  /\ stat1 \in Seq(Line) /\ stat2 \in Seq(Line)
  /\ cgroup \in {"none", "unlimited", "limited"}
  /\ usage1 \in Nat \cup {None} /\ usage2 \in Nat \cup {None}
  /\ {start, wake, elapsed, noOfCores} \subseteq Nat
  /\ load \in HostLoad \cup CgroupLoad
  /\ coreAvg \in Seq(Nat)
  /\ err \in {"none", "file", "ctx", "panic"}

Init ==
  /\ req \in Requests /\ cancelled = FALSE
  /\ clock = 0 /\ online \in (SUBSET Cpus) \ {{}}
  /\ used = [c \in Cpus |-> Stat0[c].used]
  /\ idle = [c \in Cpus |-> Stat0[c].idle]
  /\ usage = 0 /\ own = TRUE /\ plugged = FALSE
  /\ pc = "stat1" /\ stat1 = <<>> /\ stat2 = <<>>
  /\ cgroup = "none" /\ usage1 = None /\ usage2 = None
  /\ start = 0 /\ wake = 0 /\ elapsed = 0
  /\ load = [of |-> "host", percent |-> 0] /\ coreAvg = <<>> /\ noOfCores = 0
  /\ err = "none"

Fail(why) ==
  /\ pc' = "failed" /\ err' = why
  /\ UNCHANGED <<req, stat1, stat2, cgroup, usage1, usage2, start, wake,
                 elapsed, load, coreAvg, noOfCores>>

-----------------------------------------------------------------------------
\* The lines of /proc/stat: the sum over all CPUs, then those online in order.
Sum(f) == MapThenSumSet(LAMBDA c : f[c], Cpus)

InOrder(S) == CHOOSE s \in [1..Cardinality(S) -> S] :
                \A m, n \in DOMAIN s : m < n => s[m] < s[n]

ProcStat ==
  LET cpus == InOrder(online) IN
  <<[used |-> Sum(used), idle |-> Sum(idle)]>> \o
    [n \in DOMAIN cpus |-> [used |-> used[cpus[n]], idle |-> idle[cpus[n]]]]

\* Differences of uint64 wrap.
Sub64(a, b) == (a - b) % Word

\* The time that passed on a line, and the percentage of it that was used.
Passed(n)  == Sub64(stat2[n].used + stat2[n].idle, stat1[n].used + stat1[n].idle)

\* Mutant: signed arithmetic.
SignedPercent(n) == (100 * (stat2[n].used - stat1[n].used)) \div Passed(n)

Percent(n) == ((100 * Sub64(stat2[n].used, stat1[n].used)) % Word) \div Passed(n)

-----------------------------------------------------------------------------
(* The call.                                                               *)

\* start, then the first reading of /proc/stat.
ReadStat1 ==
  /\ pc = "stat1"
  /\ \/ Fail("file")
     \/ /\ start' = clock
        /\ stat1' = ProcStat
        /\ IF req.aware THEN pc' = "quota" /\ UNCHANGED wake
           ELSE pc' = "sleep" /\ wake' = clock + Window
        /\ UNCHANGED <<req, stat2, cgroup, usage1, usage2, elapsed, load,
                       coreAvg, noOfCores, err>>

\* resolveCgroupCPU ended with info; without a cgroup there is nothing to sample.
Resolved(info) ==
  /\ cgroup' = info
  /\ IF info = "none" THEN pc' = "sleep" /\ wake' = clock + Window
     ELSE pc' = "usage1" /\ UNCHANGED wake
  /\ UNCHANGED <<req, stat1, stat2, usage1, usage2, start, elapsed, load,
                 coreAvg, noOfCores, err>>

\* readCgroupCPUQuota.  v2 has it in one file; v1 reads the period from a second
\* one when there is a quota.  No cgroup, or a file that cannot be read, is none.
ReadQuota ==
  /\ pc = "quota"
  /\ \/ Resolved("none")
     \/ own /\ ~req.quota /\ Resolved("unlimited")
     \/ own /\ req.quota /\ req.version = "v2" /\ Resolved("limited")
     \/ /\ own /\ req.quota /\ req.version = "v1"
        /\ pc' = "period"
        /\ UNCHANGED <<req, stat1, stat2, cgroup, usage1, usage2, start, wake,
                       elapsed, load, coreAvg, noOfCores, err>>

\* The cgroup was there for the quota: when it has gone since, the IsFile may
\* still have seen it, and ToFloat64 then panics on "".
ReadPeriod ==
  /\ pc = "period"
  /\ IF own THEN Resolved("limited") ELSE Resolved("none") \/ Fail("panic")

\* Mutant: the configured window stands for the time that passed.
SampledNominal(value) ==
  /\ IF pc = "usage1"
     THEN /\ usage1' = value /\ pc' = "sleep" /\ wake' = clock + Window
          /\ UNCHANGED <<usage2, elapsed>>
     ELSE /\ usage2' = value /\ pc' = "parse" /\ elapsed' = Window
          /\ UNCHANGED <<usage1, wake>>
  /\ UNCHANGED <<req, stat1, stat2, cgroup, start, load, coreAvg, noOfCores, err>>

\* A cgroup sample; after the second one the elapsed time is taken.
Sampled(value) ==
  /\ IF pc = "usage1"
     THEN /\ usage1' = value /\ pc' = "sleep" /\ wake' = clock + Window
          /\ UNCHANGED <<usage2, elapsed>>
     ELSE /\ usage2' = value /\ pc' = "parse" /\ elapsed' = clock - start
          /\ UNCHANGED <<usage1, wake>>
  /\ UNCHANGED <<req, stat1, stat2, cgroup, start, load, coreAvg, noOfCores, err>>

\* sampleCgroupCPUUsageSeconds: v1's ToUint64 panics likewise.
SampleUsage ==
  /\ pc \in {"usage1", "usage2"}
  /\ IF own THEN Sampled(usage)
     ELSE \/ Sampled(None)
          \/ /\ req.version = "v1"
             /\ pc = "usage2" => usage1 # None
             /\ Fail("panic")

\* sleepCtx: the select takes either ready case.
SleepElapses ==
  /\ pc = "sleep" /\ clock >= wake
  /\ pc' = "stat2"
  /\ UNCHANGED <<req, stat1, stat2, cgroup, usage1, usage2, start, wake,
                 elapsed, load, coreAvg, noOfCores, err>>

SleepCancelled ==
  /\ pc = "sleep" /\ cancelled
  /\ Fail("ctx")

ReadStat2 ==
  /\ pc = "stat2"
  /\ \/ Fail("file")
     \/ /\ stat2' = ProcStat
        /\ IF cgroup # "none" THEN pc' = "usage2" /\ UNCHANGED elapsed
           ELSE pc' = "parse" /\ elapsed' = clock - start
        /\ UNCHANGED <<req, stat1, cgroup, usage1, usage2, start, wake, load,
                       coreAvg, noOfCores, err>>

\* Mutant: the loop goes one line too far.
ParseTooFar ==
  /\ pc = "parse"
  /\ IF Len(stat2) <= Len(stat1) THEN Fail("panic")
     ELSE /\ pc' = "apply"
          /\ UNCHANGED <<req, stat1, stat2, cgroup, usage1, usage2, start,
                         wake, elapsed, load, coreAvg, noOfCores, err>>

\* Mutant: the sum is taken for a core.
SumIsACore ==
  /\ pc = "parse"
  /\ IF Len(stat2) < Len(stat1) THEN Fail("panic")
     ELSE /\ load' = [of |-> "host",
                      percent |-> IF Passed(1) > 0 THEN Percent(1) ELSE 0]
          /\ coreAvg' = [n \in 1..Len(stat1) |->
                            IF Passed(n) > 0 THEN Percent(n) ELSE 0]
          /\ pc' = "apply"
          /\ UNCHANGED <<req, stat1, stat2, cgroup, usage1, usage2, start,
                         wake, elapsed, noOfCores, err>>

\* processStatFileContents: a line of the first reading is compared with the one
\* at the same place of the second, which panics when there is none.  Where no
\* time passed a core is 0, and so is the sum: as one more core.
Parse ==
  /\ pc = "parse"
  /\ IF Len(stat2) < Len(stat1) THEN Fail("panic")
     ELSE /\ load' = [of |-> "host",
                      percent |-> IF Passed(1) > 0 THEN Percent(1) ELSE 0]
          /\ LET core(n) == IF Passed(n) > 0 THEN Percent(n) ELSE 0
                 cores == [n \in 1..Len(stat1) - 1 |-> core(n + 1)]
             IN coreAvg' = IF Passed(1) > 0 THEN cores ELSE <<0>> \o cores
          /\ pc' = "apply"
          /\ UNCHANGED <<req, stat1, stat2, cgroup, usage1, usage2, start,
                         wake, elapsed, noOfCores, err>>

\* Mutant: the host's figures per core are left beside the quota's.
ApplyKeepsCores ==
  /\ pc = "apply"
  /\ noOfCores' = Len(coreAvg)
  /\ load' = IF cgroup = "limited" /\ None \notin {usage1, usage2} /\ elapsed > 0
             THEN [of |-> "cgroup", num |-> usage2 - usage1, den |-> elapsed]
             ELSE load
  /\ pc' = "cpuinfo"
  /\ UNCHANGED <<req, stat1, stat2, cgroup, usage1, usage2, start, wake,
                 elapsed, coreAvg, err>>

\* applyCgroupCPU; logicalFromStat was taken before CoreAvg is dropped, and
\* NoOfCores waits there until /proc/cpuinfo is read.
Apply ==
  /\ pc = "apply"
  /\ noOfCores' = Len(coreAvg)
  /\ IF cgroup = "limited" /\ None \notin {usage1, usage2} /\ elapsed > 0
     THEN /\ load' = [of |-> "cgroup", num |-> usage2 - usage1, den |-> elapsed]
          /\ coreAvg' = <<>>
     ELSE UNCHANGED <<load, coreAvg>>
  /\ pc' = "cpuinfo"
  /\ UNCHANGED <<req, stat1, stat2, cgroup, usage1, usage2, start, wake,
                 elapsed, err>>

\* processCPUInfoFileContent: the processors listed, else logicalFromStat.
ReadCPUInfo ==
  /\ pc = "cpuinfo"
  /\ \/ Fail("file")
     \/ /\ noOfCores' = IF req.masked THEN noOfCores ELSE Cardinality(online)
        /\ pc' = "loadavg"
        /\ UNCHANGED <<req, stat1, stat2, cgroup, usage1, usage2, start, wake,
                       elapsed, load, coreAvg, err>>

ReadLoadAvg ==
  /\ pc = "loadavg"
  /\ \/ Fail("file")
     \/ /\ pc' = "ok"
        /\ UNCHANGED <<req, stat1, stat2, cgroup, usage1, usage2, start, wake,
                       elapsed, load, coreAvg, noOfCores, err>>

CallStep ==
  \/ ReadStat1 \/ ReadQuota \/ ReadPeriod \/ SampleUsage
  \/ SleepElapses \/ SleepCancelled \/ ReadStat2
  \/ Parse \/ Apply \/ ReadCPUInfo \/ ReadLoadAvg

Call == CallStep /\ UNCHANGED <<hostVars, cancelled>>

-----------------------------------------------------------------------------
(* The environment.                                                        *)

\* Only the sleep looks at the context.
Cancel ==
  /\ ~cancelled /\ pc \in Early \ {"stat2", "usage2"}
  /\ cancelled' = TRUE
  /\ UNCHANGED <<hostVars, callVars>>

\* A unit of time: a CPU is charged it as used or idle, or not yet at all; the
\* cgroup burns what the CPUs can give.
Time ==
  /\ pc \in Early
  /\ clock < MaxClock + IF pc = "sleep" THEN Window ELSE 0
  /\ clock' = clock + 1
  /\ \E busy \in SUBSET online : \E resting \in SUBSET (online \ busy) :
       /\ used' = [c \in Cpus |-> used[c] + IF c \in busy THEN 1 ELSE 0]
       /\ idle' = [c \in Cpus |-> idle[c] + IF c \in resting THEN 1 ELSE 0]
  /\ \E d \in 0..Cardinality(Cpus) :
       /\ own \/ d = 0
       /\ usage' = IF req.aware THEN usage + d ELSE usage
  /\ UNCHANGED <<online, own, plugged, callVars, cancelled>>

Plug ==
  /\ Hotplug /\ pc \in Early \cup {"parse", "apply", "cpuinfo"}
  /\ \E c \in Cpus :
       /\ online' = IF c \in online THEN online \ {c} ELSE online \cup {c}
       /\ online' # {}
  /\ plugged' = TRUE
  /\ UNCHANGED <<clock, used, idle, usage, own, callVars, cancelled>>

\* The process is moved to another cgroup and its old one is removed.
MoveAway ==
  /\ own /\ pc \in Early
  /\ cgroup # "none" \/ pc = "period"
  /\ own' = FALSE
  /\ UNCHANGED <<clock, online, used, idle, usage, plugged, callVars, cancelled>>

Returned == pc \in Final /\ UNCHANGED vars

Next == Call \/ Cancel \/ Time \/ Plug \/ MoveAway \/ Returned

Spec == Init /\ [][Next]_vars

-----------------------------------------------------------------------------
(* Properties.                                                             *)

\* While no CPU comes or goes and /proc/stat saw time pass, there is a figure
\* per core counted in NoOfCores, and no figure exceeds 100, whatever became of
\* the cgroup (processStatFileContents, applyCgroupCPU, processCPUInfoFileContent).
SteadyCores ==
  pc = "ok" /\ ~plugged /\ load.of = "host" /\ Passed(1) > 0 =>
    /\ Len(coreAvg) = noOfCores
    /\ \A n \in DOMAIN coreAvg : coreAvg[n] <= 100
    /\ load.percent <= 100

\* Against a quota, the usage never exceeds what the host's CPUs could give in
\* the time it is divided by: start is taken before the first sample and the
\* elapsed time after the second (getCPU).
QuotaWithinHost ==
  load.of = "cgroup" => load.num <= Cardinality(Cpus) * load.den

\* CPU.Limited's promise (cpu.go:48-50): with a quota LoadAvg is of the quota and
\* there is no CoreAvg.  Limited is set before the samples are looked at, so a
\* cgroup that went between its quota and a sample leaves the host's figures.
LimitedIsOfQuota ==
  pc = "ok" /\ cgroup = "limited" /\ own => load.of = "cgroup" /\ coreAvg = <<>>

\* Only a CPU going offline or the process leaving its cgroup mid-call can make
\* a parser panic (withRecover turns it into GetCPU's error).
PanicsOnlyOnChange == err = "panic" => plugged \/ ~own

\* CPU's comment (cpu.go:29-31): "NoOfCores is the host's logical CPU count -
\* what nproc reports, and always equal to len(CoreAvg) when CoreAvg is
\* populated."
CoresMatch ==
  pc = "ok" /\ coreAvg # <<>> => Len(coreAvg) = noOfCores
=============================================================================
