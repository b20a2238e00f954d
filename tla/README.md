# A verification project for systats

systats is a Go library that reads a Linux host: CPU, memory, disks, networks,
processes, containers, from `/proc`, `/sys` and cgroup files, and a program in
`example/` that renders one dashboard of everything the library returns.  The
library keeps no state between calls.  What is hard about it is that a call reads many
files, one after the other and with a sleep in the middle, from a system that
does not stand still: a pid is recycled between two reads, a cgroup is removed
between the `stat` and the `read` of one of its files, a CPU goes offline
between two readings of `/proc/stat`, the context is cancelled anywhere.  The
modules here put every such read in a step of its own and let the system change
between any two.

Line numbers below are of the files in `src/`.

## 1. Inventory

### Components

| Component | Code | State it keeps | Operations | Status |
|---|---|---|---|---|
| Top processes | `process.go` `getTopProcesses` | locals of one call: pids, two samples, candidates, rows | list, sample, sleep, sample, collect, sort and limit, enrich | modelled |
| Process lookup | `process.go` `getProcess` | locals of one call | totals, two samples of one pid (one in average mode), status, enrichment; errors in place of skips | modelled |
| Containers | `container*.go`, `cgroup.go` | locals of one call: refs, metadata, two samples, rows | discover, fetch metadata, match, sample, sleep, sample, read each one's figures, walk the layer | partly |
| CPU | `cpu.go` | locals of one call | two readings of `/proc/stat`, quota, two cgroup samples, cpuinfo, loadavg | modelled |
| Dashboard collection | `example/collect.go`, `example/main.go` | shared by 14 goroutines: the page, its problems, four readings, a mutex, a WaitGroup | run, fail, wait, build, serve or write | modelled |
| Rates | `diskio.go`, `container.go` (`RatesSince`), `example/collect.go` | none: two snapshots of the caller's | two polls, a stopwatch, join by name, difference of counters, reset detection | modelled |
| Memory and swap | `memory.go`, `swap.go` | locals of one call | `/proc/meminfo`; the cgroup's limit, usage and inactive cache, each stat'ed and then read | modelled |
| Pressure | `pressure.go` | locals of one call | choice of a directory, then a loop over cpu, memory and io | modelled |
| Services and subprocesses | `service.go`, `exec/exec.go`, `system.go` | a child process, its stdout, a timer | start, kill, read to the end, decide, fall back to a second program | modelled |
| Network | `network.go`, `netproto.go` | locals of one call | names, socket tables, open files; interfaces and their counters; protocol counters; ports | partly: ports and addresses are not |
| Disks and mounts | `disk.go` | locals of one call | the mount table, `statfs` of each entry | partly: the arithmetic on one entry is not |
| Disk I/O counters | `diskio.go` | none | one read of `/proc/diskstats` | partly, as a poll of `Rates` |
| Cgroup resolution | `cgroup.go` | none | version, the process's path, a directory per controller | partly, through its users |
| System information | `system.go` | none | one read per field; `who` | partly: `who` |
| Panic boundary and configuration | `systats.go` | `SyStats`, written before use only | `withRecover`, `sleepCtx`, defaults | partly, in every call modelled |
| Text helpers | `internal/` | none | stat and read of a file, numbers, units | partly, through their users |
| Temperatures | `temperature.go` | none | a walk over sysfs | not modelled |
| Dashboard rendering, build check | `example/render.go`, `build_test/` | none | formatting | not modelled |

### How they interact

- Every exported method runs its component inside `withRecover`, so a panic of
  a parser (the `strops` helpers panic on malformed numbers) becomes the call's
  error.  Inside, only `readContainerStats` has a recover of its own: there a
  panic costs one container and not the call.
- `fileops.ReadFileWithError` decides on `stat(2)` whether a file is there and
  then ignores an error of the read.  A file that goes away, or that may be
  stat'ed and not opened, therefore reads as an empty string with no error.
  Much of what follows is about what each caller makes of that.
- `sleepCtx` waits for a timer or for the context; when both are ready, `select`
  takes either.
- Containers uses CPU's `sampleCgroupCPUUsageSeconds` and `readCgroupCPUQuota`,
  a unix socket of a container runtime, and, for a lookup, the same listing
  narrowed to one container.
- The dashboard runs every reader in a goroutine of its own against one shared
  `SyStats`, with the request's context.

### What is hard, and what is correct

| Component | Hard because | Correct when |
|---|---|---|
| Top processes | pids exit and are recycled between any two reads; unsigned tick difference; cancellation between timer and loop | CPU figures stay within what the measured window allows; the rows are the top of the ranking less those that exited; no row of a process that was gone when its status was read; a done context ends the call; the call ends |
| Containers | cgroups are hierarchical, removed file by file, created again under the same name; the runtime may hang; names and id prefixes collide | figures add up to at most the host; a container nothing happened to is reported once, with its own network; a call fails only for a container something happened to; a lookup never picks another; a layer size is of files that were there, each counted once |
| CPU | lines of two readings are matched by position while CPUs come and go; `/proc/stat` ticks are coarser than the window; the cgroup may go | one figure per core; no figure above 100; usage against a quota within the host; panics only when something really changed |
| Dashboard | 14 goroutines append to one list and fill one struct; the client leaves | no problem lost or doubled, no reader left out, nothing moves after `Wait`, no half-cancelled page served, no deadlock |
| Rates | devices restart, come and go; the files of an interface are read one by one; the stopwatch does not cover the polls | no rate above what a device can count between its readings; an undisturbed device rated by exactly what it counted |
| Process lookup | the pid may exit, or go to another process, between any two reads | a row is of one process, or says nothing false of two; a process that stays is found, one that never was is not |
| Memory and swap | the limit, the usage and the cache are read in turn, from a cgroup the process may leave | all figures of the host or all of one cgroup; no failure but for a bad unit, a bad meminfo or a cgroup gone |
| Pressure | a cgroup without PSI, a kernel without PSI and a file just gone look alike | figures of one source; absence of PSI never passed for zeros |
| Services | two programs in a row, each killed by a timer or the context at any point, possibly with output already there and a descendant holding the pipe | output decides and silence is an answer only of a program that ended well; bounded by one timeout per program; the call returns |
| Network | three kinds of files, read at three times, of processes and sockets that come and go | a descriptor open throughout is counted, one never open is not; a socket is listed once |
| Disks | the table is read once, the figures later and by path | a file system that stays where it was is listed with its own figures |
| Protocol counters | lines pair by name, and may be missing | a number is never filed under another protocol's name |

## 2. Modules

| Module | Models | Kind |
|---|---|---|
| `ProcFS` | processes as `/proc` shows them: spawn, exit, pid reuse, CPU accounting, uptime | environment |
| `TopProcesses` | `GetTopProcessesWithContext` | component, extends `ProcFS` |
| `TopProcessesProofs` | theorems about it | proofs |
| `Cgroups` | cgroup directories v1 and v2, their processes and counters, a container runtime that starts, stops and removes containers | environment |
| `Containers` | `GetContainersWithContext`, `GetContainerWithContext` | component, extends `Cgroups` |
| `ContainersProofs` | theorems about it | proofs |
| `CPUSampler` | `GetCPUWithContext` | component with its own environment |
| `CPUSamplerProofs` | theorems about it | proofs |
| `Collection` | what one collection of the dashboard promises | abstract specification |
| `Dashboard` | `collect()`, and its caller serving HTTP or writing a file | component; refines `Collection` |
| `DashboardProofs` | theorems about it | proofs |
| `ProcUsage` | the percentages of `process.go`, with their unsigned arithmetic | operators shared by `TopProcesses` and `ProcessLookup` |
| `ProcessLookup` | `GetProcessWithContext` | component, extends `ProcFS` |
| `Readings` | `GetMemory`, `GetSwap`, `GetPressure` | component with its own environment |
| `ReadingsProofs` | theorems about it | proofs |
| `Rates` | `RatesSince` of disks and containers, `deltaPerSec`, and the samplers that poll for them | component with its own environment |
| `RatesProofs` | theorems about it | proofs |
| `Sockets` | `EstablishedTCPConnCount`, `GetTCPConnectionStates` | component with its own environment |
| `Subprocess` | `IsServiceRunningWithContext`, the `who` of `GetSystemWithContext`, `exec.run` | component with its own environment |
| `Mounts` | `GetDisks` | component with its own environment |
| `ProtocolStats` | `GetProtocolStats` | component |
| `MCCalls` | any one call of the seven modules from `ProcessLookup` on | composition and instance for TLC |
| `HostCallsProofs` | theorems about `ProcessLookup`, `Sockets`, `Subprocess`, `Mounts` and `ProtocolStats`, and about the composition | proofs |
| `FiniteFacts` | lemmas on sums, on listing a finite set in order, and two inductions | proofs, shared |
| `MCTopProcesses`, `MCContainers`, `MCCPUSampler`, `MCDashboard` | values of the constants | instances for TLC |

In each component module a call is a program counter `pc` over the reads the
code makes.  An action is the code from one read of the changing system to the
next, with every early return (`Fail(why)`) and every local it assigns.  The
order of the actions is the order of the code.  Definitions after a comment
that begins "Mutant:" are never used by a specification: each is a plausible
slip in the definition beside it, kept to show that the properties notice it.

### Top processes

`ListPids` is the code up to the dispatch on `ProcessCPUMode`.  In instant mode
`Sample1`, `EndSample1`, `SleepElapses` or `SleepCancelled`, `Sample2`,
`EndSample2`, `Collect` and `ReadStatus` follow (one `Sample` step per pid, one
`Collect` and `ReadStatus` per candidate); in average mode `ReadUptime` takes
the place of the clock and there is one sample.  `SortAndLimit` takes any order
`sort.Slice`, which is not stable, may give.  `EnrichStat`, `StatProcIO` and
`ReadProcIO` are the enrichment of one row.

A percentage is the fraction `num/den` of ticks, so no rounding hides an order.
`gen1`, `gen2` and `lag` of a candidate, and `gone`, are history: which
incarnation of the pid a value was read from, how long after the uptime in
average mode, which rows were dropped.  `cancelled` records whether the context
was done before the candidate loop.

`ProcFS` lets processes start, exit and burn CPU up to `Cores` ticks per tick of
wall time, in any way.  A recycled pid is a process with a new generation and
counters from zero.

### Containers

`Begin` checks the unit and the cgroup version; `Visit` takes one step of the
walk of the cgroup tree per directory (a match is not descended into; the pid
may be of a cgroup below it); `EndWalk`, `RuntimeAnswers`,
`MetadataExpires` the metadata; `Match` the lookup; then the two sampling
loops around the sleep, with `start` after the first loop as in the code
(399); then, for each row, `ReadMemory`, `StatCounters`, `ReadCounters`,
`StatNetwork`, `ReadNetwork`, the layer, and `Finish`.  Under v1 a sample is a
`SampleStat` and a `SampleRead`, since `cpuacct.usage` may go in between; under
v2 a missing line is "not ok" whichever way it went and one step does.

Two choices of `Cgroups` matter.  A figure of a cgroup includes the cgroups
inside it.  And `disturbed` remembers the ids that started, lost a process or
were removed during the call: the others are the "steady" ones the properties
promise something about.

A call may take time before its second samples (`Time`), `begun` being the clock at
the first of the first samples and `start` what the code takes after the last of
them.  The walk of a layer is `FindLayer`, `OpenLayer`, a `LayerEntry` per name, and `LayerDone`;
an entry is counted (`CountFile`) or passed over with no error (`SkipFile`).  A name in
`Sealed` is in a directory that cannot be read, `InodeOf` says which names are links
to one file, and while the walk lasts names are made and removed (`Touch`, which
`touched` remembers), so that the link count a file shows depends on when it is
looked at.

Of the files `readContainerStats` reads, what is kept is the control: whether the
memory cgroup can be read (the row is dropped if not), whether a parser
panics, and the network namespace.  The figures parsed from memory, pids,
pressure and block I/O files are left out.

### CPU

A reading of `/proc/stat` is a sequence of lines, the sum first and then the
CPUs online in order.  `Parse` is `processStatFileContents` with its unsigned
integer arithmetic and its comparison by position; `Apply` is `applyCgroupCPU`.
`/proc/stat` is charged in ticks that may lag wall time, so two readings may
show no time at all; that is what a window below 10 ms sees.  `MoveAway` is the
service manager moving the process and removing its old cgroup.

### Dashboard

A goroutine is a place in its code: `read`, `nap` (a wait on the context),
`lock` and `publish` for the readings the container panel shares, `fill` for a
panel, `failLock`, `load` and `store` for `fail()`, `exit` for the deferred
`Done`.  The append in `fail()` is a load and a store, because that is what makes
an append outside the mutex lose a problem.  `main` is `collect()` and then its
caller: in `serve` mode `CheckContext` drops the page when the request's
context is done (163-166 of `main.go`), in `file` mode it is written whatever
the context.

`Collection` says the same in three actions: a reader settles once, as filled,
limited or failed; the page is assembled when all have, with a container panel
exactly when one found a limit; then it is delivered or dropped.  `Dashboard`
implements it under the mapping `Outcome`, `PageOf`.

### Process lookup

`getProcess` reads what `GetTopProcesses` does, of one pid, and turns every skip
into an error: `ReadTotals`, `FirstStat`, `LookupSleeps`, `SecondStat`,
`StatStatus`, `ReadStatusFile`, `Enrich`.  The status file is stat'ed and read
in two steps, since it may go in between and then yields neither owner nor
memory, without an error.  `lookGen` remembers which incarnations of the pid
the row was read from, `met` who had the pid when the call began.

### Memory, swap and pressure

`Readings` is the three calls that read a few files of one cgroup.  The cgroup
is looked up once (`ResolveMemory`, `ResolvePressure`) and its files are stat'ed
(`StatFile`) and read (`ReadLimit`, `ReadUsage`, `ReadInactive`, `ReadPressure`)
in separate steps.  `Missing`, `Content` and `Empty` are the three ways a read
can go: not there when stat'ed, there, gone in between.  An `Empty` limit or usage panics (`EmptyBytes`), an empty pressure file is zeros.  `/proc/meminfo` may be
missing or malformed (`BadMeminfo`), which is an error or a panic and so an error either way.  Meanwhile limits
and usage change, the process is moved and its old cgroup is removed
(`Account`, `MoveProcess`, `RemoveGroup`); a usage may exceed the limit beside it.  Amounts are bytes, divided by a KiB
where the code does.

### Rates

A poll of disks or of a container is one snapshot; a poll of interfaces lists
them and reads a file per counter (`ReadCounter`), in the order of the list, with
zero for one that is gone.  `RateTick` is time: while the stopwatch runs it
lengthens `elapsed`, otherwise `slack`, and any device counts at most `Cap`.
`EachSince` is `deltaPerSec`, `AllSince` the two `RatesSince`, `Totals` the sums a
container is compared by.  `growth` is a rate times the time it was divided by,
so that no property depends on `float64`.

### Sockets

`EstablishedTCPConnCount` is three passes: the names of all pids (`ReadComm`),
the tables of IPv4 and of IPv6 (`ReadTCP`, `ReadTCP6`), and the open files of the
pids that had the name (`ReadFdDir`, then `ReadLink` per entry).
`GetTCPConnectionStates` is the middle one alone.  Between any two of these steps
sockets connect, shut down, are closed or passed on, and processes exit and
start.  A process has a socket open under descriptor numbers (`Numbers`), maybe several: each is an
entry of its fd directory, and what it is a link to is looked at when it is read
(`Target`).  A socket no process holds is no longer established, and an inode is not used
twice in a call.

### Subprocess

`Start`, `StartFails`, `Kill` and `OutputReturns` are `exec.run`; `Decide` is what
`isServiceRunning` or `processLoggedInUsers` makes of output and error, with
`Fallback` for the second program.  `child` tells a program that was killed from one that
failed by itself; the code does not.  The program speaks, forks and ends by
itself.  `Output()` returns when the program has ended and the last writer of its
stdout has closed it; the kill reaches the program and not what it forked.
`held` is the time in which only such a descendant kept the call, which the
properties set apart.

### Disks and protocols

In `Mounts` a lookup of a path ends in the last file system mounted on it or above
it, and `statfs` answers for that one, whatever entry of the table named the
path.  `disks` keeps both: the entry and whose figures it was given.
`ProtocolStats` goes through the lines of two files as `parseProcNetSNMP` does,
with one header pending; what is filled in keeps the lines its name and its
number came from.

### One call of any kind

The seven calls share no variable and none of them interacts with another, so
`MCCalls` makes one of them and leaves the rest where they began (`StillBut`);
exploring them at the same time would only multiply the states.

## 3. Runs

| Run | Checks | Bounds | Shows |
|---|---|---|---|
| `top_calls` | `TypeOK`, `UsageWithinWindow`, `OwnerlessOnlyIfRecycled`, `CancelStopsCollection`, `RankedByUsage`, `CallReturns` | either 2 pids, each recycled once, 2 ticks besides the window, a count of 1, an unsupported sort order; or 3 pids, 2 memory sizes, counts -1 and 2, both orders, no recycling and no time but the window's; 1 core, both modes, one pid's io file unreadable | what a call claims of a process was measured, whatever happens in between; the rows are the top of the ranking; the call ends |
| `top_pid_reuse` | `RowsWithinCapacity` | 1 pid recycled once | finding 1 |
| `top_foreign_io` | `AccessibleMeansRead` | 1 pid, of another user | finding 2 |
| `containers_usage` | `TypeOK`, `TotalWithinHost`, `SteadyReported` | 2 containers side by side, another inside one of them, 2 pids, 3 changes (starts, stops, removals, re-creations), 2 ticks besides the window, v2 and no cgroups | figures add up; a steady container is there once, whatever the others do |
| `containers_calls` | `LookupFindsSteady`, `FailsOnlyIfDisturbed`, `LayerCounted`, `CallReturns` | 2 containers, one named like the prefix of the other's id, 4 queries and one with a layer of 3 names: two links of one file and an unreadable one; 2 pids, 2 changes of cgroups, processes or files, v1 | a lookup finds the one meant; a call fails only for a container something happened to; a size is of files that were there; the call ends although the runtime may hang |
| `containers_percent` | `PercentWithinHost` | 1 container, 1 tick besides the window, v2 | finding 5 |
| `containers_stop_v1` | `StopNeverFails` | 1 container, v1 | finding 3 |
| `dashboard_page` | `TypeOK`, `EveryReaderSettledOnce`, `NoCancelledPanelServed`, `PageStillAfterWait`, `KeepsPromise`, `RenderingEnds` | one reader of each kind: shared with a panel, three waits, container-aware | the collection implements `Collection` and ends |
| `cpu_sampling` | `TypeOK`, `SteadyCores`, `QuotaWithinHost`, `LimitedIsOfQuota`, `PanicsOnlyOnChange` | 2 CPUs, hotplug at any point, 1 tick besides the window, v1 and v2, with and without quota | figures per core and against a quota are what was measured |
| `cpu_cores` | `CoresMatch` | the same without hotplug | finding 4 |
| `service_stopped` | `StoppedInFull` | a timeout of 2 ticks; every set of programs installed | finding 6 |
| `host_calls` | see below | see below | a call that reads several files, polls twice or runs programs answers of one source, one process, one interval, or a program that said so |

`host_calls` has the constants of seven calls:

| Call | Properties | Bounds |
|---|---|---|
| all | `CallsTypeOK` | |
| memory, swap, pressure | `MemoryOfOneSource`, `FailsForCause`, `PressureOfOneSource` | 2 cgroups, 4 contents of memory files (a limit below a KiB, a usage above the limit, a plain one, no limit), every configuration, with `/proc/meminfo` good, missing or malformed; limits, moves and removals without bound |
| rates | `RateWithinSpan`, `TotalWithinSpan`, `SteadyRowsExact` | 2 devices, 2 restarts, arrivals or departures, one tick of sleep, one of oversleeping, one outside the stopwatch |
| process lookup | `RowOfOneProcess`, `LookupAnswers` | 1 pid, used by up to three processes, 1 core, both modes, 2 ticks besides the window |
| sockets | `CountBetween`, `StatesReconcile` | 2 processes with 2 descriptor numbers, one socket in each table, 3 changes |
| programs | `VerdictHeard`, `WithinTimeouts`, `RunReturns` | a timeout of 2 ticks, 1 tick of a descendant; every set of programs installed |
| disks | `SteadyDisksListed` | 4 file systems: a root, one below it, one of an excluded type mounted over that, one without blocks inside; 2 mounts or unmounts |
| protocols | `CountersPaired` | 3 protocols in 2 files, lines of 0 to 2 columns |

### Why the bounds are enough

Every hazard listed is about one or two of a kind.  Pid reuse needs one pid and
two incarnations; a row dropped in the middle needs three candidates and a count
of two; two rows mixed up need two.  Double counting needs a container inside
another; one that stops while another is to be reported needs two that are not; an ambiguous prefix and a name that is a prefix need two containers.
A file counted twice or not at all needs two links, one of which
is made or removed during the walk, and a skipped one needs a third name.
A lost append needs two goroutines and the third is there because the three
kinds of reader differ.  A CPU line shifted by one needs two CPUs and the sum.
Time outside the sleep only has to be able to pass at all (`MaxClock`), in any
one of the gaps between reads, since each property bounds a figure by a window.
`Word` stands for 2^64 and only has to exceed every counter of a run, which the
assumptions `CallAssumption`, `LookupAssumption` and `CPUAssumption` state.  The
theorems below remove the bounds from every invariant; what remains bounded is
liveness, and that a cgroup inside a container's has none inside it.

For the calls of `host_calls`: a figure of two sources needs two cgroups, and the
host.  The contents of the memory files are the cases `Apply` and `WorkingSet`
tell apart.  A reset that hides a device's arrival needs two devices and two
moves; three ticks are one in each of the intervals a rate is made of.  A socket
missed or counted twice needs a change between each of the three passes, and one
counted once for each descriptor needs two numbers.  A timeout of
two ticks lets a program answer before, at and after its timer.  A mount hidden and
uncovered during the call needs two remounts.  A protocol paired with its
neighbour needs two in a file, and a column lost needs two columns.

A run that asks several questions shares its bounds among them.  `top_calls` is two
instances in one (`crowd` in `MCTopProcesses`): a crowd that has to be ranked, in which nobody
is born, and a churn of two pids, which has nothing to rank.  The containers' figures are
checked under v2, where a sample is one step, and the rest under v1, where it
is two and a stop may panic; the theorems are of both.

`SYMMETRY` over pids is used where a run has invariants only and `FirstPids`
picks any pid.

### Fairness

- `TopProcesses`, `Containers`: `WF(Call)` and `WF(Time)`.  The goroutine of a call is
  scheduled and a system call on `/proc`, `/sys` or cgroupfs returns; time
  passes, which is all a timer needs.  Nothing is assumed of processes,
  containers, the caller's context or the runtime behind the socket: the call
  must end although the runtime never answers.
- `Dashboard`: `WF(Main)` and `WF(Step(w))` for each goroutine.  Weak fairness
  of the step that takes the mutex is enough: a goroutine locks it once, so it
  cannot be overtaken for ever.  It includes that a reader's reads return.  A
  `statfs` on a dead network mount, which may not, is outside the model.
- `Subprocess`: `WF(RunStep)` and `WF(TimePasses)`.  The goroutine in `run` is
  scheduled, a `SIGKILL` ends the program it is sent to, and timers fire.  Time
  passes only while the call has nothing to do: its own steps take no time
  next to five seconds.  Nothing is assumed of the programs, which need not end or
  print, nor of their descendants: `RunReturns` excepts one that keeps the pipe
  open for ever.
- The other modules state no fairness: they are loops over finite lists, and
  nothing live is claimed of them.

### What the violations say

1. **`top_pid_reuse`** (`process.go:407`).  `instantCPUPercent` subtracts the
   ticks of two samples on `uint64` and never compares `starttime`, which it has
   at hand.  A pid recycled in the window makes the difference wrap to about 2^64
   ticks, and that row is then the first of the result.  `systats.go:41-42`
   recommends the mode as "correct for monitoring 'what's using CPU right now'".
2. **`top_foreign_io`** (`process.go:271`).  `Accessible` is documented as false
   when `/proc/<pid>/io` could not be read (`process.go:55-58`).  It is false
   only when the file could not be stat'ed: another user's io file reads as empty
   and is reported as accessible, with zero counters.
3. **`containers_stop_v1`** (`cpu.go:243`).  Under cgroup v1 a `cpuacct.usage`
   that goes away between `stat` and `read` parses as an empty string and
   panics.  Both sampling loops of `collectContainers` are outside the recover
   of `readContainerStats`, so one container stopping fails the listing of all;
   `README.md:449` of the repository says it is dropped.
4. **`cpu_cores`** (`cpu.go:430`).  When no time passed on a line, a 0 is appended to
   `CoreAvg`, for the sum as well: then there is one core too many and each
   core's figure is at the next one's index.  `cpu.go:29-31` says `NoOfCores`
   always equals `len(CoreAvg)` when that is populated.
5. **`containers_percent`** (`container.go:399`).  `start` is taken after the first
   samples of all containers, so a container is sampled over a longer time than its
   usage is divided by, and a busy one exceeds the host.  `container.go:72-73` says
   `PercentOfHost` is a share of every CPU, 0-100.  `TotalWithinHost` says by how much:
   no more than the time the first samples took.
6. **`service_stopped`** (`service.go:36`).  Any output of `service` decides, also the
   first lines of one that its timer or the context killed before it came to
   `Active: active`: `(false, nil)`.  `systats.go:238-240` says that this means the service
   really is stopped, and that a wedged systemd or a cancelled context is an error.

### Divergences noted without a run

Each is visible in a definition, and the property beside it is stated so as to hold of the
code; none is more than the words of a comment against a rare interleaving.

- `container.go:213-216` says a group reports zeros when one of its counters went
  backwards, "an interface was recreated, a device detached".  It is the sums over
  devices that are compared (`Totals`): a device that comes with counters of
  its own hides one that restarted, and is itself rated from zero.
  `TotalWithinSpan` says how far off a rate can be.
- `doc.go:30-31` says a program is bounded by 5 s.  A descendant that inherited
  its stdout keeps `Output()` waiting beyond the kill (`Ended`); Go's
  `WaitDelay` is not set.
- `memory.go:129-132` says `applyCgroupMemory` never changes the error behaviour
  of `GetMemory`.  A file that goes between stat and read panics
  (`EmptyBytes`); `FailsForCause` says when.
- `memory.go:154` makes nothing available when a cgroup uses more than its limit,
  and `Used` is then larger than `Total`; no comment says otherwise.
- `container_layer.go:88-89` says hard links are counted once.  A file counts as linked by
  the links it has when it is looked at.  One counted under its first name, which is
  then removed, or under its only one, before another is made, is counted again under
  the other (`CountFile`).  `LayerCounted` allows one for each name made or removed.
- `container_layer.go:97-112` passes over a directory that cannot be read and files
  that have gone, and the layer is `Available` all the same.
- `network.go:249` counts descriptors and not connections: one that a process has open
  under two numbers is counted twice (`ReadLink`), and so it is when two
  processes of the name share it.
- `disk.go:76` says a mount point that disappeared is skipped.  After an unmount the
  directory is usually still there, and the entry gets the figures of the file
  system around it (`Statfs`).
- `cpu.go:48-50` says that with `Limited` a load is of the quota.  The flag is set
  before the samples are looked at, so a cgroup that goes in between
  leaves the host's figures beside it; `LimitedIsOfQuota` has that exception.

## 4. Theorems

Proved for every value of the constants that meets the named assumptions
(`ProcAssumption`, `CallAssumption`, `CgroupAssumption`, `ContainerAssumption`, `LookupAssumption`, `WorkerAssumption`,
`CPUAssumption`, `RatesAssumption`, `SubprocessAssumption`, `ReadingsAssumption`,
`SocketAssumption`, `MountAssumption`, `ProtocolAssumption`).  Those say what kind
of thing a constant is, that there is at least one core and that the window is
at least one tick, that `Word`, which stands for 2^64, exceeds what can be counted
in the call, that sets of pids, containers, CPUs, devices, file systems and readers are finite,
that containers are nested at most once,
that panels have different names, that a timeout is at least one tick, that no
socket is in both tables, that a path is below itself and the root, that a protocol
is named once in the two files, and that the kernel writes a `/proc/meminfo` whose
parts do not exceed its totals.

| Theorem | Says |
|---|---|
| `TopProcessesProofs!TypeCorrect` | `TypeOK`: no figure is ever negative |
| `TopProcessesProofs!UsageSound` | `UsageWithinWindow` for any number of pids and cores, any window |
| `TopProcessesProofs!CancelSound` | `CancelStopsCollection` |
| `TopProcessesProofs!OwnerSound` | `OwnerlessOnlyIfRecycled` |
| `TopProcessesProofs!RankingSound` | `RankedByUsage` for any candidates, count and order among equals |
| `DashboardProofs!TypeCorrect` | `TypeOK`: the WaitGroup's counter never goes below zero |
| `DashboardProofs!SettledOnce` | `EveryReaderSettledOnce` for any readers |
| `DashboardProofs!PageStill` | `PageStillAfterWait` |
| `DashboardProofs!NothingCancelledServed` | `NoCancelledPanelServed` |
| `DashboardProofs!KeepsPromiseSafely` | initial states and steps of `Dashboard` are those of `Collection` |
| `ContainersProofs!TypeCorrect` | `TypeOK`: no number of cores or files is ever negative |
| `ContainersProofs!LayerCountedSound` | `LayerCounted` for any layers, links and changes |
| `ContainersProofs!StopSound` | `FailsOnlyIfDisturbed` for any containers, under every version |
| `ContainersProofs!SteadyReportedSound` | `SteadyReported` for any containers and processes |
| `ContainersProofs!LookupSound` | `LookupFindsSteady` for any containers and query, if names tell containers apart |
| `ContainersProofs!TotalSound` | `TotalWithinHost` for any containers, window and time outside it |
| `CPUSamplerProofs!TypeCorrect` | `TypeOK`: no percentage is ever negative |
| `CPUSamplerProofs!SteadySound` | `SteadyCores` for any CPUs and any fall of the ticks |
| `CPUSamplerProofs!QuotaSound` | `QuotaWithinHost` for any CPUs, any window |
| `CPUSamplerProofs!LimitedSound` | `LimitedIsOfQuota` |
| `CPUSamplerProofs!PanicSound` | `PanicsOnlyOnChange` |
| `RatesProofs!RatesTypeCorrect` | `RateTypeOK`: no rate is ever negative |
| `RatesProofs!SpanSound` | `RateWithinSpan` for any devices and any time |
| `RatesProofs!TotalSound` | `TotalWithinSpan` |
| `RatesProofs!SteadyRowsSound` | `SteadyRowsExact` |
| `ReadingsProofs!TypeCorrect` | `ReadTypeOK`: no figure is ever negative |
| `ReadingsProofs!MemorySound` | `MemoryOfOneSource` for any cgroups, limits and usages, above the limit too |
| `ReadingsProofs!FailureExplained` | `FailsForCause` |
| `ReadingsProofs!PressureSound` | `PressureOfOneSource` |
| `HostCallsProofs!ProgramTypeCorrect` | `SubprocessTypeOK` |
| `HostCallsProofs!AnswerHeard` | `VerdictHeard`, for any timeout: the rule of `service.go:13-22`; what the rule makes of a program that was killed is finding 6 |
| `HostCallsProofs!TimeoutsKept` | `WithinTimeouts`, for any timeout and any descendant |
| `HostCallsProofs!TablesReconcile` | `StatesReconcile` for any processes and sockets |
| `HostCallsProofs!CountSound` | `CountBetween` for any processes, descriptors and sockets |
| `HostCallsProofs!LookupTypeCorrect` | `LookupTypeOK` |
| `HostCallsProofs!LookupRowSound` | `RowOfOneProcess` for any pids, cores and window |
| `HostCallsProofs!LookupAnswersSound` | `LookupAnswers` |
| `HostCallsProofs!DisksSound` | `SteadyDisksListed` for any file systems, paths and remounts |
| `HostCallsProofs!CountersSound` | `CountersPaired` for any tables and widths |
| `HostCallsProofs!CallsTypeCorrect` | `CallsTypeOK` |
| `HostCallsProofs!CallsAreCalls` | a behaviour of `MCCalls` is one of each of its calls |
| `HostCallsProofs!CallsSound` | the invariants of the seven calls hold of `MCCalls` |

**The bound on usage.**  `UsageWithinWindow` relates a candidate's figure to the
elapsed time, and says nothing of the steps in which the two come about.  The
invariant keeps, for each sample taken, how much the process can have burnt since
(`Budget` of the clock less what it had then), that `start` is no later than the
first sample, and that a sample is of the process alive now or of one whose
counter has stopped.  The budget grows with the clock at least as fast as the
counters; so when the second sample is taken the difference is within the budget
of the time since `start`, and since that budget is below `Word` the unsigned
difference is the true one.  In average mode the same is said of the uptime read
first and the stat read later.

**Rows without an owner.**  `OwnerInv` follows one candidate from the read of its
status to its row: since the incarnation its last sample is of was gone when the status was
read (`Holder`), and none comes back, a pid that is alive when the row is enriched has
passed to another.

**Ranking.**  Three facts make up `RankedByUsage`: that an order `sort.Slice` may leave,
cut at the count, has no inversion and leaves out only what comes no sooner than
all of it (`Ranking`, from `SortedOnto`: a list of as many different elements as a finite
set has lists all of them); that the enrichment keeps that order and passes over nobody
but those gone (`OutInv`); and that nothing the sort looks at changes meanwhile.

**Settling.**  `EveryReaderSettledOnce` is not inductive: it speaks of the time
after `Wait`.  The invariant has four layers.  `Bookkeeping`: the WaitGroup's counter is
the number of goroutines running, so that zero means all are gone.  `Guarded`:
the mutex's holder is the one goroutine at `publish`, `load` or `store`, and a
list that was loaded is still the current one at its `store`; this is where a
lock that is forgotten breaks the proof.  `Settling`: before `exit` a reader has
neither data nor problem, after it exactly one.  `Distinct`: no problem twice,
also after sorting, for which panels must have different names.  `Checked` adds
what the handler's look at the context leaves true.

**The promise.**  Publishing a reading (of a container-aware reader), filling a panel and
storing a problem are the three steps that settle a reader; `Settling` shows
that it was pending, and `Bookkeeping` and `Settling` show that at `Build` all
have settled.  Every other step of a goroutine leaves the abstract state alone.

**One container, from pass to pass.**  A steady container has had a process in or below its
cgroup, and its directories, since the call began.  `FoundInv`: it is in the directories the walk
has yet to visit, or in `refs`, once.  `ReportInv`: from there it is in a row still to
come, being filled in or reported, once, with a process of its own subtree for its
network.  Together they are `SteadyInv`.  A container leaves that bracket only by being
disturbed, which ends its being steady.  `PhaseInv` keeps the two samples aligned with
`refs`.

**A lookup.**  `LookupInv` adds that `Match` left the steady container meant.
`matchContainer` takes the first whose ID or name is the query.  If two matched, the first
could be one that stops before it is reported, and the lookup fails although a steady
container bears the name.  A runtime gives each of its containers another name, but nothing
keeps it from giving one the ID of another; hence the hypothesis `NamesTell` of
`LookupSound`, which the run's constants meet.

**One that stops.**  That a panic or a lookup without a result is some container's own doing
is `StopInv`, read off `HostInv`: a cgroup with a process in or below it has all its
directories, one found has had a process then, and so one that is undisturbed has them
still when its counter is read, and its memory when the row is.  Under v1 a counter that was
there when stat'ed is therefore there when read unless its container was
removed meanwhile.  A lookup has one container in `refs`, and it is reported if
it is never dropped.

**A layer.**  `WalkInv` follows one walk.  The kept names, there from the start and
untouched, are yet to come or covered: their inode is among those of counted
names, since one that is not counted for having been seen was counted under another
name.  Counted names stand for different files, apart from those that were touched; so what
is counted is at least the inodes kept, and at most those and one for each name touched.  A
done context fails the call (`LayerCancelled`), so no row is finished with names
still to come.  `LayersInv` keeps this for the rows reported: names touched later only
narrow the one bound and widen the other.

**Figures that add up.**  A figure of a cgroup includes what is inside it, so sums over
containers may count twice.  `ApartInv`: no two cgroups found are the same or one in
the other, since the walk does not descend into a match.  Their subtrees are therefore disjoint
and what burns below them in an interval is at most `Cores` times its length
(`SumDisjoint`).  `BurnInv` bounds what the containers found have burned since
each one's first sample (`Burned`), by the time since the first of those samples was
taken; the guard of `applyContainerCPUSample`, no cores for a counter that went back,
is what a cgroup created again needs.  `RowsInv` charges each row to its container's `Burned`,
so a row dropped only lowers the sum.

**A reading of every CPU.**  `Budget(d)` is what the host's CPUs can burn in `d` ticks.
`UsageInv` brackets the cgroup's counter as `UsageSound` does a process's.  `LimitInv` has one
line per location: while the cgroup stays its samples are there, and then its
figures.  For the host `StatInv` says, line by line, the sum included, that what
`/proc/stat` says now is the first reading and no more than the budget of the time since
(`Grown`), and that the second reading then keeps that; the sum grows as its
summands do (`SumMonotonic`, `SumAdds`, `SumOfOnes` of `FiniteFacts`).  Without
hotplug the two readings therefore have the same length and no line goes backwards: `Parse` does
not panic, its unsigned differences are true, busy time is at most the total, and each
line with time on it has a percentage.  The figure of the sum is removed as the
first, so there are as many left as CPUs (`CoreInv`).  Here `Word` must exceed what the host can
burn in a call, which `CPUAssumption` states and 2^64 ticks of 10 ms meet.

**Rates.**  `SpanInv` says of each device and counter: the counter is at most what was read
first and `Cap` for each tick since (`Taken`), and the second reading likewise
(`Closed`).  A restart, a departure or an arrival only lowers the counter.  `SteadyInv` has
equalities in place of bounds for a device nothing happened to: the counter is the
reading and what it has counted since.  `PollInv` says where in its two loops a
poll is.  The report, which no bound survives step by step, is then a lemma for each
property; for a container it is about sums over the two sets of devices
(`SumSplits`, `SumBounded`).

**Programs.**  `VerdictHeard` holds step by step once it is known that only a call
that has returned has a verdict (`Unanswered`).  `WithinTimeouts` compares a clock
with a constant and needs to know where the timer stands: `Started` says that a
program is started with at most one timeout behind it if it is the second, and
none otherwise; `TimerSet` that the timer of a running program ends within the
allowance.  Time passes only while the timer has not fired, so the bound
is kept, and time after that is a descendant's.

**One source.**  The figures of a cgroup come about in three reads.  `OwnDir`: as
long as the process has not left it, the directory found is its own.
`FilesThere`: so its files are there, and a stat that succeeded is not followed by
an
empty read, which is all that `FailsForCause` needs beside the two host causes.  `HostKept`: until the last
read nothing of the host's figures is touched, so every early return leaves
them.  `TakenHolds`: the limit read first is still the limit at the end unless
it was changed, and the usage read after it is no larger.  With integer division
taken apart in a lemma, `Apply` then gives parts that add up to the limit, or nothing available above it.
For the loop over the pressure files `Fresh` says nothing is found before there
is a directory, and `Turns` what the resources already done (`Gone`) have: the figures of
that directory if there is PSI, and of nothing otherwise.

**Socket tables.**  `Bracketed`: the sockets established since the call began are established
now, and those established now are among those established at any time.  `Right(S)`:
what was read of the sockets `S` lists each once, and all of `S` that has stayed
established.  Later changes only narrow the one set and widen the other, so `Right` lasts; the
second table adds to it because the tables have no socket in common.

**The count.**  A third pass reads the open files of the processes that had the name in the
first.  `Passed(H, E)`: of the descriptors `H` (a process, a number and a socket) of the
sockets `E`, those that the third pass has behind it.  `CountWithin`: the count is at least the
number passed of what was held and established since the call began, and at most that of what was
at any time.  A change narrows the one set and widens the other; a link read takes one
descriptor to the passed ones of both, or of the wider alone.  For the lower bound
`NamesInv` carries a process that kept its name from one pass to the next; for the upper one
it says that a pid read in the third pass is of the name still, or gone, or
recycled, and those recycled are allowed for in `Ever`.

**One process.**  `SampledInv` and `ReadSoFar` are the argument of `UsageSound` for one
pid, together with which incarnations were read: all are of the present or
an earlier one, and if they are one, its usage fits its window.  `UsedInv`: a row
without an owner has read of an earlier incarnation.  `MetInv`: a pid nobody
had at the start is another incarnation's if it is alive.

**Mounts.**  A steady mount is visible: nothing is mounted over it or above it.
`ListedInv` then goes along the table: each steady mount is in a row still to come, or listed as
itself, or one of those left out.  That no path lookup ends elsewhere is
`SteadyThere`, which a mount over it ends by making it steady no longer.

**Protocols.**  The lines of a file alternate between names and values, with any of them
missing.  `PendingInv`: a header that waits is a line gone by, and when the values of
a protocol are next and its names were there, it is those.  So what is paired are two
lines of one protocol, and one with both lines has its columns as soon as it is gone by
(`PairedInv`).  That a protocol is named once in the files is used here.

**The composition.**  A step of `MCCalls` is a step of one call and leaves the others alone
(`CallSteps`), so each call's specification is implied and with it all that is
proved of it.

**Induction.**  Sums over a finite set, the existence of a sorted list and the counts above need
induction over sets and numbers.  The library states it with an operator as a
parameter, which the provers do not choose; `FiniteFacts` states it with a set (`SubsetInduction`: one
that has a subset of `S` whenever it has all smaller ones has them all;
`NatSetInduction` likewise), and a proof instantiates it with the set of those for
which its claim holds.  The recursion of a fold becomes a function over every subset
at once (`IsSum`, `SumSolved`).

**Only model-checked**: all liveness (`CallReturns`, `RenderingEnds`, `RunReturns`, and the
fairness half of `KeepsPromise`), which the prover does not reach.

## 5. Not modelled

- Formatting and parsing of text, units, and the fields that are copied from a
  file to the result with no condition on the way.
- `float64` and `float32` rounding: figures are exact fractions or integers.
- Processes that change user or name while they run.
- More than one call at a time: a `SyStats` is not written by any method, so
  two calls share nothing but the system they read.
- Temperatures: a walk over sysfs in which each file is read once and for itself;
  nothing is combined, compared or kept, and a missing file leaves a field empty.
- Rendering and the build check: formatting of one value, and a program that calls
  every method once.
- `isPortOpen` and `canConnect`, one call of `net` and of `net/http` each with a
  timeout of theirs; `pickIP` and the addresses of an interface.
- Of system information everything but `who`: a file per field.
- Of `GetDisks`, the arithmetic on one entry (`usagePercent`, `Convert`); of a process,
  the text fields of its details; of a container, the figures parsed from memory,
  pids, pressure, block I/O and mount files.
- The parsing of `/proc/self/cgroup` in `cgroup.go`: a path is found for the process
  or is not.

## 6. Plan

There: `ProcFS`, `TopProcesses`; `Cgroups`, `Containers`; `Collection`, `Dashboard`;
`CPUSampler`; `ProcessLookup`, `Readings`, `Rates`, `Sockets`, `Subprocess`, `Mounts`,
`ProtocolStats`, composed in `MCCalls`; proofs of every invariant that is checked of them,
and of the safety half of the refinement.

To prove next: `TotalWithinHost` for cgroups nested to any depth, which asks for `Inside`
to be a forest rather than two levels, in `Cgroups` as in the proof.

To model next: the quota of a container's row and its `PercentOfLimit`, and a
container's memory row, whose limit and usage are read as those of `GetMemory`.
