------------------------------- MODULE Rates --------------------------------
(***************************************************************************)
(* Rates out of cumulative counters: two polls an interval apart, joined   *)
(* by name (sampleDiskIO, sampleNetworks and sampleContainers of           *)
(* example/collect.go) and subtracted by DiskIO.RatesSince, deltaPerSec    *)
(* and Container.RatesSince.  Meanwhile devices count, restart from zero,  *)
(* go to another network namespace or are unplugged, and come back.        *)
(*                                                                         *)
(* /proc/diskstats, a container's net/dev and its io.stat are one read     *)
(* each; the counters of an interface are a file each, and one that is     *)
(* gone reads as zero (network.go, readAsUint64).                          *)
(***************************************************************************)
EXTENDS Integers, FiniteSets, Functions

CONSTANTS
  Devices,   \* disks or interfaces, by the number the kernel lists them by
  Starts,    \* what a counter may stand at before the first poll
  Cap,       \* what a counter can grow by in a tick
  Loads,     \* what the counters of a device may grow by in a tick
  Interval,  \* the interval between the polls, in ticks
  MaxOver,   \* bound: ticks the sleep and a poll inside the stopwatch exceed it
  MaxSlack,  \* bound: ticks the polls take outside the stopwatch
  MaxMoves   \* bound: times a device comes, goes or restarts

ASSUME RatesAssumption ==
  /\ Devices \subseteq Nat /\ IsFiniteSet(Devices) /\ Starts \subseteq Nat
  /\ Cap \in Nat \ {0} /\ Loads \subseteq [{"in", "out"} -> 0..Cap]
  /\ Interval \in Nat \ {0}
  /\ MaxOver \in Nat /\ MaxSlack \in Nat /\ MaxMoves \in Nat

VARIABLES
  pollAt,    \* where the sampler is
  kind,      \* which of the three
  here,      \* the devices that are there
  counter,   \* each device's counters
  left,      \* interface files this poll has still to read
  before,    \* devices of the first poll
  first,     \* their counters then
  after,     \* devices of the second poll
  second,    \* their counters then
  elapsed,   \* the stopwatch: time.Since(start)
  rated,     \* devices that got rates
  growth,    \* what each rate was made of: rate times elapsed
  total,     \* the container's, over all its devices
  moves,     \* times a device came, went or restarted
  slack,     \* history: time between the reads not in elapsed
  grown,     \* history: what each device counted between its two readings
  touched,   \* history: devices that came, left or restarted since the first poll
  gaps       \* history: interfaces listed in the first poll and gone when read

deviceVars == <<here, counter, grown, touched, moves>>
resultVars == <<rated, growth, total>>
rateVars   == <<pollAt, kind, deviceVars, left, before, first, after, second,
                elapsed, resultVars, slack, gaps>>

\* Receive and transmit, or read and write; bytes and packets go alike.
Counters == {"in", "out"}
Zeros == [c \in Counters |-> 0]

-----------------------------------------------------------------------------
\* Types of every variable.
RateTypeOK ==
  /\ pollAt \in {"idle", "first", "firstRead", "sleep", "second", "secondRead",
                 "returned", "cancelled"}
  /\ kind \in {"disks", "networks", "container"}
  /\ here \subseteq Devices /\ before \subseteq Devices /\ after \subseteq Devices
  /\ rated \subseteq Devices /\ touched \subseteq Devices /\ gaps \subseteq Devices
  /\ left \subseteq Devices \X Counters
  /\ counter \in [Devices -> [Counters -> Nat]]
  /\ first \in [Devices -> [Counters -> Nat]]
  /\ second \in [Devices -> [Counters -> Nat]]
  /\ growth \in [Devices -> [Counters -> Nat]]
  /\ grown \in [Devices -> [Counters -> Nat]]
  /\ total \in [Counters -> Nat]
  /\ elapsed \in Nat /\ slack \in Nat /\ moves \in 0..MaxMoves

RateInit ==
  /\ pollAt = "idle" /\ kind = "disks"
  /\ here \in SUBSET Devices
  /\ \E s \in [Devices -> Starts] : counter = [d \in Devices |-> [c \in Counters |-> s[d]]]
  /\ left = {} /\ before = {} /\ after = {} /\ rated = {}
  /\ first = [d \in Devices |-> Zeros] /\ second = [d \in Devices |-> Zeros]
  /\ growth = [d \in Devices |-> Zeros] /\ grown = [d \in Devices |-> Zeros]
  /\ total = Zeros /\ elapsed = 0 /\ slack = 0 /\ moves = 0 /\ touched = {} /\ gaps = {}

BeginPoll ==
  /\ pollAt = "idle"
  /\ pollAt' = "first" /\ kind' \in {"disks", "networks", "container"}
  /\ UNCHANGED <<deviceVars, left, before, first, after, second, elapsed,
                 resultVars, slack, gaps>>

-----------------------------------------------------------------------------
(* The polls.                                                              *)

Snapshot == [d \in Devices |-> IF d \in here THEN counter[d] ELSE Zeros]

\* GetDiskIO (parseDiskStats), or a container's files: all devices at once.
\* getNetworks: the list of interfaces, whose files are read one by one.
FirstPoll ==
  /\ pollAt = "first"
  /\ before' = here
  /\ IF kind = "networks" THEN left' = here \X Counters /\ UNCHANGED first
                          ELSE first' = Snapshot /\ UNCHANGED left
  /\ pollAt' = "firstRead"
  /\ UNCHANGED <<kind, deviceVars, after, second, elapsed, resultVars, slack, gaps>>

SecondPoll ==
  /\ pollAt = "second"
  /\ after' = here
  /\ IF kind = "networks" THEN left' = here \X Counters /\ UNCHANGED second
                          ELSE second' = Snapshot /\ UNCHANGED left
  /\ pollAt' = "secondRead"
  /\ UNCHANGED <<kind, deviceVars, before, first, elapsed, resultVars, slack, gaps>>

\* getNetworks goes through the list, getNetworkUsage reads what is received
\* before what is sent; readAsUint64.
ReadCounter(d, c) ==
  LET value == IF d \in here THEN counter[d][c] ELSE 0
  IN  /\ <<d, c>> \in left
      /\ \A l \in left \ {<<d, c>>} : l[1] > d \/ (l[1] = d /\ c = "in")
      /\ left' = left \ {<<d, c>>}
      /\ \/ /\ pollAt = "firstRead"
            /\ first' = [first EXCEPT ![d][c] = value]
            /\ gaps' = IF d \in here THEN gaps ELSE gaps \cup {d}
            /\ UNCHANGED second
         \/ /\ pollAt = "secondRead"
            /\ second' = [second EXCEPT ![d][c] = value]
            /\ UNCHANGED <<first, gaps>>
      /\ UNCHANGED <<pollAt, kind, deviceVars, before, after, elapsed, resultVars, slack>>

StartWatch ==
  /\ pollAt = "firstRead" /\ left = {}
  /\ pollAt' = "sleep"
  /\ UNCHANGED <<kind, deviceVars, left, before, first, after, second, elapsed,
                 resultVars, slack, gaps>>

\* sleepCtx returns; for disks and interfaces the stopwatch is read here.
WakeUp ==
  /\ pollAt = "sleep" /\ elapsed >= Interval
  /\ pollAt' = "second"
  /\ UNCHANGED <<kind, deviceVars, left, before, first, after, second, elapsed,
                 resultVars, slack, gaps>>

CancelSleep ==
  /\ pollAt = "sleep"
  /\ pollAt' = "cancelled"
  /\ UNCHANGED <<kind, deviceVars, left, before, first, after, second, elapsed,
                 resultVars, slack, gaps>>

-----------------------------------------------------------------------------
(* The rates.                                                              *)

\* Mutant: uint64 subtraction without a look at which is larger.
EachSinceWrapped(now, then) == [c \in Counters |-> (now[c] - then[c]) % 1000]

\* deltaPerSec, of each counter on its own.
EachSince(now, then) ==
  [c \in Counters |-> IF now[c] < then[c] THEN 0 ELSE now[c] - then[c]]

\* Mutant: neither group is compared before it is subtracted.
AllSinceWrapped(now, then) == [c \in Counters |-> (now[c] - then[c]) % 1000]

\* DiskIO.RatesSince, and a group of Container.RatesSince: one counter that
\* went backwards zeroes all.
AllSince(now, then) ==
  IF \A c \in Counters : now[c] >= then[c]
  THEN [c \in Counters |-> now[c] - then[c]]
  ELSE Zeros

\* totals and blockIOTotals.
Totals(S, reading) ==
  [c \in Counters |-> FoldFunctionOnSet(+, 0, [d \in S |-> reading[d][c]], S)]

\* Mutant: samples are paired by their place in the list.
RatedByPlace(old, new) == IF old = new THEN new ELSE {}

\* The readings are joined by the device's name: "device appeared between
\* samples", and has no rates.
Rated(old, new) == old \cap new

Since(d) ==
  IF d \notin rated' THEN Zeros
  ELSE IF kind = "networks" THEN EachSince(second[d], first[d])
                            ELSE AllSince(second[d], first[d])

\* The stopwatch of a container is read here.
Report ==
  /\ pollAt = "secondRead" /\ left = {}
  /\ rated' = IF kind = "container" THEN {} ELSE Rated(before, after)
  /\ growth' = [d \in Devices |-> Since(d)]
  /\ total' = IF kind = "container"
              THEN AllSince(Totals(after, second), Totals(before, first)) ELSE Zeros
  /\ pollAt' = "returned"
  /\ UNCHANGED <<kind, deviceVars, left, before, first, after, second, elapsed,
                 slack, gaps>>

Sampling ==
  \/ FirstPoll \/ SecondPoll \/ StartWatch \/ WakeUp \/ CancelSleep \/ Report
  \/ \E d \in Devices, c \in Counters : ReadCounter(d, c)

-----------------------------------------------------------------------------
(* Time and the devices.                                                   *)

samplerVars == <<pollAt, kind, left, before, first, after, second, resultVars, gaps>>

Polling == pollAt \in {"firstRead", "sleep", "second", "secondRead"}

\* The stopwatch runs during the sleep, and a container's second poll.
Watched == pollAt = "sleep" \/ (kind = "container" /\ pollAt \in {"second", "secondRead"})

\* A device counts between its readings: after the first, before the second.
Between(d, c) ==
  /\ pollAt = "firstRead" => d \in before /\ <<d, c>> \notin left
  /\ pollAt = "secondRead" => <<d, c>> \in left

\* A tick passes, in which any device counts, whether or not it is here.
RateTick ==
  /\ Polling
  /\ IF Watched THEN /\ elapsed < Interval + MaxOver
                     /\ elapsed' = elapsed + 1 /\ UNCHANGED slack
                ELSE /\ slack < MaxSlack
                     /\ slack' = slack + 1 /\ UNCHANGED elapsed
  /\ \E g \in [Devices -> Loads] :
       /\ counter' = [d \in Devices |-> [c \in Counters |-> counter[d][c] + g[d][c]]]
       /\ grown' = [d \in Devices |-> [c \in Counters |->
                      IF Between(d, c) THEN grown[d][c] + g[d][c] ELSE grown[d][c]]]
  /\ UNCHANGED <<samplerVars, here, touched, moves>>

\* What happens to a device while the sampler is at work.
Move(d) ==
  /\ Polling /\ moves < MaxMoves
  /\ moves' = moves + 1 /\ touched' = touched \cup {d}
  /\ UNCHANGED <<samplerVars, elapsed, slack, grown>>

\* It is set up anew, and counts from zero.
Restart(d) == Move(d) /\ counter' = [counter EXCEPT ![d] = Zeros] /\ UNCHANGED here

Come(d) == Move(d) /\ d \notin here /\ here' = here \cup {d} /\ UNCHANGED counter

Go(d) == Move(d) /\ d \in here /\ here' = here \ {d} /\ UNCHANGED counter

RateNext ==
  \/ BeginPoll \/ Sampling \/ RateTick
  \/ \E d \in Devices : Restart(d) \/ Come(d) \/ Go(d)

RateSpec == RateInit /\ [][RateNext]_rateVars

-----------------------------------------------------------------------------
(* Properties.                                                             *)

\* "A naive subtraction would underflow uint64 into an enormous rate"
\* (example/collect.go:821-823): no rate is more than its device can count in
\* the time between the two readings, whatever left, came back or restarted.
\* That time exceeds elapsed by what the polls took outside the stopwatch.  An
\* interface gone when its files were first read is rated from zero.
RateWithinSpan ==
  pollAt = "returned" =>
    \A d \in rated \ gaps, c \in Counters : growth[d][c] <= Cap * (elapsed + slack)

\* Container.RatesSince subtracts totals: the devices of the second sample can
\* bring no more than they count in the meantime, and what those that are new
\* to the container have counted before.
TotalWithinSpan ==
  (pollAt = "returned" /\ kind = "container") =>
    \A c \in Counters :
      total[c] <= Cap * (elapsed + slack) * Cardinality(after)
                  + Totals(after \ before, second)[c]

\* What the rates are for: a device nothing happened to is rated, by exactly
\* what it counted between its own two readings; so is a container whose
\* devices are all such.
SteadyRowsExact ==
  pollAt = "returned" =>
    /\ kind # "container" =>
         \A d \in here \ touched : d \in rated /\ growth[d] = grown[d]
    /\ kind = "container" /\ touched = {} => total = Totals(here, grown)
=============================================================================
