------------------------------- MODULE ProcFS -------------------------------
(***************************************************************************)
(* What the kernel lets systats see of processes through /proc/<pid>, and  *)
(* how that changes while a call is reading it.  External to the           *)
(* repository: modelled from the files process.go opens and the fields it  *)
(* takes from them.                                                        *)
(*                                                                         *)
(* Time is counted in accounting ticks (clockTicksPerSec per second), the  *)
(* unit of utime, stime and starttime.                                     *)
(***************************************************************************)
EXTENDS Integers, Sequences, FiniteSets

CONSTANTS
  Pids,       \* pids that may appear in /proc
  Private,    \* pids whose io and fd entries only their owner may open
  Mems,       \* possible VmRSS values, in KiB
  Cores,      \* CPU ticks one process can be charged per tick of wall time
  Uptime0,    \* ticks since boot when the call begins
  MaxClock,   \* bound: wall time that passes outside the sampling sleep
  MaxGen,     \* bound: incarnations of one pid
  Window      \* cpuSampleWindow in ticks

ASSUME ProcAssumption ==
  /\ Pids \subseteq Nat /\ IsFiniteSet(Pids)
  /\ Private \subseteq Pids
  /\ Mems \subseteq Nat
  /\ Cores \in Nat \ {0}
  /\ Uptime0 \in Nat
  /\ MaxClock \in Nat /\ Uptime0 <= MaxClock
  /\ MaxGen \in Nat
  /\ Window \in Nat \ {0}

VARIABLES
  clock,      \* ticks since boot
  alive,      \* pids with a /proc/<pid> directory
  born,       \* starttime of the current incarnation of each pid
  ticks,      \* utime + stime of the current incarnation
  gen,        \* which incarnation of the pid this is (history only)
  rss         \* VmRSS of the current incarnation

kernelVars == <<clock, alive, born, ticks, gen, rss>>

-----------------------------------------------------------------------------
KernelTypeOK ==
  /\ clock \in Nat
  /\ alive \subseteq Pids
  /\ born \in [Pids -> Nat]
  /\ ticks \in [Pids -> Nat]
  /\ gen \in [Pids -> Nat]
  /\ rss \in [Pids -> Mems]

\* Processes already running have been charged at most their share of uptime.
KernelInit ==
  /\ clock = Uptime0
  /\ alive \in SUBSET Pids
  /\ born = [p \in Pids |-> 0]
  /\ ticks \in [Pids -> {0, Cores * Uptime0}]
  /\ gen = [p \in Pids |-> 0]
  /\ rss \in [Pids -> Mems]

Spawn(p) ==
  /\ p \notin alive
  /\ gen[p] < MaxGen
  /\ alive' = alive \cup {p}
  /\ born' = [born EXCEPT ![p] = clock]
  /\ ticks' = [ticks EXCEPT ![p] = 0]
  /\ gen' = [gen EXCEPT ![p] = @ + 1]
  /\ \E m \in Mems : rss' = [rss EXCEPT ![p] = m]
  /\ UNCHANGED clock

Exit(p) ==
  /\ p \in alive
  /\ alive' = alive \ {p}
  /\ UNCHANGED <<clock, born, ticks, gen, rss>>

\* One tick of wall time: every live process is charged what it used of it.
Tick(limit) ==
  /\ clock < limit
  /\ clock' = clock + 1
  /\ \E d \in [Pids -> 0..Cores] :
       /\ \A p \in Pids \ alive : d[p] = 0
       /\ ticks' = [p \in Pids |-> ticks[p] + d[p]]
  /\ UNCHANGED <<alive, born, gen, rss>>

-----------------------------------------------------------------------------
(* What a successful read of /proc/<pid>/stat gives.  gen is history: no   *)
(* file shows which incarnation of a pid it belongs to.                    *)
Stat == [cpu : Nat, starttime : Nat, gen : Nat]

StatOf(p) == [cpu |-> ticks[p], starttime |-> born[p], gen |-> gen[p]]
=============================================================================
