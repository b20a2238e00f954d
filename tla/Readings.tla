------------------------------ MODULE Readings ------------------------------
(***************************************************************************)
(* GetMemory, GetSwap and GetPressure (memory.go, swap.go, pressure.go).   *)
(* With ContainerAware the host's figures give way to those of the         *)
(* process's own cgroup (cgroup.go), read from one file after another      *)
(* while an administrator changes limits, moves the process and removes    *)
(* the cgroup it was in.                                                   *)
(*                                                                         *)
(* A file is stat'ed and then read (fileops.ReadFileWithError): one that   *)
(* is not there is an error, one that goes in between reads as nothing,    *)
(* which strops.ToUint64 panics on and parsePressure takes for zeros.      *)
(***************************************************************************)
EXTENDS Integers

CONSTANTS
  Groups,    \* cgroups the process may be in
  Accounts,  \* what a cgroup's memory files may say
  Meminfos,  \* what /proc/meminfo may say
  NoLimit,   \* "max", or the large number v1 writes for it
  Host,      \* the host, as the source of a figure
  KiB        \* bytes of a KiB

ASSUME ReadingsAssumption ==
  /\ KiB \in Nat \ {0} /\ NoLimit \notin Nat /\ Host \notin Groups
  /\ Accounts \subseteq [limit : Nat \cup {NoLimit}, usage : Nat, inactive : Nat]
  /\ Meminfos \subseteq [total : Nat, free : Nat, available : Nat, cached : Nat,
                         swapTotal : Nat, swapFree : Nat]
  /\ \A h \in Meminfos : /\ h.free + h.cached <= h.total
                         /\ h.swapFree <= h.swapTotal

VARIABLES
  readAt,    \* where the call is
  query,     \* which call
  setup,     \* its configuration, and what the kernel supports
  meminfo,   \* /proc/meminfo
  there,     \* the cgroups that are there
  account,   \* what the memory files of each say
  own,       \* the cgroup the process is in
  dir,       \* the directory found for it, or Host
  file,      \* the file being read
  found,     \* it was there when stat'ed
  taken,     \* the bytes read so far
  mem,       \* GetMemory's, or GetSwap's, result
  psi,       \* GetPressure's: whose each resource's figures are
  available, \* Pressure.Available
  limited,   \* Memory.Limited, or Pressure.Limited
  moved,     \* history: the process has left dir during the call
  relimited  \* history: the limit of dir has changed during the call

envVars  == <<setup, meminfo, there, account, own, moved, relimited>>
readVars == <<readAt, query, envVars, dir, file, found, taken, mem, psi,
              available, limited>>

None == "none"
Resources == {"cpu", "memory", "io"}

\* hostFile: whether MeminfoPath can be read, and its fields are numbers;
\* version: what detectCgroupVersion finds; named: /proc/self/cgroup gives a
\* path; controlled: that cgroup has memory files; stalls: the kernel has PSI.
Setups == [aware : BOOLEAN, unit : BOOLEAN, hostFile : {"good", "missing", "malformed"},
           version : {"v1", "v2", "none"}, named : BOOLEAN, controlled : BOOLEAN,
           stalls : BOOLEAN]

Figures == [total : Nat, used : Nat, free : Nat, available : Nat,
            per : Nat \X Nat]

Unread == [total |-> 0, used |-> 0, free |-> 0, available |-> 0, per |-> <<0, 0>>]

-----------------------------------------------------------------------------
\* Types of every variable.
ReadTypeOK ==
  /\ readAt \in {"idle", "host", "resolve", "stat", "read", "returned", "failed"}
  /\ query \in {"memory", "swap", "pressure"} /\ setup \in Setups
  /\ meminfo \in Meminfos /\ account \in [Groups -> Accounts]
  /\ there \subseteq Groups /\ own \in there /\ dir \in Groups \cup {Host}
  /\ file \in {"limit", "usage", "inactive"} \cup Resources
  /\ taken \in [limit : Nat \cup {NoLimit}, usage : Nat] /\ mem \in Figures
  /\ psi \in [Resources -> Groups \cup {Host, None}]
  /\ {found, available, limited, moved, relimited} \subseteq BOOLEAN

ReadInit ==
  /\ readAt = "idle" /\ query = "memory"
  /\ setup = [aware |-> FALSE, unit |-> TRUE, hostFile |-> "good", version |-> "none",
              named |-> FALSE, controlled |-> FALSE, stalls |-> FALSE]
  /\ meminfo \in Meminfos /\ account \in [Groups -> Accounts]
  /\ there \in SUBSET Groups /\ own \in there
  /\ dir = Host /\ file = "limit" /\ found = FALSE
  /\ taken = [limit |-> 0, usage |-> 0] /\ mem = Unread
  /\ psi = [r \in Resources |-> None]
  /\ available = FALSE /\ limited = FALSE /\ moved = FALSE /\ relimited = FALSE

BeginRead ==
  /\ readAt = "idle"
  /\ query' \in {"memory", "swap", "pressure"}
  /\ setup' \in Setups
  \* v1 is told by its memory controller, and has one
  /\ setup'.version = "v1" => setup'.controlled
  \* GetPressure does not look at meminfo
  /\ query' = "pressure" => setup'.hostFile = "good"
  /\ readAt' = IF query' = "pressure" THEN "resolve" ELSE "host"
  /\ UNCHANGED <<meminfo, there, account, own, dir, file, found, taken, mem, psi,
                 available, limited, moved, relimited>>

ReturnRead == readAt' = "returned" /\ UNCHANGED <<file, found>>

\* A panic in a handler, turned into an error by withRecover, and an error.
FailRead ==
  /\ readAt' = "failed"
  /\ UNCHANGED <<query, envVars, dir, file, found, taken, mem, psi, available, limited>>

-----------------------------------------------------------------------------
(* The host's figures.                                                     *)

\* parseMeminfo; cached is Buffers and Cached together.
ParseMeminfo(h) ==
  LET used == IF h.total > 0 THEN h.total - (h.free + h.cached) ELSE 0
  IN  [total |-> h.total, used |-> used, free |-> h.free,
       available |-> h.available, per |-> <<used, h.total>>]

\* parseSwapMeminfo, and the rest of getSwap.
ParseSwap(h) ==
  LET used == h.swapTotal - h.swapFree
  IN  [total |-> h.swapTotal, used |-> used, free |-> h.swapFree,
       available |-> 0, per |-> <<used, h.swapTotal>>]

\* kibConverter does not know the unit.
UnknownUnit == readAt = "host" /\ ~setup.unit /\ FailRead

\* fileops.ReadFileWithError fails; or ToUint64 panics on a field, which withRecover
\* makes an error too.
BadMeminfo ==
  /\ readAt = "host" /\ setup.unit /\ setup.hostFile \in {"missing", "malformed"}
  /\ FailRead

ReadMeminfo ==
  /\ readAt = "host" /\ setup.unit /\ setup.hostFile = "good"
  /\ mem' = IF query = "swap" THEN ParseSwap(meminfo) ELSE ParseMeminfo(meminfo)
  /\ IF query = "memory" /\ setup.aware
     THEN readAt' = "resolve" /\ UNCHANGED <<file, found>>
     ELSE ReturnRead
  /\ UNCHANGED <<query, envVars, dir, taken, psi, available, limited>>

-----------------------------------------------------------------------------
(* The process's own cgroup.                                               *)

\* detectCgroupVersion and resolveCgroupControllerPath find a directory.
Resolvable == setup.aware /\ setup.version # "none" /\ setup.named

Open(f) == readAt' = "stat" /\ file' = f

\* applyCgroupMemory resolves the directory, or leaves the host's figures.
ResolveMemory ==
  /\ readAt = "resolve" /\ query = "memory"
  /\ IF Resolvable THEN dir' = own /\ Open("limit") /\ UNCHANGED found
                   ELSE UNCHANGED dir /\ ReturnRead
  /\ UNCHANGED <<query, envVars, taken, mem, psi, available, limited>>

\* Is the file of directory d there?  Every cgroup of v2 has PSI files if any.
There(d, f) ==
  IF f \in Resources THEN setup.stalls /\ (d = Host \/ d \in there)
                     ELSE setup.controlled /\ d \in there

\* pressureDir: v1 has no PSI, and neither has a cgroup without cpu.pressure.
ResolvePressure ==
  /\ readAt = "resolve" /\ query = "pressure"
  /\ dir' = IF Resolvable /\ setup.version = "v2" /\ There(own, "cpu")
            THEN own ELSE Host
  /\ Open("cpu")
  /\ UNCHANGED <<query, envVars, found, taken, mem, psi, available, limited>>

\* fileops.ReadFileWithError: os.Stat, then os.ReadFile.
StatFile ==
  /\ readAt = "stat"
  /\ found' = There(dir, file)
  /\ readAt' = "read"
  /\ UNCHANGED <<query, envVars, dir, file, taken, mem, psi, available, limited>>

Missing == readAt = "read" /\ ~found
Content == readAt = "read" /\ found /\ There(dir, file)
Empty   == readAt = "read" /\ found /\ ~There(dir, file)

-----------------------------------------------------------------------------
(* GetMemory.                                                              *)

\* readCgroupMemoryBytes fails: the host's figures stay.
NoBytes ==
  /\ Missing /\ file \in {"limit", "usage"}
  /\ ReturnRead
  /\ UNCHANGED <<query, envVars, dir, taken, mem, psi, available, limited>>

\* strops.ToUint64("") panics.
EmptyBytes == Empty /\ file \in {"limit", "usage"} /\ FailRead

\* Mutant: "max" is given to ToUint64.
ReadLimitBlindly ==
  /\ Content /\ file = "limit"
  /\ IF account[dir].limit = NoLimit
     THEN FailRead
     ELSE /\ taken' = [taken EXCEPT !.limit = account[dir].limit]
          /\ Open("usage")
          /\ UNCHANGED <<query, envVars, dir, found, mem, psi, available, limited>>

\* readCgroupMemoryLimit.  The usage is read even when there is no limit.
ReadLimit ==
  /\ Content /\ file = "limit"
  /\ taken' = [taken EXCEPT !.limit = account[dir].limit]
  /\ Open("usage")
  /\ UNCHANGED <<query, envVars, dir, found, mem, psi, available, limited>>

ReadUsage ==
  /\ Content /\ file = "usage"
  /\ taken' = [taken EXCEPT !.usage = account[dir].usage]
  /\ Open("inactive")
  /\ UNCHANGED <<query, envVars, dir, found, mem, psi, available, limited>>

\* Mutant: the cache is added to the usage that already includes it.
WorkingSetWithCache(usage, inactive) == usage + inactive

\* Mutant: uint64 subtraction of figures that were read one after the other.
WorkingSetUnchecked(usage, inactive) == usage - inactive

\* readCgroupMemoryBytes: an inactive cache larger than the usage read before
\* it is not taken off.
WorkingSet(usage, inactive) ==
  IF inactive < usage THEN usage - inactive ELSE usage

\* applyCgroupMemory: the limit replaces the host's figures; a total that
\* rounds to nothing leaves its percentage.
Apply(m, limit, used) ==
  LET total == limit \div KiB
      room  == IF total > used \div KiB THEN total - used \div KiB ELSE 0
  IN  [total |-> total, used |-> used \div KiB, free |-> room, available |-> room,
       per |-> IF total > 0 THEN <<used \div KiB, total>> ELSE m.per]

\* readCgroupMemoryInactiveFileBytes, which never fails.
ReadInactive ==
  /\ readAt = "read" /\ file = "inactive"
  /\ LET inactive == IF Content THEN account[dir].inactive ELSE 0
     IN  mem' = IF taken.limit = NoLimit THEN mem
                ELSE Apply(mem, taken.limit, WorkingSet(taken.usage, inactive))
  /\ limited' = (taken.limit # NoLimit)
  /\ ReturnRead
  /\ UNCHANGED <<query, envVars, dir, taken, psi, available>>

-----------------------------------------------------------------------------
(* GetPressure.                                                            *)

NextResource == [cpu |-> "memory", memory |-> "io", io |-> None]

\* Mutant: a resource that is not there ends the loop.
PressureStops ==
  /\ readAt = "read" /\ file \in Resources
  /\ psi' = IF Content THEN [psi EXCEPT ![file] = dir] ELSE psi
  /\ available' = (available \/ found)
  /\ limited' = (dir \in Groups)
  /\ IF NextResource[file] = None \/ file = "memory"
     THEN ReturnRead
     ELSE Open(NextResource[file]) /\ UNCHANGED found
  /\ UNCHANGED <<query, envVars, dir, taken, mem>>

\* One turn of getPressure's loop.  A file that went reads as zeros.
ReadPressure ==
  /\ readAt = "read" /\ file \in Resources
  /\ psi' = IF Content THEN [psi EXCEPT ![file] = dir] ELSE psi
  /\ available' = (available \/ found)
  /\ limited' = (available' /\ dir \in Groups)
  /\ IF NextResource[file] = None
     THEN ReturnRead
     ELSE Open(NextResource[file]) /\ UNCHANGED found
  /\ UNCHANGED <<query, envVars, dir, taken, mem>>

Reading ==
  \/ UnknownUnit \/ BadMeminfo \/ ReadMeminfo \/ ResolveMemory
  \/ ResolvePressure \/ StatFile \/ NoBytes \/ EmptyBytes \/ ReadLimit
  \/ ReadUsage \/ ReadInactive \/ ReadPressure

-----------------------------------------------------------------------------
(* The administrator and the kernel.                                       *)

Running == readAt \notin {"idle", "returned", "failed"}
progReadVars == <<readAt, query, setup, meminfo, dir, file, found, taken, mem,
                  psi, available, limited>>

\* Usage and cache change, and the limit is set; the cgroup is made.
Account(g) ==
  /\ Running
  /\ \E a \in Accounts :
       /\ account' = [account EXCEPT ![g] = a]
       /\ relimited' = (relimited \/ (g = dir /\ account[g].limit # a.limit))
  /\ there' = there \cup {g}
  /\ UNCHANGED <<progReadVars, own, moved>>

MoveProcess ==
  /\ Running
  /\ \E g \in there \ {own} : own' = g
  /\ moved' = (moved \/ (own = dir))
  /\ UNCHANGED <<progReadVars, there, account, relimited>>

\* A cgroup can be removed once no process is in it.
RemoveGroup(g) ==
  /\ Running /\ g \in there \ {own}
  /\ there' = there \ {g}
  /\ UNCHANGED <<progReadVars, account, own, moved, relimited>>

ReadNext ==
  \/ BeginRead \/ Reading \/ MoveProcess
  \/ \E g \in Groups : Account(g) \/ RemoveGroup(g)

ReadSpec == ReadInit /\ [][ReadNext]_readVars

-----------------------------------------------------------------------------
(* Properties.                                                             *)

\* Memory.Limited's promise (memory.go:30-33) and applyCgroupMemory's
\* (memory.go:129-132).  What is returned is the host's figures, or those of
\* the cgroup the process was in under the limit that was set, unless the
\* process has moved on or the limit was changed between the reads: what is used,
\* no more than the usage that was read, and what the limit leaves, nothing when
\* it is exceeded.  A limit below a KiB keeps the host's percentage.
MemoryOfOneSource ==
  (query = "memory" /\ readAt = "returned") =>
    /\ ~limited => mem = ParseMeminfo(meminfo)
    /\ limited => /\ mem.used <= taken.usage \div KiB
                  /\ mem.free = mem.available
                  /\ IF mem.used < mem.total THEN mem.used + mem.available = mem.total
                                             ELSE mem.available = 0
                  /\ mem.per = IF mem.total = 0 THEN ParseMeminfo(meminfo).per
                                                ELSE <<mem.used, mem.total>>
    /\ limited /\ ~moved /\ ~relimited =>
         account[own].limit # NoLimit /\ mem.total = account[own].limit \div KiB
    /\ ~limited /\ ~moved /\ ~relimited /\ Resolvable /\ setup.controlled =>
         account[own].limit = NoLimit

\* A call fails for a unit that does not exist and for a meminfo that cannot be
\* read or parsed; "this never changes GetMemory's error behavior" (memory.go:131),
\* unless the cgroup it found goes under it, and GetPressure never fails.
FailsForCause ==
  readAt = "failed" =>
    \/ query # "pressure" /\ (~setup.unit \/ setup.hostFile # "good")
    \/ query = "memory" /\ moved

\* Pressure.Available and .Limited (pressure.go:52-60): the figures returned are
\* those of one source, the host's or the own cgroup's, and zeros are passed for
\* figures, or a kernel with PSI for one without, only if the cgroup went.
PressureOfOneSource ==
  (query = "pressure" /\ readAt = "returned") =>
    /\ \A r \in Resources : psi[r] \in {dir, None}
    /\ limited <=> (available /\ dir # Host)
    /\ ~moved => /\ available <=> setup.stalls
                 /\ available => (\A r \in Resources : psi[r] = dir)
                 /\ limited <=> (Resolvable /\ setup.version = "v2" /\ setup.stalls)
=============================================================================
