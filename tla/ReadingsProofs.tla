--------------------------- MODULE ReadingsProofs ---------------------------
(***************************************************************************)
(* Proofs about Readings for any cgroups, any figures their files and      *)
(* /proc/meminfo may show, and any number of changes to them.              *)
(***************************************************************************)
EXTENDS Readings, TLAPS

-----------------------------------------------------------------------------
(* Figures.                                                                *)

\* An integer division of one natural number by a positive one.
LEMMA DivFacts ==
  /\ \A a \in Nat : a \div KiB \in Nat
  /\ \A a, b \in Nat : a <= b => a \div KiB <= b \div KiB
<1>1. KiB \in Nat \ {0}
  BY ReadingsAssumption
<1>2. \A a \in Nat : a \div KiB \in Nat
  BY <1>1
<1>3. \A a, b \in Nat : a <= b => a \div KiB <= b \div KiB
  BY <1>1
<1> QED BY <1>2, <1>3

\* The figures parseMeminfo and parseSwap read from the host are figures.
LEMMA HostFigures ==
  ASSUME NEW h \in Meminfos
  PROVE  ParseMeminfo(h) \in Figures /\ ParseSwap(h) \in Figures
<1>1. /\ h.total \in Nat /\ h.free \in Nat /\ h.available \in Nat /\ h.cached \in Nat
      /\ h.swapTotal \in Nat /\ h.swapFree \in Nat
      /\ h.free + h.cached <= h.total /\ h.swapFree <= h.swapTotal
  BY ReadingsAssumption
<1>2. h.total - (h.free + h.cached) \in Nat /\ h.swapTotal - h.swapFree \in Nat
  BY <1>1
<1> QED BY <1>1, <1>2 DEF ParseMeminfo, ParseSwap, Figures

\* What a cgroup's memory files say are natural numbers, or that it has no limit.
LEMMA Accounted ==
  ASSUME NEW a \in Accounts
  PROVE  a.limit \in Nat \cup {NoLimit} /\ a.usage \in Nat /\ a.inactive \in Nat
BY ReadingsAssumption

\* workingSet never goes below zero or above the usage it starts from.
LEMMA WorkingSetType ==
  ASSUME NEW usage \in Nat, NEW inactive \in Nat
  PROVE  WorkingSet(usage, inactive) \in Nat /\ WorkingSet(usage, inactive) <= usage
BY DEF WorkingSet

\* A cgroup's limit and working set make figures of memory.
LEMMA ApplyFigures ==
  ASSUME NEW m \in Figures, NEW limit \in Nat, NEW used \in Nat
  PROVE  /\ Apply(m, limit, used) \in Figures
         /\ Apply(m, limit, used).total = limit \div KiB
         /\ Apply(m, limit, used).free = Apply(m, limit, used).available
         /\ Apply(m, limit, used).used = used \div KiB
         /\ IF Apply(m, limit, used).used < Apply(m, limit, used).total
            THEN Apply(m, limit, used).used + Apply(m, limit, used).available
                   = Apply(m, limit, used).total
            ELSE Apply(m, limit, used).available = 0
         /\ Apply(m, limit, used).per =
              IF Apply(m, limit, used).total = 0 THEN m.per
              ELSE <<Apply(m, limit, used).used, Apply(m, limit, used).total>>
<1> DEFINE total == limit \div KiB
           taken0 == used \div KiB
           room == IF total > taken0 THEN total - taken0 ELSE 0
           per == IF total > 0 THEN <<taken0, total>> ELSE m.per
<1>1. total \in Nat /\ taken0 \in Nat
  BY DivFacts
<1> HIDE DEF total, taken0
<1>2. room \in Nat /\ (IF taken0 < total THEN taken0 + room = total ELSE room = 0)
  BY <1>1
<1>3. per \in Nat \X Nat /\ per = IF total = 0 THEN m.per ELSE <<taken0, total>>
  <2>1. m.per \in Nat \X Nat
    BY DEF Figures
  <2> QED BY <1>1, <2>1
<1> HIDE DEF room, per
<1>4. Apply(m, limit, used) = [total |-> total, used |-> taken0, free |-> room,
                               available |-> room, per |-> per]
  BY DEF Apply, total, taken0, room, per
<1>5. Apply(m, limit, used) \in Figures
  BY <1>1, <1>2, <1>3, <1>4 DEF Figures
<1> QED BY <1>1, <1>2, <1>3, <1>4, <1>5 DEF total, taken0

-----------------------------------------------------------------------------
(* Type correctness.                                                       *)

\* A call starts with variables of their types.
LEMMA TypeInit == ReadInit => ReadTypeOK
<1> SUFFICES ASSUME ReadInit PROVE ReadTypeOK
  OBVIOUS
<1> USE DEF ReadInit
<1>1. setup \in Setups
  BY DEF Setups
<1>2. mem \in Figures
  <2>1. <<0, 0>> \in Nat \X Nat
    OBVIOUS
  <2> QED BY <2>1 DEF Unread, Figures
<1>3. psi \in [Resources -> Groups \cup {Host, None}]
  OBVIOUS
<1>4. taken \in [limit : Nat \cup {NoLimit}, usage : Nat]
  OBVIOUS
<1>5. {found, available, limited, moved, relimited} \subseteq BOOLEAN
  OBVIOUS
<1> QED BY <1>1, <1>2, <1>3, <1>4, <1>5 DEF ReadTypeOK

\* No step of a reading or of the host makes a variable lose its type.
LEMMA TypeNext == ReadTypeOK /\ [ReadNext]_readVars => ReadTypeOK'
<1> SUFFICES ASSUME ReadTypeOK, [ReadNext]_readVars PROVE ReadTypeOK'
  OBVIOUS
<1> USE DEF ReadTypeOK
<1>1. CASE BeginRead
  BY <1>1 DEF BeginRead
<1>2. CASE UnknownUnit
  BY <1>2 DEF UnknownUnit, FailRead, envVars
<1>17. CASE BadMeminfo
  BY <1>17 DEF BadMeminfo, FailRead, envVars
<1>3. CASE ReadMeminfo
  <2>1. mem' \in Figures
    BY <1>3, HostFigures DEF ReadMeminfo
  <2> QED BY <1>3, <2>1 DEF ReadMeminfo, ReturnRead, envVars
<1>4. CASE ResolveMemory
  BY <1>4 DEF ResolveMemory, ReturnRead, Open, envVars
<1>5. CASE ResolvePressure
  BY <1>5 DEF ResolvePressure, Open, envVars, Resources
<1>6. CASE StatFile
  <2>1. There(dir, file) \in BOOLEAN
    BY DEF There, Setups
  <2> QED BY <1>6, <2>1 DEF StatFile, envVars
<1>7. CASE NoBytes
  BY <1>7 DEF NoBytes, ReturnRead, envVars
<1>8. CASE EmptyBytes
  BY <1>8 DEF EmptyBytes, FailRead, envVars
<1>9. CASE ReadLimit
  <2>1. dir \in Groups
    BY <1>9 DEF ReadLimit, Content, There, Resources
  <2>2. account[dir] \in Accounts
    BY <2>1
  <2>3. taken' \in [limit : Nat \cup {NoLimit}, usage : Nat]
    BY <1>9, <2>2, Accounted DEF ReadLimit
  <2> QED BY <1>9, <2>3 DEF ReadLimit, Open, envVars
<1>10. CASE ReadUsage
  <2>1. dir \in Groups
    BY <1>10 DEF ReadUsage, Content, There, Resources
  <2>2. account[dir] \in Accounts
    BY <2>1
  <2>3. taken' \in [limit : Nat \cup {NoLimit}, usage : Nat]
    BY <1>10, <2>2, Accounted DEF ReadUsage
  <2> QED BY <1>10, <2>3 DEF ReadUsage, Open, envVars
<1>11. CASE ReadInactive
  <2> DEFINE inactive == IF Content THEN account[dir].inactive ELSE 0
  <2>1. inactive \in Nat
    <3>1. CASE Content
      <4>1. dir \in Groups
        BY <1>11, <3>1 DEF ReadInactive, Content, There, Resources
      <4>2. account[dir] \in Accounts
        BY <4>1
      <4> QED BY <4>2, <3>1, Accounted
    <3> QED BY <3>1
  <2> HIDE DEF inactive
  <2>2. WorkingSet(taken.usage, inactive) \in Nat
    BY <2>1, WorkingSetType
  <2>3. taken.limit # NoLimit =>
          Apply(mem, taken.limit, WorkingSet(taken.usage, inactive)) \in Figures
    BY <2>2, ApplyFigures
  <2>4. mem' = IF taken.limit = NoLimit THEN mem
               ELSE Apply(mem, taken.limit, WorkingSet(taken.usage, inactive))
    BY <1>11 DEF ReadInactive, inactive
  <2>5. mem' \in Figures
    BY <2>3, <2>4
  <2>6. limited' \in BOOLEAN
    BY <1>11 DEF ReadInactive
  <2> QED BY <1>11, <2>5, <2>6 DEF ReadInactive, ReturnRead, envVars
<1>12. CASE ReadPressure
  <2>1. psi' \in [Resources -> Groups \cup {Host, None}]
    BY <1>12 DEF ReadPressure
  <2>2. available' \in BOOLEAN /\ limited' \in BOOLEAN
    BY <1>12 DEF ReadPressure
  <2>3. /\ readAt' \in {"stat", "returned"} /\ found' = found
        /\ file' \in {"limit", "usage", "inactive"} \cup Resources
    BY <1>12 DEF ReadPressure, ReturnRead, Open, NextResource, Resources
  <2> QED BY <1>12, <2>1, <2>2, <2>3 DEF ReadPressure, envVars
<1>13. CASE MoveProcess
  BY <1>13 DEF MoveProcess, progReadVars
<1>14. ASSUME NEW g \in Groups, Account(g) PROVE ReadTypeOK'
  BY <1>14 DEF Account, progReadVars
<1>15. ASSUME NEW g \in Groups, RemoveGroup(g) PROVE ReadTypeOK'
  BY <1>15 DEF RemoveGroup, progReadVars
<1>16. CASE UNCHANGED readVars
  BY <1>16 DEF readVars, envVars
<1> QED
  BY <1>1, <1>2, <1>3, <1>4, <1>5, <1>6, <1>7, <1>8, <1>9, <1>10, <1>11, <1>12,
     <1>13, <1>14, <1>15, <1>16, <1>17
  DEF ReadNext, Reading

-----------------------------------------------------------------------------
(* GetMemory.                                                              *)

\* As long as the process has not left it, the cgroup found is its own.
OwnDir == dir \in Groups /\ ~moved => dir = own

\* Until the last file is read the host's figures stay, whatever was read.
HostKept ==
  /\ readAt \in {"idle", "host"} => ~limited
  /\ (query = "memory" /\ readAt \in {"resolve", "stat", "read"}) =>
       mem = ParseMeminfo(meminfo) /\ ~limited

\* The memory files are those of a cgroup, and there while the process is in it.
FilesThere ==
  /\ (query = "memory" /\ readAt \in {"stat", "read"}) =>
       dir \in Groups /\ file \in {"limit", "usage", "inactive"} /\ Resolvable
  /\ (query = "memory" /\ readAt = "read") =>
       /\ found => setup.controlled
       /\ setup.controlled /\ ~moved => found
  /\ query = "swap" => readAt \notin {"resolve", "stat", "read"}
  /\ (query = "pressure" /\ readAt \in {"stat", "read"}) => file \in Resources
  /\ query = "pressure" => readAt # "host"

\* What was read of the cgroup still holds, unless its limit was changed.
TakenHolds ==
  (query = "memory" /\ readAt \in {"stat", "read"} /\ ~relimited) =>
    (file \in {"usage", "inactive"} => taken.limit = account[dir].limit)

MemoryInv ==
  /\ ReadTypeOK /\ OwnDir /\ HostKept /\ FilesThere /\ TakenHolds
  /\ MemoryOfOneSource /\ FailsForCause

\* A GetMemory or GetSwap that has read nothing keeps the invariant.
LEMMA MemoryInit == ReadInit => MemoryInv
<1> SUFFICES ASSUME ReadInit PROVE MemoryInv
  OBVIOUS
<1>1. ReadTypeOK
  BY TypeInit
<1>2. OwnDir
  BY ReadingsAssumption DEF ReadInit, OwnDir
<1>3. HostKept /\ FilesThere /\ TakenHolds
  BY DEF ReadInit, HostKept, FilesThere, TakenHolds
<1>4. MemoryOfOneSource /\ FailsForCause
  BY DEF ReadInit, MemoryOfOneSource, FailsForCause
<1> QED BY <1>1, <1>2, <1>3, <1>4 DEF MemoryInv

\* The figures made of a cgroup's limit and usage.
LEMMA CgroupFigures ==
  ASSUME MemoryInv, ReadInactive, query = "memory"
  PROVE  MemoryOfOneSource'
<1> USE DEF MemoryInv
<1>1. /\ readAt' = "returned" /\ query' = query /\ setup' = setup /\ own' = own
      /\ account' = account /\ meminfo' = meminfo /\ moved' = moved
      /\ relimited' = relimited /\ limited' = (taken.limit # NoLimit) /\ taken' = taken
  BY DEF ReadInactive, ReturnRead, envVars
<1>2. /\ mem = ParseMeminfo(meminfo) /\ mem \in Figures /\ dir \in Groups
      /\ taken.limit \in Nat \cup {NoLimit} /\ taken.usage \in Nat
  BY DEF ReadInactive, HostKept, FilesThere, ReadTypeOK
<1>3. ~moved /\ ~relimited =>
        dir = own /\ taken.limit = account[own].limit
  BY <1>2 DEF OwnDir, TakenHolds, ReadInactive
<1>4. CASE taken.limit = NoLimit
  <2>1. mem' = mem /\ ~limited'
    BY <1>4, <1>1 DEF ReadInactive
  <2> QED BY <2>1, <1>1, <1>2, <1>3, <1>4 DEF MemoryOfOneSource
<1>5. CASE taken.limit # NoLimit
  <2> DEFINE inactive == IF Content THEN account[dir].inactive ELSE 0
             used == WorkingSet(taken.usage, inactive)
  <2>1. inactive \in Nat
    <3>1. account[dir] \in Accounts
      BY <1>2 DEF ReadTypeOK
    <3> QED BY <3>1, Accounted
  <2>2. mem' = Apply(mem, taken.limit, used)
    BY <1>5 DEF ReadInactive
  <2> HIDE DEF inactive
  <2>3. used \in Nat /\ used <= taken.usage
    BY <2>1, <1>2, WorkingSetType
  <2> HIDE DEF used
  <2>4. taken.limit \in Nat
    BY <1>2, <1>5
  <2>5. /\ mem'.total = taken.limit \div KiB /\ mem'.used = used \div KiB
        /\ mem'.free = mem'.available
        /\ IF mem'.used < mem'.total THEN mem'.used + mem'.available = mem'.total
                                     ELSE mem'.available = 0
        /\ mem'.per = IF mem'.total = 0 THEN mem.per ELSE <<mem'.used, mem'.total>>
    BY <2>2, <2>3, <2>4, <1>2, ApplyFigures
  <2>6. mem'.used <= taken.usage \div KiB
    BY <2>3, <2>5, <1>2, DivFacts
  <2>7. limited'
    BY <1>1, <1>5
  <2> QED BY <1>1, <1>2, <1>3, <1>5, <2>5, <2>6, <2>7 DEF MemoryOfOneSource
<1> QED BY <1>4, <1>5

\* No step of a reading, of the process that is moved or of a limit that is
\* set breaks the invariant.
LEMMA MemoryNext == MemoryInv /\ [ReadNext]_readVars => MemoryInv'
<1> SUFFICES ASSUME MemoryInv, [ReadNext]_readVars PROVE MemoryInv'
  OBVIOUS
<1>0. ReadTypeOK'
  BY TypeNext DEF MemoryInv
<1> USE DEF MemoryInv
<1>1. CASE BeginRead
  <2>1. /\ readAt = "idle" /\ readAt' \in {"resolve", "host"}
        /\ readAt' = "resolve" => query' = "pressure"
        /\ query' = "pressure" => readAt' = "resolve"
        /\ dir' = dir /\ own' = own /\ moved' = moved /\ limited' = limited
    BY <1>1 DEF BeginRead
  <2> QED BY <2>1, <1>0 DEF OwnDir, HostKept, FilesThere, TakenHolds,
                            MemoryOfOneSource, FailsForCause
<1>2. CASE UnknownUnit
  BY <1>2, <1>0 DEF UnknownUnit, FailRead, envVars, OwnDir, HostKept, FilesThere,
                    TakenHolds, MemoryOfOneSource, FailsForCause
<1>17. CASE BadMeminfo
  BY <1>17, <1>0 DEF BadMeminfo, FailRead, envVars, OwnDir, HostKept, FilesThere,
                     TakenHolds, MemoryOfOneSource, FailsForCause
<1>3. CASE ReadMeminfo
  BY <1>3, <1>0 DEF ReadMeminfo, ReturnRead, envVars, OwnDir, HostKept, FilesThere,
                    TakenHolds, MemoryOfOneSource, FailsForCause, Resolvable
<1>4. CASE ResolveMemory
  BY <1>4, <1>0 DEF ResolveMemory, ReturnRead, Open, envVars, OwnDir, HostKept,
                    FilesThere, TakenHolds, MemoryOfOneSource, FailsForCause,
                    Resolvable, ReadTypeOK
<1>5. CASE ResolvePressure
  <2>1. /\ query = "pressure" /\ readAt' = "stat" /\ file' = "cpu"
        /\ dir' \in {own, Host} /\ query' = query /\ moved' = moved /\ own' = own
    BY <1>5 DEF ResolvePressure, Open, envVars
  <2>2. OwnDir'
    BY <2>1, ReadingsAssumption DEF OwnDir
  <2> QED BY <2>1, <2>2, <1>0 DEF HostKept, FilesThere, TakenHolds, MemoryOfOneSource,
                                  FailsForCause, Resources
<1>6. CASE StatFile
  <2>1. /\ readAt = "stat" /\ readAt' = "read" /\ found' = There(dir, file)
        /\ query' = query /\ setup' = setup /\ meminfo' = meminfo /\ own' = own
        /\ account' = account /\ moved' = moved /\ relimited' = relimited
        /\ dir' = dir /\ file' = file /\ taken' = taken /\ mem' = mem
        /\ limited' = limited
    BY <1>6 DEF StatFile, envVars
  <2>2. query = "memory" => There(dir, file) = (setup.controlled /\ dir \in there)
    BY <2>1 DEF There, FilesThere, Resources
  <2>3. query = "memory" /\ ~moved => dir \in there
    BY <2>1 DEF OwnDir, FilesThere, ReadTypeOK
  <2>4. FilesThere'
    BY <2>1, <2>2, <2>3 DEF FilesThere, Resolvable
  <2> QED BY <2>1, <2>4, <1>0 DEF OwnDir, HostKept, TakenHolds, MemoryOfOneSource,
                                  FailsForCause
<1>7. CASE NoBytes
  <2>1. /\ readAt = "read" /\ ~found /\ file \notin Resources
        /\ readAt' = "returned" /\ query' = query /\ setup' = setup
        /\ meminfo' = meminfo /\ moved' = moved /\ dir' = dir /\ own' = own
        /\ mem' = mem /\ limited' = limited
    BY <1>7 DEF NoBytes, Missing, ReturnRead, envVars, Resources
  <2>2. query = "memory"
    BY <2>1 DEF FilesThere, ReadTypeOK
  <2>3. setup.controlled => moved
    BY <2>1, <2>2 DEF FilesThere
  <2> QED BY <2>1, <2>2, <2>3, <1>0 DEF OwnDir, HostKept, FilesThere, TakenHolds,
                                        MemoryOfOneSource, FailsForCause
<1>8. CASE EmptyBytes
  <2>1. /\ readAt = "read" /\ found /\ file \notin Resources /\ ~There(dir, file)
        /\ readAt' = "failed" /\ query' = query /\ moved' = moved
        /\ dir' = dir /\ own' = own
    BY <1>8 DEF EmptyBytes, Empty, FailRead, envVars, Resources
  <2>2. query = "memory"
    BY <2>1 DEF FilesThere, ReadTypeOK
  <2>3. setup.controlled /\ dir \in Groups /\ dir \notin there
    BY <2>1, <2>2 DEF FilesThere, There
  <2>4. moved
    BY <2>3 DEF OwnDir, ReadTypeOK
  <2> QED BY <2>1, <2>2, <2>4, <1>0 DEF OwnDir, HostKept, FilesThere, TakenHolds,
                                        MemoryOfOneSource, FailsForCause
<1>9. CASE ReadLimit
  <2>1. /\ readAt = "read" /\ file = "limit" /\ readAt' = "stat" /\ file' = "usage"
        /\ taken' = [taken EXCEPT !.limit = account[dir].limit]
        /\ query' = query /\ setup' = setup /\ meminfo' = meminfo /\ own' = own
        /\ account' = account /\ moved' = moved /\ relimited' = relimited
        /\ dir' = dir /\ mem' = mem /\ limited' = limited
    BY <1>9 DEF ReadLimit, Content, Open, envVars
  <2>2. taken'.limit = account[dir].limit /\ query = "memory"
    BY <2>1 DEF FilesThere, ReadTypeOK, Resources
  <2> QED BY <2>1, <2>2, <1>0 DEF OwnDir, HostKept, FilesThere, TakenHolds, Resolvable,
                                  MemoryOfOneSource, FailsForCause
<1>10. CASE ReadUsage
  <2>1. /\ readAt = "read" /\ file = "usage" /\ readAt' = "stat" /\ file' = "inactive"
        /\ taken' = [taken EXCEPT !.usage = account[dir].usage]
        /\ query' = query /\ setup' = setup /\ meminfo' = meminfo /\ own' = own
        /\ account' = account /\ moved' = moved /\ relimited' = relimited
        /\ dir' = dir /\ mem' = mem /\ limited' = limited
    BY <1>10 DEF ReadUsage, Content, Open, envVars
  <2>2. query = "memory" /\ dir \in Groups
    BY <2>1 DEF FilesThere, ReadTypeOK, Resources
  <2>3. taken'.usage = account[dir].usage /\ taken'.limit = taken.limit
    BY <2>1 DEF ReadTypeOK
  <2>4. TakenHolds'
    BY <2>1, <2>2, <2>3 DEF TakenHolds
  <2> QED BY <2>1, <2>2, <2>4, <1>0 DEF OwnDir, HostKept, FilesThere, Resolvable,
                                        MemoryOfOneSource, FailsForCause
<1>11. CASE ReadInactive
  <2>1. /\ readAt = "read" /\ file = "inactive" /\ readAt' = "returned"
        /\ query' = query /\ moved' = moved /\ dir' = dir /\ own' = own
    BY <1>11 DEF ReadInactive, ReturnRead, envVars
  <2>2. query = "memory"
    BY <2>1 DEF FilesThere, ReadTypeOK, Resources
  <2>3. MemoryOfOneSource'
    BY <1>11, <2>2, CgroupFigures
  <2> QED BY <2>1, <2>2, <2>3, <1>0 DEF OwnDir, HostKept, FilesThere, TakenHolds,
                                        FailsForCause
<1>12. CASE ReadPressure
  <2>1. /\ readAt = "read" /\ file \in Resources /\ query' = query /\ moved' = moved
        /\ dir' = dir /\ own' = own /\ setup' = setup
        /\ \/ readAt' = "returned"
           \/ readAt' = "stat" /\ file' \in Resources
    BY <1>12 DEF ReadPressure, ReturnRead, Open, envVars, NextResource, Resources
  <2>2. query = "pressure"
    BY <2>1 DEF FilesThere, ReadTypeOK, Resources
  <2> QED BY <2>1, <2>2, <1>0 DEF OwnDir, HostKept, FilesThere, TakenHolds,
                                  MemoryOfOneSource, FailsForCause
<1>13. CASE MoveProcess
  <2>1. /\ Running /\ moved' = (moved \/ own = dir)
        /\ readAt' = readAt /\ query' = query /\ setup' = setup /\ meminfo' = meminfo
        /\ dir' = dir /\ file' = file /\ found' = found /\ taken' = taken
        /\ mem' = mem /\ limited' = limited /\ account' = account
        /\ relimited' = relimited
    BY <1>13 DEF MoveProcess, progReadVars
  <2>2. OwnDir'
    BY <2>1 DEF OwnDir
  <2>3. MemoryOfOneSource' /\ FailsForCause'
    BY <2>1 DEF Running, MemoryOfOneSource, FailsForCause
  <2>4. ~moved' => ~moved
    BY <2>1
  <2> QED BY <2>1, <2>2, <2>3, <2>4, <1>0 DEF HostKept, FilesThere, TakenHolds, Resolvable
<1>14. ASSUME NEW g \in Groups, Account(g) PROVE MemoryInv'
  <2>1. PICK a \in Accounts :
          /\ account' = [account EXCEPT ![g] = a]
          /\ relimited' = (relimited \/ (g = dir /\ account[g].limit # a.limit))
    BY <1>14 DEF Account
  <2>2. /\ Running /\ moved' = moved /\ own' = own
        /\ readAt' = readAt /\ query' = query /\ setup' = setup /\ meminfo' = meminfo
        /\ dir' = dir /\ file' = file /\ found' = found /\ taken' = taken
        /\ mem' = mem /\ limited' = limited
    BY <1>14 DEF Account, progReadVars
  <2>3. ~relimited' => ~relimited /\ (dir \in Groups => account'[dir].limit = account[dir].limit)
    BY <2>1 DEF ReadTypeOK
  <2>4. TakenHolds'
    BY <2>2, <2>3 DEF TakenHolds, FilesThere
  <2>5. MemoryOfOneSource' /\ FailsForCause'
    BY <2>2 DEF Running, MemoryOfOneSource, FailsForCause
  <2> QED BY <2>2, <2>4, <2>5, <1>0 DEF OwnDir, HostKept, FilesThere, Resolvable
<1>15. ASSUME NEW g \in Groups, RemoveGroup(g) PROVE MemoryInv'
  <2>1. /\ Running /\ moved' = moved /\ own' = own /\ account' = account
        /\ readAt' = readAt /\ query' = query /\ setup' = setup /\ meminfo' = meminfo
        /\ dir' = dir /\ file' = file /\ found' = found /\ taken' = taken
        /\ mem' = mem /\ limited' = limited /\ relimited' = relimited
    BY <1>15 DEF RemoveGroup, progReadVars
  <2> QED BY <2>1, <1>0 DEF OwnDir, HostKept, FilesThere, TakenHolds, Resolvable,
                            Running, MemoryOfOneSource, FailsForCause
<1>16. CASE UNCHANGED readVars
  BY <1>16, <1>0 DEF readVars, envVars, OwnDir, HostKept, FilesThere, TakenHolds,
                     Resolvable, MemoryOfOneSource, FailsForCause
<1> QED
  BY <1>1, <1>2, <1>3, <1>4, <1>5, <1>6, <1>7, <1>8, <1>9, <1>10, <1>11, <1>12,
     <1>13, <1>14, <1>15, <1>16, <1>17
  DEF ReadNext, Reading

\* The invariant of GetMemory and GetSwap holds of every behaviour.
THEOREM MemoryInvHolds == ReadSpec => []MemoryInv
BY MemoryInit, MemoryNext, PTL DEF ReadSpec

\* Every variable of a call keeps its type; no figure is ever negative.
THEOREM TypeCorrect == ReadSpec => []ReadTypeOK
BY MemoryInvHolds, PTL DEF MemoryInv

\* GetMemory returns the host's figures or those of one cgroup under its limit,
\* whatever limits are set and wherever the process is moved between the reads.
THEOREM MemorySound == ReadSpec => []MemoryOfOneSource
BY MemoryInvHolds, PTL DEF MemoryInv

\* A call fails for its unit or for meminfo, or when the process has left the
\* cgroup whose memory files were being read; GetPressure never does.
THEOREM FailureExplained == ReadSpec => []FailsForCause
BY MemoryInvHolds, PTL DEF MemoryInv

-----------------------------------------------------------------------------
(* GetPressure.                                                            *)

\* The source of a call that has not been moved.
Source == IF Resolvable /\ setup.version = "v2" /\ setup.stalls THEN own ELSE Host

\* Resources whose turn is over.
DoneBefore == [cpu |-> {}, memory |-> {"cpu"}, io |-> {"cpu", "memory"}]
Gone == IF readAt = "returned" THEN Resources
        ELSE IF readAt \in {"stat", "read"} /\ file \in Resources THEN DoneBefore[file]
        ELSE {}

\* The turns that are over, each with the figures of the one directory or none.
Turns ==
  query = "pressure" =>
    /\ \A r \in Resources : psi[r] \in {dir, None}
    /\ limited <=> (available /\ dir # Host)
    /\ (readAt \in {"stat", "read", "returned"} /\ ~moved) =>
         /\ dir = Source
         /\ available <=> (setup.stalls /\ Gone # {})
         /\ setup.stalls => \A r \in Gone : psi[r] = dir
    /\ (readAt = "read" /\ ~moved) => found = setup.stalls

\* Nothing has been found before the directory is known.
Fresh ==
  /\ readAt \in {"idle", "host", "resolve"} =>
       ~available /\ dir = Host /\ (\A r \in Resources : psi[r] = None)
  /\ readAt \in {"idle", "host", "resolve"} => ~limited

PressureInv == MemoryInv /\ Fresh /\ Turns

\* A GetPressure that has opened nothing keeps the invariant.
LEMMA PressureInit == ReadInit => PressureInv
<1> SUFFICES ASSUME ReadInit PROVE PressureInv
  OBVIOUS
<1>1. Fresh
  BY DEF ReadInit, Fresh
<1>2. Turns
  BY DEF ReadInit, Turns
<1> QED BY <1>1, <1>2, MemoryInit DEF PressureInv

\* One turn of the loop over the resources.
LEMMA TurnTaken ==
  ASSUME PressureInv, MemoryInv', ReadPressure
  PROVE  PressureInv'
<1> USE DEF PressureInv, MemoryInv
<1>1. /\ readAt = "read" /\ file \in Resources /\ query' = query /\ setup' = setup
      /\ own' = own /\ moved' = moved /\ dir' = dir /\ there' = there
      /\ psi' = IF Content THEN [psi EXCEPT ![file] = dir] ELSE psi
      /\ available' = (available \/ found)
      /\ limited' = (available' /\ dir \in Groups)
  BY DEF ReadPressure, envVars
<1>2. query = "pressure"
  BY <1>1 DEF FilesThere, ReadTypeOK, Resources
<1>3. dir \in Groups <=> dir # Host
  BY ReadingsAssumption DEF ReadTypeOK
<1>4. \A r \in Resources : psi'[r] = IF Content /\ r = file THEN dir ELSE psi[r]
  BY <1>1 DEF ReadTypeOK
<1>5. /\ readAt' \in {"stat", "returned"}
      /\ Gone' = Gone \cup {file}
  <2>1. CASE file = "io"
    BY <1>1, <2>1 DEF ReadPressure, ReturnRead, NextResource, Gone, DoneBefore, Resources
  <2>2. CASE file = "memory"
    <3>1. readAt' = "stat" /\ file' = "io"
      BY <2>2 DEF ReadPressure, Open, NextResource, None
    <3> QED BY <3>1, <1>1, <2>2 DEF Gone, DoneBefore, Resources
  <2>3. CASE file = "cpu"
    <3>1. readAt' = "stat" /\ file' = "memory"
      BY <2>3 DEF ReadPressure, Open, NextResource, None
    <3> QED BY <3>1, <1>1, <2>3 DEF Gone, DoneBefore, Resources
  <2> QED BY <1>1, <2>1, <2>2, <2>3 DEF Resources
<1>6. Source' = Source
  BY <1>1 DEF Source, Resolvable
<1>7. ~moved => dir = Source /\ found = setup.stalls /\ (setup.stalls => Content)
  <2>1. ~moved => dir = Source /\ found = setup.stalls
    BY <1>1, <1>2 DEF Turns
  <2>2. ~moved /\ setup.stalls => There(dir, file)
    BY <1>1, <2>1 DEF There, Source, ReadTypeOK
  <2> QED BY <1>1, <2>1, <2>2 DEF Content
<1>8. \A r \in Resources : psi'[r] \in {dir, None}
  BY <1>2, <1>4 DEF Turns
<1>9. ~moved => /\ available' <=> setup.stalls
                /\ setup.stalls => \A r \in Gone' : psi'[r] = dir
  <2>1. ASSUME ~moved PROVE available' <=> setup.stalls
    BY <2>1, <1>1, <1>2, <1>7 DEF Turns
  <2>2. ASSUME ~moved, setup.stalls, NEW r \in Gone' PROVE psi'[r] = dir
    <3>1. r \in Resources
      BY <1>1, <1>5 DEF Gone, DoneBefore, Resources
    <3>2. CASE r = file
      BY <2>2, <3>1, <3>2, <1>4, <1>7
    <3>3. CASE r # file
      <4>1. psi[r] = dir
        BY <2>2, <3>3, <1>1, <1>2, <1>5 DEF Turns
      <4> QED BY <3>1, <3>3, <4>1, <1>4
    <3> QED BY <3>2, <3>3
  <2> QED BY <2>1, <2>2
<1>10. Turns'
  BY <1>1, <1>2, <1>3, <1>5, <1>6, <1>7, <1>8, <1>9 DEF Turns
<1>11. Fresh'
  BY <1>5 DEF Fresh
<1> QED BY <1>10, <1>11

\* No step of a reading or of the host breaks the invariant of GetPressure.
LEMMA PressureNext == PressureInv /\ [ReadNext]_readVars => PressureInv'
<1> SUFFICES ASSUME PressureInv, [ReadNext]_readVars PROVE PressureInv'
  OBVIOUS
<1>0. MemoryInv /\ MemoryInv' /\ Fresh /\ Turns
  BY MemoryNext DEF PressureInv
<1> SUFFICES Fresh' /\ Turns'
  BY <1>0 DEF PressureInv
<1> USE <1>0
<1>1. CASE BeginRead
  <2>1. /\ readAt = "idle" /\ readAt' \in {"resolve", "host"} /\ dir' = dir
        /\ psi' = psi /\ available' = available /\ limited' = limited
    BY <1>1 DEF BeginRead
  <2> QED BY <2>1 DEF Fresh, Turns
<1>2. CASE UnknownUnit \/ BadMeminfo \/ ReadMeminfo
  <2>1. query' = query /\ query # "pressure"
    BY <1>2 DEF UnknownUnit, BadMeminfo, ReadMeminfo, FailRead, MemoryInv, FilesThere
  <2>2. Fresh'
    BY <1>2 DEF UnknownUnit, BadMeminfo, ReadMeminfo, FailRead, ReturnRead, Fresh, envVars
  <2> QED BY <2>1, <2>2 DEF Turns
<1>3. CASE ResolveMemory
  <2>1. query' = query /\ query # "pressure" /\ readAt' \in {"stat", "returned"}
    BY <1>3 DEF ResolveMemory, Open, ReturnRead
  <2> QED BY <2>1 DEF Fresh, Turns
<1>4. CASE ResolvePressure
  <2>1. /\ readAt = "resolve" /\ readAt' = "stat" /\ file' = "cpu" /\ query' = query
        /\ setup' = setup /\ own' = own /\ moved' = moved /\ psi' = psi
        /\ available' = available /\ limited' = limited
        /\ dir' = IF Resolvable /\ setup.version = "v2" /\ There(own, "cpu")
                  THEN own ELSE Host
    BY <1>4 DEF ResolvePressure, Open, envVars
  <2>2. There(own, "cpu") = setup.stalls
    BY DEF There, Resources, MemoryInv, ReadTypeOK, Setups
  <2>3. dir' = Source /\ Source' = Source
    BY <2>1, <2>2 DEF Source, Resolvable
  <2>4. Gone' = {}
    BY <2>1 DEF Gone, DoneBefore, Resources
  <2>5. ~available /\ ~limited /\ \A r \in Resources : psi[r] = None
    BY <2>1 DEF Fresh
  <2> QED BY <2>1, <2>3, <2>4, <2>5 DEF Fresh, Turns
<1>5. CASE StatFile
  <2>1. /\ readAt = "stat" /\ readAt' = "read" /\ found' = There(dir, file)
        /\ query' = query /\ setup' = setup /\ own' = own /\ moved' = moved
        /\ dir' = dir /\ file' = file /\ psi' = psi /\ available' = available
        /\ limited' = limited
    BY <1>5 DEF StatFile, envVars
  <2>2. Source' = Source /\ Gone' = Gone
    BY <2>1 DEF Source, Resolvable, Gone
  <2>3. query = "pressure" /\ ~moved => There(dir, file) = setup.stalls
    <3>1. query = "pressure" => file \in Resources
      BY <2>1 DEF MemoryInv, FilesThere
    <3>2. query = "pressure" /\ ~moved => dir = Source
      BY <2>1 DEF Turns
    <3> QED BY <3>1, <3>2 DEF There, Source, MemoryInv, ReadTypeOK, Setups
  <2> QED BY <2>1, <2>2, <2>3 DEF Fresh, Turns
<1>6. CASE NoBytes \/ EmptyBytes \/ ReadLimit \/ ReadUsage \/ ReadInactive
  <2>1. /\ readAt = "read" /\ file \notin Resources /\ query' = query
        /\ readAt' \in {"stat", "returned", "failed"}
    BY <1>6 DEF NoBytes, EmptyBytes, ReadLimit, ReadUsage, ReadInactive, Missing, Content,
                Empty, ReturnRead, FailRead, Open, Resources
  <2>2. query # "pressure"
    BY <2>1 DEF MemoryInv, FilesThere
  <2> QED BY <2>1, <2>2 DEF Fresh, Turns
<1>7. CASE ReadPressure
  BY <1>7, TurnTaken DEF PressureInv
<1>8. CASE MoveProcess
  <2>1. /\ own' \in there /\ moved' = (moved \/ own = dir) /\ query' = query
        /\ readAt' = readAt /\ setup' = setup /\ dir' = dir /\ file' = file
        /\ found' = found /\ psi' = psi /\ available' = available /\ limited' = limited
    BY <1>8 DEF MoveProcess, progReadVars
  <2>2. Gone' = Gone
    BY <2>1 DEF Gone
  <2>3. ~moved' /\ dir = Source => dir = Source'
    BY <2>1 DEF Source, Resolvable
  <2> QED BY <2>1, <2>2, <2>3 DEF Fresh, Turns
<1>9. ASSUME NEW g \in Groups, Account(g) \/ RemoveGroup(g) PROVE Fresh' /\ Turns'
  <2>1. /\ own' = own /\ moved' = moved /\ query' = query
        /\ readAt' = readAt /\ setup' = setup /\ dir' = dir /\ file' = file
        /\ found' = found /\ psi' = psi /\ available' = available /\ limited' = limited
    BY <1>9 DEF Account, RemoveGroup, progReadVars
  <2>2. Gone' = Gone /\ Source' = Source
    BY <2>1 DEF Gone, Source, Resolvable
  <2> QED BY <2>1, <2>2 DEF Fresh, Turns
<1>10. CASE UNCHANGED readVars
  <2>1. /\ own' = own /\ moved' = moved /\ query' = query
        /\ readAt' = readAt /\ setup' = setup /\ dir' = dir /\ file' = file
        /\ found' = found /\ psi' = psi /\ available' = available /\ limited' = limited
    BY <1>10 DEF readVars, envVars
  <2>2. Gone' = Gone /\ Source' = Source
    BY <2>1 DEF Gone, Source, Resolvable
  <2> QED BY <2>1, <2>2 DEF Fresh, Turns
<1> QED
  BY <1>1, <1>2, <1>3, <1>4, <1>5, <1>6, <1>7, <1>8, <1>9, <1>10
  DEF ReadNext, Reading

\* When all turns of the loop are taken, they say what GetPressure promises.
LEMMA TurnsEnd == PressureInv => PressureOfOneSource
<1> SUFFICES ASSUME PressureInv, query = "pressure", readAt = "returned"
             PROVE  /\ \A r \in Resources : psi[r] \in {dir, None}
                    /\ limited <=> (available /\ dir # Host)
                    /\ ~moved =>
                         /\ available <=> setup.stalls
                         /\ available => (\A r \in Resources : psi[r] = dir)
                         /\ limited <=> (Resolvable /\ setup.version = "v2" /\ setup.stalls)
  BY DEF PressureOfOneSource
<1>1. Gone = Resources /\ Resources # {}
  BY DEF Gone, Resources
<1>2. own # Host
  BY ReadingsAssumption DEF PressureInv, MemoryInv, ReadTypeOK
<1>3. Turns
  BY DEF PressureInv
<1>4. ~moved => /\ dir = Source /\ (available <=> setup.stalls)
                /\ setup.stalls => \A r \in Resources : psi[r] = dir
  BY <1>1, <1>3 DEF Turns
<1>5. (\A r \in Resources : psi[r] \in {dir, None}) /\ (limited <=> (available /\ dir # Host))
  BY <1>3 DEF Turns
<1> QED BY <1>2, <1>4, <1>5 DEF Source

\* The invariant of GetPressure's loop over the resources holds of every
\* behaviour.
THEOREM PressureInvHolds == ReadSpec => []PressureInv
BY PressureInit, PressureNext, PTL DEF ReadSpec

\* GetPressure's figures are of one source; the kernel's lack of PSI and a
\* cgroup without it are not taken for one another, unless the cgroup went.
THEOREM PressureSound == ReadSpec => []PressureOfOneSource
BY PressureInvHolds, TurnsEnd, PTL
=============================================================================
