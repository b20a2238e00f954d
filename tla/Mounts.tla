------------------------------- MODULE Mounts -------------------------------
(***************************************************************************)
(* GetDisks (disk.go): the mount table, then statfs(2) of each mount point *)
(* while file systems are mounted, over others too, and unmounted.         *)
(* statfs looks a path up: it answers for the file system found there,     *)
(* whatever the table named.                                               *)
(***************************************************************************)
EXTENDS Integers, Sequences, FiniteSets, SequencesExt

CONSTANTS
  Disks,     \* mounts, each of a file system of its own
  Root,      \* the one of the root directory, never unmounted
  Paths,     \* mount points
  Below,     \* pairs of a path and one that is it or lies below it
  Point,     \* where each is mounted
  Excluded,  \* those of an excluded type
  Blockless, \* those that report no blocks
  MaxMounts  \* bound: mounts and unmounts during the call

ASSUME MountAssumption ==
  /\ Root \in Disks /\ IsFiniteSet(Disks) /\ "error" \notin Disks
  /\ Excluded \subseteq Disks /\ Blockless \subseteq Disks
  /\ Point \in [Disks -> Paths] /\ Below \subseteq Paths \X Paths
  /\ \A p \in Paths : <<p, p>> \in Below /\ <<Point[Root], p>> \in Below
  /\ MaxMounts \in Nat

VARIABLES
  diskAt,    \* where the call is
  mounted,   \* the mounts, in the order they were made
  locked,    \* mounts that cannot be stat'ed: permission, a server that is gone
  remounts,  \* mounts and unmounts so far
  mounts,    \* readMounts: the table as it was read
  row,       \* how many of its entries have been dealt with
  disks,     \* output: the entry named, and whose figures it has
  steady     \* history: mounts found at their mount point since the call began

tableVars == <<mounted, locked, remounts>>
diskVars  == <<diskAt, tableVars, mounts, row, disks, steady>>

Mounted == {mounted[i] : i \in DOMAIN mounted}

\* What a lookup of path p ends in: the last mounted on it or above it.
At(p) ==
  LET above == {i \in DOMAIN mounted : <<Point[mounted[i]], p>> \in Below}
  IN  mounted[CHOOSE i \in above : \A j \in above : j <= i]

Visible == {d \in Mounted : At(Point[d]) = d}

-----------------------------------------------------------------------------
\* Types of every variable.
MountTypeOK ==
  /\ diskAt \in {"idle", "table", "statfs", "returned", "failed"}
  /\ mounted \in Seq(Disks) /\ mounts \in Seq(Disks)
  /\ mounted[1] = Root /\ Cardinality(Mounted) = Len(mounted)
  /\ locked \subseteq Disks \ {Root} /\ steady \subseteq Mounted
  /\ remounts \in 0..MaxMounts /\ row \in 0..Len(mounts)
  /\ disks \subseteq Disks \X Disks

MountInit ==
  /\ diskAt = "idle"
  /\ \E S \in SUBSET (Disks \ {Root}) : \E s \in SetToSeqs(S) : mounted = <<Root>> \o s
  /\ locked \in SUBSET (Disks \ {Root})
  /\ remounts = 0 /\ mounts = <<>> /\ row = 0 /\ disks = {} /\ steady = {}

BeginDisks ==
  /\ diskAt = "idle" /\ diskAt' = "table"
  /\ steady' = Visible
  /\ UNCHANGED <<tableVars, mounts, row, disks>>

-----------------------------------------------------------------------------
(* getDisks.                                                               *)

\* The whole table at once; without one the call fails.
ReadMounts ==
  /\ diskAt = "table"
  /\ \/ diskAt' = "statfs" /\ mounts' = mounted
     \/ diskAt' = "failed" /\ UNCHANGED mounts
  /\ UNCHANGED <<row, disks>>

\* unix.Statfs answers for what is at the path; where another file system has
\* come or the mount has gone, the directory may be missing.
Statfs(d, answer) ==
  \/ answer = At(Point[d]) /\ answer \notin locked
  \/ answer = "error" /\ (At(Point[d]) # d \/ d \in locked)

\* Mutant: a mount point that cannot be stat'ed ends the loop.
StatfsEnds ==
  /\ diskAt = "statfs" /\ row < Len(mounts) /\ mounts[row + 1] \notin Excluded
  /\ \E answer \in Disks \cup {"error"} :
       /\ Statfs(mounts[row + 1], answer)
       /\ row' = IF answer = "error" THEN Len(mounts) ELSE row + 1
       /\ disks' = IF answer \in Blockless \cup {"error"}
                   THEN disks ELSE disks \cup {<<mounts[row + 1], answer>>}
  /\ UNCHANGED <<diskAt, mounts>>

\* One turn of the loop: what cannot be stat'ed or has no blocks is left out.
StatMount ==
  /\ diskAt = "statfs" /\ row < Len(mounts) /\ mounts[row + 1] \notin Excluded
  /\ \E answer \in Disks \cup {"error"} :
       /\ Statfs(mounts[row + 1], answer)
       /\ disks' = IF answer \in Blockless \cup {"error"}
                   THEN disks ELSE disks \cup {<<mounts[row + 1], answer>>}
  /\ row' = row + 1
  /\ UNCHANGED <<diskAt, mounts>>

\* excludedFsTypes goes by the table's type.
SkipExcluded ==
  /\ diskAt = "statfs" /\ row < Len(mounts) /\ mounts[row + 1] \in Excluded
  /\ row' = row + 1
  /\ UNCHANGED <<diskAt, mounts, disks>>

DisksDone ==
  /\ diskAt = "statfs" /\ row = Len(mounts)
  /\ diskAt' = "returned"
  /\ UNCHANGED <<mounts, row, disks>>

DiskStep ==
  /\ ReadMounts \/ StatMount \/ SkipExcluded \/ DisksDone
  /\ UNCHANGED <<tableVars, steady>>

-----------------------------------------------------------------------------
(* The administrator.                                                      *)

Remount ==
  /\ diskAt \in {"table", "statfs"} /\ remounts < MaxMounts
  /\ remounts' = remounts + 1
  /\ steady' = steady \cap Visible'
  /\ UNCHANGED <<diskAt, locked, mounts, row, disks>>

Mount(d) == d \notin Mounted /\ mounted' = Append(mounted, d) /\ Remount

\* One that others are mounted on is busy.
Unmount(d) ==
  /\ d \in Visible \ {Root}
  /\ \A e \in Visible \ {d} : <<Point[d], Point[e]>> \notin Below
  /\ \E i \in DOMAIN mounted : mounted[i] = d /\ mounted' = RemoveAt(mounted, i)
  /\ Remount

MountNext ==
  \/ BeginDisks \/ DiskStep
  \/ \E d \in Disks : Mount(d) \/ Unmount(d)

MountSpec == MountInit /\ [][MountNext]_diskVars

-----------------------------------------------------------------------------
(* Properties.                                                             *)

\* GetDisks' table and its figures are read at different times and by path: a
\* file system that stays at its mount point is listed with its own figures,
\* once, unless it is excluded, has no blocks or cannot be stat'ed; whatever is
\* mounted, hidden or unmounted around it.
SteadyDisksListed ==
  diskAt = "returned" =>
    \A d \in steady :
      {r[2] : r \in {s \in disks : s[1] = d}}
        = IF d \in Excluded \cup Blockless \cup locked THEN {} ELSE {d}
=============================================================================
