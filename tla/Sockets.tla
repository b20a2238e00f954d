------------------------------ MODULE Sockets -------------------------------
(***************************************************************************)
(* EstablishedTCPConnCount and GetTCPConnectionStates (network.go): the    *)
(* processes of a name, then the sockets of two tables, then the open      *)
(* files of those processes, each read while connections are made, change  *)
(* state and are closed, files are passed on, and processes exit.          *)
(***************************************************************************)
EXTENDS Integers, FiniteSets

CONSTANTS
  Procs,     \* pids
  Numbers,   \* file descriptor numbers
  Sockets4,  \* socket inodes of /proc/net/tcp
  Sockets6,  \* and of /proc/net/tcp6
  MaxChanges \* bound: changes of processes and sockets during the call

ASSUME SocketAssumption ==
  /\ IsFiniteSet(Procs) /\ IsFiniteSet(Numbers)
  /\ IsFiniteSet(Sockets4) /\ IsFiniteSet(Sockets6)
  /\ Sockets4 \cap Sockets6 = {} /\ MaxChanges \in Nat

VARIABLES
  countAt,   \* where the call is
  ofName,    \* count for a process name, or the states of all sockets
  running,   \* pids that are there
  named,     \* those whose comm is the name asked for
  fds,       \* descriptors: of which process, its number, and the socket
  state,     \* each socket's state
  changes,   \* how much of it has changed during the call
  toRead,    \* pids whose comm, or fd directory, is still to be read
  matches,   \* findPidsByName
  records,   \* sockets of the tables read so far, by the state they were in
  links,     \* entries of the fd directory still to be read: pid and number
  count,     \* the count so far
  recycled,  \* history: pids given to a new process during the call
  heldSince, \* history: descriptors of that name open since the call began
  heldEver,  \* history: descriptors of that name open at any time since
  estSince,  \* history: sockets established since the call began
  estEver    \* history: sockets established at any time since

socketVars  == <<running, named, fds, state, changes>>
historyVars == <<recycled, heldSince, heldEver, estSince, estEver>>
tallyVars   == <<toRead, matches, records, links, count>>
countVars   == <<countAt, ofName, socketVars, tallyVars, historyVars>>

Inodes == Sockets4 \cup Sockets6

\* In the tables: "01" and any other state.  A socket's inode is not used again.
Listed == {"established", "other"}
States == Listed \cup {"new", "destroyed"}

InState(st) == {s \in Inodes : state[s] = st}

Descriptors == Procs \X Numbers \X Inodes

-----------------------------------------------------------------------------
\* Types of every variable.
SocketTypeOK ==
  /\ countAt \in {"idle", "comm", "tcp", "tcp6", "fds", "links", "returned"}
  /\ ofName \in BOOLEAN /\ running \subseteq Procs /\ named \subseteq running
  /\ fds \subseteq running \X Numbers \X (Inodes \ InState("new"))
  /\ state \in [Inodes -> States] /\ changes \in 0..MaxChanges
  /\ toRead \subseteq Procs /\ matches \subseteq Procs
  /\ records \in [Listed -> SUBSET Inodes]
  /\ links \subseteq Procs \X Numbers /\ count \in Nat
  /\ recycled \subseteq Procs
  /\ heldSince \subseteq heldEver /\ heldEver \subseteq Descriptors
  /\ estSince \subseteq estEver /\ estEver \subseteq Inodes

\* A number of a process is one socket.
OneEach == \A h, k \in fds : h[1] = k[1] /\ h[2] = k[2] => h = k

\* An established socket is held by a process.
SocketInit ==
  /\ countAt = "idle" /\ ofName = FALSE
  /\ running = Procs /\ named \in SUBSET Procs
  /\ state \in [Inodes -> Listed \cup {"new"}]
  /\ fds \in SUBSET (Procs \X Numbers \X (Inodes \ InState("new"))) /\ OneEach
  /\ \A s \in InState("established") : \E h \in fds : h[3] = s
  /\ changes = 0 /\ toRead = {} /\ matches = {} /\ links = {} /\ count = 0
  /\ records = [st \in Listed |-> {}]
  /\ recycled = {} /\ heldSince = {} /\ heldEver = {} /\ estSince = {} /\ estEver = {}

Held == {h \in fds : h[1] \in named}

BeginCount ==
  /\ countAt = "idle"
  /\ ofName' \in BOOLEAN
  /\ countAt' = IF ofName' THEN "comm" ELSE "tcp"
  /\ toRead' = IF ofName' THEN running ELSE {}   \* listPids
  /\ heldSince' = Held /\ heldEver' = Held
  /\ estSince' = InState("established") /\ estEver' = InState("established")
  /\ UNCHANGED <<socketVars, matches, records, links, count, recycled>>

-----------------------------------------------------------------------------
(* The call.                                                               *)

\* findPidsByName, one pid; a process that exited is left out.
ReadComm(p) ==
  /\ countAt = "comm" /\ p \in toRead
  /\ toRead' = toRead \ {p}
  /\ matches' = IF p \in named THEN matches \cup {p} ELSE matches
  /\ UNCHANGED <<countAt, records, links, count>>

NamesRead ==
  /\ countAt = "comm" /\ toRead = {}
  /\ countAt' = IF matches = {} THEN "returned" ELSE "tcp"
  /\ UNCHANGED tallyVars

\* One table: parseProcNetTCP, and TCPStates.add.
ReadTable(S) ==
  records' = [st \in Listed |-> records[st] \cup (InState(st) \cap S)]

\* Mutant: without IPv4 connections the other table is not looked at.
ReadTCPOrReturn ==
  /\ countAt = "tcp" /\ ReadTable(Sockets4)
  /\ countAt' = IF records'["established"] = {} THEN "returned" ELSE "tcp6"
  /\ UNCHANGED <<toRead, matches, links, count>>

\* readTCPSocketRecords.
ReadTCP ==
  /\ countAt = "tcp" /\ ReadTable(Sockets4)
  /\ countAt' = "tcp6"
  /\ UNCHANGED <<toRead, matches, links, count>>

\* establishedTCPInodes: with none, no process is looked at.
ReadTCP6 ==
  /\ countAt = "tcp6" /\ ReadTable(Sockets6)
  /\ countAt' = IF ofName /\ records'["established"] # {} THEN "fds" ELSE "returned"
  /\ toRead' = IF ofName THEN matches ELSE {}
  /\ UNCHANGED <<matches, links, count>>

\* countMatchingSocketFds: the directory, with an entry per descriptor, or empty
\* for a process that exited.
ReadFdDir(p) ==
  /\ countAt = "fds" /\ p \in toRead
  /\ toRead' = toRead \ {p}
  /\ links' = {<<h[1], h[2]>> : h \in {k \in fds : k[1] = p}}
  /\ countAt' = "links"
  /\ UNCHANGED <<matches, records, count>>

\* What an entry is a link to by now: one socket, or none once it was closed.
Target(l) == {s \in Inodes : <<l[1], l[2], s>> \in fds}

\* Mutant: every socket of the process is counted.
ReadLinkAnySocket(l) ==
  /\ countAt = "links" /\ l \in links
  /\ links' = links \ {l}
  /\ count' = IF Target(l) # {} THEN count + 1 ELSE count
  /\ UNCHANGED <<countAt, toRead, matches, records>>

\* os.Readlink of one entry.
ReadLink(l) ==
  /\ countAt = "links" /\ l \in links
  /\ links' = links \ {l}
  /\ count' = IF Target(l) \cap records["established"] # {} THEN count + 1 ELSE count
  /\ UNCHANGED <<countAt, toRead, matches, records>>

LinksRead ==
  /\ countAt = "links" /\ links = {}
  /\ countAt' = "fds"
  /\ UNCHANGED tallyVars

AllCounted ==
  /\ countAt = "fds" /\ toRead = {}
  /\ countAt' = "returned"
  /\ UNCHANGED tallyVars

CountStep ==
  /\ \/ NamesRead \/ ReadTCP \/ ReadTCP6 \/ LinksRead \/ AllCounted
     \/ \E p \in Procs : ReadComm(p) \/ ReadFdDir(p)
     \/ \E l \in links : ReadLink(l)
  /\ UNCHANGED <<ofName, socketVars, historyVars>>

-----------------------------------------------------------------------------
(* Processes and their connections.                                        *)

Opens(p, n, s) ==
  /\ p \in running /\ Target(<<p, n>>) = {}
  /\ fds' = fds \cup {<<p, n, s>>}

Connect(p, n, s) ==
  /\ Opens(p, n, s) /\ state[s] = "new"
  /\ state' = [state EXCEPT ![s] = "established"]
  /\ UNCHANGED <<running, named>>

\* Either end shuts the connection down.
Shut(s) ==
  /\ state[s] = "established"
  /\ state' = [state EXCEPT ![s] = "other"]
  /\ UNCHANGED <<running, named, fds>>

\* Once no one holds it a socket is no longer established: it winds down, or
\* is gone.
Release(H, held) ==
  LET free == {s \in Inodes : /\ \E h \in H : h[3] = s
                              /\ ~\E h \in held : h[3] = s}
  IN  /\ fds' = held
      /\ \E last \in {"other", "destroyed"} :
           state' = [s \in Inodes |-> IF s \in free THEN last ELSE state[s]]

CloseSocket(h) ==
  /\ h \in fds
  /\ Release({h}, fds \ {h})
  /\ UNCHANGED <<running, named>>

\* A descriptor is passed on, inherited, or duplicated in its own process.
PassOn(h, p, n) ==
  /\ h \in fds /\ Opens(p, n, h[3])
  /\ UNCHANGED <<running, named, state>>

ExitProcess(p) ==
  /\ p \in running
  /\ running' = running \ {p} /\ named' = named \ {p}
  /\ LET H == {h \in fds : h[1] = p} IN Release(H, fds \ H)

\* A new process gets the pid.
NewProcess(p) ==
  /\ p \notin running
  /\ running' = running \cup {p} /\ named' \in {named, named \cup {p}}
  /\ UNCHANGED <<fds, state>>

SocketsChange ==
  /\ countAt \notin {"idle", "returned"} /\ changes < MaxChanges
  /\ changes' = changes + 1
  /\ \/ \E p \in Procs : \/ ExitProcess(p) \/ NewProcess(p)
     \/ \E p \in Procs, n \in Numbers : \/ \E s \in Inodes : Connect(p, n, s)
                                         \/ \E h \in fds : PassOn(h, p, n)
     \/ \E s \in Inodes : Shut(s)
     \/ \E h \in fds : CloseSocket(h)
  /\ recycled' = recycled \cup (running' \ running)
  /\ heldSince' = heldSince \cap Held' /\ heldEver' = heldEver \cup Held'
  /\ estSince' = estSince \cap InState("established")'
  /\ estEver' = estEver \cup InState("established")'
  /\ UNCHANGED <<countAt, ofName, tallyVars>>

CountNext == BeginCount \/ CountStep \/ SocketsChange

CountSpec == SocketInit /\ [][CountNext]_countVars

-----------------------------------------------------------------------------
(* Properties.                                                             *)

\* EstablishedTCPConnCount is of no one moment: names, tables and descriptors are
\* read one after another.  It counts every descriptor of an established socket that
\* a process of the name has had open all along, and none twice or that no such
\* process ever had, unless a pid has gone to another process after its name was
\* read.  A socket open under two numbers counts twice (countMatchingSocketFds).
CountBetween ==
  (countAt = "returned" /\ ofName) =>
    /\ Cardinality({h \in heldSince : h[3] \in estSince}) <= count
    /\ count <= Cardinality({h \in heldEver \cup (recycled \X Numbers \X Inodes) :
                               h[3] \in estEver})

\* TCPStates (network.go:262-265) adds up tables read one after the other: a
\* socket is listed at most once, as what it was, and none that stays is missed.
StatesReconcile ==
  (countAt = "returned" /\ ~ofName) =>
    /\ estSince \subseteq records["established"]
    /\ records["established"] \subseteq estEver
    /\ records["established"] \cap records["other"] = {}
=============================================================================
