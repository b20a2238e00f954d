--------------------------- MODULE HostCallsProofs ---------------------------
(***************************************************************************)
(* Proofs about the calls of the host, each for any values of its          *)
(* constants: the programs that are run, the socket counts, GetProcess,    *)
(* GetDisks and GetProtocolStats; and that types hold of them together.    *)
(***************************************************************************)
EXTENDS MCCalls, ReadingsProofs, RatesProofs, FiniteFacts, SequenceTheorems

-----------------------------------------------------------------------------
(* Programs that are run (Subprocess).                                     *)

\* What the assumption on the timers says.
LEMMA TimeoutFacts == Timeout \in Nat \ {0} /\ Linger \in Nat
BY SubprocessAssumption

-----------------------------------------------------------------------------
(* The invariant.                                                          *)

\* How long the call may have been busy with this program and those before it.
Allowance == IF tool = "service" THEN 2 * Timeout ELSE Timeout

\* Only a call that has returned has a verdict.
Unanswered == runAt # "returned" => verdict = "none"

\* Before a program starts there is nothing of an earlier one.  No time has passed
\* before the first program; at most one timeout has before the second, in which
\* the call waited for a program.
Started ==
  /\ runAt \in {"idle", "start"} => said = "nothing" /\ child = "none"
  /\ held <= time
  /\ runAt = "idle" => time = 0 /\ held = 0 /\ cancelTime = 0
  /\ runAt = "start" => time - held <= (IF tool = "service" THEN Timeout ELSE 0)
  /\ (runAt = "start" /\ ctxDone) => cancelTime = time - held

\* The timer of the program that runs fires within the allowance, if the time is
\* not counted that a descendant alone has held the call.
TimerSet ==
  child = "running" => runAt = "wait" /\ expiry - held <= Allowance

RunInv == SubprocessTypeOK /\ Unanswered /\ VerdictHeard /\ Started /\ TimerSet /\ WithinTimeouts

-----------------------------------------------------------------------------
\* Before a call has started anything it owes its caller nothing.
LEMMA RunInvInit == SubprocessInit => RunInv
<1> SUFFICES ASSUME SubprocessInit PROVE RunInv
  OBVIOUS
<1> USE TimeoutFacts DEF SubprocessInit
<1>1. SubprocessTypeOK
  BY DEF SubprocessTypeOK, Tools, Outputs, Verdicts
<1>2. Unanswered /\ VerdictHeard
  BY DEF Unanswered, VerdictHeard
<1>3. Started /\ TimerSet
  BY DEF Started, TimerSet
<1>4. WithinTimeouts
  BY DEF WithinTimeouts
<1> QED BY <1>1, <1>2, <1>3, <1>4 DEF RunInv

\* What follows from the output of one program, whether it ran or not.
LEMMA DecideKeeps ==
  ASSUME RunInv, NEW output \in Outputs, NEW failed \in BOOLEAN, Decide(output, failed),
         runAt \in {"start", "wait"}, child # "running",
         runAt = "start" => output = "nothing" /\ failed,
         runAt = "wait" => output = said /\ failed = (child # "ok"),
         UNCHANGED <<ctxDone, time, expiry, held, cancelTime>>
  PROVE  RunInv'
<1> USE TimeoutFacts DEF RunInv
<1>1. CASE \E v \in Verdicts \ {"none"} : Return(v)
  <2>1. PICK v \in Verdicts \ {"none"} : Return(v)
    BY <1>1
  <2>2. /\ runAt' = "returned" /\ verdict' = v
        /\ tool' = tool /\ installed' = installed /\ child' = child
        /\ heir' = heir /\ said' = said
        /\ ctxDone' = ctxDone /\ time' = time /\ expiry' = expiry
        /\ held' = held /\ cancelTime' = cancelTime
    BY <2>1 DEF Return, progVars
  <2>3. SubprocessTypeOK'
    BY <2>2 DEF SubprocessTypeOK
  <2>4. VerdictHeard'
    <3>1. /\ v = "running" => said = "active"
          /\ v = "stopped" => said = "words" \/ (said = "nothing" /\ child = "ok")
          /\ v \in {"ctx", "unknown"} =>
               /\ tool = "service" /\ said = "nothing" /\ child # "ok"
               /\ v = "ctx" <=> ctxDone
          /\ v = "users" => child = "ok"
      <4>1. verdict' = v
        BY <2>2
      <4>2. /\ tool = "who" => verdict' = (IF failed THEN "nobody" ELSE "users")
            /\ (tool # "who" /\ output # "nothing") =>
                 verdict' = (IF output = "active" THEN "running" ELSE "stopped")
            /\ (tool # "who" /\ output = "nothing" /\ ~failed) => verdict' = "stopped"
            /\ (tool = "service" /\ output = "nothing" /\ failed) =>
                 verdict' = (IF ctxDone THEN "ctx" ELSE "unknown")
            /\ ~(tool = "systemctl" /\ output = "nothing" /\ failed)
        BY <2>2 DEF Decide, Return, Fallback, SubprocessTypeOK, Tools
      <4>3. output = said /\ failed = (child # "ok")
        BY DEF Started
      <4> QED BY <4>1, <4>2, <4>3 DEF Outputs, SubprocessTypeOK, Tools
    <3> QED BY <3>1, <2>2 DEF VerdictHeard
  <2>5. Unanswered' /\ Started' /\ TimerSet'
    BY <2>2 DEF Unanswered, Started, TimerSet
  <2>6. WithinTimeouts'
    BY <2>2 DEF WithinTimeouts
  <2> QED BY <2>3, <2>4, <2>5, <2>6
<1>2. CASE tool = "systemctl" /\ Fallback
  <2>1. /\ runAt' = "start" /\ tool' = "service" /\ child' = "none" /\ said' = "nothing"
        /\ installed' = installed /\ heir' = heir /\ verdict' = verdict
        /\ ctxDone' = ctxDone /\ time' = time /\ expiry' = expiry
        /\ held' = held /\ cancelTime' = cancelTime
    BY <1>2 DEF Fallback
  <2>2. verdict = "none"
    BY DEF Unanswered
  <2>3. time - held <= Timeout /\ (ctxDone => time - held = cancelTime)
    BY <1>2 DEF WithinTimeouts
  <2>4. SubprocessTypeOK'
    BY <2>1 DEF SubprocessTypeOK, Tools, Outputs
  <2>5. Unanswered' /\ VerdictHeard'
    BY <2>1, <2>2 DEF Unanswered, VerdictHeard
  <2>6. Started'
    BY <2>1, <2>3 DEF Started
  <2>7. TimerSet'
    BY <2>1 DEF TimerSet
  <2>8. WithinTimeouts'
    BY <2>1, <2>3 DEF WithinTimeouts, SubprocessTypeOK
  <2> QED BY <2>4, <2>5, <2>6, <2>7, <2>8
<1> QED BY <1>1, <1>2 DEF Decide, Verdicts

-----------------------------------------------------------------------------
\* No step of the call, of a program or of the clock breaks the invariant.
LEMMA RunInvStep == RunInv /\ [SubprocessNext]_runVars => RunInv'
<1> SUFFICES ASSUME RunInv, [SubprocessNext]_runVars PROVE RunInv'
  OBVIOUS
<1> USE TimeoutFacts DEF RunInv
<1>1. CASE BeginRun
  BY <1>1 DEF BeginRun, SubprocessTypeOK, Unanswered, VerdictHeard, Started,
              TimerSet, WithinTimeouts, Allowance, Tools
<1>2. CASE Start
  BY <1>2 DEF Start, SubprocessTypeOK, Unanswered, VerdictHeard, Started,
              TimerSet, WithinTimeouts, Allowance, Tools
<1>3. CASE StartFails
  <2>1. child # "running"
    BY <1>3 DEF StartFails, TimerSet
  <2> QED BY <1>3, <2>1, DecideKeeps DEF StartFails, Outputs
<1>4. CASE Kill
  BY <1>4 DEF Kill, SubprocessTypeOK, Unanswered, VerdictHeard, Started,
              TimerSet, WithinTimeouts
<1>5. CASE OutputReturns
  <2>1. /\ child # "running" /\ said \in Outputs /\ (child # "ok") \in BOOLEAN
    BY <1>5 DEF OutputReturns, Ended, SubprocessTypeOK
  <2> QED BY <1>5, <2>1, DecideKeeps DEF OutputReturns
<1>6. CASE Speak
  <2>1. /\ runAt = "wait" /\ said' \in Outputs
        /\ runAt' = runAt /\ tool' = tool /\ installed' = installed
        /\ child' = child /\ heir' = heir /\ ctxDone' = ctxDone /\ time' = time
        /\ expiry' = expiry /\ verdict' = verdict /\ held' = held
        /\ cancelTime' = cancelTime
    BY <1>6 DEF Speak, Outputs
  <2> QED BY <2>1 DEF SubprocessTypeOK, Unanswered, VerdictHeard, Started,
                      TimerSet, WithinTimeouts, Allowance
<1>7. CASE End
  BY <1>7 DEF End, SubprocessTypeOK, Unanswered, VerdictHeard, Started,
              TimerSet, WithinTimeouts
<1>8. CASE Fork
  BY <1>8 DEF Fork, SubprocessTypeOK, Unanswered, VerdictHeard, Started,
              TimerSet, WithinTimeouts, Allowance
<1>9. CASE HeirEnds
  BY <1>9 DEF HeirEnds, SubprocessTypeOK, Unanswered, VerdictHeard, Started,
              TimerSet, WithinTimeouts, Allowance
<1>10. CASE CallerCancels
  BY <1>10 DEF CallerCancels, progVars, SubprocessTypeOK, Unanswered, VerdictHeard,
               Started, TimerSet, WithinTimeouts, Allowance
<1>11. CASE TimePasses
  <2>1. /\ runAt = "wait" /\ ~Due /\ time' = time + 1
        /\ held' = IF child = "running" THEN held ELSE held + 1
        /\ runAt' = runAt /\ tool' = tool /\ installed' = installed
        /\ child' = child /\ heir' = heir /\ said' = said /\ ctxDone' = ctxDone
        /\ expiry' = expiry /\ verdict' = verdict /\ cancelTime' = cancelTime
    BY <1>11 DEF TimePasses, progVars
  <2>2. child = "running" => ~ctxDone /\ time < expiry
    BY <2>1 DEF Due, SubprocessTypeOK
  <2>3. SubprocessTypeOK' /\ Unanswered' /\ VerdictHeard'
    BY <2>1 DEF SubprocessTypeOK, Unanswered, VerdictHeard
  <2>4. Started' /\ TimerSet'
    BY <2>1 DEF Started, TimerSet, Allowance, SubprocessTypeOK
  <2>5. WithinTimeouts'
    BY <2>1, <2>2 DEF WithinTimeouts, TimerSet, Allowance, SubprocessTypeOK
  <2> QED BY <2>3, <2>4, <2>5
<1>12. CASE UNCHANGED runVars
  BY <1>12 DEF runVars, progVars, SubprocessTypeOK, Unanswered, VerdictHeard,
               Started, TimerSet, WithinTimeouts, Allowance
<1> QED
  BY <1>1, <1>2, <1>3, <1>4, <1>5, <1>6, <1>7, <1>8, <1>9, <1>10, <1>11, <1>12
  DEF SubprocessNext, RunStep, ProgramStep

\* The invariant holds of every behaviour: what an answer, a started program
\* and a running timer imply, at every step of isRunning, the fallback and who.
THEOREM RunInvHolds == SubprocessSpec => []RunInv
BY RunInvInit, RunInvStep, PTL DEF SubprocessSpec

\* Every variable of a call that runs a program keeps its type.
THEOREM ProgramTypeCorrect == SubprocessSpec => []SubprocessTypeOK
BY RunInvHolds, PTL DEF RunInv

\* An answer of IsServiceRunningWithContext is what the program asked last
\* printed, or its ending well without a word, and an error that neither gave
\* one, however programs, kills and the caller's context interleave.
THEOREM AnswerHeard == SubprocessSpec => []VerdictHeard
BY RunInvHolds, PTL DEF RunInv

\* A call is kept no longer than exec.run's timers allow, apart from the time a
\* program's descendant holds its stdout, and not at all after its context is
\* done.
THEOREM TimeoutsKept == SubprocessSpec => []WithinTimeouts
BY RunInvHolds, PTL DEF RunInv

-----------------------------------------------------------------------------
(* Socket counts (Sockets).                                                *)

\* No socket is of both tables.
LEMMA TablesApart == Sockets4 \cap Sockets6 = {}
BY SocketAssumption

-----------------------------------------------------------------------------
(* The invariant.                                                          *)

\* The states a socket is listed by are those of the tables, and the history
\* brackets what is established now.
Bracketed ==
  /\ records \in [Listed -> SUBSET Inodes]
  /\ countAt # "idle" => /\ estSince \subseteq InState("established")
                         /\ InState("established") \subseteq estEver
  /\ countAt = "idle" => estSince = {}

\* What a table of the sockets S says of them, however long ago it was read.
Right(S) ==
  /\ estSince \cap S \subseteq records["established"]
  /\ records["established"] \subseteq estEver
  /\ records["established"] \cap records["other"] = {}
  /\ records["established"] \cup records["other"] \subseteq S

\* The tables read so far.
TablesRead ==
  /\ countAt \in {"idle", "comm", "tcp"} => records = [st \in Listed |-> {}]
  /\ countAt = "tcp6" => Right(Sockets4)
  /\ countAt \in {"fds", "links"} \/ (countAt = "returned" /\ ~ofName) => Right(Inodes)
  /\ countAt \in {"comm", "fds", "links"} => ofName

TablesInv == Bracketed /\ TablesRead

\* Before a count nothing has been read.
LEMMA TablesInvInit == SocketInit => TablesInv
BY DEF SocketInit, TablesInv, Bracketed, TablesRead, Listed

\* One more table: its sockets are listed as what they are, and those that have
\* been established since the call began are among them.
LEMMA TableRead ==
  ASSUME NEW S, NEW T, S \subseteq Inodes, T \subseteq Inodes, S \cap T = {},
         Bracketed, Right(S), ReadTable(T), countAt # "idle",
         UNCHANGED <<state, estSince, estEver>>
  PROVE  Right(S \cup T)' /\ records' \in [Listed -> SUBSET Inodes]
<1>1. /\ records' = [st \in Listed |-> records[st] \cup (InState(st) \cap T)]
      /\ records'["established"] = records["established"] \cup (InState("established") \cap T)
      /\ records'["other"] = records["other"] \cup (InState("other") \cap T)
  BY DEF ReadTable, Listed
<1>2. InState("established") \cap InState("other") = {}
  BY DEF InState
<1>3. records["established"] \subseteq S /\ records["other"] \subseteq S
  BY DEF Right
<1>4. estSince' \cap (S \cup T) \subseteq records'["established"]
  BY <1>1 DEF Right, Bracketed
<1>5. records'["established"] \subseteq estEver'
  BY <1>1 DEF Right, Bracketed
<1>6. records'["established"] \cap records'["other"] = {}
  BY <1>1, <1>2, <1>3 DEF Right
<1>7. records'["established"] \cup records'["other"] \subseteq S \cup T
  BY <1>1, <1>3
<1>8. records' \in [Listed -> SUBSET Inodes]
  BY <1>1 DEF Bracketed, Listed, InState
<1> QED BY <1>4, <1>5, <1>6, <1>7, <1>8 DEF Right

\* The history of what is established only narrows and widens.
LEMMA ChangeKeeps == TablesInv /\ SocketsChange => TablesInv'
<1> SUFFICES ASSUME TablesInv, SocketsChange PROVE TablesInv'
  OBVIOUS
<1>1. /\ estSince' = estSince \cap InState("established")'
      /\ estEver' = estEver \cup InState("established")'
      /\ countAt # "idle"
      /\ UNCHANGED <<countAt, ofName, records>>
  BY DEF SocketsChange, tallyVars
<1>2. Bracketed'
  BY <1>1 DEF TablesInv, Bracketed
<1>3. ASSUME NEW S, Right(S) PROVE Right(S)'
  BY <1>1, <1>3 DEF Right
<1>4. TablesRead'
  BY <1>1, <1>3 DEF TablesInv, TablesRead
<1> QED BY <1>2, <1>4 DEF TablesInv

\* No step of the count, of a process or of a socket breaks the invariant.
LEMMA TablesInvStep == TablesInv /\ [CountNext]_countVars => TablesInv'
<1> SUFFICES ASSUME TablesInv, [CountNext]_countVars PROVE TablesInv'
  OBVIOUS
<1>1. CASE BeginCount
  <2>1. /\ countAt = "idle" /\ countAt' \in {"comm", "tcp"}
        /\ countAt' = "comm" => ofName'
        /\ records' = records /\ state' = state
        /\ estSince' = InState("established") /\ estEver' = InState("established")
    BY <1>1 DEF BeginCount, socketVars
  <2>2. Bracketed'
    BY <2>1 DEF TablesInv, Bracketed, InState
  <2>3. TablesRead'
    BY <2>1 DEF TablesInv, TablesRead
  <2> QED BY <2>2, <2>3 DEF TablesInv
<1>2. ASSUME UNCHANGED <<records, ofName, state, estSince, estEver>>,
             /\ countAt \in {"comm", "fds", "links"}
             /\ countAt' \in {"comm", "fds", "links", "returned"}
                \/ (countAt = "comm" /\ countAt' = "tcp")
             /\ countAt' = "comm" => countAt = "comm"
             /\ countAt' \in {"fds", "links"} => countAt \in {"fds", "links"}
      PROVE  TablesInv'
  BY <1>2 DEF TablesInv, Bracketed, TablesRead, InState, Right
<1>3. CASE CountStep
  <2>1. UNCHANGED <<ofName, state, estSince, estEver>>
    BY <1>3 DEF CountStep, socketVars, historyVars
  <2>2. CASE NamesRead
    BY <1>2, <2>1, <2>2 DEF NamesRead, tallyVars
  <2>3. CASE ReadTCP
    <3>1. countAt = "tcp" /\ countAt' = "tcp6" /\ ReadTable(Sockets4)
      BY <2>3 DEF ReadTCP
    <3>2. Right({})
      BY <3>1 DEF TablesInv, TablesRead, Right, Listed
    <3>3. Right({} \cup Sockets4)' /\ records' \in [Listed -> SUBSET Inodes]
      BY <2>1, <3>1, <3>2, TableRead, {} \cap Sockets4 = {} DEF TablesInv, Inodes
    <3>4. {} \cup Sockets4 = Sockets4
      OBVIOUS
    <3>5. Right(Sockets4)'
      BY <3>3, <3>4 DEF Right
    <3>6. Bracketed'
      BY <2>1, <3>1, <3>3 DEF TablesInv, Bracketed, InState
    <3>7. TablesRead'
      BY <3>1, <3>5 DEF TablesRead
    <3> QED BY <3>6, <3>7 DEF TablesInv
  <2>4. CASE ReadTCP6
    <3>1. /\ countAt = "tcp6" /\ ReadTable(Sockets6)
          /\ countAt' \in {"fds", "returned"}
          /\ countAt' = "fds" => ofName
      BY <2>4 DEF ReadTCP6
    <3>2. Right(Sockets4)
      BY <3>1 DEF TablesInv, TablesRead
    <3>3. Right(Sockets4 \cup Sockets6)' /\ records' \in [Listed -> SUBSET Inodes]
      BY <2>1, <3>1, <3>2, TableRead, TablesApart DEF TablesInv, Inodes
    <3>4. Right(Inodes)'
      BY <3>3 DEF Inodes
    <3>5. Bracketed'
      BY <2>1, <3>1, <3>3 DEF TablesInv, Bracketed, InState
    <3>6. TablesRead'
      BY <2>1, <3>1, <3>4 DEF TablesRead
    <3> QED BY <3>5, <3>6 DEF TablesInv
  <2>5. CASE LinksRead
    BY <1>2, <2>1, <2>5 DEF LinksRead, tallyVars
  <2>6. CASE AllCounted
    BY <1>2, <2>1, <2>6 DEF AllCounted, tallyVars
  <2>7. ASSUME NEW p \in Procs, ReadComm(p) \/ ReadFdDir(p) PROVE TablesInv'
    BY <1>2, <2>1, <2>7 DEF ReadComm, ReadFdDir
  <2>8. ASSUME NEW h \in links, ReadLink(h) PROVE TablesInv'
    BY <1>2, <2>1, <2>8 DEF ReadLink
  <2> QED BY <1>3, <2>2, <2>3, <2>4, <2>5, <2>6, <2>7, <2>8 DEF CountStep
<1>4. CASE SocketsChange
  BY <1>4, ChangeKeeps
<1>5. CASE UNCHANGED countVars
  BY <1>5 DEF countVars, socketVars, tallyVars, historyVars, TablesInv, Bracketed,
              TablesRead, Right, InState
<1> QED BY <1>1, <1>3, <1>4, <1>5 DEF CountNext

\* What was read of the tables stays right while sockets change.
THEOREM TablesInvHolds == CountSpec => []TablesInv
BY TablesInvInit, TablesInvStep, PTL DEF CountSpec

\* TCPStates lists a socket once, as what it was when its table was read, and
\* misses none that was established throughout; for any sockets and processes.
THEOREM TablesReconcile == CountSpec => []StatesReconcile
<1>1. TablesInv => StatesReconcile
  BY DEF TablesInv, TablesRead, Right, Bracketed, StatesReconcile, Inodes, InState
<1> QED BY <1>1, TablesInvHolds, PTL

-----------------------------------------------------------------------------
(* The count for a process name.                                           *)

\* What is there: processes, their names, their open files and the sockets.
World ==
  /\ running \subseteq Procs /\ named \subseteq running
  /\ fds \subseteq running \X Numbers \X Inodes /\ OneEach
  /\ state \in [Inodes -> States]
  /\ \A h \in fds : state[h[3]] # "new"

Events ==
  \/ \E p \in Procs : \/ ExitProcess(p) \/ NewProcess(p)
  \/ \E p \in Procs, n \in Numbers : \/ \E s \in Inodes : Connect(p, n, s)
                                     \/ \E h \in fds : PassOn(h, p, n)
  \/ \E s \in Inodes : Shut(s)
  \/ \E h \in fds : CloseSocket(h)

\* Who gives its sockets up: the rest is as it was, and no socket is new again.
LEMMA ReleaseKeeps ==
  ASSUME World, NEW H, NEW kept \in SUBSET fds, Release(H, kept)
  PROVE  /\ fds' = kept /\ OneEach' /\ state' \in [Inodes -> States]
         /\ \A s \in Inodes : state'[s] = "new" => state[s] = "new"
<1> DEFINE free == {s \in Inodes : /\ \E h \in H : h[3] = s
                                   /\ ~\E h \in kept : h[3] = s}
<1>1. /\ fds' = kept
      /\ \E last \in {"other", "destroyed"} :
           state' = [s \in Inodes |-> IF s \in free THEN last ELSE state[s]]
  BY DEF Release
<1> HIDE DEF free
<1>2. OneEach'
  BY <1>1 DEF World, OneEach
<1> QED BY <1>1, <1>2 DEF World, States, Listed

\* A descriptor is three: whose it is, its number, and its socket.
LEMMA Triples ==
  ASSUME World, NEW h \in fds
  PROVE  /\ h[1] \in running /\ h[1] \in Procs /\ h[2] \in Numbers /\ h[3] \in Inodes
         /\ h = <<h[1], h[2], h[3]>>
BY DEF World

\* A descriptor that is opened has a number of its own.
LEMMA OpensOne ==
  ASSUME World, NEW p \in Procs, NEW n \in Numbers, NEW s \in Inodes, Opens(p, n, s)
  PROVE  /\ p \in running /\ fds' = fds \cup {<<p, n, s>>} /\ OneEach'
         /\ fds' \subseteq running \X Numbers \X Inodes
<1>1. /\ p \in running /\ fds' = fds \cup {<<p, n, s>>}
      /\ \A x \in Inodes : <<p, n, x>> \notin fds
  BY DEF Opens, Target
<1>2. \A h \in fds : ~(h[1] = p /\ h[2] = n)
  BY <1>1, Triples
<1>3. OneEach'
  BY <1>1, <1>2 DEF World, OneEach
<1> QED BY <1>1, <1>3 DEF World

\* World stays, and no process loses the name it has while it runs.
LEMMA WorldKeeps ==
  ASSUME World, Events
  PROVE  World' /\ \A p \in named : p \in named' \/ p \notin running'
<1> USE DEF World
<1>1. ASSUME NEW p \in Procs, ExitProcess(p)
      PROVE  World' /\ \A q \in named : q \in named' \/ q \notin running'
  <2> DEFINE H == {h \in fds : h[1] = p}
  <2>1. /\ running' = running \ {p} /\ named' = named \ {p} /\ Release(H, fds \ H)
    BY <1>1 DEF ExitProcess
  <2>2. /\ fds' = fds \ H /\ OneEach' /\ state' \in [Inodes -> States]
        /\ \A s \in Inodes : state'[s] = "new" => state[s] = "new"
    BY <2>1, ReleaseKeeps
  <2>3. fds' \subseteq running' \X Numbers \X Inodes
    <3>1. ASSUME NEW h \in fds' PROVE h \in running' \X Numbers \X Inodes
      <4>1. h \in fds /\ h[1] # p
        BY <2>2, <3>1
      <4> QED BY <2>1, <4>1, Triples
    <3> QED BY <3>1
  <2>4. \A h \in fds' : h \in fds /\ h[3] \in Inodes
    BY <2>2, Triples
  <2> QED BY <2>1, <2>2, <2>3, <2>4
<1>2. ASSUME NEW p \in Procs, NewProcess(p)
      PROVE  World' /\ \A q \in named : q \in named' \/ q \notin running'
  <2>1. /\ running' = running \cup {p} /\ named' \in {named, named \cup {p}}
        /\ fds' = fds /\ state' = state
    BY <1>2 DEF NewProcess
  <2>2. fds' \subseteq running' \X Numbers \X Inodes
    BY <2>1
  <2> QED BY <2>1, <2>2 DEF OneEach
<1>3. ASSUME NEW p \in Procs, NEW n \in Numbers, NEW s \in Inodes, Connect(p, n, s)
      PROVE  World' /\ \A q \in named : q \in named' \/ q \notin running'
  <2>1. /\ fds' = fds \cup {<<p, n, s>>} /\ OneEach'
        /\ fds' \subseteq running \X Numbers \X Inodes
        /\ state' = [state EXCEPT ![s] = "established"]
        /\ running' = running /\ named' = named
    BY <1>3, OpensOne DEF Connect
  <2>2. state' \in [Inodes -> States] /\ \A x \in Inodes : state'[x] = "new" => state[x] = "new"
    BY <2>1 DEF States, Listed
  <2>3. state'[s] # "new"
    BY <2>1
  <2>4. \A h \in fds' : state'[h[3]] # "new"
    BY <2>1, <2>2, <2>3, Triples
  <2> QED BY <2>1, <2>2, <2>4
<1>4. ASSUME NEW p \in Procs, NEW n \in Numbers, NEW h \in fds, PassOn(h, p, n)
      PROVE  World' /\ \A q \in named : q \in named' \/ q \notin running'
  <2>1. h[3] \in Inodes
    BY Triples
  <2>2. /\ fds' = fds \cup {<<p, n, h[3]>>} /\ OneEach'
        /\ fds' \subseteq running \X Numbers \X Inodes
        /\ running' = running /\ named' = named /\ state' = state
    BY <1>4, <2>1, OpensOne DEF PassOn
  <2> QED BY <2>2
<1>5. ASSUME NEW s \in Inodes, Shut(s)
      PROVE  World' /\ \A q \in named : q \in named' \/ q \notin running'
  <2>1. /\ state' = [state EXCEPT ![s] = "other"]
        /\ running' = running /\ named' = named /\ fds' = fds
    BY <1>5 DEF Shut
  <2>2. state' \in [Inodes -> States] /\ \A h \in fds' : state'[h[3]] # "new"
    BY <2>1, Triples DEF States, Listed
  <2> QED BY <2>1, <2>2 DEF OneEach
<1>6. ASSUME NEW h \in fds, CloseSocket(h)
      PROVE  World' /\ \A q \in named : q \in named' \/ q \notin running'
  <2>1. Release({h}, fds \ {h}) /\ running' = running /\ named' = named
    BY <1>6 DEF CloseSocket
  <2>2. /\ fds' = fds \ {h} /\ OneEach' /\ state' \in [Inodes -> States]
        /\ \A s \in Inodes : state'[s] = "new" => state[s] = "new"
    BY <2>1, ReleaseKeeps
  <2>3. \A k \in fds' : k \in fds /\ k[3] \in Inodes
    BY <2>2, Triples
  <2> QED BY <2>1, <2>2, <2>3
<1> QED BY <1>1, <1>2, <1>3, <1>4, <1>5, <1>6 DEF Events

\* Types, of which the histories bound what a count can be.
CountTypes ==
  /\ World
  /\ toRead \subseteq Procs /\ matches \subseteq Procs
  /\ links \subseteq Procs \X Numbers /\ count \in Nat
  /\ recycled \subseteq Procs
  /\ heldSince \subseteq heldEver /\ heldEver \subseteq Descriptors

\* The first state.
LEMMA CountTypesInit == SocketInit => CountTypes
<1> SUFFICES ASSUME SocketInit PROVE CountTypes
  OBVIOUS
<1>1. World
  <2>1. /\ fds \in SUBSET (Procs \X Numbers \X (Inodes \ InState("new"))) /\ OneEach
        /\ running = Procs /\ named \in SUBSET Procs
        /\ state \in [Inodes -> Listed \cup {"new"}]
    BY DEF SocketInit
  <2>2. \A h \in fds : h[3] \in Inodes /\ state[h[3]] # "new"
    BY <2>1 DEF InState
  <2>3. fds \subseteq running \X Numbers \X Inodes
    BY <2>1
  <2> QED BY <2>1, <2>2, <2>3 DEF World, States, Listed
<1> QED BY <1>1 DEF SocketInit, CountTypes

\* Every step preserves the types.
LEMMA CountTypesStep == CountTypes /\ [CountNext]_countVars => CountTypes'
<1> SUFFICES ASSUME CountTypes, [CountNext]_countVars PROVE CountTypes'
  OBVIOUS
<1> USE DEF CountTypes
<1>1. CASE BeginCount
  <2>1. Held \subseteq Descriptors
    BY Triples DEF Held, Descriptors
  <2>2. toRead' \subseteq Procs
    BY <1>1 DEF BeginCount, World
  <2> QED BY <1>1, <2>1, <2>2 DEF BeginCount, socketVars, World, OneEach
<1>2. CASE CountStep
  <2>0. World' /\ UNCHANGED <<recycled, heldSince, heldEver>>
    BY <1>2 DEF CountStep, socketVars, historyVars, World, OneEach
  <2>1. CASE NamesRead \/ LinksRead \/ AllCounted
    BY <2>0, <2>1 DEF NamesRead, LinksRead, AllCounted, tallyVars
  <2>2. CASE ReadTCP
    BY <2>0, <2>2 DEF ReadTCP
  <2>3. CASE ReadTCP6
    BY <2>0, <2>3 DEF ReadTCP6
  <2>4. ASSUME NEW p \in Procs, ReadComm(p) PROVE CountTypes'
    <3>1. toRead' \subseteq Procs /\ matches' \subseteq Procs
      BY <2>4 DEF ReadComm
    <3> QED BY <2>0, <2>4, <3>1 DEF ReadComm
  <2>5. ASSUME NEW p \in Procs, ReadFdDir(p) PROVE CountTypes'
    <3>1. links' \subseteq Procs \X Numbers
      BY <2>5, Triples DEF ReadFdDir
    <3> QED BY <2>0, <2>5, <3>1 DEF ReadFdDir
  <2>6. ASSUME NEW h \in links, ReadLink(h) PROVE CountTypes'
    <3>1. links' \subseteq links /\ count' \in Nat
      BY <2>6 DEF ReadLink
    <3> QED BY <2>0, <2>6, <3>1 DEF ReadLink
  <2> QED BY <1>2, <2>1, <2>2, <2>3, <2>4, <2>5, <2>6 DEF CountStep
<1>3. CASE SocketsChange
  <2>1. World'
    BY <1>3, WorldKeeps DEF SocketsChange, Events
  <2>2. recycled' \subseteq Procs /\ heldEver' = heldEver \cup Held'
        /\ heldSince' = heldSince \cap Held'
        /\ UNCHANGED <<toRead, matches, links, count>>
    BY <1>3, <2>1 DEF SocketsChange, tallyVars, World
  <2>3. Held' \subseteq Descriptors
    BY <2>1 DEF Held, World, Descriptors
  <2> QED BY <2>1, <2>2, <2>3
<1>4. CASE UNCHANGED countVars
  BY <1>4 DEF countVars, socketVars, tallyVars, historyVars, World, OneEach
<1> QED BY <1>1, <1>2, <1>3, <1>4 DEF CountNext

\* The sizes of subsets of a finite set.
LEMMA Sizes ==
  ASSUME NEW T, IsFiniteSet(T), NEW S \in SUBSET T
  PROVE  /\ Cardinality(S) \in Nat /\ Cardinality(T) \in Nat
         /\ Cardinality(S) <= Cardinality(T)
         /\ \A x \in T : x \notin S => Cardinality(S) + 1 <= Cardinality(T)
         /\ \A x : T \subseteq S \cup {x} => Cardinality(T) <= Cardinality(S) + 1
<1>1. /\ IsFiniteSet(S) /\ Cardinality(S) \in Nat /\ Cardinality(T) \in Nat
      /\ Cardinality(S) <= Cardinality(T)
  BY FS_Subset, FS_CardinalityType
<1>2. ASSUME NEW x \in T, x \notin S
      PROVE  Cardinality(S) + 1 <= Cardinality(T)
  <2>1. Cardinality(S \cup {x}) = Cardinality(S) + 1
    BY <1>1, <1>2, FS_AddElement
  <2>2. Cardinality(S \cup {x}) <= Cardinality(T)
    BY <1>2, FS_Subset
  <2> QED BY <2>1, <2>2
<1>3. ASSUME NEW x, T \subseteq S \cup {x}
      PROVE  Cardinality(T) <= Cardinality(S) + 1
  <2>1. /\ IsFiniteSet(S \cup {x})
        /\ Cardinality(S \cup {x}) \in {Cardinality(S), Cardinality(S) + 1}
    BY <1>1, FS_AddElement
  <2>2. Cardinality(T) <= Cardinality(S \cup {x})
    BY <1>3, <2>1, FS_Subset
  <2> QED BY <1>1, <2>1, <2>2
<1> QED BY <1>1, <1>2, <1>3

\* Who of the name may have held what, and of the holdings H of the sockets E
\* those that the count has passed.
Ever == heldEver \cup (recycled \X Numbers \X Inodes)
Passed(H, E) ==
  {h \in H : h[3] \in E /\ h[1] \notin toRead /\ <<h[1], h[2]>> \notin links}

\* All of that is finite.
LEMMA HoldingsFinite ==
  ASSUME NEW S, S \subseteq Descriptors
  PROVE  IsFiniteSet(S)
<1>1. IsFiniteSet(Procs) /\ IsFiniteSet(Numbers) /\ IsFiniteSet(Inodes)
  BY SocketAssumption, FS_Union DEF Inodes
<1> DEFINE Nested == Procs \X (Numbers \X Inodes)
           f == [h \in Descriptors |-> <<h[1], <<h[2], h[3]>>>>]
<1>2. IsFiniteSet(Nested)
  BY <1>1, FS_Product
<1>3. f \in Injection(Descriptors, Nested)
  <2>1. \A h \in Descriptors : f[h] \in Nested
    BY DEF Descriptors
  <2>2. ASSUME NEW h \in Descriptors, NEW k \in Descriptors, f[h] = f[k]
        PROVE  h = k
    <3>1. h[1] = k[1] /\ h[2] = k[2] /\ h[3] = k[3]
      BY <2>2
    <3> QED BY <3>1 DEF Descriptors
  <2> QED BY <2>1, <2>2 DEF Injection, IsInjective
<1>4. IsFiniteSet(Descriptors)
  <2> HIDE DEF Nested, f
  <2> QED BY <1>2, <1>3, FS_Injection
<1> QED BY <1>4, FS_Subset

\* What may have been held is of that kind.
LEMMA EverHeld == CountTypes => heldSince \subseteq Ever /\ Ever \subseteq Descriptors
BY DEF CountTypes, Ever, Descriptors

\* What the call knows of the processes: those of the name that it will read,
\* or has; a match is of the name still, or gone, or its pid is another's.
NamesInv ==
  /\ countAt = "idle" => toRead = {} /\ matches = {} /\ links = {} /\ count = 0
                         /\ heldSince = {}
  /\ countAt # "idle" => Held \subseteq heldEver /\ heldSince \subseteq Held
  /\ \A p \in matches : p \in named \/ p \notin running \/ p \in recycled
  /\ countAt = "comm" => \A h \in heldSince : h[1] \in toRead \cup matches
  /\ countAt \in {"tcp", "tcp6"} /\ ofName => \A h \in heldSince : h[1] \in matches
  /\ countAt \in {"comm", "tcp", "tcp6"} => links = {} /\ count = 0
  /\ countAt = "fds" => links = {}
  /\ countAt \in {"fds", "links"} =>
       toRead \subseteq matches /\ \A h \in links : h[1] \in matches \ toRead

\* The count is between what was held throughout and what was held ever, of the
\* files the count has passed; in the end, of all.
CountWithin ==
  /\ countAt \in {"fds", "links"} =>
       /\ Cardinality(Passed(heldSince, estSince)) <= count
       /\ count <= Cardinality(Passed(Ever, estEver))
  /\ CountBetween

CountInv == TablesInv /\ CountTypes /\ NamesInv /\ CountWithin

\* The first state.
LEMMA CountInvInit == SocketInit => CountInv
<1>1. SocketInit => TablesInv /\ CountTypes
  BY TablesInvInit, CountTypesInit
<1> QED BY <1>1 DEF CountInv, SocketInit, NamesInv, CountWithin, CountBetween

\* Processes and sockets change: less has been held throughout, more has ever.
LEMMA NamesChange ==
  ASSUME CountTypes, NamesInv, SocketsChange, World'
  PROVE  NamesInv'
<1>1. /\ countAt # "idle" /\ UNCHANGED <<countAt, ofName, toRead, matches, links, count>>
      /\ recycled' = recycled \cup (running' \ running)
      /\ heldSince' = heldSince \cap Held' /\ heldEver' = heldEver \cup Held'
  BY DEF SocketsChange, tallyVars
<1>2. \A p \in named : p \in named' \/ p \notin running'
  BY WorldKeeps DEF SocketsChange, Events, CountTypes
<1>3. ASSUME NEW p \in matches PROVE p \in named' \/ p \notin running' \/ p \in recycled'
  BY <1>1, <1>2 DEF NamesInv
<1> QED BY <1>1, <1>3 DEF NamesInv

\* That moves both bounds away from the count.
LEMMA BetweenChange ==
  ASSUME CountTypes, CountTypes', CountWithin, SocketsChange
  PROVE  CountWithin'
<1>1. /\ countAt # "returned" /\ UNCHANGED <<countAt, ofName, toRead, matches, links, count>>
      /\ recycled \subseteq recycled'
      /\ heldSince' \subseteq heldSince /\ heldEver \subseteq heldEver'
      /\ estSince' \subseteq estSince /\ estEver \subseteq estEver'
  BY DEF SocketsChange, tallyVars
<1> SUFFICES ASSUME countAt \in {"fds", "links"}
             PROVE  /\ Cardinality(Passed(heldSince, estSince)') <= count
                    /\ count <= Cardinality(Passed(Ever, estEver)')
  BY <1>1 DEF CountWithin, CountBetween
<1> DEFINE L == Passed(heldSince, estSince)
           M == Passed(heldSince, estSince)'
           U == Passed(Ever, estEver)
           V == Passed(Ever, estEver)'
<1>2. M \subseteq L /\ U \subseteq V
  BY <1>1 DEF Passed, Ever
<1>3. IsFiniteSet(L) /\ IsFiniteSet(V)
  <2>1. L \subseteq Descriptors
    BY EverHeld DEF Passed
  <2>2. V \subseteq Descriptors
    BY DEF Passed, Ever, CountTypes, Descriptors
  <2> QED BY <2>1, <2>2, HoldingsFinite
<1> HIDE DEF L, M, U, V
<1>4. /\ Cardinality(M) <= Cardinality(L) /\ Cardinality(U) <= Cardinality(V)
      /\ Cardinality(M) \in Nat /\ Cardinality(L) \in Nat
      /\ Cardinality(U) \in Nat /\ Cardinality(V) \in Nat
  BY <1>2, <1>3, Sizes
<1>5. Cardinality(L) <= count /\ count <= Cardinality(U) /\ count \in Nat
  BY DEF CountWithin, CountTypes, L, U
<1> QED BY <1>4, <1>5 DEF M, V

\* The names and the tables are read; nothing has been counted.
LEMMA CountReads ==
  ASSUME CountInv, TablesInv', CountTypes', countAt \in {"comm", "tcp", "tcp6"},
         UNCHANGED <<ofName, socketVars, historyVars>>,
         NamesRead \/ ReadTCP \/ ReadTCP6 \/ \E p \in Procs : ReadComm(p)
  PROVE  NamesInv' /\ CountWithin'
<1> USE DEF CountInv
<1>0. /\ links = {} /\ count = 0 /\ Held' = Held /\ heldSince \subseteq Held
      /\ UNCHANGED <<ofName, running, named, fds, state, recycled, heldSince, heldEver,
                     estSince, estEver>>
  BY DEF socketVars, historyVars, NamesInv, Held
<1>1. CASE NamesRead
  <2>1. /\ countAt = "comm" /\ toRead = {} /\ UNCHANGED <<toRead, matches, links, count>>
        /\ countAt' = IF matches = {} THEN "returned" ELSE "tcp"
    BY <1>1 DEF NamesRead, tallyVars
  <2>2. NamesInv'
    BY <1>0, <2>1 DEF NamesInv
  <2>3. ASSUME matches = {} PROVE CountBetween'
    <3>1. heldSince = {}
      BY <2>1, <2>3 DEF NamesInv
    <3> DEFINE L == {h \in heldSince : h[3] \in estSince}
               U == {h \in Ever : h[3] \in estEver}
    <3>2. L = {} /\ Cardinality(L) = 0
      BY <3>1, FS_EmptySet
    <3>3. Cardinality(U) \in Nat
      <4>1. U \subseteq Descriptors
        BY EverHeld
      <4> QED BY <4>1, HoldingsFinite, FS_CardinalityType
    <3>4. Cardinality(L) <= count' /\ count' <= Cardinality(U)
      BY <1>0, <2>1, <3>2, <3>3
    <3>5. CountBetween' <=> ((countAt' = "returned" /\ ofName') =>
                               Cardinality(L) <= count' /\ count' <= Cardinality(U))
      BY <1>0 DEF CountBetween, Ever
    <3> QED BY <3>4, <3>5
  <2> QED BY <1>0, <2>1, <2>2, <2>3 DEF CountWithin, CountBetween
<1>2. CASE ReadTCP
  <2>1. /\ countAt = "tcp" /\ countAt' = "tcp6" /\ UNCHANGED <<toRead, matches, links, count>>
    BY <1>2 DEF ReadTCP
  <2> QED BY <1>0, <2>1 DEF NamesInv, CountWithin, CountBetween
<1>3. ASSUME NEW p \in Procs, ReadComm(p) PROVE NamesInv' /\ CountWithin'
  <2>1. /\ countAt = "comm" /\ countAt' = "comm" /\ toRead' = toRead \ {p}
        /\ matches' = IF p \in named THEN matches \cup {p} ELSE matches
        /\ UNCHANGED <<links, count>>
    BY <1>3 DEF ReadComm
  <2>2. \A h \in heldSince : h[1] \in toRead' \cup matches'
    <3>1. \A h \in heldSince : h[1] \in named /\ h[1] \in toRead \cup matches
      BY <1>0, <2>1 DEF Held, NamesInv
    <3> QED BY <2>1, <3>1
  <2>3. NamesInv'
    BY <1>0, <2>1, <2>2 DEF NamesInv
  <2> QED BY <2>1, <2>3 DEF CountWithin, CountBetween
<1>4. CASE ReadTCP6
  <2>1. /\ countAt = "tcp6" /\ toRead' = IF ofName THEN matches ELSE {}
        /\ countAt' = IF ofName /\ records'["established"] # {} THEN "fds" ELSE "returned"
        /\ UNCHANGED <<matches, links, count>>
    BY <1>4 DEF ReadTCP6
  <2>2. NamesInv'
    BY <1>0, <2>1 DEF NamesInv
  <2>3. CASE ~ofName
    BY <1>0, <2>1, <2>2, <2>3 DEF CountWithin, CountBetween
  <2>4. CASE ofName /\ records'["established"] # {}
    <3> DEFINE L == Passed(heldSince, estSince)'
               U == Passed(Ever, estEver)'
    <3>1. L = {}
      BY <1>0, <2>1, <2>4 DEF NamesInv, Passed
    <3>2. U \subseteq Descriptors
      BY DEF Passed, Ever, CountTypes, Descriptors
    <3>3. Cardinality(L) = 0 /\ Cardinality(U) \in Nat
      BY <3>1, <3>2, HoldingsFinite, FS_CardinalityType, FS_EmptySet
    <3> HIDE DEF L, U
    <3>4. Cardinality(L) <= count' /\ count' <= Cardinality(U)
      BY <1>0, <2>1, <3>3
    <3>5. countAt' = "fds"
      BY <2>1, <2>4
    <3> QED BY <2>2, <3>4, <3>5 DEF CountWithin, CountBetween, L, U
  <2>5. CASE ofName /\ records'["established"] = {}
    <3>1. Right(Inodes)'
      <4>1. Right(Sockets4) /\ Bracketed /\ ReadTable(Sockets6)
        BY <1>4, <2>1 DEF TablesInv, TablesRead, ReadTCP6
      <4>2. Right(Sockets4 \cup Sockets6)'
        BY <1>0, <2>1, <4>1, TableRead, TablesApart DEF Inodes
      <4> QED BY <4>2 DEF Inodes
    <3>2. estSince = {}
      <4>1. estSince \cap Inodes \subseteq records'["established"]
        BY <1>0, <3>1 DEF Right
      <4>2. estSince \subseteq Inodes
        BY <2>1 DEF TablesInv, Bracketed, InState
      <4> QED BY <2>5, <4>1, <4>2
    <3> DEFINE L == {h \in heldSince : h[3] \in estSince}
               U == {h \in Ever : h[3] \in estEver}
    <3>3. L = {} /\ Cardinality(L) = 0
      BY <3>2, FS_EmptySet
    <3>4. Cardinality(U) \in Nat
      <4>1. U \subseteq Descriptors
        BY EverHeld
      <4> QED BY <4>1, HoldingsFinite, FS_CardinalityType
    <3>5. Cardinality(L) <= count' /\ count' <= Cardinality(U)
      BY <1>0, <2>1, <3>3, <3>4
    <3>6. CountBetween' <=> ((countAt' = "returned" /\ ofName') =>
                               Cardinality(L) <= count' /\ count' <= Cardinality(U))
      BY <1>0 DEF CountBetween, Ever
    <3> QED BY <2>1, <2>2, <2>5, <3>5, <3>6 DEF CountWithin
  <2> QED BY <2>2, <2>3, <2>4, <2>5
<1> QED BY <1>1, <1>2, <1>3, <1>4

\* A process' open files are listed and looked up one by one; each is passed once.
LEMMA CountPasses ==
  ASSUME CountInv, CountTypes', countAt \in {"fds", "links"},
         UNCHANGED <<ofName, socketVars, historyVars>>,
         \/ LinksRead \/ AllCounted
         \/ \E p \in Procs : ReadFdDir(p)
         \/ \E h \in links : ReadLink(h)
  PROVE  NamesInv' /\ CountWithin'
<1> USE DEF CountInv
<1> DEFINE L == Passed(heldSince, estSince)
           U == Passed(Ever, estEver)
           M == Passed(heldSince, estSince)'
           V == Passed(Ever, estEver)'
<1>0. /\ Held' = Held /\ heldSince \subseteq Held /\ Held \subseteq heldEver
      /\ UNCHANGED <<ofName, running, named, fds, state, recycled, heldSince, heldEver,
                     estSince, estEver>>
      /\ ofName /\ Ever' = Ever
      /\ toRead \subseteq matches /\ \A h \in links : h[1] \in matches \ toRead
      /\ Right(Inodes)
  BY DEF socketVars, historyVars, NamesInv, Held, TablesInv, TablesRead, Ever
<1>1. /\ L \subseteq Descriptors /\ U \subseteq Descriptors
      /\ M \subseteq Descriptors /\ V \subseteq Descriptors
  <2>1. L \subseteq Descriptors /\ U \subseteq Descriptors
    BY EverHeld DEF Passed
  <2>2. M \subseteq Descriptors /\ V \subseteq Descriptors
    BY DEF Passed, Ever, CountTypes, Descriptors
  <2> QED BY <2>1, <2>2
<1>2. /\ IsFiniteSet(L) /\ IsFiniteSet(U) /\ IsFiniteSet(M) /\ IsFiniteSet(V)
      /\ Cardinality(L) \in Nat /\ Cardinality(U) \in Nat
      /\ Cardinality(M) \in Nat /\ Cardinality(V) \in Nat
  <2> HIDE DEF L, U, M, V
  <2> QED BY <1>1, HoldingsFinite, FS_CardinalityType
<1>3. Cardinality(L) <= count /\ count <= Cardinality(U) /\ count \in Nat
  BY DEF CountWithin, CountTypes
<1>m. /\ M = {h \in heldSince : h[3] \in estSince /\ h[1] \notin toRead' /\ <<h[1], h[2]>> \notin links'}
      /\ V = {h \in Ever : h[3] \in estEver /\ h[1] \notin toRead' /\ <<h[1], h[2]>> \notin links'}
  BY <1>0 DEF Passed
<1>s. ASSUME countAt' \in {"fds", "links"},
             Cardinality(M) <= count', count' <= Cardinality(V)
      PROVE  CountWithin'
  BY <1>s DEF CountWithin, CountBetween
<1>4. CASE LinksRead
  <2>1. /\ countAt = "links" /\ links = {} /\ countAt' = "fds"
        /\ UNCHANGED <<toRead, matches, links, count>>
    BY <1>4 DEF LinksRead, tallyVars
  <2>2. NamesInv'
    BY <1>0, <2>1 DEF NamesInv
  <2>3. M = L /\ V = U
    BY <1>m, <2>1 DEF Passed
  <2>4. Cardinality(M) <= count' /\ count' <= Cardinality(V)
    BY <1>3, <2>1, <2>3
  <2> QED BY <1>s, <2>1, <2>2, <2>4
<1>5. CASE AllCounted
  <2>1. /\ countAt = "fds" /\ toRead = {} /\ links = {} /\ countAt' = "returned"
        /\ UNCHANGED <<toRead, matches, links, count>>
    BY <1>5 DEF AllCounted, tallyVars, NamesInv
  <2>2. NamesInv'
    BY <1>0, <2>1 DEF NamesInv
  <2>3. /\ L = {h \in heldSince : h[3] \in estSince}
        /\ U = {h \in Ever : h[3] \in estEver}
    BY <2>1 DEF Passed
  <2>4. CountBetween'
    <3>1. CountBetween' <=> ((countAt' = "returned" /\ ofName') =>
             /\ Cardinality({h \in heldSince : h[3] \in estSince}) <= count'
             /\ count' <= Cardinality({h \in Ever : h[3] \in estEver}))
      BY <1>0 DEF CountBetween, Ever
    <3> QED BY <1>3, <2>1, <2>3, <3>1
  <2> QED BY <2>1, <2>2, <2>4 DEF CountWithin
<1>6. ASSUME NEW p \in Procs, ReadFdDir(p) PROVE NamesInv' /\ CountWithin'
  <2>1. /\ countAt = "fds" /\ links = {} /\ countAt' = "links" /\ p \in toRead
        /\ toRead' = toRead \ {p} /\ links' = {<<h[1], h[2]>> : h \in {k \in fds : k[1] = p}}
        /\ UNCHANGED <<matches, records, count>>
    BY <1>6 DEF ReadFdDir, NamesInv
  <2>2. NamesInv'
    BY <1>0, <2>1 DEF NamesInv
  <2>3. M \subseteq L
    <3>1. \A h \in heldSince : h \in fds
      BY <1>0 DEF Held
    <3>2. ASSUME NEW h \in M PROVE h \in L
      <4>1. h \in heldSince /\ h[3] \in estSince /\ h[1] \notin toRead' /\ <<h[1], h[2]>> \notin links'
        BY <1>m, <3>2
      <4>2. h[1] # p
        BY <2>1, <3>1, <4>1
      <4> QED BY <2>1, <4>1, <4>2 DEF Passed
    <3> QED BY <3>2
  <2>4. U \subseteq V
    <3>1. ASSUME NEW h \in U PROVE h \in V
      <4>1. h \in Ever /\ h[3] \in estEver /\ h[1] \notin toRead
        BY <3>1 DEF Passed
      <4> QED BY <1>m, <2>1, <4>1
    <3> QED BY <3>1
  <2> HIDE DEF L, U, M, V
  <2>5. Cardinality(M) <= Cardinality(L) /\ Cardinality(U) <= Cardinality(V)
    BY <1>2, <2>3, <2>4, Sizes
  <2>6. Cardinality(M) <= count' /\ count' <= Cardinality(V)
    BY <1>2, <1>3, <2>1, <2>5
  <2> QED BY <1>s, <2>1, <2>2, <2>6
<1>7. ASSUME NEW l \in links, ReadLink(l) PROVE NamesInv' /\ CountWithin'
  <2> DEFINE counts == Target(l) \cap records["established"] # {}
  <2>1. /\ countAt = "links" /\ countAt' = "links" /\ links' = links \ {l}
        /\ count' = IF counts THEN count + 1 ELSE count
        /\ UNCHANGED <<toRead, matches, records>>
    BY <1>7 DEF ReadLink
  <2>2. NamesInv'
    BY <1>0, <2>1 DEF NamesInv
  <2>3. U \subseteq V /\ L \subseteq M /\ \A h \in M : h \in L \/ <<h[1], h[2]>> = l
    BY <1>m, <2>1 DEF Passed
  <2>4. l \in Procs \X Numbers /\ l = <<l[1], l[2]>>
    BY DEF CountTypes
  <2>5. ASSUME NEW h \in M, <<h[1], h[2]>> = l
        PROVE  h = <<l[1], l[2], h[3]>> /\ h \in fds
               /\ h[3] \in Target(l) \cap records["established"]
    <3>1. h \in fds /\ h[3] \in estSince
      BY <1>0, <1>m DEF Held
    <3>2. h[3] \in Inodes /\ h = <<h[1], h[2], h[3]>>
      BY <3>1, Triples DEF CountTypes
    <3>3. h[3] \in records["established"]
      BY <1>0, <3>1, <3>2 DEF Right
    <3>4. h[1] = l[1] /\ h[2] = l[2]
      BY <2>5, <2>4
    <3> QED BY <3>1, <3>2, <3>3, <3>4 DEF Target
  <2>6. CASE ~counts
    <3>1. M \subseteq L
      BY <2>3, <2>5, <2>6
    <3> HIDE DEF L, U, M, V
    <3>2. Cardinality(M) <= Cardinality(L) /\ Cardinality(U) <= Cardinality(V)
      BY <1>2, <2>3, <3>1, Sizes
    <3>3. Cardinality(M) <= count' /\ count' <= Cardinality(V)
      BY <1>2, <1>3, <2>1, <2>6, <3>2
    <3> QED BY <1>s, <2>1, <2>2, <3>3
  <2>7. CASE counts
    <3>1. PICK s \in Target(l) \cap records["established"] : TRUE
      BY <2>7
    <3> DEFINE d == <<l[1], l[2], s>>
    <3>2. d \in fds /\ s \in Inodes /\ s \in estEver
      BY <1>0, <3>1 DEF Target, Right
    <3>3. d[1] = l[1] /\ d[2] = l[2] /\ d[3] = s
      OBVIOUS
    <3>4. M \subseteq L \cup {d}
      <4>1. ASSUME NEW h \in M, h \notin L PROVE h = d
        <5>1. h \in fds /\ <<h[1], h[2]>> = l
          BY <2>3, <2>5, <4>1
        <5>2. h[1] = l[1] /\ h[2] = l[2]
          BY <2>4, <5>1
        <5> HIDE DEF d
        <5> QED BY <3>2, <3>3, <5>1, <5>2 DEF CountTypes, World, OneEach
      <4> QED BY <4>1
    <3>5. d \in V /\ d \notin U
      <4>1. l[1] \in matches /\ l[1] \notin toRead
        BY <1>0
      <4>2. l[1] \in running /\ l[2] \in Numbers
        BY <2>4, <3>2, <3>3, Triples DEF CountTypes
      <4>3. l[1] \in named \/ l[1] \in recycled
        BY <4>1, <4>2 DEF NamesInv
      <4>4. d \in Ever
        <5>1. CASE l[1] \in named
          BY <1>0, <3>2, <3>3, <5>1 DEF Held, Ever
        <5>2. CASE l[1] \in recycled
          BY <3>2, <4>2, <5>2 DEF Ever
        <5> QED BY <4>3, <5>1, <5>2
      <4>5. <<d[1], d[2]>> = l
        BY <2>4, <3>3
      <4>6. d \in V
        BY <1>m, <2>1, <3>2, <3>3, <4>1, <4>4, <4>5
      <4>7. d \notin U
        BY <4>5 DEF Passed
      <4> QED BY <4>6, <4>7
    <3> HIDE DEF L, U, M, V, d
    <3>6. Cardinality(M) <= Cardinality(L) + 1
      BY <1>2, <2>3, <3>4, Sizes
    <3>7. Cardinality(U) + 1 <= Cardinality(V)
      BY <1>2, <2>3, <3>5, Sizes
    <3>8. count' = count + 1
      BY <2>1, <2>7
    <3> HIDE DEF counts
    <3>9. Cardinality(M) <= count' /\ count' <= Cardinality(V)
      BY <1>2, <1>3, <3>6, <3>7, <3>8
    <3> QED BY <1>s, <2>1, <2>2, <3>9
  <2> QED BY <2>6, <2>7
<1> QED BY <1>4, <1>5, <1>6, <1>7

\* Every step preserves CountInv.
LEMMA CountInvStep == CountInv /\ [CountNext]_countVars => CountInv'
<1> SUFFICES ASSUME CountInv, [CountNext]_countVars PROVE CountInv'
  OBVIOUS
<1>1. TablesInv' /\ CountTypes'
  BY TablesInvStep, CountTypesStep DEF CountInv
<1>2. CASE BeginCount
  <2>1. /\ countAt = "idle" /\ countAt' \in {"comm", "tcp"} /\ (ofName' <=> countAt' = "comm")
        /\ heldSince' = Held /\ heldEver' = Held /\ Held' = Held
        /\ countAt' = "comm" => toRead' = running
        /\ UNCHANGED <<named, running, recycled, matches, links, count>>
        /\ matches = {} /\ links = {} /\ count = 0
    BY <1>2 DEF BeginCount, socketVars, Held, CountInv, NamesInv
  <2>2. \A h \in Held : h[1] \in running
    BY DEF Held, CountInv, CountTypes, World
  <2> QED
    BY <1>1, <2>1, <2>2 DEF CountInv, NamesInv, CountWithin, CountBetween
<1>3. CASE CountStep
  <2>1. UNCHANGED <<ofName, socketVars, historyVars>>
    BY <1>3 DEF CountStep
  <2>2. CASE NamesRead \/ ReadTCP \/ ReadTCP6 \/ \E p \in Procs : ReadComm(p)
    <3>1. countAt \in {"comm", "tcp", "tcp6"}
      BY <2>2 DEF NamesRead, ReadTCP, ReadTCP6, ReadComm
    <3> QED BY <1>1, <2>1, <2>2, <3>1, CountReads DEF CountInv
  <2>3. CASE \/ LinksRead \/ AllCounted
             \/ \E p \in Procs : ReadFdDir(p)
             \/ \E h \in links : ReadLink(h)
    <3>1. countAt \in {"fds", "links"}
      BY <2>3 DEF LinksRead, AllCounted, ReadFdDir, ReadLink
    <3> QED BY <1>1, <2>1, <2>3, <3>1, CountPasses DEF CountInv
  <2> QED BY <1>3, <2>2, <2>3 DEF CountStep
<1>4. CASE SocketsChange
  BY <1>1, <1>4, NamesChange, BetweenChange DEF CountInv, CountTypes
<1>5. CASE UNCHANGED countVars
  BY <1>1, <1>5
  DEF countVars, socketVars, tallyVars, historyVars, CountInv, NamesInv, CountWithin,
      CountBetween, Passed, Ever, Held
<1> QED BY <1>2, <1>3, <1>4, <1>5 DEF CountNext

\* EstablishedTCPConnCount is between the established sockets that a process of
\* the name held throughout the call and those one held at any time.
THEOREM CountSound == CountSpec => []CountBetween
<1>1. CountInv => CountBetween
  BY DEF CountInv, CountWithin
<1> QED BY <1>1, CountInvInit, CountInvStep, PTL DEF CountSpec

-----------------------------------------------------------------------------
(* One process (ProcessLookup).                                            *)

\* What a process can burn in t ticks.
Burnt(t) == Cores * t

\* It is a natural number, monotonic and additive, and less than 2^64 over the
\* whole call.
LEMMA BurntFacts ==
  /\ Cores \in Nat \ {0} /\ Word \in Nat \ {0}
  /\ \A t \in Nat : Burnt(t) \in Nat
  /\ \A s, t \in Nat : s <= t => Burnt(s) <= Burnt(t)
  /\ \A s, t \in Nat : Burnt(s + t) = Burnt(s) + Burnt(t)
  /\ Burnt(0) = 0 /\ Burnt(1) = Cores
  /\ MaxClock + Window \in Nat /\ Burnt(MaxClock + Window) < Word
<1>1. Cores \in Nat \ {0} /\ MaxClock + Window \in Nat /\ Word \in Nat
  BY ProcAssumption, LookupAssumption
<1>2. Burnt(MaxClock + Window) < Word
  BY LookupAssumption DEF Burnt
<1>3. /\ \A t \in Nat : Burnt(t) \in Nat
      /\ \A s, t \in Nat : s <= t => Burnt(s) <= Burnt(t)
      /\ \A s, t \in Nat : Burnt(s + t) = Burnt(s) + Burnt(t)
      /\ Burnt(0) = 0 /\ Burnt(1) = Cores
  BY <1>1 DEF Burnt
<1>4. Word # 0
  <2>1. Burnt(MaxClock + Window) \in Nat
    BY <1>1, <1>3
  <2> QED BY <1>2, <2>1
<1> QED BY <1>1, <1>2, <1>3, <1>4

\* A wrapped difference is a natural number, and exact when nothing wrapped.
LEMMA WrapFacts ==
  \A a, b \in Nat : /\ Sub64(a, b) \in Nat
                    /\ b <= a /\ a < Word => Sub64(a, b) = a - b
<1>1. Word \in Nat \ {0}
  BY BurntFacts
<1> QED BY <1>1 DEF Sub64

\* A tick more burns Cores more.
LEMMA BurntNext ==
  \A t \in Nat : Burnt(t + 1) = Burnt(t) + Cores /\ Burnt(t) \in Nat
<1>1. Cores \in Nat
  BY BurntFacts
<1> QED BY <1>1, OneMore DEF Burnt

-----------------------------------------------------------------------------
(* GetProcess: the processes and the clock.                                *)

KernelSteps == LookupTime \/ Turnover

\* What an incarnation was charged fits its age.
LookAccount ==
  /\ clock <= MaxClock + Window
  /\ \A p \in Pids : born[p] <= clock /\ ticks[p] <= Burnt(clock - born[p])

\* A step of the processes or the clock: time goes on, an incarnation burns at
\* most what the time allows, and a pid comes back only as a later one.
KernelEffect ==
  /\ clock' \in {clock, clock + 1}
  /\ \A p \in Pids :
       /\ gen[p] <= gen'[p]
       /\ gen'[p] = gen[p] =>
            /\ p \in alive' => p \in alive
            /\ born'[p] = born[p]
            /\ ticks[p] <= ticks'[p]
            /\ ticks'[p] <= ticks[p] + Burnt(clock' - clock)
       /\ gen'[p] # gen[p] => born'[p] = clock' /\ ticks'[p] = 0 /\ clock' = clock

\* That is what they do, and they do it during the call only.
LEMMA KernelStep ==
  ASSUME KernelTypeOK, LookAccount, KernelSteps
  PROVE  /\ KernelTypeOK' /\ KernelEffect /\ LookAccount'
         /\ UNCHANGED lookVars /\ lookAt \notin {"idle", "returned"}
<1> USE DEF KernelTypeOK
<1>b. Burnt(0) = 0 /\ Burnt(1) = Cores /\ Cores \in Nat
  BY BurntFacts
<1>1. CASE LookupTime
  <2>0. /\ clock' = clock + 1 /\ clock' - clock = 1 /\ clock' <= MaxClock + Window
        /\ UNCHANGED <<alive, born, gen, rss, lookVars>>
        /\ lookAt \notin {"idle", "returned"}
    BY <1>1, ProcAssumption DEF LookupTime, Tick
  <2>1. PICK d \in [Pids -> 0..Cores] : ticks' = [p \in Pids |-> ticks[p] + d[p]]
    BY <1>1 DEF LookupTime, Tick
  <2>2. ASSUME NEW p \in Pids
        PROVE  /\ ticks'[p] \in Nat /\ ticks[p] <= ticks'[p]
               /\ ticks'[p] <= ticks[p] + Cores
    <3>1. /\ ticks'[p] = ticks[p] + d[p] /\ ticks[p] \in Nat /\ d[p] \in Nat
          /\ d[p] <= Cores
      BY <1>b, <2>1
    <3> QED BY <1>b, <3>1
  <2>3. ticks' \in [Pids -> Nat]
    BY <2>1, <2>2
  <2>4. KernelTypeOK'
    BY <2>0, <2>3
  <2>5. KernelEffect
    BY <1>b, <2>0, <2>2 DEF KernelEffect
  <2>6. ASSUME NEW p \in Pids
        PROVE  born'[p] <= clock' /\ ticks'[p] <= Burnt(clock' - born'[p])
    <3> DEFINE age == clock - born[p]
    <3>1. /\ age \in Nat /\ clock' - born'[p] = age + 1 /\ born'[p] <= clock'
          /\ ticks[p] \in Nat
      BY <2>0 DEF LookAccount
    <3>2. ticks[p] <= Burnt(age)
      BY DEF LookAccount
    <3> HIDE DEF age
    <3>3. Burnt(age + 1) = Burnt(age) + Cores /\ Burnt(age) \in Nat
      BY <3>1, BurntNext
    <3>4. ticks'[p] <= Burnt(age + 1)
      BY <1>b, <2>2, <3>1, <3>2, <3>3
    <3> QED BY <3>1, <3>4
  <2> QED BY <2>0, <2>4, <2>5, <2>6 DEF LookAccount
<1>2. CASE Turnover
  <2>0. lookAt \notin {"idle", "returned"} /\ UNCHANGED lookVars
    BY <1>2 DEF Turnover, Looking
  <2>1. PICK q \in Pids : Spawn(q) \/ Exit(q)
    BY <1>2 DEF Turnover
  <2>z. clock' = clock /\ clock' - clock = 0
    BY <2>1 DEF Spawn, Exit
  <2>2. CASE Spawn(q)
    <3>1. gen[q] + 1 \in Nat /\ gen[q] < gen[q] + 1
      OBVIOUS
    <3>2. PICK m \in Mems : rss' = [rss EXCEPT ![q] = m]
      BY <2>2 DEF Spawn
    <3>3. /\ gen' = [gen EXCEPT ![q] = gen[q] + 1] /\ born' = [born EXCEPT ![q] = clock]
          /\ ticks' = [ticks EXCEPT ![q] = 0] /\ alive' = alive \cup {q}
      BY <2>2 DEF Spawn
    <3>4. KernelTypeOK'
      BY <2>z, <3>1, <3>2, <3>3
    <3>5. KernelEffect
      BY <1>b, <2>z, <3>1, <3>3 DEF KernelEffect
    <3>6. LookAccount'
      <4>1. clock - clock = 0
        OBVIOUS
      <4> QED BY <1>b, <2>z, <3>3, <4>1 DEF LookAccount, Burnt
    <3> QED BY <2>0, <3>4, <3>5, <3>6
  <2>3. CASE Exit(q)
    <3>1. alive' = alive \ {q} /\ UNCHANGED <<clock, born, ticks, gen, rss>>
      BY <2>3 DEF Exit
    <3>2. KernelEffect
      BY <1>b, <2>z, <3>1 DEF KernelEffect
    <3> QED BY <2>0, <3>1, <3>2 DEF LookAccount, Burnt
  <2> QED BY <2>1, <2>2, <2>3
<1> QED BY <1>1, <1>2 DEF KernelSteps

-----------------------------------------------------------------------------
(* GetProcess: types.                                                      *)

\* The two percentages are of the type of one.
LEMMA UsageTypes ==
  /\ Zero \in Usage
  /\ \A a, b \in Nat, e \in Int : InstantCPUPercent(a, b, e) \in Usage
  /\ \A a, b, e \in Nat : AverageCPUPercent(a, b, e) \in Usage
<1>1. Zero \in Usage
  BY DEF Usage, Zero
<1>2. ASSUME NEW a \in Nat, NEW b \in Nat, NEW e \in Int
      PROVE  InstantCPUPercent(a, b, e) \in Usage
  <2>1. Sub64(b, a) \in Nat
    BY WrapFacts
  <2> QED BY <1>1, <2>1 DEF InstantCPUPercent, Usage
<1>3. ASSUME NEW a \in Nat, NEW b \in Nat, NEW e \in Nat
      PROVE  AverageCPUPercent(a, b, e) \in Usage
  BY <1>1 DEF AverageCPUPercent, Usage
<1> QED BY <1>1, <1>2, <1>3

Timed == {"sample", "sleep", "again"}

LookBase ==
  /\ LookupTypeOK /\ LookAccount
  /\ lookAt \in Timed => lookStart <= clock

\* The first state.
LEMMA LookBaseInit == LookupInit => LookBase
<1> SUFFICES ASSUME LookupInit PROVE LookBase
  OBVIOUS
<1>1. KernelTypeOK
  <2>1. Cores * Uptime0 \in Nat
    BY ProcAssumption
  <2>2. ticks \in [Pids -> Nat]
    BY <2>1 DEF LookupInit, KernelInit
  <2> QED BY <2>2, ProcAssumption DEF LookupInit, KernelInit, KernelTypeOK
<1>2. LookupTypeOK
  BY <1>1, UsageTypes DEF LookupInit, LookupTypeOK, Stat
<1>3. clock <= MaxClock + Window
  BY ProcAssumption DEF LookupInit, KernelInit
<1>4. ASSUME NEW p \in Pids
      PROVE  born[p] <= clock /\ ticks[p] <= Burnt(clock - born[p])
  <2>1. /\ born[p] = 0 /\ clock = Uptime0 /\ clock \in Nat /\ clock - born[p] = clock
        /\ ticks[p] \in {0, Burnt(clock)}
    BY ProcAssumption DEF LookupInit, KernelInit, Burnt
  <2>2. Burnt(clock) \in Nat
    BY <2>1, BurntFacts
  <2> QED BY <2>1, <2>2
<1> QED BY <1>2, <1>3, <1>4 DEF LookBase, LookAccount, LookupInit, Timed

\* Every step preserves LookBase.
LEMMA LookBaseStep == LookBase /\ [LookupNext]_lookupVars => LookBase'
<1> SUFFICES ASSUME LookBase, [LookupNext]_lookupVars PROVE LookBase'
  OBVIOUS
<1> USE DEF LookBase, LookupTypeOK
<1>1. CASE BeginLookup
  <2>1. met' \in Nat \cup {-1}
    BY <1>1 DEF BeginLookup, KernelTypeOK
  <2> QED
    BY <1>1, <2>1
    DEF BeginLookup, kernelVars, KernelTypeOK, LookAccount, Timed, Burnt
<1>2. CASE LookupStep
  <2>0. /\ UNCHANGED <<clock, pid, average, lookDone, met>> /\ KernelTypeOK'
        /\ LookAccount'
    BY <1>2 DEF LookupStep, kernelVars, KernelTypeOK, LookAccount, Burnt
  <2>k. ASSUME NEW a \in {"row", "proc", "meminfo", "ctx"}, Answer(a)
        PROVE  LookBase'
    BY <2>0, <2>k DEF Answer, Timed
  <2>1. CASE ReadTotals
    <3>1. CASE Answer("meminfo")
      BY <2>k, <3>1
    <3>2. CASE ~Answer("meminfo")
      <4>1. clock \in Nat /\ clock <= clock
        BY DEF KernelTypeOK
      <4>2. /\ lookAt' = "sample" /\ lookStart' = clock
            /\ UNCHANGED <<lookWake, lookSample, lookUsage, lookLag, uidRead,
                           lookGen, answer>>
        BY <2>1, <3>2 DEF ReadTotals
      <4> QED BY <2>0, <4>1, <4>2
    <3> QED BY <3>1, <3>2
  <2>2. CASE FirstStat
    <3>1. CASE Answer("proc")
      BY <2>k, <3>1
    <3>2. CASE ~Answer("proc")
      <4>1. /\ lookSample' = StatOf(pid) /\ lookGen' = {gen[pid]}
            /\ UNCHANGED <<lookStart, uidRead, answer>>
            /\ \/ /\ lookUsage' = AverageCPUPercent(ticks[pid], born[pid], lookStart)
                  /\ lookLag' = clock - lookStart /\ UNCHANGED lookWake
               \/ lookWake' = clock + Window /\ UNCHANGED <<lookUsage, lookLag>>
            /\ lookAt' \in {"status", "sleep"} /\ lookStart <= clock
        BY <2>2, <3>2 DEF FirstStat, Timed
      <4>2. /\ clock \in Nat /\ clock + Window \in Nat /\ clock - lookStart \in Nat
            /\ ticks[pid] \in Nat /\ born[pid] \in Nat /\ gen[pid] \in Nat
        BY <4>1, ProcAssumption DEF KernelTypeOK
      <4>3. /\ lookSample' \in Stat /\ lookGen' \subseteq Nat
        BY <4>1, <4>2 DEF StatOf, Stat
      <4>4. lookUsage' \in Usage
        BY <4>1, <4>2, UsageTypes
      <4>5. lookWake' \in Nat /\ lookLag' \in Nat
        BY <4>1, <4>2
      <4> QED BY <2>0, <4>1, <4>3, <4>4, <4>5
    <3> QED BY <3>1, <3>2
  <2>3. CASE LookupSleeps
    <3>1. CASE Answer("ctx")
      BY <2>k, <3>1
    <3>2. CASE ~Answer("ctx")
      BY <2>0, <2>3, <3>2 DEF LookupSleeps, Timed
    <3> QED BY <3>1, <3>2
  <2>4. CASE SecondStat
    <3>1. CASE Answer("proc")
      BY <2>k, <3>1
    <3>2. CASE ~Answer("proc")
      <4>1. /\ lookUsage' = InstantCPUPercent(lookSample.cpu, ticks[pid], clock - lookStart)
            /\ lookGen' = lookGen \cup {gen[pid]} /\ lookAt' = "status"
            /\ UNCHANGED <<lookStart, lookWake, lookSample, lookLag, uidRead, answer>>
        BY <2>4, <3>2 DEF SecondStat
      <4>2. /\ lookSample.cpu \in Nat /\ ticks[pid] \in Nat /\ gen[pid] \in Nat
            /\ clock - lookStart \in Int
        BY DEF KernelTypeOK, Stat
      <4>3. lookUsage' \in Usage
        BY <4>1, <4>2, UsageTypes
      <4> QED BY <2>0, <4>1, <4>2, <4>3 DEF Timed
    <3> QED BY <3>1, <3>2
  <2>5. CASE StatStatus
    <3>1. CASE Answer("proc")
      BY <2>k, <3>1
    <3>2. CASE ~Answer("proc")
      BY <2>0, <2>5, <3>2 DEF StatStatus, Timed
    <3> QED BY <3>1, <3>2
  <2>6. CASE ReadStatusFile
    <3>1. gen[pid] \in Nat
      BY DEF KernelTypeOK
    <3>2. lookGen' \subseteq Nat
      BY <2>6, <3>1 DEF ReadStatusFile
    <3>3. uidRead' \in BOOLEAN
      <4>1. uidRead' = (pid \in alive)
        BY <2>6 DEF ReadStatusFile
      <4>2. CASE pid \in alive
        BY <4>1, <4>2
      <4>3. CASE pid \notin alive
        BY <4>1, <4>3
      <4> QED BY <4>2, <4>3
    <3> QED BY <2>0, <2>6, <3>2, <3>3 DEF ReadStatusFile, Timed
  <2>7. CASE Enrich
    <3>1. CASE Answer("proc")
      BY <2>k, <3>1
    <3>2. CASE ~Answer("proc")
      <4>1. gen[pid] \in Nat
        BY DEF KernelTypeOK
      <4>2. /\ lookAt' = "returned" /\ answer' = "row" /\ lookGen' = lookGen \cup {gen[pid]}
            /\ UNCHANGED <<lookStart, lookWake, lookSample, lookUsage, lookLag, uidRead>>
        BY <2>7, <3>2 DEF Enrich
      <4>3. lookGen' \subseteq Nat
        BY <4>1, <4>2
      <4> QED BY <2>0, <4>2, <4>3 DEF Timed
    <3> QED BY <3>1, <3>2
  <2> QED BY <1>2, <2>1, <2>2, <2>3, <2>4, <2>5, <2>6, <2>7 DEF LookupStep
<1>3. CASE LookupCancelled
  BY <1>3 DEF LookupCancelled, kernelVars, KernelTypeOK, LookAccount, Burnt
<1>4. CASE KernelSteps
  <2>1. /\ KernelTypeOK' /\ LookAccount' /\ UNCHANGED lookVars
        /\ clock' \in {clock, clock + 1}
    BY <1>4, KernelStep DEF KernelEffect
  <2>2. lookStart <= clock => lookStart <= clock'
    BY <2>1 DEF KernelTypeOK
  <2> QED BY <2>1, <2>2 DEF lookVars
<1>5. CASE UNCHANGED lookupVars
  BY <1>5 DEF lookupVars, lookVars, kernelVars, KernelTypeOK, LookAccount, Burnt
<1> QED BY <1>1, <1>2, <1>3, <1>4, <1>5 DEF LookupNext, KernelSteps

\* LookupTypeOK is an invariant: GetProcess's percentage is never negative.
THEOREM LookupTypeCorrect == LookupSpec => []LookupTypeOK
<1>1. LookBase => LookupTypeOK
  BY DEF LookBase
<1> QED BY <1>1, LookBaseInit, LookBaseStep, PTL DEF LookupSpec

-----------------------------------------------------------------------------
(* GetProcess: a row is of one process.                                    *)

Measured == {"status", "statusRead", "details"}

\* The answer comes last.
AnsweredLast == answer # "none" => lookAt = "returned"

\* During the window: the process has burnt since its sample what the time
\* since start allows, unless the pid is another's by now.
SampledInv ==
  lookAt \in {"sleep", "again"} =>
    /\ lookGen = {lookSample.gen} /\ lookSample.gen <= gen[pid]
    /\ lookSample.gen = gen[pid] =>
         /\ lookSample.cpu <= ticks[pid]
         /\ ticks[pid] <= lookSample.cpu + Burnt(clock - lookStart)

\* What was read is of earlier incarnations or this one; if of this one alone,
\* its usage fits the window and a missing uid means that it is gone.
ReadSoFar ==
  /\ lookGen # {} /\ \A g \in lookGen : g <= gen[pid]
  /\ (\A g \in lookGen : g = gen[pid]) =>
       lookUsage.num <= Burnt(lookUsage.den + lookLag)

UsedInv ==
  /\ lookAt \in Measured => ReadSoFar
  /\ lookAt = "details" /\ ~uidRead => pid \notin alive \/ \E g \in lookGen : g < gen[pid]
  /\ answer = "row" =>
       ReadSoFar /\ (~uidRead => \E g \in lookGen : g < gen[pid])

\* A pid nobody had when the call began is dead still, or of a later incarnation.
MetInv ==
  lookAt # "idle" /\ met = -1 => pid \notin alive \/ gen[pid] > 0

LookInv ==
  LookBase /\ AnsweredLast /\ SampledInv /\ UsedInv /\ MetInv /\ LookupAnswers

\* The first state.
LEMMA LookInvInit == LookupInit => LookInv
<1>1. LookupInit => LookBase
  BY LookBaseInit
<1> QED
  BY <1>1
  DEF LookInv, LookupInit, AnsweredLast, SampledInv, UsedInv, MetInv, LookupAnswers,
      Measured

\* The usage of a process that kept the pid fits the window it is divided by.
LEMMA UsageFits ==
  ASSUME LookBase
  PROVE  /\ lookAt = "sample" =>
              LET u == AverageCPUPercent(ticks[pid], born[pid], lookStart)
              IN  u.num <= Burnt(u.den + (clock - lookStart))
         /\ lookAt = "again" /\ SampledInv /\ lookSample.gen = gen[pid] =>
              LET u == InstantCPUPercent(lookSample.cpu, ticks[pid], clock - lookStart)
              IN  u.num <= Burnt(u.den + lookLag)
<1>1. /\ clock \in Nat /\ ticks[pid] \in Nat /\ born[pid] \in Nat /\ born[pid] <= clock
      /\ lookStart \in Nat /\ lookLag \in Nat /\ lookSample.cpu \in Nat
      /\ ticks[pid] <= Burnt(clock - born[pid]) /\ clock <= MaxClock + Window
  BY DEF LookBase, LookupTypeOK, KernelTypeOK, LookAccount, Stat
<1>2. ASSUME NEW n \in Nat PROVE 0 <= Burnt(n)
  <2>1. Burnt(n) \in Nat
    BY BurntFacts
  <2> QED BY <2>1
<1>3. ASSUME lookAt = "sample"
      PROVE  LET u == AverageCPUPercent(ticks[pid], born[pid], lookStart)
             IN  u.num <= Burnt(u.den + (clock - lookStart))
  <2>1. clock - lookStart \in Nat
    BY <1>1, <1>3 DEF LookBase, Timed
  <2>2. CASE lookStart - born[pid] <= 0
    <3>1. /\ AverageCPUPercent(ticks[pid], born[pid], lookStart) = Zero
          /\ 1 + (clock - lookStart) \in Nat
      BY <2>1, <2>2 DEF AverageCPUPercent
    <3> QED BY <1>2, <3>1 DEF Zero
  <2>3. CASE ~(lookStart - born[pid] <= 0)
    <3>1. /\ AverageCPUPercent(ticks[pid], born[pid], lookStart)
               = [num |-> ticks[pid], den |-> lookStart - born[pid]]
          /\ (lookStart - born[pid]) + (clock - lookStart) = clock - born[pid]
      BY <1>1, <2>3 DEF AverageCPUPercent
    <3> QED BY <1>1, <3>1
  <2> QED BY <2>2, <2>3
<1>4. ASSUME lookAt = "again", SampledInv, lookSample.gen = gen[pid]
      PROVE  LET u == InstantCPUPercent(lookSample.cpu, ticks[pid], clock - lookStart)
             IN  u.num <= Burnt(u.den + lookLag)
  <2> DEFINE e == clock - lookStart
  <2>1. e \in Nat
    BY <1>1, <1>4 DEF LookBase, Timed
  <2>2. lookSample.cpu <= ticks[pid] /\ ticks[pid] <= lookSample.cpu + Burnt(e)
    BY <1>4 DEF SampledInv
  <2> HIDE DEF e
  <2>3. CASE e <= 0
    <3>1. /\ InstantCPUPercent(lookSample.cpu, ticks[pid], e) = Zero
          /\ 1 + lookLag \in Nat
      BY <1>1, <2>3 DEF InstantCPUPercent
    <3> QED BY <1>2, <3>1 DEF Zero, e
  <2>4. CASE ~(e <= 0)
    <3>1. ticks[pid] < Word
      <4>1. /\ clock - born[pid] \in Nat /\ clock - born[pid] <= MaxClock + Window
            /\ MaxClock + Window \in Nat
        <5>1. MaxClock + Window \in Nat
          BY BurntFacts
        <5> DEFINE b == born[pid]
        <5>2. b \in Nat /\ b <= clock
          BY <1>1
        <5> HIDE DEF b
        <5>3. clock - b \in Nat /\ clock - b <= MaxClock + Window
          BY <1>1, <5>1, <5>2
        <5> QED BY <5>1, <5>3 DEF b
      <4>2. Burnt(clock - born[pid]) <= Burnt(MaxClock + Window)
        BY <4>1, BurntFacts
      <4>3. /\ Burnt(clock - born[pid]) \in Nat /\ Burnt(MaxClock + Window) \in Nat
            /\ Burnt(MaxClock + Window) < Word /\ Word \in Nat
        BY <4>1, BurntFacts
      <4> QED BY <1>1, <4>2, <4>3
    <3>2. Sub64(ticks[pid], lookSample.cpu) = ticks[pid] - lookSample.cpu
      BY <1>1, <2>2, <3>1, WrapFacts
    <3>3. InstantCPUPercent(lookSample.cpu, ticks[pid], e)
            = [num |-> ticks[pid] - lookSample.cpu, den |-> e]
      BY <2>4, <3>2 DEF InstantCPUPercent
    <3>4. /\ Burnt(e) <= Burnt(e + lookLag) /\ Burnt(e) \in Nat
          /\ Burnt(e + lookLag) \in Nat
      <4>1. e + lookLag \in Nat /\ e <= e + lookLag
        BY <1>1, <2>1
      <4> QED BY <2>1, <4>1, BurntFacts
    <3>5. ticks[pid] - lookSample.cpu <= Burnt(e + lookLag)
      BY <1>1, <2>2, <3>4
    <3> QED BY <3>3, <3>5 DEF e
  <2> QED BY <2>3, <2>4
<1> QED BY <1>3, <1>4

\* The processes and the clock leave LookInv.
LEMMA LookInvKernel ==
  ASSUME LookInv, LookBase', KernelSteps
  PROVE  LookInv'
<1>1. /\ KernelEffect /\ UNCHANGED lookVars /\ lookAt \notin {"idle", "returned"}
      /\ clock \in Nat /\ clock' \in Nat
  BY KernelStep DEF LookInv, LookBase, LookupTypeOK, KernelTypeOK
<1> DEFINE g0 == gen[pid]
           g1 == gen'[pid]
<1>2. /\ g0 \in Nat /\ g1 \in Nat /\ g0 <= g1 /\ ticks[pid] \in Nat /\ ticks'[pid] \in Nat
      /\ g1 = g0 => /\ pid \in alive' => pid \in alive
                    /\ ticks[pid] <= ticks'[pid]
                    /\ ticks'[pid] <= ticks[pid] + Burnt(clock' - clock)
  BY <1>1 DEF KernelEffect, LookInv, LookBase, LookupTypeOK, KernelTypeOK, lookVars
<1>3. lookGen \subseteq Nat /\ lookSample.gen \in Nat /\ lookSample.cpu \in Nat
  BY DEF LookInv, LookBase, LookupTypeOK, Stat
<1>4. AnsweredLast' /\ answer = "none"
  BY <1>1 DEF LookInv, AnsweredLast, lookVars
<1>5. SampledInv'
  <2> SUFFICES ASSUME lookAt \in {"sleep", "again"}
               PROVE  SampledInv'
    BY <1>1 DEF SampledInv, lookVars
  <2>1. /\ lookGen = {lookSample.gen} /\ lookSample.gen <= g0
        /\ lookSample.gen = g0 =>
             /\ lookSample.cpu <= ticks[pid]
             /\ ticks[pid] <= lookSample.cpu + Burnt(clock - lookStart)
    BY DEF LookInv, SampledInv
  <2>2. /\ clock - lookStart \in Nat /\ clock' - lookStart \in Nat
        /\ clock' - clock \in Nat
        /\ clock' - lookStart = (clock - lookStart) + (clock' - clock)
    <3>1. /\ clock' \in {clock, clock + 1} /\ clock \in Nat /\ lookStart \in Nat
          /\ lookStart <= clock
      BY <1>1 DEF KernelEffect, LookInv, LookBase, LookupTypeOK, Timed
    <3>2. CASE clock' = clock
      BY <3>1, <3>2
    <3>3. CASE clock' = clock + 1
      BY <3>1, <3>3
    <3> QED BY <3>1, <3>2, <3>3
  <2>3. /\ Burnt(clock' - lookStart) = Burnt(clock - lookStart) + Burnt(clock' - clock)
        /\ Burnt(clock - lookStart) \in Nat /\ Burnt(clock' - clock) \in Nat
    BY <2>2, BurntFacts
  <2>4. lookSample.gen <= g1
    BY <1>2, <1>3, <2>1
  <2>5. ASSUME lookSample.gen = g1
        PROVE  /\ lookSample.cpu <= ticks'[pid]
               /\ ticks'[pid] <= lookSample.cpu + Burnt(clock' - lookStart)
    <3>1. g1 = g0 /\ lookSample.gen = g0
      BY <1>2, <1>3, <2>1, <2>5
    <3> QED BY <1>2, <1>3, <2>1, <2>3, <3>1
  <2> QED BY <1>1, <2>1, <2>4, <2>5 DEF SampledInv, lookVars
<1>6. UsedInv'
  <2>1. ASSUME lookAt \in Measured PROVE ReadSoFar'
    <3>1. /\ lookGen # {} /\ \A g \in lookGen : g <= g0
          /\ (\A g \in lookGen : g = g0) =>
               lookUsage.num <= Burnt(lookUsage.den + lookLag)
      BY <2>1 DEF LookInv, UsedInv, ReadSoFar
    <3>2. \A g \in lookGen : g <= g1
      BY <1>2, <1>3, <3>1
    <3>3. (\A g \in lookGen : g = g1) => \A g \in lookGen : g = g0
      BY <1>2, <1>3, <3>1
    <3>4. lookGen' = lookGen /\ lookUsage' = lookUsage /\ lookLag' = lookLag /\ pid' = pid
      BY <1>1 DEF lookVars
    <3> QED BY <3>1, <3>2, <3>3, <3>4 DEF ReadSoFar, Burnt
  <2>2. ASSUME lookAt = "details", ~uidRead
        PROVE  pid \notin alive' \/ \E g \in lookGen : g < g1
    <3>1. /\ lookGen # {} /\ \A g \in lookGen : g <= g0
          /\ pid \notin alive \/ \E g \in lookGen : g < g0
      BY <2>2 DEF LookInv, UsedInv, ReadSoFar, Measured
    <3>2. CASE g1 = g0
      BY <1>2, <3>1, <3>2
    <3>3. CASE g1 # g0
      <4>1. PICK g \in lookGen : g <= g0
        BY <3>1
      <4> QED BY <1>2, <1>3, <3>3, <4>1
    <3> QED BY <3>2, <3>3
  <2> QED BY <1>1, <1>4, <2>1, <2>2 DEF UsedInv, lookVars
<1>7. MetInv'
  BY <1>1, <1>2 DEF LookInv, MetInv, lookVars
<1>8. LookupAnswers'
  BY <1>1, <1>4 DEF LookupAnswers, lookVars
<1> QED BY <1>4, <1>5, <1>6, <1>7, <1>8 DEF LookInv

\* A step of the call leaves LookInv.
LEMMA LookInvCall ==
  ASSUME LookInv, LookBase', LookupStep
  PROVE  LookInv'
<1>1. /\ UNCHANGED <<clock, alive, born, ticks, gen, pid, average, lookDone, met>>
      /\ lookAt # "returned" /\ lookAt # "idle" /\ answer = "none"
      /\ clock \in Nat /\ gen[pid] \in Nat /\ lookGen \subseteq Nat
  BY DEF LookInv, LookBase, LookupTypeOK, KernelTypeOK, LookupStep, kernelVars,
         AnsweredLast, ReadTotals, FirstStat, LookupSleeps, SecondStat, StatStatus,
         ReadStatusFile, Enrich
<1>2. MetInv' /\ met' = met /\ (met = -1 => pid \notin alive \/ gen[pid] > 0)
  BY <1>1 DEF LookInv, MetInv
<1>k. ASSUME NEW a \in {"proc", "meminfo", "ctx"}, Answer(a),
             a = "proc" => pid \notin alive
      PROVE  LookInv'
  <2>1. lookAt' = "returned" /\ answer' = a
    BY <1>k DEF Answer
  <2> QED
    BY <1>1, <1>2, <1>k, <2>1
    DEF LookInv, AnsweredLast, SampledInv, UsedInv, LookupAnswers, Measured
<1>s. ASSUME answer' = "none", lookAt' # "returned", SampledInv',
             lookAt' \in Measured => ReadSoFar',
             lookAt' = "details" /\ ~uidRead'
               => pid \notin alive \/ \E g \in lookGen' : g < gen[pid]
      PROVE  LookInv'
  BY <1>1, <1>2, <1>s DEF LookInv, AnsweredLast, UsedInv, LookupAnswers
<1>3. CASE ReadTotals
  <2>1. CASE Answer("meminfo")
    BY <1>k, <2>1
  <2>2. CASE ~Answer("meminfo")
    <3>1. lookAt' = "sample" /\ answer' = "none"
      BY <1>1, <1>3, <2>2 DEF ReadTotals
    <3> QED BY <1>s, <3>1 DEF SampledInv, Measured
  <2> QED BY <2>1, <2>2
<1>4. CASE FirstStat
  <2>1. CASE Answer("proc")
    BY <1>k, <1>4, <2>1 DEF FirstStat, Answer
  <2>2. CASE ~Answer("proc")
    <3>1. /\ lookAt = "sample" /\ pid \in alive /\ answer' = "none"
          /\ lookSample' = StatOf(pid) /\ lookGen' = {gen[pid]} /\ lookStart' = lookStart
          /\ \/ /\ lookUsage' = AverageCPUPercent(ticks[pid], born[pid], lookStart)
                /\ lookLag' = clock - lookStart /\ lookAt' = "status"
             \/ lookAt' = "sleep"
      BY <1>1, <1>4, <2>2 DEF FirstStat
    <3>2. CASE lookAt' = "sleep"
      <4>1. /\ clock - lookStart \in Nat /\ ticks[pid] \in Nat
            /\ Burnt(clock - lookStart) \in Nat
        <5>1. clock - lookStart \in Nat
          BY <3>1 DEF LookInv, LookBase, LookupTypeOK, KernelTypeOK, Timed
        <5> QED BY <5>1, BurntFacts DEF LookInv, LookBase, LookupTypeOK, KernelTypeOK
      <4>2. /\ lookSample'.cpu = ticks[pid] /\ lookSample'.gen = gen[pid]
            /\ ticks[pid] <= ticks[pid] + Burnt(clock - lookStart)
        BY <3>1, <4>1 DEF StatOf
      <4>3. SampledInv'
        BY <1>1, <3>1, <4>1, <4>2 DEF SampledInv, Burnt
      <4> QED BY <1>s, <3>1, <3>2, <4>3 DEF Measured
    <3>3. CASE lookAt' = "status"
      <4>1. lookUsage'.num <= Burnt(lookUsage'.den + lookLag')
        BY <3>1, <3>3, UsageFits DEF LookInv
      <4>2. ReadSoFar'
        BY <1>1, <3>1, <4>1 DEF ReadSoFar, Burnt
      <4> QED BY <1>s, <3>1, <3>3, <4>2 DEF SampledInv
    <3> QED BY <3>1, <3>2, <3>3
  <2> QED BY <2>1, <2>2
<1>5. CASE LookupSleeps
  <2>1. CASE Answer("ctx")
    BY <1>k, <2>1
  <2>2. CASE ~Answer("ctx")
    <3>1. /\ lookAt = "sleep" /\ lookAt' = "again" /\ answer' = "none"
          /\ UNCHANGED <<lookStart, lookSample, lookGen>>
      BY <1>1, <1>5, <2>2 DEF LookupSleeps
    <3>2. SampledInv'
      BY <1>1, <3>1 DEF LookInv, SampledInv, Burnt
    <3> QED BY <1>s, <3>1, <3>2 DEF Measured
  <2> QED BY <2>1, <2>2
<1>6. CASE SecondStat
  <2>1. CASE Answer("proc")
    BY <1>k, <1>6, <2>1 DEF SecondStat, Answer
  <2>2. CASE ~Answer("proc")
    <3>1. /\ lookAt = "again" /\ lookAt' = "status" /\ answer' = "none"
          /\ lookUsage' = InstantCPUPercent(lookSample.cpu, ticks[pid], clock - lookStart)
          /\ lookGen' = lookGen \cup {gen[pid]} /\ lookLag' = lookLag
      BY <1>1, <1>6, <2>2 DEF SecondStat
    <3>2. /\ lookGen = {lookSample.gen} /\ lookSample.gen <= gen[pid]
          /\ SampledInv
      BY <3>1 DEF LookInv, SampledInv
    <3>3. ASSUME lookSample.gen = gen[pid]
          PROVE  lookUsage'.num <= Burnt(lookUsage'.den + lookLag')
      BY <3>1, <3>2, <3>3, UsageFits DEF LookInv
    <3>4. lookGen' # {} /\ \A g \in lookGen' : g <= gen[pid]
      BY <1>1, <3>1, <3>2
    <3>5. ReadSoFar'
      BY <1>1, <3>1, <3>2, <3>3, <3>4 DEF ReadSoFar, Burnt
    <3> QED BY <1>s, <3>1, <3>5 DEF SampledInv
  <2> QED BY <2>1, <2>2
<1>7. CASE StatStatus
  <2>1. CASE Answer("proc")
    BY <1>k, <1>7, <2>1 DEF StatStatus, Answer
  <2>2. CASE ~Answer("proc")
    <3>1. /\ lookAt = "status" /\ lookAt' = "statusRead" /\ answer' = "none"
          /\ UNCHANGED <<lookUsage, lookLag, lookGen>>
      BY <1>1, <1>7, <2>2 DEF StatStatus
    <3>2. ReadSoFar
      BY <3>1 DEF LookInv, UsedInv, Measured
    <3>3. ReadSoFar'
      BY <1>1, <3>1, <3>2 DEF ReadSoFar, Burnt
    <3> QED BY <1>s, <3>1, <3>3 DEF SampledInv
  <2> QED BY <2>1, <2>2
<1>8. CASE ReadStatusFile
  <2>1. /\ lookAt = "statusRead" /\ lookAt' = "details" /\ answer' = "none"
        /\ UNCHANGED <<lookUsage, lookLag>>
        /\ pid \in alive => uidRead' /\ lookGen' = lookGen \cup {gen[pid]}
        /\ pid \notin alive => lookGen' = lookGen
    BY <1>1, <1>8 DEF ReadStatusFile
  <2>2. /\ lookGen # {} /\ \A g \in lookGen : g <= gen[pid]
        /\ (\A g \in lookGen : g = gen[pid]) =>
             lookUsage.num <= Burnt(lookUsage.den + lookLag)
    BY <2>1 DEF LookInv, UsedInv, ReadSoFar, Measured
  <2>3. /\ lookGen' # {} /\ lookGen \subseteq lookGen'
        /\ \A g \in lookGen' : g <= gen[pid]
    <3>1. gen[pid] <= gen[pid]
      BY <1>1
    <3>2. lookGen' = lookGen \/ lookGen' = lookGen \cup {gen[pid]}
      BY <2>1
    <3> QED BY <2>2, <3>1, <3>2
  <2>4. ReadSoFar'
    BY <1>1, <2>1, <2>2, <2>3 DEF ReadSoFar, Burnt
  <2> QED BY <1>s, <2>1, <2>4 DEF SampledInv
<1>9. CASE Enrich
  <2>1. CASE Answer("proc")
    BY <1>k, <1>9, <2>1 DEF Enrich, Answer
  <2>2. CASE ~Answer("proc")
    <3>1. /\ lookAt = "details" /\ pid \in alive /\ lookAt' = "returned"
          /\ answer' = "row" /\ lookGen' = lookGen \cup {gen[pid]}
          /\ UNCHANGED <<lookUsage, lookLag, uidRead>>
      BY <1>9, <2>2 DEF Enrich
    <3>2. /\ lookGen # {} /\ \A g \in lookGen : g <= gen[pid]
          /\ (\A g \in lookGen : g = gen[pid]) =>
               lookUsage.num <= Burnt(lookUsage.den + lookLag)
          /\ ~uidRead => \E g \in lookGen : g < gen[pid]
      BY <3>1 DEF LookInv, UsedInv, ReadSoFar, Measured
    <3>3. /\ lookGen' # {} /\ lookGen \subseteq lookGen'
          /\ \A g \in lookGen' : g <= gen[pid]
      BY <1>1, <3>1, <3>2
    <3>4. ReadSoFar'
      BY <1>1, <3>1, <3>2, <3>3 DEF ReadSoFar, Burnt
    <3>5. UsedInv'
      BY <1>1, <3>1, <3>2, <3>3, <3>4 DEF UsedInv, Measured
    <3>6. LookupAnswers'
      BY <1>1, <1>2, <3>1 DEF LookupAnswers
    <3> QED
      BY <1>2, <3>1, <3>5, <3>6 DEF LookInv, AnsweredLast, SampledInv
  <2> QED BY <2>1, <2>2
<1> QED BY <1>3, <1>4, <1>5, <1>6, <1>7, <1>8, <1>9 DEF LookupStep

\* Every step preserves LookInv.
LEMMA LookInvStep == LookInv /\ [LookupNext]_lookupVars => LookInv'
<1> SUFFICES ASSUME LookInv, [LookupNext]_lookupVars PROVE LookInv'
  OBVIOUS
<1>1. LookBase'
  BY LookBaseStep DEF LookInv
<1>2. CASE BeginLookup
  <2>1. /\ lookAt = "idle" /\ lookAt' = "start" /\ answer = "none" /\ answer' = "none"
        /\ UNCHANGED <<alive, gen>>
        /\ met' = -1 => pid' \notin alive
    <3>1. \A p \in Pids : gen[p] # -1
      BY DEF LookInv, LookBase, LookupTypeOK, KernelTypeOK
    <3>2. pid' \in Pids
      BY <1>2 DEF BeginLookup
    <3> QED
      BY <1>2, <3>1, <3>2 DEF BeginLookup, kernelVars, LookInv, AnsweredLast
  <2> QED
    BY <1>1, <2>1
    DEF LookInv, AnsweredLast, SampledInv, UsedInv, MetInv, LookupAnswers, Measured
<1>3. CASE LookupStep
  BY <1>1, <1>3, LookInvCall
<1>4. CASE KernelSteps
  BY <1>1, <1>4, LookInvKernel
<1>5. CASE LookupCancelled \/ UNCHANGED lookupVars
  BY <1>1, <1>5
  DEF LookupCancelled, lookupVars, lookVars, kernelVars, LookInv, AnsweredLast,
      SampledInv, UsedInv, ReadSoFar, MetInv, LookupAnswers, Measured, Burnt
<1> QED BY <1>2, <1>3, <1>4, <1>5 DEF LookupNext, KernelSteps

\* GetProcess's row is of one process unless its pid was recycled on the way:
\* it has an owner, and no more CPU time than the machine could give it.
THEOREM LookupRowSound == LookupSpec => []RowOfOneProcess
<1>1. LookInv => RowOfOneProcess
  <2> SUFFICES ASSUME LookInv, answer = "row", lookGen = {gen[pid]}
               PROVE  uidRead /\ lookUsage.num <= Burnt(lookUsage.den + lookLag)
    BY DEF RowOfOneProcess, Burnt
  <2>1. gen[pid] \in Nat
    BY DEF LookInv, LookBase, LookupTypeOK, KernelTypeOK
  <2>2. ReadSoFar /\ (~uidRead => \E g \in lookGen : g < gen[pid])
    BY DEF LookInv, UsedInv
  <2> QED BY <2>1, <2>2 DEF ReadSoFar
<1> QED BY <1>1, LookInvInit, LookInvStep, PTL DEF LookupSpec

\* GetProcess gives no row for a pid that nobody had, and reports a process as
\* gone only when it is.
THEOREM LookupAnswersSound == LookupSpec => []LookupAnswers
<1>1. LookInv => LookupAnswers
  BY DEF LookInv
<1> QED BY <1>1, LookInvInit, LookInvStep, PTL DEF LookupSpec

-----------------------------------------------------------------------------
(* Disks (Mounts).                                                         *)

\* What GetDisks leaves out.
Unlisted == Excluded \cup Blockless \cup locked

\* Steady mounts are there, at their mount points.
SteadyThere ==
  /\ mounted \in Seq(Disks) /\ mounts \in Seq(Disks) /\ row \in 0..Len(mounts)
  /\ steady \subseteq Visible

\* What of the table has been dealt with is listed right.
ListedInv ==
  /\ diskAt \in {"idle", "table"} => disks = {} /\ row = 0
  /\ \A r \in disks : r[1] \in steady => r[2] = r[1] /\ r[1] \notin Unlisted
  /\ diskAt = "statfs" =>
       \A d \in steady :
         \/ \E i \in (row + 1)..Len(mounts) : mounts[i] = d
         \/ d \in Unlisted \/ <<d, d>> \in disks
  /\ diskAt = "returned" =>
       \A d \in steady : d \in Unlisted \/ <<d, d>> \in disks

MountInv == SteadyThere /\ ListedInv

\* At the end a steady mount is listed as itself, or not at all.
LEMMA MountDone == MountInv => SteadyDisksListed
<1> SUFFICES ASSUME MountInv, diskAt = "returned", NEW d \in steady
             PROVE  {r[2] : r \in {s \in disks : s[1] = d}}
                      = IF d \in Unlisted THEN {} ELSE {d}
  BY DEF SteadyDisksListed, Unlisted
<1> SUFFICES ASSUME NEW mine, mine = {s \in disks : s[1] = d}
             PROVE  {r[2] : r \in mine} = IF d \in Unlisted THEN {} ELSE {d}
  OBVIOUS
<1>1. \A r \in mine : r[2] = d /\ d \notin Unlisted
  BY DEF MountInv, ListedInv
<1>2. d \notin Unlisted => <<d, d>> \in mine
  BY DEF MountInv, ListedInv
<1>3. CASE d \in Unlisted
  BY <1>1, <1>3
<1>4. CASE d \notin Unlisted
  <2>1. <<d, d>> \in mine /\ <<d, d>>[2] = d
    BY <1>2, <1>4
  <2>2. {r[2] : r \in mine} = {d}
    BY <1>1, <2>1
  <2> QED BY <1>4, <2>2
<1> QED BY <1>3, <1>4

\* The first state.
LEMMA MountInvInit == MountInit => MountInv
<1> SUFFICES ASSUME MountInit PROVE MountInv
  OBVIOUS
<1>1. PICK S \in SUBSET (Disks \ {Root}) :
        \E s \in SetToSeqs(S) : mounted = <<Root>> \o s
  BY DEF MountInit
<1>2. PICK s \in SetToSeqs(S) : mounted = <<Root>> \o s
  BY <1>1
<1>3. Cardinality(S) \in Nat
  BY MountAssumption, FS_Subset, FS_CardinalityType
<1>4. s \in [1..Cardinality(S) -> S]
  BY DEF SetToSeqs
<1>5. s \in Seq(S)
  BY <1>3, <1>4, FunctionIsSeq
<1>6. s \in Seq(Disks) /\ <<Root>> \in Seq(Disks)
  BY <1>5, MountAssumption
<1>7. mounted \in Seq(Disks)
  BY <1>2, <1>6
<1>8. mounts = <<>> /\ row = 0 /\ disks = {} /\ steady = {} /\ diskAt = "idle"
  BY DEF MountInit
<1> QED BY <1>7, <1>8 DEF MountInv, SteadyThere, ListedInv

\* Mounts and unmounts leave a sequence, and what stays visible.
LEMMA RemountKeeps ==
  ASSUME MountInv, NEW d \in Disks, Mount(d) \/ Unmount(d)
  PROVE  MountInv'
<1>1. /\ Remount
      /\ \/ mounted' = Append(mounted, d)
         \/ \E i \in DOMAIN mounted : mounted' = RemoveAt(mounted, i)
  BY DEF Mount, Unmount
<1>2. /\ UNCHANGED <<diskAt, locked, mounts, row, disks>> /\ steady' = steady \cap Visible'
      /\ diskAt \in {"table", "statfs"}
  BY <1>1 DEF Remount
<1>3. mounted \in Seq(Disks) /\ DOMAIN mounted = 1..Len(mounted)
  BY DEF MountInv, SteadyThere
<1>4. mounted' \in Seq(Disks)
  <2>1. CASE mounted' = Append(mounted, d)
    BY <1>3, <2>1
  <2>2. ASSUME NEW i \in DOMAIN mounted, mounted' = RemoveAt(mounted, i)
        PROVE  mounted' \in Seq(Disks)
    <3>1. i \in 1..Len(mounted) /\ Len(mounted) \in Nat
      BY <1>3
    <3>2. SubSeq(mounted, 1, i - 1) \in Seq(Disks)
      BY <1>3, <3>1
    <3>3. SubSeq(mounted, i + 1, Len(mounted)) \in Seq(Disks)
      BY <1>3, <3>1
    <3> QED BY <2>2, <3>2, <3>3 DEF RemoveAt
  <2> QED BY <1>1, <2>1, <2>2
<1>5. steady' \subseteq steady /\ steady' \subseteq Visible'
  BY <1>2
<1>6. SteadyThere'
  BY <1>2, <1>4, <1>5 DEF MountInv, SteadyThere
<1>7. ListedInv'
  BY <1>2, <1>5 DEF MountInv, ListedInv, Unlisted
<1> QED BY <1>6, <1>7 DEF MountInv

\* Every step preserves MountInv.
LEMMA MountInvStep == MountInv /\ [MountNext]_diskVars => MountInv'
<1> SUFFICES ASSUME MountInv, [MountNext]_diskVars PROVE MountInv'
  OBVIOUS
<1>0. /\ mounts \in Seq(Disks) /\ Len(mounts) \in Nat /\ row \in 0..Len(mounts)
      /\ mounted \in Seq(Disks)
  BY DEF MountInv, SteadyThere
<1>1. CASE BeginDisks
  <2>1. /\ diskAt = "idle" /\ diskAt' = "table" /\ steady' = Visible
        /\ UNCHANGED <<mounted, locked, remounts, mounts, row, disks>>
    BY <1>1 DEF BeginDisks, tableVars
  <2>2. Visible' = Visible
    BY <2>1 DEF Visible, Mounted, At
  <2>3. disks = {} /\ row = 0
    BY <2>1 DEF MountInv, ListedInv
  <2> QED BY <1>0, <2>1, <2>2, <2>3 DEF MountInv, SteadyThere, ListedInv
<1>2. CASE DiskStep
  <2>0. /\ UNCHANGED <<mounted, locked, remounts, steady>> /\ Visible' = Visible
        /\ Unlisted' = Unlisted
    BY <1>2 DEF DiskStep, tableVars, Visible, Mounted, At, Unlisted
  <2>k. ASSUME mounts' = mounts, row' \in 0..Len(mounts), ListedInv' PROVE MountInv'
    BY <2>0, <2>k DEF MountInv, SteadyThere
  <2>1. CASE ReadMounts
    <3>1. /\ diskAt = "table" /\ UNCHANGED <<row, disks>> /\ disks = {} /\ row = 0
          /\ \/ diskAt' = "statfs" /\ mounts' = mounted
             \/ diskAt' = "failed" /\ mounts' = mounts
      BY <2>1 DEF ReadMounts, MountInv, ListedInv
    <3>2. CASE diskAt' = "failed"
      BY <1>0, <2>k, <3>1, <3>2 DEF ListedInv
    <3>3. CASE diskAt' = "statfs"
      <4>1. \A d \in steady : \E i \in 1..Len(mounted) : mounted[i] = d
        <5>1. DOMAIN mounted = 1..Len(mounted)
          BY <1>0
        <5> QED BY <5>1 DEF MountInv, SteadyThere, Visible, Mounted
      <4>2. mounts' = mounted /\ Len(mounted) \in Nat
        BY <1>0, <3>1, <3>3
      <4>3. ListedInv'
        BY <2>0, <3>1, <3>3, <4>1, <4>2 DEF ListedInv
      <4> QED BY <1>0, <2>0, <3>1, <4>2, <4>3 DEF MountInv, SteadyThere
    <3> QED BY <3>1, <3>2, <3>3
  <2>p. ASSUME diskAt = "statfs", row < Len(mounts), NEW e, e = mounts[row + 1],
               row' = row + 1, diskAt' = diskAt, mounts' = mounts,
               NEW D, disks' = disks \cup D,
               \A r \in D : r[1] = e /\ (e \in steady => r[2] = e /\ e \notin Unlisted),
               e \in steady /\ e \notin Unlisted => <<e, e>> \in D
        PROVE  MountInv'
    <3>1. \A i \in (row + 1)..Len(mounts) : i = row + 1 \/ i \in (row' + 1)..Len(mounts)
      BY <1>0, <2>p
    <3>2. ASSUME NEW d \in steady
          PROVE  \/ \E i \in (row' + 1)..Len(mounts) : mounts[i] = d
                 \/ d \in Unlisted \/ <<d, d>> \in disks'
      <4>1. \/ \E i \in (row + 1)..Len(mounts) : mounts[i] = d
            \/ d \in Unlisted \/ <<d, d>> \in disks
        BY <2>p DEF MountInv, ListedInv
      <4> QED BY <2>p, <3>1, <4>1
    <3>3. \A r \in disks' : r[1] \in steady => r[2] = r[1] /\ r[1] \notin Unlisted
      BY <2>p DEF MountInv, ListedInv
    <3>4. ListedInv'
      BY <2>0, <2>p, <3>2, <3>3 DEF ListedInv
    <3>5. row' \in 0..Len(mounts)
      BY <1>0, <2>p
    <3> QED BY <2>k, <2>p, <3>4, <3>5
  <2>2. CASE StatMount
    <3> DEFINE e == mounts[row + 1]
    <3>1. /\ diskAt = "statfs" /\ row < Len(mounts) /\ e \notin Excluded
          /\ row' = row + 1 /\ UNCHANGED <<diskAt, mounts>>
      BY <2>2 DEF StatMount
    <3>2. PICK reply \in Disks \cup {"error"} :
            /\ Statfs(e, reply)
            /\ disks' = IF reply \in Blockless \cup {"error"}
                        THEN disks ELSE disks \cup {<<e, reply>>}
      BY <2>2 DEF StatMount
    <3> DEFINE D == IF reply \in Blockless \cup {"error"} THEN {} ELSE {<<e, reply>>}
    <3>3. disks' = disks \cup D
      BY <3>2
    <3>4. ASSUME e \in steady
          PROVE  \/ reply = e /\ e \notin locked /\ e # "error"
                 \/ reply = "error" /\ e \in locked
      <4>1. At(Point[e]) = e /\ e \in Mounted
        BY <3>4 DEF MountInv, SteadyThere, Visible
      <4>2. e \in Disks
        BY <1>0, <3>1
      <4>3. e # "error"
        BY <4>2, MountAssumption
      <4> QED BY <3>2, <4>1, <4>3 DEF Statfs
    <3>5. \A r \in D : r[1] = e /\ (e \in steady => r[2] = e /\ e \notin Unlisted)
      <4>1. ASSUME reply \notin Blockless \cup {"error"}
            PROVE  e \in steady => reply = e /\ e \notin Unlisted
        BY <3>1, <3>4, <4>1 DEF Unlisted
      <4> QED BY <4>1
    <3>6. e \in steady /\ e \notin Unlisted => <<e, e>> \in D
      BY <3>4 DEF Unlisted
    <3> HIDE DEF e, D
    <3>7. e = mounts[row + 1]
      BY DEF e
    <3> QED BY <2>p, <3>1, <3>3, <3>5, <3>6, <3>7
  <2>3. CASE SkipExcluded
    <3>1. /\ diskAt = "statfs" /\ row < Len(mounts) /\ mounts[row + 1] \in Unlisted
          /\ row' = row + 1 /\ UNCHANGED <<diskAt, mounts, disks>>
      BY <2>3 DEF SkipExcluded, Unlisted
    <3> DEFINE e == mounts[row + 1]
               D == {}
    <3>2. /\ disks' = disks \cup D /\ e = mounts[row + 1]
          /\ \A r \in D : r[1] = e /\ (e \in steady => r[2] = e /\ e \notin Unlisted)
          /\ e \in steady /\ e \notin Unlisted => <<e, e>> \in D
      BY <3>1
    <3> HIDE DEF e, D
    <3> QED BY <2>p, <3>1, <3>2
  <2>4. CASE DisksDone
    <3>1. /\ diskAt = "statfs" /\ row = Len(mounts) /\ diskAt' = "returned"
          /\ UNCHANGED <<mounts, row, disks>>
      BY <2>4 DEF DisksDone
    <3>2. (row + 1)..Len(mounts) = {}
      BY <1>0, <3>1
    <3>3. ListedInv'
      BY <2>0, <3>1, <3>2 DEF MountInv, ListedInv
    <3> QED BY <1>0, <2>k, <3>1, <3>3
  <2> QED BY <1>2, <2>1, <2>2, <2>3, <2>4 DEF DiskStep
<1>3. ASSUME NEW d \in Disks, Mount(d) \/ Unmount(d) PROVE MountInv'
  BY <1>3, RemountKeeps
<1>4. CASE UNCHANGED diskVars
  <2>1. UNCHANGED <<diskAt, mounted, locked, mounts, row, disks, steady>>
    BY <1>4 DEF diskVars, tableVars
  <2>2. Visible' = Visible /\ Unlisted' = Unlisted
    BY <2>1 DEF Visible, Mounted, At, Unlisted
  <2> QED BY <2>1, <2>2 DEF MountInv, SteadyThere, ListedInv
<1> QED BY <1>1, <1>2, <1>3, <1>4 DEF MountNext

\* GetDisks lists a mount that stays where it is with its own figures, once,
\* unless it is excluded, has no blocks or cannot be stat'ed; whatever else is
\* mounted, and however often, while it runs.
THEOREM DisksSound == MountSpec => []SteadyDisksListed
BY MountDone, MountInvInit, MountInvStep, PTL DEF MountSpec

-----------------------------------------------------------------------------
(* Protocol counters (ProtocolStats).                                      *)

\* Names and values of the i-th protocol are the lines 2i - 1 and 2i, and there
\* are no others.
LEMMA LinePlaces ==
  \A n \in Nat \ {0} : \E i \in Nat \ {0} :
    \/ n = 2 * i - 1 /\ (n + 1) \div 2 = i /\ n % 2 = 1
    \/ n = 2 * i /\ (n + 1) \div 2 = i /\ n % 2 = 0
<1> SUFFICES ASSUME NEW n \in Nat \ {0}
             PROVE  \E i \in Nat \ {0} :
                      \/ n = 2 * i - 1 /\ (n + 1) \div 2 = i /\ n % 2 = 1
                      \/ n = 2 * i /\ (n + 1) \div 2 = i /\ n % 2 = 0
  OBVIOUS
<1> DEFINE i == (n + 1) \div 2
<1>1. i \in Nat \ {0}
  OBVIOUS
<1>2. \/ n = 2 * i - 1 /\ n % 2 = 1
      \/ n = 2 * i /\ n % 2 = 0
  OBVIOUS
<1> QED BY <1>1, <1>2

\* The converse.
LEMMA LineAt ==
  ASSUME NEW P, NEW i \in Nat \ {0}
  PROVE  LineOf(P, 2 * i - 1) = <<P[i], "names">> /\ LineOf(P, 2 * i) = <<P[i], "values">>
<1>1. ((2 * i - 1) + 1) \div 2 = i /\ (2 * i - 1) % 2 = 1
  OBVIOUS
<1>2. ((2 * i) + 1) \div 2 = i /\ (2 * i) % 2 = 0
  OBVIOUS
<1> QED BY <1>1, <1>2 DEF LineOf

\* A table's lines are of its protocols, no two of which are the same.
LEMMA TableLines ==
  ASSUME NEW P, NEW t \in Tables, NEW f \in {1, 2}, P = t[f]
  PROVE  /\ P \in Seq(Protocols) /\ Len(P) \in Nat
         /\ \A i, j \in 1..Len(P) : P[i] = P[j] => i = j
         /\ \A i \in 1..Len(P) : P[i] \in Protocols
         /\ \A n \in 1..(2 * Len(P)) :
              /\ LineOf(P, n) \in Lines
              /\ \E i \in 1..Len(P) :
                   \/ n = 2 * i - 1 /\ LineOf(P, n) = <<P[i], "names">>
                   \/ n = 2 * i /\ LineOf(P, n) = <<P[i], "values">>
<1>1. P \in Seq(Protocols)
  BY ProtocolAssumption
<1>2. \A i, j \in 1..Len(P) : P[i] = P[j] => i = j
  <2>1. \A i, j \in DOMAIN P : P[i] = P[j] => i = j
    BY ProtocolAssumption
  <2>2. DOMAIN P = 1..Len(P)
    BY <1>1
  <2> QED BY <2>1, <2>2
<1>3. Len(P) \in Nat /\ \A i \in 1..Len(P) : P[i] \in Protocols
  BY <1>1
<1>4. ASSUME NEW n \in 1..(2 * Len(P))
      PROVE  /\ LineOf(P, n) \in Lines
             /\ \E i \in 1..Len(P) :
                   \/ n = 2 * i - 1 /\ LineOf(P, n) = <<P[i], "names">>
                   \/ n = 2 * i /\ LineOf(P, n) = <<P[i], "values">>
  <2>1. n \in Nat \ {0} /\ n <= 2 * Len(P)
    BY <1>3
  <2>2. PICK i \in Nat \ {0} : n = 2 * i - 1 \/ n = 2 * i
    BY <2>1, LinePlaces
  <2>3. i \in 1..Len(P)
    BY <1>3, <2>1, <2>2
  <2>4. \/ n = 2 * i - 1 /\ LineOf(P, n) = <<P[i], "names">>
        \/ n = 2 * i /\ LineOf(P, n) = <<P[i], "values">>
    BY <2>2, LineAt
  <2>5. LineOf(P, n) \in Lines
    BY <1>3, <2>3, <2>4 DEF Lines, Kinds
  <2> QED BY <2>3, <2>4, <2>5
<1> QED BY <1>1, <1>2, <1>3, <1>4

\* The protocols of the file that is being parsed, and what of the files has been.
Names == tables[fileNo]
GoneBy(f, i) == f < fileNo \/ (f = fileNo /\ parseAt = "lines" /\ lineNo >= 2 * i)

\* The columns of p that both lines have.
Both(p) == {k \in 1..MaxColumns : \A l \in Kinds : k <= width[<<p, l>>]}

\* A header that waits is a line gone by; that of the protocol whose values are
\* next waits, if it was there.
PendingInv ==
  parseAt = "lines" =>
    /\ fileNo \in {1, 2} /\ lineNo \in 0..(2 * Len(Names))
    /\ pending # NoLine => \E m \in 1..lineNo : pending = LineOf(Names, m)
    /\ \A i \in 1..Len(Names) :
         lineNo = 2 * i - 1 /\ width[<<Names[i], "names">>] > 0
           => pending = <<Names[i], "names">>

\* Every counter is paired, and every whole protocol gone by has its columns.
PairedInv ==
  /\ \A c \in protocols : /\ c[2] = <<c[1], "names">> /\ c[3] = <<c[1], "values">>
                          /\ c[4] \in Both(c[1])
  /\ \A f \in readable : \A i \in 1..Len(tables[f]) :
       LET p == tables[f][i]
       IN  GoneBy(f, i) /\ (\A k \in Kinds : width[<<p, k>>] > 0) =>
             \A k \in Both(p) : \E c \in protocols : c[1] = p /\ c[4] = k

ParseTypes ==
  /\ tables \in Tables /\ width \in [Lines -> 0..MaxColumns] /\ readable \subseteq {1, 2}
  /\ fileNo \in 1..3 /\ lineNo \in Nat
  /\ parseAt = "returned" => fileNo = 3

ParseInv == ParseTypes /\ PendingInv /\ PairedInv

\* A whole protocol is one of a file that is there, at some place.
LEMMA ParseDone == ParseInv => CountersPaired
<1> SUFFICES ASSUME ParseInv PROVE CountersPaired
  OBVIOUS
<1>1. \A c \in protocols : c[2] = <<c[1], "names">> /\ c[3] = <<c[1], "values">>
  BY DEF ParseInv, PairedInv
<1>2. ASSUME parseAt = "returned", NEW p \in Protocols, Whole(p)
      PROVE  {c[4] : c \in {d \in protocols : d[1] = p}} = Both(p)
  <2>1. PICK f \in readable : \E i \in DOMAIN tables[f] : tables[f][i] = p
    BY <1>2 DEF Whole
  <2>2. PICK i \in DOMAIN tables[f] : tables[f][i] = p
    BY <2>1
  <2>3. f \in {1, 2} /\ tables \in Tables
    BY DEF ParseInv, ParseTypes
  <2>4. tables[f] \in Seq(Protocols)
    BY <2>3, TableLines
  <2>5. i \in 1..Len(tables[f])
    BY <2>2, <2>4
  <2>6. GoneBy(f, i)
    BY <1>2, <2>3 DEF ParseInv, ParseTypes, GoneBy
  <2>7. \A k \in Both(p) : \E c \in protocols : c[1] = p /\ c[4] = k
    BY <1>2, <2>1, <2>2, <2>5, <2>6, SMTT(30) DEF ParseInv, PairedInv, Whole
  <2>8. \A c \in protocols : c[4] \in Both(c[1])
    BY DEF ParseInv, PairedInv
  <2> HIDE DEF Both
  <2> QED BY <2>7, <2>8
<1> QED BY <1>1, <1>2 DEF CountersPaired, Both

\* The first state.
LEMMA ParseInvInit == ProtocolInit => ParseInv
<1> SUFFICES ASSUME ProtocolInit PROVE ParseInv
  OBVIOUS
<1>1. readable \subseteq {1, 2} /\ parseAt = "idle" /\ fileNo = 1 /\ protocols = {}
  BY DEF ProtocolInit
<1>2. \A f \in readable, i \in Nat : ~GoneBy(f, i)
  BY <1>1 DEF GoneBy
<1>3. \A f \in readable : Len(tables[f]) \in Nat
  BY <1>1, TableLines DEF ProtocolInit
<1>4. PairedInv
  BY <1>1, <1>2, <1>3 DEF PairedInv
<1> QED BY <1>1, <1>4 DEF ProtocolInit, ParseInv, ParseTypes, PendingInv

\* What the counters of a line are: its own, in the columns of both.
LEMMA ColumnsOf ==
  ASSUME NEW p \in Protocols, ParseTypes
  PROVE  /\ Columns(<<p, "names">>, <<p, "values">>)
              = {<<p, <<p, "names">>, <<p, "values">>, k>> : k \in Both(p)}
         /\ \A h : Columns(h, <<p, "names">>) = {}
<1>1. Both(p) = {k \in 1..MaxColumns : k <= width[<<p, "names">>] /\ k <= width[<<p, "values">>]}
  BY DEF Both, Kinds
<1> QED BY <1>1 DEF Columns

\* A line that pairs is the values of the protocol whose names were the line
\* before it.
LEMMA PairsItsOwn ==
  ASSUME ParseInv, parseAt = "lines", NEW i \in 1..Len(Names),
         lineNo + 1 = 2 * i - 1 \/ lineNo + 1 = 2 * i,
         pending # NoLine, pending[1] = Names[i]
  PROVE  lineNo + 1 = 2 * i /\ pending = <<Names[i], "names">>
<1>0. fileNo \in {1, 2} /\ tables \in Tables /\ lineNo \in Nat
  BY DEF ParseInv, ParseTypes, PendingInv
<1>1. /\ Len(Names) \in Nat
      /\ \A m, n \in 1..Len(Names) : Names[m] = Names[n] => m = n
      /\ \A n \in 1..(2 * Len(Names)) : \E m \in 1..Len(Names) :
           \/ n = 2 * m - 1 /\ LineOf(Names, n) = <<Names[m], "names">>
           \/ n = 2 * m /\ LineOf(Names, n) = <<Names[m], "values">>
  <2>1. Names = tables[fileNo]
    BY DEF Names
  <2> QED BY <1>0, <2>1, TableLines
<1>2. PICK n \in 1..lineNo : pending = LineOf(Names, n)
  BY DEF ParseInv, PendingInv
<1>3. n \in 1..(2 * Len(Names))
  BY <1>0, <1>1, <1>2 DEF ParseInv, PendingInv
<1>4. PICK m \in 1..Len(Names) :
           \/ n = 2 * m - 1 /\ LineOf(Names, n) = <<Names[m], "names">>
           \/ n = 2 * m /\ LineOf(Names, n) = <<Names[m], "values">>
  BY <1>1, <1>3
<1>5. Names[m] = Names[i]
  BY <1>2, <1>4
<1>6. m = i
  BY <1>1, <1>5
<1> QED BY <1>0, <1>1, <1>2, <1>4, <1>6

\* One line more.
LEMMA LineParsed ==
  ASSUME ParseInv, ParseLine
  PROVE  ParseInv'
<1> DEFINE n == lineNo + 1
           line == LineOf(Names, n)
<1>0. /\ parseAt = "lines" /\ parseAt' = "lines" /\ lineNo' = n
      /\ UNCHANGED <<tables, width, readable, fileNo>> /\ Names' = Names
      /\ fileNo \in {1, 2} /\ lineNo \in Nat /\ lineNo < 2 * Len(Names)
      /\ tables \in Tables
  BY DEF ParseInv, ParseTypes, PendingInv, ParseLine, Names
<1>1. /\ Len(Names) \in Nat
      /\ \A i, j \in 1..Len(Names) : Names[i] = Names[j] => i = j
      /\ \A k \in 1..(2 * Len(Names)) :
           /\ LineOf(Names, k) \in Lines
           /\ \E i \in 1..Len(Names) :
                \/ k = 2 * i - 1 /\ LineOf(Names, k) = <<Names[i], "names">>
                \/ k = 2 * i /\ LineOf(Names, k) = <<Names[i], "values">>
      /\ \A i \in 1..Len(Names) : Names[i] \in Protocols
  <2>1. Names = tables[fileNo]
    BY DEF Names
  <2> QED BY <1>0, <2>1, TableLines
<1>2. n \in 1..(2 * Len(Names)) /\ n \in Nat /\ n \in 0..(2 * Len(Names)) /\ lineNo < n
  BY <1>0, <1>1
<1>3. line \in Lines /\ width[line] \in Nat
  BY <1>1, <1>2 DEF ParseInv, ParseTypes
<1>4. PICK i \in 1..Len(Names) :
           \/ n = 2 * i - 1 /\ line = <<Names[i], "names">>
           \/ n = 2 * i /\ line = <<Names[i], "values">>
  BY <1>1, <1>2
<1>5. line[1] = Names[i]
  BY <1>4
<1>6. \/ width[line] = 0 /\ pending' = pending /\ protocols' = protocols
      \/ /\ width[line] # 0 /\ Pairs(line)
         /\ protocols' = protocols \cup Columns(pending, line) /\ pending' = NoLine
      \/ width[line] # 0 /\ ~Pairs(line) /\ pending' = line /\ protocols' = protocols
  BY DEF ParseLine, Names
<1> HIDE DEF n, line
<1>7. Pairs(line) => n = 2 * i /\ pending = <<Names[i], "names">>
  BY <1>0, <1>4, <1>5, PairsItsOwn DEF Pairs, n
<1>8. ParseTypes'
  BY <1>0, <1>2 DEF ParseInv, ParseTypes
<1>9. PendingInv'
  <2>1. pending' # NoLine => \E m \in 1..n : pending' = LineOf(Names, m)
    <3>1. CASE pending' = pending
      BY <1>0, <1>2, <3>1 DEF ParseInv, PendingInv
    <3>2. CASE pending' = line
      <4>1. n \in 1..n
        BY <1>2
      <4> QED BY <3>2, <4>1 DEF line
    <3> QED BY <1>6, <3>1, <3>2
  <2>2. ASSUME NEW j \in 1..Len(Names), n = 2 * j - 1, width[<<Names[j], "names">>] > 0
        PROVE  pending' = <<Names[j], "names">>
    <3>1. j = i /\ n # 2 * i
      BY <1>1, <1>4, <2>2
    <3>2. line = <<Names[j], "names">>
      BY <1>4, <3>1
    <3>3. width[line] # 0
      BY <1>3, <2>2, <3>2
    <3> QED BY <1>6, <1>7, <3>1, <3>2, <3>3
  <2> QED BY <1>0, <1>2, <2>1, <2>2 DEF PendingInv
<1>10. protocols' = protocols
       \/ /\ pending = <<Names[i], "names">> /\ line = <<Names[i], "values">>
          /\ protocols' = protocols
               \cup {<<Names[i], <<Names[i], "names">>, <<Names[i], "values">>, k>> :
                       k \in Both(Names[i])}
  <2>1. CASE width[line] # 0 /\ Pairs(line)
    <3>1. pending = <<Names[i], "names">> /\ line = <<Names[i], "values">>
      BY <1>1, <1>2, <1>4, <1>7, <2>1
    <3> QED BY <1>1, <1>6, <2>1, <3>1, ColumnsOf DEF ParseInv
  <2> QED BY <1>6, <2>1
<1>11. protocols \subseteq protocols'
  BY <1>6
<1>12. \A p : Both(p)' = Both(p)
  BY <1>0 DEF Both
<1>13. \A c \in protocols' : /\ c[2] = <<c[1], "names">> /\ c[3] = <<c[1], "values">>
                             /\ c[4] \in Both(c[1])
  <2> HIDE DEF Both
  <2> QED BY <1>10 DEF ParseInv, PairedInv
<1>14. ASSUME NEW f \in readable, NEW j \in 1..Len(tables[f]), GoneBy(f, j)',
              \A k \in Kinds : width[<<tables[f][j], k>>] > 0,
              NEW k \in Both(tables[f][j])
       PROVE  \E c \in protocols' : c[1] = tables[f][j] /\ c[4] = k
  <2>1. CASE GoneBy(f, j)
    <3>1. \E c \in protocols : c[1] = tables[f][j] /\ c[4] = k
      BY <1>14, <2>1, SMTT(30) DEF ParseInv, PairedInv
    <3> QED BY <1>11, <3>1
  <2>2. CASE ~GoneBy(f, j)
    <3>0. Len(tables[f]) \in Nat
      BY <1>0, TableLines DEF ParseInv, ParseTypes
    <3>1. f = fileNo /\ n = 2 * j
      BY <1>0, <1>2, <1>14, <2>2, <3>0 DEF GoneBy, n
    <3>2. j = i /\ line = <<Names[i], "values">> /\ tables[f][j] = Names[i]
      BY <1>1, <1>4, <3>1 DEF Names
    <3>3. width[line] # 0 /\ width[<<Names[i], "names">>] > 0
      <4>1. "names" \in Kinds /\ "values" \in Kinds
        BY DEF Kinds
      <4>2. width[line] > 0 /\ width[<<Names[i], "names">>] > 0
        BY <1>14, <3>2, <4>1
      <4> QED BY <1>3, <4>2
    <3>4. pending = <<Names[i], "names">>
      <4>1. lineNo = 2 * i - 1
        BY <1>0, <1>1, <3>1, <3>2 DEF n
      <4> QED BY <1>0, <3>3, <4>1 DEF ParseInv, PendingInv
    <3>5. Pairs(line)
      BY <1>5, <3>4 DEF Pairs, NoLine
    <3>6. protocols' = protocols
               \cup {<<Names[i], <<Names[i], "names">>, <<Names[i], "values">>, x>> :
                       x \in Both(Names[i])}
      BY <1>1, <1>6, <3>2, <3>3, <3>4, <3>5, ColumnsOf DEF ParseInv
    <3>7. <<Names[i], <<Names[i], "names">>, <<Names[i], "values">>, k>> \in protocols'
      BY <1>14, <3>2, <3>6
    <3> QED BY <3>2, <3>7
  <2> QED BY <2>1, <2>2
<1>15. PairedInv'
  <2>1. readable' = readable /\ tables' = tables /\ width' = width
    BY <1>0
  <2>2. ASSUME NEW f \in readable, NEW j \in 1..Len(tables[f])
        PROVE  LET p == tables[f][j]
               IN  GoneBy(f, j)' /\ (\A k \in Kinds : width[<<p, k>>] > 0) =>
                     \A k \in Both(p) : \E c \in protocols' : c[1] = p /\ c[4] = k
    BY <1>14
  <2> QED BY <1>13, <2>1, <2>2 DEF PairedInv, Both
<1> QED BY <1>8, <1>9, <1>15 DEF ParseInv

\* Every step preserves ParseInv.
LEMMA ParseInvStep == ParseInv /\ [ProtocolNext]_protoVars => ParseInv'
<1> SUFFICES ASSUME ParseInv, [ProtocolNext]_protoVars PROVE ParseInv'
  OBVIOUS
<1>k. ASSUME UNCHANGED <<tables, width, readable, protocols>>, ParseTypes', PendingInv',
             \A f \in readable : \A i \in 1..Len(tables[f]) : GoneBy(f, i)' => GoneBy(f, i)
      PROVE  ParseInv'
  BY <1>k DEF ParseInv, PairedInv, Both
<1>0. \A f \in readable : f \in {1, 2} /\ Len(tables[f]) \in Nat
  BY TableLines DEF ParseInv, ParseTypes
<1>1. CASE BeginParse
  BY <1>k, <1>1 DEF BeginParse, ParseInv, ParseTypes, PendingInv, GoneBy
<1>2. CASE OpenFile
  <2>1. /\ UNCHANGED <<tables, width, readable, protocols>> /\ parseAt = "open"
        /\ lineNo' = 0 /\ pending' = NoLine /\ fileNo \in {1, 2}
        /\ \/ fileNo \in readable /\ parseAt' = "lines" /\ fileNo' = fileNo
           \/ fileNo \notin readable /\ parseAt' = "open" /\ fileNo' = fileNo + 1
    BY <1>2 DEF OpenFile, ParseInv, ParseTypes
  <2>2. ParseTypes'
    BY <2>1 DEF ParseInv, ParseTypes
  <2>3. PendingInv'
    <3>1. Len(Names)' \in Nat \/ parseAt' # "lines"
      BY <1>0, <2>1 DEF Names
    <3>2. \A i \in 1..Len(Names)' : lineNo' # 2 * i - 1
      BY <2>1
    <3> QED BY <2>1, <3>1, <3>2 DEF PendingInv
  <2>4. \A f \in readable : \A i \in 1..Len(tables[f]) : GoneBy(f, i)' => GoneBy(f, i)
    BY <1>0, <2>1 DEF GoneBy
  <2> QED BY <1>k, <2>1, <2>2, <2>3, <2>4
<1>3. CASE FilesRead
  <2>1. fileNo = 3
    BY <1>3 DEF FilesRead, ParseInv, ParseTypes
  <2> QED BY <1>k, <1>3, <2>1 DEF FilesRead, ParseInv, ParseTypes, PendingInv, GoneBy
<1>4. CASE ParseLine
  BY <1>4, LineParsed
<1>5. CASE FileParsed
  <2>1. /\ parseAt = "lines" /\ lineNo = 2 * Len(tables[fileNo])
        /\ parseAt' = "open" /\ fileNo' = fileNo + 1 /\ fileNo \in {1, 2}
        /\ UNCHANGED <<tables, width, readable, lineNo, pending, protocols>>
    BY <1>5 DEF FileParsed, ParseInv, PendingInv
  <2>2. \A f \in readable : \A i \in 1..Len(tables[f]) : GoneBy(f, i)' => GoneBy(f, i)
    BY <1>0, <2>1 DEF GoneBy
  <2>3. ParseTypes' /\ PendingInv'
    BY <2>1 DEF ParseInv, ParseTypes, PendingInv
  <2> QED BY <1>k, <2>1, <2>2, <2>3
<1>6. CASE UNCHANGED protoVars
  BY <1>k, <1>6 DEF protoVars, ParseInv, ParseTypes, PendingInv, GoneBy, Names
<1> QED BY <1>1, <1>2, <1>3, <1>4, <1>5, <1>6 DEF ProtocolNext

\* Whatever lines are missing from the two files, a counter of GetProtocolStats
\* is its protocol's own number under its own name, and a protocol read whole
\* has every column; for any tables and any widths.
THEOREM CountersSound == ProtocolSpec => []CountersPaired
BY ParseDone, ParseInvInit, ParseInvStep, PTL DEF ProtocolSpec

-----------------------------------------------------------------------------
(* Types of every call, together (MCCalls).                                *)

\* What CountTypes and TablesInv leave open of the types of Sockets.
CountPhase ==
  /\ countAt \in {"idle", "comm", "tcp", "tcp6", "fds", "links", "returned"}
  /\ ofName \in BOOLEAN /\ changes \in 0..MaxChanges /\ estEver \subseteq Inodes

\* It holds at first and is preserved.
LEMMA CountPhaseKept ==
  /\ SocketInit => CountPhase
  /\ CountPhase /\ [CountNext]_countVars => CountPhase'
<1>1. SocketInit => CountPhase
  <2> SUFFICES ASSUME SocketInit PROVE CountPhase
    OBVIOUS
  <2>1. countAt = "idle" /\ changes = 0 /\ estEver = {}
    BY DEF SocketInit
  <2>2. ofName = FALSE
    BY DEF SocketInit
  <2>3. ofName \in BOOLEAN
    BY <2>2, Zenon
  <2>4. changes \in 0..MaxChanges
    BY <2>1, SocketAssumption
  <2> QED BY <2>1, <2>3, <2>4 DEF CountPhase
<1>2. ASSUME CountPhase, [CountNext]_countVars PROVE CountPhase'
  <2>1. ofName' \in BOOLEAN
    <3>1. ofName \in BOOLEAN /\ (ofName' \in BOOLEAN \/ ofName' = ofName)
      BY <1>2, Zenon
      DEF CountPhase, CountNext, BeginCount, CountStep, SocketsChange, countVars
    <3> QED BY <3>1
  <2>2. changes' = changes \/ changes' \in 0..MaxChanges
    <3>1. changes' = changes \/ (changes < MaxChanges /\ changes' = changes + 1)
      BY <1>2, Zenon
      DEF CountNext, BeginCount, CountStep, SocketsChange, countVars, socketVars
    <3>2. changes \in 0..MaxChanges /\ MaxChanges \in Nat
      BY <1>2, SocketAssumption DEF CountPhase
    <3> QED BY <3>1, <3>2
  <2>3. \/ estEver' = estEver \/ estEver' = InState("established")
        \/ estEver' = estEver \cup InState("established")'
    BY <1>2, Zenon
    DEF CountNext, BeginCount, CountStep, SocketsChange, countVars, historyVars
  <2>4. estEver' \subseteq Inodes
    <3>1. estEver \subseteq Inodes
      BY <1>2 DEF CountPhase
    <3> QED BY <2>3, <3>1 DEF InState
  <2>5. countAt' = countAt
        \/ countAt' \in {"comm", "tcp", "tcp6", "fds", "links", "returned"}
    BY <1>2
    DEF CountNext, BeginCount, CountStep, SocketsChange, NamesRead, ReadTCP, ReadTCP6,
        LinksRead, AllCounted, ReadComm, ReadFdDir, ReadLink, countVars
  <2> QED BY <1>2, <2>1, <2>2, <2>4, <2>5 DEF CountPhase
<1> QED BY <1>1, <1>2

\* Together they are the types.
LEMMA CountTyped == CountInv /\ CountPhase => SocketTypeOK
<1> SUFFICES ASSUME CountInv, CountPhase PROVE SocketTypeOK
  OBVIOUS
<1>1. fds \subseteq running \X Numbers \X (Inodes \ InState("new"))
  <2>1. \A h \in fds : h[1] \in running /\ h[2] \in Numbers /\ h = <<h[1], h[2], h[3]>>
                      /\ h[3] \in Inodes \ InState("new")
    BY Triples DEF CountInv, CountTypes, World, InState
  <2> QED BY <2>1
<1>2. estSince \subseteq estEver /\ records \in [Listed -> SUBSET Inodes]
  BY DEF CountInv, TablesInv, Bracketed
<1> QED BY <1>1, <1>2 DEF CountInv, CountTypes, World, CountPhase, SocketTypeOK

\* A sequence with one element removed.
LEMMA Removed ==
  ASSUME NEW T, NEW s \in Seq(T), NEW i \in 1..Len(s)
  PROVE  LET r == RemoveAt(s, i)
         IN  /\ r \in Seq(T) /\ Len(r) = Len(s) - 1
             /\ \A j \in 1..(Len(s) - 1) : r[j] = IF j < i THEN s[j] ELSE s[j + 1]
<1> DEFINE a == SubSeq(s, 1, i - 1)
           b == SubSeq(s, i + 1, Len(s))
<1>1. /\ a \in Seq(T) /\ Len(a) = i - 1
      /\ \A j \in 1..(i - 1) : a[j] = s[j]
  OBVIOUS
<1>2. /\ b \in Seq(T) /\ Len(b) = Len(s) - i
      /\ \A j \in 1..(Len(s) - i) : b[j] = s[j + i]
  OBVIOUS
<1> HIDE DEF a, b
<1>3. /\ a \o b \in Seq(T) /\ Len(a \o b) = Len(s) - 1
      /\ \A j \in 1..(Len(s) - 1) : (a \o b)[j] = IF j < i THEN s[j] ELSE s[j + 1]
  <2>1. /\ a \o b \in Seq(T) /\ Len(a \o b) = Len(a) + Len(b)
        /\ \A j \in 1..(Len(a) + Len(b)) :
             (a \o b)[j] = IF j <= Len(a) THEN a[j] ELSE b[j - Len(a)]
    BY <1>1, <1>2, ConcatProperties
  <2>2. Len(s) \in Nat /\ i \in Int
    OBVIOUS
  <2>3. ASSUME NEW j \in 1..(Len(s) - 1)
        PROVE  (a \o b)[j] = IF j < i THEN s[j] ELSE s[j + 1]
    <3>1. CASE j < i
      BY <1>1, <1>2, <2>1, <2>2, <3>1
    <3>2. CASE ~(j < i)
      <4>1. (a \o b)[j] = b[j - (i - 1)] /\ j - (i - 1) \in 1..(Len(s) - i)
        BY <1>1, <1>2, <2>1, <2>2, <3>2
      <4>2. j - (i - 1) + i = j + 1
        BY <2>2
      <4> QED BY <1>2, <3>2, <4>1, <4>2
    <3> QED BY <3>1, <3>2
  <2> QED BY <1>1, <1>2, <2>1, <2>2, <2>3
<1> QED BY <1>3 DEF RemoveAt, a, b

\* What MountInv leaves open of the types of Mounts: the root is mounted first,
\* and nothing twice.
MountOrder ==
  /\ Len(mounted) >= 1 /\ mounted[1] = Root
  /\ \A i, j \in 1..Len(mounted) : mounted[i] = mounted[j] => i = j
  /\ diskAt \in {"idle", "table", "statfs", "returned", "failed"}
  /\ locked \subseteq Disks \ {Root} /\ remounts \in 0..MaxMounts
  /\ disks \subseteq Disks \X Disks

\* It holds at first.
LEMMA MountOrderInit == MountInit => MountOrder
<1> SUFFICES ASSUME MountInit PROVE MountOrder
  OBVIOUS
<1>1. PICK S \in SUBSET (Disks \ {Root}) :
        \E s \in SetToSeqs(S) : mounted = <<Root>> \o s
  BY DEF MountInit
<1>2. PICK s \in SetToSeqs(S) : mounted = <<Root>> \o s
  BY <1>1
<1> DEFINE n == Cardinality(S)
<1>3. n \in Nat
  BY MountAssumption, FS_Subset, FS_CardinalityType
<1>4. s \in [1..n -> S] /\ \A i, j \in 1..n : i # j => s[i] # s[j]
  BY DEF SetToSeqs
<1> HIDE DEF n
<1>5. s \in Seq(S) /\ Len(s) = n
  BY <1>3, <1>4, FunctionIsSeq
<1>6. s \in Seq(Disks) /\ Root \in Disks /\ \A i \in 1..n : s[i] # Root
  BY <1>4, <1>5, MountAssumption
<1>7. /\ Len(mounted) = n + 1 /\ mounted[1] = Root
      /\ \A i \in 2..(n + 1) : mounted[i] = s[i - 1] /\ i - 1 \in 1..n
  BY <1>2, <1>3, <1>5, <1>6
<1>8. \A i, j \in 1..Len(mounted) : mounted[i] = mounted[j] => i = j
  <2> SUFFICES ASSUME NEW i \in 1..(n + 1), NEW j \in 1..(n + 1), mounted[i] = mounted[j]
               PROVE  i = j
    BY <1>7
  <2>1. CASE i = 1 \/ j = 1
    BY <1>3, <1>6, <1>7, <2>1
  <2>2. CASE i # 1 /\ j # 1
    <3>1. i \in 2..(n + 1) /\ j \in 2..(n + 1)
      BY <1>3, <2>2
    <3>2. s[i - 1] = s[j - 1] /\ i - 1 \in 1..n /\ j - 1 \in 1..n
      BY <1>7, <3>1
    <3>3. i - 1 = j - 1
      BY <1>4, <3>2
    <3> QED BY <3>3
  <2> QED BY <2>1, <2>2
<1> QED BY <1>3, <1>7, <1>8, MountAssumption DEF MountInit, MountOrder

\* And is preserved: the root is never unmounted, and a mount is made once.
LEMMA MountOrderStep ==
  MountInv /\ MountOrder /\ [MountNext]_diskVars => MountOrder'
<1> SUFFICES ASSUME MountInv, MountOrder, [MountNext]_diskVars PROVE MountOrder'
  OBVIOUS
<1>0. mounted \in Seq(Disks) /\ Len(mounted) \in Nat /\ DOMAIN mounted = 1..Len(mounted)
  BY DEF MountInv, SteadyThere
<1>1. CASE BeginDisks \/ UNCHANGED diskVars
  BY <1>1 DEF BeginDisks, diskVars, tableVars, MountOrder
<1>2. CASE DiskStep
  <2>1. UNCHANGED <<mounted, locked, remounts>>
    BY <1>2 DEF DiskStep, tableVars
  <2>2. diskAt' \in {"idle", "table", "statfs", "returned", "failed"}
    BY <1>2 DEF DiskStep, ReadMounts, StatMount, SkipExcluded, DisksDone, MountOrder
  <2>3. disks' \subseteq Disks \X Disks
    <3>1. CASE StatMount
      <4>1. row + 1 \in 1..Len(mounts) /\ mounts \in Seq(Disks)
        BY <3>1 DEF StatMount, MountInv, SteadyThere
      <4>2. mounts[row + 1] \in Disks
        BY <4>1
      <4> DEFINE e == mounts[row + 1]
      <4> HIDE DEF e
      <4>3. PICK reply \in Disks \cup {"error"} :
              disks' = IF reply \in Blockless \cup {"error"}
                       THEN disks ELSE disks \cup {<<e, reply>>}
        BY <3>1 DEF StatMount, e
      <4> QED BY <4>2, <4>3 DEF MountOrder, e
    <3>2. CASE ~StatMount
      BY <1>2, <3>2 DEF DiskStep, ReadMounts, SkipExcluded, DisksDone, MountOrder
    <3> QED BY <3>1, <3>2
  <2> QED BY <2>1, <2>2, <2>3 DEF MountOrder
<1>3. ASSUME NEW d \in Disks, Mount(d) \/ Unmount(d) PROVE MountOrder'
  <2>1. /\ UNCHANGED <<diskAt, locked, disks>> /\ remounts' \in 0..MaxMounts
    <3>1. Remount
      BY <1>3 DEF Mount, Unmount
    <3> QED BY <3>1, MountAssumption DEF Remount, MountOrder
  <2>2. CASE Mount(d)
    <3>1. mounted' = Append(mounted, d) /\ \A i \in 1..Len(mounted) : mounted[i] # d
      BY <1>0, <2>2 DEF Mount, Mounted
    <3>2. /\ Len(mounted') = Len(mounted) + 1 /\ mounted'[Len(mounted) + 1] = d
          /\ \A i \in 1..Len(mounted) : mounted'[i] = mounted[i]
      BY <1>0, <3>1
    <3>3. \A i \in 1..Len(mounted') : i \in 1..Len(mounted) \/ i = Len(mounted) + 1
      BY <1>0, <3>2
    <3>4. \A i, j \in 1..Len(mounted') : mounted'[i] = mounted'[j] => i = j
      BY <3>1, <3>2, <3>3 DEF MountOrder
    <3>5. Len(mounted') >= 1 /\ mounted'[1] = Root
      BY <1>0, <3>2 DEF MountOrder
    <3> QED BY <2>1, <3>4, <3>5 DEF MountOrder
  <2>3. CASE Unmount(d)
    <3>1. PICK k \in DOMAIN mounted : mounted[k] = d /\ mounted' = RemoveAt(mounted, k)
      BY <2>3 DEF Unmount
    <3>2. d # Root
      BY <2>3 DEF Unmount
    <3>3. k \in 1..Len(mounted) /\ k # 1
      BY <1>0, <3>1, <3>2 DEF MountOrder
    <3>4. /\ Len(mounted') = Len(mounted) - 1
          /\ \A j \in 1..(Len(mounted) - 1) :
               mounted'[j] = IF j < k THEN mounted[j] ELSE mounted[j + 1]
      BY <1>0, <3>1, <3>3, Removed
    <3>5. Len(mounted') >= 1 /\ mounted'[1] = Root
      BY <1>0, <3>3, <3>4 DEF MountOrder
    <3>6. ASSUME NEW i \in 1..Len(mounted'), NEW j \in 1..Len(mounted'),
                 mounted'[i] = mounted'[j]
          PROVE  i = j
      <4> DEFINE at(x) == IF x < k THEN x ELSE x + 1
      <4>1. \A x \in 1..Len(mounted') : at(x) \in 1..Len(mounted) /\ mounted'[x] = mounted[at(x)]
        BY <1>0, <3>3, <3>4
      <4>2. at(i) \in 1..Len(mounted) /\ at(j) \in 1..Len(mounted)
            /\ mounted[at(i)] = mounted[at(j)]
        BY <3>6, <4>1
      <4>3. at(i) = at(j)
        <5> HIDE DEF at
        <5> QED BY <4>2 DEF MountOrder
      <4> QED BY <1>0, <3>3, <3>4, <4>3
    <3> QED BY <2>1, <3>5, <3>6 DEF MountOrder
  <2> QED BY <1>3, <2>2, <2>3
<1> QED BY <1>1, <1>2, <1>3 DEF MountNext

\* With MountInv these are the types: there are as many mounts as entries.
LEMMA MountTyped == MountInv /\ MountOrder => MountTypeOK
<1> SUFFICES ASSUME MountInv, MountOrder PROVE MountTypeOK
  OBVIOUS
<1> DEFINE n == Len(mounted)
<1>1. n \in Nat /\ mounted \in [1..n -> Disks]
  BY DEF MountInv, SteadyThere
<1>2. /\ \A i, j \in 1..n : mounted[i] = mounted[j] => i = j
      /\ mounted \in [1..n -> Mounted] /\ \A d \in Mounted : \E i \in 1..n : mounted[i] = d
  <2>1. DOMAIN mounted = 1..n
    BY <1>1
  <2> QED BY <1>1, <2>1 DEF MountOrder, Mounted
<1> HIDE DEF n
<1>3. mounted \in Bijection(1..n, Mounted)
  <2>1. mounted \in Injection(1..n, Mounted)
    BY <1>2 DEF Injection, IsInjective
  <2>2. mounted \in Surjection(1..n, Mounted)
    BY <1>2 DEF Surjection
  <2> QED BY <2>1, <2>2 DEF Bijection
<1>4. Cardinality(Mounted) = n
  <2>1. IsFiniteSet(1..n) /\ Cardinality(1..n) = n
    BY <1>1, FS_Interval
  <2>2. ExistsBijection(1..n, Mounted)
    BY <1>3 DEF ExistsBijection
  <2> QED BY <2>1, <2>2, FS_Bijection
<1>5. steady \subseteq Mounted
  BY DEF MountInv, SteadyThere, Visible
<1> QED BY <1>4, <1>5 DEF MountInv, SteadyThere, MountOrder, MountTypeOK, n

\* What ParseInv leaves open of the types of ProtocolStats.
ParsePhase ==
  /\ parseAt \in {"idle", "open", "lines", "returned"}
  /\ pending \in Lines \cup {NoLine} /\ protocols \subseteq Counter

\* It holds at first and is preserved.
LEMMA ParsePhaseKept ==
  /\ ProtocolInit => ParsePhase
  /\ ParseInv /\ ParsePhase /\ [ProtocolNext]_protoVars => ParsePhase'
<1>1. ProtocolInit => ParsePhase
  BY DEF ProtocolInit, ParsePhase
<1>2. ASSUME ParseInv, ParsePhase, [ProtocolNext]_protoVars PROVE ParsePhase'
  <2>1. CASE BeginParse \/ OpenFile \/ FilesRead \/ FileParsed \/ UNCHANGED protoVars
    BY <1>2, <2>1 DEF BeginParse, OpenFile, FilesRead, FileParsed, protoVars, ParsePhase
  <2>2. CASE ParseLine
    <3> DEFINE line == LineOf(Names, lineNo + 1)
    <3>1. line \in Lines /\ lineNo + 1 \in 1..(2 * Len(Names))
      <4>1. /\ fileNo \in {1, 2} /\ tables \in Tables /\ lineNo \in Nat
            /\ lineNo < 2 * Len(Names)
        BY <1>2, <2>2 DEF ParseLine, ParseInv, ParseTypes, PendingInv, Names
      <4>2. Names = tables[fileNo]
        BY DEF Names
      <4>3. /\ Len(Names) \in Nat
            /\ \A k \in 1..(2 * Len(Names)) : LineOf(Names, k) \in Lines
        BY <4>1, <4>2, TableLines
      <4>4. lineNo + 1 \in 1..(2 * Len(Names))
        BY <4>1, <4>3
      <4> QED BY <4>3, <4>4
    <3>2. /\ parseAt' = parseAt
          /\ \/ pending' = pending /\ protocols' = protocols
             \/ pending # NoLine /\ pending' = NoLine
                /\ protocols' = protocols \cup Columns(pending, line)
             \/ pending' = line /\ protocols' = protocols
      BY <2>2 DEF ParseLine, Names, Pairs
    <3> HIDE DEF line
    <3>3. pending # NoLine => Columns(pending, line) \subseteq Counter
      <4>1. line[1] \in Protocols
        BY <3>1 DEF Lines
      <4> QED BY <1>2, <3>1, <4>1 DEF ParsePhase, Columns, Counter
    <3> QED BY <1>2, <3>1, <3>2, <3>3 DEF ParsePhase
  <2> QED BY <1>2, <2>1, <2>2 DEF ProtocolNext
<1> QED BY <1>1, <1>2

\* Whichever call is made, each call's invariant.
CallsInv ==
  /\ ReadTypeOK /\ RateTypeOK /\ RunInv /\ LookBase
  /\ CountInv /\ CountPhase /\ MountInv /\ MountOrder /\ ParseInv /\ ParsePhase

\* Each call begins in a state of its own specification,
LEMMA CallsInvInit == Init => CallsInv
<1> SUFFICES ASSUME Init PROVE CallsInv
  OBVIOUS
<1>1. /\ ReadInit /\ RateInit /\ LookupInit /\ SocketInit /\ SubprocessInit
      /\ MountInit /\ ProtocolInit
  BY DEF Init
<1> QED
  BY <1>1, TypeInit, RateTypeInit, RunInvInit, LookBaseInit, CountInvInit, CountPhaseKept,
     MountInvInit, MountOrderInit, ParseInvInit, ParsePhaseKept
  DEF CallsInv

\* and steps as it does, or not at all: a step is one of the call that is made.
LEMMA CallSteps ==
  [Next]_<<called, readVars, rateVars, lookupVars, countVars, runVars, diskVars,
           protoVars>>
    => /\ [ReadNext]_readVars /\ [RateNext]_rateVars /\ [LookupNext]_lookupVars
       /\ [CountNext]_countVars /\ [SubprocessNext]_runVars /\ [MountNext]_diskVars
       /\ [ProtocolNext]_protoVars
<1>1. CASE Next
  BY <1>1, Zenon DEF Next, StillBut
<1>2. CASE UNCHANGED <<called, readVars, rateVars, lookupVars, countVars, runVars,
                       diskVars, protoVars>>
  BY <1>2, Zenon
<1> QED BY <1>1, <1>2

\* Each call's invariant is preserved.
LEMMA CallsInvStep ==
  CallsInv /\ [Next]_<<called, readVars, rateVars, lookupVars, countVars, runVars,
                       diskVars, protoVars>> => CallsInv'
<1> SUFFICES ASSUME CallsInv,
                    [Next]_<<called, readVars, rateVars, lookupVars, countVars, runVars,
                             diskVars, protoVars>>
             PROVE  CallsInv'
  OBVIOUS
<1>1. /\ [ReadNext]_readVars /\ [RateNext]_rateVars /\ [LookupNext]_lookupVars
      /\ [CountNext]_countVars /\ [SubprocessNext]_runVars /\ [MountNext]_diskVars
      /\ [ProtocolNext]_protoVars
  BY CallSteps
<1>2. ReadTypeOK' /\ RateTypeOK' /\ RunInv' /\ LookBase'
  BY <1>1, TypeNext, TypeStep, RunInvStep, LookBaseStep DEF CallsInv
<1>3. CountInv' /\ CountPhase'
  BY <1>1, CountInvStep, CountPhaseKept DEF CallsInv
<1>4. MountInv' /\ MountOrder'
  BY <1>1, MountInvStep, MountOrderStep DEF CallsInv
<1>5. ParseInv' /\ ParsePhase'
  BY <1>1, ParseInvStep, ParsePhaseKept DEF CallsInv
<1> QED BY <1>2, <1>3, <1>4, <1>5 DEF CallsInv

\* The types of every call's variables, whichever of the calls is made.
THEOREM CallsTypeCorrect == Spec => []CallsTypeOK
<1>1. CallsInv => CallsTypeOK
  <2> SUFFICES ASSUME CallsInv PROVE CallsTypeOK
    OBVIOUS
  <2>1. SocketTypeOK /\ MountTypeOK
    BY CountTyped, MountTyped DEF CallsInv
  <2>2. ProtocolTypeOK
    BY DEF CallsInv, ParseInv, ParseTypes, ParsePhase, ProtocolTypeOK
  <2>3. LookupTypeOK /\ SubprocessTypeOK
    BY DEF CallsInv, LookBase, RunInv
  <2> QED BY <2>1, <2>2, <2>3 DEF CallsInv, CallsTypeOK
<1> QED BY <1>1, CallsInvInit, CallsInvStep, PTL DEF Spec

\* Whichever call is made, what happens is a behaviour of that call's own
\* specification, and for the others one in which they never begin.
THEOREM CallsAreCalls ==
  Spec => /\ ReadSpec /\ RateSpec /\ LookupSpec /\ CountSpec
          /\ SubprocessSpec /\ MountSpec /\ ProtocolSpec
<1>1. Init => /\ ReadInit /\ RateInit /\ LookupInit /\ SocketInit
              /\ SubprocessInit /\ MountInit /\ ProtocolInit
  BY DEF Init
<1>2. [Next]_<<called, readVars, rateVars, lookupVars, countVars, runVars, diskVars,
               protoVars>>
        => /\ [ReadNext]_readVars /\ [RateNext]_rateVars /\ [LookupNext]_lookupVars
           /\ [CountNext]_countVars /\ [SubprocessNext]_runVars
           /\ [MountNext]_diskVars /\ [ProtocolNext]_protoVars
  BY CallSteps
<1> QED
  BY <1>1, <1>2, PTL
  DEF Spec, ReadSpec, RateSpec, LookupSpec, CountSpec, SubprocessSpec, MountSpec,
      ProtocolSpec

\* So all that is proved of a call by itself holds here.
THEOREM CallsSound ==
  Spec => /\ [](MemoryOfOneSource /\ FailsForCause /\ PressureOfOneSource)
          /\ [](RateWithinSpan /\ TotalWithinSpan /\ SteadyRowsExact)
          /\ [](RowOfOneProcess /\ LookupAnswers)
          /\ [](CountBetween /\ StatesReconcile)
          /\ [](VerdictHeard /\ WithinTimeouts)
          /\ [](SteadyDisksListed /\ CountersPaired)
BY CallsAreCalls, MemorySound, FailureExplained, PressureSound, SpanSound, TotalSound,
   SteadyRowsSound, LookupRowSound, LookupAnswersSound, CountSound, TablesReconcile,
   AnswerHeard, TimeoutsKept, DisksSound, CountersSound, PTL
=============================================================================
