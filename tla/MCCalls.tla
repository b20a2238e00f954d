------------------------------ MODULE MCCalls -------------------------------
(* One call of the host for TLC: of GetMemory, GetSwap and GetPressure, of *)
(* the samplers of rates, of GetProcess, of the socket counts, or of one   *)
(* that runs a program.  The modules share nothing, so the variables of    *)
(* those not called stay where they began, and there is one beginning.     *)
EXTENDS Readings, Rates, ProcessLookup, Sockets, Subprocess, Mounts, ProtocolStats

VARIABLE called   \* which of the calls is made

Calls == {"reading", "rates", "lookup", "sockets", "program", "disks", "protocols"}

TheAccounts ==
  {[limit |-> 1, usage |-> 1, inactive |-> 0],        \* less than a KiB
   [limit |-> 2, usage |-> 5, inactive |-> 2],        \* over the limit
   [limit |-> 4, usage |-> 3, inactive |-> 1],
   [limit |-> NoLimit, usage |-> 3, inactive |-> 1]}
TheMeminfos ==
  {[total |-> 9, free |-> 2, available |-> 4, cached |-> 3,
    swapTotal |-> 4, swapFree |-> 1]}
Busy    == [in |-> 1, out |-> 1]
Quiet   == [in |-> 0, out |-> 0]
TheLoads == {Busy, Quiet}
OnePid  == {1}
TwoProcs == {1, 2}

\* A disk under another mount, and one mounted below it.
ThePoints == [root |-> "/", data |-> "/d", over |-> "/d", inner |-> "/d/x"]
IsBelow   == {<<"/", "/">>, <<"/", "/d">>, <<"/", "/d/x">>, <<"/d", "/d">>,
              <<"/d", "/d/x">>, <<"/d/x", "/d/x">>}
TheTables == {<<<<"Tcp", "Udp">>, <<"TcpExt">>>>}

\* Each component begins in any of its initial states if it is called, and in
\* one of them if it is not.
Init ==
  /\ called \in Calls
  /\ ReadInit
  /\ called # "reading" =>
       /\ there = Groups /\ own = CHOOSE g \in Groups : TRUE
       /\ \A g \in Groups : account[g].limit = 1
  /\ RateInit
  /\ called # "rates" => here = {}
  /\ LookupInit
  /\ called # "lookup" => alive = {} /\ ticks = [p \in Pids |-> 0]
  /\ SocketInit
  /\ called # "sockets" => named = {} /\ InState("new") = Inodes
  /\ called = "sockets" => \A h \in fds : h[2] = 0   \* the rest are opened in the call
  /\ SubprocessInit
  /\ MountInit
  /\ called # "disks" => locked = {} /\ Mounted = {Root}
  /\ ProtocolInit
  /\ called # "protocols" => readable = {} /\ \A l \in Lines : width[l] = 0

Done ==
  \/ called = "reading" /\ readAt \in {"returned", "failed"}
  \/ called = "rates"   /\ pollAt \in {"returned", "cancelled"}
  \/ called = "lookup"  /\ lookAt = "returned"
  \/ called = "sockets" /\ countAt = "returned"
  \/ called = "program" /\ runAt = "returned"
  \/ called = "disks"   /\ diskAt \in {"returned", "failed"}
  \/ called = "protocols" /\ parseAt = "returned"

\* Nothing happens to what is not called.
StillBut(c) ==
  /\ IF c = "reading"   THEN TRUE ELSE UNCHANGED readVars
  /\ IF c = "rates"     THEN TRUE ELSE UNCHANGED rateVars
  /\ IF c = "lookup"    THEN TRUE ELSE UNCHANGED lookupVars
  /\ IF c = "sockets"   THEN TRUE ELSE UNCHANGED countVars
  /\ IF c = "program"   THEN TRUE ELSE UNCHANGED runVars
  /\ IF c = "disks"     THEN TRUE ELSE UNCHANGED diskVars
  /\ IF c = "protocols" THEN TRUE ELSE UNCHANGED protoVars

Next ==
  /\ UNCHANGED called
  /\ \/ Done /\ StillBut("none")
     \/ called = "reading"   /\ ReadNext       /\ StillBut("reading")
     \/ called = "rates"     /\ RateNext       /\ StillBut("rates")
     \/ called = "lookup"    /\ LookupNext     /\ StillBut("lookup")
     \/ called = "sockets"   /\ CountNext      /\ StillBut("sockets")
     \/ called = "program"   /\ SubprocessNext /\ StillBut("program")
     \/ called = "disks"     /\ MountNext      /\ StillBut("disks")
     \/ called = "protocols" /\ ProtocolNext   /\ StillBut("protocols")

Spec ==
  /\ Init /\ [][Next]_<<called, readVars, rateVars, lookupVars, countVars, runVars,
                    diskVars, protoVars>>
  /\ WF_runVars(RunStep) /\ WF_runVars(TimePasses)

\* Types of every variable of every call.
CallsTypeOK ==
  /\ ReadTypeOK /\ RateTypeOK /\ LookupTypeOK /\ SocketTypeOK /\ SubprocessTypeOK
  /\ MountTypeOK /\ ProtocolTypeOK
=============================================================================
