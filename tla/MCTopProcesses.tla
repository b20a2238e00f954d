--------------------------- MODULE MCTopProcesses ---------------------------
(* Small instances of TopProcesses for TLC, two in one run: of more         *)
(* processes than are asked for, and of pids that come, go and come again.  *)
(* Word stands for 2^64: any value above the largest tick count shows the   *)
(* wrap.                                                                    *)
EXTENDS TopProcesses

VARIABLE crowd   \* which of the two it is

ThreePids  == {1, 2, 3}
OneForeign == {2}
SomeCounts == {-1, 1, 2}

\* Three processes for a count of two or a negative one, of two sizes where
\* it matters.
CrowdInit ==
  /\ req.count \in {-1, 2} /\ req.sort # "memroy" /\ alive = Pids
  /\ req.sort = "cpu" => rss = [p \in Pids |-> 1]
  /\ (req.mode = "instant" \/ req.sort = "memory") => ticks = [p \in Pids |-> 0]

\* Up to two, of one size.
ChurnInit ==
  /\ req.count = 1 /\ req.sort # "memory"
  /\ alive \subseteq 1..2 /\ ticks[3] = 0 /\ \A p \in Pids : rss[p] = 1

EitherInit ==
  /\ Init /\ crowd \in BOOLEAN
  /\ IF crowd THEN CrowdInit ELSE ChurnInit

\* In a crowd nobody is born and no time passes but what the call sleeps.
EitherNext ==
  /\ Next /\ UNCHANGED crowd
  /\ IF crowd THEN gen' = gen /\ (clock' = clock \/ (pc = "sleep" /\ clock < wake))
     ELSE gen'[3] = 0 /\ rss' = rss

EitherSpec ==
  /\ EitherInit /\ [][EitherNext]_<<crowd, vars>>
  /\ WF_vars(Call) /\ WF_vars(Time)
=============================================================================
