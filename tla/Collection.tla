----------------------------- MODULE Collection -----------------------------
(***************************************************************************)
(* What one collection of the example dashboard promises, whatever the     *)
(* order its readers run in: every reader settles exactly once, with data  *)
(* or with a problem; only then is the page assembled; and a page is given *)
(* away, or dropped, once.                                                 *)
(***************************************************************************)
CONSTANTS
  Workers,    \* the readers collect() runs
  Limiters    \* the container-aware ones, which may find a limit

VARIABLES
  state,      \* how each reader settled
  page,       \* how far the page is
  box         \* whether the page has the container panel

vars == <<state, page, box>>

Settled == {"filled", "limited", "failed"}

TypeOK ==
  /\ state \in [Workers -> Settled \cup {"pending"}]
  /\ page \in {"collecting", "assembled", "delivered", "dropped"}
  /\ box \in BOOLEAN

Init ==
  /\ state = [w \in Workers |-> "pending"]
  /\ page = "collecting"
  /\ box = FALSE

Settle(w) ==
  /\ page = "collecting" /\ state[w] = "pending"
  /\ \E s \in Settled :
       /\ s = "limited" => w \in Limiters
       /\ state' = [state EXCEPT ![w] = s]
  /\ UNCHANGED <<page, box>>

\* The container panel is there exactly when a limit was found.
Assemble ==
  /\ page = "collecting"
  /\ \A w \in Workers : state[w] # "pending"
  /\ page' = "assembled"
  /\ box' = (\E w \in Workers : state[w] = "limited")
  /\ UNCHANGED state

Finish ==
  /\ page = "assembled"
  /\ page' \in {"delivered", "dropped"}
  /\ UNCHANGED <<state, box>>

Next == (\E w \in Workers : Settle(w)) \/ Assemble \/ Finish

Spec == Init /\ [][Next]_vars /\ WF_vars(Next)
=============================================================================
