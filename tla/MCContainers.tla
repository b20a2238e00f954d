---------------------------- MODULE MCContainers ----------------------------
(* Values of the constants of Containers for TLC. *)
EXTENDS Containers, TLC

A  == <<1, 1, 1>>
B  == <<1, 2, 1>>
N  == <<2, 1>>

OneId  == {A}
JustB  == {B}
TwoIds == {A, B}
Nested == {A, B, N}

Flat     == [id \in Ids |-> None]
NInsideA == [id \in Ids |-> IF id = N THEN A ELSE None]

\* B is called what A's id begins with.
Names    == [id \in Ids |-> IF id = B THEN <<1, 1>> ELSE <<3>>]

\* A's layer, when there are files: one under two names, and one more.
Layers == IF Files = {} THEN <<>> ELSE [id \in {A} |-> Files]
Links  == [f \in Files |-> IF f = 3 THEN 2 ELSE 1]

PidSymmetry == Permutations(Pids)

All(layer) == [unit |-> "MB", layer |-> layer, query |-> None]
Lookup(q)  == [unit |-> "MB", layer |-> FALSE, query |-> q]

ListAll   == {All(FALSE), [All(FALSE) EXCEPT !.unit = "TB"]}
WithLayer == {[Lookup(A) EXCEPT !.layer = TRUE]}
Lookups   == {Lookup(q) : q \in {<<>>, <<1>>, A, <<1, 1>>}}
Calls     == WithLayer \cup Lookups
=============================================================================
