--------------------------- MODULE MCDurableQueue ---------------------------
(* Instances of DurableQueue with two worker processes.                     *)
EXTENDS DurableQueue, TLC

CONSTANTS p1, p2, w1, w2

MCProcs == {p1, p2}
MCNames == {w1, w2}
OwnNames == (p1 :> w1) @@ (p2 :> w2)

(* The processes may be exchanged together with their names, and the tasks   *)
(* among themselves.                                                         *)
Stay == (p1 :> p1) @@ (p2 :> p2) @@ (w1 :> w1) @@ (w2 :> w2)
Swap == (p1 :> p2) @@ (p2 :> p1) @@ (w1 :> w2) @@ (w2 :> w1)
Symmetry == {f @@ g : f \in {Stay, Swap}, g \in Permutations(Tasks)}
=============================================================================
