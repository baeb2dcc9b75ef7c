---------------------------- MODULE MCTaskStore ----------------------------
(* Instances of TaskStore: executions with names of their own, and          *)
(* executions of one process, which share its worker name.                  *)
EXTENDS TaskStore, TLC

CONSTANTS e1, e2, e3, w1, w2, w3

MCExecs == {e1, e2}
MCNames == {w1, w2}
OwnNames == (e1 :> w1) @@ (e2 :> w2)
SharedName == (e1 :> w1) @@ (e2 :> w1)

ThreeExecs == MCExecs \cup {e3}
ThreeNames == MCNames \cup {w3}
ThreeOwnNames == OwnNames @@ (e3 :> w3)
=============================================================================
