------------------------------ MODULE InProcess ------------------------------
(***************************************************************************)
(* Three components that live inside one process each and share nothing:   *)
(* Persistence, ExecutionGateway and BFTConsensus, on instances small      *)
(* enough for TLC.                                                         *)
(*                                                                         *)
(* Only one of them is active in a behaviour, chosen in the initial state, *)
(* and the others stay as they started: no property here speaks of two of  *)
(* them, so one run checks all three and costs the sum of their states.    *)
(***************************************************************************)
EXTENDS Persistence, ExecutionGateway, BFTConsensus, TLC

CONSTANTS th1, th2, n1, n2, n3, n4, rq1

VARIABLE part   \* the active one

(* Four nodes, n4 among them faulty, which may repeat a vote in the wrong    *)
(* phase and make one up in the engine's name.                               *)
MCThreads == {th1, th2}
MCNodes == {n1, n2, n3, n4}
MCFaulty == {n4}
MCRequests == {rq1}
MCStrays == {[name |-> n4, fits |-> FALSE, copy |-> 1],
             [name |-> n1, fits |-> TRUE, copy |-> 1]}

\* n2 and n3 are interchangeable, and so are the threads.
Symmetry == Permutations({n2, n3}) \cup Permutations(MCThreads)

TypesOK == TypeOK /\ GateTypeOK /\ BFTTypeOK

InitOne ==
    /\ part \in {"persistence", "gateway", "consensus"}
    /\ Init /\ GateInit /\ BFTInit
    /\ part # "consensus" => ~leads

NextOne ==
    /\ UNCHANGED part
    /\ \/ part = "persistence" /\ Next /\ UNCHANGED <<gateVars, bftVars>>
       \/ part = "gateway" /\ GateNext /\ UNCHANGED <<persistVars, bftVars>>
       \/ part = "consensus" /\ BFTNext /\ UNCHANGED <<persistVars, gateVars>>

SpecOne == InitOne /\ [][NextOne]_<<part, persistVars, gateVars, bftVars>>
=============================================================================
