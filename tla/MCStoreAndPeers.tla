-------------------------- MODULE MCStoreAndPeers --------------------------
(* The task store, and four PBFT engines, one of them faulty.  The two      *)
(* share no state, so every behaviour runs one of them.                     *)
EXTENDS MCTaskStore, PBFTLite

CONSTANTS n1, n2, n3, bad

VARIABLE part

allVars == <<part, vars, pbftVars>>

MCPeers == {n1, n2, n3, bad}
MCByzantine == {bad}

(* The correct engines may be exchanged, and the digests.                   *)
Symmetry == Permutations({n1, n2, n3}) \cup Permutations(Digests)

InitOne ==
    /\ part \in {"store", "peers"}
    /\ Init
    /\ PbftInit

NextOne ==
    \/ part = "store" /\ Next /\ UNCHANGED <<part, pbftVars>>
    \/ part = "peers" /\ PbftNext /\ UNCHANGED <<part, vars>>

SpecOne == InitOne /\ [][NextOne]_allVars
=============================================================================
