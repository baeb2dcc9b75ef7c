------------------------------ MODULE Slashing ------------------------------
(***************************************************************************)
(* SlashingEngine of core/federation/slashing.py: the record of            *)
(* misbehaviour, the set of slashed nodes, and appeals.  Evidence, hashes  *)
(* and times are left out; the kinds of misbehaviour differ in nothing     *)
(* else.                                                                   *)
(***************************************************************************)
EXTENDS Naturals, Sequences

CONSTANTS
    Nodes,
    MaxRecords  \* bound: misbehaviours that are reported

ASSUME RecordsBound == MaxRecords \in Nat

VARIABLES
    banned,     \* _slashed
    records     \* _records, each with where its appeal stands

slashVars == <<banned, records>>

Appeals == {"none", "pending", "upheld", "rejected"}

SlashTypeOK ==
    /\ banned \subseteq Nodes
    /\ records \in Seq([node : Nodes, appeal : Appeals])

SlashInit == banned = {} /\ records = <<>>

(* report_double_sign and the other reports end in slash.                    *)
Report(n) ==
    /\ Len(records) < MaxRecords
    /\ banned' = banned \cup {n}
    /\ records' = Append(records, [node |-> n, appeal |-> "none"])

(* An appeal may be filed again, whatever became of the one before.          *)
Appeal(i) ==
    /\ records' = [records EXCEPT ![i].appeal = "pending"]
    /\ UNCHANGED banned

(* A resolved appeal may be resolved again.  An appeal that is not upheld    *)
(* takes the node out of the slashed ones.                                   *)
ResolveAppeal(i, upheld) ==
    /\ records[i].appeal # "none"
    /\ records' = [records EXCEPT ![i].appeal = IF upheld THEN "upheld" ELSE "rejected"]
    /\ banned' = IF upheld THEN banned ELSE banned \ {records[i].node}
=============================================================================
