---------------------------- MODULE Persistence ----------------------------
(***************************************************************************)
(* persistence/: one process that keeps an EventStore, a                   *)
(* CrashConsistentState and an AtomicMultiFileWrite, and calls them one at *)
(* a time.  A crash takes the memory of all three and leaves the files as  *)
(* they are; the restart builds each of them from its files.               *)
(***************************************************************************)
EXTENDS EventStore, SnapshotIndex, AtomicCommit

CONSTANT MaxCalls   \* bound: calls of append, save_snapshot and commit

ASSUME CallsBound == MaxCalls \in Nat

VARIABLE calls      \* history: how many of them were made

persistVars == <<eventVars, snapVars, commitVars, calls>>

TypeOK == EventTypeOK /\ SnapTypeOK /\ CommitTypeOK /\ calls \in 0 .. MaxCalls

Init == EventInit /\ SnapInit /\ CommitInit /\ calls = 0

Quiet == {"idle", "down"}

\* A step of a call, of which the one that finds the store idle is the first.
Call(pc) ==
    IF pc = "idle" THEN calls < MaxCalls /\ calls' = calls + 1 ELSE UNCHANGED calls

StepEvents ==
    /\ spc \in Quiet /\ dpc \in Quiet
    /\ EventStep /\ Call(epc)
    /\ UNCHANGED <<snapVars, commitVars>>

StepSnapshots ==
    /\ epc \in Quiet /\ dpc \in Quiet
    /\ SnapStep /\ Call(spc)
    /\ UNCHANGED <<eventVars, commitVars>>

StepCommit ==
    /\ epc \in Quiet /\ spc \in Quiet
    /\ CommitStep /\ Call(dpc)
    /\ UNCHANGED <<eventVars, snapVars>>

Crash ==
    /\ EventCrash /\ CommitCrash
    /\ SnapCrash \/ (spc = "down" /\ UNCHANGED snapVars)
    /\ UNCHANGED calls

\* A CrashConsistentState that cannot read its index is done without.
Restart ==
    /\ EventStart /\ CommitStart
    /\ SnapStart \/ (~index.whole /\ UNCHANGED snapVars)
    /\ UNCHANGED calls

Next == StepEvents \/ StepSnapshots \/ StepCommit \/ Crash \/ Restart

Spec == Init /\ [][Next]_persistVars
=============================================================================
