---------------------------- MODULE AtomicCommit ----------------------------
(***************************************************************************)
(* persistence/atomic_fs.py: AtomicMultiFileWrite.  The files of a commit  *)
(* are staged in a directory named for the tick, which then takes the      *)
(* place of .committed.                                                    *)
(*                                                                         *)
(* The files a caller adds, and their content, are those of the tick: a    *)
(* commit repeated after a failure or a restart is of the same ones.       *)
(***************************************************************************)
EXTENDS Naturals

CONSTANTS
    CommitTicks,    \* the ticks committed
    MaxFiles,       \* a commit has files 1 .. MaxFiles, named in sorted order
    MaxCuts         \* bound: commits interrupted

ASSUME CommitBounds == MaxFiles \in Nat /\ MaxCuts \in Nat

Files == 1 .. MaxFiles
NoDir == [f \in Files |-> "none"]
WholeDir == [f \in Files |-> "whole"]

VARIABLES
    staging,    \* .staging.<tick>: a file is none, part or whole
    committed,  \* .committed
    tick,       \* _tick
    left,       \* the files this commit has still to write
    dpc,        \* where commit is
    cacked,     \* history: has a commit returned?
    cuts        \* history: interrupted commits

commitVars == <<staging, committed, tick, left, dpc, cacked, cuts>>

Dirs == [Files -> {"none", "part", "whole"}]

CommitTypeOK ==
    /\ staging \in [CommitTicks -> Dirs]
    /\ committed \in Dirs
    /\ tick \in CommitTicks \cup {0}
    /\ left \subseteq Files
    /\ dpc \in {"idle", "staging", "removing", "down"}
    /\ cacked \in BOOLEAN
    /\ cuts \in 0 .. MaxCuts

CommitInit ==
    /\ staging = [t \in CommitTicks |-> NoDir]
    /\ committed = NoDir
    /\ tick = 0
    /\ left = {}
    /\ dpc = "idle"
    /\ cacked = FALSE /\ cuts = 0

-----------------------------------------------------------------------------
(* commit: a staging directory left over from an earlier try is used again. *)
BeginCommit(t) ==
    /\ dpc = "idle"
    /\ tick' = t /\ left' = Files
    /\ dpc' = "staging"
    /\ UNCHANGED <<staging, committed, cacked, cuts>>

\* The next file in sorted order.
Next1(f) == f \in left /\ \A g \in left : f <= g

StageFile(f) ==
    /\ dpc = "staging" /\ Next1(f)
    /\ staging' = [staging EXCEPT ![tick][f] = "whole"]
    /\ left' = left \ {f}
    /\ UNCHANGED <<committed, tick, dpc, cacked, cuts>>

TearFile(f) ==
    /\ dpc = "staging" /\ Next1(f) /\ cuts < MaxCuts
    /\ staging' = [staging EXCEPT ![tick][f] = "part"]
    /\ dpc' = "idle" /\ cuts' = cuts + 1
    /\ UNCHANGED <<committed, tick, left, cacked>>

\* Mutant: the old directory goes before the new one is complete.
RemoveEarly ==
    /\ dpc = "staging" /\ left \cap {1} = {}
    /\ dpc' = "removing"
    /\ UNCHANGED <<staging, committed, tick, left, cacked, cuts>>

BeginRemoval ==
    /\ dpc = "staging" /\ left = {}
    /\ dpc' = "removing"
    /\ UNCHANGED <<staging, committed, tick, left, cacked, cuts>>

(* rmtree: one file after the other, in the order of the directory.         *)
RemoveFile(f) ==
    /\ dpc = "removing" /\ committed[f] # "none"
    /\ committed' = [committed EXCEPT ![f] = "none"]
    /\ UNCHANGED <<staging, tick, left, dpc, cacked, cuts>>

RenameStaging ==
    /\ dpc = "removing" /\ committed = NoDir
    /\ committed' = staging[tick]
    /\ staging' = [staging EXCEPT ![tick] = NoDir]
    /\ dpc' = "idle" /\ cacked' = TRUE
    /\ UNCHANGED <<tick, left, cuts>>

CommitCrash ==
    /\ dpc # "down"
    /\ dpc # "idle" => cuts < MaxCuts
    /\ cuts' = IF dpc = "idle" THEN cuts ELSE cuts + 1
    /\ dpc' = "down"
    /\ UNCHANGED <<staging, committed, tick, left, cacked>>

CommitStart ==
    /\ dpc = "down"
    /\ dpc' = "idle"
    /\ UNCHANGED <<staging, committed, tick, left, cacked, cuts>>

CommitStep ==
    \/ \E t \in CommitTicks : BeginCommit(t)
    \/ \E f \in Files : StageFile(f) \/ TearFile(f) \/ RemoveFile(f)
    \/ BeginRemoval \/ RenameStaging

-----------------------------------------------------------------------------
(* Once a commit has returned, one interruption never leaves the disk       *)
(* without a whole set of files: what rmtree has begun to take away is      *)
(* staged in full.  (A second one can: repeating a commit rewrites the      *)
(* staged files in place while .committed is already gone.)                 *)
SomeCopyIsWhole ==
    cacked /\ cuts <= 1 =>
        committed = WholeDir \/ \E t \in CommitTicks : staging[t] = WholeDir

(* However often commits are interrupted and repeated, .committed never      *)
(* holds a file that was not completely written.                             *)
NoTornCommit == \A f \in Files : committed[f] # "part"
=============================================================================
