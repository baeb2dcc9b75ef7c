--------------------------- MODULE SnapshotIndex ---------------------------
(***************************************************************************)
(* persistence/crash_consistency.py: CrashConsistentState, a file per tick *)
(* and an index of all snapshots that is rewritten in place.               *)
(*                                                                         *)
(* A snapshot is the number of its save.  The list in memory is ordered by *)
(* tick and, the sort being stable, by save among equals, so a set stands  *)
(* for it.                                                                 *)
(***************************************************************************)
EXTENDS Naturals, Sequences

CONSTANTS
    MaxTick,        \* bound: snapshots are of ticks 1 .. MaxTick
    MaxSaves,       \* bound: snapshots saved
    MaxSpoils       \* bound: interrupted writes of the two kinds of file

ASSUME SnapBounds == MaxTick \in Nat /\ MaxSaves \in Nat /\ MaxSpoils \in Nat

Ticks == 1 .. MaxTick

VARIABLES
    saves,      \* the snapshots made
    snaps,      \* _snapshots
    index,      \* index.json; none yet counts as empty
    files,      \* snap_<tick>.json: the snapshot in it, 0 when there is none
    spoiled,    \* the ticks whose file is torn
    spc,        \* where save_snapshot is
    sacked,     \* history: snapshots whose save returned
    spoils      \* history: interrupted writes

snapVars == <<saves, snaps, index, files, spoiled, spc, sacked, spoils>>

SnapTypeOK ==
    /\ saves \in Seq([tick : Ticks, is_committed : BOOLEAN])
    /\ snaps \subseteq 1 .. Len(saves)
    /\ index \in [whole : BOOLEAN, has : SUBSET (1 .. Len(saves))]
    /\ files \in [Ticks -> 0 .. Len(saves)]
    /\ spoiled \subseteq Ticks
    /\ spc \in {"idle", "filed", "indexing", "down"}
    /\ sacked \subseteq 1 .. Len(saves)
    /\ spoils \in 0 .. MaxSpoils

SnapInit ==
    /\ saves = <<>>
    /\ snaps = {} /\ index = [whole |-> TRUE, has |-> {}]
    /\ files = [t \in Ticks |-> 0] /\ spoiled = {}
    /\ spc = "idle"
    /\ sacked = {} /\ spoils = 0

-----------------------------------------------------------------------------
\* Mutant: the file is still open, its content in a buffer, when the index is
\* rewritten.
SaveFileUnflushed(t, c) ==
    /\ spc = "idle" /\ Len(saves) < MaxSaves
    /\ saves' = Append(saves, [tick |-> t, is_committed |-> c])
    /\ spoiled' = spoiled \cup {t}
    /\ spc' = "filed"
    /\ UNCHANGED <<snaps, index, files, sacked, spoils>>

(* save_snapshot: the snapshot's own file ...                               *)
SaveFile(t, c) ==
    /\ spc = "idle" /\ Len(saves) < MaxSaves
    /\ saves' = Append(saves, [tick |-> t, is_committed |-> c])
    /\ files' = [files EXCEPT ![t] = Len(saves')]
    /\ spoiled' = spoiled \ {t}
    /\ spc' = "filed"
    /\ UNCHANGED <<snaps, index, sacked, spoils>>

SpoilFile(t) ==
    /\ spc = "idle" /\ spoils < MaxSpoils
    /\ spoiled' = spoiled \cup {t}
    /\ spoils' = spoils + 1
    /\ UNCHANGED <<saves, snaps, index, files, spc, sacked>>

\* Mutant: the index is written before the snapshot is on the list.
PersistFirst ==
    /\ spc = "filed"
    /\ spc' = "indexing"
    /\ index' = [whole |-> FALSE, has |-> snaps]
    /\ snaps' = snaps \cup {Len(saves)}
    /\ UNCHANGED <<saves, files, spoiled, sacked, spoils>>

(* ... then the list in memory; opening the index for writing empties it ... *)
TruncateIndex ==
    /\ spc = "filed"
    /\ spc' = "indexing"
    /\ snaps' = snaps \cup {Len(saves)}
    /\ index' = [whole |-> FALSE, has |-> snaps']
    /\ UNCHANGED <<saves, files, spoiled, sacked, spoils>>

(* ... and what was to be written is in it when it is closed.               *)
WriteIndex ==
    /\ spc = "indexing"
    /\ spc' = "idle"
    /\ index' = [whole |-> TRUE, has |-> index.has]
    /\ sacked' = sacked \cup {Len(saves)}
    /\ UNCHANGED <<saves, snaps, files, spoiled, spoils>>

SpoilIndex ==
    /\ spc = "indexing" /\ spoils < MaxSpoils
    /\ spc' = "idle"
    /\ spoils' = spoils + 1
    /\ UNCHANGED <<saves, snaps, index, files, spoiled, sacked>>

SnapCrash ==
    /\ spc # "down"
    /\ spc = "indexing" => spoils < MaxSpoils
    /\ spoils' = IF spc = "indexing" THEN spoils + 1 ELSE spoils
    /\ spc' = "down"
    /\ snaps' = {}
    /\ UNCHANGED <<saves, index, files, spoiled, sacked>>

(* _load_snapshots: json.load raises on a torn index, so the constructor    *)
(* does, now and at every later start.                                      *)
SnapStart ==
    /\ spc = "down" /\ index.whole
    /\ spc' = "idle"
    /\ snaps' = index.has
    /\ UNCHANGED <<saves, index, files, spoiled, sacked, spoils>>

SnapStep ==
    \/ \E t \in Ticks, c \in BOOLEAN : SaveFile(t, c)
    \/ \E t \in Ticks : SpoilFile(t)
    \/ TruncateIndex \/ WriteIndex \/ SpoilIndex

-----------------------------------------------------------------------------
\* Snapshot n comes after m in the list.
After(n, m) ==
    saves[n].tick > saves[m].tick \/ (saves[n].tick = saves[m].tick /\ n >= m)

\* get_latest_committed, as a set of one or none.
LatestCommitted ==
    LET committed == {n \in snaps : saves[n].is_committed}
    IN  {n \in committed : \A m \in committed : After(n, m)}

(* The code's promise after a crash: what recover() returns is never older   *)
(* than a committed snapshot whose save returned.                            *)
CommittedSurvive ==
    spc # "down" => \A m \in sacked : saves[m].is_committed =>
                        \E n \in LatestCommitted : After(n, m)

(* One interruption never costs both copies: when it has left the index      *)
(* unreadable, the files still hold every tick acknowledged, in its latest   *)
(* acknowledged version or a newer one.                                      *)
IndexCanBeRebuilt ==
    spc \in {"idle", "down"} /\ ~index.whole /\ spoils <= 1 =>
        \A n \in sacked : LET t == saves[n].tick
                          IN  t \notin spoiled /\ files[t] >= n
=============================================================================
