----------------------------- MODULE EventStore -----------------------------
(***************************************************************************)
(* persistence/stateful_recovery.py: EventStore and WriteAheadLog, with    *)
(* the AtomicFileWrite of persistence/atomic_fs.py that it flushes with.   *)
(*                                                                         *)
(* The log file is only ever appended to, so it is the sequence of the     *)
(* writes that left bytes in it.  A write that is interrupted (by an error *)
(* of the file system, or by a crash: then Crash is the next step) leaves  *)
(* a part of its line, or all of it but the newline.  The next write goes  *)
(* on in the same line.  An event is the number of its write, and as what  *)
(* EventStore holds is always in that order, a set of numbers stands for   *)
(* each of its lists.  A hash is the number of the event hashed.           *)
(***************************************************************************)
EXTENDS Naturals, Sequences, FiniteSets

CONSTANTS
    FlushEvery,     \* events between two flushes, 100 in the code
    MaxEvents,      \* bound: writes to the log
    MaxTears        \* bound: interrupted writes to the log

ASSUME EventBounds ==
    FlushEvery \in Nat \ {0} /\ MaxEvents \in Nat /\ MaxTears \in Nat

VARIABLES
    wal,        \* the log file
    events,     \* _events
    last,       \* _last_hash, 0 is 'genesis'
    storage,    \* the file at _storage_path; none yet counts as empty
    tmp,        \* the temporary file of a flush
    epc,        \* where append is
    eacked,     \* history: events whose append returned
    tears       \* history: interrupted writes to the log

eventVars == <<wal, events, last, storage, tmp, epc, eacked, tears>>

Lines == [text : {"part", "whole"}, ended : BOOLEAN, prev : Nat]
Content == [whole : BOOLEAN, has : SUBSET Nat]
Torn == [whole |-> FALSE, has |-> {}]
Empty == [whole |-> TRUE, has |-> {}]

EventTypeOK ==
    /\ wal \in Seq(Lines)
    /\ events \subseteq 1 .. Len(wal)
    /\ last \in 0 .. Len(wal)
    /\ storage \in Content /\ tmp \in Content
    /\ epc \in {"idle", "written", "flush", "rename", "down"}
    /\ eacked \subseteq 1 .. Len(wal)
    /\ tears \in 0 .. MaxTears

EventInit ==
    /\ wal = <<>>
    /\ events = {} /\ last = 0
    /\ storage = Empty /\ tmp = Torn
    /\ epc = "idle"
    /\ eacked = {} /\ tears = 0

-----------------------------------------------------------------------------
\* WriteAheadLog.recover reads line by line and drops what does not parse.
StartsLine(k) == k = 1 \/ wal[k - 1].ended
EndsLine(k) == k = Len(wal) \/ wal[k].ended
Parses(k) == wal[k].text = "whole" /\ StartsLine(k) /\ EndsLine(k)

Recover == {k \in 1 .. Len(wal) : Parses(k)}

(* append: the line is written to the log ...                               *)
WriteLine ==
    /\ epc = "idle"
    /\ Len(wal) < MaxEvents
    /\ wal' = Append(wal, [text |-> "whole", ended |-> TRUE, prev |-> last])
    /\ epc' = "written"
    /\ UNCHANGED <<events, last, storage, tmp, eacked, tears>>

(* ... or not quite, and the caller gets the error ...                      *)
TearLine(text) ==
    /\ epc = "idle"
    /\ Len(wal) < MaxEvents /\ tears < MaxTears
    /\ wal' = Append(wal, [text |-> text, ended |-> FALSE, prev |-> last])
    /\ tears' = tears + 1
    /\ UNCHANGED <<events, last, storage, tmp, epc, eacked>>

(* ... then the event enters memory, and sometimes all of it is flushed.    *)
Apply ==
    /\ epc = "written"
    /\ events' = events \cup {Len(wal)}
    /\ last' = Len(wal)
    /\ IF Cardinality(events') % FlushEvery = 0
       THEN epc' = "flush" /\ UNCHANGED eacked
       ELSE epc' = "idle" /\ eacked' = eacked \cup {Len(wal)}
    /\ UNCHANGED <<wal, storage, tmp, tears>>

\* Mutant: the flush writes to the file itself.
FlushInPlace ==
    /\ epc = "flush"
    /\ tmp' = [whole |-> TRUE, has |-> events] /\ storage' = Torn
    /\ epc' = "rename"
    /\ UNCHANGED <<wal, events, last, eacked, tears>>

(* AtomicFileWrite.write: to the temporary file, then the rename.           *)
FlushTmp ==
    /\ epc = "flush"
    /\ tmp' = [whole |-> TRUE, has |-> events]
    /\ epc' = "rename"
    /\ UNCHANGED <<wal, events, last, storage, eacked, tears>>

FlushRename ==
    /\ epc = "rename"
    /\ storage' = tmp /\ tmp' = Torn
    /\ epc' = "idle"
    /\ eacked' = eacked \cup {last}
    /\ UNCHANGED <<wal, events, last, tears>>

(* A flush fails: append raises, though the event is in the log and memory. *)
FlushFails ==
    /\ epc \in {"flush", "rename"}
    /\ tmp' = IF epc = "flush" THEN Torn ELSE tmp
    /\ epc' = "idle"
    /\ UNCHANGED <<wal, events, last, storage, eacked, tears>>

EventCrash ==
    /\ epc # "down"
    /\ epc' = "down"
    /\ events' = {} /\ last' = 0
    /\ UNCHANGED <<wal, storage, tmp, eacked, tears>>

\* Mutant: the chain starts anew after a restart.
StartAtGenesis ==
    /\ epc = "down"
    /\ epc' = "idle"
    /\ events' = Recover
    /\ last' = 0
    /\ UNCHANGED <<wal, storage, tmp, eacked, tears>>

(* _recover: the log alone is read, never the flushed file.                 *)
EventStart ==
    /\ epc = "down"
    /\ epc' = "idle"
    /\ events' = Recover
    /\ last' \in {m \in Recover \cup {0} : \A k \in Recover : k <= m}
    /\ UNCHANGED <<wal, storage, tmp, eacked, tears>>

EventStep ==
    \/ WriteLine \/ \E text \in {"part", "whole"} : TearLine(text)
    \/ Apply \/ FlushTmp \/ FlushRename \/ FlushFails

EventNext == EventStep \/ EventCrash \/ EventStart

EventSpec == EventInit /\ [][EventNext]_eventVars

-----------------------------------------------------------------------------
(* An interrupted write costs one later event at most: a restart loses no   *)
(* more acknowledged events than writes were interrupted, and no more than  *)
(* twice as many of the events readers can see now (an event that lacked    *)
(* only its newline is recovered once, and lost with the next one).         *)
OneLossPerTear ==
    /\ Cardinality(eacked \ Recover) <= tears
    /\ Cardinality(events \ Recover) <= 2 * tears

(* The recovered chain breaks only where an event was lost: the prev_hash of *)
(* an event is the hash of its predecessor in the recovered list, or that    *)
(* of an event which is no longer in it.                                     *)
ChainBreaksOnlyAtLoss ==
    \A k \in Recover : wal[k].prev \in Recover \cup {0} =>
        /\ wal[k].prev < k
        /\ \A j \in Recover : j < k => j <= wal[k].prev

(* The flushed file is never seen half written, and up to its last event it *)
(* lacks no acknowledged event but those recovery has lost.                 *)
StorageIsWhole ==
    /\ storage.whole
    /\ \A j \in storage.has, k \in eacked :
          k <= j => k \in storage.has \/ k \notin Recover
=============================================================================
