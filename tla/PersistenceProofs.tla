-------------------------- MODULE PersistenceProofs --------------------------
(***************************************************************************)
(* Theorems about Persistence, for any bounds.  The first are about        *)
(* EventStore alone; the snapshot index and the commits each have an       *)
(* invariant of their own, and the composition inherits all three, since   *)
(* every step of it is a step of EventSpec or leaves the event store       *)
(* alone.                                                                  *)
(***************************************************************************)
EXTENDS Persistence, FiniteSetTheorems, TLAPS

Unended == {k \in 1 .. Len(wal) : ~wal[k].ended}

\* A line that nothing written later can spoil.
Closed(k) == wal[k].ended /\ StartsLine(k)

(* Every line that was not ended was an interrupted write.                   *)
LinesAreWrites ==
    /\ Cardinality(Unended) <= tears
    /\ \A k \in 1 .. Len(wal) :
          /\ wal[k].ended => wal[k].text = "whole"
          /\ wal[k].prev < k

(* Memory holds written events only, acknowledged ones were ended, and the   *)
(* one that append is about to acknowledge is the last line.                 *)
MemoryIsOfLines ==
    /\ \A k \in events : wal[k].text = "whole"
    /\ \A k \in eacked : wal[k].ended
    /\ epc \in {"written", "flush", "rename"} => Len(wal) > 0 /\ wal[Len(wal)].ended
    /\ epc \in {"flush", "rename"} => last = Len(wal) /\ last \in events
    /\ epc = "rename" => tmp.whole /\ tmp.has = events
    /\ epc = "written" => \A k \in storage.has : k < Len(wal)
    /\ storage.has \subseteq 1 .. Len(wal)

(* What is closed and acknowledged is in memory while there is one.          *)
MemoryIsComplete ==
    epc # "down" => \A k \in eacked : k \in events \/ ~Closed(k)

(* The hash at hand is of the last closed line or of a later one.            *)
LastIsLatest ==
    epc \notin {"written", "down"} =>
        \A k \in 1 .. Len(wal) : Closed(k) => k <= last

(* Hence the hash in a line that begins at its beginning is no older than    *)
(* the last closed line before it.                                           *)
LinksSkipNothing ==
    \A k \in 1 .. Len(wal) : StartsLine(k) =>
        \A j \in 1 .. Len(wal) : j < k /\ Closed(j) => j <= wal[k].prev

(* StorageIsWhole in terms of closed lines.                                  *)
StorageIsComplete ==
    /\ storage.whole
    /\ \A j \in storage.has, k \in eacked :
          k <= j => k \in storage.has \/ ~Closed(k)

EventInv == EventTypeOK /\ LinesAreWrites /\ MemoryIsOfLines /\ MemoryIsComplete
                    /\ LastIsLatest /\ LinksSkipNothing /\ StorageIsComplete

-----------------------------------------------------------------------------
LEMMA EventInitInv == EventInit => EventInv
  <1> SUFFICES ASSUME EventInit PROVE EventInv
    OBVIOUS
  <1>1. wal = <<>> /\ Len(wal) = 0 /\ Unended = {}
    BY DEF EventInit, Unended
  <1>2. Cardinality(Unended) <= tears
    BY <1>1, FS_EmptySet DEF EventInit
  <1>3. EventTypeOK
    BY <1>1, EventBounds DEF EventInit, EventTypeOK, Content, Empty, Torn
  <1> QED
    BY <1>1, <1>2, <1>3
    DEF EventInit, EventInv, LinesAreWrites, MemoryIsOfLines, MemoryIsComplete, LastIsLatest,
        LinksSkipNothing, StorageIsComplete, Empty

(* A line appended leaves the others as they are, and closed ones closed.    *)
LEMMA Appended ==
    ASSUME EventTypeOK, NEW n, n = Len(wal) + 1,
           NEW line \in Lines, wal' = Append(wal, line)
    PROVE  /\ wal' \in Seq(Lines) /\ n \in Nat \ {0} /\ Len(wal) = n - 1 /\ Len(wal') = n
           /\ \A k \in 1 .. n - 1 : wal'[k] = wal[k]
           /\ wal'[n] = line
           /\ \A k \in 1 .. n - 1 : StartsLine(k)' = StartsLine(k) /\ Closed(k)' = Closed(k)
           /\ StartsLine(n)' => n = 1 \/ wal[n - 1].ended
           /\ Closed(n)' => line.ended
           /\ Unended' = Unended \cup (IF line.ended THEN {} ELSE {n})
  <1>1. /\ wal' \in Seq(Lines) /\ n \in Nat \ {0} /\ Len(wal) = n - 1 /\ Len(wal') = n
        /\ \A k \in 1 .. n - 1 : wal'[k] = wal[k]
        /\ wal'[n] = line
    BY DEF EventTypeOK
  <1>2. \A k \in 1 .. n - 1 : StartsLine(k)' = StartsLine(k)
    BY <1>1 DEF StartsLine
  <1>3. \A k \in 1 .. n - 1 : Closed(k)' = Closed(k)
    BY <1>1, <1>2 DEF Closed
  <1>4. StartsLine(n)' => n = 1 \/ wal[n - 1].ended
    <2>1. CASE n # 1
      <3>1. n - 1 \in 1 .. n - 1
        BY <1>1, <2>1
      <3>2. wal'[n - 1] = wal[n - 1]
        BY <1>1, <3>1
      <3> QED BY <2>1, <3>2 DEF StartsLine
    <2> QED BY <2>1
  <1>5. Unended' = Unended \cup (IF line.ended THEN {} ELSE {n})
    BY <1>1 DEF Unended
  <1>6. Closed(n)' => line.ended
    BY <1>1 DEF Closed
  <1> QED BY <1>1, <1>2, <1>3, <1>4, <1>5, <1>6

(* What holds of the lines after any write, whole or not.                    *)
LEMMA Linked ==
    ASSUME EventInv, epc = "idle", NEW line \in Lines, line.prev = last,
           line.ended => line.text = "whole", wal' = Append(wal, line)
    PROVE  /\ \A k \in 1 .. Len(wal') : /\ wal'[k].ended => wal'[k].text = "whole"
                                       /\ wal'[k].prev < k
           /\ LinksSkipNothing'
  <1> DEFINE n == Len(wal) + 1
  <1>1. EventTypeOK /\ last \in 0 .. Len(wal)
    BY DEF EventInv, EventTypeOK
  <1> HIDE DEF n
  <1>2. n = Len(wal) + 1
    BY DEF n
  <1> USE <1>1, <1>2, Appended
  <1>3. \A k \in 1 .. Len(wal') : /\ wal'[k].ended => wal'[k].text = "whole"
                                 /\ wal'[k].prev < k
    BY DEF EventInv, LinesAreWrites
  <1>4. LinksSkipNothing'
    <2> SUFFICES ASSUME NEW k \in 1 .. n, NEW j \in 1 .. n, StartsLine(k)', j < k, Closed(j)'
                 PROVE  j <= wal'[k].prev
      BY DEF LinksSkipNothing
    <2>1. j \in 1 .. n - 1 /\ Closed(j)
      OBVIOUS
    <2>2. CASE k = n
      BY <2>1, <2>2 DEF EventInv, LastIsLatest
    <2>3. CASE k # n
      <3>1. k \in 1 .. n - 1 /\ StartsLine(k) /\ wal'[k] = wal[k]
        BY <2>3
      <3> QED BY <2>1, <3>1 DEF EventInv, LinksSkipNothing
    <2> QED BY <2>2, <2>3
  <1> QED BY <1>3, <1>4

LEMMA KeepWriteLine == ASSUME EventInv, WriteLine PROVE EventInv'
  <1> DEFINE line == [text |-> "whole", ended |-> TRUE, prev |-> last]
             n == Len(wal) + 1
  <1>1. line \in Lines /\ wal' = Append(wal, line) /\ last \in 0 .. Len(wal)
    BY DEF WriteLine, Lines, EventInv, EventTypeOK
  <1>2. line.text = "whole" /\ line.ended /\ line.prev = last /\ n = Len(wal) + 1
    OBVIOUS
  <1> HIDE DEF line, n
  <1>3. LinksSkipNothing' /\ \A k \in 1 .. Len(wal') :
            (wal'[k].ended => wal'[k].text = "whole") /\ wal'[k].prev < k
    BY <1>1, <1>2, Linked DEF WriteLine
  <1> USE <1>1, <1>2, Appended DEF WriteLine
  <1>4. EventTypeOK'
    BY DEF EventInv, EventTypeOK
  <1>5. LinesAreWrites'
    BY <1>3 DEF EventInv, LinesAreWrites
  <1>6. MemoryIsOfLines'
    BY DEF EventInv, EventTypeOK, MemoryIsOfLines
  <1>7. MemoryIsComplete' /\ LastIsLatest'
    BY DEF EventInv, EventTypeOK, MemoryIsComplete, LastIsLatest
  <1>8. StorageIsComplete'
    BY DEF EventInv, EventTypeOK, StorageIsComplete
  <1> QED BY <1>3, <1>4, <1>5, <1>6, <1>7, <1>8 DEF EventInv

LEMMA UnendedFinite ==
    ASSUME EventInv
    PROVE  /\ IsFiniteSet(Unended) /\ Cardinality(Unended) \in Nat
           /\ Unended \subseteq 1 .. Len(wal)
           /\ Cardinality(Unended) <= tears /\ tears \in Nat
  <1>1. Unended \subseteq 1 .. Len(wal) /\ Len(wal) \in Nat
    BY DEF Unended, EventInv, EventTypeOK
  <1>2. IsFiniteSet(1 .. Len(wal))
    BY <1>1, FS_Interval
  <1>3. IsFiniteSet(Unended) /\ Cardinality(Unended) \in Nat
    BY <1>1, <1>2, FS_Subset, FS_CardinalityType
  <1> QED BY <1>1, <1>3 DEF EventInv, EventTypeOK, LinesAreWrites

LEMMA KeepTearLine ==
    ASSUME EventInv, NEW text \in {"part", "whole"}, TearLine(text) PROVE EventInv'
  <1> DEFINE line == [text |-> text, ended |-> FALSE, prev |-> last]
             n == Len(wal) + 1
  <1>1. line \in Lines /\ wal' = Append(wal, line) /\ last \in 0 .. Len(wal)
    BY DEF TearLine, Lines, EventInv, EventTypeOK
  <1>2. ~line.ended /\ line.prev = last /\ n = Len(wal) + 1
    OBVIOUS
  <1> HIDE DEF line, n
  <1>3. LinksSkipNothing' /\ \A k \in 1 .. Len(wal') :
            (wal'[k].ended => wal'[k].text = "whole") /\ wal'[k].prev < k
    BY <1>1, <1>2, Linked DEF TearLine
  <1> USE <1>1, <1>2, Appended DEF TearLine
  <1>4. EventTypeOK'
    BY EventBounds DEF EventInv, EventTypeOK
  <1>5. LinesAreWrites'
    <2>1. n \notin Unended
      BY UnendedFinite DEF EventInv
    <2>2. Unended' = Unended \cup {n}
      BY DEF EventInv
    <2>3. Cardinality(Unended') = Cardinality(Unended) + 1
      BY <2>1, <2>2, UnendedFinite, FS_AddElement
    <2>4. Cardinality(Unended') <= tears'
      BY <2>3, UnendedFinite
    <2> QED BY <1>3, <2>4 DEF LinesAreWrites
  <1>6. MemoryIsOfLines'
    BY DEF EventInv, EventTypeOK, MemoryIsOfLines
  <1>7. MemoryIsComplete'
    BY DEF EventInv, EventTypeOK, MemoryIsComplete
  <1>8. LastIsLatest'
    <2> SUFFICES ASSUME NEW k \in 1 .. n, Closed(k)' PROVE k <= last
      BY DEF EventInv, LastIsLatest
    <2>1. k \in 1 .. n - 1 /\ Closed(k)
      BY DEF EventInv
    <2> QED BY <2>1 DEF EventInv, LastIsLatest
  <1>9. StorageIsComplete'
    BY DEF EventInv, EventTypeOK, StorageIsComplete
  <1> QED BY <1>3, <1>4, <1>5, <1>6, <1>7, <1>8, <1>9 DEF EventInv

(* The other steps leave the log alone.                                      *)
LEMMA LogKept ==
    ASSUME wal' = wal
    PROVE  /\ Unended' = Unended /\ Recover' = Recover
           /\ \A k : Closed(k)' = Closed(k)
           /\ \A k : StartsLine(k)' = StartsLine(k)
  BY DEF Unended, Recover, Parses, EndsLine, StartsLine, Closed

LEMMA KeepApply == ASSUME EventInv, Apply PROVE EventInv'
  <1> USE LogKept DEF Apply
  <1>1. Len(wal) \in 1 .. Len(wal) /\ Len(wal) \in Nat /\ wal[Len(wal)].ended
    BY DEF EventInv, EventTypeOK, MemoryIsOfLines
  <1>2. wal[Len(wal)].text = "whole"
    BY <1>1 DEF EventInv, LinesAreWrites
  <1>3. \/ epc' = "flush" /\ eacked' = eacked
        \/ epc' = "idle" /\ eacked' = eacked \cup {Len(wal)}
    OBVIOUS
  <1>4. EventTypeOK'
    <2>1. events' \subseteq 1 .. Len(wal) /\ eacked' \subseteq 1 .. Len(wal)
      BY <1>1, <1>3 DEF EventInv, EventTypeOK
    <2> QED BY <1>1, <1>3, <2>1 DEF EventInv, EventTypeOK
  <1>5. LinesAreWrites' /\ LinksSkipNothing'
    BY DEF EventInv, LinesAreWrites, LinksSkipNothing
  <1>6. MemoryIsOfLines'
    BY <1>1, <1>2, <1>3 DEF EventInv, MemoryIsOfLines
  <1>7. MemoryIsComplete' /\ LastIsLatest'
    BY <1>1, <1>3 DEF EventInv, MemoryIsComplete, LastIsLatest
  <1>8. StorageIsComplete'
    <2>1. storage' = storage /\ storage.whole /\ \A j \in storage.has : j \in Nat /\ j < Len(wal)
      BY <1>1 DEF EventInv, MemoryIsOfLines, StorageIsComplete
    <2> SUFFICES ASSUME NEW j \in storage.has, NEW k \in eacked', k <= j, Closed(k)
                 PROVE  k \in storage.has
      BY <2>1 DEF StorageIsComplete
    <2>2. k \in eacked
      BY <1>1, <1>3, <2>1
    <2> QED BY <2>2 DEF EventInv, StorageIsComplete
  <1> QED BY <1>4, <1>5, <1>6, <1>7, <1>8 DEF EventInv

LEMMA KeepFlush == ASSUME EventInv, FlushTmp \/ FlushRename \/ FlushFails PROVE EventInv'
  <1> USE LogKept
  <1>0. wal' = wal /\ UNCHANGED <<events, last, tears>>
    BY DEF FlushTmp, FlushRename, FlushFails
  <1>1. LinesAreWrites' /\ LinksSkipNothing'
    BY <1>0 DEF EventInv, LinesAreWrites, LinksSkipNothing
  <1>2. CASE FlushTmp
    <2>1. EventTypeOK'
      BY <1>2, <1>0 DEF FlushTmp, EventInv, EventTypeOK, Content
    <2> QED BY <1>0, <1>1, <1>2, <2>1
        DEF FlushTmp, EventInv, MemoryIsOfLines, MemoryIsComplete, LastIsLatest, StorageIsComplete
  <1>3. CASE FlushRename
    <2>1. EventTypeOK'
      BY <1>3, <1>0 DEF FlushRename, EventInv, EventTypeOK, Content, Torn, MemoryIsOfLines
    <2>2. storage'.whole /\ storage'.has = events /\ eacked' = eacked \cup {last}
      BY <1>3 DEF FlushRename, EventInv, MemoryIsOfLines
    <2>3. /\ last \in events /\ epc' = "idle" /\ epc = "rename"
          /\ last = Len(wal) /\ wal[Len(wal)].ended
      BY <1>3 DEF FlushRename, EventInv, MemoryIsOfLines
    <2>4. MemoryIsOfLines'
      BY <1>0, <2>2, <2>3 DEF EventInv, EventTypeOK, MemoryIsOfLines
    <2>5. MemoryIsComplete' /\ LastIsLatest'
      BY <1>0, <2>2, <2>3 DEF EventInv, MemoryIsComplete, LastIsLatest
    <2>6. StorageIsComplete'
      BY <1>0, <2>2, <2>3 DEF EventInv, MemoryIsComplete, StorageIsComplete
    <2> QED BY <1>1, <2>1, <2>4, <2>5, <2>6 DEF EventInv
  <1>4. CASE FlushFails
    <2>1. EventTypeOK'
      BY <1>4, <1>0 DEF FlushFails, EventInv, EventTypeOK, Content, Torn
    <2> QED BY <1>0, <1>1, <1>4, <2>1
        DEF FlushFails, EventInv, MemoryIsOfLines, MemoryIsComplete, LastIsLatest, StorageIsComplete
  <1> QED BY <1>2, <1>3, <1>4

(* A closed line is one that parses; an ended one that does not follows an   *)
(* interrupted write.                                                        *)
LEMMA ClosedParses ==
    ASSUME EventInv
    PROVE  /\ \A k \in 1 .. Len(wal) : Closed(k) => k \in Recover
           /\ \A k \in Recover : StartsLine(k) /\ (k < Len(wal) => Closed(k))
           /\ \A k \in Recover : wal[k].ended => Closed(k)
  BY DEF Closed, Recover, Parses, EndsLine, EventInv, LinesAreWrites, EventTypeOK

LEMMA KeepRestart == ASSUME EventInv, EventCrash \/ EventStart PROVE EventInv'
  <1> USE LogKept
  <1>0. /\ wal' = wal /\ UNCHANGED <<storage, tmp, eacked, tears>>
        /\ \/ epc' = "down" /\ events' = {} /\ last' = 0
           \/ /\ epc' = "idle" /\ events' = Recover
              /\ last' \in Recover \cup {0} /\ \A k \in Recover : k <= last'
    BY DEF EventCrash, EventStart
  <1>1. Recover \subseteq 1 .. Len(wal) /\ \A k \in Recover : wal[k].text = "whole"
    BY DEF Recover, Parses
  <1>2. EventTypeOK'
    <2> HIDE LogKept
    <2>0. Len(wal) \in Nat
      BY DEF EventInv, EventTypeOK
    <2>1. events' \subseteq 1 .. Len(wal)
      BY <1>0, <1>1
    <2>2. last' = 0 \/ last' \in 1 .. Len(wal)
      BY <1>0, <1>1
    <2>3. last' \in 0 .. Len(wal)
      BY <2>0, <2>2
    <2>4. epc' \in {"idle", "down"}
      BY <1>0
    <2> QED BY <1>0, <2>1, <2>3, <2>4 DEF EventInv, EventTypeOK
  <1>3. LinesAreWrites' /\ LinksSkipNothing' /\ StorageIsComplete'
    BY <1>0 DEF EventInv, LinesAreWrites, LinksSkipNothing, StorageIsComplete
  <1>4. MemoryIsOfLines'
    BY <1>0, <1>1 DEF EventInv, MemoryIsOfLines
  <1>5. MemoryIsComplete' /\ LastIsLatest'
    BY <1>0, ClosedParses DEF EventInv, EventTypeOK, MemoryIsComplete, LastIsLatest
  <1> QED BY <1>2, <1>3, <1>4, <1>5 DEF EventInv

LEMMA EventNextInv == EventInv /\ [EventNext]_eventVars => EventInv'
  <1> SUFFICES ASSUME EventInv, [EventNext]_eventVars PROVE EventInv'
    OBVIOUS
  <1>1. CASE UNCHANGED eventVars
    BY <1>1, LogKept
    DEF eventVars, EventInv, EventTypeOK, LinesAreWrites, MemoryIsOfLines, MemoryIsComplete,
        LastIsLatest, LinksSkipNothing, StorageIsComplete
  <1>2. CASE EventNext
    BY <1>2, KeepWriteLine, KeepTearLine, KeepApply, KeepFlush, KeepRestart
    DEF EventNext, EventStep
  <1> QED BY <1>1, <1>2

LEMMA EventInvHolds == EventSpec => []EventInv
  BY EventInitInv, EventNextInv, PTL DEF EventSpec

-----------------------------------------------------------------------------
(* EventStore and its log keep to their types.                               *)
THEOREM EventTypeCorrect == EventSpec => []EventTypeOK
  <1>1. EventInv => EventTypeOK
    BY DEF EventInv
  <1> QED BY <1>1, EventInvHolds, PTL

(* ChainBreaksOnlyAtLoss of every instance: append takes the hash that       *)
(* append or _recover left, which is that of the last closed line or newer.  *)
THEOREM ChainBreaksOnlyAtLossHolds == EventSpec => []ChainBreaksOnlyAtLoss
  <1>1. EventInv => ChainBreaksOnlyAtLoss
    BY ClosedParses
    DEF ChainBreaksOnlyAtLoss, EventInv, EventTypeOK, LinesAreWrites, LinksSkipNothing, Recover
  <1> QED BY <1>1, EventInvHolds, PTL

(* StorageIsWhole of every instance: the flushed file only ever changes by   *)
(* the rename of a complete one.                                             *)
THEOREM StorageIsWholeHolds == EventSpec => []StorageIsWhole
  <1>1. EventInv => StorageIsWhole
    BY ClosedParses DEF StorageIsWhole, EventInv, EventTypeOK, MemoryIsOfLines, StorageIsComplete
  <1> QED BY <1>1, EventInvHolds, PTL

(* OneLossPerTear of every instance: an ended line that does not parse comes *)
(* right after an interrupted write, and no two come after the same one.     *)
THEOREM OneLossPerTearHolds == EventSpec => []OneLossPerTear
  <1>1. EventInv => OneLossPerTear
    <2> SUFFICES ASSUME EventInv PROVE OneLossPerTear
      OBVIOUS
    <2> DEFINE LineAfter == {k + 1 : k \in Unended}
    <2>1. /\ IsFiniteSet(Unended) /\ Cardinality(Unended) \in Nat
          /\ Cardinality(Unended) <= tears /\ tears \in Nat
      BY UnendedFinite
    <2>2. IsFiniteSet(LineAfter) /\ Cardinality(LineAfter) <= Cardinality(Unended)
      <3> DEFINE next == [k \in Unended |-> k + 1]
      <3>1. next \in Surjection(Unended, LineAfter)
        BY DEF Surjection
      <3> HIDE DEF next, LineAfter
      <3> QED BY <2>1, <3>1, FS_Surjection
    <2>3. Cardinality(LineAfter) \in Nat
      BY <2>2, FS_CardinalityType
    <2>4. eacked \ Recover \subseteq LineAfter
      <3> SUFFICES ASSUME NEW k \in eacked, k \notin Recover PROVE k \in LineAfter
        OBVIOUS
      <3>1. k \in 1 .. Len(wal) /\ wal[k].ended /\ wal[k].text = "whole" /\ Len(wal) \in Nat
        BY DEF EventInv, EventTypeOK, MemoryIsOfLines, LinesAreWrites
      <3>2. k # 1 /\ ~wal[k - 1].ended
        BY <3>1 DEF Recover, Parses, StartsLine, EndsLine
      <3>3. k - 1 \in Unended /\ k = (k - 1) + 1
        BY <3>1, <3>2 DEF Unended
      <3> QED BY <3>3
    <2>5. events \ Recover \subseteq Unended \cup LineAfter
      <3> SUFFICES ASSUME NEW k \in events, k \notin Recover PROVE k \in Unended \cup LineAfter
        OBVIOUS
      <3>1. k \in 1 .. Len(wal) /\ wal[k].text = "whole" /\ Len(wal) \in Nat
        BY DEF EventInv, EventTypeOK, MemoryIsOfLines
      <3>2. CASE ~wal[k].ended
        BY <3>1, <3>2 DEF Unended
      <3>3. CASE wal[k].ended
        <4>1. k # 1 /\ ~wal[k - 1].ended
          BY <3>1, <3>3 DEF Recover, Parses, StartsLine, EndsLine
        <4>2. k - 1 \in Unended /\ k = (k - 1) + 1
          BY <3>1, <4>1 DEF Unended
        <4> QED BY <4>2
      <3> QED BY <3>2, <3>3
    <2> HIDE DEF LineAfter
    <2>6. Cardinality(eacked \ Recover) <= Cardinality(LineAfter)
      BY <2>2, <2>4, FS_Subset
    <2>7. Cardinality(eacked \ Recover) \in Nat
      BY <2>2, <2>4, FS_Subset, FS_CardinalityType
    <2>8. /\ IsFiniteSet(Unended \cup LineAfter)
          /\ Cardinality(Unended \cup LineAfter) =
               Cardinality(Unended) + Cardinality(LineAfter) - Cardinality(Unended \cap LineAfter)
      BY <2>1, <2>2, FS_Union
    <2>9. Cardinality(Unended \cap LineAfter) \in Nat
      BY <2>1, FS_Intersection, FS_CardinalityType
    <2>10. /\ Cardinality(events \ Recover) <= Cardinality(Unended \cup LineAfter)
           /\ Cardinality(events \ Recover) \in Nat
      BY <2>5, <2>8, FS_Subset, FS_CardinalityType
    <2>11. Cardinality(Unended \cup LineAfter) \in Nat
      BY <2>8, FS_CardinalityType
    <2> QED BY <2>1, <2>2, <2>3, <2>6, <2>7, <2>8, <2>9, <2>10, <2>11 DEF OneLossPerTear
  <1> QED BY <1>1, EventInvHolds, PTL

-----------------------------------------------------------------------------
(* The snapshot index, the commits, and the composition.                   *)

(* While there is a memory it has every acknowledged snapshot, and so has    *)
(* the index whenever it can be read.                                        *)
MemoryAndIndexAgree ==
    /\ spc # "down" => sacked \subseteq snaps
    /\ index.whole => sacked \subseteq index.has
    /\ spc \in {"filed", "indexing"} => Len(saves) > 0
    /\ spc = "indexing" => index.has = snaps /\ Len(saves) \in snaps

(* The file of a tick is of its last save.                                   *)
FilesAreLatest == \A n \in 1 .. Len(saves) : files[saves[n].tick] >= n

(* A torn index has used up one interruption, unless it is being written.    *)
SpoilsAreCounted ==
    /\ spoils = 0 => spoiled = {}
    /\ ~index.whole /\ spc # "indexing" => spoils > 0
    /\ ~index.whole /\ spc # "indexing" /\ spoils <= 1 => spoiled = {}

SnapInv == SnapTypeOK /\ MemoryAndIndexAgree /\ FilesAreLatest /\ SpoilsAreCounted

(* What a commit has staged so far is whole, and all of it once the old      *)
(* files are being removed.                                                  *)
StagedSoFar ==
    /\ dpc \in {"staging", "removing"} => tick \in CommitTicks
    /\ dpc = "staging" => \A f \in Files \ left : staging[tick][f] = "whole"
    /\ dpc = "removing" => staging[tick] = WholeDir

(* Before the first interruption only a commit under way takes files away.   *)
WholeUntilCut ==
    cacked /\ cuts = 0 /\ dpc # "removing" => committed = WholeDir

CommitInv == CommitTypeOK /\ StagedSoFar /\ WholeUntilCut
                          /\ SomeCopyIsWhole /\ NoTornCommit

-----------------------------------------------------------------------------
LEMMA Indexes ==
    ASSUME SnapTypeOK
    PROVE  /\ Len(saves) \in Nat /\ Ticks \subseteq Nat
           /\ \A n \in 1 .. Len(saves) : /\ saves[n].tick \in Ticks /\ saves[n].tick \in Nat
                                         /\ saves[n].is_committed \in BOOLEAN
  <1> DEFINE Saves == [tick : Ticks, is_committed : BOOLEAN]
  <1>1. saves \in Seq(Saves) /\ Ticks \subseteq Nat
    BY DEF SnapTypeOK, Ticks
  <1>2. \A s \in Saves : s.tick \in Ticks /\ s.is_committed \in BOOLEAN
    OBVIOUS
  <1> HIDE DEF Saves
  <1>3. Len(saves) \in Nat /\ \A n \in 1 .. Len(saves) : saves[n] \in Saves
    BY <1>1
  <1> QED BY <1>1, <1>2, <1>3

LEMMA SnapInitInv == SnapInit => SnapInv
  BY SnapBounds
  DEF SnapInit, SnapInv, SnapTypeOK, MemoryAndIndexAgree, FilesAreLatest, SpoilsAreCounted

LEMMA KeepSaveFile ==
    ASSUME SnapInv, NEW t \in Ticks, NEW c \in BOOLEAN, SaveFile(t, c)
    PROVE  SnapInv'
  <1> DEFINE new == [tick |-> t, is_committed |-> c]
             n == Len(saves) + 1
  <1>1. /\ saves \in Seq([tick : Ticks, is_committed : BOOLEAN])
        /\ new \in [tick : Ticks, is_committed : BOOLEAN] /\ Len(saves) \in Nat
    BY DEF SnapInv, SnapTypeOK
  <1>2. /\ saves' = Append(saves, new)
        /\ saves' \in Seq([tick : Ticks, is_committed : BOOLEAN])
        /\ Len(saves') = n
        /\ saves'[n] = new /\ \A m \in 1 .. Len(saves) : saves'[m] = saves[m]
    BY <1>1 DEF SaveFile
  <1>3. /\ files' = [files EXCEPT ![t] = n] /\ spoiled' = spoiled \ {t} /\ spc' = "filed"
        /\ UNCHANGED <<snaps, index, sacked, spoils>> /\ spc = "idle"
    BY <1>2 DEF SaveFile
  <1> HIDE DEF new
  <1>4. SnapTypeOK'
    BY <1>1, <1>2, <1>3 DEF SnapInv, SnapTypeOK
  <1>5. MemoryAndIndexAgree'
    BY <1>1, <1>2, <1>3 DEF SnapInv, MemoryAndIndexAgree
  <1>6. FilesAreLatest'
    <2> SUFFICES ASSUME NEW m \in 1 .. n PROVE files'[saves'[m].tick] >= m
      BY <1>2 DEF FilesAreLatest
    <2>1. CASE m = n
      BY <1>1, <1>2, <1>3, <2>1 DEF new, SnapInv, SnapTypeOK
    <2>2. CASE m # n
      <3>1. m \in 1 .. Len(saves) /\ saves'[m] = saves[m]
        BY <1>1, <1>2, <2>2
      <3>2. files[saves[m].tick] >= m /\ saves[m].tick \in Ticks
        BY <3>1, Indexes DEF SnapInv, FilesAreLatest
      <3> QED BY <1>1, <1>3, <3>1, <3>2 DEF SnapInv, SnapTypeOK
    <2> QED BY <2>1, <2>2
  <1>7. SpoilsAreCounted'
    BY <1>3 DEF SnapInv, SpoilsAreCounted
  <1> QED BY <1>4, <1>5, <1>6, <1>7 DEF SnapInv

LEMMA KeepSpoilFile ==
    ASSUME SnapInv, NEW t \in Ticks, SpoilFile(t) PROVE SnapInv'
  <1>1. SnapTypeOK'
    BY SnapBounds DEF SpoilFile, SnapInv, SnapTypeOK
  <1>2. MemoryAndIndexAgree' /\ FilesAreLatest'
    BY DEF SpoilFile, SnapInv, MemoryAndIndexAgree, FilesAreLatest
  <1>3. SpoilsAreCounted'
    BY DEF SpoilFile, SnapInv, SnapTypeOK, SpoilsAreCounted
  <1> QED BY <1>1, <1>2, <1>3 DEF SnapInv

LEMMA KeepIndex == ASSUME SnapInv, TruncateIndex \/ WriteIndex PROVE SnapInv'
  <1>1. /\ UNCHANGED <<saves, files, spoiled, spoils>>
        /\ \/ /\ TruncateIndex /\ spc = "filed" /\ spc' = "indexing" /\ sacked' = sacked
              /\ snaps' = snaps \cup {Len(saves)}
              /\ index' = [whole |-> FALSE, has |-> snaps']
           \/ /\ WriteIndex /\ spc = "indexing" /\ spc' = "idle" /\ snaps' = snaps
              /\ sacked' = sacked \cup {Len(saves)}
              /\ index' = [whole |-> TRUE, has |-> index.has]
    BY DEF TruncateIndex, WriteIndex
  <1>2. Len(saves) \in 1 .. Len(saves) /\ Len(saves) \in Nat
    BY <1>1, Indexes DEF SnapInv, MemoryAndIndexAgree
  <1>3. SnapTypeOK'
    <2>1. snaps' \subseteq 1 .. Len(saves) /\ sacked' \subseteq 1 .. Len(saves)
      BY <1>1, <1>2 DEF SnapInv, SnapTypeOK
    <2>2. index' \in [whole : BOOLEAN, has : SUBSET (1 .. Len(saves))]
      <3>1. index.has \subseteq 1 .. Len(saves)
        BY DEF SnapInv, SnapTypeOK
      <3> DEFINE X == SUBSET (1 .. Len(saves))
      <3>2. \E w \in BOOLEAN, h \in X : index' = [whole |-> w, has |-> h]
        BY <1>1, <2>1, <3>1
      <3> HIDE DEF X
      <3>3. index' \in [whole : BOOLEAN, has : X]
        BY <3>2
      <3> QED BY <3>3 DEF X
    <2>3. spc' \in {"idle", "filed", "indexing", "down"}
      BY <1>1
    <2> QED BY <1>1, <2>1, <2>2, <2>3 DEF SnapInv, SnapTypeOK
  <1>4. spc = "indexing" => Len(saves) \in snaps
    BY DEF SnapInv, MemoryAndIndexAgree
  <1>5. MemoryAndIndexAgree'
    BY <1>1, <1>2, <1>4 DEF SnapInv, MemoryAndIndexAgree
  <1>6. FilesAreLatest' /\ SpoilsAreCounted'
    BY <1>1 DEF SnapInv, FilesAreLatest, SpoilsAreCounted
  <1> QED BY <1>3, <1>5, <1>6 DEF SnapInv

LEMMA KeepSnapCrash ==
    ASSUME SnapInv, SpoilIndex \/ SnapCrash \/ SnapStart PROVE SnapInv'
  <1>1. /\ UNCHANGED <<saves, index, files, spoiled, sacked>>
        /\ spc' \in {"idle", "down"}
        /\ \/ spoils' = spoils /\ spc # "indexing"
           \/ spoils' = spoils + 1 /\ spoils < MaxSpoils /\ spc = "indexing"
        /\ \/ spc' = "idle" /\ snaps' = snaps /\ spc = "indexing"
           \/ spc' = "down" /\ snaps' = {}
           \/ spc' = "idle" /\ snaps' = index.has /\ index.whole
    BY DEF SpoilIndex, SnapCrash, SnapStart
  <1>2. SnapTypeOK'
    <2>1. snaps' \subseteq 1 .. Len(saves)
      BY <1>1 DEF SnapInv, SnapTypeOK
    <2>2. spoils' \in 0 .. MaxSpoils
      BY <1>1, SnapBounds DEF SnapInv, SnapTypeOK
    <2> QED BY <1>1, <2>1, <2>2 DEF SnapInv, SnapTypeOK
  <1>3. MemoryAndIndexAgree' /\ FilesAreLatest'
    BY <1>1 DEF SnapInv, MemoryAndIndexAgree, FilesAreLatest
  <1>4. SpoilsAreCounted'
    BY <1>1 DEF SnapInv, SnapTypeOK, SpoilsAreCounted
  <1> QED BY <1>2, <1>3, <1>4 DEF SnapInv

LEMMA KeepSnap ==
    ASSUME SnapInv, SnapStep \/ SnapCrash \/ SnapStart \/ UNCHANGED snapVars
    PROVE  SnapInv'
  <1>1. CASE UNCHANGED snapVars
    BY <1>1
    DEF snapVars, SnapInv, SnapTypeOK, MemoryAndIndexAgree, FilesAreLatest, SpoilsAreCounted
  <1> QED BY <1>1, KeepSaveFile, KeepSpoilFile, KeepIndex, KeepSnapCrash DEF SnapStep

-----------------------------------------------------------------------------
(* LatestCommitted is empty only if no snapshot at hand is committed: in a   *)
(* finite set that After orders, the one with all the others below it is the *)
(* one whose rank is the size of the set.                                    *)
LEMMA LatestExists ==
    ASSUME SnapTypeOK, NEW S \in SUBSET (1 .. Len(saves)), S # {}
    PROVE  \E n \in S : \A m \in S : After(n, m)
  <1> DEFINE Below(n) == {m \in S : After(n, m)}
             rank == [n \in S |-> Cardinality(Below(n))]
             T == 1 .. Cardinality(S)
  <1>1. \A n \in S : n \in Nat /\ saves[n].tick \in Nat
    BY Indexes
  <1>2. IsFiniteSet(S) /\ Cardinality(S) \in Nat
    <2>1. IsFiniteSet(1 .. Len(saves))
      BY Indexes, FS_Interval
    <2> QED BY <2>1, FS_Subset, FS_CardinalityType
  <1>3. \A n \in S : /\ IsFiniteSet(Below(n)) /\ Cardinality(Below(n)) \in Nat
                     /\ Cardinality(Below(n)) <= Cardinality(S)
                     /\ Cardinality(Below(n)) = Cardinality(S) => Below(n) = S
    <2> SUFFICES ASSUME NEW n \in S
                 PROVE  /\ IsFiniteSet(Below(n)) /\ Cardinality(Below(n)) \in Nat
                        /\ Cardinality(Below(n)) <= Cardinality(S)
                        /\ Cardinality(Below(n)) = Cardinality(S) => Below(n) = S
      OBVIOUS
    <2>1. Below(n) \subseteq S
      OBVIOUS
    <2> HIDE DEF Below
    <2> QED BY <1>2, <2>1, FS_Subset, FS_CardinalityType
  <1>4. \A n \in S : Cardinality(Below(n)) \in T
    <2> SUFFICES ASSUME NEW n \in S PROVE Cardinality(Below(n)) \in T
      OBVIOUS
    <2>1. n \in Below(n)
      BY <1>1 DEF After
    <2> HIDE DEF Below
    <2>2. Cardinality(Below(n)) # 0
      BY <1>3, <2>1, FS_EmptySet
    <2> QED BY <1>2, <1>3, <2>2
  <1>5. ASSUME NEW n \in S, NEW m \in S, n # m, After(n, m)
        PROVE  Cardinality(Below(m)) # Cardinality(Below(n))
    <2>1. n \in Below(n) /\ n \notin Below(m)
      BY <1>1, <1>5 DEF After
    <2>2. ASSUME NEW k \in Below(m) PROVE k \in Below(n)
      BY <1>1, <1>5, <2>2 DEF After
    <2>3. Below(m) \subseteq Below(n) /\ Below(m) # Below(n)
      BY <2>1, <2>2
    <2> HIDE DEF Below
    <2> QED BY <1>3, <2>3, FS_Subset
  <1>6. rank \in Injection(S, T)
    <2>1. rank \in [S -> T]
      BY <1>4
    <2>2. \A n, m \in S : After(n, m) \/ After(m, n)
      BY <1>1 DEF After
    <2>3. \A n, m \in S : rank[n] = rank[m] => n = m
      <3> HIDE DEF Below
      <3> QED BY <1>5, <2>2
    <2> QED BY <2>1, <2>3 DEF Injection, IsInjective
  <1>7. IsFiniteSet(T) /\ Cardinality(T) = Cardinality(S)
    <2>1. 1 \in Int /\ Cardinality(S) \in Int
      BY <1>2
    <2>2. IsFiniteSet(T) /\ Cardinality(T) =
              IF 1 > Cardinality(S) THEN 0 ELSE Cardinality(S) - 1 + 1
      BY <2>1, FS_Interval
    <2> HIDE DEF T
    <2> QED BY <1>2, <2>2
  <1>8. rank \in Surjection(S, T)
    <2> HIDE DEF rank, T
    <2> QED BY <1>2, <1>6, <1>7, FS_Injection
  <1>9. Cardinality(S) \in T
    BY <1>2, FS_EmptySet
  <1>10. PICK n \in S : rank[n] = Cardinality(S)
    BY <1>8, <1>9 DEF Surjection
  <1>11. Below(n) = S
    <2> HIDE DEF Below
    <2> QED BY <1>3, <1>10
  <1> QED BY <1>11
-----------------------------------------------------------------------------
LEMMA CommitInitInv == CommitInit => CommitInv
  <1> SUFFICES ASSUME CommitInit PROVE CommitInv
    OBVIOUS
  <1>1. NoDir \in Dirs /\ \A f \in Files : NoDir[f] # "part"
    BY DEF NoDir, Dirs
  <1>2. CommitTypeOK
    <2>1. staging \in [CommitTicks -> Dirs] /\ committed \in Dirs
      BY <1>1 DEF CommitInit
    <2>2. tick \in CommitTicks \cup {0} /\ left \subseteq Files /\ cuts \in 0 .. MaxCuts
      BY CommitBounds DEF CommitInit
    <2>3. dpc \in {"idle", "staging", "removing", "down"} /\ cacked \in BOOLEAN
      BY DEF CommitInit
    <2> QED BY <2>1, <2>2, <2>3 DEF CommitTypeOK
  <1>3. StagedSoFar /\ WholeUntilCut /\ SomeCopyIsWhole /\ NoTornCommit
    BY <1>1 DEF CommitInit, StagedSoFar, WholeUntilCut, SomeCopyIsWhole, NoTornCommit
  <1> QED BY <1>2, <1>3 DEF CommitInv

LEMMA KeepStage ==
    ASSUME CommitInv, NEW f \in Files, StageFile(f) \/ TearFile(f) PROVE CommitInv'
  <1>0. /\ dpc = "staging" /\ UNCHANGED <<committed, tick, cacked>>
        /\ tick \in CommitTicks /\ staging[tick] \in Dirs /\ staging \in [CommitTicks -> Dirs]
    BY DEF StageFile, TearFile, CommitInv, CommitTypeOK, StagedSoFar
  <1>1. CASE StageFile(f)
    <2>1. /\ staging' = [staging EXCEPT ![tick] = [staging[tick] EXCEPT ![f] = "whole"]]
          /\ left' = left \ {f} /\ UNCHANGED <<dpc, cuts>>
      BY <1>1, <1>0 DEF StageFile
    <2>2. [staging[tick] EXCEPT ![f] = "whole"] \in Dirs
      BY <1>0 DEF Dirs
    <2>3. staging'[tick] = [staging[tick] EXCEPT ![f] = "whole"]
      BY <1>0, <2>1
    <2>4. CommitTypeOK'
      BY <1>0, <2>1, <2>2 DEF CommitInv, CommitTypeOK
    <2>5. StagedSoFar'
      BY <1>0, <2>1, <2>3 DEF CommitInv, StagedSoFar, Dirs
    <2>6. ASSUME NEW t \in CommitTicks, staging[t] = WholeDir
          PROVE  staging'[t] = WholeDir
      BY <1>0, <2>1, <2>3, <2>6 DEF WholeDir
    <2>7. SomeCopyIsWhole' /\ WholeUntilCut' /\ NoTornCommit'
      BY <1>0, <2>1, <2>6 DEF CommitInv, SomeCopyIsWhole, WholeUntilCut, NoTornCommit
    <2> QED BY <2>4, <2>5, <2>7 DEF CommitInv
  <1>2. CASE TearFile(f)
    <2>1. /\ staging' = [staging EXCEPT ![tick] = [staging[tick] EXCEPT ![f] = "part"]]
          /\ dpc' = "idle" /\ cuts' = cuts + 1 /\ cuts < MaxCuts /\ left' = left
      BY <1>2, <1>0 DEF TearFile
    <2>2. [staging[tick] EXCEPT ![f] = "part"] \in Dirs
      BY <1>0 DEF Dirs
    <2>3. cuts \in 0 .. MaxCuts /\ cuts' \in 0 .. MaxCuts
      BY <2>1, CommitBounds DEF CommitInv, CommitTypeOK
    <2>4. CommitTypeOK'
      BY <1>0, <2>1, <2>2, <2>3 DEF CommitInv, CommitTypeOK
    <2>5. cacked /\ cuts' <= 1 => committed = WholeDir
      BY <1>0, <2>1, <2>3 DEF CommitInv, WholeUntilCut
    <2>6. StagedSoFar' /\ SomeCopyIsWhole' /\ WholeUntilCut' /\ NoTornCommit'
      BY <1>0, <2>1, <2>3, <2>5
      DEF CommitInv, StagedSoFar, SomeCopyIsWhole, WholeUntilCut, NoTornCommit
    <2> QED BY <2>4, <2>6 DEF CommitInv
  <1> QED BY <1>1, <1>2

LEMMA KeepSwap ==
    ASSUME CommitInv, BeginRemoval \/ (\E f \in Files : RemoveFile(f)) \/ RenameStaging
    PROVE  CommitInv'
  <1>1. CASE BeginRemoval
    <2>1. tick \in CommitTicks /\ staging[tick] \in Dirs /\ \A f \in Files : staging[tick][f] = "whole"
      BY <1>1 DEF BeginRemoval, CommitInv, CommitTypeOK, StagedSoFar
    <2>2. staging[tick] = WholeDir
      BY <2>1 DEF Dirs, WholeDir
    <2>3. CommitTypeOK' /\ StagedSoFar' /\ WholeUntilCut' /\ NoTornCommit'
      BY <1>1, <2>1, <2>2
      DEF BeginRemoval, CommitInv, CommitTypeOK, StagedSoFar, WholeUntilCut, NoTornCommit
    <2>4. SomeCopyIsWhole'
      BY <1>1, <2>1, <2>2 DEF BeginRemoval, SomeCopyIsWhole
    <2> QED BY <2>3, <2>4 DEF CommitInv
  <1>2. CASE \E f \in Files : RemoveFile(f)
    <2> PICK f \in Files : RemoveFile(f)
      BY <1>2
    <2>1. /\ committed' = [committed EXCEPT ![f] = "none"] /\ committed \in Dirs
          /\ dpc = "removing" /\ UNCHANGED <<staging, tick, left, dpc, cacked, cuts>>
          /\ tick \in CommitTicks /\ staging[tick] = WholeDir
      BY DEF RemoveFile, CommitInv, CommitTypeOK, StagedSoFar
    <2>2. committed' \in Dirs /\ NoTornCommit'
      BY <2>1 DEF CommitInv, NoTornCommit, Dirs
    <2>3. CommitTypeOK' /\ StagedSoFar' /\ WholeUntilCut' /\ SomeCopyIsWhole'
      BY <2>1, <2>2
      DEF CommitInv, CommitTypeOK, StagedSoFar, WholeUntilCut, SomeCopyIsWhole
    <2> QED BY <2>2, <2>3 DEF CommitInv
  <1>3. CASE RenameStaging
    <2>1. /\ committed' = WholeDir /\ staging' = [staging EXCEPT ![tick] = NoDir]
          /\ dpc' = "idle" /\ UNCHANGED <<tick, left, cuts>> /\ cacked' = TRUE
      BY <1>3 DEF RenameStaging, CommitInv, StagedSoFar
    <2>2. NoDir \in Dirs /\ WholeDir \in Dirs /\ \A f \in Files : WholeDir[f] # "part"
      BY DEF NoDir, WholeDir, Dirs
    <2>3. CommitTypeOK' /\ StagedSoFar' /\ WholeUntilCut' /\ SomeCopyIsWhole' /\ NoTornCommit'
      BY <2>1, <2>2
      DEF CommitInv, CommitTypeOK, StagedSoFar, WholeUntilCut, SomeCopyIsWhole, NoTornCommit
    <2> QED BY <2>3 DEF CommitInv
  <1> QED BY <1>1, <1>2, <1>3

LEMMA KeepCommit ==
    ASSUME CommitInv, CommitStep \/ CommitCrash \/ CommitStart \/ UNCHANGED commitVars
    PROVE  CommitInv'
  <1>1. ASSUME NEW t \in CommitTicks, BeginCommit(t) PROVE CommitInv'
    BY <1>1
    DEF BeginCommit, CommitInv, CommitTypeOK, StagedSoFar, WholeUntilCut, SomeCopyIsWhole, NoTornCommit
  <1>2. CASE CommitCrash
    <2>1. /\ UNCHANGED <<staging, committed, tick, left, cacked>> /\ dpc' = "down"
          /\ (cuts' = cuts /\ dpc = "idle") \/ (cuts' = cuts + 1 /\ cuts < MaxCuts)
      BY <1>2 DEF CommitCrash
    <2>2. cuts \in 0 .. MaxCuts /\ cuts' \in 0 .. MaxCuts
      BY <2>1, CommitBounds DEF CommitInv, CommitTypeOK
    <2>3. CommitTypeOK' /\ StagedSoFar' /\ WholeUntilCut' /\ SomeCopyIsWhole' /\ NoTornCommit'
      BY <2>1, <2>2
      DEF CommitInv, CommitTypeOK, StagedSoFar, WholeUntilCut, SomeCopyIsWhole, NoTornCommit
    <2> QED BY <2>3 DEF CommitInv
  <1>3. CASE CommitStart
    <2>1. dpc = "down" /\ dpc' = "idle" /\ UNCHANGED <<staging, committed, tick, left, cacked, cuts>>
      BY <1>3 DEF CommitStart
    <2> QED BY <2>1
        DEF CommitInv, CommitTypeOK, StagedSoFar, WholeUntilCut, SomeCopyIsWhole, NoTornCommit
  <1>4. CASE UNCHANGED commitVars
    BY <1>4
    DEF commitVars, CommitInv, CommitTypeOK, StagedSoFar, WholeUntilCut, SomeCopyIsWhole, NoTornCommit
  <1> QED BY <1>1, <1>2, <1>3, <1>4, KeepStage, KeepSwap DEF CommitStep

-----------------------------------------------------------------------------
(* What the composition adds to the three: the calls made.                   *)
CallsCounted == calls \in 0 .. MaxCalls

PersistInv == SnapInv /\ CommitInv /\ CallsCounted

LEMMA PersistInvHolds == Spec => []PersistInv
  <1>1. Init => PersistInv
    BY SnapInitInv, CommitInitInv, CallsBound DEF Init, PersistInv, CallsCounted
  <1>2. PersistInv /\ [Next]_persistVars => PersistInv'
    <2> SUFFICES ASSUME PersistInv, [Next]_persistVars PROVE PersistInv'
      OBVIOUS
    <2>1. SnapStep \/ SnapCrash \/ SnapStart \/ UNCHANGED snapVars
      BY DEF Next, persistVars, StepEvents, StepSnapshots, StepCommit, Crash, Restart
    <2>2. CommitStep \/ CommitCrash \/ CommitStart \/ UNCHANGED commitVars
      BY DEF Next, persistVars, StepEvents, StepSnapshots, StepCommit, Crash, Restart
    <2>3. calls' = calls \/ (calls < MaxCalls /\ calls' = calls + 1)
      BY DEF Next, persistVars, StepEvents, StepSnapshots, StepCommit, Crash, Restart, Call
    <2>4. CallsCounted'
      BY <2>3, CallsBound DEF PersistInv, CallsCounted
    <2> QED BY <2>1, <2>2, <2>4, KeepSnap, KeepCommit DEF PersistInv
  <1> QED BY <1>1, <1>2, PTL DEF Spec

(* Every step of the composition is a step of the event store's own          *)
(* specification or leaves the store alone, so that what is proved of the    *)
(* store holds beside the other two, whose crashes it shares.                *)
THEOREM ImplementsEventStore == Spec => EventSpec
  <1>1. Init => EventInit
    BY DEF Init
  <1>2. [Next]_persistVars => [EventNext]_eventVars
    BY DEF Next, persistVars, StepEvents, StepSnapshots, StepCommit, Crash, Restart, EventNext
  <1> QED BY <1>1, <1>2, PTL DEF Spec, EventSpec

(* TypeOK of every instance of Persistence.                                  *)
THEOREM TypeCorrect == Spec => []TypeOK
  <1>1. PersistInv => SnapTypeOK /\ CommitTypeOK /\ calls \in 0 .. MaxCalls
    BY DEF PersistInv, SnapInv, CommitInv, CallsCounted
  <1>2. SnapTypeOK /\ CommitTypeOK /\ calls \in 0 .. MaxCalls /\ EventTypeOK => TypeOK
    BY DEF TypeOK
  <1> QED BY <1>1, <1>2, PersistInvHolds, ImplementsEventStore, EventTypeCorrect, PTL

(* CommittedSurvive of every instance: the list that a restart reads has     *)
(* every snapshot whose save returned, and the code's pick from it is not    *)
(* before any of them.                                                       *)
THEOREM CommittedSurviveHolds == Spec => []CommittedSurvive
  <1>1. PersistInv => CommittedSurvive
    <2> SUFFICES ASSUME PersistInv, spc # "down", NEW m \in sacked, saves[m].is_committed
                 PROVE  \E n \in LatestCommitted : After(n, m)
      BY DEF CommittedSurvive
    <2> DEFINE at == {n \in snaps : saves[n].is_committed}
    <2>1. SnapTypeOK /\ m \in at /\ at \in SUBSET (1 .. Len(saves))
      BY DEF PersistInv, SnapInv, SnapTypeOK, MemoryAndIndexAgree
    <2> HIDE DEF at
    <2>2. PICK n \in at : \A k \in at : After(n, k)
      BY <2>1, LatestExists
    <2>3. n \in LatestCommitted
      BY <2>2 DEF LatestCommitted, at
    <2> QED BY <2>1, <2>2, <2>3
  <1> QED BY <1>1, PersistInvHolds, PTL

(* IndexCanBeRebuilt of every instance: the interruption that tore the index *)
(* is the only one there was, so it tore no file.                            *)
THEOREM IndexCanBeRebuiltHolds == Spec => []IndexCanBeRebuilt
  <1>1. PersistInv => IndexCanBeRebuilt
    BY DEF PersistInv, SnapInv, SnapTypeOK, SpoilsAreCounted, FilesAreLatest, IndexCanBeRebuilt
  <1> QED BY <1>1, PersistInvHolds, PTL

(* SomeCopyIsWhole of every instance: while the first commit to be           *)
(* interrupted has begun to remove files, it has staged them all.            *)
THEOREM SomeCopyIsWholeHolds == Spec => []SomeCopyIsWhole
  <1>1. PersistInv => SomeCopyIsWhole
    BY DEF PersistInv, CommitInv
  <1> QED BY <1>1, PersistInvHolds, PTL

(* NoTornCommit of every instance, over any number of interruptions: the     *)
(* rename is of a directory whose every file was staged by this commit.      *)
THEOREM NoTornCommitHolds == Spec => []NoTornCommit
  <1>1. PersistInv => NoTornCommit
    BY DEF PersistInv, CommitInv
  <1> QED BY <1>1, PersistInvHolds, PTL
=============================================================================
