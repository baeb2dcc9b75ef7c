------------------------- MODULE DurableQueueProofs -------------------------
(* What holds of the durable queue for any tasks, processes, names and      *)
(* bounds, and whether or not producers register their tasks.               *)
EXTENDS DurableQueue, FiniteSetTheorems, TLAPS

(* What a script leaves behind is a hash again, and what of it matters here. *)
LEMMA ScriptEffect ==
    ASSUME NEW h \in Hash, NEW w \in Names
    PROVE  /\ Claimed(h, w) \in Hash /\ Completed(h) \in Hash /\ Failed(h) \in Hash
           /\ Claimed(h, w).state = "RUNNING" /\ Claimed(h, w).worker = w
           /\ Completed(h).state = "DONE"
           /\ Failed(h).state \in {"PENDING", "FAILED"}
  <1> USE DEF Hash, States, Terminal
  <1>1. /\ Claimed(h, w) \in Hash /\ Completed(h) \in Hash
        /\ Claimed(h, w).state = "RUNNING" /\ Claimed(h, w).worker = w
        /\ Completed(h).state = "DONE"
    BY DEF Claimed, Completed, Rewrite
  <1>2. Failed(h) \in Hash /\ Failed(h).state \in {"PENDING", "FAILED"}
    <2> DEFINE counted == [h EXCEPT !.attempt = @ + 1]
    <2>1. counted \in Hash
      OBVIOUS
    <2> HIDE DEF counted
    <2>2. /\ [counted EXCEPT !.state = "FAILED"] \in Hash
          /\ [counted EXCEPT !.state = "FAILED"].state = "FAILED"
      BY <2>1
    <2>3. Released(counted) \in Hash /\ Released(counted).state = "PENDING"
      BY <2>1, NoNameAssumption DEF Released, Rewrite
    <2> QED BY <2>2, <2>3 DEF Failed, counted
  <1> QED BY <1>1, <1>2

LEMMA FreshHash ==
    /\ Missing \in Hash /\ Missing.state = "MISSING"
    /\ \A max \in AttemptLimits : Created(max) \in Hash /\ Created(max).state = "PENDING"
  BY AttemptLimitsAssumption DEF Missing, Created, Hash, States, Terminal

-----------------------------------------------------------------------------
(* Ranks: the members of a finite set of numbers, counted from the smallest. *)
Rank(S, i) == Cardinality({j \in S : j < i})

LEMMA Ranks ==
    ASSUME NEW S \in SUBSET Nat, IsFiniteSet(S)
    PROVE  /\ \A i \in S : Rank(S, i) \in 0 .. Cardinality(S) - 1
           /\ \A i, j \in S : Rank(S, i) = Rank(S, j) => i = j
           /\ \A k \in 0 .. Cardinality(S) - 1 : \E i \in S : Rank(S, i) = k
  <1>0. \A i \in S : i \in Nat
    OBVIOUS
  <1>1. ASSUME NEW i \in S
        PROVE  /\ IsFiniteSet({j \in S : j < i}) /\ Rank(S, i) \in Nat
               /\ Rank(S, i) < Cardinality(S)
    <2> DEFINE A == {j \in S : j < i}
    <2>1. A \subseteq S /\ A # S
      <3>1. i \notin A
        OBVIOUS
      <3> QED BY <3>1
    <2> HIDE DEF A
    <2>2. IsFiniteSet(A) /\ Cardinality(A) <= Cardinality(S) /\ Cardinality(S) # Cardinality(A)
      BY <2>1, FS_Subset
    <2>3. Cardinality(A) \in Nat /\ Cardinality(S) \in Nat
      BY <2>2, FS_CardinalityType
    <2>4. Cardinality(A) < Cardinality(S)
      BY <2>2, <2>3
    <2> QED BY <2>2, <2>3, <2>4 DEF Rank, A
  <1>2. ASSUME NEW i \in S, NEW j \in S, i < j
        PROVE  Rank(S, i) < Rank(S, j)
    <2> DEFINE A == {k \in S : k < i}
               B == {k \in S : k < j}
    <2>1. A \subseteq B /\ A # B
      <3>1. i \in B /\ i \notin A
        BY <1>0, <1>2
      <3>2. ASSUME NEW k \in A PROVE k \in B
        BY <1>0, <1>2
      <3> QED BY <3>1, <3>2
    <2>2. IsFiniteSet(B) /\ Cardinality(B) \in Nat /\ Cardinality(A) \in Nat
      BY <1>1 DEF Rank
    <2> HIDE DEF A, B
    <2>3. Cardinality(A) <= Cardinality(B) /\ Cardinality(B) # Cardinality(A)
      BY <2>1, <2>2, FS_Subset
    <2>4. Cardinality(A) < Cardinality(B)
      BY <2>2, <2>3
    <2> QED BY <2>4 DEF Rank, A, B
  <1>3. \A i, j \in S : Rank(S, i) = Rank(S, j) => i = j
    <2> SUFFICES ASSUME NEW i \in S, NEW j \in S, Rank(S, i) = Rank(S, j)
                 PROVE  i = j
      OBVIOUS
    <2>1. i \in Nat /\ j \in Nat /\ Rank(S, i) \in Nat /\ Rank(S, j) \in Nat
      BY <1>1
    <2>2. ~(i < j) /\ ~(j < i)
      BY <1>2, <2>1
    <2> QED BY <2>1, <2>2
  <1>4. Cardinality(S) \in Nat
    BY FS_CardinalityType
  <1>5. \A i \in S : Rank(S, i) \in 0 .. Cardinality(S) - 1
    <2> SUFFICES ASSUME NEW i \in S PROVE Rank(S, i) \in 0 .. Cardinality(S) - 1
      OBVIOUS
    <2>1. Rank(S, i) \in Nat /\ Rank(S, i) < Cardinality(S)
      BY <1>1
    <2> QED BY <1>4, <2>1
  <1>6. \A k \in 0 .. Cardinality(S) - 1 : \E i \in S : Rank(S, i) = k
    <2> DEFINE T == 0 .. Cardinality(S) - 1
               rank == [i \in S |-> Rank(S, i)]
    <2>1. rank \in Injection(S, T)
      <3>1. rank \in [S -> T]
        BY <1>5
      <3>2. \A a, b \in S : rank[a] = rank[b] => a = b
        BY <1>3
      <3> QED BY <3>1, <3>2 DEF Injection, IsInjective
    <2>2. IsFiniteSet(T) /\ Cardinality(T) = Cardinality(S)
      <3>1. 0 \in Int /\ Cardinality(S) - 1 \in Int
        BY <1>4
      <3>2. IsFiniteSet(T) /\ Cardinality(T) =
                IF 0 > Cardinality(S) - 1 THEN 0 ELSE Cardinality(S) - 1 - 0 + 1
        BY <3>1, FS_Interval
      <3> HIDE DEF T
      <3> QED BY <1>4, <3>2
    <2>3. rank \in Surjection(S, T)
      <3> HIDE DEF rank, T
      <3> QED BY <2>1, <2>2, FS_Injection
    <2> QED BY <2>3 DEF Surjection
  <1> QED BY <1>3, <1>5, <1>6

(* The n smallest members of a set are there to be chosen.                   *)
LEMMA Smallest ==
    ASSUME NEW S \in SUBSET Nat, IsFiniteSet(S), NEW n \in 0 .. Cardinality(S)
    PROVE  \E s \in SUBSET S :
              Cardinality(s) = n /\ \A i \in s, j \in S \ s : i < j
  <1> DEFINE s == {i \in S : Rank(S, i) < n}
             T == 0 .. n - 1
             rank == [i \in s |-> Rank(S, i)]
  <1>0. Cardinality(S) \in Nat
    BY FS_CardinalityType
  <1>1. \A i \in s : Rank(S, i) \in T
    BY <1>0, Ranks
  <1>2. rank \in Bijection(s, T)
    <2>1. rank \in Injection(s, T)
      <3>1. rank \in [s -> T]
        BY <1>1
      <3>2. \A a, b \in s : rank[a] = rank[b] => a = b
        BY Ranks
      <3> QED BY <3>1, <3>2 DEF Injection, IsInjective
    <2>2. ASSUME NEW k \in T PROVE \E i \in s : rank[i] = k
      <3>1. PICK i \in S : Rank(S, i) = k
        BY <1>0, Ranks
      <3> QED BY <3>1
    <2> QED BY <2>1, <2>2 DEF Bijection, Surjection, Injection
  <1>3. IsFiniteSet(s)
    BY FS_Subset
  <1>4. IsFiniteSet(T) /\ Cardinality(T) = n
    <2>1. 0 \in Int /\ n - 1 \in Int /\ n \in Nat
      BY <1>0
    <2>2. IsFiniteSet(T) /\ Cardinality(T) = IF 0 > n - 1 THEN 0 ELSE n - 1 - 0 + 1
      BY <2>1, FS_Interval
    <2> HIDE DEF T
    <2> QED BY <2>1, <2>2
  <1>5. Cardinality(s) = n
    <2> HIDE DEF s, T, rank
    <2> QED BY <1>2, <1>3, <1>4, FS_Bijection DEF ExistsBijection
  <1>6. ASSUME NEW i \in s, NEW j \in S \ s PROVE i < j
    <2>1. i \in Nat /\ j \in Nat /\ Rank(S, i) < n /\ ~(Rank(S, j) < n)
      OBVIOUS
    <2>2. SUFFICES ASSUME j <= i PROVE FALSE
      BY <2>1
    <2> DEFINE A == {k \in S : k < j}
               B == {k \in S : k < i}
    <2>3. A \subseteq B /\ B \subseteq S
      <3>1. \A k \in S : k \in Nat
        OBVIOUS
      <3>2. ASSUME NEW k \in A PROVE k \in B
        BY <3>1, <2>1, <2>2
      <3> QED BY <3>2
    <2>5. Rank(S, j) <= Rank(S, i)
      <3> HIDE DEF A, B
      <3>1. IsFiniteSet(B)
        BY <2>3, FS_Subset
      <3>2. Cardinality(A) <= Cardinality(B)
        BY <2>3, <3>1, FS_Subset
      <3> QED BY <3>2 DEF A, B, Rank
    <2>6. Rank(S, i) \in Nat /\ Rank(S, j) \in Nat
      BY <1>0, Ranks
    <2> QED BY <2>1, <2>5, <2>6
  <1> QED BY <1>5, <1>6

-----------------------------------------------------------------------------
(* What XREADGROUP reads: waiting messages, each once, at most a batch.      *)
LEMMA WaitingIsFinite ==
    ASSUME TypeOK
    PROVE  Waiting \subseteq 1 .. posted /\ IsFiniteSet(Waiting) /\ Cardinality(Waiting) \in Nat
  <1>1. Waiting \subseteq 1 .. posted /\ posted \in Nat
    BY SizesAssumption DEF TypeOK, Waiting
  <1>2. IsFiniteSet(1 .. posted)
    BY <1>1, FS_Interval
  <1> QED BY <1>1, <1>2, FS_Subset, FS_CardinalityType

LEMMA OldestIsSome ==
    ASSUME TypeOK
    PROVE  /\ Oldest \subseteq Waiting /\ Oldest \subseteq 1 .. posted
           /\ Cardinality(Oldest) \in Nat /\ Cardinality(Oldest) <= BatchSize
           /\ Oldest \in SUBSET Nat /\ IsFiniteSet(Oldest)
  <1> DEFINE n == IF Cardinality(Waiting) < BatchSize THEN Cardinality(Waiting) ELSE BatchSize
  <1>1. n \in 0 .. Cardinality(Waiting) /\ n <= BatchSize /\ n \in Nat
    BY WaitingIsFinite, SizesAssumption
  <1>2. Waiting \in SUBSET Nat /\ IsFiniteSet(Waiting)
    BY WaitingIsFinite
  <1>3. Oldest = CHOOSE s \in SUBSET Waiting :
                    Cardinality(s) = n /\ \A i \in s, j \in Waiting \ s : i < j
    BY DEF Oldest
  <1> HIDE DEF n
  <1>4. \E s \in SUBSET Waiting :
           Cardinality(s) = n /\ \A i \in s, j \in Waiting \ s : i < j
    BY <1>1, <1>2, Smallest
  <1>5. Oldest \subseteq Waiting /\ Cardinality(Oldest) = n
    BY <1>3, <1>4
  <1> QED BY <1>1, <1>2, <1>5, WaitingIsFinite, FS_Subset

LEMMA WhatIsRead ==
    ASSUME TypeOK, NEW p \in Procs, ReadGroup(p)
    PROVE  \E b \in Seq(1 .. posted) :
              /\ batch' = [batch EXCEPT ![p] = b]
              /\ Len(b) <= BatchSize
              /\ \A k \in DOMAIN b : b[k] \in Waiting
              /\ \A k, l \in DOMAIN b : b[k] = b[l] => k = l
              /\ msg' = [i \in DOMAIN msg |->
                            IF \E k \in DOMAIN b : b[k] = i THEN "pending" ELSE msg[i]]
  <1> DEFINE got == Oldest
             n == Cardinality(got)
             nth(k) == CHOOSE i \in got : Cardinality({j \in got : j < i}) = k - 1
             b == [k \in 1 .. Cardinality(got) |-> nth(k)]
  <1>1. /\ batch' = [batch EXCEPT ![p] = b]
        /\ msg' = [i \in DOMAIN msg |-> IF i \in got THEN "pending" ELSE msg[i]]
    BY DEF ReadGroup, Delivered, DeliveredAs, InOrder
  <1>2. n <= BatchSize /\ n \in Nat /\ got \subseteq Waiting
    BY OldestIsSome
  <1>3. Cardinality(got) = n
    OBVIOUS
  <1>4. got \in SUBSET Nat /\ IsFiniteSet(got) /\ got \subseteq 1 .. posted
    BY OldestIsSome
  <1> HIDE DEF n, got
  <1>5. ASSUME NEW k \in 1 .. n
        PROVE  nth(k) \in got /\ Rank(got, nth(k)) = k - 1
    <2>1. k - 1 \in 0 .. Cardinality(got) - 1
      BY <1>2, <1>3
    <2>2. \E i \in got : Cardinality({j \in got : j < i}) = k - 1
      BY <1>4, <2>1, Ranks DEF Rank
    <2> QED BY <2>2 DEF Rank
  <1>6. ASSUME NEW i \in got
        PROVE  \E k \in 1 .. n : nth(k) = i
    <2> DEFINE k == Rank(got, i) + 1
    <2>1. k \in 1 .. n /\ Rank(got, i) = k - 1
      <3>1. Rank(got, i) \in 0 .. n - 1
        BY <1>3, <1>4, Ranks
      <3> QED BY <1>2, <3>1
    <2> HIDE DEF k
    <2>2. nth(k) \in got /\ Rank(got, nth(k)) = k - 1
      BY <1>5, <2>1
    <2>3. nth(k) = i
      <3>1. \A j \in got : Rank(got, j) = Rank(got, i) => j = i
        BY <1>4, Ranks
      <3> HIDE DEF nth
      <3> QED BY <2>1, <2>2, <3>1
    <2> QED BY <2>1, <2>3
  <1>7. /\ b = [k \in 1 .. n |-> nth(k)]
        /\ \A k \in 1 .. n : nth(k) \in 1 .. posted
    BY <1>3, <1>4, <1>5
  <1> HIDE DEF nth, b
  <1>8. b \in Seq(1 .. posted) /\ Len(b) = n /\ DOMAIN b = 1 .. n
    BY <1>2, <1>7
  <1>9. \A k, l \in 1 .. n : b[k] = b[l] => k = l
    <2> SUFFICES ASSUME NEW k \in 1 .. n, NEW l \in 1 .. n, b[k] = b[l]
                 PROVE  k = l
      OBVIOUS
    <2>1. nth(k) = nth(l)
      BY <1>7
    <2>2. k - 1 = l - 1
      BY <1>5, <2>1
    <2> QED BY <1>2, <2>2
  <1>10. \A i : i \in got <=> \E k \in DOMAIN b : b[k] = i
    BY <1>5, <1>6, <1>7, <1>8
  <1>11. \A k \in DOMAIN b : b[k] \in Waiting
    BY <1>2, <1>5, <1>7, <1>8
  <1>12. msg' = [i \in DOMAIN msg |->
                    IF \E k \in DOMAIN b : b[k] = i THEN "pending" ELSE msg[i]]
    BY <1>1, <1>10
  <1>13. /\ batch' = [batch EXCEPT ![p] = b] /\ Len(b) <= BatchSize
         /\ \A k, l \in DOMAIN b : b[k] = b[l] => k = l
    BY <1>1, <1>2, <1>8, <1>9
  <1> QED BY <1>8, <1>11, <1>12, <1>13

-----------------------------------------------------------------------------
(* Types.                                                                    *)
Inside == {"handling", "storing", "failing", "acking"}

(* What processes have in their batches is pending, each message in one      *)
(* place; a process outside of its loop over a batch has none.               *)
BatchesHold ==
    /\ \A p \in Procs : \A k \in DOMAIN batch[p] :
          batch[p][k] \in DOMAIN msg /\ msg[batch[p][k]] = "pending"
    /\ \A p, q \in Procs : \A k \in DOMAIN batch[p], l \in DOMAIN batch[q] :
          batch[p][k] = batch[q][l] => p = q /\ k = l
    /\ \A p \in Procs : pc[p] \notin {"next"} \cup Inside => batch[p] = <<>>

LEMMA HeadIsTyped ==
    ASSUME TypeOK, BatchesHold, NEW p \in Procs, batch[p] # <<>>
    PROVE  /\ batch[p] \in Seq(Ids) /\ Len(batch[p]) \in Nat \ {0}
           /\ 1 \in DOMAIN batch[p] /\ MsgOf(p) = batch[p][1]
           /\ MsgOf(p) \in DOMAIN msg /\ TaskOf(p) = taskOf[MsgOf(p)]
           /\ MsgOf(p) \in Ids
           /\ TaskOf(p) \in Tasks
           /\ Tail(batch[p]) \in Seq(Ids)
           /\ Len(Tail(batch[p])) = Len(batch[p]) - 1
           /\ \A k \in DOMAIN Tail(batch[p]) :
                 /\ k + 1 \in DOMAIN batch[p] /\ k \in Nat
                 /\ Tail(batch[p])[k] = batch[p][k + 1]
  <1>1. batch[p] \in Seq(Ids)
    BY DEF TypeOK
  <1>2. /\ Len(batch[p]) \in Nat \ {0} /\ 1 \in DOMAIN batch[p]
        /\ MsgOf(p) = batch[p][1] /\ MsgOf(p) \in Ids
    BY <1>1 DEF MsgOf
  <1>3. MsgOf(p) \in DOMAIN msg /\ TaskOf(p) \in Tasks
    BY <1>2 DEF BatchesHold, TypeOK, TaskOf
  <1>4. /\ Tail(batch[p]) \in Seq(Ids)
        /\ Len(Tail(batch[p])) = Len(batch[p]) - 1
        /\ \A k \in DOMAIN Tail(batch[p]) :
              /\ k + 1 \in DOMAIN batch[p] /\ k \in Nat
              /\ Tail(batch[p])[k] = batch[p][k + 1]
    BY <1>1, <1>2
  <1> QED BY <1>1, <1>2, <1>3, <1>4 DEF TaskOf

LEMMA MessagesAreIds == ASSUME TypeOK
                        PROVE  /\ posted \in Nat /\ DOMAIN msg = 1 .. posted
                               /\ 1 .. posted \subseteq Ids
                               /\ \A p \in Procs : Batch(p) \subseteq Ids
                               /\ Oldest \subseteq Ids
  <1>1. posted \in Nat /\ DOMAIN msg = 1 .. posted /\ 1 .. posted \subseteq Ids
    BY SizesAssumption DEF TypeOK, Ids
  <1> QED BY <1>1, OldestIsSome DEF Batch

LEMMA SeqType == ASSUME NEW S, NEW s \in Seq(S)
                 PROVE  s \in [1 .. Len(s) -> S] /\ Len(s) \in Nat
  OBVIOUS

LEMMA AppendType ==
    ASSUME NEW S, NEW n \in Nat, NEW f \in [1 .. n -> S], NEW e \in S
    PROVE  /\ Append(f, e) \in [1 .. n + 1 -> S]
           /\ \A i \in 1 .. n : Append(f, e)[i] = f[i]
           /\ Append(f, e)[n + 1] = e
  <1>1. f \in Seq(S) /\ Len(f) = n
    OBVIOUS
  <1>2. /\ Append(f, e) \in Seq(S) /\ Len(Append(f, e)) = n + 1
        /\ \A i \in 1 .. n : Append(f, e)[i] = f[i]
        /\ Append(f, e)[n + 1] = e
    BY <1>1
  <1>3. Append(f, e) \in [1 .. Len(Append(f, e)) -> S]
    BY <1>2, SeqType
  <1> QED BY <1>2, <1>3

LEMMA InitType == Init => TypeOK
  <1> SUFFICES ASSUME Init PROVE TypeOK
    OBVIOUS
  <1>1. hash \in [Tasks -> Hash]
    BY FreshHash DEF Init
  <1>2. Cardinality({}) = 0
    BY FS_EmptySet
  <1>3. \A p \in Procs : Len(batch[p]) <= BatchSize /\ Cardinality(target[p]) = 0
                         /\ pc[p] = "down"
    BY <1>2, SizesAssumption DEF Init
  <1>4. /\ taskOf \in [1 .. posted -> Tasks]
        /\ msg \in [1 .. posted -> {"waiting", "pending", "acked", "trimmed"}]
        /\ owner \in [1 .. posted -> Names \cup {NoName}]
        /\ posted \in 0 .. MaxMsgs
    BY SizesAssumption DEF Init
  <1>5. faults \in 0 .. MaxFaults
    BY SizesAssumption DEF Init
  <1> QED BY <1>1, <1>3, <1>4, <1>5 DEF Init, TypeOK, Places

LEMMA TypeStep == ASSUME TypeOK, BatchesHold, [Next]_vars PROVE TypeOK'
  <1> USE NameOfAssumption
  <1>0. /\ \A p \in Procs, t \in Tasks :
              /\ Claimed(hash[t], NameOf[p]) \in Hash
              /\ Completed(hash[t]) \in Hash /\ Failed(hash[t]) \in Hash
        /\ \A p \in Procs : NameOf[p] \in Names
    BY ScriptEffect DEF TypeOK
  <1>1. ASSUME NEW t \in Tasks, NEW max \in AttemptLimits, Register(t, max)
        PROVE  TypeOK'
    BY <1>1, FreshHash DEF Register, TypeOK, stream, worker, history
  <1>2. ASSUME NEW t \in Tasks, Enqueue(t)
        PROVE  TypeOK'
    <2> DEFINE msgs(drop) == [i \in DOMAIN msg |-> IF i \in drop THEN "trimmed" ELSE msg[i]]
    <2>1. PICK drop : msg' = Append(msgs(drop), "waiting")
      BY <1>2 DEF Enqueue
    <2>2. posted \in Nat /\ posted + 1 \in 0 .. MaxMsgs /\ posted' = posted + 1
      BY <1>2, SizesAssumption DEF Enqueue, TypeOK
    <2>3. /\ msgs(drop) \in [1 .. posted -> {"waiting", "pending", "acked", "trimmed"}]
          /\ taskOf \in [1 .. posted -> Tasks]
          /\ owner \in [1 .. posted -> Names \cup {NoName}]
      BY DEF TypeOK
    <2> HIDE DEF msgs
    <2>4. msg' \in [1 .. posted' -> {"waiting", "pending", "acked", "trimmed"}]
      BY <2>1, <2>2, <2>3, AppendType
    <2>5. taskOf' \in [1 .. posted' -> Tasks]
      BY <1>2, <2>2, <2>3, AppendType DEF Enqueue
    <2>6. owner' \in [1 .. posted' -> Names \cup {NoName}]
      <3>1. NoName \in Names \cup {NoName}
        OBVIOUS
      <3>2. owner' = Append(owner, NoName)
        BY <1>2 DEF Enqueue
      <3> HIDE DEF msgs
      <3> QED BY <2>2, <2>3, <3>1, <3>2, AppendType
    <2> QED BY <1>2, <2>2, <2>4, <2>5, <2>6 DEF Enqueue, TypeOK, worker, history
  <1>3. ASSUME NEW p \in Procs, NEW t \in Tasks, ScanPass(p, t) \/ ScanFind(p, t)
        PROVE  TypeOK'
    <2>1. Cardinality({t}) = 1
      BY FS_Singleton
    <2>2. CASE ScanPass(p, t)
      BY <2>2 DEF ScanPass, TypeOK, stream, history
    <2>3. CASE ScanFind(p, t)
      <3>1. /\ pc' = [pc EXCEPT ![p] = "recovering"] /\ target' = [target EXCEPT ![p] = {t}]
            /\ scan' = [scan EXCEPT ![p] = @ \ {t}] /\ pc[p] = "starting"
            /\ UNCHANGED <<hash, result, posted, taskOf, msg, owner, running, batch,
                           pending_ids, faults, hit, cut, failed, adopted, expired>>
        BY <2>3 DEF ScanFind, Goto, stream, history
      <3> QED BY <2>1, <3>1 DEF TypeOK, Places
    <2> QED BY <1>3, <2>2, <2>3
  <1>4. ASSUME NEW p \in Procs,
               Start(p) \/ Started(p) \/ LeaveLoop(p) \/ ReadNothing(p) \/ BatchDone(p)
               \/ Stop(p)
        PROVE  TypeOK'
    <2>1. /\ UNCHANGED <<hash, result, posted, taskOf, msg, owner, target, batch,
                         pending_ids, faults, hit, cut, failed, adopted, expired>>
          /\ pc' = pc \/ \E place \in {"starting", "loop", "stopped"} :
                            pc' = [pc EXCEPT ![p] = place] /\ pc[p] # "recovering"
          /\ running' \in {running, [running EXCEPT ![p] = TRUE], [running EXCEPT ![p] = FALSE]}
          /\ scan' \in {scan, [scan EXCEPT ![p] = Tasks]}
      BY <1>4 DEF Start, Started, LeaveLoop, ReadNothing, BatchDone, Stop,
                  Goto, stream, worker, history
    <2>2. pc' \in [Procs -> Places]
      BY <2>1 DEF TypeOK, Places
    <2>3. running' \in [Procs -> BOOLEAN] /\ scan' \in [Procs -> SUBSET Tasks]
      <3>1. running \in [Procs -> BOOLEAN] /\ scan \in [Procs -> SUBSET Tasks]
        BY DEF TypeOK
      <3>2. running' \in [Procs -> BOOLEAN]
        BY <2>1, <3>1
      <3>3. scan' \in [Procs -> SUBSET Tasks]
        BY <2>1, <3>1
      <3> QED BY <3>2, <3>3
    <2>4. \A q \in Procs :
              /\ pc'[q] \in Inside => batch[q] # <<>>
              /\ pc'[q] = "recovering" <=> pc[q] = "recovering"
      BY <2>1 DEF TypeOK, Inside
    <2>5. \A q \in Procs :
              /\ Len(batch'[q]) <= BatchSize
              /\ pc'[q] \in {"handling", "storing", "failing", "acking"} => batch'[q] # <<>>
              /\ Cardinality(target'[q]) = (IF pc'[q] = "recovering" THEN 1 ELSE 0)
      BY <2>1, <2>4 DEF TypeOK, Inside
    <2> QED BY <2>1, <2>2, <2>3, <2>5 DEF TypeOK
  <1>5. ASSUME NEW p \in Procs, RecoverClaim(p)
        PROVE  TypeOK'
    <2>1. hash' \in [Tasks -> Hash]
      BY <1>0, <1>5 DEF RecoverClaim, TypeOK
    <2>2. adopted' \subseteq Tasks
      BY <1>5 DEF RecoverClaim, TypeOK
    <2>3. Cardinality({}) = 0
      BY FS_EmptySet
    <2> QED BY <1>5, <2>1, <2>2, <2>3 DEF RecoverClaim, Goto, TypeOK, Places, stream
  <1>6. ASSUME NEW p \in Procs, ReclaimPending(p)
        PROVE  TypeOK'
    <2>1. owner' \in [1 .. posted -> Names \cup {NoName}]
      BY <1>0, <1>6 DEF ReclaimPending, Reclaimed, TypeOK
    <2> QED BY <1>6, <2>1 DEF ReclaimPending, Goto, TypeOK, Places, worker, history
  <1>7. ASSUME NEW p \in Procs, ReadGroup(p)
        PROVE  TypeOK'
    <2>1. PICK b \in Seq(1 .. posted) :
             /\ batch' = [batch EXCEPT ![p] = b]
             /\ Len(b) <= BatchSize
             /\ msg' = [i \in DOMAIN msg |->
                           IF \E k \in DOMAIN b : b[k] = i THEN "pending" ELSE msg[i]]
      BY <1>7, WhatIsRead
    <2>2. b \in Seq(Ids)
      <3>1. 1 .. posted \subseteq Ids
        BY SizesAssumption DEF TypeOK, Ids
      <3>2. b \in [1 .. Len(b) -> 1 .. posted] /\ Len(b) \in Nat
        BY <2>1, SeqType
      <3>3. b \in [1 .. Len(b) -> Ids]
        BY <3>1, <3>2
      <3> QED BY <3>2, <3>3
    <2>3. msg' \in [1 .. posted -> {"waiting", "pending", "acked", "trimmed"}]
      BY <2>1 DEF TypeOK
    <2>4. owner' \in [1 .. posted -> Names \cup {NoName}]
      BY <1>0, <1>7 DEF ReadGroup, Delivered, TypeOK
    <2>5. /\ batch' \in [Procs -> Seq(Ids)]
          /\ \A q \in Procs : Len(batch'[q]) <= BatchSize
          /\ \A q \in Procs : q # p => batch'[q] = batch[q]
      BY <2>1, <2>2 DEF TypeOK
    <2>6. /\ pc' = [pc EXCEPT ![p] = "next"] /\ pc[p] = "read"
          /\ UNCHANGED <<hash, result, posted, taskOf, running, scan, target, pending_ids,
                         faults, hit, cut, failed, adopted, expired>>
      BY <1>7 DEF ReadGroup, Goto, worker, history
    <2> QED BY <2>3, <2>4, <2>5, <2>6 DEF TypeOK, Places
  <1>8. ASSUME NEW p \in Procs,
               \/ ClaimTask(p) \/ ClaimRefused(p) \/ ClaimRaises(p) \/ StoreResult(p)
               \/ HandlerReturns(p) \/ HandlerRaises(p) \/ FailTask(p)
               \/ CompleteRaises(p) \/ StoreRaises(p) \/ FailRaises(p)
        PROVE  TypeOK'
    <2> USE DEF ClaimTask, ClaimRefused, ClaimRaises, StoreResult, HandlerReturns,
                HandlerRaises, FailTask, CompleteRaises, StoreRaises, FailRaises, Begin, Hit
    <2>1. batch[p] # <<>>
      BY <1>8 DEF TypeOK
    <2>2. TaskOf(p) \in Tasks /\ MsgOf(p) \in Ids
      BY <2>1, HeadIsTyped
    <2>3. /\ \E place \in Inside : pc' = [pc EXCEPT ![p] = place]
          /\ pc[p] \in {"next", "handling", "storing", "failing"}
          /\ UNCHANGED <<posted, taskOf, msg, owner, running, scan, target, batch,
                         cut, adopted, expired>>
      BY <1>8 DEF Goto, stream, worker, history, Inside
    <2>4. /\ failed' \subseteq Tasks /\ hit' \subseteq Tasks
          /\ result' \in [Tasks -> {"absent", "stored", "lapsed"}]
      <3>1. /\ failed' \in {failed, failed \cup {TaskOf(p)}}
            /\ hit' \in {hit, hit \cup {TaskOf(p)}}
            /\ result' \in {result, [result EXCEPT ![TaskOf(p)] = "stored"]}
        BY <1>8 DEF history
      <3>2. failed \subseteq Tasks /\ hit \subseteq Tasks
        BY DEF TypeOK
      <3>3. result \in [Tasks -> {"absent", "stored", "lapsed"}]
        BY DEF TypeOK
      <3> HIDE DEF ClaimTask, ClaimRefused, ClaimRaises, StoreResult, HandlerReturns,
                   HandlerRaises, FailTask, CompleteRaises, StoreRaises, FailRaises, Begin, Hit
      <3>4. failed' \subseteq Tasks /\ hit' \subseteq Tasks
        BY <2>2, <3>1, <3>2
      <3>5. result' \in [Tasks -> {"absent", "stored", "lapsed"}]
        BY <2>2, <3>1, <3>3
      <3> QED BY <3>4, <3>5
    <2>5. pending_ids' \in [Procs -> SUBSET Ids]
      <3>1. \/ pending_ids' = pending_ids
            \/ pending_ids' = [pending_ids EXCEPT ![p] = pending_ids[p] \cup {MsgOf(p)}]
        BY <1>8
      <3>2. pending_ids \in [Procs -> SUBSET Ids]
        BY DEF TypeOK
      <3> HIDE DEF ClaimTask, ClaimRefused, ClaimRaises, StoreResult, HandlerReturns,
                   HandlerRaises, FailTask, CompleteRaises, StoreRaises, FailRaises, Begin, Hit
      <3> QED BY <2>2, <3>1, <3>2
    <2>6. faults' \in 0 .. MaxFaults
      BY <1>8, SizesAssumption DEF Fault, history, TypeOK
    <2>7. hash' \in [Tasks -> Hash]
      <3>1. /\ Claimed(hash[TaskOf(p)], NameOf[p]) \in Hash
            /\ Completed(hash[TaskOf(p)]) \in Hash /\ Failed(hash[TaskOf(p)]) \in Hash
        BY <1>0, <2>2
      <3>2. \/ hash' = hash
            \/ \E h \in Hash : hash' = [hash EXCEPT ![TaskOf(p)] = h]
        BY <1>8, <3>1 DEF Script
      <3>3. hash \in [Tasks -> Hash]
        BY DEF TypeOK
      <3> HIDE DEF ClaimTask, ClaimRefused, ClaimRaises, StoreResult, HandlerReturns,
                   HandlerRaises, FailTask, CompleteRaises, StoreRaises, FailRaises, Begin, Hit
      <3> QED BY <3>2, <3>3
    <2> HIDE DEF ClaimTask, ClaimRefused, ClaimRaises, StoreResult, HandlerReturns,
                 HandlerRaises, FailTask, CompleteRaises, StoreRaises, FailRaises, Begin, Hit
    <2>8. /\ pc' \in [Procs -> Places] /\ batch' = batch /\ target' = target
          /\ pc'[p] \in Inside /\ pc[p] # "recovering"
          /\ \A q \in Procs : q # p => pc'[q] = pc[q]
      BY <2>3 DEF TypeOK, Places, Inside
    <2>9. \A q \in Procs :
              /\ Len(batch'[q]) <= BatchSize
              /\ pc'[q] \in {"handling", "storing", "failing", "acking"} => batch'[q] # <<>>
              /\ Cardinality(target'[q]) = (IF pc'[q] = "recovering" THEN 1 ELSE 0)
      BY <2>1, <2>8 DEF TypeOK, Inside
    <2> QED BY <2>3, <2>4, <2>5, <2>6, <2>7, <2>8, <2>9 DEF TypeOK
  <1>9. ASSUME NEW p \in Procs, Ack(p)
        PROVE  TypeOK'
    <2>1. batch[p] # <<>>
      BY <1>9 DEF Ack, TypeOK
    <2>2. /\ batch' = [batch EXCEPT ![p] = Tail(batch[p])]
          /\ Tail(batch[p]) \in Seq(Ids) /\ Len(Tail(batch[p])) <= BatchSize
      BY <1>9, <2>1, HeadIsTyped, SizesAssumption DEF Ack, TypeOK
    <2>3. msg' \in [1 .. posted -> {"waiting", "pending", "acked", "trimmed"}]
          /\ owner' \in [1 .. posted -> Names \cup {NoName}]
      BY <1>9 DEF Ack, TypeOK
    <2>4. /\ pc' = [pc EXCEPT ![p] = "next"] /\ pc[p] = "acking"
          /\ UNCHANGED <<hash, result, posted, taskOf, running, scan, target,
                         faults, hit, cut, failed, adopted, expired>>
          /\ pending_ids' \in [Procs -> SUBSET Ids]
      BY <1>9 DEF Ack, Goto, worker, history, TypeOK
    <2>5. /\ batch' \in [Procs -> Seq(Ids)]
          /\ \A q \in Procs : Len(batch'[q]) <= BatchSize
          /\ \A q \in Procs : q # p => batch'[q] = batch[q]
      BY <2>2 DEF TypeOK
    <2> QED BY <2>3, <2>4, <2>5 DEF TypeOK, Places
  <1>10. ASSUME NEW p \in Procs, Crash(p)
         PROVE  TypeOK'
    <2>1. Cardinality({}) = 0 /\ Len(<<>>) <= BatchSize /\ <<>> \in Seq(Ids)
      BY FS_EmptySet, SizesAssumption
    <2>2. /\ pc' = [pc EXCEPT ![p] = "down"] /\ running' = [running EXCEPT ![p] = FALSE]
          /\ scan' = [scan EXCEPT ![p] = {}] /\ target' = [target EXCEPT ![p] = {}]
          /\ batch' = [batch EXCEPT ![p] = <<>>]
          /\ pending_ids' = [pending_ids EXCEPT ![p] = {}]
          /\ UNCHANGED <<hash, result, posted, taskOf, msg, owner, failed, adopted, expired>>
      BY <1>10 DEF Crash, Goto, stream
    <2>3. hit' \subseteq Tasks /\ cut' \subseteq Ids
      <3>1. pc[p] \in {"handling", "storing", "failing"} => TaskOf(p) \in Tasks
        BY HeadIsTyped DEF TypeOK
      <3> QED BY <1>10, <3>1, MessagesAreIds DEF Crash, TypeOK
    <2>4. faults' \in 0 .. MaxFaults
      BY <1>10, SizesAssumption DEF Crash, Fault, TypeOK
    <2> QED BY <2>1, <2>2, <2>3, <2>4 DEF TypeOK, Places
  <1>11. ASSUME NEW t \in Tasks, ExpireHash(t) \/ ExpireResult(t)
         PROVE  TypeOK'
    <2>1. CASE ExpireHash(t)
      <3>1. faults' \in 0 .. MaxFaults
        BY <2>1, SizesAssumption DEF ExpireHash, Fault, TypeOK
      <3> QED BY <2>1, <3>1, FreshHash DEF ExpireHash, TypeOK, stream, worker
    <2>2. CASE ExpireResult(t)
      BY <2>2 DEF ExpireResult, TypeOK, stream, worker, history
    <2> QED BY <1>11, <2>1, <2>2
  <1>13. ASSUME NEW p \in Procs, ConsumeRaises(p)
         PROVE  TypeOK'
    <2>1. Len(<<>>) <= BatchSize /\ <<>> \in Seq(Ids)
      BY SizesAssumption
    <2>2. /\ pc' = [pc EXCEPT ![p] = "raised"] /\ pc[p] # "recovering"
          /\ batch' = [batch EXCEPT ![p] = <<>>]
          /\ pending_ids' = [pending_ids EXCEPT ![p] = {}]
          /\ UNCHANGED <<hash, result, posted, taskOf, running, scan, target,
                         hit, failed, adopted, expired>>
      BY <1>13 DEF ConsumeRaises, Goto, worker
    <2>3. cut' \subseteq Ids
      BY <1>13, MessagesAreIds DEF ConsumeRaises, TypeOK
    <2>4. msg' \in [1 .. posted -> {"waiting", "pending", "acked", "trimmed"}]
      BY <1>13 DEF ConsumeRaises, Delivered, DeliveredAs, TypeOK
    <2>5. owner' \in [1 .. posted -> Names \cup {NoName}]
      BY <1>0, <1>13 DEF ConsumeRaises, Delivered, Reclaimed, TypeOK
    <2>6. faults' \in 0 .. MaxFaults
      BY <1>13, SizesAssumption DEF ConsumeRaises, Fault, TypeOK
    <2> QED BY <2>1, <2>2, <2>3, <2>4, <2>5, <2>6 DEF TypeOK, Places
  <1>12. CASE UNCHANGED vars
    BY <1>12 DEF vars, stream, worker, history, TypeOK
  <1> QED BY <1>1, <1>2, <1>3, <1>4, <1>5, <1>6, <1>7, <1>8, <1>9, <1>10, <1>11, <1>12, <1>13
          DEF Next, Produce, Work, RedisFails

-----------------------------------------------------------------------------
(* Batches and the pending list.                                             *)
InFlight == BatchesHold /\ PendingIsInFlight

\* Steps that leave messages and batches alone.
LEMMA FlightStays ==
    ASSUME TypeOK, InFlight, UNCHANGED <<msg, batch>>,
           cut \subseteq cut',
           \A p \in Procs : pc'[p] \in {"next"} \cup Inside \/ pc'[p] = pc[p] \/ batch[p] = <<>>
    PROVE  InFlight'
  <1>1. Pending' = Pending /\ \A p \in Procs, i \in Pending : InBatch(p, i)' = InBatch(p, i)
    BY DEF Pending, InBatch
  <1>2. PendingIsInFlight'
    BY <1>1 DEF InFlight, PendingIsInFlight
  <1>3. BatchesHold'
    BY DEF InFlight, BatchesHold
  <1> QED BY <1>2, <1>3 DEF InFlight

LEMMA FlightStep == ASSUME TypeOK, InFlight, [Next]_vars PROVE InFlight'
  <1> USE DEF InFlight
  <1>1. CASE UNCHANGED vars
    BY <1>1, FlightStays DEF vars, stream, history
  <1>2. ASSUME NEW t \in Tasks,
               (\E max \in AttemptLimits : Register(t, max)) \/ ExpireHash(t) \/ ExpireResult(t)
        PROVE  InFlight'
    BY <1>2, FlightStays DEF Register, ExpireHash, ExpireResult, stream, history
  <1>3. ASSUME NEW p \in Procs,
               \/ \E t \in Tasks : ScanPass(p, t) \/ ScanFind(p, t)
               \/ RecoverClaim(p) \/ Started(p) \/ ReclaimPending(p) \/ LeaveLoop(p)
               \/ ReadNothing(p) \/ BatchDone(p) \/ Start(p) \/ Stop(p)
        PROVE  InFlight'
    <2>1. /\ UNCHANGED <<msg, batch, cut>>
          /\ \/ pc' = pc
             \/ /\ \E place \in Places : pc' = [pc EXCEPT ![p] = place]
                /\ batch[p] = <<>>
      BY <1>3 DEF ScanPass, ScanFind, RecoverClaim, Started, ReclaimPending, LeaveLoop,
                  ReadNothing, BatchDone, Start, Stop, Goto, stream, history,
                  BatchesHold, TypeOK, Places, Inside
    <2> QED BY <2>1, FlightStays DEF TypeOK
  <1>8. ASSUME NEW p \in Procs,
               \/ ClaimTask(p) \/ ClaimRefused(p) \/ ClaimRaises(p) \/ StoreResult(p)
               \/ HandlerReturns(p) \/ HandlerRaises(p) \/ FailTask(p)
               \/ CompleteRaises(p) \/ StoreRaises(p) \/ FailRaises(p)
        PROVE  InFlight'
    <2>1. /\ UNCHANGED <<msg, batch, cut>>
          /\ \E place \in Inside : pc' = [pc EXCEPT ![p] = place]
      BY <1>8 DEF ClaimTask, ClaimRefused, ClaimRaises, HandlerReturns, StoreResult,
                  HandlerRaises, FailTask, CompleteRaises, StoreRaises, FailRaises, Hit,
                  Goto, stream, history, Inside
    <2> QED BY <2>1, FlightStays DEF TypeOK
  <1>4. ASSUME NEW t \in Tasks, Enqueue(t)
        PROVE  InFlight'
    <2>1. /\ posted \in Nat /\ DOMAIN msg = 1 .. posted /\ DOMAIN msg' = 1 .. posted + 1
          /\ \A i \in 1 .. posted :
                msg'[i] = msg[i] \/ (msg[i] = "waiting" /\ msg'[i] = "trimmed")
          /\ msg'[posted + 1] = "waiting"
      <3> DEFINE msgs(drop) == [i \in DOMAIN msg |-> IF i \in drop THEN "trimmed" ELSE msg[i]]
      <3>1. PICK drop \in {{}, Overflow(posted + 1)} : msg' = Append(msgs(drop), "waiting")
        BY <1>4 DEF Enqueue
      <3>2. posted \in Nat /\ DOMAIN msg = 1 .. posted
        BY SizesAssumption DEF TypeOK
      <3>3. \A i \in drop : msg[i] = "waiting"
        BY <3>1 DEF Overflow, Waiting
      <3>4. /\ msgs(drop) \in Seq({"waiting", "pending", "acked", "trimmed"})
            /\ Len(msgs(drop)) = posted
            /\ \A i \in 1 .. posted :
                 msgs(drop)[i] = IF i \in drop THEN "trimmed" ELSE msg[i]
        BY <3>2 DEF TypeOK
      <3> HIDE DEF msgs
      <3> QED BY <3>1, <3>2, <3>3, <3>4
    <2>2. UNCHANGED <<batch, pc, cut>>
      BY <1>4 DEF Enqueue, history
    <2>3. Pending' = Pending
      BY <2>1 DEF Pending
    <2>4. BatchesHold'
      BY <2>1, <2>2 DEF BatchesHold
    <2>5. PendingIsInFlight'
      BY <2>2, <2>3 DEF PendingIsInFlight, InBatch
    <2> QED BY <2>4, <2>5
  <1>5. ASSUME NEW p \in Procs, ReadGroup(p)
        PROVE  InFlight'
    <2>1. PICK b \in Seq(1 .. posted) :
             /\ batch' = [batch EXCEPT ![p] = b]
             /\ \A k \in DOMAIN b : b[k] \in Waiting
             /\ \A k, l \in DOMAIN b : b[k] = b[l] => k = l
             /\ msg' = [i \in DOMAIN msg |->
                           IF \E k \in DOMAIN b : b[k] = i THEN "pending" ELSE msg[i]]
      BY <1>5, WhatIsRead
    <2>2. /\ pc' = [pc EXCEPT ![p] = "next"] /\ pc[p] = "read" /\ cut' = cut
      BY <1>5 DEF ReadGroup, Goto, history
    <2>3. batch[p] = <<>>
      BY <2>2 DEF BatchesHold, Inside
    <2>4. /\ batch'[p] = b /\ \A q \in Procs \ {p} : batch'[q] = batch[q]
          /\ pc'[p] = "next" /\ \A q \in Procs \ {p} : pc'[q] = pc[q]
      BY <2>1, <2>2 DEF TypeOK
    <2>5. \A k \in DOMAIN b : b[k] \in DOMAIN msg /\ msg[b[k]] = "waiting"
      BY <2>1 DEF Waiting
    <2>6. BatchesHold'
      <3>1. ASSUME NEW q \in Procs, NEW k \in DOMAIN batch'[q]
            PROVE  batch'[q][k] \in DOMAIN msg' /\ msg'[batch'[q][k]] = "pending"
        <4>1. CASE q = p
          BY <2>1, <2>4, <2>5, <4>1
        <4>2. CASE q # p
          BY <2>1, <2>4, <4>2 DEF BatchesHold
        <4> QED BY <4>1, <4>2
      <3>2. ASSUME NEW q \in Procs, NEW r \in Procs,
                   NEW k \in DOMAIN batch'[q], NEW l \in DOMAIN batch'[r],
                   batch'[q][k] = batch'[r][l]
            PROVE  q = r /\ k = l
        <4>1. CASE q = p /\ r = p
          BY <2>1, <2>4, <3>2, <4>1
        <4>2. CASE q # p /\ r # p
          BY <2>4, <3>2, <4>2 DEF BatchesHold
        <4>3. CASE q = p /\ r # p
          BY <2>4, <2>5, <3>2, <4>3 DEF BatchesHold
        <4>4. CASE q # p /\ r = p
          BY <2>4, <2>5, <3>2, <4>4 DEF BatchesHold
        <4> QED BY <4>1, <4>2, <4>3, <4>4
      <3>3. \A q \in Procs : pc'[q] \notin {"next"} \cup Inside => batch'[q] = <<>>
        BY <2>4 DEF BatchesHold
      <3> QED BY <3>1, <3>2, <3>3 DEF BatchesHold
    <2>7. PendingIsInFlight'
      <3> SUFFICES ASSUME NEW i \in Pending'
                   PROVE  /\ i \notin cut' => \E q \in Procs : InBatch(q, i)'
                          /\ \A q, r \in Procs : InBatch(q, i)' /\ InBatch(r, i)' => q = r
        BY DEF PendingIsInFlight
      <3>1. \A q, r \in Procs : InBatch(q, i)' /\ InBatch(r, i)' => q = r
        BY <2>6 DEF BatchesHold, InBatch
      <3>2. ASSUME i \notin cut' PROVE \E q \in Procs : InBatch(q, i)'
        <4>1. CASE \E k \in DOMAIN b : b[k] = i
          BY <2>4, <4>1 DEF InBatch
        <4>2. CASE ~ \E k \in DOMAIN b : b[k] = i
          <5>1. i \in Pending
            BY <2>1, <4>2 DEF Pending
          <5>2. PICK q \in Procs : InBatch(q, i)
            BY <2>2, <3>2, <5>1 DEF PendingIsInFlight
          <5>3. q # p
            BY <2>3, <5>2 DEF InBatch
          <5> QED BY <2>4, <5>2, <5>3 DEF InBatch
        <4> QED BY <4>1, <4>2
      <3> QED BY <3>1, <3>2
    <2> QED BY <2>6, <2>7
  <1>6. ASSUME NEW p \in Procs, Ack(p)
        PROVE  InFlight'
    <2> DEFINE b == Tail(batch[p])
    <2>1. /\ pc' = [pc EXCEPT ![p] = "next"] /\ pc[p] = "acking" /\ cut' = cut
          /\ batch' = [batch EXCEPT ![p] = b]
          /\ msg' = [msg EXCEPT ![MsgOf(p)] = "acked"]
      BY <1>6 DEF Ack, Goto, history
    <2>2. batch[p] # <<>>
      BY <2>1 DEF TypeOK
    <2>3. /\ 1 \in DOMAIN batch[p] /\ MsgOf(p) = batch[p][1] /\ MsgOf(p) \in DOMAIN msg
          /\ \A k \in DOMAIN b : /\ k + 1 \in DOMAIN batch[p] /\ k \in Nat /\ k + 1 # 1
                                 /\ b[k] = batch[p][k + 1]
      BY <2>2, HeadIsTyped
    <2>4. \A k \in DOMAIN batch[p] : k # 1 => \E l \in DOMAIN b : b[l] = batch[p][k]
      <3>1. /\ batch[p] \in Seq(Ids) /\ b \in Seq(Ids) /\ Len(b) = Len(batch[p]) - 1
        BY <2>2, HeadIsTyped
      <3>2. ASSUME NEW k \in DOMAIN batch[p], k # 1 PROVE k - 1 \in DOMAIN b /\ b[k - 1] = batch[p][k]
        <4>1. k - 1 \in DOMAIN b /\ (k - 1) + 1 = k
          BY <3>1, <3>2
        <4> QED BY <2>3, <4>1
      <3> QED BY <3>2
    <2> HIDE DEF b
    <2>5. /\ batch'[p] = b /\ \A q \in Procs \ {p} : batch'[q] = batch[q]
          /\ pc'[p] = "next" /\ \A q \in Procs \ {p} : pc'[q] = pc[q]
      BY <2>1 DEF TypeOK
    <2>6. BatchesHold'
      <3>1. ASSUME NEW q \in Procs, NEW k \in DOMAIN batch'[q]
            PROVE  batch'[q][k] \in DOMAIN msg' /\ msg'[batch'[q][k]] = "pending"
        <4>1. CASE q = p
          <5>1. batch'[q][k] = batch[p][k + 1] /\ k + 1 \in DOMAIN batch[p] /\ k + 1 # 1
            BY <2>3, <2>5, <4>1
          <5>2. batch[p][k + 1] # MsgOf(p)
            BY <2>3, <5>1 DEF BatchesHold
          <5> QED BY <2>1, <5>1, <5>2 DEF BatchesHold
        <4>2. CASE q # p
          <5>1. batch'[q][k] = batch[q][k] /\ k \in DOMAIN batch[q]
            BY <2>5, <4>2
          <5>2. batch[q][k] # MsgOf(p)
            BY <2>3, <4>2, <5>1 DEF BatchesHold
          <5> QED BY <2>1, <5>1, <5>2 DEF BatchesHold
        <4> QED BY <4>1, <4>2
      <3>2. ASSUME NEW q \in Procs, NEW r \in Procs,
                   NEW k \in DOMAIN batch'[q], NEW l \in DOMAIN batch'[r],
                   batch'[q][k] = batch'[r][l]
            PROVE  q = r /\ k = l
        <4>1. CASE q = p /\ r = p
          <5>1. k + 1 = l + 1
            BY <2>3, <2>5, <3>2, <4>1 DEF BatchesHold
          <5>2. k \in Nat /\ l \in Nat
            BY <2>3, <2>5, <4>1
          <5> QED BY <4>1, <5>1, <5>2
        <4>2. CASE q # p /\ r # p
          BY <2>5, <3>2, <4>2 DEF BatchesHold
        <4>3. CASE q = p /\ r # p
          BY <2>3, <2>5, <3>2, <4>3 DEF BatchesHold
        <4>4. CASE q # p /\ r = p
          BY <2>3, <2>5, <3>2, <4>4 DEF BatchesHold
        <4> QED BY <4>1, <4>2, <4>3, <4>4
      <3>3. \A q \in Procs : pc'[q] \notin {"next"} \cup Inside => batch'[q] = <<>>
        BY <2>5 DEF BatchesHold
      <3> QED BY <3>1, <3>2, <3>3 DEF BatchesHold
    <2>7. PendingIsInFlight'
      <3> SUFFICES ASSUME NEW i \in Pending'
                   PROVE  /\ i \notin cut' => \E q \in Procs : InBatch(q, i)'
                          /\ \A q, r \in Procs : InBatch(q, i)' /\ InBatch(r, i)' => q = r
        BY DEF PendingIsInFlight
      <3>1. \A q, r \in Procs : InBatch(q, i)' /\ InBatch(r, i)' => q = r
        BY <2>6 DEF BatchesHold, InBatch
      <3>2. ASSUME i \notin cut' PROVE \E q \in Procs : InBatch(q, i)'
        <4>1. i \in Pending /\ i # MsgOf(p)
          BY <2>1, <2>3 DEF Pending
        <4>2. PICK q \in Procs : InBatch(q, i)
          BY <2>1, <3>2, <4>1 DEF PendingIsInFlight
        <4>3. CASE q = p
          <5>1. PICK k \in DOMAIN batch[p] : batch[p][k] = i
            BY <4>2, <4>3 DEF InBatch
          <5>2. k # 1
            BY <2>3, <4>1, <5>1
          <5> QED BY <2>4, <2>5, <5>1, <5>2 DEF InBatch
        <4>4. CASE q # p
          BY <2>5, <4>2, <4>4 DEF InBatch
        <4> QED BY <4>3, <4>4
      <3> QED BY <3>1, <3>2
    <2> QED BY <2>6, <2>7
  <1>7. ASSUME NEW p \in Procs, Crash(p) \/ ConsumeRaises(p)
        PROVE  InFlight'
    <2>1. /\ batch' = [batch EXCEPT ![p] = <<>>]
          /\ \E place \in {"down", "raised"} : pc' = [pc EXCEPT ![p] = place]
      BY <1>7 DEF Crash, ConsumeRaises, Goto
    <2>2. /\ batch'[p] = <<>> /\ \A q \in Procs \ {p} : batch'[q] = batch[q]
          /\ pc'[p] \notin {"next"} \cup Inside
          /\ \A q \in Procs \ {p} : pc'[q] = pc[q]
      BY <2>1 DEF TypeOK, Inside
    <2>3. \A q \in Procs : \A k \in DOMAIN batch'[q] :
             q # p /\ k \in DOMAIN batch[q] /\ batch'[q][k] = batch[q][k]
      BY <2>2
    \* What is pending, and was not, is cut off; so is what p had.
    <2>4. /\ DOMAIN msg' = DOMAIN msg /\ cut \subseteq cut'
          /\ \A i \in DOMAIN msg : msg[i] = "pending" =>
                msg'[i] = "pending" \/ (batch[p] # <<>> /\ i = MsgOf(p))
          /\ \A i \in DOMAIN msg : msg'[i] = "pending" => msg[i] = "pending" \/ i \in cut'
          /\ \A i \in DOMAIN msg : InBatch(p, i) => i \in cut'
      <3>1. CASE Crash(p)
        BY <3>1 DEF Crash, stream, Batch
      <3>2. CASE ConsumeRaises(p) /\ pc[p] # "acking"
        <4>1. batch[p] = <<>>
          BY <3>2 DEF ConsumeRaises, BatchesHold, Inside
        <4>2. /\ DOMAIN msg' = DOMAIN msg /\ cut \subseteq cut'
              /\ \A i \in DOMAIN msg : msg[i] = "pending" => msg'[i] = "pending"
              /\ \A i \in DOMAIN msg : msg'[i] = "pending" => msg[i] = "pending" \/ i \in cut'
          BY <3>2 DEF ConsumeRaises, Delivered, DeliveredAs
        <4> QED BY <4>1, <4>2 DEF InBatch
      <3>3. CASE ConsumeRaises(p) /\ pc[p] = "acking"
        <4>1. batch[p] # <<>>
          BY <3>3 DEF TypeOK
        <4>2. /\ cut' = cut \cup Batch(p)
              /\ msg' = msg \/ msg' = [msg EXCEPT ![MsgOf(p)] = "acked"]
          BY <3>3 DEF ConsumeRaises
        <4> QED BY <4>1, <4>2 DEF Batch, TypeOK
      <3> QED BY <1>7, <3>1, <3>2, <3>3
    <2>5. BatchesHold'
      <3>1. ASSUME NEW q \in Procs, NEW k \in DOMAIN batch'[q]
            PROVE  batch'[q][k] \in DOMAIN msg' /\ msg'[batch'[q][k]] = "pending"
        <4>1. q # p /\ k \in DOMAIN batch[q] /\ batch'[q][k] = batch[q][k]
          BY <2>3
        <4>2. batch[q][k] \in DOMAIN msg /\ msg[batch[q][k]] = "pending"
          BY <4>1 DEF BatchesHold
        <4>3. ~(batch[p] # <<>> /\ batch[q][k] = MsgOf(p))
          BY <4>1, HeadIsTyped DEF BatchesHold
        <4> QED BY <2>4, <4>1, <4>2, <4>3
      <3>2. \A q, r \in Procs : \A k \in DOMAIN batch'[q], l \in DOMAIN batch'[r] :
               batch'[q][k] = batch'[r][l] => q = r /\ k = l
        BY <2>3 DEF BatchesHold
      <3>3. \A q \in Procs : pc'[q] \notin {"next"} \cup Inside => batch'[q] = <<>>
        BY <2>2 DEF BatchesHold
      <3> QED BY <3>1, <3>2, <3>3 DEF BatchesHold
    <2>6. PendingIsInFlight'
      <3> SUFFICES ASSUME NEW i \in Pending'
                   PROVE  /\ i \notin cut' => \E q \in Procs : InBatch(q, i)'
                          /\ \A q, r \in Procs : InBatch(q, i)' /\ InBatch(r, i)' => q = r
        BY DEF PendingIsInFlight
      <3>1. \A q, r \in Procs : InBatch(q, i)' /\ InBatch(r, i)' => q = r
        BY <2>5 DEF BatchesHold, InBatch
      <3>2. ASSUME i \notin cut' PROVE \E q \in Procs : InBatch(q, i)'
        <4>1. i \in Pending /\ i \notin cut /\ ~InBatch(p, i)
          BY <2>4, <3>2 DEF Pending
        <4>2. PICK q \in Procs : InBatch(q, i)
          BY <4>1 DEF PendingIsInFlight
        <4>3. q # p
          BY <4>1, <4>2
        <4> QED BY <2>2, <4>2, <4>3 DEF InBatch
      <3> QED BY <3>1, <3>2
    <2> QED BY <2>5, <2>6
  <1> QED BY <1>1, <1>2, <1>3, <1>4, <1>5, <1>6, <1>7, <1>8
          DEF Next, Produce, Work, RedisFails

-----------------------------------------------------------------------------
(* Tasks and the processes that run them.                                    *)
Working == {"handling", "storing", "failing"}

(* As long as its hash lives, a task in work is its worker's, and has been   *)
(* completed if complete_task's script is known to have run.                 *)
WorkIsOwned ==
    \A p \in Procs :
        pc[p] \in Working /\ TaskOf(p) \notin expired =>
            \/ /\ pc[p] # "storing"
               /\ hash[TaskOf(p)].state = "RUNNING" /\ hash[TaskOf(p)].worker = NameOf[p]
            \/ /\ pc[p] = "storing" \/ (pc[p] = "failing" /\ TaskOf(p) \in hit)
               /\ hash[TaskOf(p)].state = "DONE"

OneWorker ==
    \A p, q \in Procs :
        pc[p] \in Working /\ pc[q] \in Working /\ TaskOf(p) = TaskOf(q)
            => p = q \/ TaskOf(p) \in expired

Handlers == WorkIsOwned /\ OneWorker /\ RunningHasHandler /\ DoneHasResult

\* Steps that change no task and nobody's work on one.
LEMMA HandlersStay ==
    ASSUME Handlers, UNCHANGED <<hash, adopted, expired>>, hit \subseteq hit',
           \A t \in Tasks : result'[t] = "absent" => result[t] = "absent",
           \A q \in Procs : pc'[q] \in Working \/ pc[q] \in Working =>
                               pc'[q] = pc[q] /\ TaskOf(q)' = TaskOf(q)
    PROVE  Handlers'
  <1> USE DEF Handlers, Working
  <1>1. WorkIsOwned'
    BY DEF WorkIsOwned
  <1>2. OneWorker'
    BY DEF OneWorker
  <1>3. RunningHasHandler'
    <2> SUFFICES ASSUME NEW t \in Tasks \ (expired \cup adopted \cup hit),
                        hash[t].state = "RUNNING"
                 PROVE  \E p \in Procs : InWork(p, t)'
      BY DEF RunningHasHandler
    <2>1. PICK p \in Procs : InWork(p, t)
      BY DEF RunningHasHandler
    <2> QED BY <2>1 DEF InWork
  <1>4. DoneHasResult'
    <2> SUFFICES ASSUME NEW t \in Tasks \ hit, hash[t].state = "DONE", result[t] = "absent"
                 PROVE  \E p \in Procs : (pc[p] = "storing" /\ TaskOf(p) = t)'
      BY DEF DoneHasResult
    <2>1. PICK p \in Procs : pc[p] = "storing" /\ TaskOf(p) = t
      BY DEF DoneHasResult
    <2> QED BY <2>1
  <1> QED BY <1>1, <1>2, <1>3, <1>4

\* Steps of a process on the task of its message.
LEMMA WorkStep ==
    ASSUME TypeOK, BatchesHold, Handlers, NEW p \in Procs, NEW t \in Tasks, t = TaskOf(p),
           UNCHANGED <<batch, taskOf, adopted, expired>>, hit \subseteq hit',
           \A u \in Tasks : u # t => hash'[u] = hash[u] /\ result'[u] = result[u],
           \A q \in Procs : q # p => pc'[q] = pc[q],
           pc'[p] \in Working /\ t \notin expired =>
               \/ /\ pc'[p] # "storing"
                  /\ hash'[t].state = "RUNNING" /\ hash'[t].worker = NameOf[p]
               \/ /\ pc'[p] = "storing" \/ (pc'[p] = "failing" /\ t \in hit')
                  /\ hash'[t].state = "DONE",
           pc[p] \notin Working /\ (hash'[t] # hash[t] \/ pc'[p] \in Working) =>
               hash[t].state = "PENDING",
           t \notin hit' \cup expired /\ hash'[t].state = "RUNNING" =>
               \/ pc'[p] \in {"handling", "failing"}
               \/ hash'[t] = hash[t] /\ pc[p] \notin {"handling", "failing"},
           t \notin hit' /\ hash'[t].state = "DONE" /\ result'[t] = "absent" =>
               \/ pc'[p] = "storing"
               \/ hash'[t] = hash[t] /\ result'[t] = result[t] /\ pc[p] # "storing"
    PROVE  Handlers'
  <1>1. \A q \in Procs : TaskOf(q)' = TaskOf(q)
    BY DEF TaskOf, MsgOf
  <1>2. ASSUME NEW q \in Procs, q # p, pc'[q] \in Working, TaskOf(q) = t, t \notin expired
        PROVE  pc[p] \notin Working /\ pc'[p] \notin Working /\ hash'[t] = hash[t]
    <2>1. pc[q] \in Working /\ pc[p] \notin Working
      BY <1>2 DEF Handlers, OneWorker
    <2>2. hash[t].state # "PENDING"
      BY <1>2, <2>1 DEF Handlers, WorkIsOwned
    <2> QED BY <2>1, <2>2
  <1>3. WorkIsOwned'
    <2> SUFFICES ASSUME NEW q \in Procs, pc'[q] \in Working, TaskOf(q) \notin expired
                 PROVE  \/ /\ pc'[q] # "storing"
                           /\ hash'[TaskOf(q)].state = "RUNNING"
                           /\ hash'[TaskOf(q)].worker = NameOf[q]
                        \/ /\ pc'[q] = "storing" \/ (pc'[q] = "failing" /\ TaskOf(q) \in hit')
                           /\ hash'[TaskOf(q)].state = "DONE"
      BY <1>1 DEF WorkIsOwned
    <2>1. CASE q = p
      BY <2>1
    <2>2. CASE q # p
      <3>1. pc'[q] = pc[q] /\ TaskOf(q) \in Tasks
        BY <2>2, HeadIsTyped DEF TypeOK, Working
      <3>2. hash'[TaskOf(q)] = hash[TaskOf(q)]
        BY <1>2, <2>2, <3>1
      <3> QED BY <3>1, <3>2 DEF Handlers, WorkIsOwned
    <2> QED BY <2>1, <2>2
  <1>4. OneWorker'
    <2> SUFFICES ASSUME NEW q \in Procs, NEW r \in Procs, q # r, TaskOf(q) \notin expired,
                        pc'[q] \in Working, pc'[r] \in Working, TaskOf(q) = TaskOf(r)
                 PROVE  FALSE
      BY <1>1 DEF OneWorker
    <2> QED BY <1>2 DEF Handlers, OneWorker
  <1>5. RunningHasHandler'
    <2> SUFFICES ASSUME NEW u \in Tasks \ (expired \cup adopted \cup hit'),
                        hash'[u].state = "RUNNING"
                 PROVE  \E q \in Procs : pc'[q] \in {"handling", "failing"} /\ TaskOf(q) = u
      BY <1>1 DEF RunningHasHandler, InWork
    <2>1. CASE u = t /\ pc'[p] \in {"handling", "failing"}
      BY <2>1
    <2>2. CASE ~(u = t /\ pc'[p] \in {"handling", "failing"})
      <3>1. hash'[u] = hash[u] /\ ~(u = t /\ pc[p] \in {"handling", "failing"})
        BY <2>2
      <3>2. PICK q \in Procs : pc[q] \in {"handling", "failing"} /\ TaskOf(q) = u
        BY <3>1 DEF Handlers, RunningHasHandler, InWork
      <3>3. q # p
        BY <3>1, <3>2
      <3> QED BY <3>2, <3>3
    <2> QED BY <2>1, <2>2
  <1>6. DoneHasResult'
    <2> SUFFICES ASSUME NEW u \in Tasks \ hit', hash'[u].state = "DONE", result'[u] = "absent"
                 PROVE  \E q \in Procs : pc'[q] = "storing" /\ TaskOf(q) = u
      BY <1>1 DEF DoneHasResult
    <2>1. CASE u = t /\ pc'[p] = "storing"
      BY <2>1
    <2>2. CASE ~(u = t /\ pc'[p] = "storing")
      <3>1. hash'[u] = hash[u] /\ result'[u] = result[u] /\ ~(u = t /\ pc[p] = "storing")
        BY <2>2
      <3>2. PICK q \in Procs : pc[q] = "storing" /\ TaskOf(q) = u
        BY <3>1 DEF Handlers, DoneHasResult
      <3>3. q # p
        BY <3>1, <3>2
      <3> QED BY <3>2, <3>3
    <2> QED BY <2>1, <2>2
  <1> QED BY <1>3, <1>4, <1>5, <1>6 DEF Handlers

LEMMA TaskOfStays ==
    ASSUME TypeOK, BatchesHold, Next, NEW q \in Procs, batch[q] # <<>>, batch'[q] = batch[q]
    PROVE  TaskOf(q)' = TaskOf(q)
  <1>1. MsgOf(q) \in 1 .. posted
    BY HeadIsTyped DEF TypeOK
  <1>2. taskOf'[MsgOf(q)] = taskOf[MsgOf(q)]
    <2>1. CASE UNCHANGED taskOf
      BY <2>1
    <2>2. CASE \E t \in Tasks : Enqueue(t)
      <3>1. PICK t \in Tasks : taskOf' = Append(taskOf, t)
        BY <2>2 DEF Enqueue
      <3>2. taskOf \in [1 .. posted -> Tasks] /\ posted \in Nat
        BY SizesAssumption DEF TypeOK
      <3> QED BY <1>1, <3>1, <3>2, AppendType
    <2> QED BY <2>1, <2>2 DEF Next, Produce, Work, Register, ScanPass, ScanFind, RecoverClaim,
               Started, ReclaimPending, LeaveLoop, ReadGroup, ReadNothing, BatchDone, ClaimTask,
               ClaimRefused, HandlerReturns, StoreResult, HandlerRaises, FailTask, Ack, Start,
               Stop, Crash, ExpireHash, ExpireResult, RedisFails, ClaimRaises, CompleteRaises,
               StoreRaises, FailRaises, ConsumeRaises, Hit, stream
  <1>3. MsgOf(q)' = MsgOf(q)
    BY DEF MsgOf
  <1> QED BY <1>2, <1>3 DEF TaskOf

LEMMA HandlersStep == ASSUME TypeOK, BatchesHold, Handlers, [Next]_vars PROVE Handlers'
  <1>t. /\ \A t \in Tasks : hash[t] \in Hash
        /\ \A p \in Procs : NameOf[p] \in Names
        /\ \A p \in Procs : pc[p] \in Inside => TaskOf(p) \in Tasks /\ batch[p] # <<>>
    BY HeadIsTyped, NameOfAssumption DEF TypeOK, Inside
  <1>0. /\ \A t \in Tasks, p \in Procs :
              /\ Claimed(hash[t], NameOf[p]).state = "RUNNING"
              /\ Claimed(hash[t], NameOf[p]).worker = NameOf[p]
              /\ Completed(hash[t]).state = "DONE"
              /\ Failed(hash[t]).state \in {"PENDING", "FAILED"}
    BY <1>t, ScriptEffect
  <1>u. \A q \in Procs : UNCHANGED <<taskOf, batch>> => TaskOf(q)' = TaskOf(q)
    BY DEF TaskOf, MsgOf
  <1>1. CASE UNCHANGED vars
    BY <1>1, <1>u, HandlersStay DEF vars, stream, history
  <1>2. ASSUME NEW t \in Tasks, Enqueue(t)
        PROVE  Handlers'
    <2>1. UNCHANGED <<hash, result, pc, batch, hit, adopted, expired>>
      BY <1>2 DEF Enqueue, history
    <2>2. \A q \in Procs : pc[q] \in Working => TaskOf(q)' = TaskOf(q)
      BY <1>2, <1>t, <2>1, TaskOfStays DEF Next, Produce, Working, Inside
    <2> QED BY <2>1, <2>2, HandlersStay
  <1>3. ASSUME NEW p \in Procs,
               \/ \E t \in Tasks : ScanPass(p, t) \/ ScanFind(p, t)
               \/ Started(p) \/ ReclaimPending(p) \/ LeaveLoop(p) \/ ReadNothing(p)
               \/ BatchDone(p) \/ Start(p) \/ Stop(p)
        PROVE  Handlers'
    <2>1. /\ UNCHANGED <<hash, result, hit, adopted, expired, taskOf, batch>>
          /\ \/ pc' = pc
             \/ \E place \in Places \ Working :
                   pc' = [pc EXCEPT ![p] = place] /\ pc[p] \notin Working
      BY <1>3 DEF ScanPass, ScanFind, Started, ReclaimPending, LeaveLoop, ReadNothing,
                  BatchDone, Start, Stop, Goto, stream, history, Places, Working
    <2>2. \A q \in Procs : pc'[q] \in Working \/ pc[q] \in Working => pc'[q] = pc[q]
      BY <2>1 DEF TypeOK
    <2> QED BY <1>u, <2>1, <2>2, HandlersStay
  <1>4. ASSUME NEW p \in Procs, ReadGroup(p) \/ Ack(p) \/ ConsumeRaises(p)
        PROVE  Handlers'
    <2>1. /\ UNCHANGED <<hash, result, hit, adopted, expired>>
          /\ \E place \in {"next", "raised"} : pc' = [pc EXCEPT ![p] = place]
          /\ pc[p] \in {"loop", "read", "acking"}
          /\ \E b : batch' = [batch EXCEPT ![p] = b]
      BY <1>4 DEF ReadGroup, Ack, ConsumeRaises, Goto, history
    <2>2. \A q \in Procs : pc'[q] \in Working \/ pc[q] \in Working =>
                              pc'[q] = pc[q] /\ q # p /\ batch'[q] = batch[q]
      BY <2>1 DEF TypeOK, Working
    <2>3. \A q \in Procs : pc[q] \in Working => batch[q] # <<>>
      BY <1>t DEF Working, Inside
    <2>4. Next
      BY <1>4 DEF Next, Work, RedisFails
    <2>5. \A q \in Procs : pc'[q] \in Working \/ pc[q] \in Working =>
                              TaskOf(q)' = TaskOf(q)
      BY <2>2, <2>3, <2>4, TaskOfStays
    <2> QED BY <2>1, <2>2, <2>5, HandlersStay
  <1>5. ASSUME NEW t \in Tasks, (\E max \in AttemptLimits : Register(t, max)) \/ ExpireHash(t)
        PROVE  Handlers'
    <2>1. /\ UNCHANGED <<result, pc, batch, taskOf, hit, adopted>>
          /\ \A u \in Tasks : u # t => hash'[u] = hash[u]
          /\ hash'[t].state \in {"PENDING", "MISSING"}
          /\ expired \subseteq expired'
          /\ hash[t].state = "MISSING" \/ t \in expired'
      BY <1>5, FreshHash DEF Register, ExpireHash, Exists, TypeOK, stream, history
    <2>2. \A q \in Procs : TaskOf(q)' = TaskOf(q)
      BY <1>u, <2>1
    <2>3. \A q \in Procs : pc[q] \in Working => TaskOf(q) \in Tasks
      BY <1>t DEF Working, Inside
    <2>5. WorkIsOwned'
      BY <2>1, <2>2, <2>3 DEF Handlers, WorkIsOwned
    <2>6. OneWorker'
      BY <2>1, <2>2 DEF Handlers, OneWorker
    <2>7. RunningHasHandler'
      BY <2>1, <2>2 DEF Handlers, RunningHasHandler, InWork
    <2>8. DoneHasResult'
      BY <2>1, <2>2 DEF Handlers, DoneHasResult
    <2> QED BY <2>5, <2>6, <2>7, <2>8 DEF Handlers
  <1>6. ASSUME NEW t \in Tasks, ExpireResult(t)
        PROVE  Handlers'
    <2>1. /\ UNCHANGED <<hash, pc, batch, taskOf, hit, adopted, expired>>
          /\ \A u \in Tasks : result'[u] = "absent" => result[u] = "absent"
      BY <1>6 DEF ExpireResult, TypeOK, stream, history
    <2> QED BY <1>u, <2>1, HandlersStay
  <1>7. ASSUME NEW p \in Procs, RecoverClaim(p)
        PROVE  Handlers'
    <2>1. /\ UNCHANGED <<result, batch, taskOf, hit, expired>>
          /\ pc' = [pc EXCEPT ![p] = "starting"] /\ pc[p] = "recovering"
      BY <1>7 DEF RecoverClaim, Goto, stream
    <2>2. \A q \in Procs : TaskOf(q)' = TaskOf(q)
      BY <1>u, <2>1
    <2>3. /\ adopted \subseteq adopted'
          /\ \A u \in Tasks :
                \/ hash'[u] = hash[u]
                \/ /\ hash[u].state = "PENDING" /\ hash'[u].state = "RUNNING"
                   /\ u \in adopted'
      BY <1>0, <1>7 DEF RecoverClaim, CanClaim, TypeOK
    <2>4. \A q \in Procs : pc'[q] \in Working \/ pc[q] \in Working => pc'[q] = pc[q]
      BY <2>1 DEF TypeOK, Working
    <2>f. \A q \in Procs : pc[q] \in Working => TaskOf(q) \in Tasks
      BY <1>t DEF Working, Inside
    <2>5. WorkIsOwned'
      BY <2>1, <2>2, <2>3, <2>4, <2>f DEF Handlers, WorkIsOwned
    <2>6. OneWorker'
      BY <2>1, <2>2, <2>4 DEF Handlers, OneWorker
    <2>7. RunningHasHandler'
      BY <2>1, <2>2, <2>3, <2>4 DEF Handlers, RunningHasHandler, InWork, Working
    <2>8. DoneHasResult'
      BY <2>1, <2>2, <2>3, <2>4 DEF Handlers, DoneHasResult, Working
    <2> QED BY <2>5, <2>6, <2>7, <2>8 DEF Handlers
  <1>8. ASSUME NEW p \in Procs,
               \/ ClaimTask(p) \/ ClaimRefused(p) \/ ClaimRaises(p) \/ StoreResult(p)
               \/ HandlerReturns(p) \/ HandlerRaises(p) \/ FailTask(p)
               \/ CompleteRaises(p) \/ StoreRaises(p) \/ FailRaises(p)
        PROVE  Handlers'
    <2> DEFINE t == TaskOf(p)
               h == hash[t]
               k == hash'[t]
    <2>1. batch[p] # <<>>
      BY <1>8 DEF ClaimTask, ClaimRefused, ClaimRaises, HandlerReturns, HandlerRaises,
         StoreResult, FailTask, CompleteRaises, StoreRaises, FailRaises, Begin, TypeOK
    <2>2. t \in Tasks
      BY <2>1, HeadIsTyped
    <2>3. /\ UNCHANGED <<batch, taskOf, adopted, expired>> /\ hit \subseteq hit'
          /\ \E place \in Places : pc' = [pc EXCEPT ![p] = place]
          /\ hash' = hash \/ \E new : hash' = [hash EXCEPT ![t] = new]
          /\ result' = result \/ result' = [result EXCEPT ![t] = "stored"]
      BY <1>8 DEF ClaimTask, ClaimRefused, ClaimRaises, HandlerReturns, HandlerRaises,
         StoreResult, FailTask, CompleteRaises, StoreRaises, FailRaises, Begin, Hit, Script,
         Goto, Places, stream, history
    <2>4. /\ \A u \in Tasks : u # t => hash'[u] = hash[u] /\ result'[u] = result[u]
          /\ \A q \in Procs : q # p => pc'[q] = pc[q]
      BY <2>3 DEF TypeOK
    <2>o. pc[p] \in Working /\ t \notin expired =>
              \/ pc[p] # "storing" /\ h.state = "RUNNING" /\ h.worker = NameOf[p]
              \/ /\ pc[p] = "storing" \/ (pc[p] = "failing" /\ t \in hit)
                 /\ h.state = "DONE"
      BY DEF Handlers, WorkIsOwned
    <2>c. /\ Claimed(h, NameOf[p]).state = "RUNNING" /\ Claimed(h, NameOf[p]).worker = NameOf[p]
          /\ Completed(h).state = "DONE" /\ Failed(h).state \in {"PENDING", "FAILED"}
      BY <1>0, <2>2
    \* What each of them does to the place of the process, its task and result.
    <2>5. \/ /\ pc[p] = "next" /\ h.state = "PENDING"
             /\ pc'[p] = "handling" /\ k = Claimed(h, NameOf[p])
          \/ pc[p] = "next" /\ pc'[p] = "acking" /\ k = h /\ result' = result
          \/ pc[p] = "next" /\ pc'[p] = "acking" /\ h.state = "PENDING" /\ t \in hit'
          \/ pc[p] = "handling" /\ pc'[p] = "storing" /\ k = Completed(h)
          \/ /\ pc[p] \in {"handling", "failing"} /\ pc'[p] = "acking"
             /\ ~OwnedBy(h, NameOf[p]) /\ k = h /\ result' = result /\ hit' = hit
          \/ pc[p] = "storing" /\ pc'[p] = "acking" /\ k = h /\ result'[t] = "stored"
          \/ pc[p] = "handling" /\ pc'[p] = "failing" /\ k = h /\ result' = result
          \/ /\ pc[p] = "failing" /\ pc'[p] = "acking"
             /\ k = Failed(h) /\ OwnedBy(h, NameOf[p])
          \/ pc[p] = "handling" /\ pc'[p] = "failing" /\ t \in hit' /\ k = Completed(h)
          \/ pc[p] = "storing" /\ pc'[p] = "failing" /\ t \in hit' /\ k = h
          \/ pc[p] = "failing" /\ pc'[p] = "acking" /\ t \in hit'
      <3> USE <2>2 DEF Script, Goto, TypeOK
      <3>1. CASE ClaimTask(p)
        BY <3>1 DEF ClaimTask, Begin, CanClaim
      <3>2. CASE ClaimRefused(p)
        BY <3>2 DEF ClaimRefused, Begin
      <3>3. CASE ClaimRaises(p)
        BY <3>3 DEF ClaimRaises, Begin, Hit, CanClaim
      <3>4. CASE StoreResult(p)
        BY <3>4 DEF StoreResult
      <3>5. CASE HandlerReturns(p)
        BY <3>5 DEF HandlerReturns, history
      <3>6. CASE HandlerRaises(p)
        BY <3>6 DEF HandlerRaises
      <3>7. CASE FailTask(p)
        BY <3>7 DEF FailTask, history
      <3>8. CASE CompleteRaises(p)
        BY <3>8 DEF CompleteRaises, Hit
      <3>9. CASE StoreRaises(p)
        BY <3>9 DEF StoreRaises, Hit
      <3>10. CASE FailRaises(p)
        BY <3>10 DEF FailRaises, Hit
      <3> QED BY <1>8, <3>1, <3>2, <3>3, <3>4, <3>5, <3>6, <3>7, <3>8, <3>9, <3>10
    <2> HIDE DEF t
    <2>6. /\ pc'[p] \in Working /\ t \notin expired =>
                \/ /\ pc'[p] # "storing"
                   /\ k.state = "RUNNING" /\ k.worker = NameOf[p]
                \/ /\ pc'[p] = "storing" \/ (pc'[p] = "failing" /\ t \in hit')
                   /\ k.state = "DONE"
          /\ pc[p] \notin Working /\ (k # h \/ pc'[p] \in Working) => h.state = "PENDING"
          /\ t \notin hit' \cup expired /\ k.state = "RUNNING" =>
                \/ pc'[p] \in {"handling", "failing"}
                \/ k = h /\ pc[p] \notin {"handling", "failing"}
          /\ t \notin hit' /\ k.state = "DONE" /\ result'[t] = "absent" =>
                \/ pc'[p] = "storing"
                \/ k = h /\ result'[t] = result[t] /\ pc[p] # "storing"
      <3> HIDE DEF h, k
      <3> QED BY <2>o, <2>c, <2>3, <2>5 DEF Working, OwnedBy
    <2> QED BY <2>2, <2>3, <2>4, <2>6, WorkStep DEF t
  <1>11. ASSUME NEW p \in Procs, Crash(p)
         PROVE  Handlers'
    <2>1. /\ UNCHANGED <<hash, result, taskOf, adopted, expired>>
          /\ hit \subseteq hit' /\ (pc[p] \in Working => TaskOf(p) \in hit')
          /\ pc' = [pc EXCEPT ![p] = "down"] /\ batch' = [batch EXCEPT ![p] = <<>>]
      BY <1>11 DEF Crash, Goto, stream, Working
    <2>2. /\ \A q \in Procs : q # p => pc'[q] = pc[q] /\ batch'[q] = batch[q]
          /\ pc'[p] = "down" /\ Next
      BY <1>11, <2>1 DEF TypeOK, Next
    <2>3. \A q \in Procs : q # p /\ pc[q] \in Working => TaskOf(q)' = TaskOf(q)
      BY <1>t, <2>2, TaskOfStays DEF Inside, Working
    <2>4. \A q \in Procs : pc'[q] \in Working => q # p /\ pc[q] \in Working
      BY <2>2 DEF Working
    <2>5. WorkIsOwned'
      BY <2>1, <2>2, <2>3, <2>4 DEF Handlers, WorkIsOwned
    <2>6. OneWorker'
      BY <2>1, <2>2, <2>3, <2>4 DEF Handlers, OneWorker
    <2>7. RunningHasHandler'
      <3> SUFFICES ASSUME NEW u \in Tasks \ (expired \cup adopted \cup hit'),
                          hash[u].state = "RUNNING"
                   PROVE  \E q \in Procs : InWork(q, u)'
        BY <2>1 DEF RunningHasHandler
      <3>1. PICK q \in Procs : InWork(q, u)
        BY <2>1 DEF Handlers, RunningHasHandler
      <3> QED BY <2>1, <2>2, <2>3, <3>1 DEF InWork, Working
    <2>8. DoneHasResult'
      <3> SUFFICES ASSUME NEW u \in Tasks \ hit', hash[u].state = "DONE", result[u] = "absent"
                   PROVE  \E q \in Procs : (pc[q] = "storing" /\ TaskOf(q) = u)'
        BY <2>1 DEF DoneHasResult
      <3>1. PICK q \in Procs : pc[q] = "storing" /\ TaskOf(q) = u
        BY <2>1 DEF Handlers, DoneHasResult
      <3> QED BY <2>1, <2>2, <2>3, <3>1 DEF Working
    <2> QED BY <2>5, <2>6, <2>7, <2>8 DEF Handlers
  <1> QED BY <1>1, <1>2, <1>3, <1>4, <1>5, <1>6, <1>7, <1>8, <1>11
          DEF Next, Produce, Work, RedisFails

-----------------------------------------------------------------------------
(* Messages and the attempts behind them.                                    *)

\* What producers put into the stream was registered, if they register tasks.
Known(t) == Registers => Exists(hash[t]) \/ t \in expired

\* The task is not just waiting for its first handler.
Tried(t) == hash[t].state = "PENDING" => t \in expired \cup failed \cup hit

Acks ==
    /\ \A i \in DOMAIN msg : Known(taskOf[i])
    /\ \A i \in DOMAIN msg : msg[i] = "acked" => Tried(taskOf[i])
    /\ \A p \in Procs : pc[p] \in Inside => Tried(TaskOf(p))
    /\ \A p \in Procs : pc[p] = "failing" => TaskOf(p) \in failed \cup hit

\* Whatever is done to a task, it stays known, and tried.
LEMMA TaskHistoryStays ==
    ASSUME TypeOK, BatchesHold, [Next]_vars, NEW t \in Tasks,
           \A p \in Procs : pc[p] = "failing" => TaskOf(p) \in failed \cup hit
    PROVE  /\ Exists(hash[t]) => Exists(hash'[t]) \/ t \in expired'
           /\ Known(t) /\ Tried(t) =>
                 (hash'[t].state = "PENDING" => t \in expired' \cup failed' \cup hit')
           /\ expired \subseteq expired' /\ failed \subseteq failed' /\ hit \subseteq hit'
  <1>t. hash[t] \in Hash /\ (\A p \in Procs : NameOf[p] \in Names)
    BY NameOfAssumption DEF TypeOK
  <1>0. \A p \in Procs : /\ Claimed(hash[t], NameOf[p]).state = "RUNNING"
                         /\ Completed(hash[t]).state = "DONE"
                         /\ Failed(hash[t]).state \in {"PENDING", "FAILED"}
    BY <1>t, ScriptEffect
  <1> USE DEF Exists, Known, Tried
  <1>1. ASSUME NEW u \in Tasks, NEW max \in AttemptLimits, Register(u, max)
        PROVE  /\ hash'[t] = hash[t] \/ (Registers /\ ~Exists(hash[t]) /\ Exists(hash'[t]))
               /\ expired' = expired /\ failed' = failed /\ hit' = hit
    BY <1>1, FreshHash DEF Register, TypeOK, history
  <1>2. ASSUME NEW p \in Procs,
               \/ RecoverClaim(p) \/ ClaimTask(p) \/ HandlerReturns(p)
               \/ ClaimRaises(p) \/ CompleteRaises(p)
        PROVE  /\ hash'[t] = hash[t] \/ hash'[t].state \in {"RUNNING", "DONE"}
               /\ expired' = expired /\ failed' = failed /\ hit \subseteq hit'
    BY <1>0, <1>2 DEF RecoverClaim, ClaimTask, HandlerReturns, ClaimRaises, CompleteRaises,
                      Hit, Script, TypeOK, history
  <1>3. ASSUME NEW p \in Procs, FailTask(p) \/ FailRaises(p)
        PROVE  /\ \/ hash'[t] = hash[t]
                  \/ hash'[t].state \in {"PENDING", "FAILED"} /\ t \in failed \cup hit
               /\ expired' = expired /\ failed' = failed /\ hit \subseteq hit'
    <2>1. /\ hash' = hash \/ hash' = [hash EXCEPT ![TaskOf(p)] = Failed(hash[TaskOf(p)])]
          /\ pc[p] = "failing"
          /\ expired' = expired /\ failed' = failed /\ hit \subseteq hit'
      BY <1>3 DEF FailTask, FailRaises, Hit, Script, history
    <2>2. hash'[t] = hash[t] \/ (t = TaskOf(p) /\ hash'[t] = Failed(hash[t]))
      BY <2>1 DEF TypeOK
    <2> QED BY <1>0, <2>1, <2>2
  <1>4. ASSUME NEW u \in Tasks, ExpireHash(u)
        PROVE  /\ hash'[t] = hash[t] \/ (hash'[t].state = "MISSING" /\ t \in expired')
               /\ expired \subseteq expired' /\ failed' = failed /\ hit' = hit
    BY <1>4, FreshHash DEF ExpireHash, TypeOK
  <1>5. ASSUME UNCHANGED <<hash, expired>>, failed \subseteq failed', hit \subseteq hit'
        PROVE  hash'[t] = hash[t] /\ expired' = expired
    BY <1>5
  <1>6. \/ \E u \in Tasks : ExpireHash(u) \/ \E max \in AttemptLimits : Register(u, max)
        \/ \E p \in Procs : \/ RecoverClaim(p) \/ ClaimTask(p) \/ HandlerReturns(p)
                            \/ ClaimRaises(p) \/ CompleteRaises(p)
                            \/ FailTask(p) \/ FailRaises(p)
        \/ UNCHANGED <<hash, expired>> /\ failed \subseteq failed' /\ hit \subseteq hit'
    <2>1. ASSUME NEW p \in Procs, Crash(p) \/ StoreRaises(p) \/ ConsumeRaises(p) \/ HandlerRaises(p)
          PROVE  UNCHANGED <<hash, expired>> /\ failed \subseteq failed' /\ hit \subseteq hit'
      BY <2>1 DEF Crash, StoreRaises, ConsumeRaises, HandlerRaises, Hit
    <2> QED
      BY <2>1 DEF Next, Produce, Work, Enqueue, ScanPass, ScanFind, Started,
              ReclaimPending, LeaveLoop, ReadGroup, ReadNothing, BatchDone, ClaimRefused,
              StoreResult, Ack, RedisFails, Start, Stop, ExpireResult, history, vars
  <1>7. Known(t) /\ Tried(t) =>
            (hash'[t].state = "PENDING" => t \in expired' \cup failed' \cup hit')
    BY <1>1, <1>2, <1>3, <1>4, <1>5, <1>6
  <1>8. Exists(hash[t]) => Exists(hash'[t]) \/ t \in expired'
    BY <1>1, <1>2, <1>3, <1>4, <1>5, <1>6
  <1>9. expired \subseteq expired' /\ failed \subseteq failed' /\ hit \subseteq hit'
    BY <1>1, <1>2, <1>3, <1>4, <1>5, <1>6
  <1> QED BY <1>7, <1>8, <1>9

LEMMA AcksStep == ASSUME TypeOK, BatchesHold, Acks, [Next]_vars PROVE Acks'
  <1>1. \A t \in Tasks : /\ Known(t) => Known(t)'
                         /\ Known(t) /\ Tried(t) => Tried(t)'
    BY TaskHistoryStays DEF Known, Tried, Acks
  <1>h. Tasks = {} \/ (failed \subseteq failed' /\ hit \subseteq hit')
    BY TaskHistoryStays DEF Acks
  <1>2. /\ posted \in Nat /\ DOMAIN msg = 1 .. posted
        /\ \A i \in DOMAIN msg : taskOf[i] \in Tasks
        /\ \A p \in Procs : pc[p] \in Inside =>
              /\ batch[p] # <<>> /\ TaskOf(p) \in Tasks
              /\ MsgOf(p) \in DOMAIN msg /\ TaskOf(p) = taskOf[MsgOf(p)]
    BY HeadIsTyped, SizesAssumption DEF TypeOK, Inside
  <1>3. /\ \A p \in Procs : pc[p] \in Inside => Known(TaskOf(p))
        /\ \A p \in Procs : pc[p] = "next" /\ batch[p] # <<>> =>
              Known(TaskOf(p)) /\ TaskOf(p) \in Tasks
    BY <1>2, HeadIsTyped DEF Acks
  <1>4. ASSUME NEW t \in Tasks, Enqueue(t)
        PROVE  Acks'
    <2> DEFINE msgs(drop) == [i \in DOMAIN msg |-> IF i \in drop THEN "trimmed" ELSE msg[i]]
    <2>1. PICK drop : msg' = Append(msgs(drop), "waiting")
      BY <1>4 DEF Enqueue
    <2>2. /\ msgs(drop) \in [1 .. posted -> {"waiting", "pending", "acked", "trimmed"}]
          /\ \A i \in 1 .. posted : msgs(drop)[i] = "acked" => msg[i] = "acked"
      BY <1>2 DEF TypeOK
    <2> HIDE DEF msgs
    <2>3. /\ DOMAIN msg' = 1 .. posted + 1 /\ msg'[posted + 1] = "waiting"
          /\ \A i \in 1 .. posted : msg'[i] = "acked" => msg[i] = "acked"
      BY <1>2, <2>1, <2>2, AppendType
    <2>4. /\ \A i \in 1 .. posted : taskOf'[i] = taskOf[i]
          /\ taskOf'[posted + 1] = t
      BY <1>2, <1>4, AppendType DEF Enqueue, TypeOK
    <2>5. Known(t) /\ UNCHANGED <<hash, pc, batch, expired, failed, hit>>
      BY <1>4 DEF Enqueue, Known, history
    <2>6. \A u \in Tasks : Known(u)' = Known(u) /\ Tried(u)' = Tried(u)
      BY <2>5 DEF Known, Tried
    <2>7. \A i \in DOMAIN msg' : Known(taskOf[i])'
      <3> SUFFICES ASSUME NEW i \in 1 .. posted + 1 PROVE Known(taskOf[i])'
        BY <2>3
      <3>1. taskOf'[i] \in Tasks /\ Known(taskOf'[i])
        BY <1>2, <2>4, <2>5 DEF Acks
      <3> QED BY <2>5, <3>1 DEF Known
    <2>8. \A i \in DOMAIN msg' : msg'[i] = "acked" => Tried(taskOf[i])'
      <3> SUFFICES ASSUME NEW i \in 1 .. posted + 1, msg'[i] = "acked"
                   PROVE  Tried(taskOf[i])'
        BY <2>3
      <3>1. i \in 1 .. posted
        BY <1>2, <2>3
      <3>2. Tried(taskOf[i]) /\ taskOf'[i] = taskOf[i]
        BY <1>2, <2>3, <2>4, <3>1 DEF Acks
      <3> QED BY <2>5, <3>2 DEF Tried
    <2>9. \A p \in Procs : pc'[p] \in Inside =>
              TaskOf(p)' = TaskOf(p) /\ Tried(TaskOf(p))'
      <3> SUFFICES ASSUME NEW p \in Procs, pc[p] \in Inside
                   PROVE  TaskOf(p)' = TaskOf(p) /\ Tried(TaskOf(p))'
        BY <2>5
      <3>1. TaskOf(p)' = TaskOf(p)
        BY <1>2, <1>4, <2>5, TaskOfStays DEF Next, Produce
      <3> QED BY <2>5, <3>1 DEF Acks, Tried
    <2>10. \A p \in Procs : pc'[p] = "failing" => TaskOf(p)' \in failed' \cup hit'
      BY <2>5, <2>9 DEF Acks, Inside
    <2> QED BY <2>7, <2>8, <2>9, <2>10 DEF Acks
  <1>5. CASE ~ \E t \in Tasks : Enqueue(t)
    <2>0. taskOf' = taskOf /\ DOMAIN msg' = DOMAIN msg
      BY <1>5, WhatIsRead
         DEF Next, Produce, Work, Register, ScanPass, ScanFind, RecoverClaim,
             Started, ReclaimPending, LeaveLoop, ReadGroup, ReadNothing, BatchDone,
             ClaimTask, ClaimRefused, HandlerReturns, StoreResult, HandlerRaises, FailTask,
             Ack, RedisFails, ClaimRaises, CompleteRaises, StoreRaises, FailRaises,
             ConsumeRaises, Delivered, Hit, Start, Stop, Crash, ExpireHash, ExpireResult,
             stream, vars
    <2>1. ASSUME NEW t \in Tasks, Known(t)
          PROVE  Registers => Exists(hash'[t]) \/ t \in expired'
      BY <1>1, <2>1 DEF Known
    <2>2. ASSUME NEW t \in Tasks, Known(t), Tried(t)
          PROVE  hash'[t].state = "PENDING" => t \in expired' \cup failed' \cup hit'
      BY <1>1, <2>2 DEF Tried
    <2>3. \A i \in DOMAIN msg' : Known(taskOf[i])'
      BY <1>2, <2>0, <2>1 DEF Acks, Known
    <2>4. \A i \in DOMAIN msg' : msg'[i] = "acked" => Tried(taskOf[i])'
      <3> SUFFICES ASSUME NEW i \in DOMAIN msg, msg'[i] = "acked"
                   PROVE  hash'[taskOf[i]].state = "PENDING" =>
                              taskOf[i] \in expired' \cup failed' \cup hit'
        BY <2>0 DEF Tried
      <3>1. ASSUME NEW p \in Procs, ReadGroup(p)
             PROVE  msg'[i] = "acked" => msg[i] = "acked"
        BY <2>0, <3>1, WhatIsRead
      <3>2. CASE msg[i] = "acked"
        BY <1>2, <2>2, <3>2 DEF Acks
      <3>3. CASE msg[i] # "acked"
        <4>1. \E p \in Procs : Ack(p) \/ (ConsumeRaises(p) /\ msg' # msg)
          BY <1>5, <3>1, <3>3
             DEF Next, Produce, Work, Register, ScanPass, ScanFind, RecoverClaim,
                 Started, ReclaimPending, LeaveLoop, ReadNothing, BatchDone,
                 ClaimTask, ClaimRefused, HandlerReturns, StoreResult, HandlerRaises, FailTask,
                 RedisFails, ClaimRaises, CompleteRaises, StoreRaises, FailRaises,
                 Hit, Start, Stop, Crash, ExpireHash, ExpireResult, stream, vars
        <4>2. PICK p \in Procs : i = MsgOf(p) /\ pc[p] \in Inside
          <5>1. PICK p \in Procs : Ack(p) \/ (ConsumeRaises(p) /\ msg' # msg)
            BY <4>1
          <5>2. CASE Ack(p)
            BY <3>3, <5>2 DEF Ack, Inside, TypeOK
          <5>3. CASE ConsumeRaises(p)
            BY <3>3, <5>3 DEF ConsumeRaises, Delivered, DeliveredAs, Inside, TypeOK
          <5> QED BY <5>1, <5>2, <5>3
        <4>3. Tried(taskOf[i]) /\ Known(taskOf[i]) /\ taskOf[i] \in Tasks
          BY <1>2, <4>2 DEF Acks
        <4> QED BY <2>2, <4>3
      <3> QED BY <3>2, <3>3
    <2>5. ASSUME NEW p \in Procs, pc'[p] \in Inside
          PROVE  /\ Tried(TaskOf(p))'
                 /\ pc'[p] = "failing" => TaskOf(p)' \in failed' \cup hit'
      <3>1. /\ \/ pc[p] \in Inside /\ UNCHANGED pc
               \/ pc[p] \in Inside /\ pc'[p] \in {pc[p], "storing", "acking"}
               \/ HandlerRaises(p) \/ CompleteRaises(p) \/ StoreRaises(p)
               \/ ClaimTask(p) \/ ClaimRefused(p) \/ ClaimRaises(p)
            /\ batch'[p] = batch[p]
        BY <2>5 DEF Next, Produce, Work, Enqueue, Register, ScanPass, ScanFind, RecoverClaim,
               Started, ReclaimPending, LeaveLoop, ReadGroup, ReadNothing, BatchDone,
               ClaimTask, ClaimRefused, HandlerReturns, StoreResult, HandlerRaises, FailTask,
               Ack, RedisFails, ClaimRaises, CompleteRaises, StoreRaises, FailRaises,
               ConsumeRaises, Begin, Hit, Start, Stop, Crash, ExpireHash, ExpireResult,
               Goto, Inside, TypeOK, vars
      <3>2. TaskOf(p)' = TaskOf(p)
        BY <2>0, <3>1 DEF TaskOf, MsgOf
      <3>t. TaskOf(p) \in Tasks /\ failed \subseteq failed' /\ hit \subseteq hit'
        <4>1. TaskOf(p) \in Tasks
          BY <1>2, <1>3, <3>1 DEF HandlerRaises, CompleteRaises, StoreRaises, ClaimTask,
             ClaimRefused, ClaimRaises, Begin, Inside
        <4> QED BY <1>h, <4>1
      <3>3. ASSUME pc[p] \in Inside PROVE Tried(TaskOf(p))'
        BY <1>2, <1>3, <2>2, <3>2, <3>3 DEF Acks, Tried
      <3>4. ASSUME ClaimTask(p) PROVE Tried(TaskOf(p))'
        <4>1. hash[TaskOf(p)] \in Hash /\ NameOf[p] \in Names
              /\ hash'[TaskOf(p)] = Claimed(hash[TaskOf(p)], NameOf[p])
          BY <3>t, <3>4, NameOfAssumption DEF ClaimTask, Script, TypeOK
        <4>2. hash'[TaskOf(p)].state = "RUNNING"
          BY <4>1, ScriptEffect
        <4> QED BY <3>2, <4>2 DEF Tried
      <3>5. ASSUME ClaimRefused(p) PROVE Tried(TaskOf(p))'
        <4>1. hash' = hash /\ hash[TaskOf(p)].state # "PENDING"
          BY <3>5 DEF ClaimRefused, CanClaim
        <4> QED BY <3>2, <4>1 DEF Tried
      <3>6. ASSUME ClaimRaises(p) PROVE Tried(TaskOf(p))'
        BY <3>2, <3>6 DEF ClaimRaises, Hit, Tried
      <3>7. Tried(TaskOf(p))'
        BY <3>1, <3>3, <3>4, <3>5, <3>6
           DEF HandlerRaises, CompleteRaises, StoreRaises, Inside
      <3>8. ASSUME pc'[p] = "failing" PROVE TaskOf(p)' \in failed' \cup hit'
        <4>1. CASE HandlerRaises(p)
          BY <3>2, <4>1 DEF HandlerRaises
        <4>2. CASE CompleteRaises(p) \/ StoreRaises(p)
          BY <3>2, <4>2 DEF CompleteRaises, StoreRaises, Hit
        <4>3. CASE pc[p] = "failing"
          BY <3>t, <3>2, <4>3 DEF Acks
        <4>4. CASE ClaimTask(p) \/ ClaimRefused(p) \/ ClaimRaises(p)
          BY <3>8, <4>4 DEF ClaimTask, ClaimRefused, ClaimRaises, Goto, TypeOK
        <4> QED BY <3>1, <3>8, <4>1, <4>2, <4>3, <4>4
      <3> QED BY <3>7, <3>8
    <2> QED BY <2>3, <2>4, <2>5 DEF Acks, Inside
  <1> QED BY <1>4, <1>5

-----------------------------------------------------------------------------
(* The invariant of the specification.  The batches tie the pending list to  *)
(* the processes, which is what makes a message somebody's, and the task of  *)
(* a process one thing from its claim to its XACK.                           *)
IInv == TypeOK /\ InFlight /\ Handlers /\ Acks

LEMMA Invariance == Spec => []IInv
  <1>1. Init => IInv
    <2> SUFFICES ASSUME Init PROVE IInv
      OBVIOUS
    <2>1. /\ \A p \in Procs : pc[p] = "down" /\ batch[p] = <<>>
          /\ DOMAIN msg = {} /\ DOMAIN batch = Procs
          /\ \A t \in Tasks : hash[t].state = "MISSING"
      BY FreshHash DEF Init
    <2>2. InFlight
      BY <2>1 DEF InFlight, BatchesHold, PendingIsInFlight, Pending, Inside
    <2>3. Handlers
      BY <2>1 DEF Handlers, WorkIsOwned, OneWorker, RunningHasHandler, DoneHasResult, Working
    <2>4. Acks
      BY <2>1 DEF Acks, Inside
    <2> QED BY <2>2, <2>3, <2>4, InitType DEF IInv
  <1>2. IInv /\ [Next]_vars => IInv'
    BY TypeStep, FlightStep, HandlersStep, AcksStep DEF IInv, InFlight
  <1> QED BY <1>1, <1>2, PTL DEF Spec

(* TypeOK of every instance: a process inside its loop over a batch has a    *)
(* message in hand, and no batch is larger than XREADGROUP was asked for.    *)
THEOREM TypeCorrect == Spec => []TypeOK
  <1>1. IInv => TypeOK
    BY DEF IInv
  <1> QED BY <1>1, Invariance, PTL

(* OneHandler of every instance: consume never runs a task twice at a time   *)
(* while its hash lives, even where processes share a name.                  *)
THEOREM OneHandlerHolds == Spec => []OneHandler
  <1>1. IInv => OneHandler
    BY DEF IInv, Handlers, OneWorker, OneHandler, Handles, Working
  <1> QED BY <1>1, Invariance, PTL

(* RunningHasHandler of every instance: a RUNNING task that no process works *)
(* on is one whose own processing a death or an error cut off, one the       *)
(* recovery scan claimed, or one whose hash expired.                         *)
THEOREM RunningHasHandlerHolds == Spec => []RunningHasHandler
  <1>1. IInv => RunningHasHandler
    BY DEF IInv, Handlers
  <1> QED BY <1>1, Invariance, PTL

(* AckedWasTried of every instance: consume acknowledges no message of a     *)
(* task that still waits for its first handler, unless an error of Redis     *)
(* that it swallowed kept the handler from the task.                         *)
THEOREM AckedWasTriedHolds == Spec => []AckedWasTried
  <1>1. IInv => AckedWasTried
    BY DEF IInv, Acks, Tried, AckedWasTried
  <1> QED BY <1>1, Invariance, PTL

(* PendingIsInFlight of every instance: an unacknowledged message is in one  *)
(* batch at most, and in one unless its own reader was cut off.              *)
THEOREM PendingIsInFlightHolds == Spec => []PendingIsInFlight
  <1>1. IInv => PendingIsInFlight
    BY DEF IInv, InFlight
  <1> QED BY <1>1, Invariance, PTL

(* DoneHasResult of every instance: between complete_task's two round trips  *)
(* only a death or an error there separates a DONE task from its result.     *)
THEOREM DoneHasResultHolds == Spec => []DoneHasResult
  <1>1. IInv => DoneHasResult
    BY DEF IInv, Handlers
  <1> QED BY <1>1, Invariance, PTL

-----------------------------------------------------------------------------
(* The refinement of TaskHandover: a process changes one hash at a time, by  *)
(* one script.  The scan has one task in hand when it calls claim_task.      *)
OneTarget == \A p \in Procs : pc[p] = "recovering" => \E t \in Tasks : target[p] = {t}

LEMMA OneTargetStep == ASSUME TypeOK, OneTarget, [Next]_vars PROVE OneTarget'
  <1>0. pc \in [Procs -> Places] /\ target \in [Procs -> SUBSET Tasks]
    BY DEF TypeOK
  <1>1. ASSUME NEW p \in Procs, NEW place \in Places \ {"recovering"}, Goto(p, place),
               \A q \in Procs \ {p} : target'[q] = target[q]
        PROVE  OneTarget'
    BY <1>0, <1>1 DEF Goto, OneTarget
  <1>2. ASSUME NEW p \in Procs, NEW t \in Tasks, ScanFind(p, t)
        PROVE  OneTarget'
    BY <1>0, <1>2 DEF ScanFind, Goto, OneTarget
  <1>3. ASSUME NEW p \in Procs, RecoverClaim(p) \/ Crash(p)
        PROVE  OneTarget'
    <2>1. CASE RecoverClaim(p)
      BY <1>0, <1>1, <2>1 DEF RecoverClaim, Places
    <2>2. CASE Crash(p)
      BY <1>0, <1>1, <2>2 DEF Crash, Places
    <2> QED BY <1>3, <2>1, <2>2
  <1>4. ASSUME NEW p \in Procs,
               \/ Started(p) \/ ReclaimPending(p) \/ LeaveLoop(p) \/ ReadGroup(p)
               \/ ReadNothing(p) \/ BatchDone(p) \/ ClaimTask(p) \/ ClaimRefused(p)
               \/ HandlerReturns(p) \/ StoreResult(p) \/ HandlerRaises(p) \/ FailTask(p)
               \/ Ack(p) \/ Start(p) \/ RedisFails(p)
        PROVE  OneTarget'
    <2> USE DEF Started, ReclaimPending, LeaveLoop, ReadGroup, ReadNothing, BatchDone,
          ClaimTask, ClaimRefused, HandlerReturns, StoreResult, HandlerRaises, FailTask, Ack,
          Start, RedisFails, ClaimRaises, CompleteRaises, StoreRaises, FailRaises,
          ConsumeRaises, Hit
    <2>1. target' = target
      BY <1>4 DEF worker
    <2>2. \E place \in Places \ {"recovering"} : Goto(p, place)
      BY <1>4 DEF Places
    <2> QED BY <1>1, <2>1, <2>2
  <1>5. CASE pc' = pc /\ target' = target
    BY <1>5 DEF OneTarget
  <1> QED
    BY <1>2, <1>3, <1>4, <1>5
    DEF Next, Produce, Work, Register, Enqueue, ScanPass, Stop, ExpireHash, ExpireResult,
        vars, worker

\* What a script or an expiry makes of a hash.
Scripted(h, k) ==
    \/ k = Missing
    \/ h.state = "MISSING" /\ \E max \in AttemptLimits : k = Created(max)
    \/ h.state = "PENDING" /\ \E w \in Names : k = Claimed(h, w)
    \/ h.state = "RUNNING" /\ k \in {Completed(h), Failed(h)}

LEMMA HandoverOfScript ==
    ASSUME hash \in [Tasks -> Hash], NEW t \in Tasks, NEW k,
           hash' = [hash EXCEPT ![t] = k], Scripted(hash[t], k)
    PROVE  [Handover!HandoverNext]_(Handover!handoverVars)
  <1>0. hash[t] \in Hash
    OBVIOUS
  <1>1. /\ [x \in Tasks |-> hash[x].state]' = [[x \in Tasks |-> hash[x].state] EXCEPT ![t] = k.state]
        /\ [x \in Tasks |-> hash[x].worker]' = [[x \in Tasks |-> hash[x].worker] EXCEPT ![t] = k.worker]
        /\ [x \in Tasks |-> hash[x].epoch]' = [[x \in Tasks |-> hash[x].epoch] EXCEPT ![t] = k.epoch]
    OBVIOUS
  <1>2. /\ [x \in Tasks |-> hash[x].state][t] = hash[t].state
        /\ [x \in Tasks |-> hash[x].worker][t] = hash[t].worker
        /\ [x \in Tasks |-> hash[x].epoch][t] = hash[t].epoch
    OBVIOUS
  <1>3. CASE k = Missing
    <2>1. k.state = "MISSING" /\ k.worker = NoName /\ k.epoch = 0
      BY <1>3 DEF Missing
    <2>2. Handover!Vanish(t)
      BY <1>1, <2>1 DEF Handover!Vanish, Handover!Becomes
    <2> QED BY <2>2 DEF Handover!HandoverNext
  <1>4. CASE hash[t].state = "MISSING" /\ \E max \in AttemptLimits : k = Created(max)
    <2>1. k.state = "PENDING" /\ k.worker = NoName /\ k.epoch = 0
      BY <1>4 DEF Created
    <2>2. Handover!Submit(t)
      BY <1>1, <1>2, <1>4, <2>1 DEF Handover!Submit, Handover!Becomes
    <2> QED BY <2>2 DEF Handover!HandoverNext
  <1>5. ASSUME NEW w \in Names, hash[t].state = "PENDING", k = Claimed(hash[t], w)
        PROVE  Handover!HandoverNext
    <2>1. k.state = "RUNNING" /\ k.worker = w /\ k.epoch = hash[t].epoch + 1
      BY <1>5 DEF Claimed, Rewrite
    <2>2. Handover!Grant(t, w)
      BY <1>1, <1>2, <1>5, <2>1 DEF Handover!Grant, Handover!Becomes
    <2> QED BY <2>2 DEF Handover!HandoverNext
  <1>6. CASE hash[t].state = "RUNNING" /\ k \in {Completed(hash[t]), Failed(hash[t])}
    <2>1. \/ /\ k.state \in {"DONE", "FAILED"}
             /\ k.worker = hash[t].worker /\ k.epoch = hash[t].epoch
          \/ /\ k.state = "PENDING"
             /\ k.worker = NoName /\ k.epoch = hash[t].epoch + 1
      <3>1. CASE k = Completed(hash[t])
        BY <1>0, <3>1 DEF Hash, Completed
      <3>2. CASE k = Failed(hash[t])
        BY <1>0, <3>2 DEF Hash, Failed, Released, Rewrite
      <3> QED BY <1>6, <3>1, <3>2
    <2>2. ASSUME NEW p \in {"DONE", "FAILED"},
                 k.state = p, k.worker = hash[t].worker, k.epoch = hash[t].epoch
          PROVE  Handover!HandoverNext
      <3>1. Handover!End(t, p)
        BY <1>1, <1>2, <1>6, <2>2 DEF Handover!End, Handover!Becomes
      <3> QED BY <3>1 DEF Handover!HandoverNext
    <2>3. CASE k.state = "PENDING" /\ k.worker = NoName /\ k.epoch = hash[t].epoch + 1
      <3>1. Handover!Release(t)
        BY <1>1, <1>2, <1>6, <2>3 DEF Handover!Release, Handover!Becomes
      <3> QED BY <3>1 DEF Handover!HandoverNext
    <2> QED BY <2>1, <2>2, <2>3
  <1> QED BY <1>3, <1>4, <1>5, <1>6 DEF Scripted

(* Every step that changes the hashes changes one of them, by one script.    *)
LEMMA OneScript ==
    ASSUME TypeOK, BatchesHold, OneTarget, [Next]_vars
    PROVE  \/ hash' = hash
           \/ \E t \in Tasks : \E k : hash' = [hash EXCEPT ![t] = k] /\ Scripted(hash[t], k)
  <1>t. hash \in [Tasks -> Hash]
    BY DEF TypeOK
  <1>n. \A p \in Procs : NameOf[p] \in Names
    BY NameOfAssumption
  <1>1. ASSUME NEW t \in Tasks, ExpireHash(t)
        PROVE  \E k : hash' = [hash EXCEPT ![t] = k] /\ Scripted(hash[t], k)
    BY <1>1 DEF ExpireHash, Scripted
  <1>2. ASSUME NEW t \in Tasks, NEW max \in AttemptLimits, Register(t, max)
        PROVE  \E k : hash' = [hash EXCEPT ![t] = k] /\ Scripted(hash[t], k)
    BY <1>2 DEF Register, Exists, Scripted
  <1>3. ASSUME NEW p \in Procs, RecoverClaim(p)
        PROVE  \/ hash' = hash
               \/ \E t \in Tasks : \E k : hash' = [hash EXCEPT ![t] = k] /\ Scripted(hash[t], k)
    <2>1. PICK t \in Tasks : target[p] = {t}
      BY <1>3 DEF RecoverClaim, OneTarget
    <2>2. CASE CanClaim(hash[t])
      <3>1. hash' = [hash EXCEPT ![t] = Claimed(hash[t], NameOf[p])]
        BY <1>t, <1>3, <2>1, <2>2 DEF RecoverClaim
      <3>2. Scripted(hash[t], Claimed(hash[t], NameOf[p]))
        BY <1>n, <2>2 DEF CanClaim, Scripted
      <3> QED BY <3>1, <3>2
    <2>3. CASE ~CanClaim(hash[t])
      BY <1>t, <1>3, <2>1, <2>3 DEF RecoverClaim
    <2> QED BY <2>2, <2>3
  <1>4. ASSUME NEW p \in Procs,
               \/ ClaimTask(p) \/ ClaimRaises(p) \/ HandlerReturns(p)
               \/ CompleteRaises(p) \/ FailTask(p) \/ FailRaises(p)
        PROVE  \/ hash' = hash
               \/ \E t \in Tasks : \E k : hash' = [hash EXCEPT ![t] = k] /\ Scripted(hash[t], k)
    <2>1. batch[p] # <<>>
      BY <1>4 DEF ClaimTask, ClaimRaises, Begin, HandlerReturns, CompleteRaises, FailTask,
                  FailRaises, TypeOK
    <2>2. TaskOf(p) \in Tasks
      BY <2>1, HeadIsTyped
    <2>3. CASE ClaimTask(p) \/ ClaimRaises(p)
      BY <1>n, <2>2, <2>3 DEF ClaimTask, ClaimRaises, CanClaim, Script, Scripted
    <2>4. CASE HandlerReturns(p) \/ CompleteRaises(p)
      BY <2>2, <2>4 DEF HandlerReturns, CompleteRaises, OwnedBy, Script, Scripted
    <2>5. CASE FailTask(p) \/ FailRaises(p)
      BY <2>2, <2>5 DEF FailTask, FailRaises, OwnedBy, Script, Scripted
    <2> QED BY <1>4, <2>3, <2>4, <2>5
  <1>5. CASE hash' = hash
    BY <1>5
  <1> QED
    BY <1>1, <1>2, <1>3, <1>4, <1>5
    DEF Next, Produce, Work, Enqueue, ScanPass, ScanFind, Started, ReclaimPending,
        LeaveLoop, ReadGroup, ReadNothing, BatchDone, ClaimRefused, StoreResult,
        HandlerRaises, Ack, RedisFails, StoreRaises, ConsumeRaises, Hit, Start, Stop, Crash,
        ExpireResult, vars

(* Whatever is delivered twice, taken for stale or left by who died: what    *)
(* others see of the tasks of the queue is a hand-over, also where processes *)
(* share a name or the producer registers nothing.                           *)
THEOREM ImplementsHandoverHolds == Spec => ImplementsHandover
  <1>1. Init => Handover!HandoverInit /\ OneTarget
    BY DEF Init, Missing, Handover!HandoverInit, OneTarget
  <1>2. IInv /\ OneTarget /\ [Next]_vars
           => OneTarget' /\ [Handover!HandoverNext]_(Handover!handoverVars)
    <2> SUFFICES ASSUME IInv, OneTarget, [Next]_vars
                 PROVE  [Handover!HandoverNext]_(Handover!handoverVars)
      BY OneTargetStep DEF IInv
    <2>1. CASE hash' = hash
      BY <2>1 DEF Handover!handoverVars
    <2>2. ASSUME NEW t \in Tasks, NEW k,
                 hash' = [hash EXCEPT ![t] = k], Scripted(hash[t], k)
          PROVE  [Handover!HandoverNext]_(Handover!handoverVars)
      BY <2>2, HandoverOfScript DEF IInv, TypeOK
    <2> QED BY <2>1, <2>2, OneScript DEF IInv, InFlight
  <1> QED BY <1>1, <1>2, Invariance, PTL
          DEF Spec, ImplementsHandover, Handover!HandoverSpec

(* And with it the promise: no task changes hands under one epoch, none ends *)
(* twice or but in its holder's hands.                                       *)
THEOREM HandoverPromised == Spec => [][Handover!Promise]_(Handover!handoverVars)
  BY ImplementsHandoverHolds, Handover!PromiseHolds, PTL DEF ImplementsHandover

-----------------------------------------------------------------------------
(* A pending message in nobody's batch: what the messages and the batches    *)
(* have to do for it to stay that way.                                       *)
LEMMA AbandonedStays ==
    ASSUME NEW i, Abandoned(i),
           i \in DOMAIN msg', msg'[i] = "pending",
           \A p \in Procs : InBatch(p, i)' => InBatch(p, i)
    PROVE  Abandoned(i)'
  BY DEF Abandoned, Pending

(* A message whose reader is gone is never in a batch again: XCLAIM gives it *)
(* a new owner, and no process.                                              *)
THEOREM AbandonedForEverHolds == Spec => AbandonedForEver
  <1>1. IInv /\ [Next]_vars => \A i \in Ids : Abandoned(i) => Abandoned(i)'
    <2> SUFFICES ASSUME IInv, [Next]_vars, NEW i \in Ids, Abandoned(i)
                 PROVE  Abandoned(i)'
      OBVIOUS
    <2>0. /\ TypeOK /\ BatchesHold
          /\ i \in DOMAIN msg /\ msg[i] = "pending" /\ \A p \in Procs : ~InBatch(p, i)
          /\ posted \in Nat /\ DOMAIN msg = 1 .. posted
      BY SizesAssumption DEF IInv, InFlight, TypeOK, Abandoned, Pending
    <2>1. ASSUME msg' = msg, batch' = batch
          PROVE  Abandoned(i)'
      BY <2>0, <2>1, AbandonedStays DEF InBatch
    <2>2. ASSUME NEW t \in Tasks, Enqueue(t)
          PROVE  Abandoned(i)'
      <3>1. PICK drop \in {{}, Overflow(posted + 1)} :
               msg' = Append([k \in DOMAIN msg |-> IF k \in drop THEN "trimmed" ELSE msg[k]],
                             "waiting")
        BY <2>2 DEF Enqueue
      <3>2. i \notin drop
        BY <2>0, <3>1 DEF Overflow, Waiting
      <3> DEFINE m == [k \in DOMAIN msg |-> IF k \in drop THEN "trimmed" ELSE msg[k]]
      <3>3. m \in [1 .. posted -> {"waiting", "pending", "acked", "trimmed"}] /\ m[i] = "pending"
        BY <2>0, <3>2 DEF TypeOK
      <3>4. msg' = Append(m, "waiting")
        BY <3>1
      <3> HIDE DEF m
      <3>5. i \in DOMAIN msg' /\ msg'[i] = "pending"
        BY <2>0, <3>3, <3>4, AppendType
      <3>6. batch' = batch
        BY <2>2 DEF Enqueue
      <3> QED BY <2>0, <3>5, <3>6, AbandonedStays DEF InBatch
    <2>3. ASSUME NEW p \in Procs, ReadGroup(p)
          PROVE  Abandoned(i)'
      <3>1. PICK b \in Seq(1 .. posted) :
               /\ batch' = [batch EXCEPT ![p] = b]
               /\ \A k \in DOMAIN b : b[k] \in Waiting
               /\ msg' = [j \in DOMAIN msg |->
                             IF \E k \in DOMAIN b : b[k] = j THEN "pending" ELSE msg[j]]
        BY <2>0, <2>3, WhatIsRead
      <3>2. \A k \in DOMAIN b : b[k] # i
        BY <2>0, <3>1 DEF Waiting
      <3>3. batch'[p] = b /\ \A q \in Procs \ {p} : batch'[q] = batch[q]
        BY <2>0, <3>1 DEF TypeOK
      <3>4. \A q \in Procs : ~InBatch(q, i)'
        BY <2>0, <3>2, <3>3 DEF InBatch
      <3> QED BY <2>0, <3>1, <3>4, AbandonedStays
    <2>4. ASSUME NEW p \in Procs, Ack(p)
          PROVE  Abandoned(i)'
      <3>1. batch[p] # <<>>
        BY <2>0, <2>4 DEF Ack, TypeOK
      <3>2. /\ 1 \in DOMAIN batch[p] /\ MsgOf(p) = batch[p][1]
            /\ \A k \in DOMAIN Tail(batch[p]) :
                  k + 1 \in DOMAIN batch[p] /\ Tail(batch[p])[k] = batch[p][k + 1]
        BY <2>0, <3>1, HeadIsTyped
      <3>3. MsgOf(p) # i
        BY <2>0, <3>2 DEF InBatch
      <3>4. i \in DOMAIN msg' /\ msg'[i] = "pending"
        BY <2>0, <2>4, <3>3 DEF Ack
      <3>5. batch'[p] = Tail(batch[p]) /\ \A q \in Procs \ {p} : batch'[q] = batch[q]
        BY <2>0, <2>4 DEF Ack, TypeOK
      <3>6. ASSUME NEW q \in Procs, NEW k \in DOMAIN batch'[q], batch'[q][k] = i
            PROVE  \E l \in DOMAIN batch[q] : batch[q][l] = i
        <4>1. CASE q = p
          <5>1. k + 1 \in DOMAIN batch[p] /\ batch[p][k + 1] = i
            BY <3>2, <3>5, <3>6, <4>1
          <5> QED BY <4>1, <5>1
        <4>2. CASE q # p
          BY <3>5, <3>6, <4>2
        <4> QED BY <4>1, <4>2
      <3>7. \A q \in Procs : InBatch(q, i)' => InBatch(q, i)
        BY <3>6 DEF InBatch
      <3> QED BY <3>4, <3>7, AbandonedStays
    <2>5. ASSUME NEW p \in Procs, Crash(p) \/ ConsumeRaises(p)
          PROVE  Abandoned(i)'
      <3>1. batch' = [batch EXCEPT ![p] = <<>>]
        BY <2>5 DEF Crash, ConsumeRaises
      <3>2. \A q \in Procs : InBatch(q, i)' => InBatch(q, i)
        BY <2>0, <3>1 DEF InBatch, TypeOK
      <3>3. i \in DOMAIN msg' /\ msg'[i] = "pending"
        <4>1. CASE Crash(p)
          BY <2>0, <4>1 DEF Crash, stream
        <4>2. CASE ConsumeRaises(p) /\ pc[p] # "acking"
          BY <2>0, <4>2 DEF ConsumeRaises, Delivered, DeliveredAs
        <4>3. CASE ConsumeRaises(p) /\ pc[p] = "acking"
          <5>1. batch[p] # <<>>
            BY <2>0, <4>3 DEF TypeOK
          <5>2. 1 \in DOMAIN batch[p] /\ MsgOf(p) = batch[p][1]
            BY <2>0, <5>1, HeadIsTyped
          <5>3. MsgOf(p) # i
            BY <2>0, <5>2 DEF InBatch
          <5> QED BY <2>0, <4>3, <5>3 DEF ConsumeRaises
        <4> QED BY <2>5, <4>1, <4>2, <4>3
      <3> QED BY <2>0, <3>2, <3>3, AbandonedStays
    <2>6. ASSUME NEW p \in Procs, RedisFails(p), ~ConsumeRaises(p)
          PROVE  Abandoned(i)'
      BY <2>1, <2>6 DEF RedisFails, ClaimRaises, CompleteRaises, StoreRaises, FailRaises, Hit,
                        stream
    <2> QED
      BY <2>1, <2>2, <2>3, <2>4, <2>5, <2>6
      DEF Next, Produce, Work, Register, ScanPass, ScanFind, RecoverClaim, Started,
          ReclaimPending, LeaveLoop, ReadNothing, BatchDone, ClaimTask, ClaimRefused,
          HandlerReturns, StoreResult, HandlerRaises, FailTask, Start, Stop, ExpireHash,
          ExpireResult, vars, stream
  <1> QED BY <1>1, Invariance, PTL DEF Spec, AbandonedForEver

(* Without create_task no hash is there to be claimed, found by the scan or  *)
(* completed: the queue acknowledges everything it is given and runs none.   *)
THEOREM RunsOnlyRegisteredHolds == Spec => []RunsOnlyRegistered
  <1> DEFINE Idle == Registers \/ \A p \in Procs : pc[p] # "failing"
  <1>1. Init => RunsOnlyRegistered /\ Idle
    BY DEF Init, RunsOnlyRegistered, Exists, Missing
  <1>2. IInv /\ RunsOnlyRegistered /\ Idle /\ [Next]_vars => RunsOnlyRegistered' /\ Idle'
    <2> SUFFICES ASSUME IInv, RunsOnlyRegistered, Idle, [Next]_vars, ~Registers
                 PROVE  /\ \A t \in Tasks : ~Exists(hash'[t])
                        /\ \A p \in Procs : pc'[p] \notin Working
                        /\ \A t \in Tasks : result'[t] = "absent"
      BY DEF RunsOnlyRegistered, Working
    <2>0. /\ TypeOK /\ BatchesHold
          /\ \A t \in Tasks : hash[t].state = "MISSING"
          /\ \A p \in Procs : pc[p] \notin {"handling", "storing", "failing"}
          /\ \A t \in Tasks : result[t] = "absent"
          /\ pc \in [Procs -> Places]
      BY DEF IInv, InFlight, TypeOK, RunsOnlyRegistered, Exists
    <2>1. ASSUME NEW p \in Procs
          PROVE  /\ ~ClaimTask(p) /\ ~HandlerReturns(p) /\ ~HandlerRaises(p) /\ ~StoreResult(p)
                 /\ ~FailTask(p) /\ ~CompleteRaises(p) /\ ~StoreRaises(p) /\ ~FailRaises(p)
                 /\ ClaimRaises(p) => hash' = hash
      <3>1. pc[p] = "next" /\ batch[p] # <<>> => ~CanClaim(hash[TaskOf(p)])
        BY <2>0, HeadIsTyped DEF CanClaim
      <3> QED BY <2>0, <3>1 DEF ClaimTask, HandlerReturns, HandlerRaises, StoreResult, FailTask,
                 CompleteRaises, StoreRaises, FailRaises, ClaimRaises, Begin
    <2>2. ASSUME NEW p \in Procs, RecoverClaim(p)
          PROVE  hash' = hash
      <3>1. \A t \in Tasks : ~CanClaim(hash[t])
        BY <2>0 DEF CanClaim
      <3>2. target[p] \subseteq Tasks /\ hash \in [Tasks -> Hash]
        BY <2>0 DEF TypeOK
      <3> QED BY <2>2, <3>1, <3>2 DEF RecoverClaim
    <2>3. ASSUME NEW t \in Tasks
          PROVE  /\ ~ExpireHash(t) /\ ~ExpireResult(t)
                 /\ \A max \in AttemptLimits : ~Register(t, max)
      BY <2>0 DEF ExpireHash, ExpireResult, Register, Exists
    <2>4. hash' = hash /\ result' = result
      BY <2>1, <2>2, <2>3
      DEF Next, Produce, Work, Enqueue, ScanPass, ScanFind, Started, ReclaimPending,
          RecoverClaim, LeaveLoop, ReadGroup, ReadNothing, BatchDone, ClaimRefused, Ack,
          RedisFails, ClaimRaises, ConsumeRaises, Start, Stop, Crash, vars
    <2>5. \/ pc' = pc
          \/ \E p \in Procs, place \in Places \ Working : Goto(p, place)
      BY <2>1, <2>3
      DEF Next, Produce, Work, Enqueue, ScanPass, ScanFind, RecoverClaim,
          Started, ReclaimPending, LeaveLoop, ReadGroup, ReadNothing, BatchDone,
          ClaimRefused, Ack, RedisFails, ClaimRaises, ConsumeRaises, Start, Stop, Crash,
          vars, Places, Working
    <2> QED BY <2>0, <2>4, <2>5 DEF Goto, Exists, Working
  <1> QED BY <1>1, <1>2, Invariance, PTL DEF Spec
=============================================================================
