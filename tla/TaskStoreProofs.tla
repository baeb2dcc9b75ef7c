-------------------------- MODULE TaskStoreProofs --------------------------
(***************************************************************************)
(* Theorems about TaskStore, for any tasks, executions, names and limits.  *)
(***************************************************************************)
EXTENDS TaskStore, TLAPS

(* What a script leaves behind is a hash again.                             *)
LEMMA ScriptType ==
    ASSUME NEW h \in Hash, NEW w \in Names
    PROVE  /\ Claimed(h, w) \in Hash
           /\ Completed(h) \in Hash
           /\ Released(h) \in Hash
           /\ Failed(h) \in Hash
           /\ Cancelled(h) \in Hash
  <1> USE DEF Hash, States, Terminal
  <1>1. Claimed(h, w) \in Hash /\ Completed(h) \in Hash /\ Cancelled(h) \in Hash
    BY DEF Claimed, Completed, Cancelled, Rewrite
  <1>2. ASSUME NEW g \in Hash PROVE Released(g) \in Hash
    BY <1>2 DEF Released, Rewrite
  <1>3. Failed(h) \in Hash
    <2> DEFINE counted == [h EXCEPT !.attempt = @ + 1]
    <2>1. counted \in Hash
      OBVIOUS
    <2> HIDE DEF counted
    <2>2. [counted EXCEPT !.state = "FAILED"] \in Hash
      BY <2>1
    <2>3. Released(counted) \in Hash
      BY <2>1, <1>2
    <2> QED BY <2>2, <2>3 DEF Failed, counted
  <1> QED BY <1>1, <1>2, <1>3

LEMMA FreshType ==
    Missing \in Hash /\ \A max \in AttemptLimits : Created(max) \in Hash
  BY AttemptLimitsAssumption DEF Missing, Created, Hash, States, Terminal

(* What each script does to state, owner and epoch.                         *)
LEMMA ScriptEffect ==
    ASSUME NEW h \in Hash, NEW w \in Names
    PROVE  /\ Claimed(h, w).state = "RUNNING"
           /\ Claimed(h, w).worker = w
           /\ Claimed(h, w).epoch = h.epoch + 1
           /\ Completed(h).state = "DONE"
           /\ Completed(h).worker = h.worker
           /\ Completed(h).epoch = h.epoch
           /\ Cancelled(h).state = "CANCELLED"
           /\ Cancelled(h).worker = h.worker
           /\ Cancelled(h).epoch = h.epoch
           /\ Released(h).state = "PENDING"
           /\ Released(h).worker = NoName
           /\ Released(h).epoch = h.epoch + 1
           /\ \/ /\ Failed(h).state = "FAILED"
                 /\ Failed(h).worker = h.worker
                 /\ Failed(h).epoch = h.epoch
              \/ /\ Failed(h).state = "PENDING"
                 /\ Failed(h).worker = NoName
                 /\ Failed(h).epoch = h.epoch + 1
  BY DEF Hash, Claimed, Completed, Cancelled, Released, Failed, Rewrite

-----------------------------------------------------------------------------
(* Type correctness, initially and from step to step.                        *)
LEMMA TypeInit == Init => TypeOK
  <1> SUFFICES ASSUME Init PROVE TypeOK
    OBVIOUS
  <1> QED BY FreshType DEF Init, TypeOK, NoJob, NoGrant, PCs

LEMMA TypeKept == ASSUME TypeOK, [Next]_vars PROVE TypeOK'
  <1> USE NameOfAssumption, BoundsAssumption DEF TypeOK
  <1>j. \A t \in Tasks, n \in Nat : Holding(t, n) \in Jobs
    BY DEF Holding, Jobs, Grants
  <1>t. \A e \in Execs : pc[e] # "idle" => TaskOf(e) \in Tasks /\ hash[TaskOf(e)] \in Hash
    BY DEF TaskOf, Jobs, Grants
  <1>1. ASSUME NEW e \in Execs, NEW t \in Tasks, ClaimTask(e, t) PROVE TypeOK'
    <2> DEFINE claimed == Claimed(hash[t], NameOf[e])
    <2>1. claimed \in Hash /\ claimed.epoch \in Nat
      BY ScriptType DEF claimed, Hash
    <2>2. Holding(t, claimed.epoch) \in Jobs
      BY <2>1, <1>j
    <2> HIDE DEF claimed
    <2>3. hash' = [hash EXCEPT ![t] = claimed]
          /\ job' = [job EXCEPT ![e] = Holding(t, claimed.epoch)]
      BY <1>1 DEF ClaimTask, claimed
    <2> QED BY <1>1, <2>1, <2>2, <2>3 DEF ClaimTask, Goto, PCs
  <1>2. ASSUME NEW e \in Execs, NEW t \in Tasks, RecoverFind(e, t) PROVE TypeOK'
    <2>1. Holding(t, hash[t].epoch) \in Jobs
      BY <1>j DEF Hash
    <2> QED BY <1>2, <2>1 DEF RecoverFind, Goto, PCs
  <1>3. ASSUME NEW e \in Execs, ReadClaimedRecord(e) PROVE TypeOK'
    <2>1. hash[TaskOf(e)].epoch \in Nat
      BY <1>3, <1>t DEF ReadClaimedRecord, Hash
    <2>2. [grant |-> job[e].grant, seen |-> hash[TaskOf(e)].epoch] \in Jobs
      BY <1>3, <2>1 DEF ReadClaimedRecord, Jobs
    <2> QED BY <1>3, <2>2 DEF ReadClaimedRecord, Goto, PCs
  <1>5. ASSUME NEW e \in Execs,
               CompleteTask(e) \/ FailTask(e) \/ CancelOwnTask(e) \/ RecoverClaim(e)
        PROVE TypeOK'
    <2> DEFINE h == hash[TaskOf(e)]
    <2>1. pc[e] # "idle" /\ TaskOf(e) \in Tasks /\ h \in Hash
      BY <1>5, <1>t DEF CompleteTask, FailTask, CancelOwnTask, RecoverClaim
    <2>2. /\ Completed(h) \in Hash /\ Cancelled(h) \in Hash
          /\ Claimed(h, NameOf[e]) \in Hash
      BY <2>1, ScriptType
    <2>3. Failed(h) \in Hash
      BY <2>1, ScriptType
    <2>4. CASE CompleteTask(e)
      BY <2>4, <2>1, <2>2 DEF CompleteTask, Goto, PCs
    <2>5. CASE FailTask(e)
      BY <2>5, <2>1, <2>3 DEF FailTask, Leave, Goto, PCs
    <2>6. CASE CancelOwnTask(e)
      BY <2>6, <2>1, <2>2 DEF CancelOwnTask, Leave, Goto, PCs
    <2>7. CASE RecoverClaim(e)
      BY <2>7, <2>1, <2>2 DEF RecoverClaim, Leave, Goto, PCs
    <2> QED BY <1>5, <2>4, <2>5, <2>6, <2>7
  <1>6. ASSUME NEW e \in Execs, StoreResult(e) PROVE TypeOK'
    BY <1>6, <1>t DEF StoreResult, Leave, Goto, PCs, Jobs
  <1>7. ASSUME NEW e \in Execs, OutcomeRefused(e) \/ Crash(e) \/ RecoverRefused(e)
        PROVE TypeOK'
    BY <1>7 DEF OutcomeRefused, Crash, RecoverRefused, Leave, Goto, PCs
  <1>8. ASSUME NEW t \in Tasks, NEW max \in AttemptLimits, CreateTask(t, max)
        PROVE TypeOK'
    BY <1>8, FreshType DEF CreateTask
  <1>9. ASSUME NEW t \in Tasks, NEW name \in Names,
               ExternalFail(t, name) \/ RetryTask(t, name) \/ CancelTask(t, name)
        PROVE TypeOK'
    <2>1. /\ Failed(hash[t]) \in Hash
          /\ Released(hash[t]) \in Hash
          /\ Cancelled(hash[t]) \in Hash
      BY ScriptType
    <2> QED BY <1>9, <2>1 DEF ExternalFail, RetryTask, CancelTask
  <1>10. ASSUME NEW t \in Tasks, DeleteTask(t) \/ ExpireHash(t) \/ ExpireResult(t)
         PROVE TypeOK'
    BY <1>10, FreshType DEF DeleteTask, ExpireHash, ExpireResult
  <1>11. CASE UNCHANGED vars
    BY <1>11 DEF vars
  <1>12. ASSUME NEW e \in Execs, NEW t \in Tasks, ClaimRefused(e, t) PROVE TypeOK'
    BY <1>12 DEF ClaimRefused, vars
  <1> QED BY <1>1, <1>2, <1>3, <1>5, <1>6, <1>7, <1>8, <1>9, <1>10, <1>11, <1>12
          DEF Next, Execution, Outside

(* Type correctness: every hash, key and job stays within its type, and an   *)
(* execution that is not idle holds a grant.                                 *)
THEOREM TypeCorrect == Spec => []TypeOK
  <1>1. TypeOK /\ [Next]_vars => TypeOK'
    BY TypeKept
  <1> QED BY TypeInit, <1>1, PTL DEF Spec

-----------------------------------------------------------------------------
(* What one step can do to one hash, whoever takes it.                      *)
HashStep(t) ==
    LET h == hash[t]
    IN  \/ /\ ~Exists(h)
           /\ \E max \in AttemptLimits : hash'[t] = Created(max)
           /\ lives'[t] = lives[t] + 1
        \/ /\ lives'[t] = lives[t]
           /\ \/ hash'[t] = h
              \/ hash'[t] = Missing
              \/ /\ h.state = "PENDING"
                 /\ \E e \in Execs : /\ pc[e] \in {"idle", "recovering"}
                                   /\ hash'[t] = Claimed(h, NameOf[e])
              \/ /\ h.state = "RUNNING"
                 /\ hash'[t] \in {Completed(h), Failed(h), Released(h)}
              \/ /\ h.state \in {"PENDING", "RUNNING", "CANCELLED"}
                 /\ hash'[t] = Cancelled(h)

LEMMA GoneIsGone == ~Exists(Missing)
  BY DEF Exists, Missing

LEMMA HashStepLemma ==
    ASSUME TypeOK, [Next]_vars
    PROVE  \A t \in Tasks : HashStep(t)
  <1> USE DEF TypeOK
  <1>t. \A e \in Execs : pc[e] # "idle" => TaskOf(e) \in Tasks
    BY DEF TaskOf, Jobs, Grants
  <1>n. \A e \in Execs : NameOf[e] \in Names
    BY NameOfAssumption
  <1>h. \A t \in Tasks : hash[t] \in Hash
    OBVIOUS
  <1>1. ASSUME NEW e \in Execs, NEW u \in Tasks, ClaimTask(e, u)
        PROVE  \A t \in Tasks : HashStep(t)
    BY <1>1, <1>n DEF ClaimTask, CanClaim, HashStep
  <1>2. ASSUME NEW e \in Execs, CompleteTask(e) \/ FailTask(e)
        PROVE  \A t \in Tasks : HashStep(t)
    BY <1>2, <1>t DEF CompleteTask, FailTask, OwnedBy, HashStep
  <1>3. ASSUME NEW e \in Execs, CancelOwnTask(e)
        PROVE  \A t \in Tasks : HashStep(t)
    <2>1. hash[TaskOf(e)].state \in {"PENDING", "RUNNING", "CANCELLED"}
      BY <1>3, <1>t, <1>h DEF CancelOwnTask, CanCancel, Hash, States, Terminal
    <2> QED BY <1>3, <1>t, <2>1 DEF CancelOwnTask, HashStep
  <1>4. ASSUME NEW e \in Execs, RecoverClaim(e)
        PROVE  \A t \in Tasks : HashStep(t)
    BY <1>4, <1>t, <1>n DEF RecoverClaim, CanClaim, HashStep
  <1>5. ASSUME NEW u \in Tasks, NEW max \in AttemptLimits, CreateTask(u, max)
        PROVE  \A t \in Tasks : HashStep(t)
    BY <1>5 DEF CreateTask, HashStep
  <1>6. ASSUME NEW u \in Tasks, NEW name \in Names,
               ExternalFail(u, name) \/ RetryTask(u, name)
        PROVE  \A t \in Tasks : HashStep(t)
    BY <1>6 DEF ExternalFail, RetryTask, OwnedBy, HashStep
  <1>7. ASSUME NEW u \in Tasks, NEW name \in Names, CancelTask(u, name)
        PROVE  \A t \in Tasks : HashStep(t)
    <2>1. hash[u].state \in {"PENDING", "RUNNING", "CANCELLED"}
      BY <1>7, <1>h DEF CancelTask, CanCancel, Hash, States, Terminal
    <2> QED BY <1>7, <2>1 DEF CancelTask, HashStep
  <1>8. ASSUME NEW u \in Tasks, DeleteTask(u) \/ ExpireHash(u)
        PROVE  \A t \in Tasks : HashStep(t)
    BY <1>8 DEF DeleteTask, ExpireHash, HashStep
  <1>9. ASSUME UNCHANGED <<hash, lives>>
        PROVE  \A t \in Tasks : HashStep(t)
    BY <1>9 DEF HashStep
  <1> QED
    BY <1>1, <1>2, <1>3, <1>4, <1>5, <1>6, <1>7, <1>8, <1>9
    DEF Next, Execution, Outside, ClaimRefused, RecoverFind, ReadClaimedRecord,
        StoreResult, OutcomeRefused, Crash, RecoverRefused,
        ExpireResult, vars

(* In what survives a step the epoch does not fall, and a change of owner    *)
(* raises it; a hash that was not there has begun a new life.                *)
LEMMA EpochKept ==
    ASSUME TypeOK, [Next]_vars, NEW t \in Tasks, Exists(hash'[t])
    PROVE  \/ ~Exists(hash[t]) /\ lives'[t] = lives[t] + 1
           \/ /\ Exists(hash[t])
              /\ lives'[t] = lives[t]
              /\ hash'[t].epoch >= hash[t].epoch
              /\ hash'[t].worker # hash[t].worker => hash'[t].epoch > hash[t].epoch
  <1> DEFINE h == hash[t]
             Fenced(k) == k.epoch >= h.epoch /\ (k.worker # h.worker => k.epoch > h.epoch)
  <1>1. HashStep(t)
    BY HashStepLemma
  <1>2. h \in Hash /\ h.epoch \in Nat
    BY DEF TypeOK, Hash
  <1>3. \A e \in Execs : Fenced(Claimed(h, NameOf[e]))
    BY <1>2, NameOfAssumption, ScriptEffect
  <1>4. Fenced(Completed(h)) /\ Fenced(Cancelled(h))
    BY <1>2 DEF Completed, Cancelled, Hash
  <1>5. Fenced(Released(h))
    BY <1>2 DEF Released, Rewrite
  <1>6. Fenced(Failed(h))
    BY <1>2 DEF Failed, Released, Rewrite, Hash
  <1>7. Fenced(h)
    BY <1>2
  <1>8. ASSUME Exists(h), lives'[t] = lives[t]
        PROVE  Fenced(hash'[t])
    <2> HIDE DEF Fenced
    <2> QED BY <1>1, <1>2, <1>3, <1>4, <1>5, <1>6, <1>7, <1>8, GoneIsGone DEF HashStep
  <1>9. ~Exists(h) => h.state = "MISSING"
    BY DEF Exists
  <1>10. CASE Exists(h)
    <2>1. lives'[t] = lives[t]
      BY <1>1, <1>10 DEF HashStep
    <2> QED BY <1>8, <1>10, <2>1
  <1>11. CASE ~Exists(h)
    BY <1>1, <1>9, <1>11, GoneIsGone DEF HashStep, Exists
  <1> QED BY <1>10, <1>11

(* The epoch is a fence: it never falls, and rises when the owner changes.   *)
THEOREM EpochFenceHolds == Spec => EpochFence
  <1>1. TypeOK /\ [Next]_vars => EpochFenced
    <2> SUFFICES ASSUME TypeOK, [Next]_vars, NEW t \in Tasks,
                        Exists(hash[t]), Exists(hash'[t])
                 PROVE  /\ hash'[t].epoch >= hash[t].epoch
                        /\ hash'[t].worker # hash[t].worker
                             => hash'[t].epoch > hash[t].epoch
      BY DEF EpochFenced
    <2> QED BY EpochKept
  <1> QED BY <1>1, TypeCorrect, PTL DEF Spec, EpochFence

LEMMA TerminalStep ==
    ASSUME TypeOK, [Next]_vars, NEW t \in Tasks, hash[t].state \in Terminal
    PROVE  hash'[t] = hash[t] \/ ~Exists(hash'[t])
  <1>1. HashStep(t)
    BY HashStepLemma
  <1>2. hash[t] \in Hash
    BY DEF TypeOK
  <1>3. hash[t].state = "CANCELLED" => Cancelled(hash[t]) = hash[t]
    BY <1>2 DEF Cancelled, Hash
  <1> QED BY <1>1, <1>3, GoneIsGone DEF HashStep, Terminal, Exists

(* A task that reached DONE, FAILED or CANCELLED is never changed again.     *)
THEOREM TerminalIsFinalHolds == Spec => TerminalIsFinal
  <1>1. TypeOK /\ [Next]_vars => TerminalKept
    BY TerminalStep DEF TerminalKept
  <1> QED BY <1>1, TypeCorrect, PTL DEF Spec, TerminalIsFinal

-----------------------------------------------------------------------------
(* How the grants of working executions change in one step: only a claim     *)
(* makes a new one, and only the claiming execution is affected by it.       *)
GrantsKept(E) ==
    \A e \in E : pc'[e] \in Working =>
        /\ pc[e] \in Working
        /\ job'[e].grant = job[e].grant
        /\ TaskOf(e)' = TaskOf(e)
        /\ pc'[e] \in {"claimed", "running"} => pc[e] \in {"claimed", "running"}

LEMMA GrantStep ==
    ASSUME TypeOK, [Next]_vars
    PROVE  \/ GrantsKept(Execs)
           \/ \E e \in Execs, t \in Tasks :
                 /\ GrantsKept(Execs \ {e})
                 /\ ClaimTask(e, t)
                 /\ pc'[e] = "claimed"
                 /\ job'[e].grant =
                      [task |-> t, life |-> lives[t], epoch |-> hash[t].epoch + 1]
                 /\ hash'[t] = Claimed(hash[t], NameOf[e])
                 /\ lives' = lives
  <1> USE DEF TypeOK, GrantsKept, Working, TaskOf
  <1>1. ASSUME NEW e \in Execs, NEW t \in Tasks, ClaimTask(e, t)
        PROVE  /\ GrantsKept(Execs \ {e})
               /\ pc'[e] = "claimed"
               /\ job'[e].grant =
                    [task |-> t, life |-> lives[t], epoch |-> hash[t].epoch + 1]
               /\ hash'[t] = Claimed(hash[t], NameOf[e])
               /\ lives' = lives
    <2>1. Claimed(hash[t], NameOf[e]).epoch = hash[t].epoch + 1
      BY NameOfAssumption, ScriptEffect
    <2> QED BY <1>1, <2>1 DEF ClaimTask, Goto, Holding
  <1>2. ASSUME NEW e \in Execs, NEW t \in Tasks, RecoverFind(e, t)
        PROVE  GrantsKept(Execs)
    BY <1>2 DEF RecoverFind, Goto
  <1>3. ASSUME NEW e \in Execs, ReadClaimedRecord(e)
        PROVE  GrantsKept(Execs)
    BY <1>3 DEF ReadClaimedRecord, Goto
  <1>4. ASSUME NEW e \in Execs, CompleteTask(e)
        PROVE  GrantsKept(Execs)
    BY <1>4 DEF CompleteTask, Goto
  <1>5. ASSUME NEW e \in Execs, Leave(e)
        PROVE  GrantsKept(Execs)
    BY <1>5 DEF Leave, Goto
  <1>6. ASSUME UNCHANGED <<pc, job>>
        PROVE  GrantsKept(Execs)
    BY <1>6
  <1> QED
    <2> HIDE DEF TypeOK, GrantsKept, Working, TaskOf
    <2> QED BY <1>1, <1>2, <1>3, <1>4, <1>5, <1>6
            DEF Next, Execution, Outside, ClaimRefused, StoreResult,
                FailTask, CancelOwnTask, OutcomeRefused, Crash, RecoverClaim,
                RecoverRefused, CreateTask, ExternalFail, RetryTask, CancelTask,
                DeleteTask, ExpireHash, ExpireResult, vars

(* Grants come from the past: no grant is of a later life of its task than   *)
(* the present one, nor of a later epoch while that life's hash is there.    *)
NotAhead(g, life, h) ==
    /\ g.life <= life
    /\ g.life = life /\ Exists(h) => g.epoch <= h.epoch

GrantBound ==
    \A e \in Execs : pc[e] \in Working =>
        NotAhead(job[e].grant, lives[TaskOf(e)], hash[TaskOf(e)])

GrantInv == TypeOK /\ GrantBound /\ UniqueGrant

LEMMA NotAheadKept ==
    ASSUME TypeOK, [Next]_vars, NEW g \in Grants,
           NotAhead(g, lives[g.task], hash[g.task])
    PROVE  NotAhead(g, lives'[g.task], hash'[g.task])
  <1> DEFINE t == g.task
  <1>1. t \in Tasks /\ g.life \in Nat /\ g.epoch \in Nat
    BY DEF Grants
  <1>2. HashStep(t) /\ lives[t] \in Nat /\ lives'[t] \in Nat
    BY <1>1, HashStepLemma DEF HashStep, TypeOK
  <1>3. lives'[t] \in {lives[t], lives[t] + 1}
    BY <1>2 DEF HashStep
  <1>4. g.life <= lives'[t]
    BY <1>1, <1>2, <1>3 DEF NotAhead
  <1>5. ASSUME g.life = lives'[t], Exists(hash'[t])
        PROVE  g.epoch <= hash'[t].epoch
    <2>1. g.life = lives[t] /\ lives'[t] = lives[t]
      BY <1>1, <1>2, <1>3, <1>5 DEF NotAhead
    <2>2. Exists(hash[t]) /\ hash'[t].epoch >= hash[t].epoch
      BY <1>1, <1>2, <1>5, <2>1, EpochKept
    <2>3. hash[t].epoch \in Nat /\ hash'[t].epoch \in Nat
      BY <1>1, TypeKept DEF TypeOK, Hash
    <2> QED BY <1>1, <2>1, <2>2, <2>3 DEF NotAhead
  <1> QED BY <1>4, <1>5 DEF NotAhead

LEMMA GrantInit == Init => GrantInv
  BY TypeInit DEF Init, GrantInv, GrantBound, UniqueGrant, Working

LEMMA GrantKept == ASSUME GrantInv, [Next]_vars PROVE GrantInv'
  <1>t. TypeOK /\ TypeOK'
    BY TypeKept DEF GrantInv
  <1>g. \A e \in Execs : pc[e] \in Working => job[e].grant \in Grants
    BY <1>t DEF TypeOK, Working, Jobs
  <1>n. \A e \in Execs : pc[e] \in Working =>
                      NotAhead(job[e].grant, lives'[TaskOf(e)], hash'[TaskOf(e)])
    BY <1>t, <1>g, NotAheadKept DEF GrantInv, GrantBound, TaskOf
  <1>1. CASE GrantsKept(Execs)
    <2>1. GrantBound'
      BY <1>1, <1>n DEF GrantsKept, GrantBound
    <2>2. UniqueGrant'
      BY <1>1 DEF GrantsKept, GrantInv, UniqueGrant, Working
    <2> QED BY <1>t, <2>1, <2>2 DEF GrantInv
  <1>2. ASSUME NEW e \in Execs, NEW t \in Tasks,
               GrantsKept(Execs \ {e}),
               ClaimTask(e, t),
               job'[e].grant =
                 [task |-> t, life |-> lives[t], epoch |-> hash[t].epoch + 1],
               hash'[t] = Claimed(hash[t], NameOf[e]),
               lives' = lives
        PROVE  GrantInv'
    <2> DEFINE fresh == [task |-> t, life |-> lives[t], epoch |-> hash[t].epoch + 1]
    <2>1. hash[t] \in Hash /\ hash[t].epoch \in Nat /\ lives[t] \in Nat
      BY <1>t DEF TypeOK, Hash
    <2>2. hash'[t].epoch = hash[t].epoch + 1
      BY <1>2, <2>1, NameOfAssumption, ScriptEffect
    <2>3. NotAhead(fresh, lives'[t], hash'[t])
      BY <1>2, <2>1, <2>2 DEF NotAhead
    <2>4. GrantBound'
      <3>1. TaskOf(e)' = t /\ job'[e].grant = fresh
        BY <1>2 DEF TaskOf
      <3>2. NotAhead(job'[e].grant, lives'[TaskOf(e)'], hash'[TaskOf(e)'])
        BY <2>3, <3>1
      <3>3. ASSUME NEW f \in Execs \ {e}, pc'[f] \in Working
            PROVE  NotAhead(job'[f].grant, lives'[TaskOf(f)'], hash'[TaskOf(f)'])
        BY <1>2, <1>n, <3>3 DEF GrantsKept
      <3> QED BY <3>2, <3>3 DEF GrantBound, TaskOf
    <2>5. \A f \in Execs : pc[f] \in Working => job[f].grant # fresh
      <3> SUFFICES ASSUME NEW f \in Execs, pc[f] \in Working, job[f].grant = fresh
                   PROVE  FALSE
        OBVIOUS
      <3>1. Exists(hash[t])
        BY <1>2 DEF ClaimTask, CanClaim, Exists
      <3>2. NotAhead(fresh, lives[t], hash[t])
        BY DEF GrantInv, GrantBound, TaskOf
      <3> QED BY <2>1, <3>1, <3>2 DEF NotAhead
    <2>6. UniqueGrant'
      BY <1>2, <2>5 DEF GrantsKept, GrantInv, UniqueGrant, Working
    <2> QED BY <1>t, <2>4, <2>6 DEF GrantInv
  <1> QED BY <1>t, <1>1, <1>2, GrantStep

(* Two claims of one task in one life never get the same epoch, so no two    *)
(* executions hold the same grant.                                           *)
THEOREM UniqueGrantHolds == Spec => []UniqueGrant
  <1>1. GrantInv /\ [Next]_vars => GrantInv'
    BY GrantKept
  <1>2. GrantInv => UniqueGrant
    BY DEF GrantInv
  <1> QED BY GrantInit, <1>1, <1>2, PTL DEF Spec

-----------------------------------------------------------------------------
(* The remaining theorems assume what the code needs and does not enforce:   *)
(* no two executions present themselves under one worker name.               *)
OwnNamesOnly == \A e, f \in Execs : NameOf[e] = NameOf[f] => e = f

(* A hash owned by a working execution with a name of its own was owned by   *)
(* it before, and is as it was.                                              *)
LEMMA OwnedKept ==
    ASSUME TypeOK, [Next]_vars, OwnNamesOnly,
           NEW t \in Tasks, NEW f \in Execs, pc[f] \in Working,
           OwnedBy(hash'[t], NameOf[f])
    PROVE  hash'[t] = hash[t] /\ lives'[t] = lives[t]
  <1>1. HashStep(t) /\ lives[t] \in Nat
    BY HashStepLemma DEF TypeOK
  <1>2. hash[t] \in Hash /\ NameOf[f] \in Names
    BY NameOfAssumption DEF TypeOK
  <1>3. \A max \in AttemptLimits : ~OwnedBy(Created(max), NameOf[f])
    BY DEF Created, OwnedBy
  <1>4. ASSUME NEW e \in Execs, pc[e] \in {"idle", "recovering"}
        PROVE  ~OwnedBy(Claimed(hash[t], NameOf[e]), NameOf[f])
    <2>1. e # f
      BY <1>4 DEF Working
    <2>2. NameOf[e] # NameOf[f]
      BY <2>1 DEF OwnNamesOnly
    <2> QED BY <2>2 DEF Claimed, Rewrite, OwnedBy
  <1>5. /\ Completed(hash[t]).state # "RUNNING"
        /\ Released(hash[t]).state # "RUNNING"
        /\ Cancelled(hash[t]).state # "RUNNING"
        /\ Failed(hash[t]).state # "RUNNING"
    BY <1>2, ScriptEffect
  <1>6. hash'[t].state = "RUNNING" /\ Exists(hash'[t])
    BY DEF OwnedBy, Exists
  <1> QED BY <1>1, <1>3, <1>4, <1>5, <1>6, GoneIsGone DEF HashStep

(* Who comes to store an answer, and where answers come from.                *)
LEMMA AnswerStep ==
    ASSUME TypeOK, [Next]_vars
    PROVE  /\ \A e \in Execs : pc'[e] = "storing" =>
                /\ job'[e].grant = job[e].grant
                /\ pc[e] = "storing" \/ CompleteTask(e)
           /\ \A t \in Tasks :
                \/ result'[t] \in {result[t], NoGrant}
                \/ \E e \in Execs : /\ pc[e] = "storing"
                                    /\ TaskOf(e) = t
                                    /\ result'[t] = job[e].grant
  <1> USE DEF TypeOK
  <1>1. ASSUME NEW u \in Execs, Leave(u)
        PROVE  \A e \in Execs : pc'[e] = "storing" =>
                  pc[e] = "storing" /\ job'[e].grant = job[e].grant
    BY <1>1 DEF Leave, Goto
  <1>2. ASSUME NEW u \in Execs,
               \/ \E t \in Tasks : ClaimTask(u, t) \/ RecoverFind(u, t)
               \/ ReadClaimedRecord(u)
        PROVE  \A e \in Execs : pc'[e] = "storing" =>
                  pc[e] = "storing" /\ job'[e].grant = job[e].grant
    BY <1>2 DEF ClaimTask, RecoverFind, ReadClaimedRecord, Goto
  <1>3. ASSUME NEW u \in Execs, CompleteTask(u)
        PROVE  \A e \in Execs : pc'[e] = "storing" =>
                  /\ job'[e].grant = job[e].grant
                  /\ pc[e] = "storing" \/ CompleteTask(e)
    BY <1>3 DEF CompleteTask, Goto
  <1>4. \A e \in Execs : pc'[e] = "storing" =>
            /\ job'[e].grant = job[e].grant
            /\ pc[e] = "storing" \/ CompleteTask(e)
    <2> HIDE DEF TypeOK
    <2> QED BY <1>1, <1>2, <1>3
        DEF Next, Execution, Outside, ClaimRefused, StoreResult,
            FailTask, CancelOwnTask, OutcomeRefused, Crash, RecoverClaim,
            RecoverRefused, CreateTask, ExternalFail, RetryTask, CancelTask,
            DeleteTask, ExpireHash, ExpireResult, vars
  <1>5. ASSUME NEW u \in Execs, StoreResult(u)
        PROVE  \A t \in Tasks :
                  \/ result'[t] \in {result[t], NoGrant}
                  \/ \E e \in Execs : /\ pc[e] = "storing"
                                      /\ TaskOf(e) = t
                                      /\ result'[t] = job[e].grant
    BY <1>5 DEF StoreResult
  <1>6. ASSUME NEW u \in Tasks, DeleteTask(u) \/ ExpireResult(u)
        PROVE  \A t \in Tasks : result'[t] \in {result[t], NoGrant}
    BY <1>6 DEF DeleteTask, ExpireResult
  <1>7. \A t \in Tasks :
            \/ result'[t] \in {result[t], NoGrant}
            \/ \E e \in Execs : /\ pc[e] = "storing"
                                /\ TaskOf(e) = t
                                /\ result'[t] = job[e].grant
    <2> HIDE DEF TypeOK
    <2> QED BY <1>5, <1>6
        DEF Next, Execution, Outside, ClaimTask, ClaimRefused, RecoverFind,
            ReadClaimedRecord, CompleteTask, FailTask, CancelOwnTask,
            OutcomeRefused, Crash, RecoverClaim, RecoverRefused, CreateTask,
            ExternalFail, RetryTask, CancelTask, ExpireHash, vars
  <1> QED BY <1>4, <1>7

(* What a grant is once its task was completed under it: as long as its life *)
(* of the task lasts and the hash is there, the task is DONE at its epoch.   *)
Finished(g, life, h) ==
    g.life = life /\ Exists(h) => h.state = "DONE" /\ g.epoch = h.epoch

StoringOwns ==
    \A e \in Execs : pc[e] = "storing" =>
        Finished(job[e].grant, lives[TaskOf(e)], hash[TaskOf(e)])

ResultPast ==
    \A t \in Tasks : result[t] # NoGrant =>
        /\ result[t] \in Grants
        /\ result[t].task = t
        /\ result[t].life <= lives[t]
        /\ Finished(result[t], lives[t], hash[t])

OwnInv == GrantInv /\ StaleExecutionRefused /\ StoringOwns /\ ResultPast

LEMMA FinishedKept ==
    ASSUME TypeOK, [Next]_vars, NEW t \in Tasks, NEW g \in Grants,
           g.life <= lives[t], Finished(g, lives[t], hash[t])
    PROVE  g.life <= lives'[t] /\ Finished(g, lives'[t], hash'[t])
  <1>1. lives[t] \in Nat /\ g.life \in Nat /\ HashStep(t)
    BY HashStepLemma DEF TypeOK, Grants
  <1>2. lives'[t] \in {lives[t], lives[t] + 1}
    BY <1>1 DEF HashStep
  <1>3. ASSUME g.life = lives'[t], Exists(hash'[t])
        PROVE  hash'[t].state = "DONE" /\ g.epoch = hash'[t].epoch
    <2>1. Exists(hash[t]) /\ lives'[t] = lives[t]
      BY <1>1, <1>3, EpochKept
    <2>2. hash[t].state = "DONE" /\ g.epoch = hash[t].epoch
      BY <1>3, <2>1 DEF Finished
    <2>3. hash'[t] = hash[t]
      BY <1>3, <2>2, TerminalStep DEF Terminal
    <2> QED BY <2>2, <2>3
  <1> QED BY <1>1, <1>2, <1>3 DEF Finished

LEMMA OwnInit == Init => OwnInv
  <1> SUFFICES ASSUME Init PROVE OwnInv
    OBVIOUS
  <1>1. StaleExecutionRefused /\ StoringOwns /\ ResultPast
    BY DEF Init, StaleExecutionRefused, StoringOwns, ResultPast
  <1> QED BY <1>1, GrantInit DEF OwnInv

LEMMA OwnKept == ASSUME OwnNamesOnly, OwnInv, [Next]_vars PROVE OwnInv'
  <1>t. TypeOK /\ TypeOK' /\ GrantInv /\ GrantInv'
    BY GrantKept DEF OwnInv, GrantInv
  <1>g. \A e \in Execs : pc[e] \in Working =>
            /\ job[e].grant \in Grants
            /\ TaskOf(e) = job[e].grant.task
            /\ TaskOf(e) \in Tasks
            /\ job[e].grant.life <= lives[TaskOf(e)]
    BY <1>t DEF TypeOK, Working, Jobs, Grants, TaskOf, GrantInv, GrantBound, NotAhead
  <1>1. StaleExecutionRefused'
    <2>1. ASSUME NEW E \in SUBSET Execs, GrantsKept(E),
                 NEW f \in E, pc'[f] \in {"claimed", "running"}
          PROVE  OwnedBy(hash'[TaskOf(f)'], NameOf[f])
                   => job'[f].grant = [task |-> TaskOf(f)', life |-> lives'[TaskOf(f)'],
                                       epoch |-> hash'[TaskOf(f)'].epoch]
      <3> SUFFICES ASSUME OwnedBy(hash'[TaskOf(f)'], NameOf[f])
                   PROVE  job'[f].grant = [task |-> TaskOf(f)', life |-> lives'[TaskOf(f)'],
                                           epoch |-> hash'[TaskOf(f)'].epoch]
        OBVIOUS
      <3>1. /\ pc[f] \in {"claimed", "running"}
            /\ pc[f] \in Working
            /\ job'[f].grant = job[f].grant
            /\ TaskOf(f)' = TaskOf(f)
        BY <2>1 DEF GrantsKept, Working
      <3>2. /\ hash'[TaskOf(f)] = hash[TaskOf(f)]
            /\ lives'[TaskOf(f)] = lives[TaskOf(f)]
        BY <1>t, <1>g, <3>1, OwnedKept
      <3>3. job[f].grant = Current(TaskOf(f))
        BY <3>1, <3>2 DEF OwnInv, StaleExecutionRefused
      <3> QED BY <3>1, <3>2, <3>3 DEF Current
    <2>2. CASE GrantsKept(Execs)
      BY <2>1, <2>2 DEF StaleExecutionRefused, Current, TaskOf
    <2>3. ASSUME NEW e \in Execs, NEW t \in Tasks,
                 GrantsKept(Execs \ {e}),
                 job'[e].grant =
                   [task |-> t, life |-> lives[t], epoch |-> hash[t].epoch + 1],
                 hash'[t] = Claimed(hash[t], NameOf[e]),
                 lives' = lives
          PROVE  StaleExecutionRefused'
      <3>1. hash'[t].epoch = hash[t].epoch + 1 /\ TaskOf(e)' = t
        BY <1>t, <2>3, NameOfAssumption, ScriptEffect DEF TypeOK, TaskOf
      <3>2. job'[e].grant = [task |-> TaskOf(e)', life |-> lives'[TaskOf(e)'],
                             epoch |-> hash'[TaskOf(e)'].epoch]
        BY <2>3, <3>1
      <3> QED BY <2>1, <2>3, <3>2 DEF StaleExecutionRefused, Current, TaskOf
    <2> QED BY <1>t, <2>2, <2>3, GrantStep
  <1>2. StoringOwns'
    <2> SUFFICES ASSUME NEW e \in Execs, pc'[e] = "storing"
                 PROVE  Finished(job'[e].grant, lives'[TaskOf(e)'], hash'[TaskOf(e)'])
      BY DEF StoringOwns, Finished, TaskOf, Exists
    <2>1. /\ job'[e].grant = job[e].grant
          /\ TaskOf(e)' = TaskOf(e)
          /\ pc[e] = "storing" \/ CompleteTask(e)
      BY <1>t, AnswerStep DEF TaskOf
    <2>2. CASE pc[e] = "storing"
      BY <1>t, <1>g, <2>1, <2>2, FinishedKept DEF OwnInv, StoringOwns, Working
    <2>3. CASE CompleteTask(e)
      <3>1. job[e].grant = Current(TaskOf(e)) /\ TaskOf(e) \in Tasks
        BY <1>g, <2>3 DEF CompleteTask, OwnInv, StaleExecutionRefused, Working
      <3>2. hash'[TaskOf(e)] = Completed(hash[TaskOf(e)])
        BY <1>t, <2>3, <3>1 DEF CompleteTask, TypeOK
      <3>3. /\ hash'[TaskOf(e)].state = "DONE"
            /\ hash'[TaskOf(e)].epoch = hash[TaskOf(e)].epoch
        BY <1>t, <3>1, <3>2 DEF Completed, TypeOK, Hash
      <3> QED BY <2>1, <3>1, <3>3 DEF Current, Finished
    <2> QED BY <2>1, <2>2, <2>3
  <1>3. ResultPast'
    <2> SUFFICES ASSUME NEW t \in Tasks, result'[t] # NoGrant
                 PROVE  /\ result'[t] \in Grants
                        /\ result'[t].task = t
                        /\ result'[t].life <= lives'[t]
                        /\ Finished(result'[t], lives'[t], hash'[t])
      BY DEF ResultPast, Finished, Exists
    <2>1. /\ result'[t] \in Grants
          /\ result'[t].task = t
          /\ result'[t].life <= lives[t]
          /\ Finished(result'[t], lives[t], hash[t])
      <3>1. CASE result'[t] = result[t]
        BY <3>1 DEF OwnInv, ResultPast
      <3>2. ASSUME NEW e \in Execs, pc[e] = "storing", TaskOf(e) = t,
                   result'[t] = job[e].grant
            PROVE  /\ result'[t] \in Grants
                   /\ result'[t].task = t
                   /\ result'[t].life <= lives[t]
                   /\ Finished(result'[t], lives[t], hash[t])
        BY <1>g, <3>2 DEF OwnInv, StoringOwns, Working
      <3> QED BY <1>t, <3>1, <3>2, AnswerStep
    <2> QED BY <1>t, <2>1, FinishedKept
  <1> QED BY <1>t, <1>1, <1>2, <1>3 DEF OwnInv

(* With worker names of their own, a stale execution's report is refused:    *)
(* the name comparison of complete_task and fail_task is then as good as a   *)
(* comparison of epochs.                                                     *)
THEOREM StaleExecutionRefusedHolds ==
    ASSUME OwnNamesOnly
    PROVE  Spec => []StaleExecutionRefused
  <1>1. OwnInv /\ [Next]_vars => OwnInv'
    BY OwnKept
  <1>2. OwnInv => StaleExecutionRefused
    BY DEF OwnInv
  <1> QED BY OwnInit, <1>1, <1>2, PTL DEF Spec

(* Who is at work after a step: an execution that has just read its record,  *)
(* or one that was at work before.                                           *)
LEMMA RunningStep ==
    ASSUME TypeOK, [Next]_vars, NEW e \in Execs, pc'[e] = "running"
    PROVE  \/ ReadClaimedRecord(e)
           \/ pc[e] = "running" /\ job'[e] = job[e]
  <1> USE DEF TypeOK
  <1>1. ASSUME NEW u \in Execs, Leave(u)
        PROVE  pc[e] = "running" /\ job'[e] = job[e]
    BY <1>1 DEF Leave, Goto
  <1>2. ASSUME NEW u \in Execs, NEW t \in Tasks, ClaimTask(u, t) \/ RecoverFind(u, t)
        PROVE  pc[e] = "running" /\ job'[e] = job[e]
    BY <1>2 DEF ClaimTask, RecoverFind, Goto
  <1>3. ASSUME NEW u \in Execs, ReadClaimedRecord(u), u # e
        PROVE  pc[e] = "running" /\ job'[e] = job[e]
    BY <1>3 DEF ReadClaimedRecord, Goto
  <1>4. ASSUME NEW u \in Execs, CompleteTask(u)
        PROVE  pc[e] = "running" /\ job'[e] = job[e]
    BY <1>4 DEF CompleteTask, Goto
  <1>5. ASSUME UNCHANGED <<pc, job>>
        PROVE  pc[e] = "running" /\ job'[e] = job[e]
    BY <1>5
  <1> HIDE DEF TypeOK
  <1> QED BY <1>1, <1>2, <1>3, <1>4, <1>5
          DEF Next, Execution, Outside, ClaimRefused, StoreResult,
              FailTask, CancelOwnTask, OutcomeRefused, Crash, RecoverClaim,
              RecoverRefused, CreateTask, ExternalFail, RetryTask, CancelTask,
              DeleteTask, ExpireHash, ExpireResult, vars

(* A record that is read at the moment of ownership shows the epoch of the   *)
(* claim, and ownership, once lost, is never had again.                      *)
RecordInv == OwnInv /\ ForeignRecordIsRefused

LEMMA RecordKept == ASSUME OwnNamesOnly, RecordInv, [Next]_vars PROVE RecordInv'
  <1>t. TypeOK /\ OwnInv' /\ TypeOK'
    BY OwnKept DEF RecordInv, OwnInv, GrantInv
  <1> SUFFICES ASSUME NEW e \in Execs, pc'[e] = "running",
                      OwnedBy(hash'[TaskOf(e)'], NameOf[e])
               PROVE  job'[e].seen = job'[e].grant.epoch
    BY <1>t DEF RecordInv, ForeignRecordIsRefused, OwnedBy, TaskOf
  <1>1. CASE ReadClaimedRecord(e)
    <2>1. /\ pc[e] = "claimed" /\ e \in Execs
          /\ job'[e] = [grant |-> job[e].grant, seen |-> hash[TaskOf(e)].epoch]
          /\ hash' = hash
      BY <1>1, <1>t DEF ReadClaimedRecord, TypeOK
    <2>2. TaskOf(e)' = TaskOf(e)
      BY <2>1 DEF TaskOf
    <2>3. job[e].grant = Current(TaskOf(e))
      BY <2>1, <2>2 DEF RecordInv, OwnInv, StaleExecutionRefused
    <2> QED BY <2>1, <2>3 DEF Current
  <1>2. CASE ~ReadClaimedRecord(e)
    <2>1. pc[e] = "running" /\ job'[e] = job[e]
      BY <1>2, <1>t, RunningStep
    <2>2. TaskOf(e)' = TaskOf(e) /\ TaskOf(e) \in Tasks
      BY <1>t, <2>1 DEF TaskOf, TypeOK, Jobs, Grants
    <2>3. OwnedBy(hash[TaskOf(e)], NameOf[e])
      BY <1>t, <2>1, <2>2, OwnedKept DEF Working
    <2> QED BY <2>1, <2>3 DEF RecordInv, ForeignRecordIsRefused
  <1> QED BY <1>1, <1>2

(* With worker names of their own, whoever was given a foreign record by     *)
(* claim_task is refused when it reports.                                    *)
THEOREM ForeignRecordIsRefusedHolds ==
    ASSUME OwnNamesOnly
    PROVE  Spec => []ForeignRecordIsRefused
  <1>1. Init => RecordInv
    BY OwnInit DEF Init, RecordInv, ForeignRecordIsRefused
  <1>2. RecordInv /\ [Next]_vars => RecordInv'
    BY RecordKept
  <1>3. RecordInv => ForeignRecordIsRefused
    BY DEF RecordInv
  <1> QED BY <1>1, <1>2, <1>3, PTL DEF Spec

(* With worker names of their own, the result seen beside a task's hash is   *)
(* the one of the execution that completed it, under its last epoch.         *)
THEOREM ResultOfOwnerHolds ==
    ASSUME OwnNamesOnly
    PROVE  Spec => []ResultOfOwner
  <1>1. OwnInv /\ [Next]_vars => OwnInv'
    BY OwnKept
  <1>2. OwnInv => ResultOfOwner
    <2> SUFFICES ASSUME OwnInv, NEW t \in Tasks, result[t] # NoGrant,
                        result[t].life = lives[t], Exists(hash[t])
                 PROVE  hash[t].state = "DONE" /\ result[t] = Current(t)
      BY DEF ResultOfOwner
    <2> QED BY DEF OwnInv, ResultPast, Finished, Current, Grants
  <1> QED BY OwnInit, <1>1, <1>2, PTL DEF Spec

-----------------------------------------------------------------------------
(* The refinement of TaskLifecycle: what one step does to the debts and the  *)
(* answers, then the step of the abstract store that each step is.           *)
Debt(e) == [by |-> e, task |-> TaskOf(e), ticket |-> job[e].grant.epoch]

Owed == {Debt(e) : e \in {x \in Execs : pc[x] = "storing"}}

Answer == [t \in Tasks |-> IF result[t] = NoGrant THEN 0 ELSE result[t].epoch]

NextOrStutter == Lifecycle!Next \/ UNCHANGED Lifecycle!vars

LEMMA OthersKept ==
    ASSUME NEW e \in Execs,
           \A x \in Execs \ {e} : pc'[x] = pc[x] /\ job'[x] = job[x]
    PROVE  /\ pc[e] # "storing" /\ pc'[e] # "storing" => Owed' = Owed
           /\ pc[e] # "storing" /\ pc'[e] = "storing" /\ job'[e] = job[e]
                => Owed' = Owed \cup {Debt(e)}
           /\ pc[e] = "storing" /\ pc'[e] # "storing"
                => Debt(e) \in Owed /\ Owed' = Owed \ {Debt(e)}
  <1> DEFINE S == {x \in Execs : pc[x] = "storing"}
             T == {x \in Execs : pc'[x] = "storing"}
             D(x) == [by |-> x, task |-> job'[x].grant.task, ticket |-> job'[x].grant.epoch]
  <1>1. Owed = {Debt(x) : x \in S} /\ Owed' = {D(x) : x \in T}
    BY DEF Owed, Debt, TaskOf
  <1>2. \A x \in Execs \ {e} : D(x) = Debt(x) /\ (x \in S <=> x \in T)
    BY DEF Debt, TaskOf
  <1>3. job'[e] = job[e] => D(e) = Debt(e)
    BY DEF Debt, TaskOf
  <1>4. \A x \in Execs \ {e} : Debt(x) # Debt(e)
    BY DEF Debt
  <1>5. /\ e \in S <=> pc[e] = "storing"
        /\ e \in T <=> pc'[e] = "storing"
        /\ S \subseteq Execs /\ T \subseteq Execs
    OBVIOUS
  <1> HIDE DEF S, T, D
  <1>6. CASE pc[e] # "storing" /\ pc'[e] # "storing"
    BY <1>1, <1>2, <1>5, <1>6
  <1>7. CASE pc[e] # "storing" /\ pc'[e] = "storing" /\ job'[e] = job[e]
    BY <1>1, <1>2, <1>3, <1>5, <1>7
  <1>8. CASE pc[e] = "storing" /\ pc'[e] # "storing"
    BY <1>1, <1>2, <1>4, <1>5, <1>8
  <1> QED BY <1>6, <1>7, <1>8

LEMMA QuietKept == ASSUME UNCHANGED <<pc, job>> PROVE Owed' = Owed
  BY DEF Owed, Debt, TaskOf

(* A step that changes one hash and neither debts nor answers.               *)
LEMMA HashOnly ==
    ASSUME TypeOK, NEW t \in Tasks, NEW h \in Hash,
           hash' = [hash EXCEPT ![t] = h], Owed' = Owed, Answer' = Answer,
           \/ hash[t].state = "MISSING" /\ \E max \in AttemptLimits : h = Created(max)
           \/ hash[t].state = "PENDING" /\ \E w \in Names : h = Claimed(hash[t], w)
           \/ hash[t].state = "RUNNING" /\ h \in {Released(hash[t]), Failed(hash[t])}
           \/ hash[t].state \in {"PENDING", "RUNNING", "CANCELLED"} /\ h = Cancelled(hash[t])
           \/ h = Missing
    PROVE  NextOrStutter
  <1>0. hash \in [Tasks -> Hash] /\ hash[t] \in Hash
    BY DEF TypeOK
  <1>1. /\ [x \in Tasks |-> hash[x].state]' = [[x \in Tasks |-> hash[x].state] EXCEPT ![t] = h.state]
        /\ [x \in Tasks |-> hash[x].worker]' = [[x \in Tasks |-> hash[x].worker] EXCEPT ![t] = h.worker]
        /\ [x \in Tasks |-> hash[x].epoch]' = [[x \in Tasks |-> hash[x].epoch] EXCEPT ![t] = h.epoch]
    BY <1>0
  <1>a. /\ [x \in Tasks |-> hash[x].state][t] = hash[t].state
        /\ [x \in Tasks |-> hash[x].worker][t] = hash[t].worker
        /\ [x \in Tasks |-> hash[x].epoch][t] = hash[t].epoch
    OBVIOUS
  <1>b. UNCHANGED <<{[by |-> e, task |-> TaskOf(e), ticket |-> job[e].grant.epoch] :
                        e \in {x \in Execs : pc[x] = "storing"}},
                    [x \in Tasks |-> IF result[x] = NoGrant THEN 0 ELSE result[x].epoch]>>
    BY DEF Owed, Answer, Debt
  <1>2. CASE hash[t].state = "MISSING" /\ \E max \in AttemptLimits : h = Created(max)
    <2>1. h.state = "PENDING" /\ h.worker = NoName /\ h.epoch = 0
      BY <1>2 DEF Created
    <2>2. Lifecycle!Submit(t)
      BY <1>1, <1>a, <1>b, <1>2, <2>1 DEF Lifecycle!Submit, Lifecycle!Becomes
    <2> QED BY <1>b, <2>2 DEF NextOrStutter, Lifecycle!Next, Lifecycle!HandOver
  <1>3. ASSUME NEW w \in Names, hash[t].state = "PENDING", h = Claimed(hash[t], w)
        PROVE  NextOrStutter
    <2>1. h.state = "RUNNING" /\ h.worker = w /\ h.epoch = hash[t].epoch + 1
      BY <1>0, <1>3, ScriptEffect
    <2>2. Lifecycle!Grant(t, w)
      BY <1>1, <1>a, <1>b, <1>3, <2>1 DEF Lifecycle!Grant, Lifecycle!Becomes
    <2> QED BY <1>b, <2>2 DEF NextOrStutter, Lifecycle!Next, Lifecycle!HandOver
  <1>4. CASE hash[t].state = "RUNNING" /\ h \in {Released(hash[t]), Failed(hash[t])}
    <2>1. \/ /\ h.state = "PENDING"
             /\ h.worker = NoName
             /\ h.epoch = hash[t].epoch + 1
          \/ /\ h.state = "FAILED"
             /\ h.worker = hash[t].worker
             /\ h.epoch = hash[t].epoch
      <3>1. CASE h = Released(hash[t])
        BY <1>0, <3>1 DEF Hash, Released, Rewrite
      <3>2. CASE h = Failed(hash[t])
        BY <1>0, <3>2 DEF Hash, Failed, Released, Rewrite
      <3> QED BY <1>4, <3>1, <3>2
    <2>2. CASE h.state = "PENDING" /\ h.worker = NoName /\ h.epoch = hash[t].epoch + 1
      <3>1. Lifecycle!Release(t)
        BY <1>1, <1>a, <1>b, <1>4, <2>2 DEF Lifecycle!Release, Lifecycle!Becomes
      <3> QED BY <1>b, <3>1 DEF NextOrStutter, Lifecycle!Next, Lifecycle!HandOver
    <2>3. CASE h.state = "FAILED" /\ h.worker = hash[t].worker /\ h.epoch = hash[t].epoch
      <3>1. Lifecycle!End(t, "FAILED")
        BY <1>1, <1>a, <1>4, <2>3 DEF Lifecycle!End, Lifecycle!Becomes
      <3> QED BY <1>b, <3>1 DEF NextOrStutter, Lifecycle!Next, Lifecycle!HandOver
    <2> QED BY <2>1, <2>2, <2>3
  <1>5. CASE hash[t].state \in {"PENDING", "RUNNING", "CANCELLED"} /\ h = Cancelled(hash[t])
    <2>1. h.state = "CANCELLED" /\ h.worker = hash[t].worker /\ h.epoch = hash[t].epoch
      BY <1>0, <1>5 DEF Cancelled, Hash
    <2>2. CASE hash[t].state = "CANCELLED"
      <3>1. h = hash[t]
        BY <1>0, <1>5, <2>2 DEF Cancelled, Hash
      <3>2. hash' = hash
        BY <1>0, <3>1
      <3> QED BY <3>2 DEF NextOrStutter, Lifecycle!vars, Lifecycle!handoverVars, Owed, Answer, Debt
    <2>3. CASE hash[t].state # "CANCELLED"
      <3>1. Lifecycle!Withdraw(t)
        BY <1>1, <1>a, <1>b, <1>5, <2>1, <2>3 DEF Lifecycle!Withdraw, Lifecycle!Becomes
      <3> QED BY <1>b, <3>1 DEF NextOrStutter, Lifecycle!Next, Lifecycle!HandOver
    <2> QED BY <2>2, <2>3
  <1>6. CASE h = Missing
    <2>1. h.state = "MISSING" /\ h.worker = NoName /\ h.epoch = 0
      BY <1>6 DEF Missing
    <2>2. Lifecycle!Forget(t)
      BY <1>1, <1>b, <2>1 DEF Lifecycle!Forget, Lifecycle!Vanish, Lifecycle!Becomes
    <2> QED BY <2>2 DEF NextOrStutter, Lifecycle!Next
  <1> QED BY <1>2, <1>3, <1>4, <1>5, <1>6

LEMMA NothingSeen ==
    ASSUME hash' = hash, Owed' = Owed, Answer' = Answer
    PROVE  NextOrStutter
  BY DEF NextOrStutter, Lifecycle!vars, Lifecycle!handoverVars, Owed, Answer, Debt

LEMMA RefinesExecution ==
    ASSUME OwnInv, NEW e \in Execs, Execution(e) PROVE NextOrStutter
  <1>0. TypeOK /\ hash \in [Tasks -> Hash] /\ NameOf[e] \in Names
    BY NameOfAssumption DEF OwnInv, GrantInv, TypeOK
  <1>1. pc[e] # "idle" => /\ TaskOf(e) \in Tasks /\ hash[TaskOf(e)] \in Hash
                          /\ job[e].grant \in Grants
    BY <1>0 DEF TypeOK, TaskOf, Jobs, Grants
  <1>2. result' = result => Answer' = Answer
    BY DEF Answer
  <1>3. Leave(e) => /\ pc'[e] = "idle"
                    /\ \A x \in Execs \ {e} : pc'[x] = pc[x] /\ job'[x] = job[x]
    BY <1>0 DEF Leave, Goto, TypeOK
  <1>4. ASSUME NEW t \in Tasks, ClaimTask(e, t) PROVE NextOrStutter
    <2>1. /\ pc[e] = "idle" /\ pc'[e] = "claimed"
          /\ \A x \in Execs \ {e} : pc'[x] = pc[x] /\ job'[x] = job[x]
      BY <1>0, <1>4 DEF ClaimTask, Goto, TypeOK
    <2>2. Owed' = Owed /\ Answer' = Answer
      BY <1>2, <1>4, <2>1, OthersKept DEF ClaimTask
    <2>3. /\ hash' = [hash EXCEPT ![t] = Claimed(hash[t], NameOf[e])]
          /\ hash[t].state = "PENDING"
      BY <1>4 DEF ClaimTask, CanClaim
    <2>4. Claimed(hash[t], NameOf[e]) \in Hash
      BY <1>0, ScriptType
    <2> QED BY <1>0, <2>2, <2>3, <2>4, HashOnly
  <1>5. ASSUME NEW t \in Tasks, ClaimRefused(e, t) \/ RecoverFind(e, t) PROVE NextOrStutter
    <2>1. CASE ClaimRefused(e, t)
      BY <1>2, <2>1, QuietKept, NothingSeen DEF ClaimRefused, vars
    <2>2. CASE RecoverFind(e, t)
      <3>1. /\ pc[e] = "idle" /\ pc'[e] = "recovering"
            /\ \A x \in Execs \ {e} : pc'[x] = pc[x] /\ job'[x] = job[x]
        BY <1>0, <2>2 DEF RecoverFind, Goto, TypeOK
      <3> QED BY <1>2, <2>2, <3>1, OthersKept, NothingSeen DEF RecoverFind
    <2> QED BY <1>5, <2>1, <2>2
  <1>6. CASE ReadClaimedRecord(e)
    <2>1. /\ pc[e] = "claimed" /\ pc'[e] = "running"
          /\ \A x \in Execs \ {e} : pc'[x] = pc[x] /\ job'[x] = job[x]
      BY <1>0, <1>6 DEF ReadClaimedRecord, Goto, TypeOK
    <2> QED BY <1>2, <1>6, <2>1, OthersKept, NothingSeen DEF ReadClaimedRecord
  <1>8. CASE CompleteTask(e)
    <2>0. pc[e] = "running" /\ hash[TaskOf(e)].state = "RUNNING"
      BY <1>8 DEF CompleteTask, OwnedBy
    <2> PICK t \in Tasks : t = TaskOf(e)
      BY <1>1, <2>0
    <2>1. /\ pc'[e] = "storing" /\ job' = job
          /\ \A x \in Execs \ {e} : pc'[x] = pc[x] /\ job'[x] = job[x]
      BY <1>0, <1>8 DEF CompleteTask, Goto, TypeOK
    <2>2. hash' = [hash EXCEPT ![t] = Completed(hash[t])] /\ job[e].grant.epoch = hash[t].epoch
      <3>1. job[e].grant = Current(TaskOf(e))
        BY <1>8, <2>0 DEF CompleteTask, OwnInv, StaleExecutionRefused
      <3>2. job[e].grant.epoch = hash[TaskOf(e)].epoch
        BY <3>1 DEF Current
      <3> QED BY <1>8, <3>2 DEF CompleteTask
    <2> PICK n : n = hash[t].epoch
      OBVIOUS
    <2>3. Debt(e) = [by |-> e, task |-> t, ticket |-> n]
      BY <2>2 DEF Debt
    <2>4. Owed' = Owed \cup {[by |-> e, task |-> t, ticket |-> n]}
      BY <2>0, <2>1, <2>3, OthersKept
    <2>5. /\ Completed(hash[t]).state = "DONE"
          /\ Completed(hash[t]).worker = hash[t].worker
          /\ Completed(hash[t]).epoch = hash[t].epoch
      BY <1>0, ScriptEffect
    <2>6. /\ [x \in Tasks |-> hash[x].state]' = [[x \in Tasks |-> hash[x].state] EXCEPT ![t] = "DONE"]
          /\ [x \in Tasks |-> hash[x].worker]' =
               [[x \in Tasks |-> hash[x].worker] EXCEPT ![t] = [x \in Tasks |-> hash[x].worker][t]]
          /\ [x \in Tasks |-> hash[x].epoch]' =
               [[x \in Tasks |-> hash[x].epoch] EXCEPT ![t] = [x \in Tasks |-> hash[x].epoch][t]]
      BY <1>0, <2>2, <2>5
    <2>7. /\ [x \in Tasks |-> hash[x].state][t] = "RUNNING"
          /\ [x \in Tasks |-> hash[x].epoch][t] = n
      BY <2>0
    <2>8. Answer' = Answer
      BY <1>2, <1>8 DEF CompleteTask
    <2>9. Lifecycle!Finish(t, e)
      BY <2>4, <2>6, <2>7, <2>8 DEF Lifecycle!Finish, Lifecycle!End, Lifecycle!Becomes, Owed, Answer, Debt
    <2> QED BY <2>9 DEF NextOrStutter, Lifecycle!Next
  <1>9. CASE StoreResult(e) \/ (Crash(e) /\ pc[e] = "storing")
    <2>1. /\ Leave(e) /\ pc[e] = "storing" /\ hash' = hash
          /\ \/ result' = [result EXCEPT ![TaskOf(e)] = job[e].grant]
             \/ result' = result
      BY <1>9 DEF StoreResult, Crash
    <2> PICK o : o = Debt(e)
      OBVIOUS
    <2>2. o \in Owed /\ Owed' = Owed \ {o}
      BY <1>3, <2>1, OthersKept
    <2>3. ASSUME Lifecycle!Publish(o) \/ Lifecycle!Default(o) PROVE NextOrStutter
      BY <2>2, <2>3 DEF NextOrStutter, Lifecycle!Next, Owed, Debt
    <2>4. CASE result' = result
      <3>1. Lifecycle!Default(o)
        BY <1>2, <2>1, <2>2, <2>4 DEF Lifecycle!Default, Lifecycle!handoverVars, Owed, Answer, Debt
      <3> QED BY <2>3, <3>1
    <2>5. CASE result' = [result EXCEPT ![TaskOf(e)] = job[e].grant]
      <3>1. job[e].grant # NoGrant /\ TaskOf(e) \in Tasks
        BY <1>1, <2>1 DEF Grants, NoGrant
      <3>2. o.task = TaskOf(e) /\ o.ticket = job[e].grant.epoch
        BY DEF Debt
      <3>3. Answer' = [Answer EXCEPT ![o.task] = o.ticket]
        BY <1>0, <2>5, <3>1, <3>2 DEF Answer, TypeOK
      <3>4. Lifecycle!Publish(o)
        BY <2>1, <2>2, <3>3 DEF Lifecycle!Publish, Lifecycle!handoverVars, Owed, Answer, Debt
      <3> QED BY <2>3, <3>4
    <2> QED BY <2>1, <2>4, <2>5
  <1>10. CASE OutcomeRefused(e) \/ RecoverRefused(e) \/ (Crash(e) /\ pc[e] # "storing")
    <2>1. Leave(e) /\ pc[e] # "storing" /\ hash' = hash /\ result' = result
      BY <1>10 DEF OutcomeRefused, RecoverRefused, Crash
    <2> QED BY <1>2, <1>3, <2>1, OthersKept, NothingSeen
  <1>11. CASE FailTask(e) \/ CancelOwnTask(e) \/ RecoverClaim(e)
    <2>1. Leave(e) /\ pc[e] \notin {"storing", "idle"} /\ result' = result
      BY <1>11 DEF FailTask, CancelOwnTask, RecoverClaim
    <2>2. Owed' = Owed /\ Answer' = Answer
      BY <1>2, <1>3, <2>1, OthersKept
    <2> DEFINE h == hash[TaskOf(e)]
    <2>3. /\ TaskOf(e) \in Tasks /\ h \in Hash
          /\ Failed(h) \in Hash /\ Cancelled(h) \in Hash /\ Claimed(h, NameOf[e]) \in Hash
      BY <1>0, <1>1, <2>1, ScriptType
    <2>4. \/ h.state = "RUNNING" /\ hash' = [hash EXCEPT ![TaskOf(e)] = Failed(h)]
          \/ /\ h.state \in {"PENDING", "RUNNING", "CANCELLED"}
             /\ hash' = [hash EXCEPT ![TaskOf(e)] = Cancelled(h)]
          \/ h.state = "PENDING" /\ hash' = [hash EXCEPT ![TaskOf(e)] = Claimed(h, NameOf[e])]
      <3>1. h.state \in States \cup {"MISSING"}
        BY <2>3 DEF Hash
      <3> QED BY <1>11, <3>1
          DEF FailTask, CancelOwnTask, RecoverClaim, OwnedBy, CanCancel, CanClaim, States, Terminal
    <2> HIDE DEF h
    <2>5. CASE h.state = "RUNNING" /\ hash' = [hash EXCEPT ![TaskOf(e)] = Failed(h)]
      BY <1>0, <2>2, <2>3, <2>5, HashOnly DEF h
    <2>6. CASE /\ h.state \in {"PENDING", "RUNNING", "CANCELLED"}
               /\ hash' = [hash EXCEPT ![TaskOf(e)] = Cancelled(h)]
      BY <1>0, <2>2, <2>3, <2>6, HashOnly DEF h
    <2>7. CASE h.state = "PENDING" /\ hash' = [hash EXCEPT ![TaskOf(e)] = Claimed(h, NameOf[e])]
      BY <1>0, <2>2, <2>3, <2>7, HashOnly DEF h
    <2> QED BY <2>4, <2>5, <2>6, <2>7
  <1> QED BY <1>4, <1>5, <1>6, <1>8, <1>9, <1>10, <1>11 DEF Execution

LEMMA RefinesOutside ==
    ASSUME TypeOK, NEW t \in Tasks, Outside(t) PROVE NextOrStutter
  <1>0. hash \in [Tasks -> Hash] /\ hash[t] \in Hash /\ hash[t].state \in States \cup {"MISSING"}
    BY DEF TypeOK, Hash
  <1>1. result' = result => Answer' = Answer
    BY DEF Answer
  <1>2. Owed' = Owed
    <2>1. UNCHANGED <<pc, job>>
      BY DEF Outside, CreateTask, ExternalFail, RetryTask, CancelTask, DeleteTask,
             ExpireHash, ExpireResult
    <2> QED BY <2>1, QuietKept
  <1>3. ASSUME NEW max \in AttemptLimits, CreateTask(t, max) PROVE NextOrStutter
    <2>1. /\ hash' = [hash EXCEPT ![t] = Created(max)] /\ hash[t].state = "MISSING"
          /\ Created(max) \in Hash /\ Answer' = Answer
      BY <1>1, <1>3, FreshType DEF CreateTask, Exists
    <2> QED BY <1>2, <2>1, HashOnly
  <1>4. ASSUME NEW name \in Names,
               ExternalFail(t, name) \/ RetryTask(t, name) \/ CancelTask(t, name)
        PROVE  NextOrStutter
    <2>1. Failed(hash[t]) \in Hash /\ Released(hash[t]) \in Hash /\ Cancelled(hash[t]) \in Hash
      BY <1>0, ScriptType
    <2>2. Answer' = Answer
      BY <1>1, <1>4 DEF ExternalFail, RetryTask, CancelTask
    <2>3. CASE ExternalFail(t, name)
      BY <1>2, <2>1, <2>2, <2>3, HashOnly DEF ExternalFail, OwnedBy
    <2>4. CASE RetryTask(t, name)
      BY <1>2, <2>1, <2>2, <2>4, HashOnly DEF RetryTask, OwnedBy
    <2>5. CASE CancelTask(t, name)
      <3>1. hash[t].state \in {"PENDING", "RUNNING", "CANCELLED"}
        BY <1>0, <2>5 DEF CancelTask, CanCancel, States, Terminal
      <3> QED BY <1>2, <2>1, <2>2, <2>5, <3>1, HashOnly DEF CancelTask
    <2> QED BY <1>4, <2>3, <2>4, <2>5
  <1>5. CASE ExpireHash(t)
    BY <1>1, <1>2, <1>5, FreshType, HashOnly DEF ExpireHash
  <1>6. CASE DeleteTask(t) \/ ExpireResult(t)
    <2>1. Answer' = [Answer EXCEPT ![t] = 0]
      BY <1>6 DEF DeleteTask, ExpireResult, Answer, TypeOK
    <2>2. CASE DeleteTask(t)
      <3>1. /\ [x \in Tasks |-> hash[x].state]' = [[x \in Tasks |-> hash[x].state] EXCEPT ![t] = "MISSING"]
            /\ [x \in Tasks |-> hash[x].worker]' = [[x \in Tasks |-> hash[x].worker] EXCEPT ![t] = NoName]
            /\ [x \in Tasks |-> hash[x].epoch]' = [[x \in Tasks |-> hash[x].epoch] EXCEPT ![t] = 0]
        BY <1>0, <2>2 DEF DeleteTask, Missing
      <3>2. Lifecycle!Forget(t)
        BY <1>2, <2>1, <3>1 DEF Lifecycle!Forget, Lifecycle!Vanish, Lifecycle!Becomes, Owed, Answer, Debt
      <3> QED BY <3>2 DEF NextOrStutter, Lifecycle!Next
    <2>3. CASE ExpireResult(t)
      <3>1. hash' = hash
        BY <2>3 DEF ExpireResult
      <3>2. Lifecycle!Forget(t)
        BY <1>2, <2>1, <3>1 DEF Lifecycle!Forget, Lifecycle!handoverVars, Owed, Answer, Debt
      <3> QED BY <3>2 DEF NextOrStutter, Lifecycle!Next
    <2> QED BY <1>6, <2>2, <2>3
  <1> QED BY <1>3, <1>4, <1>5, <1>6 DEF Outside

(* ImplementsLifecycle of every instance in which no two executions share a  *)
(* worker name: what users of the store see of its calls and their round     *)
(* trips are the steps of TaskLifecycle.  The name is needed for the answer: *)
(* only then is what an execution owes the ticket its task ended under.      *)
THEOREM ImplementsLifecycleHolds ==
    ASSUME OwnNamesOnly
    PROVE  Spec => ImplementsLifecycle
  <1>1. Init => Lifecycle!Init
    BY DEF Init, Lifecycle!Init, Lifecycle!HandoverInit, Missing
  <1>2. OwnInv /\ [Next]_vars => OwnInv'
    BY OwnKept
  <1>3. OwnInv /\ [Next]_vars => [Lifecycle!Next]_(Lifecycle!vars)
    <2> SUFFICES ASSUME OwnInv, [Next]_vars PROVE NextOrStutter
      BY DEF NextOrStutter
    <2>1. CASE UNCHANGED vars
      <3>1. UNCHANGED <<hash, pc, job, result>>
        BY <2>1 DEF vars
      <3>2. Answer' = Answer
        BY <3>1 DEF Answer
      <3> QED BY <3>1, <3>2, QuietKept, NothingSeen
    <2>2. CASE Next
      BY <2>2, RefinesExecution, RefinesOutside DEF Next, OwnInv, GrantInv
    <2> QED BY <2>1, <2>2
  <1> QED BY <1>1, <1>2, <1>3, OwnInit, PTL DEF Spec, ImplementsLifecycle, Lifecycle!Spec

-----------------------------------------------------------------------------
(* The refinement of TaskHandover, which needs nothing of the names.         *)

\* What a script, an expiry or a deletion makes of a hash.
Scripted(h, k) ==
    \/ k = Missing
    \/ h.state = "MISSING" /\ \E max \in AttemptLimits : k = Created(max)
    \/ h.state = "PENDING" /\ \E w \in Names : k = Claimed(h, w)
    \/ h.state = "RUNNING" /\ k \in {Completed(h), Failed(h), Released(h)}
    \/ h.state \in {"PENDING", "RUNNING", "CANCELLED"} /\ k = Cancelled(h)

LEMMA HandoverOfScript ==
    ASSUME hash \in [Tasks -> Hash], NEW t \in Tasks, NEW k,
           hash' = [hash EXCEPT ![t] = k], Scripted(hash[t], k)
    PROVE  [Handover!HandoverNext]_(Handover!handoverVars)
  <1>0. hash[t] \in Hash
    OBVIOUS
  <1>1. /\ [x \in Tasks |-> hash[x].state]' = [[x \in Tasks |-> hash[x].state] EXCEPT ![t] = k.state]
        /\ [x \in Tasks |-> hash[x].worker]' = [[x \in Tasks |-> hash[x].worker] EXCEPT ![t] = k.worker]
        /\ [x \in Tasks |-> hash[x].epoch]' = [[x \in Tasks |-> hash[x].epoch] EXCEPT ![t] = k.epoch]
    OBVIOUS
  <1>2. /\ [x \in Tasks |-> hash[x].state][t] = hash[t].state
        /\ [x \in Tasks |-> hash[x].worker][t] = hash[t].worker
        /\ [x \in Tasks |-> hash[x].epoch][t] = hash[t].epoch
    OBVIOUS
  <1>3. CASE k = Missing
    <2>1. k.state = "MISSING" /\ k.worker = NoName /\ k.epoch = 0
      BY <1>3 DEF Missing
    <2>2. Handover!Vanish(t)
      BY <1>1, <2>1 DEF Handover!Vanish, Handover!Becomes
    <2> QED BY <2>2 DEF Handover!HandoverNext
  <1>4. CASE hash[t].state = "MISSING" /\ \E max \in AttemptLimits : k = Created(max)
    <2>1. k.state = "PENDING" /\ k.worker = NoName /\ k.epoch = 0
      BY <1>4 DEF Created
    <2>2. Handover!Submit(t)
      BY <1>1, <1>2, <1>4, <2>1 DEF Handover!Submit, Handover!Becomes
    <2> QED BY <2>2 DEF Handover!HandoverNext
  <1>5. ASSUME NEW w \in Names, hash[t].state = "PENDING", k = Claimed(hash[t], w)
        PROVE  Handover!HandoverNext
    <2>1. k.state = "RUNNING" /\ k.worker = w /\ k.epoch = hash[t].epoch + 1
      BY <1>5 DEF Claimed, Rewrite
    <2>2. Handover!Grant(t, w)
      BY <1>1, <1>2, <1>5, <2>1 DEF Handover!Grant, Handover!Becomes
    <2> QED BY <2>2 DEF Handover!HandoverNext
  <1>6. CASE hash[t].state = "RUNNING" /\ k \in {Completed(hash[t]), Failed(hash[t]), Released(hash[t])}
    <2>1. \/ /\ k.state \in {"DONE", "FAILED"}
             /\ k.worker = hash[t].worker /\ k.epoch = hash[t].epoch
          \/ /\ k.state = "PENDING"
             /\ k.worker = NoName /\ k.epoch = hash[t].epoch + 1
      <3>1. CASE k = Completed(hash[t])
        BY <1>0, <3>1 DEF Hash, Completed
      <3>2. CASE k = Failed(hash[t])
        BY <1>0, <3>2 DEF Hash, Failed, Released, Rewrite
      <3>3. CASE k = Released(hash[t])
        BY <3>3 DEF Released, Rewrite
      <3> QED BY <1>6, <3>1, <3>2, <3>3
    <2>2. ASSUME NEW p \in {"DONE", "FAILED"},
                 k.state = p, k.worker = hash[t].worker, k.epoch = hash[t].epoch
          PROVE  Handover!HandoverNext
      <3>1. Handover!End(t, p)
        BY <1>1, <1>2, <1>6, <2>2 DEF Handover!End, Handover!Becomes
      <3> QED BY <3>1 DEF Handover!HandoverNext
    <2>3. CASE k.state = "PENDING" /\ k.worker = NoName /\ k.epoch = hash[t].epoch + 1
      <3>1. Handover!Release(t)
        BY <1>1, <1>2, <1>6, <2>3 DEF Handover!Release, Handover!Becomes
      <3> QED BY <3>1 DEF Handover!HandoverNext
    <2> QED BY <2>1, <2>2, <2>3
  <1>7. CASE hash[t].state \in {"PENDING", "RUNNING", "CANCELLED"} /\ k = Cancelled(hash[t])
    <2>1. k.state = "CANCELLED" /\ k.worker = hash[t].worker /\ k.epoch = hash[t].epoch
      BY <1>0, <1>7 DEF Cancelled, Hash
    <2>2. CASE hash[t].state = "CANCELLED"
      <3>1. k = hash[t]
        BY <1>0, <1>7, <2>2 DEF Cancelled, Hash
      <3> QED BY <3>1 DEF Handover!handoverVars
    <2>3. CASE hash[t].state # "CANCELLED"
      <3>1. Handover!Withdraw(t)
        BY <1>1, <1>2, <1>7, <2>1, <2>3 DEF Handover!Withdraw, Handover!Becomes
      <3> QED BY <3>1 DEF Handover!HandoverNext
    <2> QED BY <2>2, <2>3
  <1> QED BY <1>3, <1>4, <1>5, <1>6, <1>7 DEF Scripted

(* Every call that changes the store changes one hash, by one script.        *)
LEMMA OneScript ==
    ASSUME TypeOK, [Next]_vars
    PROVE  \/ hash' = hash
           \/ \E t \in Tasks : \E k : hash' = [hash EXCEPT ![t] = k] /\ Scripted(hash[t], k)
  <1>1. ASSUME NEW e \in Execs, Execution(e), hash' # hash
        PROVE  \E t \in Tasks : \E k : hash' = [hash EXCEPT ![t] = k]
    <2>1. pc[e] # "idle" => TaskOf(e) \in Tasks
      BY DEF TypeOK, TaskOf, Jobs, Grants
    <2> QED
      BY <1>1, <2>1
      DEF Execution, ClaimTask, ClaimRefused, RecoverFind, ReadClaimedRecord, CompleteTask, StoreResult, FailTask, CancelOwnTask, OutcomeRefused, Crash,
          RecoverClaim, RecoverRefused, vars
  <1>2. ASSUME NEW t \in Tasks, Outside(t), hash' # hash
        PROVE  \E k : hash' = [hash EXCEPT ![t] = k]
    BY <1>2 DEF Outside, CreateTask, ExternalFail, RetryTask, CancelTask, DeleteTask,
        ExpireHash, ExpireResult
  <1>3. SUFFICES ASSUME hash' # hash
                 PROVE  \E t \in Tasks : \E k :
                           hash' = [hash EXCEPT ![t] = k] /\ Scripted(hash[t], k)
    OBVIOUS
  <1>p. PICK t \in Tasks : \E k : hash' = [hash EXCEPT ![t] = k]
    BY <1>1, <1>2, <1>3 DEF Next, vars
  <1>4. PICK k : hash' = [hash EXCEPT ![t] = k]
    BY <1>p
  <1>5. hash'[t] = k /\ k # hash[t] /\ HashStep(t)
    BY <1>3, <1>4, HashStepLemma DEF TypeOK
  <1>6. k = Missing \/ Scripted(hash[t], k)
    BY <1>5, NameOfAssumption DEF HashStep, Exists, Scripted
  <1> QED BY <1>4, <1>6 DEF Scripted

(* Under whatever names the executions run, what they and the callers        *)
(* outside do to the hashes is a hand-over of tasks: the promise of          *)
(* TaskHandover holds of this store.                                         *)
THEOREM ImplementsHandoverHolds == Spec => ImplementsHandover
  <1>1. Init => Handover!HandoverInit
    BY DEF Init, Missing, Handover!HandoverInit
  <1>2. TypeOK /\ [Next]_vars => [Handover!HandoverNext]_(Handover!handoverVars)
    <2> SUFFICES ASSUME TypeOK, [Next]_vars
                 PROVE  [Handover!HandoverNext]_(Handover!handoverVars)
      OBVIOUS
    <2>1. CASE hash' = hash
      BY <2>1 DEF Handover!handoverVars
    <2>2. ASSUME NEW t \in Tasks, NEW k,
                 hash' = [hash EXCEPT ![t] = k], Scripted(hash[t], k)
          PROVE  [Handover!HandoverNext]_(Handover!handoverVars)
      BY <2>2, HandoverOfScript DEF TypeOK
    <2> QED BY <2>1, <2>2, OneScript
  <1> QED BY <1>1, <1>2, TypeCorrect, PTL
          DEF Spec, ImplementsHandover, Handover!HandoverSpec

-----------------------------------------------------------------------------
(* What keeps a task from FAILED: a RUNNING task has no attempt counted.     *)
FreshRuns == \A t \in Tasks : hash[t].state = "RUNNING" => hash[t].attempt = 0

(* Only a task created with at most one attempt ever ends FAILED: fail_task  *)
(* counts from the 0 that claim_task wrote, however often it is called.      *)
THEOREM FailsAtOnceOrNeverHolds == Spec => []FailsAtOnceOrNever
  <1> DEFINE Inv == FreshRuns /\ FailsAtOnceOrNever
  <1>1. Init => Inv
    BY DEF Init, Missing, FreshRuns, FailsAtOnceOrNever
  <1>2. TypeOK /\ Inv /\ [Next]_vars => Inv'
    <2> SUFFICES ASSUME TypeOK, Inv, [Next]_vars, NEW t \in Tasks
                 PROVE  /\ hash'[t].state = "RUNNING" => hash'[t].attempt = 0
                        /\ hash'[t].state = "FAILED" => hash'[t].max_attempts <= 1
      BY DEF FreshRuns, FailsAtOnceOrNever
    <2> DEFINE h == hash[t]
               Good(k) == /\ k.state = "RUNNING" => k.attempt = 0
                          /\ k.state = "FAILED" => k.max_attempts <= 1
    <2>1. h \in Hash /\ HashStep(t) /\ Good(h)
      BY HashStepLemma DEF TypeOK, FreshRuns, FailsAtOnceOrNever
    <2>2. Good(Missing) /\ \A max \in AttemptLimits : Good(Created(max))
      BY DEF Missing, Created
    <2>3. \A e \in Execs : Good(Claimed(h, NameOf[e]))
      BY DEF Claimed, Rewrite
    <2>4. Good(Completed(h)) /\ Good(Released(h)) /\ Good(Cancelled(h))
      BY <2>1 DEF Completed, Released, Rewrite, Cancelled, Hash
    <2>5. ASSUME h.state = "RUNNING" PROVE Good(Failed(h))
      BY <2>1, <2>5 DEF Failed, Released, Rewrite, Hash
    <2> HIDE DEF Good
    <2>6. Good(hash'[t])
      BY <2>1, <2>2, <2>3, <2>4, <2>5 DEF HashStep
    <2> QED BY <2>6 DEF Good
  <1>3. Inv => FailsAtOnceOrNever
    OBVIOUS
  <1> QED BY <1>1, <1>2, <1>3, TypeCorrect, PTL DEF Spec
=============================================================================
