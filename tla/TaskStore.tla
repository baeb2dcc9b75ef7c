----------------------------- MODULE TaskStore -----------------------------
(***************************************************************************)
(* agent_runtime/task_store.py: the Redis-backed owner of task state, used *)
(* by concurrent executions.                                               *)
(*                                                                         *)
(* An execution is one coroutine that claims a task, runs its handler and  *)
(* reports the outcome: a worker process of durable_queue.py, or one of    *)
(* the process_task coroutines of engine.worker_loop.  It presents itself  *)
(* to the store under a worker name; several executions may share one.     *)
(* Every await is a place where others run, so a call that makes two Redis *)
(* round trips is two actions here.  An execution may die at any of them.  *)
(*                                                                         *)
(* Callers outside the executions (an operator, a test, an API handler)    *)
(* may call fail_task, retry_task and cancel_task with any worker name.    *)
(*                                                                         *)
(* Time is left out: a RUNNING task may be found stale, and a key may      *)
(* expire, at any moment.                                                  *)
(***************************************************************************)
EXTENDS TaskScripts, FiniteSets

CONSTANTS
    Tasks,      \* task ids
    Execs,      \* executions
    NameOf,     \* the worker name each execution uses
    MaxEpoch,   \* bound: no claim of a task whose epoch has reached it
    MaxLives    \* bound: how often one task id is created

ASSUME NameOfAssumption == NameOf \in [Execs -> Names]
ASSUME BoundsAssumption == MaxEpoch \in Nat /\ MaxLives \in Nat

VARIABLES
    hash,       \* task_state:<id>
    result,     \* result:<id>, as the grant that produced the payload
    pc,         \* where each execution is
    job,        \* what each execution holds
    lives,      \* history: how often each task id was created
    failures    \* history: fail_task calls accepted in this life of the id

vars == <<hash, result, pc, job, lives, failures>>

PCs == {"idle", "claimed", "running", "storing", "recovering"}

(* A grant is one successful claim: the task, which life of the task id it  *)
(* was, and the epoch the script gave.  The code does not keep it: it keeps *)
(* `seen', the epoch in the record that claim_task reads back.              *)
Grants == [task : Tasks, life : Nat, epoch : Nat]
NoGrant == [life |-> 0]

Jobs == [grant : Grants, seen : Nat]
NoJob == [seen |-> 0]

TypeOK ==
    /\ hash \in [Tasks -> Hash]
    /\ result \in [Tasks -> Grants \cup {NoGrant}]
    /\ pc \in [Execs -> PCs]
    /\ job \in [Execs -> Jobs \cup {NoJob}]
    /\ \A e \in Execs : pc[e] # "idle" => job[e] \in Jobs
    /\ lives \in [Tasks -> Nat]
    /\ failures \in [Tasks -> Nat]

Init ==
    /\ hash = [t \in Tasks |-> Missing]
    /\ result = [t \in Tasks |-> NoGrant]
    /\ pc = [e \in Execs |-> "idle"]
    /\ job = [e \in Execs |-> NoJob]
    /\ lives = [t \in Tasks |-> 0]
    /\ failures = [t \in Tasks |-> 0]

TaskOf(e) == job[e].grant.task
Goto(e, place) == pc' = [pc EXCEPT ![e] = place]

Holding(t, epoch) ==
    [grant |-> [task |-> t, life |-> lives[t], epoch |-> epoch], seen |-> 0]

\* The execution is through with its task.
Leave(e) == Goto(e, "idle") /\ job' = [job EXCEPT ![e] = NoJob]

-----------------------------------------------------------------------------
(* create_task.  On an existing key it changes nothing.                     *)
CreateTask(t, max) ==
    /\ lives[t] < MaxLives
    /\ ~Exists(hash[t])
    /\ hash' = [hash EXCEPT ![t] = Created(max)]
    /\ lives' = [lives EXCEPT ![t] = @ + 1]
    /\ failures' = [failures EXCEPT ![t] = 0]
    /\ UNCHANGED <<result, pc, job>>

\* claim_task, first round trip: the script.
ClaimTask(e, t) ==
    /\ pc[e] = "idle"
    /\ CanClaim(hash[t])
    /\ hash[t].epoch < MaxEpoch
    /\ LET claimed == Claimed(hash[t], NameOf[e])
       IN  /\ hash' = [hash EXCEPT ![t] = claimed]
           /\ job' = [job EXCEPT ![e] = Holding(t, claimed.epoch)]
    /\ Goto(e, "claimed")
    /\ UNCHANGED <<result, lives, failures>>

\* claim_task refused: None is returned and nothing changes.
ClaimRefused(e, t) ==
    /\ pc[e] = "idle"
    /\ ~CanClaim(hash[t])
    /\ UNCHANGED vars

\* Mutant: the record is read before the script runs.
ReadBeforeClaim(e) ==
    /\ pc[e] = "claimed"
    /\ job' = [job EXCEPT ![e] = [grant |-> @.grant, seen |-> @.grant.epoch - 1]]
    /\ Goto(e, "running")
    /\ UNCHANGED <<hash, result, lives, failures>>

(* claim_task, second round trip: HGETALL.  Whatever the hash holds by now  *)
(* is returned; from_dict turns a key that is gone into epoch 0.            *)
ReadClaimedRecord(e) ==
    /\ pc[e] = "claimed"
    /\ job' = [job EXCEPT ![e] = [grant |-> @.grant, seen |-> hash[TaskOf(e)].epoch]]
    /\ Goto(e, "running")
    /\ UNCHANGED <<hash, result, lives, failures>>

-----------------------------------------------------------------------------
\* complete_task, first round trip: the script accepts.
CompleteTask(e) ==
    /\ pc[e] = "running"
    /\ OwnedBy(hash[TaskOf(e)], NameOf[e])
    /\ hash' = [hash EXCEPT ![TaskOf(e)] = Completed(@)]
    /\ Goto(e, "storing")
    /\ UNCHANGED <<result, job, lives, failures>>

\* complete_task, second round trip: SETEX of the result key.
StoreResult(e) ==
    /\ pc[e] = "storing"
    /\ result' = [result EXCEPT ![TaskOf(e)] = job[e].grant]
    /\ Leave(e)
    /\ UNCHANGED <<hash, lives, failures>>

\* fail_task by the execution whose handler raised.
FailTask(e) ==
    /\ pc[e] = "running"
    /\ OwnedBy(hash[TaskOf(e)], NameOf[e])
    /\ hash' = [hash EXCEPT ![TaskOf(e)] = Failed(@)]
    /\ failures' = [failures EXCEPT ![TaskOf(e)] = @ + 1]
    /\ Leave(e)
    /\ UNCHANGED <<result, lives>>

\* cancel_task by an execution whose coroutine was cancelled.
CancelOwnTask(e) ==
    /\ pc[e] = "running"
    /\ CanCancel(hash[TaskOf(e)], NameOf[e])
    /\ hash' = [hash EXCEPT ![TaskOf(e)] = Cancelled(@)]
    /\ Leave(e)
    /\ UNCHANGED <<result, lives, failures>>

\* complete_task or fail_task answers False: the work is thrown away.
OutcomeRefused(e) ==
    /\ pc[e] = "running"
    /\ ~OwnedBy(hash[TaskOf(e)], NameOf[e])
    /\ Leave(e)
    /\ UNCHANGED <<hash, result, lives, failures>>

(* The process dies, or Redis fails it; what it held in memory is gone.  One *)
(* that dies while it recovers takes no further step.                        *)
Crash(e) ==
    /\ pc[e] \in {"claimed", "running", "storing"}
    /\ Leave(e)
    /\ UNCHANGED <<hash, result, lives, failures>>

-----------------------------------------------------------------------------
(* recover_stale_tasks: the scan reads a hash and picks it when RUNNING and *)
(* old, then calls claim_task on it.                                        *)
RecoverFind(e, t) ==
    /\ pc[e] = "idle"
    /\ hash[t].state = "RUNNING"
    /\ Goto(e, "recovering")
    /\ job' = [job EXCEPT ![e] = Holding(t, hash[t].epoch)]
    /\ UNCHANGED <<hash, result, lives, failures>>

(* The claim goes through only if the task became PENDING in between.  The  *)
(* caller, DurableTaskQueue.start, counts the record and runs nothing.      *)
RecoverClaim(e) ==
    LET t == TaskOf(e)
    IN  /\ pc[e] = "recovering"
        /\ CanClaim(hash[t])
        /\ hash[t].epoch < MaxEpoch
        /\ hash' = [hash EXCEPT ![t] = Claimed(@, NameOf[e])]
        /\ Leave(e)
        /\ UNCHANGED <<result, lives, failures>>

RecoverRefused(e) ==
    /\ pc[e] = "recovering"
    /\ ~CanClaim(hash[TaskOf(e)])
    /\ Leave(e)
    /\ UNCHANGED <<hash, result, lives, failures>>

-----------------------------------------------------------------------------
\* fail_task, retry_task, cancel_task and delete_task called from outside.
ExternalFail(t, name) ==
    /\ OwnedBy(hash[t], name)
    /\ hash' = [hash EXCEPT ![t] = Failed(@)]
    /\ failures' = [failures EXCEPT ![t] = @ + 1]
    /\ UNCHANGED <<result, pc, job, lives>>

RetryTask(t, name) ==
    /\ OwnedBy(hash[t], name)
    /\ hash' = [hash EXCEPT ![t] = Released(@)]
    /\ UNCHANGED <<result, pc, job, lives, failures>>

CancelTask(t, name) ==
    /\ CanCancel(hash[t], name)
    /\ hash' = [hash EXCEPT ![t] = Cancelled(@)]
    /\ UNCHANGED <<result, pc, job, lives, failures>>

DeleteTask(t) ==
    /\ hash' = [hash EXCEPT ![t] = Missing]
    /\ result' = [result EXCEPT ![t] = NoGrant]
    /\ UNCHANGED <<pc, job, lives, failures>>

(* Redis drops a key past its TTL: the hash 2 * result_ttl after create_task *)
(* whatever happened since, the result result_ttl after SETEX.               *)
ExpireHash(t) ==
    /\ hash' = [hash EXCEPT ![t] = Missing]
    /\ UNCHANGED <<result, pc, job, lives, failures>>

ExpireResult(t) ==
    /\ result' = [result EXCEPT ![t] = NoGrant]
    /\ UNCHANGED <<hash, pc, job, lives, failures>>

-----------------------------------------------------------------------------
Execution(e) ==
    \/ \E t \in Tasks : ClaimTask(e, t) \/ ClaimRefused(e, t) \/ RecoverFind(e, t)
    \/ ReadClaimedRecord(e)
    \/ CompleteTask(e)
    \/ StoreResult(e)
    \/ FailTask(e)
    \/ CancelOwnTask(e)
    \/ OutcomeRefused(e)
    \/ Crash(e)
    \/ RecoverClaim(e)
    \/ RecoverRefused(e)

Outside(t) ==
    \/ \E max \in AttemptLimits : CreateTask(t, max)
    \/ \E name \in Names :
          ExternalFail(t, name) \/ RetryTask(t, name) \/ CancelTask(t, name)
    \/ DeleteTask(t)
    \/ ExpireHash(t)
    \/ ExpireResult(t)

Next == (\E e \in Execs : Execution(e)) \/ (\E t \in Tasks : Outside(t))

Spec == Init /\ [][Next]_vars

-----------------------------------------------------------------------------
(* Properties.                                                              *)

Working == {"claimed", "running", "storing"}
Current(t) == [task |-> t, life |-> lives[t], epoch |-> hash[t].epoch]

(* An execution whose report the store would accept holds the task's current *)
(* grant: complete_task and fail_task compare worker names only, and yet a   *)
(* stale execution never gets through.  Holds when no two executions use one *)
(* worker name.                                                              *)
StaleExecutionRefused ==
    \A e \in Execs : pc[e] \in {"claimed", "running"} =>
        (OwnedBy(hash[TaskOf(e)], NameOf[e]) => job[e].grant = Current(TaskOf(e)))

(* No two executions ever hold the same grant, whatever they are called:     *)
(* within one life of a task id every claim got an epoch of its own.         *)
UniqueGrant ==
    \A e, f \in Execs :
        /\ pc[e] \in Working
        /\ pc[f] \in Working
        /\ job[e].grant = job[f].grant
        => e = f

(* A result that is visible while its task's hash is there was computed by   *)
(* the execution that completed that life of the task, under its last epoch; *)
(* a result left from an earlier life is recognisable by its grant only.     *)
ResultOfOwner ==
    \A t \in Tasks :
        /\ result[t] # NoGrant
        /\ result[t].life = lives[t]
        /\ Exists(hash[t])
        => hash[t].state = "DONE" /\ result[t] = Current(t)

(* What claim_task reads back in its second round trip may be the record of  *)
(* a later grant, of a later life, or of no task at all.  An execution that  *)
(* was given such a foreign record has lost the task for good: whenever the  *)
(* store would accept its report, the epoch it works with is the one of its  *)
(* own claim.  Holds when no two executions use one worker name.             *)
ForeignRecordIsRefused ==
    \A e \in Execs : pc[e] = "running" /\ OwnedBy(hash[TaskOf(e)], NameOf[e]) =>
        job[e].seen = job[e].grant.epoch

(* As long as the hash lives its epoch never decreases, and every change of  *)
(* owner, in whichever script, raises it.                                    *)
EpochFenced ==
    \A t \in Tasks : Exists(hash[t]) /\ Exists(hash'[t]) =>
        /\ hash'[t].epoch >= hash[t].epoch
        /\ hash'[t].worker # hash[t].worker => hash'[t].epoch > hash[t].epoch

EpochFence == [][EpochFenced]_vars

(* A finished, failed or cancelled task is never changed again by any call;  *)
(* the key can only disappear.                                               *)
TerminalKept ==
    \A t \in Tasks : hash[t].state \in Terminal =>
        hash'[t] = hash[t] \/ ~Exists(hash'[t])

TerminalIsFinal == [][TerminalKept]_vars

(* test_fail_exhausted_max_attempts: once fail_task was accepted             *)
(* max_attempts times, the task is FAILED.                                   *)
ExhaustedIsFailed ==
    \A t \in Tasks :
        Exists(hash[t]) /\ failures[t] > 0 /\ failures[t] >= hash[t].max_attempts
            => hash[t].state = "FAILED"

(* What becomes of that promise: claim_task has put the counter back to 0    *)
(* whenever fail_task looks at it, so only a task that was created with at   *)
(* most one attempt ever ends FAILED; any other may fail without end.        *)
FailsAtOnceOrNever ==
    \A t \in Tasks : hash[t].state = "FAILED" => hash[t].max_attempts <= 1

(* test_recover_stale_tasks: a task that was found RUNNING, at which nobody  *)
(* works any more, and that is still as it was found, is RUNNING in the      *)
(* hands of the recovering worker, under the next epoch, when the recovery   *)
(* is through with it.                                                       *)
Recovered ==
    \A e \in Execs :
        /\ pc[e] = "recovering" /\ pc'[e] = "idle"
        /\ job[e].grant = Current(TaskOf(e))
        /\ hash[TaskOf(e)].state = "RUNNING"
        /\ \A f \in Execs : pc[f] \in Working => TaskOf(f) # TaskOf(e)
        => /\ OwnedBy(hash'[TaskOf(e)], NameOf[e])
           /\ hash'[TaskOf(e)].epoch = hash[TaskOf(e)].epoch + 1

StaleIsRecovered == [][Recovered]_vars

-----------------------------------------------------------------------------
(* What this store implements: the hand-over of tasks whatever the names of  *)
(* the executions, and the answers too if the names are their own.  An       *)
(* execution that is about to store its result owes it.                      *)
Handover == INSTANCE TaskHandover WITH
    phase <- [t \in Tasks |-> hash[t].state],
    holder <- [t \in Tasks |-> hash[t].worker],
    ticket <- [t \in Tasks |-> hash[t].epoch]

ImplementsHandover == Handover!HandoverSpec

Lifecycle == INSTANCE TaskLifecycle WITH
    phase <- [t \in Tasks |-> hash[t].state],
    holder <- [t \in Tasks |-> hash[t].worker],
    ticket <- [t \in Tasks |-> hash[t].epoch],
    owed <- {[by |-> e, task |-> TaskOf(e), ticket |-> job[e].grant.epoch] :
               e \in {x \in Execs : pc[x] = "storing"}},
    answer <- [t \in Tasks |-> IF result[t] = NoGrant THEN 0 ELSE result[t].epoch]

ImplementsLifecycle == Lifecycle!Spec
=============================================================================
