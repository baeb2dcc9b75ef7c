---------------------------- MODULE DurableQueue ----------------------------
(***************************************************************************)
(* agent_runtime/durable_queue.py: worker processes that take tasks from a *)
(* Redis stream through a consumer group and drive them through the task   *)
(* store (TaskScripts), and the producers that feed the stream.            *)
(*                                                                         *)
(* A worker is one asyncio coroutine (consume), so its steps are           *)
(* sequential; the processes interleave at every Redis round trip.  The    *)
(* stream and its consumer group are Redis': a message is waiting until    *)
(* XREADGROUP delivers it, then pending for a consumer until XACK.         *)
(*                                                                         *)
(* Idle times are left out: a pending message may be found idle, and a     *)
(* RUNNING task may be found stale, at any moment.                         *)
(*                                                                         *)
(* Three kinds of things go wrong, MaxFaults times in all: a process dies, *)
(* a call of Redis raises, its command executed or not, or the hash of a   *)
(* task reaches its TTL.                                                   *)
(***************************************************************************)
EXTENDS TaskScripts, FiniteSets, Sequences

CONSTANTS
    Tasks,          \* task ids
    Procs,          \* worker processes
    NameOf,         \* the consumer name of each process
    MaxMsgs,        \* bound: messages ever added to the stream
    StreamMax,      \* STREAM_MAX_LEN
    BatchSize,      \* messages one XREADGROUP may return
    FaultKinds,     \* what goes wrong: "death", "error", "expiry"
    MaxFaults,      \* bound: how often
    Registers       \* whether producers call create_task before enqueue

ASSUME NameOfAssumption == NameOf \in [Procs -> Names]
ASSUME SizesAssumption ==
    /\ MaxMsgs \in Nat \ {0}
    /\ StreamMax \in Nat \ {0}
    /\ BatchSize \in Nat \ {0}
    /\ MaxFaults \in Nat
    /\ Registers \in BOOLEAN

VARIABLES
    hash,       \* task_state:<id>
    result,     \* result:<id>: not there, there, or past its TTL
    posted,     \* messages ever added; their ids are 1 .. posted
    taskOf,     \* the task id in each message
    msg,        \* where each message is
    owner,      \* the consumer each pending message is assigned to in the PEL
    pc,         \* where each process is
    running,    \* self._running of each process
    scan,       \* task keys that recover_stale_tasks has yet to look at
    target,     \* the task recover_stale_tasks found stale
    batch,      \* messages a process has read and not acknowledged
    pending_ids,    \* of consume: messages begun and not acknowledged
    faults,     \* history: what went wrong so far
    hit,        \* history: tasks cut off by a death or an error when in work
    cut,        \* history: messages whose reader was cut off
    failed,     \* history: tasks whose handler raised at least once
    adopted,    \* history: tasks that recover_stale_tasks claimed
    expired     \* history: tasks whose hash outlived its TTL

stream == <<posted, taskOf, msg, owner>>
worker == <<running, scan, target>>
history == <<faults, hit, cut, failed, adopted, expired>>
vars == <<hash, result, stream, pc, worker, batch, pending_ids, history>>

Ids == 1 .. MaxMsgs
Places == {"down", "starting", "recovering", "loop", "read", "next",
           "handling", "storing", "failing", "acking", "stopped", "raised"}

TypeOK ==
    /\ hash \in [Tasks -> Hash]
    /\ result \in [Tasks -> {"absent", "stored", "lapsed"}]
    /\ posted \in 0 .. MaxMsgs
    /\ taskOf \in [1 .. posted -> Tasks]
    /\ msg \in [1 .. posted -> {"waiting", "pending", "acked", "trimmed"}]
    /\ owner \in [1 .. posted -> Names \cup {NoName}]
    /\ pc \in [Procs -> Places]
    /\ running \in [Procs -> BOOLEAN]
    /\ scan \in [Procs -> SUBSET Tasks]
    /\ target \in [Procs -> SUBSET Tasks]
    /\ batch \in [Procs -> Seq(Ids)]
    /\ pending_ids \in [Procs -> SUBSET Ids]
    /\ faults \in 0 .. MaxFaults
    /\ hit \subseteq Tasks
    /\ cut \subseteq Ids
    /\ failed \subseteq Tasks
    /\ adopted \subseteq Tasks
    /\ expired \subseteq Tasks
    /\ \A p \in Procs :
          /\ Len(batch[p]) <= BatchSize
          /\ pc[p] \in {"handling", "storing", "failing", "acking"} => batch[p] # <<>>
          /\ Cardinality(target[p]) = (IF pc[p] = "recovering" THEN 1 ELSE 0)

Init ==
    /\ hash = [t \in Tasks |-> Missing]
    /\ result = [t \in Tasks |-> "absent"]
    /\ posted = 0
    /\ taskOf = <<>>
    /\ msg = <<>>
    /\ owner = <<>>
    /\ pc = [p \in Procs |-> "down"]
    /\ running = [p \in Procs |-> FALSE]
    /\ scan = [p \in Procs |-> {}]
    /\ target = [p \in Procs |-> {}]
    /\ batch = [p \in Procs |-> <<>>]
    /\ pending_ids = [p \in Procs |-> {}]
    /\ faults = 0
    /\ hit = {}
    /\ cut = {}
    /\ failed = {}
    /\ adopted = {}
    /\ expired = {}

Waiting == {i \in DOMAIN msg : msg[i] = "waiting"}
Pending == {i \in DOMAIN msg : msg[i] = "pending"}
Goto(p, place) == pc' = [pc EXCEPT ![p] = place]

Fault(kind) ==
    /\ kind \in FaultKinds
    /\ faults < MaxFaults
    /\ faults' = faults + 1

\* The message a process is working on, and its task.
MsgOf(p) == Head(batch[p])
TaskOf(p) == taskOf[MsgOf(p)]

-----------------------------------------------------------------------------
(* Producers.                                                               *)

\* TaskStore.create_task.
Register(t, max) ==
    /\ Registers
    /\ ~Exists(hash[t])
    /\ hash' = [hash EXCEPT ![t] = Created(max)]
    /\ UNCHANGED <<result, stream, pc, worker, batch, pending_ids, history>>

\* The entries XADD n may drop: all but the StreamMax newest.
Overflow(n) == {i \in Waiting : i + StreamMax <= n}

(* enqueue: XADD with MAXLEN.  The trim is approximate, so entries past the *)
(* limit may stay; those dropped before delivery are never delivered.  The  *)
(* same task id may be enqueued again: nothing looks for it in the stream.  *)
Enqueue(t) ==
    /\ posted < MaxMsgs
    /\ Registers => Exists(hash[t])
    /\ \E drop \in {{}, Overflow(posted + 1)} :
          msg' = Append([i \in DOMAIN msg |-> IF i \in drop THEN "trimmed" ELSE msg[i]],
                        "waiting")
    /\ posted' = posted + 1
    /\ taskOf' = Append(taskOf, t)
    /\ owner' = Append(owner, NoName)
    /\ UNCHANGED <<hash, result, pc, worker, batch, pending_ids, history>>

-----------------------------------------------------------------------------
(* start: the consumer group exists; recover_stale_tasks scans every key.   *)
(* A process whose consume coroutine raised is up, and is started anew only  *)
(* when somebody restarts it.                                                *)
Start(p) ==
    /\ pc[p] \in {"down", "stopped", "raised"}
    /\ running' = [running EXCEPT ![p] = TRUE]
    /\ scan' = [scan EXCEPT ![p] = Tasks]
    /\ Goto(p, "starting")
    /\ UNCHANGED <<hash, result, stream, target, batch, pending_ids, history>>

\* HGETALL of one key: not RUNNING, or RUNNING and not old enough.
ScanPass(p, t) ==
    /\ pc[p] = "starting"
    /\ t \in scan[p]
    /\ scan' = [scan EXCEPT ![p] = @ \ {t}]
    /\ UNCHANGED <<hash, result, stream, pc, running, target, batch, pending_ids, history>>

ScanFind(p, t) ==
    /\ pc[p] = "starting"
    /\ t \in scan[p]
    /\ hash[t].state = "RUNNING"
    /\ scan' = [scan EXCEPT ![p] = @ \ {t}]
    /\ target' = [target EXCEPT ![p] = {t}]
    /\ Goto(p, "recovering")
    /\ UNCHANGED <<hash, result, stream, running, batch, pending_ids, history>>

(* claim_task on what looked stale.  A record that comes back is counted and *)
(* forgotten: nothing runs the task.                                         *)
RecoverClaim(p) ==
    /\ pc[p] = "recovering"
    /\ LET stale == {t \in target[p] : CanClaim(hash[t])}
       IN  /\ hash' = [t \in Tasks |-> IF t \in stale THEN Claimed(hash[t], NameOf[p])
                                       ELSE hash[t]]
           /\ adopted' = adopted \cup stale
    /\ target' = [target EXCEPT ![p] = {}]
    /\ Goto(p, "starting")
    /\ UNCHANGED <<result, stream, running, scan, batch, pending_ids, faults, hit, cut,
                   failed, expired>>

Started(p) ==
    /\ pc[p] = "starting"
    /\ scan[p] = {}
    /\ Goto(p, "loop")
    /\ UNCHANGED <<hash, result, stream, worker, batch, pending_ids, history>>

-----------------------------------------------------------------------------
(* consume: the loop.                                                       *)

(* _reclaim_pending: XCLAIM moves idle pending entries to this consumer.    *)
(* The messages it answers with are not processed.                          *)
Reclaimed(p) ==
    \E idle \in SUBSET Pending :
        owner' = [i \in DOMAIN owner |-> IF i \in idle THEN NameOf[p] ELSE owner[i]]

ReclaimPending(p) ==
    /\ pc[p] = "loop"
    /\ running[p]
    /\ Reclaimed(p)
    /\ Goto(p, "read")
    /\ UNCHANGED <<hash, result, posted, taskOf, msg, worker, batch, pending_ids, history>>

\* Mutant: the flag is looked at between two messages of a batch too.
LeaveLoopMidBatch(p) ==
    /\ pc[p] \in {"loop", "next"}
    /\ ~running[p]
    /\ Goto(p, "stopped")
    /\ batch' = [batch EXCEPT ![p] = <<>>]
    /\ UNCHANGED <<hash, result, stream, worker, pending_ids, history>>

\* The loop condition is false, and nothing is left to wait for.
LeaveLoop(p) ==
    /\ pc[p] = "loop"
    /\ ~running[p]
    /\ pending_ids[p] = {}
    /\ Goto(p, "stopped")
    /\ UNCHANGED <<hash, result, stream, worker, batch, pending_ids, history>>

\* The messages XREADGROUP ">" delivers: the oldest, at most BatchSize of them.
Oldest == CHOOSE s \in SUBSET Waiting :
             /\ Cardinality(s) = IF Cardinality(Waiting) < BatchSize
                                 THEN Cardinality(Waiting) ELSE BatchSize
             /\ \A i \in s, j \in Waiting \ s : i < j

InOrder(ids) ==
    [k \in 1 .. Cardinality(ids) |->
        CHOOSE i \in ids : Cardinality({j \in ids : j < i}) = k - 1]

\* Mutant: XREADGROUP with NOACK.
DeliveredNoAck == "acked"

DeliveredAs == "pending"

\* From now on they are pending for this consumer.
Delivered(p, ids) ==
    /\ msg' = [i \in DOMAIN msg |-> IF i \in ids THEN DeliveredAs ELSE msg[i]]
    /\ owner' = [i \in DOMAIN owner |-> IF i \in ids THEN NameOf[p] ELSE owner[i]]

ReadGroup(p) ==
    /\ pc[p] = "read"
    /\ Waiting # {}
    /\ Delivered(p, Oldest)
    /\ batch' = [batch EXCEPT ![p] = InOrder(Oldest)]
    /\ Goto(p, "next")
    /\ UNCHANGED <<hash, result, posted, taskOf, worker, pending_ids, history>>

\* XREADGROUP timed out.
ReadNothing(p) ==
    /\ pc[p] = "read"
    /\ Waiting = {}
    /\ Goto(p, "loop")
    /\ UNCHANGED <<hash, result, stream, worker, batch, pending_ids, history>>

BatchDone(p) ==
    /\ pc[p] = "next"
    /\ batch[p] = <<>>
    /\ Goto(p, "loop")
    /\ UNCHANGED <<hash, result, stream, worker, batch, pending_ids, history>>

-----------------------------------------------------------------------------
(* _process_task on the first message of the batch, then XACK.  Consume      *)
(* swallows whatever _process_task raises and acknowledges all the same.     *)

Script(p, h) == hash' = [hash EXCEPT ![TaskOf(p)] = h]

\* The next message of the batch is in flight.
Begin(p) ==
    /\ pc[p] = "next"
    /\ batch[p] # <<>>
    /\ pending_ids' = [pending_ids EXCEPT ![p] = @ \cup {MsgOf(p)}]

ClaimTask(p) ==
    /\ Begin(p)
    /\ CanClaim(hash[TaskOf(p)])
    /\ Script(p, Claimed(hash[TaskOf(p)], NameOf[p]))
    /\ Goto(p, "handling")
    /\ UNCHANGED <<result, stream, worker, batch, history>>

\* Mutant: a refused claim goes on to the next message without XACK.
ClaimRefusedNoAck(p) ==
    /\ pc[p] = "next"
    /\ batch[p] # <<>>
    /\ ~CanClaim(hash[TaskOf(p)])
    /\ batch' = [batch EXCEPT ![p] = Tail(@)]
    /\ UNCHANGED <<hash, result, stream, pc, worker, pending_ids, history>>

\* claim_task answered None: the message is acknowledged all the same.
ClaimRefused(p) ==
    /\ Begin(p)
    /\ ~CanClaim(hash[TaskOf(p)])
    /\ Goto(p, "acking")
    /\ UNCHANGED <<hash, result, stream, worker, batch, history>>

\* The handler returned: complete_task's script, which may refuse.
HandlerReturns(p) ==
    /\ pc[p] = "handling"
    /\ IF OwnedBy(hash[TaskOf(p)], NameOf[p])
       THEN /\ Script(p, Completed(hash[TaskOf(p)]))
            /\ Goto(p, "storing")
       ELSE /\ hash' = hash
            /\ Goto(p, "acking")
    /\ UNCHANGED <<result, stream, worker, batch, pending_ids, history>>

\* Mutant: SETEX is skipped.
StoreNothing(p) ==
    /\ pc[p] = "storing"
    /\ Goto(p, "acking")
    /\ UNCHANGED <<hash, result, stream, worker, batch, pending_ids, history>>

\* complete_task's SETEX.
StoreResult(p) ==
    /\ pc[p] = "storing"
    /\ result' = [result EXCEPT ![TaskOf(p)] = "stored"]
    /\ Goto(p, "acking")
    /\ UNCHANGED <<hash, stream, worker, batch, pending_ids, history>>

\* The handler raised.
HandlerRaises(p) ==
    /\ pc[p] = "handling"
    /\ failed' = failed \cup {TaskOf(p)}
    /\ Goto(p, "failing")
    /\ UNCHANGED <<hash, result, stream, worker, batch, pending_ids,
                   faults, hit, cut, adopted, expired>>

\* fail_task's script, which may refuse; the exception is raised again.
FailTask(p) ==
    /\ pc[p] = "failing"
    /\ IF OwnedBy(hash[TaskOf(p)], NameOf[p])
       THEN Script(p, Failed(hash[TaskOf(p)]))
       ELSE hash' = hash
    /\ Goto(p, "acking")
    /\ UNCHANGED <<result, stream, worker, batch, pending_ids, history>>

Ack(p) ==
    /\ pc[p] = "acking"
    /\ msg' = [msg EXCEPT ![MsgOf(p)] = "acked"]
    /\ owner' = [owner EXCEPT ![MsgOf(p)] = NoName]
    /\ batch' = [batch EXCEPT ![p] = Tail(@)]
    /\ pending_ids' = [pending_ids EXCEPT ![p] = @ \ {MsgOf(p)}]
    /\ Goto(p, "next")
    /\ UNCHANGED <<hash, result, posted, taskOf, worker, history>>

-----------------------------------------------------------------------------
(* What a call that raises leaves behind: the command was executed and its   *)
(* answer lost, or it was not executed.                                      *)

Hit(p) ==
    /\ Fault("error")
    /\ hit' = hit \cup {TaskOf(p)}
    /\ UNCHANGED <<stream, worker, batch, cut, failed, adopted, expired>>

\* claim_task raises; it stands outside of _process_task's try.
ClaimRaises(p) ==
    /\ Begin(p)
    /\ Hit(p)
    /\ \/ hash' = hash
       \/ CanClaim(hash[TaskOf(p)]) /\ Script(p, Claimed(hash[TaskOf(p)], NameOf[p]))
    /\ Goto(p, "acking")
    /\ UNCHANGED result

\* complete_task raises, and is followed by fail_task.
CompleteRaises(p) ==
    /\ pc[p] = "handling"
    /\ Hit(p)
    /\ \/ hash' = hash
       \/ /\ OwnedBy(hash[TaskOf(p)], NameOf[p])
          /\ Script(p, Completed(hash[TaskOf(p)]))
    /\ Goto(p, "failing")
    /\ UNCHANGED <<result, pending_ids>>

\* So does its SETEX, or json.dumps of what the handler returned.
StoreRaises(p) ==
    /\ pc[p] = "storing"
    /\ Hit(p)
    /\ result' \in {result, [result EXCEPT ![TaskOf(p)] = "stored"]}
    /\ Goto(p, "failing")
    /\ UNCHANGED <<hash, pending_ids>>

\* fail_task raises in its turn.
FailRaises(p) ==
    /\ pc[p] = "failing"
    /\ Hit(p)
    /\ \/ hash' = hash
       \/ OwnedBy(hash[TaskOf(p)], NameOf[p]) /\ Script(p, Failed(hash[TaskOf(p)]))
    /\ Goto(p, "acking")
    /\ UNCHANGED <<result, pending_ids>>

InBatch(p, i) == \E k \in DOMAIN batch[p] : batch[p][k] = i
Batch(p) == {i \in DOMAIN msg : InBatch(p, i)}

(* XPENDING, XCLAIM, XREADGROUP or XACK raises what is no ResponseError:     *)
(* nothing catches it and the consume coroutine ends, its process does not.  *)
ConsumeRaises(p) ==
    /\ Fault("error")
    /\ \/ pc[p] = "loop" /\ running[p] /\ Reclaimed(p) /\ UNCHANGED <<msg, cut>>
       \/ pc[p] = "read" /\ UNCHANGED <<msg, owner, cut>>
       \/ pc[p] = "read" /\ Delivered(p, Oldest) /\ cut' = cut \cup Oldest
       \/ pc[p] = "acking" /\ cut' = cut \cup Batch(p) /\ UNCHANGED <<msg, owner>>
       \/ /\ pc[p] = "acking"
          /\ cut' = cut \cup Batch(p)
          /\ msg' = [msg EXCEPT ![MsgOf(p)] = "acked"]
          /\ owner' = [owner EXCEPT ![MsgOf(p)] = NoName]
    /\ Goto(p, "raised")
    /\ batch' = [batch EXCEPT ![p] = <<>>]
    /\ pending_ids' = [pending_ids EXCEPT ![p] = {}]
    /\ UNCHANGED <<hash, result, posted, taskOf, worker, hit, failed, adopted, expired>>

-----------------------------------------------------------------------------
\* stop: only the flag changes; the loop looks at it between two batches.
Stop(p) ==
    /\ running[p]
    /\ running' = [running EXCEPT ![p] = FALSE]
    /\ UNCHANGED <<hash, result, stream, pc, scan, target, batch, pending_ids, history>>

(* The process dies, or app.py's shutdown cancels the consume coroutine     *)
(* right after stop(): CancelledError is no Exception, so neither fail_task *)
(* nor XACK runs.  Redis keeps what was written.                            *)
Crash(p) ==
    /\ Fault("death")
    /\ pc[p] \notin {"down", "stopped"}
    /\ Goto(p, "down")
    /\ running' = [running EXCEPT ![p] = FALSE]
    /\ scan' = [scan EXCEPT ![p] = {}]
    /\ target' = [target EXCEPT ![p] = {}]
    /\ batch' = [batch EXCEPT ![p] = <<>>]
    /\ pending_ids' = [pending_ids EXCEPT ![p] = {}]
    /\ hit' = IF pc[p] \in {"handling", "storing", "failing"} THEN hit \cup {TaskOf(p)} ELSE hit
    /\ cut' = cut \cup Batch(p)
    /\ UNCHANGED <<hash, result, stream, failed, adopted, expired>>

(* Redis drops the hash 2 * result_ttl after create_task, the result        *)
(* result_ttl after SETEX.                                                  *)
ExpireHash(t) ==
    /\ Fault("expiry")
    /\ Exists(hash[t])
    /\ hash' = [hash EXCEPT ![t] = Missing]
    /\ expired' = expired \cup {t}
    /\ UNCHANGED <<result, stream, pc, worker, batch, pending_ids, hit, cut, failed, adopted>>

ExpireResult(t) ==
    /\ result[t] = "stored"
    /\ result' = [result EXCEPT ![t] = "lapsed"]
    /\ UNCHANGED <<hash, stream, pc, worker, batch, pending_ids, history>>

-----------------------------------------------------------------------------
\* What the event loop of a live process does next.
Work(p) ==
    \/ \E t \in Tasks : ScanPass(p, t) \/ ScanFind(p, t)
    \/ RecoverClaim(p)
    \/ Started(p)
    \/ ReclaimPending(p)
    \/ LeaveLoop(p)
    \/ ReadGroup(p)
    \/ ReadNothing(p)
    \/ BatchDone(p)
    \/ ClaimTask(p)
    \/ ClaimRefused(p)
    \/ HandlerReturns(p)
    \/ StoreResult(p)
    \/ HandlerRaises(p)
    \/ FailTask(p)
    \/ Ack(p)

RedisFails(p) ==
    \/ ClaimRaises(p)
    \/ CompleteRaises(p)
    \/ StoreRaises(p)
    \/ FailRaises(p)
    \/ ConsumeRaises(p)

Produce ==
    \E t \in Tasks : Enqueue(t) \/ \E max \in AttemptLimits : Register(t, max)

Next ==
    \/ Produce
    \/ \E p \in Procs : Work(p) \/ RedisFails(p) \/ Start(p) \/ Stop(p) \/ Crash(p)
    \/ \E t \in Tasks : ExpireHash(t) \/ ExpireResult(t)

Spec == Init /\ [][Next]_vars

(* A live process keeps running its coroutine, handlers end, and a process  *)
(* that died is restarted (restart: unless-stopped).  Nobody has to submit. *)
Fairness == \A p \in Procs : WF_vars(Work(p)) /\ WF_vars(pc[p] = "down" /\ Start(p))

FairSpec == Spec /\ Fairness

-----------------------------------------------------------------------------
(* Properties.                                                              *)

Handles(p, t) == pc[p] = "handling" /\ TaskOf(p) = t
InWork(p, t) == pc[p] \in {"handling", "failing"} /\ TaskOf(p) = t

(* A task is run by at most one process at a time, whatever stale-task       *)
(* recovery does beside a slow handler, unless its hash expired meanwhile.   *)
OneHandler ==
    \A p, q \in Procs, t \in Tasks \ expired :
        Handles(p, t) /\ Handles(q, t) => p = q

(* Every RUNNING task has a process that runs its handler or reports its     *)
(* failure, unless the recovery scan claimed it, its hash expired, or a      *)
(* death, a cancellation or a swallowed error cut off its own processing:    *)
(* what happens to other tasks is no excuse.                                 *)
RunningHasHandler ==
    \A t \in Tasks \ (expired \cup adopted \cup hit) :
        hash[t].state = "RUNNING" => \E p \in Procs : InWork(p, t)

(* A message is acknowledged only after its task was tried: a registered     *)
(* task still waiting to be claimed, one of whose messages is acknowledged,  *)
(* is one whose handler raised, or whose processing was cut off by a death   *)
(* or by an error that consume swallowed.                                    *)
AckedWasTried ==
    \A i \in DOMAIN msg :
        LET t == taskOf[i]
        IN  msg[i] = "acked" /\ hash[t].state = "PENDING" /\ t \notin expired
                => t \in failed \cup hit

(* Each delivered and unacknowledged message is in exactly one process's     *)
(* batch, unless its reader was cut off: a process that left its loop has    *)
(* left nothing pending.                                                     *)
PendingIsInFlight ==
    \A i \in Pending :
        /\ i \notin cut => \E p \in Procs : InBatch(p, i)
        /\ \A p, q \in Procs : InBatch(p, i) /\ InBatch(q, i) => p = q

(* A DONE task without a result is about to get it, had it for its time, or  *)
(* was cut off, by a death or an error, between complete_task's two round    *)
(* trips.                                                                    *)
DoneHasResult ==
    \A t \in Tasks \ hit :
        hash[t].state = "DONE" /\ result[t] = "absent"
            => \E p \in Procs : pc[p] = "storing" /\ TaskOf(p) = t

KeepsReading == []<>(\E p \in Procs : pc[p] = "read")

(* As long as no reader is cut off and some worker keeps reading, every      *)
(* message is acknowledged, whatever _process_task raises, unless MAXLEN     *)
(* trimmed it first.                                                         *)
WaitingIsServed ==
    KeepsReading /\ [](cut = {}) =>
        \A i \in Ids :
            (i \in Waiting) ~> (i \in DOMAIN msg /\ msg[i] \in {"acked", "trimmed"})

(* The module's promise: "message redelivered if not XACKed", so once every  *)
(* worker is up for good, a pending message is acknowledged in the end,      *)
(* though its first reader died.                                             *)
AtLeastOnce ==
    <>[](\A p \in Procs : running[p]) =>
        \A i \in Ids : (i \in Pending) ~> (i \in DOMAIN msg /\ msg[i] = "acked")

(* The module's promise: "XACK acknowledges after successful processing".    *)
AckedIsDone ==
    \A i \in DOMAIN msg : msg[i] = "acked" => hash[taskOf[i]].state = "DONE"

(* What becomes of the first promise: a message whose reader is gone is in   *)
(* nobody's batch and never will be again, whoever claims it: nothing is     *)
(* done with what XCLAIM answers.                                            *)
Abandoned(i) == i \in Pending /\ \A p \in Procs : ~InBatch(p, i)

AbandonedForEver == [][\A i \in Ids : Abandoned(i) => Abandoned(i)']_vars

(* And of the second: where the producer does not call create_task, no task  *)
(* is ever run, nor any result stored.                                       *)
RunsOnlyRegistered ==
    Registers \/ /\ \A t \in Tasks : ~Exists(hash[t])
                 /\ \A p \in Procs : pc[p] \notin {"handling", "storing"}
                 /\ \A t \in Tasks : result[t] = "absent"
-----------------------------------------------------------------------------
(* What everybody else sees of the tasks of the queue: with processes that    *)
(* die, messages that are delivered again and a scan that claims what it      *)
(* takes for stale, every step of a hash is a step of the abstract store.     *)
Handover == INSTANCE TaskHandover WITH
    phase <- [t \in Tasks |-> hash[t].state],
    holder <- [t \in Tasks |-> hash[t].worker],
    ticket <- [t \in Tasks |-> hash[t].epoch]

ImplementsHandover == Handover!HandoverSpec
=============================================================================
