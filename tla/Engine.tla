------------------------------- MODULE Engine -------------------------------
(***************************************************************************)
(* agent_runtime/engine.py: worker_loop and its process_task coroutines,   *)
(* composed with the scheduler they take tasks from (Scheduler), the task  *)
(* store they claim them in (TaskScripts), the retry budgets of            *)
(* resilience.py and the event streams of event_store.py.                  *)
(*                                                                         *)
(* The coroutines of a process share one worker name in the store, its     *)
(* HOSTNAME.  The loop starts a coroutine for every task it takes (its     *)
(* semaphore guards nothing); here there is a pool of them, and a loop     *)
(* waits until enough of them are free.                                    *)
(*                                                                         *)
(* A Redis command may fail at any await, a process may die, and a         *)
(* coroutine may be cancelled as its process shuts down.  An exception in  *)
(* the try statement of the attempt loop goes to its except clauses, one   *)
(* before it or within those clauses ends the coroutine.                   *)
(*                                                                         *)
(* Left out: the DAG record and the metrics, which nothing here reads, the *)
(* key expiries, and the meta key of an event stream.                      *)
(***************************************************************************)
EXTENDS Scheduler, TaskScripts

CONSTANTS
    Registered,     \* tasks for which somebody called create_task
    NameOf,         \* the HOSTNAME of each process
    Coroutines,     \* bound: process_task coroutines at a time
    MaxRetries,     \* MAX_RETRIES, max_attempts of every retry budget
    MaxInputs       \* bound: calls of enqueue, retry_task and cancel_task,
                    \* transient failures of runs, Redis errors, cancelled
                    \* coroutines and dead processes, all together

ASSUME NameOfAssumption == NameOf \in [Workers -> Names]
ASSUME EngineBoundsAssumption == MaxRetries \in Nat /\ MaxInputs \in Nat

VARIABLES
    hash,       \* task_state:<id>
    budget,     \* attempt of retry_budget:<id>
    clock,      \* lamport:<id>
    stream,     \* events:<id>
    pc,         \* the next await of each coroutine
    job,        \* its local variables
    lost,       \* history: <<task, epoch>> of coroutines that ended half-way,
                \* epoch 0 if they had not claimed their task
    inputs      \* history: how much of MaxInputs is used up

engineVars == <<hash, budget, clock, stream, pc, job, lost>>
vars == <<schedVars, engineVars, inputs>>

PCs == {"free", "budget", "claim", "read", "tick", "add", "added", "running",
        "should_retry", "record", "rebudget", "complete", "fail", "cancel"}

Outcomes == {"COMPLETED", "FAILED"}
EventTypes == {"CLAIMED", "RETRIED"} \cup Outcomes

\* TRANSIENT stands for UNKNOWN too, PERMANENT for FATAL.
Kinds == {"TRANSIENT", "PERMANENT"}

(* A coroutine holds: its task, its process, the epoch its claim was given  *)
(* (history, 0 before), the epoch it read (claimed_epoch), the kind of its  *)
(* last failure, the event it is about to append, the tick it has for it,   *)
(* and which part of process_task it is in: before the try statement, in    *)
(* it, or in an except clause.                                              *)
Jobs == [task : Tasks, home : Workers, grant : Nat, seen : Nat, kind : Kinds,
         event : EventTypes, tick : Nat, in : {"before", "try", "except"}]
NoJob == [grant |-> 0]

Events == [tick : Nat, type : EventTypes, epoch : Nat, grant : Nat]

TypeOK ==
    /\ SchedTypeOK
    /\ hash \in [Tasks -> Hash]
    /\ budget \in [Tasks -> Nat]
    /\ clock \in [Tasks -> Nat]
    /\ stream \in [Tasks -> SUBSET Events]
    /\ pc \in [Coroutines -> PCs]
    /\ job \in [Coroutines -> Jobs \cup {NoJob}]
    /\ \A c \in Coroutines : pc[c] # "free" => job[c] \in Jobs
    /\ lost \subseteq Tasks \X Nat
    /\ inputs \in 0 .. MaxInputs

Init ==
    /\ SchedInit
    /\ \E max \in AttemptLimits :
          hash = [t \in Tasks |-> IF t \in Registered THEN Created(max) ELSE Missing]
    /\ budget = [t \in Tasks |-> 0]
    /\ clock = [t \in Tasks |-> 0]
    /\ stream = [t \in Tasks |-> {}]
    /\ pc = [c \in Coroutines |-> "free"]
    /\ job = [c \in Coroutines |-> NoJob]
    /\ lost = {}
    /\ inputs = 0

TaskOf(c) == job[c].task
OwnName(c) == NameOf[job[c].home]
Free == {c \in Coroutines : pc[c] = "free"}

Goto(c, place) == pc' = [pc EXCEPT ![c] = place]
Become(c, place, j) == Goto(c, place) /\ job' = [job EXCEPT ![c] = j]

\* The coroutine is through.
End(c) == Become(c, "free", NoJob)

\* What is lost when the coroutines cs end here.
Unfinished(cs) == {<<TaskOf(c), job[c].grant>> : c \in {k \in cs : pc[k] # "free"}}

Input == inputs < MaxInputs /\ inputs' = inputs + 1

-----------------------------------------------------------------------------
(* worker_loop: dequeue, then a coroutine per task.                         *)
NewJob(t, w) ==
    [task |-> t, home |-> w, grant |-> 0, seen |-> 0, kind |-> "TRANSIENT",
     event |-> "CLAIMED", tick |-> 0, in |-> "before"]

TakeTask(w) ==
    /\ Len(dequeuing[w].tasks) < Cardinality(Coroutines)
    /\ Pop(w) \/ ReadPayload(w)
    /\ UNCHANGED <<engineVars, inputs>>

StartTasks(w) ==
    /\ HandOver(w)
    /\ LET tasks == dequeuing[w].tasks
       IN  \E slot \in [DOMAIN tasks -> Free] :
             LET Given(c) == {i \in DOMAIN tasks : slot[i] = c}
             IN  /\ \A i, k \in DOMAIN tasks : slot[i] = slot[k] => i = k
                 /\ pc' = [c \in Coroutines |->
                             IF Given(c) # {} THEN "budget" ELSE pc[c]]
                 /\ job' = [c \in Coroutines |->
                              IF Given(c) = {} THEN job[c]
                              ELSE NewJob(tasks[CHOOSE i \in Given(c) : TRUE], w)]
    /\ UNCHANGED <<hash, budget, clock, stream, lost, inputs>>

LoopBreaks(w) ==
    /\ DequeueBreaks(w)
    /\ Input
    /\ lost' = lost \cup (InHand(w) \X {0})
    /\ UNCHANGED <<hash, budget, clock, stream, pc, job>>

-----------------------------------------------------------------------------
(* process_task up to the attempt loop.                                     *)
InitBudget(c) ==
    /\ pc[c] = "budget"
    /\ budget' = [budget EXCEPT ![TaskOf(c)] = 0]
    /\ Goto(c, "claim")
    /\ UNCHANGED <<schedVars, hash, clock, stream, job, lost, inputs>>

ClaimTask(c) ==
    /\ pc[c] = "claim"
    /\ LET h == hash[TaskOf(c)] IN
         \/ /\ CanClaim(h)
            /\ hash' = [hash EXCEPT ![TaskOf(c)] = Claimed(h, OwnName(c))]
            /\ Become(c, "read", [job[c] EXCEPT !.grant = h.epoch + 1])
         \/ ~CanClaim(h) /\ End(c) /\ UNCHANGED hash
    /\ UNCHANGED <<schedVars, budget, clock, stream, lost, inputs>>

ReadClaimedRecord(c) ==
    /\ pc[c] = "read"
    /\ Become(c, "tick", [job[c] EXCEPT !.seen = hash[TaskOf(c)].epoch])
    /\ UNCHANGED <<schedVars, hash, budget, clock, stream, lost, inputs>>

-----------------------------------------------------------------------------
(* Where an exception goes: to `except Exception' of the attempt loop, with *)
(* an error text that may classify either way (the text holds a traceback), *)
(* or out of the coroutine.                                                 *)

\* Mutant: TASK_CLAIMED is appended in the try statement.
CaughtEarlier(c) == job[c].in = "try" \/ (job[c].in = "before" /\ job[c].grant > 0)

Caught(c) == job[c].in = "try"

Raise(c) ==
    \/ /\ Caught(c)
       /\ \E k \in Kinds :
             Become(c, "should_retry",
                    [job[c] EXCEPT !.kind = k, !.in = "except", !.tick = 0])
       /\ UNCHANGED lost
    \/ /\ ~Caught(c)
       /\ End(c)
       /\ lost' = lost \cup Unfinished({c})

-----------------------------------------------------------------------------
(* EventStore.append: INCR of the task's clock, XADD under that number, SET *)
(* of the meta key.  A stream takes increasing numbers only.                *)
Tick(c) ==
    /\ pc[c] = "tick"
    /\ clock' = [clock EXCEPT ![TaskOf(c)] = @ + 1]
    /\ Become(c, "add", [job[c] EXCEPT !.tick = clock[TaskOf(c)] + 1])
    /\ UNCHANGED <<schedVars, hash, budget, stream, lost, inputs>>

Takes(events, tick) == \A e \in events : e.tick < tick

AddEvent(c) ==
    /\ pc[c] = "add"
    /\ LET j == job[c]
       IN  \/ /\ Takes(stream[j.task], j.tick)
              /\ stream' = [stream EXCEPT ![j.task] = @ \cup
                    {[tick |-> j.tick, type |-> j.event, epoch |-> j.seen,
                      grant |-> j.grant]}]
              /\ Become(c, "added", [j EXCEPT !.tick = 0])
              /\ UNCHANGED lost
           \/ /\ ~Takes(stream[j.task], j.tick)
              /\ Raise(c)
              /\ UNCHANGED stream
    /\ UNCHANGED <<schedVars, hash, budget, clock, inputs>>

\* An outcome ends the attempt loop, TASK_CLAIMED and TASK_RETRIED lead to a run.
AfterEvent(c) ==
    IF job[c].event \in Outcomes THEN End(c)
    ELSE Become(c, "running", [job[c] EXCEPT !.in = "try"])

EventAdded(c) ==
    /\ pc[c] = "added"
    /\ AfterEvent(c)
    /\ UNCHANGED <<schedVars, hash, budget, clock, stream, lost, inputs>>

-----------------------------------------------------------------------------
(* run(): succeeds, returns errors of its steps, raises (the planning call  *)
(* does), or is refused by the circuit breaker of the language model.       *)

\* Mutant: the event is appended without a call of the store.
ReportEventOnly(c, event, in) ==
    Become(c, "tick", [job[c] EXCEPT !.kind = "TRANSIENT", !.event = event, !.in = in])

\* On to complete_task, then fail_task if it failed, then the event.
Report(c, event, in) ==
    Become(c, "complete", [job[c] EXCEPT !.kind = "TRANSIENT", !.event = event, !.in = in])

RunEndsWell(c) ==
    /\ pc[c] = "running"
    /\ Report(c, "COMPLETED", "try")
    /\ UNCHANGED <<schedVars, hash, budget, clock, stream, lost, inputs>>

RunFails(c, in) ==
    /\ pc[c] = "running"
    /\ \/ /\ Become(c, "should_retry", [job[c] EXCEPT !.kind = "TRANSIENT", !.in = in])
          /\ Input
       \/ /\ Become(c, "should_retry", [job[c] EXCEPT !.kind = "PERMANENT", !.in = in])
          /\ UNCHANGED inputs
    /\ UNCHANGED <<schedVars, hash, budget, clock, stream, lost>>

CircuitIsOpen(c) ==
    /\ pc[c] = "running"
    /\ Report(c, "FAILED", "except")
    /\ UNCHANGED <<schedVars, hash, budget, clock, stream, lost, inputs>>

\* should_retry: the kind of the failure and what is left of the budget.
ShouldRetry(c) ==
    /\ pc[c] = "should_retry"
    /\ IF job[c].kind = "TRANSIENT" /\ budget[TaskOf(c)] < MaxRetries
       THEN Goto(c, "record") /\ UNCHANGED job
       ELSE Report(c, "FAILED", job[c].in)
    /\ UNCHANGED <<schedVars, hash, budget, clock, stream, lost, inputs>>

RecordFailure(c) ==
    /\ pc[c] = "record"
    /\ budget' = [budget EXCEPT ![TaskOf(c)] = @ + 1]
    /\ Goto(c, "rebudget")
    /\ UNCHANGED <<schedVars, hash, clock, stream, job, lost, inputs>>

\* A retry is an event when the run returned its errors, not when it raised.
RetryWith(c) ==
    IF job[c].in = "try" THEN Become(c, "tick", [job[c] EXCEPT !.event = "RETRIED"])
    ELSE Become(c, "running", [job[c] EXCEPT !.in = "try"])

\* init_budget again, with the attempt counter at 0.
Rebudget(c) ==
    /\ pc[c] = "rebudget"
    /\ budget' = [budget EXCEPT ![TaskOf(c)] = 0]
    /\ RetryWith(c)
    /\ UNCHANGED <<schedVars, hash, clock, stream, lost, inputs>>

-----------------------------------------------------------------------------
(* The outcome.  Whether the store accepts it is not looked at.             *)

CompleteTask(c) ==
    /\ pc[c] = "complete"
    /\ LET h == hash[TaskOf(c)]
       IN  hash' = [hash EXCEPT
              ![TaskOf(c)] = IF OwnedBy(h, OwnName(c)) THEN Completed(h) ELSE h]
    /\ Goto(c, IF job[c].event = "FAILED" THEN "fail" ELSE "tick")
    /\ UNCHANGED <<schedVars, budget, clock, stream, job, lost, inputs>>

FailTask(c) ==
    /\ pc[c] = "fail"
    /\ LET h == hash[TaskOf(c)]
       IN  hash' = [hash EXCEPT
              ![TaskOf(c)] = IF OwnedBy(h, OwnName(c)) THEN Failed(h) ELSE h]
    /\ Goto(c, "tick")
    /\ UNCHANGED <<schedVars, budget, clock, stream, job, lost, inputs>>

CancelOwnTask(c) ==
    /\ pc[c] = "cancel"
    /\ LET h == hash[TaskOf(c)]
       IN  hash' = [hash EXCEPT
              ![TaskOf(c)] = IF CanCancel(h, OwnName(c)) THEN Cancelled(h) ELSE h]
    /\ End(c)
    /\ UNCHANGED <<schedVars, budget, clock, stream, lost, inputs>>

-----------------------------------------------------------------------------
\* A Redis command, done or not, raises.
Breaks(c) ==
    /\ pc[c] \notin {"free", "running"}
    /\ Raise(c)
    /\ Input
    /\ UNCHANGED <<schedVars, hash, budget, clock, stream>>

\* Mutant: `except CancelledError' only leaves the loop.
CancelQuietly(c) == End(c) /\ UNCHANGED lost

\* CancelledError in the attempt loop.
CancelInLoop(c) ==
    Become(c, "cancel", [job[c] EXCEPT !.in = "except", !.tick = 0]) /\ UNCHANGED lost

IsCancelled(c) ==
    /\ pc[c] # "free"
    /\ \/ job[c].in = "try" /\ CancelInLoop(c)
       \/ /\ job[c].in # "try"
          /\ End(c)
          /\ lost' = lost \cup Unfinished({c})
    /\ Input
    /\ UNCHANGED <<schedVars, hash, budget, clock, stream>>

\* A process dies, and another takes its place.
Crash(w) ==
    /\ Input
    /\ DequeueBreaks(w) \/ (dequeuing[w] = DequeueIdle /\ UNCHANGED schedVars)
    /\ LET dead == {c \in Coroutines \ Free : job[c].home = w}
       IN  /\ lost' = lost \cup Unfinished(dead) \cup (InHand(w) \X {0})
           /\ pc' = [c \in Coroutines |-> IF c \in dead THEN "free" ELSE pc[c]]
           /\ job' = [c \in Coroutines |-> IF c \in dead THEN NoJob ELSE job[c]]
    /\ UNCHANGED <<hash, budget, clock, stream>>

(* Callers of the store outside the engine: retry_task and cancel_task.     *)
RetryTask(t, n) ==
    /\ OwnedBy(hash[t], n)
    /\ Input
    /\ hash' = [hash EXCEPT ![t] = Released(@)]
    /\ UNCHANGED <<schedVars, budget, clock, stream, pc, job, lost>>

CancelTask(t, n) ==
    /\ CanCancel(hash[t], n)
    /\ Input
    /\ hash' = [hash EXCEPT ![t] = Cancelled(@)]
    /\ UNCHANGED <<schedVars, budget, clock, stream, pc, job, lost>>

\* enqueue does not ask whether the task is registered.
Produce(p) ==
    /\ \/ /\ \E t \in Tasks : CheckDepth(p, t)
          /\ Input
       \/ /\ StorePayload(p) \/ AddToQueue(p) \/ EnqueueBreaks(p)
          /\ UNCHANGED inputs
    /\ UNCHANGED engineVars

\* What the event loop of its process runs of a coroutine.
Proceed(c) ==
    \/ InitBudget(c) \/ ClaimTask(c) \/ ReadClaimedRecord(c)
    \/ Tick(c) \/ AddEvent(c) \/ EventAdded(c)
    \/ RunEndsWell(c) \/ CircuitIsOpen(c)
    \/ \E in \in {"try", "except"} : RunFails(c, in)
    \/ ShouldRetry(c) \/ RecordFailure(c) \/ Rebudget(c)
    \/ CompleteTask(c) \/ FailTask(c) \/ CancelOwnTask(c)

Next ==
    \/ \E p \in Producers : Produce(p)
    \/ \E w \in Workers : TakeTask(w) \/ StartTasks(w) \/ LoopBreaks(w) \/ Crash(w)
    \/ \E c \in Coroutines : Proceed(c) \/ Breaks(c) \/ IsCancelled(c)
    \/ \E t \in Tasks, n \in Names : RetryTask(t, n) \/ CancelTask(t, n)

Spec == Init /\ [][Next]_vars

-----------------------------------------------------------------------------
(* A stream tells of the runs of a claim only after it told of the claim:   *)
(* whatever fails or is overtaken, no event precedes the TASK_CLAIMED of    *)
(* its grant.  (Replay rebuilds a task from its stream.)                    *)
ClaimComesFirst ==
    \A t \in Tasks : \A e \in stream[t] :
        \E first \in stream[t] :
            /\ first.type = "CLAIMED" /\ first.grant = e.grant
            /\ first.tick <= e.tick

(* When the stream of a task reports the outcome of a claim, the store no   *)
(* longer has the task running under that claim, though process_task never  *)
(* looks at what complete_task and fail_task answered.                      *)
OutcomeEventEndsRun ==
    \A t \in Tasks : \A e \in stream[t] :
        e.type \in Outcomes => ~(hash[t].state = "RUNNING" /\ hash[t].epoch = e.grant)

(* A task that enqueue accepted and nobody has claimed is in the queue with *)
(* its payload, in the hands of a dequeue or of a coroutine, or went down   *)
(* with one of them.                                                        *)
AcceptedIsNotLost ==
    \A t \in accepted :
        hash[t].state = "PENDING" /\ hash[t].epoch = 0 =>
            \/ t \in queue \cap payload
            \/ \E w \in Workers : t \in InHand(w)
            \/ \E c \in Coroutines : pc[c] \in {"budget", "claim"} /\ TaskOf(c) = t
            \/ <<t, 0>> \in lost

(* A task that is RUNNING for good has a cause: the coroutine that claimed  *)
(* it died, was cancelled where nothing catches that, or met an error       *)
(* outside the try statement.  Every other end releases the task.           *)
OrphansHaveCause ==
    \A t \in Tasks :
        hash[t].state = "RUNNING" =>
            \/ \E c \in Coroutines :
                  pc[c] # "free" /\ TaskOf(c) = t /\ job[c].grant = hash[t].epoch
            \/ <<t, hash[t].epoch>> \in lost

(* A run whose failure the stream reports did not succeed: the store does   *)
(* not keep as DONE the claim that a TASK_FAILED event names.  (The life    *)
(* cycle of the documents: a failed run goes back to PENDING or to FAILED.) *)
FailedIsNotDone ==
    \A t \in Tasks : \A e \in stream[t] :
        e.type = "FAILED" => ~(hash[t].state = "DONE" /\ hash[t].epoch = e.grant)
-----------------------------------------------------------------------------
(* What everybody else sees of the tasks the engine works on: whatever fails, *)
(* is cancelled, retried or dies, every step of a hash is a step of the       *)
(* abstract store, though complete_task and fail_task ask for the owner's     *)
(* name only and all coroutines of a process share one.                       *)
Handover == INSTANCE TaskHandover WITH
    phase <- [t \in Tasks |-> hash[t].state],
    holder <- [t \in Tasks |-> hash[t].worker],
    ticket <- [t \in Tasks |-> hash[t].epoch]

ImplementsHandover == Handover!HandoverSpec
=============================================================================
