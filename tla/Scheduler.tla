----------------------------- MODULE Scheduler -----------------------------
(***************************************************************************)
(* agent_runtime/scheduler.py: AdaptiveScheduler, a Redis sorted set of    *)
(* task ids beside one payload key per task.                               *)
(*                                                                         *)
(* Producers call enqueue, the worker loop of each process calls dequeue.  *)
(* Every Redis command is a round trip of its own, hence an action.        *)
(* Scores are wall-clock times and priorities, so ZPOPMAX may answer with  *)
(* any member; how many tasks one dequeue asks for follows the load, so it *)
(* may stop after any number.  Payloads outlive the model (seven days).    *)
(* requeue has no caller and is left out.                                  *)
(***************************************************************************)
EXTENDS Naturals, FiniteSets, Sequences

CONSTANTS
    Tasks,      \* task ids
    Producers,  \* callers of enqueue
    Workers,    \* processes, one worker loop each
    MaxDepth    \* MAX_QUEUE_DEPTH

ASSUME ProducersAssumption == IsFiniteSet(Producers)
ASSUME DepthAssumption == MaxDepth \in Nat

VARIABLES
    queue,      \* the members of scheduler:queue
    payload,    \* the tasks that have a scheduler:task:<id> key
    enqueuing,  \* where each enqueue is, and for which task
    dequeuing,  \* where each dequeue is: the task popped last, and those read
    accepted    \* history: tasks whose enqueue reached its end

schedVars == <<queue, payload, enqueuing, dequeuing, accepted>>

EnqueueIdle == [at |-> "idle"]
DequeueIdle == [at |-> "pop", tasks |-> <<>>]

SchedTypeOK ==
    /\ queue \in SUBSET Tasks /\ IsFiniteSet(queue)
    /\ payload \in SUBSET Tasks
    /\ enqueuing \in [Producers ->
          {EnqueueIdle} \cup [at : {"store", "add"}, task : Tasks]]
    /\ dequeuing \in [Workers ->
          [at : {"pop"}, tasks : Seq(Tasks)] \cup
          [at : {"read"}, task : Tasks, tasks : Seq(Tasks)]]
    /\ accepted \in SUBSET Tasks

SchedInit ==
    /\ queue = {}
    /\ payload = {}
    /\ enqueuing = [p \in Producers |-> EnqueueIdle]
    /\ dequeuing = [w \in Workers |-> DequeueIdle]
    /\ accepted = {}

-----------------------------------------------------------------------------
(* enqueue: ZCARD, SETEX of the payload, ZADD.                              *)

\* Mutant: the last task is let in at the limit.
HasRoomAtLimit == Cardinality(queue) <= MaxDepth

\* The backpressure check.
HasRoom == Cardinality(queue) < MaxDepth

CheckDepth(p, t) ==
    /\ enqueuing[p] = EnqueueIdle
    /\ HasRoom
    /\ enqueuing' = [enqueuing EXCEPT ![p] = [at |-> "store", task |-> t]]
    /\ UNCHANGED <<queue, payload, dequeuing, accepted>>

StorePayload(p) ==
    /\ enqueuing[p].at = "store"
    /\ payload' = payload \cup {enqueuing[p].task}
    /\ enqueuing' = [enqueuing EXCEPT ![p].at = "add"]
    /\ UNCHANGED <<queue, dequeuing, accepted>>

AddToQueue(p) ==
    /\ enqueuing[p].at = "add"
    /\ queue' = queue \cup {enqueuing[p].task}
    /\ accepted' = accepted \cup {enqueuing[p].task}
    /\ enqueuing' = [enqueuing EXCEPT ![p] = EnqueueIdle]
    /\ UNCHANGED <<payload, dequeuing>>

\* A Redis error, or the producer's death, between two commands.
EnqueueBreaks(p) ==
    /\ enqueuing[p] # EnqueueIdle
    /\ enqueuing' = [enqueuing EXCEPT ![p] = EnqueueIdle]
    /\ UNCHANGED <<queue, payload, dequeuing, accepted>>

Enqueue(p) ==
    \/ \E t \in Tasks : CheckDepth(p, t)
    \/ StorePayload(p) \/ AddToQueue(p) \/ EnqueueBreaks(p)

-----------------------------------------------------------------------------
(* dequeue: ZPOPMAX, then GET of the payload, for each task of the batch.   *)
Pop(w) ==
    /\ dequeuing[w].at = "pop"
    /\ \E t \in queue :
          /\ queue' = queue \ {t}
          /\ dequeuing' = [dequeuing EXCEPT
                ![w] = [at |-> "read", task |-> t, tasks |-> @.tasks]]
    /\ UNCHANGED <<payload, enqueuing, accepted>>

\* Mutant: the list is made anew for every task.
ReadPayloadKeepsLast(w) ==
    /\ dequeuing[w].at = "read"
    /\ LET t == dequeuing[w].task
       IN  dequeuing' = [dequeuing EXCEPT ![w] = [at |-> "pop", tasks |-> <<t>>]]
    /\ UNCHANGED <<queue, payload, enqueuing, accepted>>

\* A task without a payload is passed over.
ReadPayload(w) ==
    /\ dequeuing[w].at = "read"
    /\ LET t == dequeuing[w].task
       IN  dequeuing' = [dequeuing EXCEPT ![w] =
              [at |-> "pop",
               tasks |-> IF t \in payload THEN Append(@.tasks, t) ELSE @.tasks]]
    /\ UNCHANGED <<queue, payload, enqueuing, accepted>>

\* dequeue returns what it has; the worker loop takes it from there.
HandOver(w) ==
    /\ dequeuing[w].at = "pop" /\ dequeuing[w].tasks # <<>>
    /\ dequeuing' = [dequeuing EXCEPT ![w] = DequeueIdle]
    /\ UNCHANGED <<queue, payload, enqueuing, accepted>>

(* A Redis error between two commands, or the death of the process: what    *)
(* was popped is nowhere any more.  The loop starts over after a pause.     *)
DequeueBreaks(w) ==
    /\ dequeuing[w] # DequeueIdle
    /\ dequeuing' = [dequeuing EXCEPT ![w] = DequeueIdle]
    /\ UNCHANGED <<queue, payload, enqueuing, accepted>>

\* The tasks a dequeue has popped and not handed over.
InHand(w) ==
    {dequeuing[w].tasks[i] : i \in DOMAIN dequeuing[w].tasks} \cup
    (IF dequeuing[w].at = "read" THEN {dequeuing[w].task} ELSE {})

SchedNext ==
    \/ \E p \in Producers : Enqueue(p)
    \/ \E w \in Workers : Pop(w) \/ ReadPayload(w) \/ HandOver(w) \/ DequeueBreaks(w)

SchedSpec == SchedInit /\ [][SchedNext]_schedVars

-----------------------------------------------------------------------------
(* Depth is read in one command and the task added in another, so the limit *)
(* can be passed, but only by the other producers that are past the check.  *)
(* (AdaptiveScheduler.enqueue promises backpressure at MAX_QUEUE_DEPTH.)    *)
DepthBounded ==
    queue # {} => Cardinality(queue) < MaxDepth + Cardinality(Producers)
=============================================================================
