---------------------------- MODULE EngineProofs ----------------------------
(***************************************************************************)
(* Theorems about Engine, for any tasks, producers, processes, coroutines  *)
(* and bounds.  The first are about Scheduler alone; the engine implements *)
(* it and so inherits them.                                                *)
(***************************************************************************)
EXTENDS Engine, FiniteSetTheorems, TLAPS

LEMMA SchedTypeInit == SchedInit => SchedTypeOK
  <1> SUFFICES ASSUME SchedInit PROVE SchedTypeOK
    OBVIOUS
  <1>1. IsFiniteSet({})
    BY FS_EmptySet
  <1>2. DequeueIdle \in [at : {"pop"}, tasks : Seq(Tasks)]
    BY DEF DequeueIdle
  <1> QED BY <1>1, <1>2 DEF SchedInit, SchedTypeOK

LEMMA SchedTypeKept == ASSUME SchedTypeOK, [SchedNext]_schedVars PROVE SchedTypeOK'
  <1> USE DEF SchedTypeOK
  <1>1. ASSUME NEW p \in Producers, NEW t \in Tasks, CheckDepth(p, t)
        PROVE  SchedTypeOK'
    BY <1>1 DEF CheckDepth
  <1>2. ASSUME NEW p \in Producers, StorePayload(p)
        PROVE  SchedTypeOK'
    <2>1. enqueuing[p] \in [at : {"store", "add"}, task : Tasks]
      BY <1>2 DEF StorePayload, EnqueueIdle
    <2> QED BY <1>2, <2>1 DEF StorePayload
  <1>3. ASSUME NEW p \in Producers, AddToQueue(p)
        PROVE  SchedTypeOK'
    <2>1. enqueuing[p].task \in Tasks
      BY <1>3 DEF AddToQueue, EnqueueIdle
    <2>2. IsFiniteSet(queue')
      BY <1>3, FS_AddElement DEF AddToQueue
    <2> QED BY <1>3, <2>1, <2>2 DEF AddToQueue
  <1>4. ASSUME NEW p \in Producers, EnqueueBreaks(p)
        PROVE  SchedTypeOK'
    BY <1>4 DEF EnqueueBreaks
  <1>5. ASSUME NEW w \in Workers, Pop(w)
        PROVE  SchedTypeOK'
    <2>1. PICK t \in queue :
             /\ queue' = queue \ {t}
             /\ dequeuing' = [dequeuing EXCEPT
                   ![w] = [at |-> "read", task |-> t, tasks |-> @.tasks]]
      BY <1>5 DEF Pop
    <2>2. IsFiniteSet(queue')
      BY <2>1, FS_RemoveElement
    <2>3. dequeuing[w].tasks \in Seq(Tasks)
      OBVIOUS
    <2>4. dequeuing' \in [Workers -> [at : {"read"}, task : Tasks, tasks : Seq(Tasks)]
                                     \cup [at : {"pop"}, tasks : Seq(Tasks)]]
      BY <2>1, <2>3
    <2> QED BY <1>5, <2>1, <2>2, <2>4 DEF Pop
  <1>6. ASSUME NEW w \in Workers, ReadPayload(w)
        PROVE  SchedTypeOK'
    <2>1. dequeuing[w] \in [at : {"read"}, task : Tasks, tasks : Seq(Tasks)]
      BY <1>6 DEF ReadPayload
    <2> DEFINE t == dequeuing[w].task
               s == IF t \in payload THEN Append(dequeuing[w].tasks, t)
                    ELSE dequeuing[w].tasks
    <2>2. s \in Seq(Tasks)
      <3>1. t \in Tasks /\ dequeuing[w].tasks \in Seq(Tasks)
        BY <2>1
      <3> QED BY <3>1
    <2>5. dequeuing' = [dequeuing EXCEPT ![w] = [at |-> "pop", tasks |-> s]]
      BY <1>6 DEF ReadPayload
    <2> HIDE DEF s
    <2>3. [at |-> "pop", tasks |-> s] \in [at : {"pop"}, tasks : Seq(Tasks)]
      BY <2>2
    <2>4. UNCHANGED <<queue, payload, enqueuing, accepted>>
      BY <1>6 DEF ReadPayload
    <2> QED BY <2>3, <2>4, <2>5
  <1>7. ASSUME NEW w \in Workers, HandOver(w) \/ DequeueBreaks(w)
        PROVE  SchedTypeOK'
    <2>1. DequeueIdle \in [at : {"pop"}, tasks : Seq(Tasks)]
      BY DEF DequeueIdle
    <2> QED BY <1>7, <2>1 DEF HandOver, DequeueBreaks
  <1>8. CASE UNCHANGED schedVars
    BY <1>8 DEF schedVars
  <1> QED BY <1>1, <1>2, <1>3, <1>4, <1>5, <1>6, <1>7, <1>8 DEF SchedNext, Enqueue

-----------------------------------------------------------------------------
\* The producers between the check and the end of enqueue.
Past == {p \in Producers : enqueuing[p] # EnqueueIdle}

(* Each of them may still add a task: they count like queued ones.           *)
Room ==
    \/ queue = {} /\ Past = {}
    \/ Cardinality(queue) + Cardinality(Past) < MaxDepth + Cardinality(Producers)

LEMMA PastIsFinite ==
    /\ IsFiniteSet(Past) /\ Cardinality(Past) \in Nat
    /\ Cardinality(Past) <= Cardinality(Producers)
    /\ Cardinality(Producers) \in Nat
  BY ProducersAssumption, FS_Subset, FS_CardinalityType DEF Past

LEMMA RoomInit == SchedInit => Room
  BY DEF SchedInit, Room, Past

LEMMA RoomKept == ASSUME SchedTypeOK, Room, [SchedNext]_schedVars PROVE Room'
  <1> USE DepthAssumption, PastIsFinite
  <1> DEFINE q == Cardinality(queue)
             k == Cardinality(Past)
  <1>a. IsFiniteSet(queue) /\ q \in Nat
    BY FS_CardinalityType DEF SchedTypeOK
  <1>b. IsFiniteSet(Past') /\ Cardinality(Past') \in Nat
        /\ Cardinality(Past') <= Cardinality(Producers)
    BY ProducersAssumption, FS_Subset, FS_CardinalityType DEF Past
  <1>c. SchedTypeOK' /\ IsFiniteSet(queue') /\ Cardinality(queue') \in Nat
    <2>1. SchedTypeOK'
      BY SchedTypeKept
    <2> QED BY <2>1, FS_CardinalityType DEF SchedTypeOK
  <1>1. ASSUME NEW p \in Producers, NEW t \in Tasks, CheckDepth(p, t)
        PROVE  Room'
    <2>1. q < MaxDepth /\ queue' = queue
      BY <1>1 DEF CheckDepth, HasRoom
    <2>2. Cardinality(queue') + Cardinality(Past') < MaxDepth + Cardinality(Producers)
      BY <2>1, <1>a, <1>b
    <2> QED BY <2>2 DEF Room
  <1>2. ASSUME NEW p \in Producers, StorePayload(p)
        PROVE  Room'
    <2>1. enqueuing[p] # EnqueueIdle /\ enqueuing'[p] # EnqueueIdle
      BY <1>2 DEF StorePayload, SchedTypeOK, EnqueueIdle
    <2>2. Past' = Past
      BY <1>2, <2>1 DEF StorePayload, Past, SchedTypeOK
    <2> QED BY <1>2, <2>2 DEF StorePayload, Room
  <1>3. ASSUME NEW p \in Producers, AddToQueue(p) \/ EnqueueBreaks(p)
        PROVE  Room'
    <2>1. p \in Past
      BY <1>3 DEF AddToQueue, EnqueueBreaks, Past, EnqueueIdle
    <2>2. Past' = Past \ {p}
      BY <1>3 DEF AddToQueue, EnqueueBreaks, Past, SchedTypeOK
    <2>3. Cardinality(Past') = k - 1
      BY <2>1, <2>2, FS_RemoveElement
    <2>4. Cardinality(queue') <= q + 1
      <3>1. queue' = queue \/ queue' = queue \cup {enqueuing[p].task}
        BY <1>3 DEF AddToQueue, EnqueueBreaks
      <3> DEFINE t == enqueuing[p].task
      <3>2. Cardinality(queue \cup {t}) <= q + 1
        <4> HIDE DEF t
        <4>1. Cardinality(queue \cup {t}) = IF t \in queue THEN q ELSE q + 1
          BY <1>a, FS_AddElement
        <4> QED BY <1>a, <4>1
      <3> QED BY <1>a, <3>1, <3>2
    <2>5. q + k < MaxDepth + Cardinality(Producers)
      BY <2>1 DEF Room
    <2> QED BY <1>a, <1>c, <2>3, <2>4, <2>5 DEF Room
  <1>4. ASSUME NEW w \in Workers, Pop(w)
        PROVE  Room'
    <2>1. PICK t \in queue : queue' = queue \ {t}
      BY <1>4 DEF Pop
    <2>2. Cardinality(queue') = q - 1
      BY <1>a, <2>1, FS_RemoveElement
    <2>3. Past' = Past
      BY <1>4 DEF Pop, Past
    <2> QED BY <1>a, <1>c, <2>1, <2>2, <2>3 DEF Room
  <1>5. CASE UNCHANGED <<queue, enqueuing>>
    BY <1>5 DEF Room, Past
  <1>6. ASSUME NEW w \in Workers, ReadPayload(w) \/ HandOver(w) \/ DequeueBreaks(w)
        PROVE  UNCHANGED <<queue, enqueuing>>
    BY <1>6 DEF ReadPayload, HandOver, DequeueBreaks
  <1> QED BY <1>1, <1>2, <1>3, <1>4, <1>5, <1>6 DEF SchedNext, Enqueue, schedVars

(* Every step of enqueue and dequeue keeps the scheduler's state well        *)
(* formed: AdaptiveScheduler's sorted set, payload keys and calls under way. *)
THEOREM SchedTypeCorrect == SchedSpec => []SchedTypeOK
  BY SchedTypeInit, SchedTypeKept, PTL DEF SchedSpec

(* The check-then-add of AdaptiveScheduler.enqueue lets the queue grow past  *)
(* MAX_QUEUE_DEPTH by less than the number of producers.                     *)
THEOREM SchedDepthBounded == SchedSpec => []DepthBounded
  <1>1. SchedTypeOK /\ Room => DepthBounded
    BY DepthAssumption, PastIsFinite, FS_CardinalityType
    DEF Room, DepthBounded, SchedTypeOK
  <1> QED
    BY <1>1, RoomInit, RoomKept, SchedTypeInit, SchedTypeKept, PTL DEF SchedSpec

-----------------------------------------------------------------------------
(* The engine.                                                             *)

Busy == Coroutines \ Free

Ended(t, g) == ~(hash[t].state = "RUNNING" /\ hash[t].epoch = g)

(* Epochs.  A RUNNING task has been claimed; no grant is newer than the      *)
(* epoch of its task, neither a coroutine's nor a recorded one; and where    *)
(* the grant is current and the task RUNNING, the task is under the          *)
(* coroutine's name.                                                         *)
RunningIsClaimed == \A t \in Tasks : hash[t].state = "RUNNING" => hash[t].epoch > 0
GrantsAreOld == \A c \in Busy : job[c].grant <= hash[TaskOf(c)].epoch
EventsAreOld == \A t \in Tasks : \A e \in stream[t] : e.grant <= hash[t].epoch
HolderOwns ==
    \A c \in Busy :
        Ended(TaskOf(c), job[c].grant) \/ hash[TaskOf(c)].worker = OwnName(c)

(* Control.  What a coroutine that has not come to the attempt loop looks    *)
(* like, and what one that reports an outcome has behind it.                 *)
Starting == {"budget", "claim", "read"}
Appending == {"tick", "add", "added"}

StartsWithClaim ==
    \A c \in Busy :
        /\ pc[c] \in Starting => job[c].in = "before" /\ job[c].event = "CLAIMED"
        /\ pc[c] \in {"budget", "claim"} => job[c].grant = 0
        /\ pc[c] = "complete" => job[c].event \in Outcomes
ReportsEndedRun ==
    \A c \in Busy :
        pc[c] = "fail" \/ (pc[c] \in Appending /\ job[c].event \in Outcomes) =>
            Ended(TaskOf(c), job[c].grant)

\* TASK_CLAIMED of the coroutine's grant is in the stream.
Announced(c) ==
    \E e \in stream[TaskOf(c)] : e.type = "CLAIMED" /\ e.grant = job[c].grant
AnnouncedFirst ==
    \A c \in Busy :
        \/ Announced(c)
        \/ /\ job[c].in = "before"
           /\ pc[c] \in Starting \cup {"tick", "add"} /\ job[c].event = "CLAIMED"

\* A payload is there before its task is, and stays.
PayloadFirst ==
    /\ queue \subseteq payload
    /\ \A p \in Producers : enqueuing[p].at = "add" => enqueuing[p].task \in payload
    /\ \A w \in Workers : dequeuing[w].at = "read" => dequeuing[w].task \in payload

IInv ==
    /\ TypeOK
    /\ RunningIsClaimed /\ GrantsAreOld /\ EventsAreOld /\ HolderOwns
    /\ StartsWithClaim /\ ReportsEndedRun /\ OutcomeEventEndsRun
    /\ OrphansHaveCause
    /\ AnnouncedFirst /\ ClaimComesFirst
    /\ PayloadFirst /\ AcceptedIsNotLost

-----------------------------------------------------------------------------
(* The scheduler's part of a step.                                           *)
LEMMA SchedulerStep == ASSUME [Next]_vars PROVE [SchedNext]_schedVars
  <1>1. ASSUME NEW p \in Producers, Produce(p)
        PROVE  SchedNext
    BY <1>1 DEF Produce, SchedNext, Enqueue
  <1>2. ASSUME NEW w \in Workers,
               TakeTask(w) \/ StartTasks(w) \/ LoopBreaks(w) \/ Crash(w)
        PROVE  SchedNext \/ UNCHANGED schedVars
    BY <1>2 DEF TakeTask, StartTasks, LoopBreaks, Crash, SchedNext
  <1>3. ASSUME NEW c \in Coroutines, Proceed(c) \/ Breaks(c) \/ IsCancelled(c)
        PROVE  UNCHANGED schedVars
    BY <1>3
    DEF Proceed, Breaks, IsCancelled, InitBudget, ClaimTask, ReadClaimedRecord,
        Tick, AddEvent, EventAdded, RunEndsWell, CircuitIsOpen, RunFails,
        ShouldRetry, RecordFailure, Rebudget, CompleteTask, FailTask, CancelOwnTask
  <1>4. ASSUME NEW t \in Tasks, NEW n \in Names, RetryTask(t, n) \/ CancelTask(t, n)
        PROVE  UNCHANGED schedVars
    BY <1>4 DEF RetryTask, CancelTask
  <1>5. CASE UNCHANGED vars
    BY <1>5 DEF vars
  <1> QED BY <1>1, <1>2, <1>3, <1>4, <1>5 DEF Next

(* The engine takes its tasks from the scheduler as scheduler.py gives them: *)
(* every behaviour of the worker loops is one of AdaptiveScheduler.          *)
THEOREM ImplementsScheduler == Spec => SchedSpec
  <1>1. Init => SchedInit
    BY DEF Init
  <1> QED BY <1>1, SchedulerStep, PTL DEF Spec, SchedSpec

(* So the queue stays below MAX_QUEUE_DEPTH plus the number of producers.    *)
THEOREM DepthBoundedHolds == Spec => []DepthBounded
  BY ImplementsScheduler, SchedDepthBounded, PTL

-----------------------------------------------------------------------------
(* Types.                                                                    *)
LEMMA ScriptTypes ==
    ASSUME NEW h \in Hash, NEW n \in Names
    PROVE  /\ Claimed(h, n) \in Hash /\ Completed(h) \in Hash
           /\ Failed(h) \in Hash /\ Released(h) \in Hash /\ Cancelled(h) \in Hash
  <1> USE DEF Hash, States, Terminal
  <1>1. Claimed(h, n) \in Hash /\ Completed(h) \in Hash /\ Cancelled(h) \in Hash
    BY DEF Claimed, Rewrite, Completed, Cancelled
  <1>2. \A k \in Hash : Released(k) \in Hash
    BY DEF Released, Rewrite
  <1>3. Failed(h) \in Hash
    <2> DEFINE counted == [h EXCEPT !.attempt = @ + 1]
    <2>1. counted \in Hash
      OBVIOUS
    <2>2. [counted EXCEPT !.state = "FAILED"] \in Hash
      BY <2>1
    <2>3. Released(counted) \in Hash
      BY <2>1, <1>2
    <2> QED BY <2>2, <2>3 DEF Failed
  <1> QED BY <1>1, <1>2, <1>3

ControlOK ==
    /\ pc \in [Coroutines -> PCs]
    /\ job \in [Coroutines -> Jobs \cup {NoJob}]
    /\ \A c \in Coroutines : pc[c] # "free" => job[c] \in Jobs

LEMMA Moved ==
    ASSUME ControlOK, NEW c \in Coroutines, NEW place \in PCs, NEW j \in Jobs,
           Become(c, place, j)
    PROVE  ControlOK'
  BY DEF ControlOK, Become, Goto

LEMMA Went ==
    ASSUME ControlOK, NEW c \in Coroutines, NEW place \in PCs,
           pc[c] # "free", Goto(c, place), job' = job
    PROVE  ControlOK'
  BY DEF ControlOK, Goto

LEMMA Stopped ==
    ASSUME ControlOK, NEW c \in Coroutines, End(c)
    PROVE  ControlOK'
  BY DEF ControlOK, End, Become, Goto, PCs

LEMMA Raised ==
    ASSUME ControlOK, NEW c \in Coroutines, pc[c] # "free", Raise(c),
           lost \subseteq Tasks \X Nat
    PROVE  ControlOK' /\ lost' \subseteq Tasks \X Nat
  <1>1. job[c] \in Jobs
    BY DEF ControlOK
  <1>2. CASE Caught(c)
    <2>1. PICK k \in Kinds :
             Become(c, "should_retry",
                    [job[c] EXCEPT !.kind = k, !.in = "except", !.tick = 0])
      BY <1>2 DEF Raise
    <2>2. [job[c] EXCEPT !.kind = k, !.in = "except", !.tick = 0] \in Jobs
      BY <1>1 DEF Jobs
    <2> QED BY <1>2, <2>1, <2>2, Moved DEF Raise, PCs
  <1>3. CASE ~Caught(c)
    <2>1. Unfinished({c}) \subseteq Tasks \X Nat
      BY <1>1 DEF Unfinished, TaskOf, Jobs
    <2> QED BY <1>3, <2>1, Stopped DEF Raise
  <1> QED BY <1>2, <1>3

LEMMA TypeInit == Init => TypeOK
  <1> SUFFICES ASSUME Init PROVE TypeOK
    OBVIOUS
  <1>1. SchedTypeOK
    BY SchedTypeInit DEF Init
  <1>2. hash \in [Tasks -> Hash]
    <2>1. Missing \in Hash
      BY DEF Missing, Hash, States, Terminal
    <2>2. \A max \in AttemptLimits : Created(max) \in Hash
      BY AttemptLimitsAssumption DEF Created, Hash, States, Terminal
    <2> QED BY <2>1, <2>2 DEF Init
  <1> QED
    BY <1>1, <1>2, EngineBoundsAssumption DEF Init, TypeOK, PCs

\* The parts of TypeOK a step of a coroutine may change.
LEMMA StepType ==
    ASSUME TypeOK, SchedTypeOK', ControlOK',
           hash' \in [Tasks -> Hash], budget' \in [Tasks -> Nat],
           clock' \in [Tasks -> Nat], stream' \in [Tasks -> SUBSET Events],
           lost' \subseteq Tasks \X Nat, inputs' \in 0 .. MaxInputs
    PROVE  TypeOK'
  BY DEF TypeOK, ControlOK

LEMMA TypeKept == ASSUME TypeOK, [Next]_vars PROVE TypeOK'
  <1> USE EngineBoundsAssumption
  <1>s. SchedTypeOK'
    BY SchedulerStep, SchedTypeKept DEF TypeOK
  <1>c. ControlOK
    BY DEF TypeOK, ControlOK
  <1>t. /\ hash \in [Tasks -> Hash] /\ budget \in [Tasks -> Nat]
        /\ clock \in [Tasks -> Nat] /\ stream \in [Tasks -> SUBSET Events]
        /\ lost \subseteq Tasks \X Nat /\ inputs \in 0 .. MaxInputs
    BY DEF TypeOK
  <1>i. Input => inputs' \in 0 .. MaxInputs
    BY <1>t DEF Input
  <1>1. ASSUME NEW p \in Producers, Produce(p)
        PROVE  TypeOK'
    <2>1. inputs' \in 0 .. MaxInputs
      BY <1>1, <1>i, <1>t DEF Produce
    <2> QED BY <1>1, <1>s, <1>c, <1>t, <2>1, StepType DEF Produce, engineVars, ControlOK
  <1>2. ASSUME NEW w \in Workers, TakeTask(w)
        PROVE  TypeOK'
    BY <1>2, <1>s, <1>c, <1>t, StepType DEF TakeTask, engineVars, ControlOK
  <1>3. ASSUME NEW w \in Workers, StartTasks(w)
        PROVE  TypeOK'
    <2> DEFINE tasks == dequeuing[w].tasks
    <2>1. tasks \in Seq(Tasks)
      BY DEF TypeOK, SchedTypeOK
    <2>2. PICK slot \in [DOMAIN tasks -> Free] :
             LET Given(c) == {i \in DOMAIN tasks : slot[i] = c}
             IN  /\ pc' = [c \in Coroutines |->
                             IF Given(c) # {} THEN "budget" ELSE pc[c]]
                 /\ job' = [c \in Coroutines |->
                              IF Given(c) = {} THEN job[c]
                              ELSE NewJob(tasks[CHOOSE i \in Given(c) : TRUE], w)]
      BY <1>3 DEF StartTasks
    <2> DEFINE Given(c) == {i \in DOMAIN tasks : slot[i] = c}
               TaskFor(c) == tasks[CHOOSE i \in Given(c) : TRUE]
    <2>3. \A c \in Coroutines : Given(c) # {} => NewJob(TaskFor(c), w) \in Jobs
      <3> SUFFICES ASSUME NEW c \in Coroutines, Given(c) # {}
                   PROVE  NewJob(TaskFor(c), w) \in Jobs
        OBVIOUS
      <3>1. (CHOOSE i \in Given(c) : TRUE) \in DOMAIN tasks
        OBVIOUS
      <3>2. TaskFor(c) \in Tasks
        BY <2>1, <3>1
      <3> HIDE DEF TaskFor
      <3> QED BY <3>2 DEF NewJob, Jobs, Kinds, EventTypes
    <2>4. ControlOK'
      <3> DEFINE J(c) == NewJob(TaskFor(c), w)
      <3>1. /\ pc' = [c \in Coroutines |-> IF Given(c) # {} THEN "budget" ELSE pc[c]]
            /\ job' = [c \in Coroutines |-> IF Given(c) = {} THEN job[c] ELSE J(c)]
        BY <2>2
      <3>2. \A c \in Coroutines : Given(c) # {} => J(c) \in Jobs
        BY <2>3
      <3> HIDE DEF J, Given
      <3> QED BY <3>1, <3>2, <1>c DEF ControlOK, PCs
    <2> QED BY <1>3, <1>s, <1>t, <2>4, StepType DEF StartTasks
  <1>4. ASSUME NEW w \in Workers, LoopBreaks(w) \/ Crash(w)
        PROVE  TypeOK'
    <2>1. InHand(w) \subseteq Tasks
      BY DEF InHand, TypeOK, SchedTypeOK
    <2>2. Unfinished({c \in Coroutines \ Free : job[c].home = w}) \subseteq Tasks \X Nat
      BY <1>c DEF Unfinished, TaskOf, Jobs, ControlOK, Free
    <2>3. lost' \subseteq Tasks \X Nat
      <3> DEFINE u == Unfinished({c \in Coroutines \ Free : job[c].home = w})
                 h == InHand(w)
      <3>1. lost' = lost \cup (h \X {0}) \/ lost' = lost \cup u \cup (h \X {0})
        BY <1>4 DEF LoopBreaks, Crash
      <3>2. h \subseteq Tasks /\ u \subseteq Tasks \X Nat
        BY <2>1, <2>2
      <3> HIDE DEF u, h
      <3> QED BY <1>t, <3>1, <3>2
    <2>4. inputs' \in 0 .. MaxInputs
      BY <1>4, <1>i DEF LoopBreaks, Crash
    <2>5. ControlOK'
      BY <1>4, <1>c DEF LoopBreaks, Crash, ControlOK, PCs
    <2> QED BY <1>4, <1>s, <1>t, <2>3, <2>4, <2>5, StepType DEF LoopBreaks, Crash
  <1>5. ASSUME NEW c \in Coroutines, Proceed(c) \/ Breaks(c) \/ IsCancelled(c)
        PROVE  TypeOK'
    <2> DEFINE t == TaskOf(c)
    <2>1. pc[c] # "free" /\ job[c] \in Jobs
      <3>1. pc[c] # "free"
        BY <1>5
        DEF Proceed, Breaks, IsCancelled, InitBudget, ClaimTask, ReadClaimedRecord,
            Tick, AddEvent, EventAdded, RunEndsWell, CircuitIsOpen, RunFails,
            ShouldRetry, RecordFailure, Rebudget, CompleteTask, FailTask, CancelOwnTask
      <3> QED BY <3>1, <1>c DEF ControlOK
    <2>2. t \in Tasks /\ OwnName(c) \in Names
      BY <2>1, NameOfAssumption DEF Jobs, TaskOf, OwnName
    <2>3. hash[t] \in Hash /\ clock[t] \in Nat /\ budget[t] \in Nat
      BY <2>2, <1>t
    <2>p. PCs \ {"free"} = {"budget", "claim", "read", "tick", "add", "added",
            "running", "should_retry", "record", "rebudget", "complete", "fail", "cancel"}
      BY DEF PCs
    <2>q. {"TRANSIENT", "PERMANENT"} = Kinds
          /\ {"CLAIMED", "RETRIED", "COMPLETED", "FAILED"} = EventTypes
      BY DEF Kinds, EventTypes, Outcomes
    <2>4. CASE InitBudget(c)
      <3>1. ControlOK'
        BY <2>4, <2>1, <2>p, <1>c, Went DEF InitBudget
      <3> QED BY <2>4, <3>1, <1>s, <1>t, StepType DEF InitBudget
    <2>5. CASE ClaimTask(c)
      <3>1. hash' \in [Tasks -> Hash]
        BY <2>5, <2>2, <2>3, <1>t, ScriptTypes DEF ClaimTask
      <3>2. [job[c] EXCEPT !.grant = hash[t].epoch + 1] \in Jobs
        BY <2>1, <2>3 DEF Jobs, Hash
      <3>3. ControlOK'
        BY <2>5, <2>p, <3>2, <1>c, Moved, Stopped DEF ClaimTask
      <3> QED BY <2>5, <3>1, <3>3, <1>s, <1>t, StepType DEF ClaimTask
    <2>6. CASE ReadClaimedRecord(c)
      <3>1. [job[c] EXCEPT !.seen = hash[t].epoch] \in Jobs
        BY <2>1, <2>3 DEF Jobs, Hash
      <3>2. ControlOK'
        BY <2>6, <2>p, <3>1, <1>c, Moved DEF ReadClaimedRecord
      <3> QED BY <2>6, <3>2, <1>s, <1>t, StepType DEF ReadClaimedRecord
    <2>7. CASE Tick(c)
      <3>1. [job[c] EXCEPT !.tick = clock[t] + 1] \in Jobs
        BY <2>1, <2>3 DEF Jobs
      <3>2. ControlOK'
        BY <2>7, <2>p, <3>1, <1>c, Moved DEF Tick
      <3>3. clock' \in [Tasks -> Nat]
        <4>1. clock' = [clock EXCEPT ![t] = clock[t] + 1] /\ clock[t] + 1 \in Nat
          BY <2>7, <2>3 DEF Tick
        <4> HIDE DEF t
        <4> QED BY <4>1, <1>t
      <3> QED BY <2>7, <3>2, <3>3, <1>s, <1>t, StepType DEF Tick
    <2>8. CASE AddEvent(c)
      <3>1. [job[c] EXCEPT !.tick = 0] \in Jobs
        BY <2>1 DEF Jobs
      <3>2. ControlOK' /\ lost' \subseteq Tasks \X Nat
        BY <2>8, <2>1, <2>p, <3>1, <1>c, <1>t, Moved, Raised DEF AddEvent
      <3>3. [tick |-> job[c].tick, type |-> job[c].event, epoch |-> job[c].seen,
             grant |-> job[c].grant] \in Events
        BY <2>1 DEF Jobs, Events
      <3>4. stream' \in [Tasks -> SUBSET Events]
        BY <2>8, <2>2, <3>3, <1>t DEF AddEvent, TaskOf
      <3> QED BY <2>8, <3>2, <3>4, <1>s, <1>t, StepType DEF AddEvent
    <2>9. CASE EventAdded(c)
      <3>1. [job[c] EXCEPT !.in = "try"] \in Jobs
        BY <2>1 DEF Jobs
      <3>2. ControlOK'
        BY <2>9, <2>p, <3>1, <1>c, Moved, Stopped DEF EventAdded, AfterEvent
      <3> QED BY <2>9, <3>2, <1>s, <1>t, StepType DEF EventAdded
    <2>10. \A e \in {"COMPLETED", "FAILED"}, in \in {"try", "except"} :
              Report(c, e, in) => ControlOK'
      <3> SUFFICES ASSUME NEW e \in {"COMPLETED", "FAILED"}, NEW in \in {"try", "except"},
                          Report(c, e, in)
                   PROVE  ControlOK'
        OBVIOUS
      <3>1. [job[c] EXCEPT !.kind = "TRANSIENT", !.event = e, !.in = in] \in Jobs
        BY <2>1, <2>q DEF Jobs
      <3> QED BY <3>1, <2>p, <1>c, Moved DEF Report
    <2>11. CASE RunEndsWell(c) \/ CircuitIsOpen(c)
      <3>1. ControlOK'
        BY <2>11, <2>10 DEF RunEndsWell, CircuitIsOpen
      <3> QED BY <2>11, <3>1, <1>s, <1>t, StepType DEF RunEndsWell, CircuitIsOpen
    <2>12. ASSUME NEW in \in {"try", "except"}, RunFails(c, in)
           PROVE  TypeOK'
      <3>1. \A k \in Kinds : [job[c] EXCEPT !.kind = k, !.in = in] \in Jobs
        BY <2>1 DEF Jobs
      <3>2. ControlOK'
        BY <2>12, <2>p, <2>q, <3>1, <1>c, Moved DEF RunFails
      <3>3. inputs' \in 0 .. MaxInputs
        BY <2>12, <1>i, <1>t DEF RunFails
      <3> QED BY <2>12, <3>2, <3>3, <1>s, <1>t, StepType DEF RunFails
    <2>13. CASE ShouldRetry(c)
      <3>1. CASE Goto(c, "record") /\ UNCHANGED job
        <4>1. ControlOK'
          BY <3>1, <2>1, <2>p, <1>c, Went
        <4> QED BY <2>13, <4>1, <1>s, <1>t, StepType DEF ShouldRetry
      <3>2. CASE Report(c, "FAILED", job[c].in)
        <4>1. [job[c] EXCEPT !.kind = "TRANSIENT", !.event = "FAILED", !.in = job[c].in] \in Jobs
          BY <2>1, <2>q DEF Jobs
        <4>2. ControlOK'
          BY <3>2, <4>1, <2>p, <1>c, Moved DEF Report
        <4> QED BY <2>13, <4>2, <1>s, <1>t, StepType DEF ShouldRetry
      <3> QED BY <2>13, <3>1, <3>2 DEF ShouldRetry
    <2>14. CASE RecordFailure(c)
      <3>1. ControlOK'
        BY <2>14, <2>1, <2>p, <1>c, Went DEF RecordFailure
      <3>2. budget' \in [Tasks -> Nat]
        <4>1. budget' = [budget EXCEPT ![t] = budget[t] + 1] /\ budget[t] + 1 \in Nat
          BY <2>14, <2>3 DEF RecordFailure
        <4> HIDE DEF t
        <4> QED BY <4>1, <1>t
      <3> QED BY <2>14, <3>1, <3>2, <1>s, <1>t, StepType DEF RecordFailure
    <2>15. CASE Rebudget(c)
      <3>1. [job[c] EXCEPT !.event = "RETRIED"] \in Jobs /\ [job[c] EXCEPT !.in = "try"] \in Jobs
        BY <2>1, <2>q DEF Jobs
      <3>2. ControlOK'
        BY <2>15, <2>p, <3>1, <1>c, Moved DEF Rebudget, RetryWith
      <3> QED BY <2>15, <3>2, <1>s, <1>t, StepType DEF Rebudget
    <2>16. CASE CompleteTask(c) \/ FailTask(c)
      <3>1. hash' \in [Tasks -> Hash]
        BY <2>16, <2>2, <2>3, <1>t, ScriptTypes DEF CompleteTask, FailTask
      <3>2. ControlOK'
        BY <2>16, <2>1, <2>p, <1>c, Went DEF CompleteTask, FailTask
      <3> QED BY <2>16, <3>1, <3>2, <1>s, <1>t, StepType DEF CompleteTask, FailTask
    <2>17. CASE CancelOwnTask(c)
      <3>1. hash' \in [Tasks -> Hash]
        BY <2>17, <2>2, <2>3, <1>t, ScriptTypes DEF CancelOwnTask
      <3>2. ControlOK'
        BY <2>17, <1>c, Stopped DEF CancelOwnTask
      <3> QED BY <2>17, <3>1, <3>2, <1>s, <1>t, StepType DEF CancelOwnTask
    <2>18. CASE Breaks(c)
      <3>1. ControlOK' /\ lost' \subseteq Tasks \X Nat
        BY <2>18, <2>1, <1>c, <1>t, Raised DEF Breaks
      <3> QED BY <2>18, <3>1, <1>s, <1>t, <1>i, StepType DEF Breaks
    <2>19. CASE IsCancelled(c)
      <3>1. [job[c] EXCEPT !.in = "except", !.tick = 0] \in Jobs
        BY <2>1 DEF Jobs
      <3>2. Unfinished({c}) \subseteq Tasks \X Nat
        BY <2>1 DEF Unfinished, TaskOf, Jobs
      <3>3. ControlOK'
        BY <2>19, <2>p, <3>1, <1>c, Moved, Stopped DEF IsCancelled, CancelInLoop
      <3>4. lost' \subseteq Tasks \X Nat
        BY <2>19, <3>2, <1>t DEF IsCancelled, CancelInLoop
      <3> QED BY <2>19, <3>3, <3>4, <1>s, <1>t, <1>i, StepType DEF IsCancelled
    <2> QED
      BY <1>5, <2>4, <2>5, <2>6, <2>7, <2>8, <2>9, <2>11, <2>12, <2>13, <2>14, <2>15,
         <2>16, <2>17, <2>18, <2>19 DEF Proceed
  <1>6. ASSUME NEW t \in Tasks, NEW n \in Names, RetryTask(t, n) \/ CancelTask(t, n)
        PROVE  TypeOK'
    <2>1. hash' \in [Tasks -> Hash]
      BY <1>6, <1>t, ScriptTypes DEF RetryTask, CancelTask
    <2> QED BY <1>6, <2>1, <1>s, <1>c, <1>t, <1>i, StepType DEF RetryTask, CancelTask, ControlOK
  <1>7. CASE UNCHANGED vars
    BY <1>7, <1>s, <1>c, <1>t, StepType DEF vars, engineVars, ControlOK
  <1> QED BY <1>1, <1>2, <1>3, <1>4, <1>5, <1>6, <1>7 DEF Next

(* The keys of the store, the budgets, the streams and the local variables   *)
(* of worker_loop and its coroutines stay well formed whatever interleaves.  *)
THEOREM TypeCorrect == Spec => []TypeOK
  BY TypeInit, TypeKept, PTL DEF Spec

-----------------------------------------------------------------------------
(* What a step may do to a hash, to a coroutine and to a stream.             *)

\* What every step of a coroutine expands to.
LEMMA IsBusy ==
    ASSUME TypeOK, NEW c \in Coroutines, Proceed(c) \/ Breaks(c) \/ IsCancelled(c)
    PROVE  /\ pc[c] # "free" /\ c \in Busy /\ job[c] \in Jobs
           /\ TaskOf(c) \in Tasks /\ hash[TaskOf(c)] \in Hash
  <1>1. pc[c] # "free"
    BY DEF Proceed, Breaks, IsCancelled, InitBudget, ClaimTask, ReadClaimedRecord,
        Tick, AddEvent, EventAdded, RunEndsWell, CircuitIsOpen, RunFails,
        ShouldRetry, RecordFailure, Rebudget, CompleteTask, FailTask, CancelOwnTask
  <1> QED BY <1>1 DEF TypeOK, Busy, Free, TaskOf, Jobs

Shelved(h, k) ==
    /\ k.state # "RUNNING"
    /\ k.epoch >= h.epoch
    /\ k.state = "PENDING" => k.epoch > 0

ClaimedBy(c) ==
    /\ c \in Coroutines /\ ClaimTask(c) /\ CanClaim(hash[TaskOf(c)])
    /\ hash' = [hash EXCEPT ![TaskOf(c)] = Claimed(@, OwnName(c))]
    /\ Become(c, "read", [job[c] EXCEPT !.grant = hash[TaskOf(c)].epoch + 1])

LEMMA ScriptsShelve ==
    ASSUME NEW h \in Hash
    PROVE  Shelved(h, Completed(h)) /\ Shelved(h, Failed(h))
           /\ Shelved(h, Released(h)) /\ Shelved(h, Cancelled(h))
  BY DEF Hash, Shelved, Completed, Failed, Released, Rewrite, Cancelled

LEMMA HashSteps ==
    ASSUME TypeOK, [Next]_vars
    PROVE  \/ \E c \in Coroutines : ClaimedBy(c)
           \/ \A t \in Tasks : hash'[t] = hash[t] \/ Shelved(hash[t], hash'[t])
  <1>t. hash \in [Tasks -> Hash]
    BY DEF TypeOK
  <1>1. ASSUME NEW p \in Producers, Produce(p)
        PROVE  hash' = hash
    BY <1>1 DEF Produce, engineVars
  <1>2. ASSUME NEW w \in Workers,
               TakeTask(w) \/ StartTasks(w) \/ LoopBreaks(w) \/ Crash(w)
        PROVE  hash' = hash
    BY <1>2 DEF TakeTask, StartTasks, LoopBreaks, Crash, engineVars
  <1>3. ASSUME NEW t \in Tasks, NEW n \in Names, RetryTask(t, n) \/ CancelTask(t, n)
        PROVE  \A k \in Tasks : hash'[k] = hash[k] \/ Shelved(hash[k], hash'[k])
    BY <1>3, <1>t, ScriptsShelve DEF RetryTask, CancelTask
  <1>4. ASSUME NEW c \in Coroutines, Proceed(c) \/ Breaks(c) \/ IsCancelled(c)
        PROVE  \/ ClaimedBy(c)
               \/ \A k \in Tasks : hash'[k] = hash[k] \/ Shelved(hash[k], hash'[k])
    <2>1. hash[TaskOf(c)] \in Hash
      BY <1>4, IsBusy
    <2>2. CASE ClaimTask(c)
      BY <2>2 DEF ClaimTask, ClaimedBy
    <2>3. CASE CompleteTask(c) \/ FailTask(c) \/ CancelOwnTask(c)
      BY <2>3, <2>1, <1>t, ScriptsShelve DEF CompleteTask, FailTask, CancelOwnTask
    <2>4. CASE ~(ClaimTask(c) \/ CompleteTask(c) \/ FailTask(c) \/ CancelOwnTask(c))
      <3>1. hash' = hash
        BY <1>4, <2>4
        DEF Proceed, Breaks, IsCancelled, InitBudget, ReadClaimedRecord, Tick,
            AddEvent, EventAdded, RunEndsWell, CircuitIsOpen, RunFails,
            ShouldRetry, RecordFailure, Rebudget
      <3> QED BY <3>1
    <2> QED BY <2>2, <2>3, <2>4
  <1>5. CASE UNCHANGED vars
    BY <1>5 DEF vars, engineVars
  <1> QED BY <1>1, <1>2, <1>3, <1>4, <1>5 DEF Next

\* A coroutine keeps its task, its process and its grant, but for a claim.
SameRun(c) ==
    /\ job'[c].task = job[c].task
    /\ job'[c].home = job[c].home
    /\ job'[c].grant = job[c].grant

Stays(c) == pc'[c] = pc[c] /\ job'[c] = job[c]

NewRun(c) ==
    /\ pc[c] = "free" /\ pc'[c] = "budget"
    /\ \E w \in Workers :
          /\ job'[c].home = w
          /\ job'[c].task \in {dequeuing[w].tasks[i] : i \in DOMAIN dequeuing[w].tasks}
    /\ job'[c].grant = 0
    /\ job'[c].event = "CLAIMED" /\ job'[c].in = "before"

Acts(c) == Proceed(c) \/ Breaks(c) \/ IsCancelled(c)

LEMMA OthersStay ==
    ASSUME TypeOK, NEW c \in Coroutines, Acts(c), NEW k \in Coroutines, k # c
    PROVE  Stays(k)
  BY DEF Acts, Proceed, Breaks, IsCancelled, InitBudget, ClaimTask, ReadClaimedRecord,
      Tick, AddEvent, EventAdded, RunEndsWell, CircuitIsOpen, RunFails,
      ShouldRetry, RecordFailure, Rebudget, CompleteTask, FailTask, CancelOwnTask,
      Raise, AfterEvent, Report, RetryWith, CancelInLoop, End, Become, Goto, TypeOK,
      Stays

LEMMA CoroutineSteps ==
    ASSUME TypeOK, [Next]_vars, NEW c \in Coroutines
    PROVE  \/ Stays(c) \/ NewRun(c) \/ Acts(c)
           \/ pc'[c] = "free" /\ job'[c] = NoJob /\ Unfinished({c}) \subseteq lost'
  <1>1. ASSUME NEW p \in Producers, Produce(p)
        PROVE  Stays(c)
    BY <1>1 DEF Produce, engineVars, Stays
  <1>2. ASSUME NEW w \in Workers, TakeTask(w) \/ LoopBreaks(w)
        PROVE  Stays(c)
    BY <1>2 DEF TakeTask, LoopBreaks, engineVars, Stays
  <1>3. ASSUME NEW w \in Workers, StartTasks(w)
        PROVE  Stays(c) \/ NewRun(c)
    <2> DEFINE tasks == dequeuing[w].tasks
    <2>1. PICK slot \in [DOMAIN tasks -> Free] :
             LET Given(k) == {i \in DOMAIN tasks : slot[i] = k}
             IN  /\ pc' = [k \in Coroutines |->
                             IF Given(k) # {} THEN "budget" ELSE pc[k]]
                 /\ job' = [k \in Coroutines |->
                              IF Given(k) = {} THEN job[k]
                              ELSE NewJob(tasks[CHOOSE i \in Given(k) : TRUE], w)]
      BY <1>3 DEF StartTasks
    <2> DEFINE given == {i \in DOMAIN tasks : slot[i] = c}
               i0 == CHOOSE i \in given : TRUE
    <2>2. CASE given = {}
      BY <2>1, <2>2 DEF Stays
    <2>3. CASE given # {}
      <3>1. i0 \in DOMAIN tasks /\ c \in Free
        BY <2>3
      <3>2. pc'[c] = "budget" /\ job'[c] = NewJob(tasks[i0], w)
        BY <2>1, <2>3
      <3>3. pc[c] = "free"
        BY <3>1 DEF Free
      <3>4. tasks[i0] \in {tasks[i] : i \in DOMAIN tasks}
        BY <3>1
      <3> HIDE DEF i0
      <3>5. /\ job'[c].home = w /\ job'[c].task = tasks[i0] /\ job'[c].grant = 0
            /\ job'[c].event = "CLAIMED" /\ job'[c].in = "before"
        BY <3>2 DEF NewJob
      <3> QED BY <3>2, <3>3, <3>4, <3>5 DEF NewRun
    <2> QED BY <2>2, <2>3
  <1>4. ASSUME NEW w \in Workers, Crash(w)
        PROVE  Stays(c) \/ (pc'[c] = "free" /\ job'[c] = NoJob /\ Unfinished({c}) \subseteq lost')
    <2> DEFINE dead == {k \in Coroutines \ Free : job[k].home = w}
    <2>1. CASE c \in dead
      <3>1. Unfinished({c}) \subseteq Unfinished(dead)
        BY <2>1 DEF Unfinished
      <3>2. pc'[c] = "free" /\ job'[c] = NoJob /\ Unfinished(dead) \subseteq lost'
        BY <1>4, <2>1 DEF Crash
      <3> QED BY <3>1, <3>2
    <2>2. CASE c \notin dead
      BY <1>4, <2>2 DEF Crash, Stays
    <2> QED BY <2>1, <2>2
  <1>5. ASSUME NEW k \in Coroutines, Acts(k)
        PROVE  Stays(c) \/ Acts(c)
    BY <1>5, OthersStay
  <1>6. ASSUME NEW t \in Tasks, NEW n \in Names, RetryTask(t, n) \/ CancelTask(t, n)
        PROVE  Stays(c)
    BY <1>6 DEF RetryTask, CancelTask, Stays
  <1>7. CASE UNCHANGED vars
    BY <1>7 DEF vars, engineVars, Stays
  <1> QED BY <1>1, <1>2, <1>3, <1>4, <1>5, <1>6, <1>7 DEF Next, Acts

LEMMA Becoming ==
    ASSUME TypeOK, NEW c \in Coroutines, NEW place, NEW j, Become(c, place, j)
    PROVE  pc'[c] = place /\ job'[c] = j
  BY DEF Become, Goto, TypeOK

LEMMA Going ==
    ASSUME TypeOK, NEW c \in Coroutines, NEW place, Goto(c, place)
    PROVE  pc'[c] = place
  BY DEF Goto, TypeOK

\* What an exception does to a coroutine.
LEMMA RaiseSteps ==
    ASSUME TypeOK, NEW c \in Busy, Raise(c)
    PROVE  \/ /\ SameRun(c) /\ pc'[c] = "should_retry" /\ job[c].in = "try"
              /\ job'[c].in = "except" /\ lost' = lost
           \/ /\ pc'[c] = "free" /\ job[c].in # "try"
              /\ lost' = lost \cup Unfinished({c})
  <1> c \in Coroutines /\ job[c] \in Jobs
    BY DEF Busy, Free, TypeOK
  <1>1. CASE Caught(c)
    <2>1. PICK k \in Kinds :
             Become(c, "should_retry",
                    [job[c] EXCEPT !.kind = k, !.in = "except", !.tick = 0])
      BY <1>1 DEF Raise
    <2>2. /\ pc'[c] = "should_retry"
          /\ job'[c] = [job[c] EXCEPT !.kind = k, !.in = "except", !.tick = 0]
      BY <2>1, Becoming
    <2>3. SameRun(c) /\ job'[c].in = "except"
      BY <2>2 DEF SameRun, Jobs
    <2> QED BY <1>1, <2>2, <2>3 DEF Raise, Caught
  <1>2. CASE ~Caught(c)
    BY <1>2, Becoming DEF Raise, Caught, End
  <1> QED BY <1>1, <1>2

LEMMA ReportSteps ==
    ASSUME TypeOK, NEW c \in Busy, NEW e, NEW in, Report(c, e, in)
    PROVE  SameRun(c) /\ pc'[c] = "complete" /\ job'[c].event = e /\ job'[c].in = in
  <1> c \in Coroutines /\ job[c] \in Jobs
    BY DEF Busy, Free, TypeOK
  <1> DEFINE j == [job[c] EXCEPT !.kind = "TRANSIENT", !.event = e, !.in = in]
  <1>1. pc'[c] = "complete" /\ job'[c] = j
    BY Becoming DEF Report
  <1>2. /\ j.task = job[c].task /\ j.home = job[c].home /\ j.grant = job[c].grant
        /\ j.event = e /\ j.in = in
    BY DEF Jobs
  <1> QED BY <1>1, <1>2 DEF SameRun

LEMMA CancelSteps ==
    ASSUME TypeOK, NEW c \in Busy, IsCancelled(c)
    PROVE  \/ /\ SameRun(c) /\ pc'[c] = "cancel" /\ lost' = lost
           \/ pc'[c] = "free" /\ lost' = lost \cup Unfinished({c})
  <1> c \in Coroutines /\ job[c] \in Jobs
    BY DEF Busy, Free, TypeOK
  <1>1. CASE CancelInLoop(c)
    <2> DEFINE j == [job[c] EXCEPT !.in = "except", !.tick = 0]
    <2>1. pc'[c] = "cancel" /\ job'[c] = j
      BY <1>1, Becoming DEF CancelInLoop
    <2>2. j.task = job[c].task /\ j.home = job[c].home /\ j.grant = job[c].grant
      BY DEF Jobs
    <2> QED BY <1>1, <2>1, <2>2 DEF SameRun, CancelInLoop
  <1>2. CASE ~CancelInLoop(c)
    BY <1>2, Becoming DEF IsCancelled, End
  <1> QED BY <1>1, <1>2

LEMMA RunSteps ==
    ASSUME TypeOK, [Next]_vars, NEW c \in Busy'
    PROVE  NewRun(c) \/ ClaimedBy(c) \/ (c \in Busy /\ SameRun(c))
  <1> USE Becoming, Going DEF SameRun
  <1>0. c \in Coroutines /\ pc'[c] # "free"
    BY DEF Busy, Free
  <1>1. CASE Stays(c)
    BY <1>1, <1>0 DEF Stays, Busy, Free
  <1>2. CASE Acts(c)
    <2>1. c \in Busy /\ job[c] \in Jobs
      BY <1>0, <1>2, IsBusy DEF Acts
    <2>2. CASE InitBudget(c) \/ RecordFailure(c) \/ CompleteTask(c) \/ FailTask(c)
      BY <2>1, <2>2 DEF InitBudget, RecordFailure, CompleteTask, FailTask
    <2>3. CASE ClaimTask(c)
      BY <1>0, <2>1, <2>3 DEF ClaimTask, ClaimedBy, End
    <2>4. CASE ReadClaimedRecord(c) \/ Tick(c)
      BY <1>0, <2>1, <2>4 DEF ReadClaimedRecord, Tick, Jobs
    <2>5. CASE AddEvent(c) \/ Breaks(c)
      <3>1. CASE Raise(c)
        BY <1>0, <2>1, <3>1, RaiseSteps
      <3>2. CASE Become(c, "added", [job[c] EXCEPT !.tick = 0])
        BY <1>0, <2>1, <3>2 DEF Jobs
      <3> QED BY <2>5, <3>1, <3>2 DEF AddEvent, Breaks
    <2>6. CASE EventAdded(c)
      <3>1. Become(c, "running", [job[c] EXCEPT !.in = "try"])
        BY <1>0, <2>6 DEF EventAdded, AfterEvent, End
      <3>2. job'[c] = [job[c] EXCEPT !.in = "try"]
        BY <1>0, <3>1
      <3> QED BY <2>1, <3>2 DEF Jobs
    <2>7. CASE RunEndsWell(c) \/ CircuitIsOpen(c) \/ ShouldRetry(c)
      BY <1>0, <2>1, <2>7, ReportSteps DEF RunEndsWell, CircuitIsOpen, ShouldRetry
    <2>8. ASSUME NEW in \in {"try", "except"}, RunFails(c, in)
          PROVE  SameRun(c)
      <3>1. PICK k \in Kinds : Become(c, "should_retry", [job[c] EXCEPT !.kind = k, !.in = in])
        BY <2>8 DEF RunFails, Kinds
      <3>2. job'[c] = [job[c] EXCEPT !.kind = k, !.in = in]
        BY <1>0, <3>1
      <3> QED BY <2>1, <3>2 DEF Jobs
    <2>9. CASE Rebudget(c)
      BY <1>0, <2>1, <2>9 DEF Rebudget, RetryWith, Jobs
    <2>10. CASE CancelOwnTask(c)
      BY <1>0, <2>10 DEF CancelOwnTask, End
    <2>11. CASE IsCancelled(c)
      BY <1>0, <2>1, <2>11, CancelSteps
    <2> QED
      BY <1>2, <2>1, <2>2, <2>3, <2>4, <2>5, <2>6, <2>7, <2>8, <2>9, <2>10, <2>11
      DEF Acts, Proceed
  <1> QED BY <1>0, <1>1, <1>2, CoroutineSteps

LEMMA EpochGrows ==
    ASSUME TypeOK, [Next]_vars, NEW t \in Tasks
    PROVE  hash'[t].epoch >= hash[t].epoch
  <1>t. hash \in [Tasks -> Hash] /\ hash[t].epoch \in Nat
    BY DEF TypeOK, Hash
  <1>1. ASSUME NEW c \in Coroutines, ClaimedBy(c)
        PROVE  hash'[t].epoch >= hash[t].epoch
    BY <1>t, <1>1 DEF ClaimedBy, Claimed, Rewrite
  <1>2. CASE Shelved(hash[t], hash'[t])
    BY <1>2 DEF Shelved
  <1> QED BY <1>t, <1>1, <1>2, HashSteps

LEMMA EndedStays ==
    ASSUME TypeOK, [Next]_vars, NEW t \in Tasks, NEW g \in Nat,
           g <= hash[t].epoch, Ended(t, g)
    PROVE  ~(hash'[t].state = "RUNNING" /\ hash'[t].epoch = g)
  <1>t. hash \in [Tasks -> Hash] /\ hash[t].epoch \in Nat
    BY DEF TypeOK, Hash
  <1>1. ASSUME NEW c \in Coroutines, ClaimedBy(c)
        PROVE  ~(hash'[t].state = "RUNNING" /\ hash'[t].epoch = g)
    BY <1>t, <1>1 DEF ClaimedBy, Claimed, Rewrite, Ended
  <1> QED BY <1>t, <1>1, HashSteps DEF Shelved, Ended

\* A stream grows by what a coroutine that is about to append one adds.
Appends(c, t) ==
    /\ c \in Coroutines /\ pc[c] = "add" /\ TaskOf(c) = t
    /\ Takes(stream[t], job[c].tick)
    /\ stream'[t] = stream[t] \cup
          {[tick |-> job[c].tick, type |-> job[c].event, epoch |-> job[c].seen,
            grant |-> job[c].grant]}
    /\ Become(c, "added", [job[c] EXCEPT !.tick = 0])
    /\ hash' = hash

LEMMA StreamSteps ==
    ASSUME TypeOK, [Next]_vars, NEW t \in Tasks
    PROVE  stream'[t] = stream[t] \/ \E c \in Coroutines : Appends(c, t)
  <1>1. ASSUME NEW c \in Coroutines, AddEvent(c)
        PROVE  stream'[t] = stream[t] \/ Appends(c, t)
    BY <1>1 DEF AddEvent, Appends, TaskOf, TypeOK
  <1>2. ASSUME NEW c \in Coroutines, Acts(c), ~AddEvent(c)
        PROVE  stream' = stream
    BY <1>2
    DEF Acts, Proceed, Breaks, IsCancelled, InitBudget, ClaimTask, ReadClaimedRecord,
        Tick, EventAdded, RunEndsWell, CircuitIsOpen, RunFails, ShouldRetry,
        RecordFailure, Rebudget, CompleteTask, FailTask, CancelOwnTask
  <1>3. CASE ~\E c \in Coroutines : Acts(c)
    BY <1>3 DEF Next, Acts, Produce, TakeTask, StartTasks, LoopBreaks, Crash, RetryTask,
        CancelTask, engineVars, vars
  <1> QED BY <1>1, <1>2, <1>3

-----------------------------------------------------------------------------
(* Epochs.                                                                   *)
EpochsOK == RunningIsClaimed /\ GrantsAreOld /\ EventsAreOld /\ HolderOwns

LEMMA JobTypes ==
    ASSUME TypeOK, NEW c \in Busy
    PROVE  /\ c \in Coroutines /\ job[c] \in Jobs /\ TaskOf(c) \in Tasks
           /\ job[c].grant \in Nat /\ hash[TaskOf(c)] \in Hash
  BY DEF TypeOK, Busy, Free, Jobs, TaskOf

\* A claim starts an epoch under the coroutine's name.
LEMMA ClaimSteps ==
    ASSUME TypeOK, NEW c, ClaimedBy(c)
    PROVE  /\ c \in Busy /\ pc[c] = "claim" /\ pc'[c] = "read"
           /\ job'[c].task = job[c].task /\ job'[c].home = job[c].home
           /\ job'[c].in = job[c].in /\ job'[c].event = job[c].event
           /\ job'[c].grant = hash[TaskOf(c)].epoch + 1
           /\ hash[TaskOf(c)].state = "PENDING"
           /\ hash'[TaskOf(c)].state = "RUNNING"
           /\ hash'[TaskOf(c)].epoch = hash[TaskOf(c)].epoch + 1
           /\ hash'[TaskOf(c)].worker = OwnName(c)
           /\ \A t \in Tasks \ {TaskOf(c)} : hash'[t] = hash[t]
           /\ stream' = stream /\ lost' = lost
  <1>1. c \in Busy /\ job[c] \in Jobs /\ TaskOf(c) \in Tasks /\ hash \in [Tasks -> Hash]
    BY IsBusy DEF ClaimedBy, Proceed, TypeOK
  <1> DEFINE j == [job[c] EXCEPT !.grant = hash[TaskOf(c)].epoch + 1]
  <1>2. pc'[c] = "read" /\ job'[c] = j
    BY Becoming DEF ClaimedBy
  <1>3. /\ j.task = job[c].task /\ j.home = job[c].home /\ j.in = job[c].in
        /\ j.event = job[c].event /\ j.grant = hash[TaskOf(c)].epoch + 1
    BY <1>1 DEF Jobs
  <1> HIDE DEF j
  <1> QED BY <1>1, <1>2, <1>3 DEF ClaimedBy, CanClaim, Claimed, Rewrite, ClaimTask

LEMMA EpochsKept == ASSUME TypeOK, [Next]_vars, EpochsOK PROVE EpochsOK'
  <1> USE DEF EpochsOK
  <1>t. TypeOK' /\ hash \in [Tasks -> Hash] /\ hash' \in [Tasks -> Hash]
    BY TypeKept DEF TypeOK
  <1>n. \A t \in Tasks : hash[t].epoch \in Nat /\ hash'[t].epoch \in Nat
    BY <1>t DEF Hash
  <1>1. RunningIsClaimed'
    <2> SUFFICES ASSUME NEW t \in Tasks, hash'[t].state = "RUNNING"
                 PROVE  hash'[t].epoch > 0
      BY DEF RunningIsClaimed
    <2>1. ASSUME NEW c \in Coroutines, ClaimedBy(c)
          PROVE  hash'[t].epoch > 0
      BY <2>1, <1>n, ClaimSteps, JobTypes DEF RunningIsClaimed
    <2>2. CASE hash'[t] = hash[t]
      BY <2>2 DEF RunningIsClaimed
    <2> QED BY <2>1, <2>2, HashSteps DEF Shelved
  <1>2. GrantsAreOld'
    <2> SUFFICES ASSUME NEW c \in Busy'
                 PROVE  job'[c].grant <= hash'[TaskOf(c)'].epoch
      BY DEF GrantsAreOld
    <2>0. TaskOf(c)' = job'[c].task /\ TaskOf(c)' \in Tasks
      BY <1>t, JobTypes DEF TaskOf, Busy, Free, TypeOK, Jobs
    <2>1. CASE NewRun(c)
      BY <2>0, <2>1, <1>n DEF NewRun
    <2>2. CASE ClaimedBy(c)
      BY <2>0, <2>2, <1>n, ClaimSteps, JobTypes DEF TaskOf
    <2>3. CASE c \in Busy /\ SameRun(c)
      <3>1. TaskOf(c)' = TaskOf(c) /\ job'[c].grant = job[c].grant
        BY <2>3 DEF SameRun, TaskOf
      <3>2. job[c].grant <= hash[TaskOf(c)].epoch /\ job[c].grant \in Nat
        BY <2>3, JobTypes DEF GrantsAreOld
      <3>3. hash'[TaskOf(c)].epoch >= hash[TaskOf(c)].epoch
        BY <2>0, <3>1, EpochGrows
      <3> QED BY <2>0, <3>1, <3>2, <3>3, <1>n
    <2> QED BY <2>1, <2>2, <2>3, RunSteps
  <1>3. EventsAreOld'
    <2> SUFFICES ASSUME NEW t \in Tasks, NEW e \in stream'[t]
                 PROVE  e.grant <= hash'[t].epoch
      BY DEF EventsAreOld
    <2>0. e.grant \in Nat
      BY <1>t DEF TypeOK, Events
    <2>1. e.grant <= hash[t].epoch
      <3>1. CASE e \in stream[t]
        BY <3>1 DEF EventsAreOld
      <3>2. ASSUME NEW c \in Coroutines, Appends(c, t), e \notin stream[t]
            PROVE  e.grant <= hash[t].epoch
        <4>1. e.grant = job[c].grant /\ c \in Busy /\ TaskOf(c) = t
          BY <3>2 DEF Appends, Busy, Free
        <4> QED BY <4>1 DEF GrantsAreOld
      <3> QED BY <3>1, <3>2, StreamSteps
    <2>2. hash'[t].epoch >= hash[t].epoch
      BY EpochGrows
    <2> QED BY <2>0, <2>1, <2>2, <1>n
  <1>4. HolderOwns'
    <2> SUFFICES ASSUME NEW c \in Busy',
                        hash'[TaskOf(c)'].state = "RUNNING",
                        hash'[TaskOf(c)'].epoch = job'[c].grant
                 PROVE  hash'[TaskOf(c)'].worker = OwnName(c)'
      BY DEF HolderOwns, Ended
    <2> DEFINE t == TaskOf(c)'
    <2>0. t = job'[c].task /\ t \in Tasks
      BY <1>t, JobTypes DEF TaskOf, Busy, Free, TypeOK, Jobs
    <2>1. CASE NewRun(c)
      BY <2>0, <2>1, <1>1 DEF NewRun, RunningIsClaimed
    <2>2. CASE ClaimedBy(c)
      BY <2>0, <2>2, ClaimSteps DEF TaskOf, OwnName
    <2>3. CASE c \in Busy /\ SameRun(c)
      <3>1. t = TaskOf(c) /\ job'[c].grant = job[c].grant /\ OwnName(c)' = OwnName(c)
        BY <2>3 DEF SameRun, TaskOf, OwnName
      <3>2. job[c].grant <= hash[t].epoch /\ job[c].grant \in Nat
        BY <2>3, <3>1, JobTypes DEF GrantsAreOld
      <3>3. ~Ended(t, job[c].grant)
        BY <2>0, <3>1, <3>2, EndedStays
      <3>4. hash[t].worker = OwnName(c)
        BY <2>3, <3>1, <3>3 DEF HolderOwns
      <3>5. ASSUME NEW k \in Coroutines, ClaimedBy(k)
            PROVE  hash'[t] = hash[t]
        BY <2>0, <3>3, <3>5, ClaimSteps DEF Ended
      <3>6. hash'[t] = hash[t]
        BY <2>0, <3>5, HashSteps DEF Shelved
      <3> QED BY <3>1, <3>4, <3>6
    <2> QED BY <2>1, <2>2, <2>3, RunSteps
  <1> QED BY <1>1, <1>2, <1>3, <1>4

-----------------------------------------------------------------------------
(* Control.                                                                  *)

\* Before TASK_CLAIMED is in the stream.
Early == Starting \cup {"tick", "add"}

\* From where to where a coroutine goes, and with which event in hand.
Moves(c) ==
    \/ pc[c] = "budget" /\ pc'[c] = "claim" /\ job'[c] = job[c]
    \/ ClaimedBy(c)
    \/ /\ <<pc[c], pc'[c]>> \in {<<"read", "tick">>, <<"tick", "add">>}
       /\ job'[c].event = job[c].event /\ job'[c].in = job[c].in
    \/ /\ pc[c] = "add" /\ pc'[c] = "added"
       /\ job'[c].event = job[c].event /\ Appends(c, TaskOf(c))
    \/ pc[c] = "added" /\ pc'[c] = "running"
    \/ /\ pc'[c] \in {"should_retry", "record", "rebudget", "cancel"}
       /\ job[c].in = "try" \/ pc[c] \notin Early
    \/ pc[c] = "rebudget" /\ pc'[c] = "running"
    \/ pc[c] = "rebudget" /\ pc'[c] = "tick" /\ job'[c].event = "RETRIED"
    \/ /\ pc[c] \in {"running", "should_retry"} /\ pc'[c] = "complete"
       /\ job'[c].event \in Outcomes
    \/ CompleteTask(c) /\ pc'[c] \in {"fail", "tick"} /\ job'[c] = job[c]
    \/ pc[c] = "fail" /\ pc'[c] = "tick" /\ job'[c] = job[c]

LEMMA ControlSteps ==
    ASSUME TypeOK, NEW c \in Coroutines, Acts(c), pc'[c] # "free"
    PROVE  Moves(c)
  <1> USE Becoming, Going
  <1>1. c \in Busy /\ job[c] \in Jobs /\ stream \in [Tasks -> SUBSET Events]
        /\ TaskOf(c) \in Tasks
    BY IsBusy DEF Acts, TypeOK
  <1>2. CASE InitBudget(c) \/ RecordFailure(c) \/ CompleteTask(c) \/ FailTask(c)
    BY <1>1, <1>2
    DEF InitBudget, RecordFailure, CompleteTask, FailTask, Moves, Early, Starting
  <1>3. CASE ClaimTask(c)
    BY <1>3 DEF ClaimTask, ClaimedBy, End, Moves
  <1>4. CASE ReadClaimedRecord(c)
    <2> DEFINE j == [job[c] EXCEPT !.seen = hash[TaskOf(c)].epoch]
    <2>1. pc[c] = "read" /\ pc'[c] = "tick" /\ job'[c] = j
      BY <1>4 DEF ReadClaimedRecord
    <2>2. j.event = job[c].event /\ j.in = job[c].in
      BY <1>1 DEF Jobs
    <2> HIDE DEF j
    <2> QED BY <2>1, <2>2 DEF Moves
  <1>5. CASE Tick(c)
    <2> DEFINE j == [job[c] EXCEPT !.tick = clock[TaskOf(c)] + 1]
    <2>1. pc[c] = "tick" /\ pc'[c] = "add" /\ job'[c] = j
      BY <1>5 DEF Tick
    <2>2. j.event = job[c].event /\ j.in = job[c].in
      BY <1>1 DEF Jobs
    <2> HIDE DEF j
    <2> QED BY <2>1, <2>2 DEF Moves
  <1>6. CASE AddEvent(c) \/ Breaks(c)
    <2>1. CASE Raise(c)
      BY <1>1, <2>1, RaiseSteps DEF Moves
    <2>2. CASE ~Raise(c)
      <3> DEFINE j == [job[c] EXCEPT !.tick = 0]
      <3>1. AddEvent(c) /\ Become(c, "added", j)
        BY <1>6, <2>2 DEF AddEvent, Breaks
      <3>2. pc[c] = "add" /\ pc'[c] = "added" /\ job'[c] = j
        BY <3>1 DEF AddEvent
      <3>3. j.event = job[c].event
        BY <1>1 DEF Jobs
      <3>4. Appends(c, TaskOf(c))
        BY <3>1, <2>2, <1>1 DEF AddEvent, Appends, TaskOf
      <3> HIDE DEF j
      <3> QED BY <3>2, <3>3, <3>4 DEF Moves
    <2> QED BY <2>1, <2>2
  <1>7. CASE EventAdded(c)
    BY <1>7 DEF EventAdded, AfterEvent, End, Moves
  <1>8. CASE RunEndsWell(c) \/ CircuitIsOpen(c) \/ ShouldRetry(c)
    BY <1>1, <1>8, ReportSteps
    DEF RunEndsWell, CircuitIsOpen, ShouldRetry, Moves, Outcomes, Early, Starting
  <1>9. ASSUME NEW in \in {"try", "except"}, RunFails(c, in)
        PROVE  Moves(c)
    BY <1>9 DEF RunFails, Moves, Early, Starting
  <1>10. CASE Rebudget(c)
    <2> DEFINE j == [job[c] EXCEPT !.event = "RETRIED"]
    <2>1. /\ pc[c] = "rebudget"
          /\ \/ pc'[c] = "tick" /\ job'[c] = j
             \/ pc'[c] = "running"
      BY <1>10 DEF Rebudget, RetryWith
    <2>2. j.event = "RETRIED"
      BY <1>1 DEF Jobs
    <2> HIDE DEF j
    <2> QED BY <2>1, <2>2 DEF Moves
  <1>11. CASE CancelOwnTask(c)
    BY <1>11 DEF CancelOwnTask, End
  <1>12. CASE IsCancelled(c)
    BY <1>12 DEF IsCancelled, CancelInLoop, End, Moves
  <1> QED
    BY <1>2, <1>3, <1>4, <1>5, <1>6, <1>7, <1>8, <1>9, <1>10, <1>11, <1>12
    DEF Acts, Proceed

LEMMA StartKept ==
    ASSUME TypeOK, [Next]_vars, StartsWithClaim PROVE StartsWithClaim'
  <1> SUFFICES ASSUME NEW c \in Busy'
               PROVE  /\ pc'[c] \in Starting => job'[c].in = "before" /\ job'[c].event = "CLAIMED"
                      /\ pc'[c] \in {"budget", "claim"} => job'[c].grant = 0
                      /\ pc'[c] = "complete" => job'[c].event \in Outcomes
    BY DEF StartsWithClaim
  <1> USE DEF Starting
  <1>0. c \in Coroutines /\ pc'[c] # "free"
    BY DEF Busy, Free
  <1>1. CASE Stays(c)
    BY <1>0, <1>1 DEF Stays, StartsWithClaim, Busy, Free
  <1>2. CASE NewRun(c)
    BY <1>2 DEF NewRun
  <1>3. CASE Acts(c)
    <2>1. Moves(c) /\ c \in Busy
      BY <1>0, <1>3, ControlSteps, IsBusy DEF Acts
    <2>2. CASE ClaimedBy(c)
      <3>1. /\ pc[c] = "claim" /\ pc'[c] = "read"
            /\ job'[c].in = job[c].in /\ job'[c].event = job[c].event
        BY <2>2, ClaimSteps
      <3> QED BY <2>1, <3>1 DEF StartsWithClaim
    <2>3. CASE CompleteTask(c)
      BY <2>1, <2>3, Going, <1>0 DEF CompleteTask
    <2>4. CASE ~ClaimedBy(c) /\ ~CompleteTask(c)
      BY <2>1, <2>4 DEF Moves, StartsWithClaim
    <2> QED BY <2>2, <2>3, <2>4
  <1> QED BY <1>0, <1>1, <1>2, <1>3, CoroutineSteps

\* What complete_task and cancel_task do to a coroutine's own task.
LEMMA OwnTaskEnds ==
    ASSUME TypeOK, HolderOwns, NEW c \in Busy, CompleteTask(c) \/ CancelOwnTask(c)
    PROVE  ~(/\ hash'[TaskOf(c)].state = "RUNNING"
             /\ hash'[TaskOf(c)].epoch = job[c].grant)
  <1>1. TaskOf(c) \in Tasks /\ hash \in [Tasks -> Hash] /\ hash[TaskOf(c)] \in Hash
    BY JobTypes DEF TypeOK
  <1>2. Ended(TaskOf(c), job[c].grant) \/ OwnedBy(hash[TaskOf(c)], OwnName(c))
    BY DEF HolderOwns, Ended, OwnedBy
  <1>3. CASE CompleteTask(c)
    BY <1>1, <1>2, <1>3 DEF CompleteTask, Completed, Hash, Ended
  <1>4. CASE CancelOwnTask(c)
    BY <1>1, <1>2, <1>4
    DEF CancelOwnTask, CanCancel, Cancelled, Hash, Ended, OwnedBy
  <1> QED BY <1>3, <1>4

Reports(c) == pc[c] = "fail" \/ (pc[c] \in Appending /\ job[c].event \in Outcomes)

LEMMA ReportsKept ==
    ASSUME TypeOK, [Next]_vars, EpochsOK, StartsWithClaim, ReportsEndedRun
    PROVE  ReportsEndedRun'
  <1> SUFFICES ASSUME NEW c \in Busy', Reports(c)'
               PROVE  ~(/\ hash'[TaskOf(c)'].state = "RUNNING"
                        /\ hash'[TaskOf(c)'].epoch = job'[c].grant)
    BY DEF ReportsEndedRun, Reports, Ended
  <1> USE DEF Appending
  <1>0. c \in Coroutines /\ pc'[c] # "free"
    BY DEF Busy, Free
  <1>1. ASSUME c \in Busy, SameRun(c)
        PROVE  /\ TaskOf(c)' = TaskOf(c) /\ job'[c].grant = job[c].grant
               /\ TaskOf(c) \in Tasks /\ job[c].grant \in Nat
               /\ job[c].grant <= hash[TaskOf(c)].epoch
    BY <1>1, JobTypes DEF SameRun, TaskOf, EpochsOK, GrantsAreOld
  <1>2. ASSUME c \in Busy, SameRun(c), Reports(c)
        PROVE  ~(/\ hash'[TaskOf(c)'].state = "RUNNING"
                 /\ hash'[TaskOf(c)'].epoch = job'[c].grant)
    BY <1>1, <1>2, EndedStays DEF ReportsEndedRun, Reports
  <1>3. CASE NewRun(c)
    BY <1>3 DEF NewRun, Reports
  <1>4. CASE ClaimedBy(c)
    BY <1>4, ClaimSteps DEF Reports
  <1>5. CASE c \in Busy /\ SameRun(c) /\ CompleteTask(c)
    BY <1>1, <1>5, OwnTaskEnds DEF EpochsOK
  <1>6. CASE c \in Busy /\ SameRun(c) /\ ~CompleteTask(c) /\ ~ClaimedBy(c)
    <2>1. CASE Stays(c)
      BY <2>1, <1>2, <1>6 DEF Stays, Reports
    <2>2. CASE Acts(c)
      <3>1. Moves(c)
        BY <1>0, <2>2, ControlSteps
      <3>2. Reports(c)
        BY <3>1, <1>6 DEF Moves, Reports, StartsWithClaim, Outcomes, Starting
      <3> QED BY <3>2, <1>2, <1>6
    <2> QED BY <2>1, <2>2, <1>0, <1>6, CoroutineSteps DEF NewRun, Busy, Free
  <1> QED BY <1>3, <1>4, <1>5, <1>6, RunSteps

LEMMA OutcomeKept ==
    ASSUME TypeOK, [Next]_vars, EpochsOK, ReportsEndedRun, OutcomeEventEndsRun
    PROVE  OutcomeEventEndsRun'
  <1> SUFFICES ASSUME NEW t \in Tasks, NEW e \in stream'[t], e.type \in Outcomes
               PROVE  ~(hash'[t].state = "RUNNING" /\ hash'[t].epoch = e.grant)
    BY DEF OutcomeEventEndsRun
  <1>1. CASE e \in stream[t]
    <2>1. e.grant \in Nat /\ e.grant <= hash[t].epoch /\ Ended(t, e.grant)
      BY <1>1 DEF TypeOK, Events, EpochsOK, EventsAreOld, OutcomeEventEndsRun, Ended
    <2> QED BY <2>1, EndedStays
  <1>2. ASSUME NEW c \in Coroutines, Appends(c, t), e \notin stream[t]
        PROVE  ~(hash'[t].state = "RUNNING" /\ hash'[t].epoch = e.grant)
    <2>1. /\ e.type = job[c].event /\ e.grant = job[c].grant /\ TaskOf(c) = t
          /\ c \in Busy /\ pc[c] = "add" /\ hash' = hash
      BY <1>2 DEF Appends, Busy, Free
    <2> QED BY <2>1 DEF ReportsEndedRun, Ended, Appending
  <1> QED BY <1>1, <1>2, StreamSteps

-----------------------------------------------------------------------------
(* How a coroutine ends.                                                     *)
LEMMA LostGrows == ASSUME TypeOK, [Next]_vars PROVE lost \subseteq lost'
  <1>1. ASSUME NEW c \in Coroutines, Acts(c)
        PROVE  lost \subseteq lost'
    <2>1. c \in Busy
      BY <1>1, IsBusy DEF Acts
    <2>2. CASE AddEvent(c) \/ Breaks(c)
      BY <2>1, <2>2, RaiseSteps DEF AddEvent, Breaks
    <2>3. CASE IsCancelled(c)
      BY <2>1, <2>3, CancelSteps
    <2>4. CASE ~AddEvent(c) /\ ~Breaks(c) /\ ~IsCancelled(c)
      BY <1>1, <2>4
      DEF Acts, Proceed, InitBudget, ClaimTask, ReadClaimedRecord, Tick, EventAdded,
          RunEndsWell, CircuitIsOpen, RunFails, ShouldRetry, RecordFailure, Rebudget,
          CompleteTask, FailTask, CancelOwnTask
    <2> QED BY <2>2, <2>3, <2>4
  <1>2. CASE ~\E c \in Coroutines : Acts(c)
    BY <1>2 DEF Next, Acts, Produce, TakeTask, StartTasks, LoopBreaks, Crash, RetryTask,
        CancelTask, engineVars, vars
  <1> QED BY <1>1, <1>2

LEMMA FreeSteps ==
    ASSUME TypeOK, [Next]_vars, NEW c \in Busy, pc'[c] = "free"
    PROVE  \/ Unfinished({c}) \subseteq lost'
           \/ pc[c] = "claim" /\ ~CanClaim(hash[TaskOf(c)]) /\ hash' = hash
           \/ pc[c] = "added" /\ job[c].event \in Outcomes /\ hash' = hash
           \/ CancelOwnTask(c)
  <1> USE Becoming, Going
  <1>0. c \in Coroutines /\ pc[c] # "free"
    BY DEF Busy, Free
  <1>1. CASE Acts(c)
    <2>1. CASE AddEvent(c) \/ Breaks(c)
      <3>1. Raise(c)
        BY <1>0, <2>1 DEF AddEvent, Breaks
      <3> QED BY <3>1, RaiseSteps
    <2>2. CASE IsCancelled(c)
      BY <2>2, CancelSteps
    <2>3. CASE ClaimTask(c)
      BY <1>0, <2>3 DEF ClaimTask
    <2>4. CASE EventAdded(c)
      BY <1>0, <2>4 DEF EventAdded, AfterEvent
    <2>5. CASE RunEndsWell(c) \/ CircuitIsOpen(c) \/ ShouldRetry(c)
      BY <1>0, <2>5, ReportSteps DEF RunEndsWell, CircuitIsOpen, ShouldRetry
    <2>6. ASSUME NEW in \in {"try", "except"}, RunFails(c, in)
          PROVE  FALSE
      BY <1>0, <2>6 DEF RunFails
    <2>7. CASE InitBudget(c) \/ RecordFailure(c) \/ CompleteTask(c) \/ FailTask(c)
      BY <1>0, <2>7 DEF InitBudget, RecordFailure, CompleteTask, FailTask
    <2>8. CASE ReadClaimedRecord(c) \/ Tick(c) \/ Rebudget(c)
      BY <1>0, <2>8 DEF ReadClaimedRecord, Tick, Rebudget, RetryWith
    <2>9. CASE CancelOwnTask(c)
      BY <2>9
    <2> QED
      BY <1>1, <2>1, <2>2, <2>3, <2>4, <2>5, <2>6, <2>7, <2>8, <2>9
      DEF Acts, Proceed
  <1> QED BY <1>0, <1>1, CoroutineSteps DEF Stays, NewRun

LEMMA OrphansKept ==
    ASSUME TypeOK, [Next]_vars, EpochsOK, StartsWithClaim, ReportsEndedRun, OrphansHaveCause
    PROVE  OrphansHaveCause'
  <1> SUFFICES ASSUME NEW t \in Tasks, hash'[t].state = "RUNNING"
               PROVE  \/ \E c \in Coroutines :
                            /\ pc'[c] # "free" /\ job'[c].task = t
                            /\ job'[c].grant = hash'[t].epoch
                      \/ <<t, hash'[t].epoch>> \in lost'
    BY DEF OrphansHaveCause, TaskOf
  <1>1. ASSUME NEW c \in Coroutines, ClaimedBy(c), TaskOf(c) = t
        PROVE  /\ pc'[c] # "free" /\ job'[c].task = t
               /\ job'[c].grant = hash'[t].epoch
    BY <1>1, ClaimSteps DEF TaskOf
  <1>2. CASE hash'[t] = hash[t]
    <2>1. CASE <<t, hash[t].epoch>> \in lost
      BY <1>2, <2>1, LostGrows
    <2>2. ASSUME NEW c \in Coroutines, pc[c] # "free", TaskOf(c) = t,
                 job[c].grant = hash[t].epoch
          PROVE  \/ /\ pc'[c] # "free" /\ job'[c].task = t
                    /\ job'[c].grant = hash'[t].epoch
                 \/ <<t, hash'[t].epoch>> \in lost'
      <3>1. c \in Busy
        BY <2>2 DEF Busy, Free
      <3>2. CASE pc'[c] # "free"
        <4>1. ~ClaimedBy(c) /\ ~NewRun(c)
          BY <1>2, <2>2, ClaimSteps DEF NewRun
        <4>2. SameRun(c)
          BY <3>2, <4>1, RunSteps DEF Busy, Free
        <4> QED BY <1>2, <2>2, <3>2, <4>2 DEF SameRun, TaskOf
      <3>3. CASE pc'[c] = "free"
        <4>1. ~CancelOwnTask(c)
          BY <1>2, <2>2, <3>1, OwnTaskEnds DEF EpochsOK
        <4>2. pc[c] # "claim"
          BY <1>2, <2>2, <3>1 DEF StartsWithClaim, EpochsOK, RunningIsClaimed
        <4>3. ~(pc[c] = "added" /\ job[c].event \in Outcomes)
          BY <1>2, <2>2, <3>1 DEF ReportsEndedRun, Appending, Ended
        <4>4. Unfinished({c}) \subseteq lost'
          BY <3>1, <3>3, <4>1, <4>2, <4>3, FreeSteps
        <4> QED BY <1>2, <2>2, <4>4 DEF Unfinished
      <3> QED BY <3>2, <3>3
    <2> QED BY <1>2, <2>1, <2>2 DEF OrphansHaveCause
  <1>3. hash'[t] = hash[t] \/ \E c \in Coroutines : ClaimedBy(c) /\ TaskOf(c) = t
    BY HashSteps, ClaimSteps DEF Shelved
  <1> QED BY <1>1, <1>2, <1>3

-----------------------------------------------------------------------------
(* The order of a stream.                                                    *)
LEMMA StreamGrows ==
    ASSUME TypeOK, [Next]_vars, NEW t \in Tasks
    PROVE  stream[t] \subseteq stream'[t]
  BY StreamSteps DEF Appends

LEMMA AnnouncedKept ==
    ASSUME TypeOK, [Next]_vars, StartsWithClaim, AnnouncedFirst
    PROVE  AnnouncedFirst'
  <1> DEFINE ToAnnounce(k) ==
                job[k].in = "before" /\ pc[k] \in Early /\ job[k].event = "CLAIMED"
  <1> SUFFICES ASSUME NEW c \in Busy'
               PROVE  Announced(c)' \/ ToAnnounce(c)'
    BY DEF AnnouncedFirst, Early
  <1> USE DEF Early, Starting
  <1>0. c \in Coroutines /\ pc'[c] # "free"
    BY DEF Busy, Free
  <1>1. CASE NewRun(c)
    BY <1>1 DEF NewRun
  <1>2. CASE ClaimedBy(c)
    BY <1>2, ClaimSteps DEF StartsWithClaim
  <1>3. CASE c \in Busy /\ SameRun(c) /\ ~ClaimedBy(c) /\ ~NewRun(c)
    <2>1. TaskOf(c)' = TaskOf(c) /\ job'[c].grant = job[c].grant /\ TaskOf(c) \in Tasks
      BY <1>3, JobTypes DEF SameRun, TaskOf
    <2>2. CASE Announced(c)
      BY <2>1, <2>2, StreamGrows DEF Announced
    <2>3. CASE ToAnnounce(c) /\ Stays(c)
      BY <2>3 DEF Stays
    <2>4. CASE ToAnnounce(c) /\ Acts(c)
      <3>1. Moves(c)
        BY <1>0, <2>4, ControlSteps
      <3>2. CASE Appends(c, TaskOf(c))
        <4> DEFINE e == [tick |-> job[c].tick, type |-> job[c].event,
                         epoch |-> job[c].seen, grant |-> job[c].grant]
        <4>1. e \in stream'[TaskOf(c)]
          BY <3>2 DEF Appends
        <4>2. e.type = "CLAIMED" /\ e.grant = job[c].grant
          BY <2>4
        <4> HIDE DEF e
        <4> QED BY <2>1, <4>1, <4>2 DEF Announced
      <3>3. CASE ~Appends(c, TaskOf(c))
        <4>1. ~CompleteTask(c)
          BY <2>4 DEF CompleteTask
        <4> QED BY <1>3, <2>4, <3>1, <3>3, <4>1 DEF Moves
      <3> QED BY <3>2, <3>3
    <2>5. Announced(c) \/ ToAnnounce(c)
      BY <1>3 DEF AnnouncedFirst
    <2>6. Stays(c) \/ Acts(c)
      BY <1>0, <1>3, CoroutineSteps
    <2> QED BY <2>2, <2>3, <2>4, <2>5, <2>6
  <1> QED BY <1>1, <1>2, <1>3, RunSteps

LEMMA ClaimFirstKept ==
    ASSUME TypeOK, [Next]_vars, AnnouncedFirst, ClaimComesFirst
    PROVE  ClaimComesFirst'
  <1> SUFFICES ASSUME NEW t \in Tasks, NEW e \in stream'[t]
               PROVE  \E first \in stream'[t] :
                         /\ first.type = "CLAIMED" /\ first.grant = e.grant
                         /\ first.tick <= e.tick
    BY DEF ClaimComesFirst
  <1>1. CASE e \in stream[t]
    BY <1>1, StreamGrows DEF ClaimComesFirst
  <1>2. ASSUME NEW c \in Coroutines, Appends(c, t), e \notin stream[t]
        PROVE  \E first \in stream'[t] :
                  /\ first.type = "CLAIMED" /\ first.grant = e.grant
                  /\ first.tick <= e.tick
    <2>1. /\ e.tick = job[c].tick /\ e.type = job[c].event /\ e.grant = job[c].grant
          /\ TaskOf(c) = t /\ c \in Busy /\ Takes(stream[t], job[c].tick)
      BY <1>2 DEF Appends, Busy, Free
    <2>2. e.tick \in Nat /\ stream[t] \subseteq Events
      BY <2>1, JobTypes DEF TypeOK, Jobs
    <2>3. CASE e.type = "CLAIMED"
      BY <2>2, <2>3
    <2>4. CASE Announced(c)
      <3>1. PICK first \in stream[t] : first.type = "CLAIMED" /\ first.grant = e.grant
        BY <2>1, <2>4 DEF Announced
      <3>2. first.tick <= e.tick /\ first \in stream'[t]
        BY <2>1, <2>2, <3>1, StreamGrows DEF Takes, Events
      <3> QED BY <3>1, <3>2
    <2> QED BY <2>1, <2>3, <2>4 DEF AnnouncedFirst
  <1> QED BY <1>1, <1>2, StreamSteps

-----------------------------------------------------------------------------
(* Tasks that were accepted.                                                 *)
LEMMA PayloadKept == ASSUME TypeOK, [Next]_vars, PayloadFirst PROVE PayloadFirst'
  <1> USE DEF TypeOK, SchedTypeOK, PayloadFirst
  <1>0. [SchedNext]_schedVars
    BY SchedulerStep
  <1>1. ASSUME NEW p \in Producers, Enqueue(p)
        PROVE  PayloadFirst'
    <2>1. ASSUME NEW t \in Tasks, CheckDepth(p, t)
          PROVE  PayloadFirst'
      BY <2>1 DEF CheckDepth
    <2>2. CASE StorePayload(p)
      BY <2>2 DEF StorePayload
    <2>3. CASE AddToQueue(p)
      BY <2>3 DEF AddToQueue, EnqueueIdle
    <2>4. CASE EnqueueBreaks(p)
      BY <2>4 DEF EnqueueBreaks, EnqueueIdle
    <2> QED BY <1>1, <2>1, <2>2, <2>3, <2>4 DEF Enqueue
  <1>2. ASSUME NEW w \in Workers, Pop(w)
        PROVE  PayloadFirst'
    BY <1>2 DEF Pop
  <1>3. ASSUME NEW w \in Workers, ReadPayload(w)
        PROVE  PayloadFirst'
    BY <1>3 DEF ReadPayload
  <1>4. ASSUME NEW w \in Workers, HandOver(w) \/ DequeueBreaks(w)
        PROVE  PayloadFirst'
    <2>1. /\ queue' = queue /\ payload' = payload /\ enqueuing' = enqueuing
          /\ dequeuing' = [dequeuing EXCEPT ![w] = DequeueIdle]
      BY <1>4 DEF HandOver, DequeueBreaks
    <2>2. \A k \in Workers : dequeuing'[k] = dequeuing[k] \/ dequeuing'[k].at = "pop"
      BY <2>1 DEF DequeueIdle
    <2> QED BY <2>1, <2>2
  <1>5. CASE UNCHANGED schedVars
    BY <1>5 DEF schedVars
  <1> QED BY <1>0, <1>1, <1>2, <1>3, <1>4, <1>5 DEF SchedNext

\* A task leaves the queue for the hands of a dequeue.
LEMMA QueueSteps ==
    ASSUME TypeOK, [Next]_vars, NEW t \in queue
    PROVE  t \in queue' \/ \E w \in Workers : t \in InHand(w)'
  <1> USE DEF TypeOK, SchedTypeOK
  <1>1. ASSUME NEW w \in Workers, Pop(w)
        PROVE  t \in queue' \/ \E k \in Workers : t \in InHand(k)'
    <2>1. PICK u \in queue :
             /\ queue' = queue \ {u}
             /\ dequeuing' = [dequeuing EXCEPT
                   ![w] = [at |-> "read", task |-> u, tasks |-> @.tasks]]
      BY <1>1 DEF Pop
    <2>2. u \in InHand(w)'
      BY <2>1 DEF InHand
    <2> QED BY <2>1, <2>2
  <1>2. CASE ~\E w \in Workers : Pop(w)
    <2>1. queue \subseteq queue'
      BY <1>2, SchedulerStep
      DEF SchedNext, Enqueue, CheckDepth, StorePayload, AddToQueue, EnqueueBreaks,
          ReadPayload, HandOver, DequeueBreaks, schedVars
    <2> QED BY <2>1
  <1> QED BY <1>1, <1>2

\* Every task of a batch gets its coroutine.
LEMMA StartGives ==
    ASSUME TypeOK, NEW w \in Workers, StartTasks(w),
           NEW n \in DOMAIN dequeuing[w].tasks
    PROVE  \E c \in Coroutines :
              pc'[c] = "budget" /\ job'[c].task = dequeuing[w].tasks[n]
  <1> DEFINE tasks == dequeuing[w].tasks
  <1>1. PICK slot \in [DOMAIN tasks -> Free] :
           LET Given(k) == {i \in DOMAIN tasks : slot[i] = k}
           IN  /\ \A i, k \in DOMAIN tasks : slot[i] = slot[k] => i = k
               /\ pc' = [k \in Coroutines |->
                           IF Given(k) # {} THEN "budget" ELSE pc[k]]
               /\ job' = [k \in Coroutines |->
                            IF Given(k) = {} THEN job[k]
                            ELSE NewJob(tasks[CHOOSE i \in Given(k) : TRUE], w)]
    BY DEF StartTasks
  <1> DEFINE c == slot[n]
             given == {i \in DOMAIN tasks : slot[i] = c}
             m == CHOOSE i \in given : TRUE
  <1>2. c \in Coroutines /\ given = {n}
    BY <1>1 DEF Free
  <1>3. pc'[c] = "budget" /\ job'[c] = NewJob(tasks[m], w)
    BY <1>1, <1>2
  <1>4. m = n
    BY <1>2
  <1> HIDE DEF m
  <1>5. job'[c].task = tasks[n]
    BY <1>3, <1>4 DEF NewJob
  <1> QED BY <1>2, <1>3, <1>5

\* From there it goes to a coroutine, or is lost.
LEMMA HandSteps ==
    ASSUME TypeOK, [Next]_vars, PayloadFirst, NEW w \in Workers, NEW t \in InHand(w)
    PROVE  \/ t \in InHand(w)'
           \/ \E c \in Coroutines : pc'[c] = "budget" /\ job'[c].task = t
           \/ <<t, 0>> \in lost'
  <1> USE DEF TypeOK, SchedTypeOK
  <1>1. ASSUME NEW k \in Workers, Pop(k)
        PROVE  t \in InHand(w)'
    BY <1>1 DEF Pop, InHand
  <1>2. ASSUME NEW k \in Workers, ReadPayload(k)
        PROVE  t \in InHand(w)'
    <2>1. CASE k = w
      <3> DEFINE d == dequeuing[w]
      <3>1. /\ d.at = "read" /\ d.task \in payload /\ d.tasks \in Seq(Tasks)
            /\ dequeuing'[w].tasks = Append(d.tasks, d.task)
        BY <1>2, <2>1 DEF ReadPayload, PayloadFirst
      <3>2. \/ t = d.task
            \/ \E i \in DOMAIN d.tasks : t = d.tasks[i]
        BY DEF InHand
      <3> HIDE DEF d
      <3>3. \E i \in DOMAIN dequeuing'[w].tasks : t = dequeuing'[w].tasks[i]
        <4> DEFINE s == d.tasks
                   r == Append(s, d.task)
        <4>1. s \in Seq(Tasks)
          BY <3>1
        <4>2. /\ Len(s) + 1 \in DOMAIN r /\ r[Len(s) + 1] = d.task
              /\ \A i \in DOMAIN s : i \in DOMAIN r /\ r[i] = s[i]
          <5> HIDE DEF s
          <5> QED BY <4>1
        <4>3. \E i \in DOMAIN r : t = r[i]
          <5> HIDE DEF r
          <5> QED BY <3>2, <4>2
        <4> QED BY <3>1, <4>3
      <3> QED BY <3>3 DEF InHand
    <2>2. CASE k # w
      BY <1>2, <2>2 DEF ReadPayload, InHand
    <2> QED BY <2>1, <2>2
  <1>3. ASSUME NEW k \in Workers, StartTasks(k)
        PROVE  \/ t \in InHand(w)'
               \/ \E c \in Coroutines : pc'[c] = "budget" /\ job'[c].task = t
    <2>1. CASE k = w
      <3>1. dequeuing[w].at = "pop"
        BY <1>3, <2>1 DEF StartTasks, HandOver
      <3>2. PICK n \in DOMAIN dequeuing[w].tasks : t = dequeuing[w].tasks[n]
        BY <3>1 DEF InHand
      <3> QED BY <1>3, <2>1, <3>2, StartGives
    <2>2. CASE k # w
      BY <1>3, <2>2 DEF StartTasks, HandOver, InHand
    <2> QED BY <2>1, <2>2
  <1>4. ASSUME NEW k \in Workers, LoopBreaks(k) \/ Crash(k)
        PROVE  t \in InHand(w)' \/ <<t, 0>> \in lost'
    <2>1. CASE k = w
      BY <1>4, <2>1 DEF LoopBreaks, Crash
    <2>2. CASE k # w
      BY <1>4, <2>2 DEF LoopBreaks, Crash, DequeueBreaks, InHand, schedVars
    <2> QED BY <2>1, <2>2
  <1>5. CASE ~\E k \in Workers :
                TakeTask(k) \/ StartTasks(k) \/ LoopBreaks(k) \/ Crash(k)
    <2>1. dequeuing' = dequeuing
      <3>1. ASSUME NEW c \in Coroutines, Acts(c)
            PROVE  UNCHANGED schedVars
        BY <3>1
        DEF Acts, Proceed, Breaks, IsCancelled, InitBudget, ClaimTask, ReadClaimedRecord,
            Tick, AddEvent, EventAdded, RunEndsWell, CircuitIsOpen, RunFails,
            ShouldRetry, RecordFailure, Rebudget, CompleteTask, FailTask, CancelOwnTask
      <3>2. ASSUME NEW p \in Producers, Produce(p)
            PROVE  dequeuing' = dequeuing
        BY <3>2 DEF Produce, CheckDepth, StorePayload, AddToQueue, EnqueueBreaks
      <3> QED
        BY <1>5, <3>1, <3>2 DEF Next, Acts, RetryTask, CancelTask, schedVars, vars
    <2> QED BY <2>1 DEF InHand
  <1> QED BY <1>1, <1>2, <1>3, <1>4, <1>5 DEF TakeTask

LEMMA AcceptedKept ==
    ASSUME TypeOK, [Next]_vars, StartsWithClaim, PayloadFirst, AcceptedIsNotLost
    PROVE  AcceptedIsNotLost'
  <1> DEFINE Unclaimed(t) == hash[t].state = "PENDING" /\ hash[t].epoch = 0
             Somewhere(t) ==
                \/ t \in queue \cap payload
                \/ \E w \in Workers : t \in InHand(w)
                \/ \E c \in Coroutines : pc[c] \in {"budget", "claim"} /\ TaskOf(c) = t
                \/ <<t, 0>> \in lost
  <1> SUFFICES ASSUME NEW t \in accepted', Unclaimed(t)'
               PROVE  Somewhere(t)'
    BY DEF AcceptedIsNotLost
  <1>t. TypeOK' /\ PayloadFirst' /\ t \in Tasks
    BY TypeKept, PayloadKept DEF TypeOK, SchedTypeOK
  <1>h. hash'[t] = hash[t]
    <2>1. ASSUME NEW c \in Coroutines, ClaimedBy(c)
          PROVE  hash'[t] = hash[t]
      BY <1>t, <2>1, ClaimSteps
    <2> QED BY <1>t, <2>1, HashSteps DEF Shelved
  <1>1. CASE t \notin accepted
    <2>1. \E p \in Producers : AddToQueue(p)
      BY <1>1, SchedulerStep
      DEF SchedNext, Enqueue, CheckDepth, StorePayload, EnqueueBreaks, Pop, ReadPayload,
          HandOver, DequeueBreaks, schedVars
    <2>2. t \in queue'
      BY <1>1, <2>1 DEF AddToQueue
    <2> QED BY <1>t, <2>2 DEF PayloadFirst
  <1>2. CASE t \in accepted
    <2>1. Somewhere(t)
      BY <1>2, <1>h DEF AcceptedIsNotLost
    <2>2. CASE t \in queue
      BY <1>t, <2>2, QueueSteps DEF PayloadFirst
    <2>3. ASSUME NEW w \in Workers, t \in InHand(w)
          PROVE  Somewhere(t)'
      BY <2>3, HandSteps DEF TaskOf
    <2>4. ASSUME NEW c \in Coroutines, pc[c] \in {"budget", "claim"}, TaskOf(c) = t
          PROVE  Somewhere(t)'
      <3>1. c \in Busy /\ job[c].grant = 0
        BY <2>4 DEF Busy, Free, StartsWithClaim
      <3>2. CASE pc'[c] = "free"
        <4>1. CanClaim(hash[t])
          BY <1>h DEF CanClaim
        <4>2. ~CancelOwnTask(c)
          BY <2>4 DEF CancelOwnTask
        <4>3. Unfinished({c}) \subseteq lost'
          BY <2>4, <3>1, <3>2, <4>1, <4>2, FreeSteps
        <4> QED BY <2>4, <3>1, <4>3 DEF Unfinished
      <3>3. CASE pc'[c] # "free"
        <4>1. ~ClaimedBy(c)
          BY <1>h, <2>4, ClaimSteps
        <4>2. ~NewRun(c)
          BY <2>4 DEF NewRun
        <4>3. SameRun(c) /\ (Stays(c) \/ Acts(c))
          BY <3>3, <4>1, <4>2, RunSteps, CoroutineSteps DEF Busy, Free
        <4>4. CASE Stays(c)
          BY <2>4, <4>4 DEF Stays, TaskOf
        <4>5. CASE Acts(c)
          <5>1. Moves(c)
            BY <3>3, <4>5, ControlSteps
          <5>2. ~CompleteTask(c)
            BY <2>4 DEF CompleteTask
          <5>3. job[c].in = "before"
            BY <2>4, <3>1 DEF StartsWithClaim, Starting
          <5>4. pc'[c] = "claim"
            BY <2>4, <4>1, <5>1, <5>2, <5>3 DEF Moves, Early, Starting
          <5> QED BY <2>4, <4>3, <5>4 DEF SameRun, TaskOf
        <4> QED BY <4>3, <4>4, <4>5
      <3> QED BY <3>2, <3>3
    <2>5. CASE <<t, 0>> \in lost
      BY <2>5, LostGrows
    <2> QED BY <2>1, <2>2, <2>3, <2>4, <2>5
  <1> QED BY <1>1, <1>2

-----------------------------------------------------------------------------
LEMMA InvInit == Init => IInv
  <1> SUFFICES ASSUME Init PROVE IInv
    OBVIOUS
  <1>1. TypeOK
    BY TypeInit
  <1>2. Busy = {} /\ accepted = {} /\ queue = {}
    BY DEF Init, SchedInit, Busy, Free
  <1>3. \A t \in Tasks : hash[t].state # "RUNNING" /\ stream[t] = {}
    BY DEF Init, Created, Missing
  <1>4. PayloadFirst
    BY <1>2 DEF Init, SchedInit, PayloadFirst, EnqueueIdle, DequeueIdle
  <1> QED
    BY <1>1, <1>2, <1>3, <1>4
    DEF IInv, RunningIsClaimed, GrantsAreOld, EventsAreOld, HolderOwns, StartsWithClaim,
        ReportsEndedRun, OutcomeEventEndsRun, OrphansHaveCause, AnnouncedFirst,
        ClaimComesFirst, AcceptedIsNotLost

LEMMA InvKept == ASSUME IInv, [Next]_vars PROVE IInv'
  BY TypeKept, EpochsKept, StartKept, ReportsKept, OutcomeKept, OrphansKept,
     AnnouncedKept, ClaimFirstKept, PayloadKept, AcceptedKept
  DEF IInv, EpochsOK

LEMMA InvHolds == Spec => []IInv
  BY InvInit, InvKept, PTL DEF Spec

(* Whatever fails, is overtaken or dies: no event of a claim precedes the    *)
(* TASK_CLAIMED of that claim.                                               *)
THEOREM ClaimComesFirstHolds == Spec => []ClaimComesFirst
  BY InvHolds, PTL DEF IInv

(* A claim whose outcome the stream reports no longer runs in the store.     *)
THEOREM OutcomeEventEndsRunHolds == Spec => []OutcomeEventEndsRun
  BY InvHolds, PTL DEF IInv

(* A task is left RUNNING only by a coroutine that died, or ended where      *)
(* process_task catches nothing.                                             *)
THEOREM OrphansHaveCauseHolds == Spec => []OrphansHaveCause
  BY InvHolds, PTL DEF IInv

(* An accepted task nobody has claimed is in the queue with its payload, in  *)
(* somebody's hands, or went down with them.                                 *)
THEOREM AcceptedIsNotLostHolds == Spec => []AcceptedIsNotLost
  BY InvHolds, PTL DEF IInv

-----------------------------------------------------------------------------
(* The refinement of TaskHandover: a coroutine changes one hash, by one      *)
(* script, and so does a caller from outside.                                *)

\* What a script makes of a hash.
Scripted(h, k) ==
    \/ h.state = "PENDING" /\ \E w \in Names : k = Claimed(h, w)
    \/ h.state = "RUNNING" /\ k \in {Completed(h), Failed(h), Released(h)}
    \/ h.state \in {"PENDING", "RUNNING", "CANCELLED"} /\ k = Cancelled(h)

LEMMA HandoverOfScript ==
    ASSUME hash \in [Tasks -> Hash], NEW t \in Tasks, NEW k,
           hash' = [hash EXCEPT ![t] = k], Scripted(hash[t], k)
    PROVE  [Handover!HandoverNext]_(Handover!handoverVars)
  <1>0. hash[t] \in Hash
    OBVIOUS
  <1>1. /\ [x \in Tasks |-> hash[x].state]' = [[x \in Tasks |-> hash[x].state] EXCEPT ![t] = k.state]
        /\ [x \in Tasks |-> hash[x].worker]' = [[x \in Tasks |-> hash[x].worker] EXCEPT ![t] = k.worker]
        /\ [x \in Tasks |-> hash[x].epoch]' = [[x \in Tasks |-> hash[x].epoch] EXCEPT ![t] = k.epoch]
    OBVIOUS
  <1>2. /\ [x \in Tasks |-> hash[x].state][t] = hash[t].state
        /\ [x \in Tasks |-> hash[x].worker][t] = hash[t].worker
        /\ [x \in Tasks |-> hash[x].epoch][t] = hash[t].epoch
    OBVIOUS
  <1>5. ASSUME NEW w \in Names, hash[t].state = "PENDING", k = Claimed(hash[t], w)
        PROVE  Handover!HandoverNext
    <2>1. k.state = "RUNNING" /\ k.worker = w /\ k.epoch = hash[t].epoch + 1
      BY <1>5 DEF Claimed, Rewrite
    <2>2. Handover!Grant(t, w)
      BY <1>1, <1>2, <1>5, <2>1 DEF Handover!Grant, Handover!Becomes
    <2> QED BY <2>2 DEF Handover!HandoverNext
  <1>6. CASE hash[t].state = "RUNNING" /\ k \in {Completed(hash[t]), Failed(hash[t]), Released(hash[t])}
    <2>1. \/ /\ k.state \in {"DONE", "FAILED"}
             /\ k.worker = hash[t].worker /\ k.epoch = hash[t].epoch
          \/ /\ k.state = "PENDING"
             /\ k.worker = NoName /\ k.epoch = hash[t].epoch + 1
      <3>1. CASE k = Completed(hash[t])
        BY <1>0, <3>1 DEF Hash, Completed
      <3>2. CASE k = Failed(hash[t])
        BY <1>0, <3>2 DEF Hash, Failed, Released, Rewrite
      <3>3. CASE k = Released(hash[t])
        BY <3>3 DEF Released, Rewrite
      <3> QED BY <1>6, <3>1, <3>2, <3>3
    <2>2. ASSUME NEW p \in {"DONE", "FAILED"},
                 k.state = p, k.worker = hash[t].worker, k.epoch = hash[t].epoch
          PROVE  Handover!HandoverNext
      <3>1. Handover!End(t, p)
        BY <1>1, <1>2, <1>6, <2>2 DEF Handover!End, Handover!Becomes
      <3> QED BY <3>1 DEF Handover!HandoverNext
    <2>3. CASE k.state = "PENDING" /\ k.worker = NoName /\ k.epoch = hash[t].epoch + 1
      <3>1. Handover!Release(t)
        BY <1>1, <1>2, <1>6, <2>3 DEF Handover!Release, Handover!Becomes
      <3> QED BY <3>1 DEF Handover!HandoverNext
    <2> QED BY <2>1, <2>2, <2>3
  <1>7. CASE hash[t].state \in {"PENDING", "RUNNING", "CANCELLED"} /\ k = Cancelled(hash[t])
    <2>1. k.state = "CANCELLED" /\ k.worker = hash[t].worker /\ k.epoch = hash[t].epoch
      BY <1>0, <1>7 DEF Cancelled, Hash
    <2>2. CASE hash[t].state = "CANCELLED"
      <3>1. k = hash[t]
        BY <1>0, <1>7, <2>2 DEF Cancelled, Hash
      <3> QED BY <3>1 DEF Handover!handoverVars
    <2>3. CASE hash[t].state # "CANCELLED"
      <3>1. Handover!Withdraw(t)
        BY <1>1, <1>2, <1>7, <2>1, <2>3 DEF Handover!Withdraw, Handover!Becomes
      <3> QED BY <3>1 DEF Handover!HandoverNext
    <2> QED BY <2>2, <2>3
  <1> QED BY <1>5, <1>6, <1>7 DEF Scripted

(* Every step that changes the hashes changes one of them, by one script.    *)
LEMMA OneScript ==
    ASSUME TypeOK, [Next]_vars
    PROVE  \/ hash' = hash
           \/ \E t \in Tasks : \E k : hash' = [hash EXCEPT ![t] = k] /\ Scripted(hash[t], k)
  <1>t. hash \in [Tasks -> Hash]
    BY DEF TypeOK
  <1>1. ASSUME NEW p \in Producers, Produce(p)
        PROVE  hash' = hash
    BY <1>1 DEF Produce, engineVars
  <1>2. ASSUME NEW w \in Workers,
               TakeTask(w) \/ StartTasks(w) \/ LoopBreaks(w) \/ Crash(w)
        PROVE  hash' = hash
    BY <1>2 DEF TakeTask, StartTasks, LoopBreaks, Crash, engineVars
  <1>3. ASSUME NEW t \in Tasks, NEW n \in Names, RetryTask(t, n) \/ CancelTask(t, n)
        PROVE  \E k : hash' = [hash EXCEPT ![t] = k] /\ Scripted(hash[t], k)
    <2>1. CASE RetryTask(t, n)
      BY <2>1 DEF RetryTask, OwnedBy, Scripted
    <2>2. CASE CancelTask(t, n)
      <3>1. hash[t].state \in {"PENDING", "RUNNING", "CANCELLED"}
        BY <1>t, <2>2 DEF CancelTask, CanCancel, Hash, States, Terminal
      <3> QED BY <2>2, <3>1 DEF CancelTask, Scripted
    <2> QED BY <1>3, <2>1, <2>2
  <1>4. ASSUME NEW c \in Coroutines, Proceed(c) \/ Breaks(c) \/ IsCancelled(c)
        PROVE  \/ hash' = hash
               \/ \E k : /\ TaskOf(c) \in Tasks
                        /\ hash' = [hash EXCEPT ![TaskOf(c)] = k]
                        /\ Scripted(hash[TaskOf(c)], k)
    <2>1. TaskOf(c) \in Tasks /\ OwnName(c) \in Names /\ hash[TaskOf(c)] \in Hash
      BY <1>4, IsBusy, NameOfAssumption DEF Jobs, OwnName
    <2>2. [hash EXCEPT ![TaskOf(c)] = hash[TaskOf(c)]] = hash
      BY <1>t
    <2>3. CASE ClaimTask(c)
      BY <2>1, <2>3 DEF ClaimTask, CanClaim, Scripted
    <2>4. CASE CompleteTask(c)
      <3>1. CASE OwnedBy(hash[TaskOf(c)], OwnName(c))
        BY <2>1, <2>4, <3>1 DEF CompleteTask, OwnedBy, Scripted
      <3> QED BY <2>2, <2>4, <3>1 DEF CompleteTask
    <2>5. CASE FailTask(c)
      <3>1. CASE OwnedBy(hash[TaskOf(c)], OwnName(c))
        BY <2>1, <2>5, <3>1 DEF FailTask, OwnedBy, Scripted
      <3> QED BY <2>2, <2>5, <3>1 DEF FailTask
    <2>6. CASE CancelOwnTask(c)
      <3>1. CASE CanCancel(hash[TaskOf(c)], OwnName(c))
        <4>1. hash[TaskOf(c)].state \in {"PENDING", "RUNNING", "CANCELLED"}
          BY <2>1, <3>1 DEF CanCancel, Hash, States, Terminal
        <4> QED BY <2>1, <2>6, <3>1, <4>1 DEF CancelOwnTask, Scripted
      <3> QED BY <2>2, <2>6, <3>1 DEF CancelOwnTask
    <2>7. CASE ~(ClaimTask(c) \/ CompleteTask(c) \/ FailTask(c) \/ CancelOwnTask(c))
      BY <1>4, <2>7
      DEF Proceed, Breaks, IsCancelled, InitBudget, ReadClaimedRecord, Tick,
          AddEvent, EventAdded, RunEndsWell, CircuitIsOpen, RunFails,
          ShouldRetry, RecordFailure, Rebudget
    <2> QED BY <2>3, <2>4, <2>5, <2>6, <2>7
  <1>5. CASE UNCHANGED vars
    BY <1>5 DEF vars, engineVars
  <1> QED BY <1>1, <1>2, <1>3, <1>4, <1>5 DEF Next

(* All coroutines of a process present one name to the store, none looks at  *)
(* what the store answered, and any of them may fail, be cancelled or die at *)
(* any point; what others see of the tasks is a hand-over all the same.      *)
THEOREM ImplementsHandoverHolds == Spec => ImplementsHandover
  <1>1. Init => Handover!HandoverInit
    BY DEF Init, Missing, Created, Handover!HandoverInit
  <1>2. TypeOK /\ [Next]_vars => [Handover!HandoverNext]_(Handover!handoverVars)
    <2> SUFFICES ASSUME TypeOK, [Next]_vars
                 PROVE  [Handover!HandoverNext]_(Handover!handoverVars)
      OBVIOUS
    <2>1. CASE hash' = hash
      BY <2>1 DEF Handover!handoverVars
    <2>2. ASSUME NEW t \in Tasks, NEW k,
                 hash' = [hash EXCEPT ![t] = k], Scripted(hash[t], k)
          PROVE  [Handover!HandoverNext]_(Handover!handoverVars)
      BY <2>2, HandoverOfScript DEF TypeOK
    <2> QED BY <2>1, <2>2, OneScript
  <1> QED BY <1>1, <1>2, TypeCorrect, PTL
          DEF Spec, ImplementsHandover, Handover!HandoverSpec

(* And with it the promise: while a task is known its epoch never falls and  *)
(* rises with every change of owner, an end is final, and a run that ends a  *)
(* task holds it.                                                            *)
THEOREM HandoverPromised == Spec => [][Handover!Promise]_(Handover!handoverVars)
  BY ImplementsHandoverHolds, Handover!PromiseHolds, PTL DEF ImplementsHandover
=============================================================================
