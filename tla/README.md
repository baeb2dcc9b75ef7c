# Formal models of the agent runtime and its neighbours

This directory holds TLA+ specifications of the protocol code in this
repository, the TLC configurations that check them, and TLAPS proofs.
`PROJECT.json` lists components, runs, mutants, the map from definitions to
source lines, findings, hazards and theorems; this file explains them.

    tlc -workers 2 -config Engine.cfg MCEngine
    tlapm EngineProofs.tla

## 1. Inventory

The repository is a collection of products that share a tree. What carries
protocol logic - state that outlives a call and several actors that change it -
is, in order of weight:

| Part | State | Operations | Who interacts |
|---|---|---|---|
| **Task store** `agent_runtime/task_store.py` | per task in Redis: a hash (state, worker_id, epoch, attempt, max_attempts), a result key; both with a TTL | create, claim, complete, fail, retry, cancel, delete, recover_stale_tasks | workers of the queue, coroutines of the engine, API handlers; one Lua script per transition, but claim, complete and recovery take a second round trip |
| **Durable queue** `durable_queue.py` | the stream, the consumer group's pending list; per process a flag, a batch, pending_ids | start, stop, enqueue, consume (reclaim, read, process, ack) | Redis, the task store, the handler, `app.py`'s lifespan |
| **Circuit breaker** `resilience.py` | four Redis keys per dependency | can_execute, record_success, record_failure, reset | every coroutine that calls a dependency through `guarded`, in any process |
| **Retry budgets, engine loop** `resilience.py`, `engine.py` | a hash per task | should_retry, record_failure, init_budget; process_task | task store, event store, DAG recorder, breaker |
| **Priority scheduler** `scheduler.py` | a sorted set, a payload key per task | enqueue, dequeue, requeue | producers, the worker loop of each process |
| **Event store** `event_store.py` | a stream per task, a Lamport counter, a metadata key | append, and readers | engine |
| **DAG recorder and retry** `dag_recorder.py`, `dag_retry.py` | a hash of JSON nodes | create, update_status, retry | engine |
| **PBFT-lite** `federation/byzantine/` | phase, view, round, digest, message lists per node | send_pre_prepare, on_pre_prepare, on_prepare, on_commit, advance_round, reset, view change | nodes by messages |
| **Persistence** `persistence/` | snapshot files, an index, a committed directory, an event log | append, flush, save_snapshot, commit, recover | the file system, crashes |
| **Execution gateway** `orchestration/execution_gateway.py`, `core/runtime/execution_context.py` | two pairs of flags, a stack and a depth, of one process | enter and leave a mutation context, a guarded call | every thread of the process |
| **BFT engine, slashing** `core/federation/bft_consensus.py`, `slashing.py` | per request a phase, votes and two certificates; signed hashes per node and number; slashed nodes, records with appeals | receive_request, receive_prepare, receive_commit, check_prepared, finalize_commit, init_view, slash; report, appeal, resolve_appeal | one engine per node, votes of the others |
| **Federation gossip, trust, ledger** `federation/`, `core/federation/` | state vectors and scores in memory | exchange, merge | driven in process by tests |
| **Consistency, replay, proof, resilience, coherence, alignment, actuator, meta_control, swarm** | numbers in memory | single-threaded control and checking | called in sequence |
| **Atomic ledger, atomos package** `core/atomic_ledger.py`, `atomos_pkg/` | entries and a write-ahead log; simulated leases, commits, messages | record, replay; simulation steps | their own tests and demos |
| **unified-platform, sdlc_os, kubernetes, pop-os-setup** | separate tools: job routing, patch pipeline, operator, installer | mostly I/O | shell, git, Kubernetes |

Hard behaviours. In the agent runtime: several processes and coroutines
interleave at every `await`; a call of two round trips is not atomic; workers
die or are cancelled in mid-call and are restarted; keys expire; stale owners
report late; tasks are enqueued twice; the breaker's keys are read and written
without any transaction; a Redis call may raise with its command executed or
not, and some callers swallow that. In PBFT-lite: duplicated, early, forged and
equivocating messages, restarted rounds, nodes in different views. In the BFT
engine: votes that arrive after the phase they belong to, from an earlier view,
or given to the method of the other phase. In
persistence: a crash or an error between two file operations or within one. In
the gateway: threads that share one permission and one stack of saved ones.

What makes each part correct:

* Task store: one owner at a time, fenced by an epoch that only grows;
  terminal states are final; a stale owner cannot report; a result belongs to
  who completed the task; attempts add up to max_attempts; what a dead worker
  held is handed to another.
* Durable queue: one handler per task; no message lost or acknowledged
  untried; a dead worker's messages are redelivered.
* Breaker: bounded probes; OPEN is left when callers keep coming; HALF_OPEN
  never becomes a trap.
* Engine, scheduler, event store: an accepted task is not lost but with the
  process that held it; a task stays RUNNING only if its coroutine was cut off;
  the stream of a task tells of a claim before its runs, and of an outcome only
  when the store has ended that run; the queue passes its limit by no more than
  the producers under way.
* PBFT-lite: one digest per view, certificates that every later quorum meets.
* Execution gateway: nothing mutates outside of a block that allows it; when all
  have left, the process is read-only.
* BFT engine: a certificate stands for votes of f + 1 correct nodes and, once
  given out, does not change.
* Persistence: after a crash, what was acknowledged is what is recovered; a
  commit is there in full or not at all.

Not all of this holds: section 4 says what does not.

## 2. Modules

| Module | What it is |
|---|---|
| `TaskScripts` | the Lua scripts of the task store as operators on one task's hash; used by the store, the queue and the engine |
| `TaskStore` | concurrent executions, outside callers, recovery, expiry and deaths around the store |
| `TaskHandover` | the abstract specification of the tasks as others see them - state, owner, epoch - which the store, the queue and the engine implement; with the proof of its promise |
| `TaskLifecycle` | the hand-over with the results: what the store promises if worker names are not shared, with no executions or round trips |
| `MCTaskStore` | instances: two or three executions with worker names of their own, or two that share one |
| `TaskStoreProofs` | proofs about `TaskStore` |
| `DurableQueue` | worker processes, stream, pending list and producers, composed with the scripts |
| `MCDurableQueue` | instances of it, with the symmetry |
| `DurableQueueProofs` | proofs about `DurableQueue` |
| `CircuitBreaker` | the breaker and its callers, one Redis command per action |
| `CircuitBreakerProofs` | proofs about `CircuitBreaker` |
| `Scheduler` | the priority queue in Redis, its producers and the dequeue of each process |
| `Engine` | worker loop and `process_task` coroutines, composed of `Scheduler`, `TaskScripts`, the retry budgets and the event streams |
| `MCEngine` | the instance: two processes with names of their own, and the symmetry |
| `EngineProofs` | proofs about `Scheduler` and `Engine`, with the one that the engine implements the scheduler |
| `PBFTLite` | the consensus engines of a federation, with faulty nodes |
| `PBFTLiteProofs` | proofs about `PBFTLite` |
| `MCStoreAndPeers` | the task store and four engines of PBFT-lite, one of them faulty, side by side |
| `MCLiveness` | the queue and the breaker side by side, with their fairness |
| `EventStore` | the event log of `persistence/`, its recovery and its flushes |
| `SnapshotIndex` | the snapshot files and their index |
| `AtomicCommit` | the commit of several files by a staging directory |
| `Persistence` | one process that keeps the three, and its crashes |
| `PersistenceProofs` | proofs about the three and their composition |
| `ExecutionGateway` | the mutation gateway and the execution context below it, and the threads that use them |
| `Slashing` | the record of misbehaviour, and appeals |
| `BFTConsensus` | the three-phase engine of one node, with `Slashing` |
| `InProcess` | `Persistence`, `ExecutionGateway` and `BFTConsensus` side by side, and their instances |
| `InProcessProofs` | proofs about `ExecutionGateway` and `BFTConsensus`, and of the types of all three |

**How the models correspond to the code.** The unit of atomicity is the Redis
command: a Lua script is one action, and a method that makes two round trips is
two actions with everybody else in between. `claim_task` is `ClaimTask` (the
script) and `ReadClaimedRecord` (HGETALL); `complete_task` is `CompleteTask`
and `StoreResult`; `recover_stale_tasks` is a scan step per key and a claim.
In `TaskStore` an *execution* is a coroutine that claims, works and reports;
`hash` and `result` are the Redis keys, `pc` and `job` the coroutine's place and
its local record; `job.seen` is the epoch that the second round trip of
`claim_task` read, which may be that of another grant.

In `DurableQueue`, `msg` and `owner` are the stream and the pending list,
`result` the result key (absent, there, or past its TTL), and `running`,
`batch`, `pending_ids`, `scan` and `target` the process's memory. A Redis call
that raises is an action of its own, in which the command was executed and its
answer lost, or not executed: `ClaimRaises`, `CompleteRaises` (then `fail_task`
is tried), `StoreRaises` (also `json.dumps` of what the handler returned) and
`FailRaises` are swallowed by `consume` at lines 242-243, and the message is
acknowledged all the same; `ConsumeRaises` is an error in the loop itself, which
only catches `ResponseError`: the coroutine ends and its process stays up.
`LeaveLoop` has the wait for `pending_ids` in its guard.

In `CircuitBreaker`, `at` is the next command and `goal` the state the method
has decided to write. Every module names its history variables; no guard of a
code action reads them, save the bound on them.

In `Engine` every `await` of `process_task` that reaches Redis is an action,
with everybody else in between: `pc` names the next command of a coroutine, and
`job.in` the part of the function it is in (before the `try`, in it, in an
`except` clause), which decides where an exception goes. `Breaks` is a Redis
error at any command, `IsCancelled` a cancellation at any `await`, `Crash` the
death of a process with all its coroutines. `EventStore.append` of the runtime
is three commands: INCR of the clock (`Tick`), XADD under that number
(`AddEvent`, refused when the stream is already past it) and SET of the meta key
(`EventAdded`). The loop starts a coroutine per task without limit, since its
semaphore guards nothing; the model has a pool of coroutines and a loop waits
until enough of them are free, which only bounds the instance.

In `PBFTLite` an action is a call of a handler, and a message that a handler
refuses is no step. `sent` only grows, so a message can arrive late, out of
order, never, or again. The handlers check the view and the digest of a message
and their own phase, and nothing else: `Fits` has no sender, signature or phase
of the message in it. So while there is a faulty node, every message there is can
be delivered to every handler, in any node's name, the receiver's included; it is
never written down. Everything a handler counts goes to the length of its queue,
genuine or not. A view is *disturbed* (`disturbed`, a history variable) once some
engine in it has counted what is not a new vote of the right phase that another
node sent under its own name, or has restarted a round.

In `Persistence` an action is one effect on the file system. The event log is
the sequence of the writes that left bytes in it: an interrupted write leaves
part of a line, or all but its newline, and the next append continues in the
same line, which then does not parse. `Crash` takes the memory of all three
stores; `Restart` runs their constructors on what the files hold.

In `ExecutionGateway` an action is a critical section of one of the two locks,
or one of the reads a guarded call makes without them: a with-block is entered
by `EnterEnhanced` and `EnterGateway` and left by `ExitGateway` and
`ExitEnhanced`, and a call is `ReadActive`, `ReadCan`, `AssertEnhanced` and
`Mutate`, with the other threads between any two. `inside` is each thread's own
list of blocks, which the code keeps on its call stack.

In `BFTConsensus` a method holds the engine's lock throughout and is one action.
The other nodes are not state: any vote can be delivered at any moment and
again. A vote is a node, for what that node sent in the phase of the method, or a
*stray*, for anything else: a vote of the other phase, a repetition that the
engine takes for new, a vote in a name that is no member or not the sender's.
`WithVote` is the deduplication of the code, which looks for a stored vote in the
same name **and** of the right phase; so a mis-phased vote is counted as often as
it comes. `stuck` is the lock that `receive_request` never gives back on a
primary.

`InProcess`, `MCStoreAndPeers` and `MCLiveness` put components side by side that
share no state. One of them is chosen in the initial state and the others stay
put, so that a single run checks all at the cost of the sum of their states; no
property speaks of two of them.

**Abstractions.**

* Time. A task may be stale, a message idle, a key expired, `open_timeout`
  over at any moment. The hash (two hours) and the result (one hour) may vanish
  at any moment. In `DurableQueue` an expired hash is one of the faults, and a
  result lapses freely.
* Data. Payloads, errors, timestamps and metrics are dropped. A result is
  represented by the grant - task, life of its id, epoch - that produced it (in
  `DurableQueue`, by whether it is there).
* Libraries. `xadd(max_len=...)` and the tuple unpacking of XPENDING entries
  are modelled as the code means them, whatever the installed redis-py accepts.
  MAXLEN is approximate, so a trim may or may not happen.
* Redis errors are modelled in `consume` and `_process_task` of the queue and at
  every command of the engine, the scheduler and the runtime's event store. They
  are left out of `start()` and the recovery scan, of the producers of the
  queue, and of the breaker, where a call that raises is cut off like a cancelled
  one. A command of the engine that raises was not executed in the model; that it
  was executed stands as an error at the command that follows. Reconnects are left
  out.
* `enqueue_batch` is several `Enqueue` steps in a row. `concurrency` of
  `consume` is unused in the code, so a process works on one message at a time.
* Counters of the breaker that are only compared with a threshold stop there.
* Scores of the scheduler are wall-clock times and priorities, so ZPOPMAX may
  return any member; the size of a batch follows the load, so a dequeue may stop
  after any number of tasks.
* `run()` of the engine, with planning, tools and the language model, is its
  outcome: success, errors of either kind returned or raised, or a refusal of
  the breaker. An error text is classified by words in it; as it holds a
  traceback, an exception may classify either way.
* The DAG record and the metrics of the engine are left out: nothing reads them
  back to decide anything. Keys of the engine do not expire in the model.
* PBFT-lite messages have no round: no handler compares it, and engines propose
  with round 0 only.
* In `persistence/`, what the code writes in one call arrives whole, in part, or
  not at all; the operating system itself keeps what was written (the code
  calls no fsync, and a loss of power is not modelled). The files of a
  commit are those of its tick.
* The audit logs, the mode and the guard policy of the gateway, which can only
  refuse a call, are left out.
* BFT votes carry no signature and no view in the model: nothing in the engine
  checks them. Whether a vote says COMMIT or ABORT is left out for the same
  reason. A list of votes is the set of them, strays told apart by a number, and
  how often the engine's own is in it again. Strays are bounded in number; votes
  of correct nodes are not forged other than as strays.
* A crash also stands for a cancellation: `app.py` cancels the consume task
  right after `stop()`, and `CancelledError` passes both `except Exception`.

## 3. Runs

| Run | Expect | What it shows |
|---|---|---|
| `store_and_peers` | pass | of the task store: ownership, results and foreign records; `ImplementsLifecycle` is the refinement of `TaskLifecycle`, in which epochs only grow and ended tasks stay as they are. Of PBFT-lite: one digest per undisturbed view, with a faulty node and an unreliable transport, and the certificates behind it |
| `durable_queue` | pass | stream, pending list, task state and process memory agree, with trimming and one fault of any kind; the tasks are handed over as `TaskHandover` allows |
| `liveness` | pass | of the queue: every message is acknowledged or trimmed as long as no reader is cut off, whatever raises. Of the breaker: the probe overshoot is bounded, an OPEN breaker that is called leaves OPEN |
| `engine` | pass | queue, store and event streams agree about every run, through errors, cancellations, deaths and foreign retries; the tasks are handed over as `TaskHandover` allows |
| `in_process` | pass | what interrupted writes and crashes leave whole in each store of `persistence/`; what threads leave behind in the gateway; what the certificates of a BFT engine stand on |
| `attempts_are_reset` | violation | `claim_task` clears `attempt`, so a task is never FAILED when max_attempts > 1 |
| `shared_worker_name` | violation | one name for many coroutines defeats the ownership check |
| `reclaimed_messages` | violation | a dead worker's message is reclaimed and never processed |
| `acked_without_success` | violation | a task submitted by `POST /task` is acknowledged and never runs |
| `probes_run_out` | violation | HALF_OPEN can refuse every call for ever |
| `stale_is_not_recovered` | violation | a RUNNING task whose worker died is found and not taken over |
| `failed_is_done` | violation | a failed run ends DONE and is never failed or retried by the store |

Properties of the passing runs:

* `StaleExecutionRefused` - the scripts compare names, not epochs; the property
  says that this suffices as long as names are not shared. Its violation under a
  shared name is the second finding.
* `UniqueGrant` - within one life of a task id no two executions hold the same
  epoch.
* `ForeignRecordIsRefused` - the second round trip of `claim_task` may read the
  record of another grant, another life or nothing; whoever was given such a
  record has lost the task, so that no accepted report works with a wrong epoch.
* `ResultOfOwner` - relates result key, hash and history across deletion, expiry
  and re-creation of the id.
* `ImplementsLifecycle`, `ImplementsHandover` - refinements: every step of a
  hash, by whatever call, redelivery, recovery or expiry, is one the abstract
  store allows. A claim of a task that is not PENDING, a release under the old
  epoch and a report that another call has overtaken are not. That only a
  PENDING task is ever granted is what the script does, and not what the documents
  say of recovery: see finding 6.
* `OneHandler`, `RunningHasHandler` - relate task state to the processes'
  memory. The excused tasks are those whose hash expired, those the recovery scan
  claimed (nothing runs them), and those whose *own* processing was cut off by a
  death, a cancellation or a swallowed error. What befalls other tasks or
  messages excuses nothing.
* `AckedWasTried`, `PendingIsInFlight`, `DoneHasResult` - relate the pending
  list, the batches and the result keys, with the same narrow excuses. A process
  that has left its loop leaves nothing pending; a DONE task without a result
  is about to get it, had it for its time, or was cut off in between.
* `WaitingIsServed`, `OpenIsLeft` - liveness.
* `ProbesBounded` - the check of the probe count and its increment are two
  commands; the overshoot stays below the number of callers.
* `DepthBounded` - the backpressure check is not atomic with the ZADD; the limit
  is passed by less than the number of producers, and it is passed.
* `AcceptedIsNotLost` - relates queue, payload keys, what each dequeue holds and
  the coroutines: a task can only go down with a process or an error in between.
* `OrphansHaveCause` - a RUNNING task has its coroutine, or one that was cut off
  where the code catches nothing.
* `ClaimComesFirst`, `OutcomeEventEndsRun` - relate a task's event stream to the
  store although the clock, the stream and the hash are written by separate
  commands and the answers of the store are ignored.
* `Agreement`, `DecisionIsBacked` - the safety of PBFT-lite, for any n, in the
  views that are not disturbed. In the others it does not hold: the engines
  count repetitions, forgeries and their own looped-back votes, and have nothing
  to make it hold (section 4). `DecisionIsBacked` rests on a detail: `on_commit`
  does not count the engine's own vote, which makes up for the quorums of 2f + 1
  being too small when n is 3f + 2 or 3f + 3.
* `ChainBreaksOnlyAtLoss`, `StorageIsWhole` - the event log after any number of
  interrupted writes and restarts: the hash chain points to the event before or to
  one that is gone, and the flushed file is not behind what can be recovered.
* `CommittedSurvive`, `IndexCanBeRebuilt` - the snapshot list while the index can
  be read, and the files it could be rebuilt from once it is torn.
* `NoTornCommit` - however often commits are interrupted and repeated,
  `.committed` may lack files but never holds a half written one.
* `OpenForSomebody`, `StackCountsBlocks` - threads clear, overwrite and restore
  each other's flags; the properties say what survives that: the gateway is never
  open when nobody is in a block, nor mutable when nobody's block allows it, and
  the stack holds one entry per block, so that the last one to leave makes the
  process read-only again.
* `CertificatesHaveHonest`, `OwnVoteIsBacked` - f + 1 correct nodes stand behind a
  certificate and behind the engine's own COMMIT, less one for each stray that was
  counted. The header of the module promises them without that allowance; what
  the properties add is that nothing else costs a vote, neither a duplicated own
  vote nor a phase that goes back, nor votes of other views.
* `OneCertificate` - a request has one certificate however often it is asked for.
* `TypesOK`, `TypeOK`, `PbftTypeOK`, `BreakerTypeOK` - the type invariants.

Properties of the violation runs that no passing run has: `ExhaustedIsFailed` (a
test), `AtLeastOnce` and `AckedIsDone` (the queue's docstring),
`IdleHalfOpenAdmits` (a comment), `StaleIsRecovered` (a test, a docstring, the
life-cycle document) and `FailedIsNotDone` (the life-cycle document).
`StaleIsRecovered` speaks only of a stale task that is still as it was found and
at which nobody works any more, which is the situation of the test.

**Bounds, and why they suffice.** Two processes or callers are enough for every
race of a pair, and three executions of the task store for a race beside a
third; the scripts speak of one task, so one or two tasks do; the proofs cover
the general case. `MaxEpoch = 3` allows claim, release and claim again, which is
what a stale owner needs; `MaxLives = 2` lets an id be used twice. `MaxMsgs = 2`,
`StreamMax = 1` and `BatchSize = 2` let a message be trimmed, a batch hold two,
and one task be enqueued twice. `FaultKinds` says what may go wrong in the queue
and `MaxFaults` how often: once at any point in `DurableQueue.cfg`, twice in
`Liveness.cfg`, where a death and an error, or a claim and a completion that
raise, can follow each other (expired hashes are left to the safety run). In the
breaker, thresholds of 2 distinguish the first, the last and a middle call, and
`MaxCancels = 1` drops one caller anywhere. In the engine, a task known to the
store, two that are not, two coroutines and two processes are the least for a
foreign takeover together with a refused claim; `MaxInputs = 4` is shared by
enqueues, foreign retries and cancellations, transient failures, errors,
cancelled coroutines and deaths, so that four of any of them may coincide (to
submit, orphan, release and claim again takes four), and `MaxDepth = 1` with two
producers passes the limit. In PBFT-lite, four nodes are the least with a fault,
two digests can disagree, and `MaxUpsets = 2` allows a disturbed view beside a
node that changes view, or two nodes that do; one view at most is disturbed, so
that the run shows the other one unharmed. In persistence two interrupted writes
of each kind show what the first leaves to the second. In the gateway, two
threads with two blocks each nest, overlap and leave in either order. In the BFT
engine, four nodes are the least with a fault; two views and one own vote
appended again let the phase go back after a decision; the strays are a
mis-phased vote of the faulty node and a forged vote in the engine's own name,
of which one is stored (`MaxStrays = 1`); one record can be appealed and
resolved any number of times. (With a second request, number clashes of correct
nodes appear, see below; the invariants are proved for any requests and strays.)
Each bound is a named constant that only guards read.

`DurableQueue.cfg` uses symmetry of processes with their names and of tasks.
`Engine.cfg` uses that of processes (their names are the processes themselves),
producers, coroutines and unregistered tasks, `StoreAndPeers.cfg` that of the
correct engines and of digests, `InProcess.cfg` that of threads and of two
correct nodes. They check no liveness, and their properties treat the members
alike; `Liveness.cfg` uses none.

Deadlock is checked in `durable_queue` and `liveness`: a process may always be
started or stopped, and the breaker's time may always pass. It is not checked in
the other three: there the system really may stop, with nothing submitted any
more, with too few votes for a quorum, or with all bounded calls made.

**Fairness.** `DurableQueue!Fairness`: a live coroutine's next step is taken
(the event loop runs it, Redis answers or raises, handlers end), and a process
that died is restarted, as the compose file's restart policy does. A process
whose coroutine raised is up and is not restarted by anybody. Producers, stops,
errors and crashes are never forced. `WaitingIsServed` assumes in addition that
some worker keeps reading and that no reader is cut off with messages in hand.
`BreakerFairness`: a call in progress goes on and time passes; nobody has to
call, so `OpenIsLeft` assumes that calls keep coming. `MCLiveness!FairOne` is the
conjunction of the two, each for the part that is active.

## 4. Findings

1. `task_store.py:239` resets `attempt` on every claim. The sequence of
   `test_fail_exhausted_max_attempts` ends PENDING, not FAILED.
2. `task_store.py:276` and `:309` compare only `worker_id`; `engine.py:333`
   gives every coroutine the same one. A stale coroutine can complete the newer
   one's task.
3. `durable_queue.py:279`: the messages that XCLAIM returns are dropped, and the
   loop reads `>` only. At-least-once delivery does not hold after a crash.
4. `durable_queue.py:246` acknowledges unprocessed messages, and `app.py:247`
   never registers a task, so every claim of a task submitted over HTTP is refused.
5. `resilience.py:318`: probes are counted over all HALF_OPEN periods since the
   last close; once used up, the breaker refuses for ever, until a manual reset.

6. `task_store.py:407`: `recover_stale_tasks` hands a RUNNING task whose worker died
   to `claim_task`, whose script refuses whatever is not PENDING. The test of it
   (`testing/test_task_store.py:229`, `:233`), its docstring (line 390) and
   `GLOBAL_TASK_LIFECYCLE_SPEC.md:168` say that the task is RUNNING with the
   recovering worker, under epoch 2.
7. `engine.py:393` completes a failed run before line 394 fails it, so its task is
   DONE with the error as its result, and `fail_task` is refused.
   `GLOBAL_TASK_LIFECYCLE_SPEC.md:46`, `:107-108` and the docstring of `fail_task`
   (`task_store.py:299-300`) say that it goes back to PENDING or to FAILED.

The next observations contradict no line of the repository, and hence are no
findings, but the models show them:

* `engine.py:420` calls `init_budget` after every `record_failure`, so the
  attempt counter is 0 at every `should_retry` but after an error between the
  two: a transient failure is retried for as long as it recurs.
* `engine.py:402`: if the append after `complete_task` fails with an error that
  classifies as transient, a task that is DONE is run again.
* `engine.py:411`: a coroutine that is cancelled before its attempt loop or in an
  `except` clause leaves its task RUNNING (`IsCancelled`).
* `engine.py` ignores what `complete_task` and `fail_task` answer.
* `scheduler.py:152`: tasks are popped one by one before their payloads are read;
  an error or a death in between takes those of the batch along (`DequeueBreaks`).
* `durable_queue.py:242`: a Redis error in `claim_task`, `complete_task` or
  `fail_task` is swallowed and the message acknowledged (`ClaimRaises`,
  `CompleteRaises`, `StoreRaises`, `FailRaises`): the task stays PENDING and
  untried, RUNNING with nobody at work, or DONE without a result, and no process
  died. An error in the loop itself ends the coroutine (`ConsumeRaises`), and
  nothing starts it again.
* `durable_queue.py:175`: MAXLEN may trim a message before anybody has read it.
* `app.py:153` cancels the consume coroutine right after `stop()`, so the batch in
  hand is cut off and the wait for `pending_ids` is not reached (`Crash`).
* A PBFT-lite proposer stays in PRE_PREPARE and takes no part. With four correct
  nodes and messages from others only, the three that are left can see two other
  COMMITs each, and need three: nobody decides, unless a vote is repeated, a node
  is faulty, or a caller sets the phase by hand as the module's own test does.
* PBFT-lite drops votes that arrive before their phase, counts a repeated vote
  again (`pbft_consensus.py:199`), and after `advance_round` (`:282`) counts the
  votes of the abandoned round. Each of the last two lets two engines decide
  differently in one view.
* `quorum.py` takes any n. With n = 3f + 2 or 3f + 3, two quorums of 2f + 1 may meet
  in faulty nodes only, and two engines may be prepared for different digests;
  that `on_commit` leaves out the own vote saves the decisions (`Agreement` is
  proved for every n).

The next ones do contradict a line of the repository, which is quoted; they were
seen while modelling and each follows from the named action of the model, but no
run states them.

* `durable_queue.py:167` adds whatever it is given (`Enqueue`); line 161 says
  "Deduplication: if task_id already exists in stream payload, skips."
* `stateful_recovery.py:173`: an event appended after a torn line shares that
  line and is not recovered although its append returned (`WriteLine` after
  `TearLine`); line 48 says "All events are durable", line 50 "Crash-safe recovery
  on startup" and line 178 "Handles partial writes". `OneLossPerTear` is proved: one
  such event per interrupted write.
* `atomic_fs.py:138`: a crash in the `rmtree` of a commit leaves `.committed` without
  some files or missing (`RemoveFile`, `CommitCrash`); lines 90 and 96 say
  "all-or-nothing" and line 113 "(atomic)". A repeated commit then rewrites the
  staged files, the only copy, in place. `SomeCopyIsWhole` is proved: after one
  interruption there is still a whole set somewhere.
* `crash_consistency.py:88`: a torn `index.json` makes `CrashConsistentState` raise at
  every later start (`SnapshotIndex`); lines 67-69 promise
  "state_after_recovery == state_before_crash_committed".
* `pbft_consensus.py:192`, `:220`: no handler verifies a signature, a sender or the
  phase of a message (`Fits`, `Forged`), so one faulty node makes any quorum;
  line 8 says "Messages carry signed digests for verification" and line 90
  "Integration with FederationMessageSigning for digest verification".
* `bft_consensus.py:309`, `:355`: a vote is compared only with stored votes of the
  right phase (`WithVote`), so mis-phased votes of one name count each time, as do
  invented names; lines 18-19 say of a quorum "ensures at least f+1 honest".
* `execution_gateway.py:348`: `_exit_context` clears both flags instead of
  restoring them (`ExitGateway`), so after an inner block every guarded call of
  the outer one is refused; `tests/test_execution_gateway.py:68` asserts
  `(True, True)` there.
* `execution_context.py:211`: the permission is one flag for all threads
  (`EnterEnhanced`), so one thread's may be lent to another or taken away by it,
  and at `:255` a thread that leaves restores what another one saved;
  `tests/test_enforcement_layer.py:278` asserts of ten threads that each finds its
  own.
* `execution_gateway.py:246`: a guarded call checks without a lock and runs after
  the last check (`AssertEnhanced`, `Mutate`), when the block may have ended;
  line 231 says "Mutation allowed ONLY when mutation_context is active".
* `bft_consensus.py:313` and `:359`: late votes set the phase back from DECIDED
  (`ReceivePrepare`, `ReceiveCommit`); line 19 says "will never revert".
* `bft_consensus.py:260`: on a primary, `receive_request` waits for the lock it
  holds (`ReceiveRequest`, `stuck`); `tools/test_p7_bft.py:163` calls it there.
* `bft_consensus.py:325`: a backup numbers each COMMIT 0, so a correct node that
  commits two requests is a double signer (`Signs`, `DoubleSigned`);
  line 424 says "Byzantine behaviour confirmed".
* `bft_consensus.py:411`: a certificate holds votes whose sender was slashed after
  they were received (`FinalizeCommit`); line 433 says "excluded from future
  quorums".
* `bft_consensus.py:359` counts an ABORT like a COMMIT (`ReceiveCommit`, which
  does not know the difference); line 45 calls it a "vote to reject".
* `slashing.py:279` frees a node whose appeal was rejected and keeps one whose
  appeal was upheld (`ResolveAppeal`); line 272 and `tools/test_p7_bft.py:346` say
  the opposite.

## 5. Proofs

All constants are arbitrary within the named assumptions (`NameOfAssumption`,
`BoundsAssumption`, `CallersAssumption`, `ThresholdsAssumption`, ...); no proof
uses that the bounds are small.

`TaskHandover`, the abstract store: `PromiseHolds`, by the types and one step of
one task. While a task is known its ticket never falls and rises with every
change of holder; an end is final; a task that was running ends in its holder's
hands. Every implementation of it inherits this.

`TaskStoreProofs`:

* `TypeCorrect`. Lemma `ScriptType` types every script once; the step proof has
  a case per action.
* `EpochFenceHolds`, `TerminalIsFinalHolds`. Lemma `HashStepLemma` says that
  each step changes one task's hash by one of the scripts or drops it; the two
  action properties follow from that and from what each script does to
  state, worker and epoch (`ScriptEffect`).
* `UniqueGrantHolds`, by the invariant `GrantInv`: types, every grant of a
  working execution is at most the current one (its life not in the future, and
  within the current life its epoch not above the hash's), and uniqueness.
  Uniqueness alone is not inductive: a claim makes a grant that is new only
  because none is ahead of the hash.
* `StaleExecutionRefusedHolds`, `ResultOfOwnerHolds`, assuming `OwnNamesOnly`
  (no two executions share a name), by `OwnInv`: `GrantInv`, the property,
  `StoringOwns` (while an execution is about to store its result, its task, if
  still there in that life, is DONE under its epoch) and `ResultPast` (the same
  of a result already stored). They are kept together because a late SETEX is
  harmless only as long as a DONE hash is never changed but dropped.
* `ForeignRecordIsRefusedHolds`, under the same assumption, by `RecordInv`:
  `OwnInv` and the property.
* `FailsAtOnceOrNeverHolds`, the first finding for every instance: a RUNNING hash
  has attempt 0 (`FreshRuns`), so fail_task gives up on a task that was created
  with one attempt at most, and on no other.
* `ImplementsHandoverHolds`, without that assumption on names: every step that changes the
  hashes changes one, by one script or by expiry (`OneScript`), and each script
  is an action of `TaskHandover` (`HandoverOfScript`). What the sharing of names
  breaks is who may report, not how a task moves.
* `ImplementsLifecycleHolds`, under the same assumption and from the same
  invariant: each call and each round trip is a step of `TaskLifecycle` or
  changes nothing that is visible there. The invariant is needed at one place,
  `CompleteTask`: what the execution then owes has to be the ticket the task
  ended under, and only `StaleExecutionRefused` says that the grant it holds is
  that ticket.

The invariants were model-checked on the instance of `StoreAndPeers.cfg` before
they were proved.

`CircuitBreakerProofs`:

* `TypeCorrect`, by `TypeInv`: types, and a caller about to write a state has
  decided which (`Aimed`).
* `ProbesBoundedHolds`, by `ProbesInv`: probes counted plus callers between the
  check and the increment stay below the limit plus the number of callers.
  The bound alone is not inductive: callers that passed the check have yet to
  increment.
* `ShutUntilResetHolds`, the fifth finding for every instance: in HALF_OPEN with
  the probes used up and no call past the check, no step but the reset endpoint
  changes anything that would let a call through.

`EngineProofs`:

* Of the scheduler alone: `SchedTypeCorrect`, and `SchedDepthBounded` by the
  invariant `Room`: the tasks queued and the producers past the check are together
  fewer than the limit plus all producers. The property alone is not inductive,
  since a producer past the check adds its task whatever the queue holds by then.
* `TypeCorrect`.
* `ImplementsScheduler`: every step of the engine is a step of `SchedSpec` or
  leaves the scheduler alone. `DepthBoundedHolds` follows from it and the theorem
  about `Scheduler`.
* `ClaimComesFirstHolds`, `OutcomeEventEndsRunHolds`, `OrphansHaveCauseHolds`,
  `AcceptedIsNotLostHolds`, by one invariant `IInv`.
  Beside those properties it says: who works on a task whose grant is current
  finds it under its own name (`HolderOwns`), or not RUNNING any more once it is
  past `complete_task` (`ReportsEndedRun`); grants in coroutines and events are
  never ahead of the hash (`GrantsAreOld`, `EventsAreOld`), so a new claim
  belongs to nobody yet; who holds a tick for its first event announces a claim,
  and who runs has announced it (`StartsWithClaim`, `AnnouncedFirst`); and what
  is in the queue has a payload (`PayloadFirst`). The event properties need the
  claims of the coroutines, and those need the store: hence one invariant.
* `ImplementsHandoverHolds` and, with the theorem about `TaskHandover`,
  `HandoverPromised`: the coroutines of a process share one name and ignore the
  answers of the scripts, and the tasks are handed over in order all the same.

`PBFTLiteProofs`:

* `PbftTypeCorrect`, `AgreementHolds`, `CommitIsPreparedHolds`,
  `DecisionIsBackedHolds`, `ProposerStaysBehindHolds`, for any number n of nodes,
  at most (n - 1) div 3 of them faulty, any digests, views and rounds; nothing is
  assumed of signatures or senders. The invariant, all of it about undisturbed
  views: votes of a correct node are for a view it has reached and there for one
  digest (`VotesAreOfVoters`, `OneDigestPerView`); a queue is as long as the set of
  votes counted for it (`QueuesAreSets`), so that an engine past a threshold has
  counted that many distinct senders (`PastThreshold`); who decided is
  FINISHED (`DecidersFinish`) and who proposed waits (`ProposersWait`) until it
  leaves the view. Lemma
  `QuorumsMeet` is the counting: of at most 3f + 3 nodes, two sets of correct
  ones share a node if each makes 2f + 2 with all the faulty ones.

`PersistenceProofs`:

* `EventTypeCorrect`, `ChainBreaksOnlyAtLossHolds`, `StorageIsWholeHolds`,
  `OneLossPerTearHolds`, all of `EventSpec`. For the last, the loss is counted
  line by line: an acknowledged event that is not recovered was written in a line
  that an interrupted write had left open, and each such write leaves one.
  (`OneLossPerTear` bounds a loss that the documents deny, so no run asks for it.)
* `ImplementsEventStore`: every step of `Persistence` is a step of `EventSpec` or
  leaves the event store alone, so the theorems above hold in the
  composition.
* `TypeCorrect`, and `CommittedSurviveHolds`, `IndexCanBeRebuiltHolds` by
  `SnapInv`: acknowledged snapshots are in memory while there is one, and in the
  index whenever it can be read (`MemoryAndIndexAgree`); a file is of the last
  save of its tick (`FilesAreLatest`); a torn index has used up one interruption
  (`SpoilsAreCounted`). That the code's pick is not empty needs lemma
  `LatestExists`: of finitely many snapshots one comes after all others.
* `SomeCopyIsWholeHolds`, `NoTornCommitHolds` by `CommitInv`: what is staged is
  whole as far as it got, and all of it once the removal has begun
  (`StagedSoFar`); before the first interruption only a commit under way has
  `.committed` incomplete (`WholeUntilCut`).

`DurableQueueProofs`:

* `TypeCorrect`, `PendingIsInFlightHolds`, `OneHandlerHolds`,
  `RunningHasHandlerHolds`, `DoneHasResultHolds`, `AckedWasTriedHolds`, by one
  invariant `IInv`, the types with three parts. `InFlight`: the messages of a batch
  are pending and in no other batch (`BatchesHold`), besides the property.
  `Handlers`: as long as its hash has not expired, a process finds the task it is
  at work on RUNNING under its own name, or DONE once it has completed it
  (`WorkIsOwned`), and is the only one at it (`OneWorker`), besides three
  properties; without that the end of a handler could leave a task RUNNING that
  nobody works on. `Acks`: a delivered
  task was registered before (`Known`), and a process about to acknowledge has
  tried it or was hit by an error in trying (`Tried`). Nothing assumes that
  process names differ. Lemmas `Ranks` and `Smallest` say that the "oldest n" of
  XREADGROUP are there to be read.
* `ImplementsHandoverHolds` and `HandoverPromised`, from the types, `BatchesHold`
  (the task a process reports on is one) and `OneTarget`: the recovery scan has
  one task in hand when it claims, so each step changes one hash.
* `AbandonedForEverHolds`, the third finding for every instance: a pending message
  that is in nobody's batch stays so. Only XREADGROUP fills a batch, with waiting
  messages, and only the head of a batch is acknowledged.
* `RunsOnlyRegisteredHolds`, the fourth: where producers do not register their
  tasks, there is never a hash to be claimed, so no handler runs.

`InProcessProofs`, of `ExecutionGateway`, for any number of threads and any nesting:

* `GateTypeCorrect`, `OpenForSomebodyHolds`, `StackCountsBlocksHolds`, by `GateInv`:
  types, and a thread on its way into or out of a block has that block
  (`WaysHaveBlocks`). `OpenForSomebody` survives the steps of the other threads
  because only the two actions of the gateway itself change what is entered.
  `StackCountsBlocks` is a cardinality argument: each entry adds one pair of
  thread and depth, each exit takes one away.
* `InnermostDecidesHolds`, for one thread: the stack is then the list of the
  blocks around the innermost one (`StackIsBlocks`), so that the context restores
  what the outer block asked for. With two threads it is false.

`InProcessProofs`, of `BFTConsensus`, for any n >= 3f + 1 nodes, at most f of them faulty, any
requests, views and numbers:

* `BFTTypeCorrect`, `CertificatesHaveHonestHolds`, `OwnVoteIsBackedHolds`,
  `OneCertificateHolds`, by `IInv`: types and, for each request, that the own
  COMMIT has a quorum of PREPAREs behind it (`OwnVote`), that past COMMITTED the
  list holds a quorum of votes although the own vote may be in it more than once
  (`CommitVotes`), and that certificates are of such votes (`Certificates`). Lemma
  `HonestInQuorum` is the counting, for any set of strays. That a duplicated own
  vote never completes a quorum is the point of the argument.

`TypesHold` of `InProcessProofs` puts the types of the three components together,
for the behaviours of `SpecOne`.

Every invariant a passing run checks is stated by a theorem, and so is every step
property, `ImplementsLifecycle` and `ImplementsHandover`.

Proved and not run, since the runs keep to what says most: `EpochFence` and
`TerminalIsFinal` (`ImplementsLifecycle` implies them), `ImplementsHandover` of the
store, `FailsAtOnceOrNever`, `AbandonedForEver`, `RunsOnlyRegistered`,
`ShutUntilReset`, `CommitIsPrepared`, `ProposerStaysBehind`, `OneLossPerTear`,
`SomeCopyIsWhole`, `InnermostDecides`. TLC found each of
them true of the instance of its module before it was proved.

Only model-checked: `WaitingIsServed` and `OpenIsLeft` (liveness under fairness
is outside what the prover handles), and that the seven violations
do occur: a counterexample is a behaviour, and that one exists is not a theorem
of the kind proved here. What the theorems add to them is what follows once they
have occurred.

## 6. Not modelled, and the plan

The components marked `not_modelled` in `PROJECT.json` give their reason. In the
modelled ones these operations are left out:

* `check_and_set_idempotency` - one SET NX with a TTL, so there is nothing to
  interleave; its only caller is `testing/test_task_store.py:375-399`.
* `AdaptiveScheduler.requeue` - it has no caller.
* The DAG recorder and `dag_retry.py` - read-modify-write of a JSON value per
  node, in a report that no decision reads.
* `async_engine.py` - its `process_message` reads names that are never bound
  (`TaskEvent`, `EventType`), so each run ends right after its claim.
* `WriteAheadLog.clear`, `MutationLedger` and the chain verification of
  `persistence/` - no caller, or a reading of what is modelled.
* `PersistentStateWindowStore` - its constructor fails on a file it has written
  itself, so there is no restart to model.
* `RecoveryManager` and `CheckpointManager` - they sit above the stores and keep
  no protocol state of their own.
* `view_change.py` - nothing connects it to the consensus engine; `Reset` with
  another view is what an application can do.

Most of the tree is outside of what state machines say anything about:
floating-point feedback controllers and drift detectors, single-threaded
checkers called in sequence, guards of the Python interpreter, gRPC and shell
glue, and separate products (job routing, installer, operator). That is where
most of the lines are, so the models cover a small share of all lines and the
greater part of the code in which several actors change state that outlives a
call.

* The federated execution gateway - `execute` reads `payload_hash` before it is
  assigned, so every call raises before it reaches the BFT engine or the ledger;
  the ledger has no other caller.
* The deterministic scheduler - sorting of a list, with no state of its own.
* The `sdlc_os` kernel - `AuditLedger` raises in its constructor: its schema
  (`seq INTEGER AUTOINCREMENT`) is not valid SQLite.
* Gossip and delta gossip - exchanged by direct calls in tests; no transport,
  process or thread delivers anything.
* The job router, failure orchestrator and state store of `unified-platform` -
  calls to external systems, around a job engine that is not in the repository.
* The Kubernetes operator - `controller.py` imports `Reconciler`, which
  `reconciler.py` does not define, so no loop drives its reconcile.
* `AtomicLedgerWriter` (`core/atomic_ledger.py`) - a singleton over a
  write-ahead log, built by its own tests only. Its constructor replays the log
  outside of its lock, and removes the log if one line does not parse; whether
  either matters depends on who opens it, and nothing in the repository does.
* `atomos_pkg/` - leases, quorum commits and an unreliable transport simulated
  within one process, driven by their own demos, audits and tests.

Of the rest, the atomic ledger under several threads and a restart would be the
next module.
