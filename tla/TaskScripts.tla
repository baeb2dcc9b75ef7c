---------------------------- MODULE TaskScripts ----------------------------
(***************************************************************************)
(* The Lua scripts of agent_runtime/task_store.py.  Redis runs a script    *)
(* atomically, so each of them is an operator on one task's hash.          *)
(*                                                                         *)
(* Of the hash we keep the fields a script reads: state, worker_id, epoch, *)
(* attempt and max_attempts.  Timestamps, the error text and the payload   *)
(* are dropped.  A key that does not exist (never created, deleted, or     *)
(* past its EXPIRE) is the record Missing: HGET answers nil for it, which  *)
(* equals no state and no worker name.                                     *)
(***************************************************************************)
EXTENDS Naturals

CONSTANTS
    Names,        \* worker_id strings that callers pass
    NoName,       \* the empty string stored when nobody owns the task
    AttemptLimits \* the values of max_attempts given to create_task

ASSUME NoNameAssumption == NoName \notin Names
ASSUME AttemptLimitsAssumption == AttemptLimits \subseteq Nat

Terminal == {"DONE", "FAILED", "CANCELLED"}
States == {"PENDING", "RUNNING"} \cup Terminal

Hash == [state : States \cup {"MISSING"},
         worker : Names \cup {NoName},
         epoch : Nat,
         attempt : Nat,
         max_attempts : Nat]

Missing == [state |-> "MISSING", worker |-> NoName, epoch |-> 0,
            attempt |-> 0, max_attempts |-> 0]

Exists(h) == h.state # "MISSING"

\* What create_task writes for a new task.
Created(max) == [state |-> "PENDING", worker |-> NoName, epoch |-> 0,
                 attempt |-> 0, max_attempts |-> max]

\* HSET of the fields that change in a task's life.
Rewrite(h, state, worker, epoch, attempt) ==
    [state |-> state, worker |-> worker, epoch |-> epoch, attempt |-> attempt,
     max_attempts |-> h.max_attempts]

-----------------------------------------------------------------------------
(* claim_task: refused unless PENDING; a claim starts a new epoch and puts  *)
(* the attempt counter back to 0.                                           *)
\* Mutant: the guard also lets a RUNNING task through.
CanClaimRunning(h) == h.state \in {"PENDING", "RUNNING"}

CanClaim(h) == h.state = "PENDING"

\* Mutant: the epoch is set, not incremented.
ClaimedFirstEpoch(h, w) == Rewrite(h, "RUNNING", w, 1, 0)

Claimed(h, w) == Rewrite(h, "RUNNING", w, h.epoch + 1, 0)

-----------------------------------------------------------------------------
(* complete_task, fail_task and retry_task share one guard: the task is     *)
(* RUNNING and belongs to the caller's worker name.  The epoch is not read. *)

\* Mutant: the state is checked, the worker name is not.
RunningOnly(h, w) == h.state = "RUNNING"

\* Mutant: the worker name is checked, the state is not.
NameOnly(h, w) == h.worker = w

OwnedBy(h, w) == h.state = "RUNNING" /\ h.worker = w

\* Mutant: the state string of the removed state_machine.py.
CompletedOldName(h) == [h EXCEPT !.state = "COMPLETED"]

Completed(h) == [h EXCEPT !.state = "DONE"]

\* Mutant: retry keeps the epoch.
ReleasedSameEpoch(h) == Rewrite(h, "PENDING", NoName, h.epoch, h.attempt)

\* Mutant: retry forgets to clear worker_id.
ReleasedKeepsName(h) == Rewrite(h, "PENDING", h.worker, h.epoch + 1, h.attempt)

\* Back to the queue: PENDING under a new epoch, nobody's.
Released(h) == Rewrite(h, "PENDING", NoName, h.epoch + 1, h.attempt)

\* Mutant: the attempt is counted, the task is not released.
FailedKeepsRunning(h) == [h EXCEPT !.attempt = @ + 1]

\* fail_task counts the attempt, then either gives up or releases the task.
Failed(h) ==
    LET counted == [h EXCEPT !.attempt = @ + 1]
    IN  IF counted.attempt >= h.max_attempts
        THEN [counted EXCEPT !.state = "FAILED"]
        ELSE Released(counted)

-----------------------------------------------------------------------------
\* Mutant: a DONE task may be cancelled by its owner.
CanCancelDone(h, w) ==
    h.state \notin {"MISSING", "FAILED"} /\ h.worker \in {NoName, w}

(* cancel_task: not after DONE or FAILED, and not on another worker's task. *)
(* A task already CANCELLED may be cancelled again.                         *)
CanCancel(h, w) ==
    h.state \notin {"MISSING", "DONE", "FAILED"} /\ h.worker \in {NoName, w}

Cancelled(h) == [h EXCEPT !.state = "CANCELLED"]
=============================================================================
