--------------------------- MODULE CircuitBreaker ---------------------------
(***************************************************************************)
(* CircuitBreaker of agent_runtime/resilience.py, and the coroutines that  *)
(* call a dependency through guarded().                                    *)
(*                                                                         *)
(* The breaker lives in four Redis keys and every method reads and writes  *)
(* them one at a time, with no script and no transaction: each action here *)
(* is one Redis command of one caller, and callers interleave between any  *)
(* two of them.  A caller keeps in its own memory only which command comes *)
(* next (at) and which state it means to write (goal).                     *)
(*                                                                         *)
(* The counters `failures' and `half_open_successes' are only compared     *)
(* with their thresholds, so they stop counting there.  Of last_change we  *)
(* keep whether open_timeout has passed since.                             *)
(***************************************************************************)
EXTENDS Naturals, FiniteSets

CONSTANTS
    Callers,            \* coroutines that call guarded() or the reset endpoint
    FailureThreshold,   \* failures before OPEN
    SuccessThreshold,   \* successes in HALF_OPEN to close
    HalfOpenMax,        \* half_open_max_calls
    SlowProbes,         \* whether a minute may pass between two successes
    MaxCancels          \* bound: coroutines cancelled or dead in mid-call

ASSUME CallersAssumption == IsFiniteSet(Callers) /\ Callers # {}
ASSUME ThresholdsAssumption ==
    /\ FailureThreshold \in Nat \ {0}
    /\ SuccessThreshold \in Nat \ {0}
    /\ HalfOpenMax \in Nat \ {0}
    /\ SlowProbes \in BOOLEAN
    /\ MaxCancels \in Nat

VARIABLES
    state,      \* cb:<name>:state; an absent key reads as closed
    aged,       \* whether open_timeout has passed since cb:<name>:last_change
    failures,   \* cb:<name>:failures
    calls,      \* cb:<name>:half_open_calls
    successes,  \* cb:<name>:half_open_successes
    at,         \* the next Redis command of each caller
    goal,       \* the state each caller means to write, if any
    cancels     \* history: cancellations so far

keys == <<state, aged, failures, calls, successes>>
breakerVars == <<keys, at, goal, cancels>>

CircuitStates == {"closed", "open", "half_open"}

Checking == {"get_last_change", "get_calls", "incr_calls"}
Recording == {"incr_successes", "incr_failures", "get_failures"}
Resetting == {"set_failures", "del_calls", "del_successes"}
Setting == {"set_state", "set_last_change"}
PCs == {"idle", "calling"} \cup Checking \cup Recording \cup Resetting \cup Setting

Goals == {"none", "closed", "open", "open_at_threshold", "half_open"}

BreakerTypeOK ==
    /\ state \in CircuitStates
    /\ aged \in BOOLEAN
    /\ failures \in 0 .. FailureThreshold
    /\ calls \in Nat
    /\ successes \in 0 .. SuccessThreshold
    /\ at \in [Callers -> PCs]
    /\ goal \in [Callers -> Goals]
    /\ cancels \in 0 .. MaxCancels

BreakerInit ==
    /\ state = "closed"
    /\ aged = TRUE
    /\ failures = 0
    /\ calls = 0
    /\ successes = 0
    /\ at = [c \in Callers |-> "idle"]
    /\ goal = [c \in Callers |-> "none"]
    /\ cancels = 0

Go(c, place) == at' = [at EXCEPT ![c] = place]
Aim(c, g) == goal' = [goal EXCEPT ![c] = g]
Finish(c) == Go(c, "idle") /\ Aim(c, "none")
CountTo(n, limit) == IF n < limit THEN n + 1 ELSE n

-----------------------------------------------------------------------------
(* can_execute.                                                             *)

\* get_state, and what each state leads to.
BeginCall(c) ==
    /\ at[c] = "idle"
    /\ Go(c, CASE state = "closed" -> "calling"
               [] state = "open" -> "get_last_change"
               [] state = "half_open" -> "get_calls")
    /\ UNCHANGED <<keys, goal, cancels>>

(* The timeout has passed: the breaker goes to HALF_OPEN, and this call is   *)
(* let through without being counted.                                        *)
TimeoutPassed(c) ==
    /\ at[c] = "get_last_change"
    /\ aged
    /\ Go(c, "set_state")
    /\ Aim(c, "half_open")
    /\ UNCHANGED <<keys, cancels>>

StillOpen(c) ==
    /\ at[c] = "get_last_change"
    /\ ~aged
    /\ Go(c, "idle")
    /\ UNCHANGED <<keys, goal, cancels>>

\* Mutant: one more call than allowed.
ProbesLeftOneMore == calls <= HalfOpenMax

ProbesLeft == calls < HalfOpenMax

AdmitProbe(c) ==
    /\ at[c] = "get_calls"
    /\ ProbesLeft
    /\ Go(c, "incr_calls")
    /\ UNCHANGED <<keys, goal, cancels>>

RefuseProbe(c) ==
    /\ at[c] = "get_calls"
    /\ ~ProbesLeft
    /\ Go(c, "idle")
    /\ UNCHANGED <<keys, goal, cancels>>

CountProbe(c) ==
    /\ at[c] = "incr_calls"
    /\ calls' = calls + 1
    /\ Go(c, "calling")
    /\ UNCHANGED <<state, aged, failures, successes, goal, cancels>>

-----------------------------------------------------------------------------
(* record_success and record_failure, when the guarded coroutine has ended. *)
(* Each starts with get_state and keeps what it read to the end.            *)
CallSucceeds(c) ==
    /\ at[c] = "calling"
    /\ \/ /\ state = "closed"
          /\ Go(c, "set_failures")
          /\ Aim(c, "none")
       \/ /\ state = "half_open"
          /\ Go(c, "incr_successes")
          /\ Aim(c, "closed")
       \/ /\ state = "open"
          /\ Finish(c)
    /\ UNCHANGED <<keys, cancels>>

CallFails(c) ==
    /\ at[c] = "calling"
    /\ Go(c, "incr_failures")
    /\ Aim(c, CASE state = "closed" -> "open_at_threshold"
                [] state = "half_open" -> "open"
                [] state = "open" -> "none")
    /\ UNCHANGED <<keys, cancels>>

\* INCR and EXPIRE of half_open_successes.
CountSuccess(c) ==
    /\ at[c] = "incr_successes"
    /\ successes' = CountTo(successes, SuccessThreshold)
    /\ IF successes' >= SuccessThreshold
       THEN Go(c, "set_failures") /\ UNCHANGED goal
       ELSE Finish(c)
    /\ UNCHANGED <<state, aged, failures, calls, cancels>>

CountFailure(c) ==
    /\ at[c] = "incr_failures"
    /\ failures' = CountTo(failures, FailureThreshold)
    /\ Go(c, CASE goal[c] = "open_at_threshold" -> "get_failures"
               [] goal[c] = "open" -> "set_state"
               [] goal[c] = "none" -> "idle")
    /\ UNCHANGED <<state, aged, calls, successes, goal, cancels>>

CheckThreshold(c) ==
    /\ at[c] = "get_failures"
    /\ IF failures >= FailureThreshold
       THEN Go(c, "set_state") /\ Aim(c, "open")
       ELSE Finish(c)
    /\ UNCHANGED <<keys, cancels>>

-----------------------------------------------------------------------------
(* _reset_failures: three commands, then _set_state(CLOSED) or nothing.     *)
ResetFailures(c) ==
    /\ at[c] = "set_failures"
    /\ failures' = 0
    /\ Go(c, "del_calls")
    /\ UNCHANGED <<state, aged, calls, successes, goal, cancels>>

DeleteCalls(c) ==
    /\ at[c] = "del_calls"
    /\ calls' = 0
    /\ Go(c, "del_successes")
    /\ UNCHANGED <<state, aged, failures, successes, goal, cancels>>

DeleteSuccesses(c) ==
    /\ at[c] = "del_successes"
    /\ successes' = 0
    /\ Go(c, IF goal[c] = "closed" THEN "set_state" ELSE "idle")
    /\ UNCHANGED <<state, aged, failures, calls, goal, cancels>>

\* Mutant: the member's name is stored, not its value.
WriteName(g) == CASE g = "closed" -> "CLOSED"
                  [] g = "open" -> "OPEN"
                  [] g = "half_open" -> "HALF_OPEN"

\* Mutant: only the timestamp is renewed when the timeout has passed.
WriteNoHalfOpen(g) == IF g = "half_open" THEN "open" ELSE g

Write(g) == g

\* _set_state: the state, then the time.
SetState(c) ==
    /\ at[c] = "set_state"
    /\ state' = Write(goal[c])
    /\ Go(c, "set_last_change")
    /\ UNCHANGED <<aged, failures, calls, successes, goal, cancels>>

SetLastChange(c) ==
    /\ at[c] = "set_last_change"
    /\ aged' = FALSE
    /\ Go(c, IF goal[c] = "half_open" THEN "calling" ELSE "idle")
    /\ Aim(c, "none")
    /\ UNCHANGED <<state, failures, calls, successes, cancels>>

-----------------------------------------------------------------------------
\* POST /circuit-breakers/{name}/reset.
BeginReset(c) ==
    /\ at[c] = "idle"
    /\ Go(c, "set_failures")
    /\ Aim(c, "closed")
    /\ UNCHANGED <<keys, cancels>>

(* The coroutine is cancelled, or its process dies: CancelledError is no     *)
(* Exception, so guarded records neither outcome.                            *)
Cancel(c) ==
    /\ cancels < MaxCancels
    /\ at[c] # "idle"
    /\ cancels' = cancels + 1
    /\ Finish(c)
    /\ UNCHANGED keys

\* open_timeout passes.
TimePasses ==
    /\ ~aged
    /\ aged' = TRUE
    /\ UNCHANGED <<state, failures, calls, successes, at, goal, cancels>>

\* half_open_successes lives for a minute after an increment.
SuccessesExpire ==
    /\ SlowProbes
    /\ successes > 0
    /\ successes' = 0
    /\ UNCHANGED <<state, aged, failures, calls, at, goal, cancels>>

\* What a call in progress does next.
Proceed(c) ==
    \/ TimeoutPassed(c) \/ StillOpen(c)
    \/ AdmitProbe(c) \/ RefuseProbe(c) \/ CountProbe(c)
    \/ CallSucceeds(c) \/ CallFails(c)
    \/ CountSuccess(c) \/ CountFailure(c) \/ CheckThreshold(c)
    \/ ResetFailures(c) \/ DeleteCalls(c) \/ DeleteSuccesses(c)
    \/ SetState(c) \/ SetLastChange(c)

BreakerNext ==
    \/ \E c \in Callers : BeginCall(c) \/ Proceed(c) \/ BeginReset(c) \/ Cancel(c)
    \/ TimePasses
    \/ SuccessesExpire

BreakerSpec == BreakerInit /\ [][BreakerNext]_breakerVars

(* Redis answers, guarded coroutines end, time goes on; nobody has to call. *)
BreakerFairness == WF_breakerVars(TimePasses) /\ \A c \in Callers : WF_breakerVars(Proceed(c))

BreakerFairSpec == BreakerSpec /\ BreakerFairness

-----------------------------------------------------------------------------
(* Properties.                                                              *)

(* The probe counter may exceed its limit, since it is read and incremented *)
(* in two commands, but by less than one call per caller.                   *)
ProbesBounded == calls < HalfOpenMax + Cardinality(Callers)

(* As long as there are calls, an OPEN breaker leaves that state: stale     *)
(* writers that stamp last_change anew cannot keep it shut for ever.        *)
CallsKeepComing == []<>(\E c \in Callers : at[c] = "get_last_change")

OpenIsLeft == CallsKeepComing => (state = "open" ~> state # "open")

(* can_execute's comment: "If HALF_OPEN -> limits concurrent test calls", so *)
(* with no call under way a HALF_OPEN breaker admits one.                    *)
IdleHalfOpenAdmits ==
    state = "half_open" /\ (\A c \in Callers : at[c] = "idle") => ProbesLeft

(* What becomes of it: once the probes are used up and no call is past the   *)
(* check, every call is refused and nothing changes that but the reset       *)
(* endpoint, however much time passes.                                       *)
Shut ==
    /\ state = "half_open" /\ ~ProbesLeft
    /\ \A c \in Callers : at[c] \in {"idle", "get_calls"}

ShutUntilReset == [][Shut => Shut' \/ \E c \in Callers : BeginReset(c)]_breakerVars
=============================================================================
