------------------------ MODULE CircuitBreakerProofs ------------------------
(***************************************************************************)
(* Theorems about CircuitBreaker, for any number of callers and any        *)
(* thresholds.                                                             *)
(***************************************************************************)
EXTENDS CircuitBreaker, FiniteSetTheorems, TLAPS

(* Who writes a state has one to write: the types alone are not inductive.   *)
Aimed ==
    \A c \in Callers :
        /\ at[c] = "set_state" => goal[c] \in CircuitStates
        /\ at[c] = "incr_failures" => goal[c] \in {"none", "open", "open_at_threshold"}

TypeInv == BreakerTypeOK /\ Aimed

LEMMA CountToType ==
    ASSUME NEW limit \in Nat, NEW n \in 0 .. limit
    PROVE  CountTo(n, limit) \in 0 .. limit
  BY DEF CountTo

(* The control state of a caller that moves to `place' with goal g.          *)
LEMMA Move ==
    ASSUME TypeInv, NEW c \in Callers, NEW place \in PCs, NEW g \in Goals,
           at' = [at EXCEPT ![c] = place], goal' = [goal EXCEPT ![c] = g],
           place = "set_state" => g \in CircuitStates,
           place = "incr_failures" => g \in {"none", "open", "open_at_threshold"}
    PROVE  at' \in [Callers -> PCs] /\ goal' \in [Callers -> Goals] /\ Aimed'
  BY DEF TypeInv, BreakerTypeOK, Aimed

(* The same for a caller whose goal stays.                                   *)
LEMMA MoveOn ==
    ASSUME TypeInv, NEW c \in Callers, NEW place \in PCs,
           at' = [at EXCEPT ![c] = place], goal' = goal,
           place = "set_state" => goal[c] \in CircuitStates,
           place # "incr_failures"
    PROVE  at' \in [Callers -> PCs] /\ goal' \in [Callers -> Goals] /\ Aimed'
  BY DEF TypeInv, BreakerTypeOK, Aimed

LEMMA TypeInit == BreakerInit => TypeInv
  BY ThresholdsAssumption DEF BreakerInit, TypeInv, BreakerTypeOK, Aimed, CircuitStates, PCs, Goals

LEMMA TypeKept == ASSUME TypeInv, [BreakerNext]_breakerVars PROVE TypeInv'
  <1> USE ThresholdsAssumption
  <1> DEFINE Places == at' \in [Callers -> PCs] /\ goal' \in [Callers -> Goals] /\ Aimed'
  <1>k. UNCHANGED <<keys, cancels>> /\ Places => TypeInv'
    BY DEF TypeInv, BreakerTypeOK, keys
  <1>p. /\ {"idle", "calling"} \cup Checking \cup Recording \cup Resetting \cup Setting = PCs
        /\ {"get_last_change", "get_calls", "incr_calls", "incr_successes",
            "incr_failures", "get_failures", "set_failures", "del_calls",
            "del_successes", "set_state", "set_last_change"} \subseteq PCs
        /\ {"none", "closed", "open", "open_at_threshold", "half_open"} = Goals
        /\ {"closed", "open", "half_open"} = CircuitStates
        /\ "idle" \in PCs /\ "calling" \in PCs
    BY DEF PCs, Checking, Recording, Resetting, Setting, Goals, CircuitStates
  <1>1. ASSUME NEW c \in Callers, BeginCall(c)
        PROVE  TypeInv'
    <2>1. state \in {"closed", "open", "half_open"}
      BY DEF TypeInv, BreakerTypeOK, CircuitStates
    <2>2. PICK place \in {"calling", "get_last_change", "get_calls"} :
                 at' = [at EXCEPT ![c] = place]
      BY <1>1, <2>1 DEF BeginCall, Go
    <2> QED BY <1>1, <1>k, <1>p, <2>2, MoveOn DEF BeginCall
  <1>2. ASSUME NEW c \in Callers, StillOpen(c) \/ AdmitProbe(c) \/ RefuseProbe(c)
        PROVE  TypeInv'
    BY <1>2, <1>k, <1>p, MoveOn DEF StillOpen, AdmitProbe, RefuseProbe, Go
  <1>3. ASSUME NEW c \in Callers,
               TimeoutPassed(c) \/ CallSucceeds(c) \/ BeginReset(c)
        PROVE  TypeInv'
    BY <1>3, <1>k, <1>p, Move
    DEF TimeoutPassed, CallSucceeds, BeginReset, Finish, Go, Aim
  <1>4. ASSUME NEW c \in Callers, CallFails(c)
        PROVE  TypeInv'
    <2>1. state \in {"closed", "open", "half_open"}
      BY DEF TypeInv, BreakerTypeOK, CircuitStates
    <2>2. PICK g \in {"none", "open", "open_at_threshold"} :
                 goal' = [goal EXCEPT ![c] = g]
      BY <1>4, <2>1 DEF CallFails, Aim
    <2> QED BY <1>4, <1>k, <1>p, <2>2, Move DEF CallFails, Go
  <1>5. ASSUME NEW c \in Callers, CheckThreshold(c)
        PROVE  TypeInv'
    <2>1. Places
      <3>1. CASE failures >= FailureThreshold
        BY <1>5, <1>p, <3>1, Move DEF CheckThreshold, Go, Aim
      <3>2. CASE ~(failures >= FailureThreshold)
        BY <1>5, <1>p, <3>2, Move DEF CheckThreshold, Finish, Go, Aim
      <3> QED BY <3>1, <3>2
    <2> QED BY <1>5, <1>k, <2>1 DEF CheckThreshold
  <1>6. ASSUME NEW c \in Callers, CountProbe(c)
        PROVE  TypeInv'
    <2>1. Places
      BY <1>6, <1>p, MoveOn DEF CountProbe, Go
    <2> QED BY <1>6, <2>1 DEF CountProbe, TypeInv, BreakerTypeOK
  <1>7. ASSUME NEW c \in Callers, CountSuccess(c)
        PROVE  TypeInv'
    <2>1. successes' \in 0 .. SuccessThreshold
      BY <1>7, CountToType DEF CountSuccess, TypeInv, BreakerTypeOK
    <2>2. Places
      <3>1. CASE successes' >= SuccessThreshold
        BY <1>7, <1>p, <3>1, MoveOn DEF CountSuccess, Go
      <3>2. CASE ~(successes' >= SuccessThreshold)
        BY <1>7, <1>p, <3>2, Move DEF CountSuccess, Finish, Go, Aim
      <3> QED BY <3>1, <3>2
    <2> QED BY <1>7, <2>1, <2>2 DEF CountSuccess, TypeInv, BreakerTypeOK
  <1>8. ASSUME NEW c \in Callers, CountFailure(c)
        PROVE  TypeInv'
    <2>1. failures' \in 0 .. FailureThreshold
      BY <1>8, CountToType DEF CountFailure, TypeInv, BreakerTypeOK
    <2>2. goal[c] \in {"none", "open", "open_at_threshold"}
      BY <1>8 DEF CountFailure, TypeInv, Aimed
    <2>3. Places
      <3>1. CASE goal[c] = "open_at_threshold"
        BY <1>8, <1>p, <3>1, MoveOn DEF CountFailure, Go
      <3>2. CASE goal[c] = "open"
        BY <1>8, <1>p, <3>2, MoveOn DEF CountFailure, Go
      <3>3. CASE goal[c] = "none"
        BY <1>8, <1>p, <3>3, MoveOn DEF CountFailure, Go
      <3> QED BY <2>2, <3>1, <3>2, <3>3
    <2> QED BY <1>8, <2>1, <2>3 DEF CountFailure, TypeInv, BreakerTypeOK
  <1>9. ASSUME NEW c \in Callers, ResetFailures(c) \/ DeleteCalls(c)
        PROVE  TypeInv'
    <2>1. Places
      BY <1>9, <1>p, MoveOn DEF ResetFailures, DeleteCalls, Go
    <2> QED BY <1>9, <2>1 DEF ResetFailures, DeleteCalls, TypeInv, BreakerTypeOK
  <1>10. ASSUME NEW c \in Callers, DeleteSuccesses(c)
         PROVE  TypeInv'
    <2>1. Places
      <3>1. CASE goal[c] = "closed"
        BY <1>10, <1>p, <3>1, MoveOn DEF DeleteSuccesses, Go
      <3>2. CASE goal[c] # "closed"
        BY <1>10, <1>p, <3>2, MoveOn DEF DeleteSuccesses, Go
      <3> QED BY <3>1, <3>2
    <2> QED BY <1>10, <2>1 DEF DeleteSuccesses, TypeInv, BreakerTypeOK
  <1>11. ASSUME NEW c \in Callers, SetState(c)
         PROVE  TypeInv'
    <2>1. Places
      BY <1>11, <1>p, MoveOn DEF SetState, Go
    <2>2. state' \in CircuitStates
      BY <1>11 DEF SetState, Write, TypeInv, Aimed
    <2> QED BY <1>11, <2>1, <2>2 DEF SetState, TypeInv, BreakerTypeOK
  <1>12. ASSUME NEW c \in Callers, SetLastChange(c)
         PROVE  TypeInv'
    <2>1. Places
      <3>1. CASE goal[c] = "half_open"
        BY <1>12, <1>p, <3>1, Move DEF SetLastChange, Go, Aim
      <3>2. CASE goal[c] # "half_open"
        BY <1>12, <1>p, <3>2, Move DEF SetLastChange, Go, Aim
      <3> QED BY <3>1, <3>2
    <2> QED BY <1>12, <2>1 DEF SetLastChange, TypeInv, BreakerTypeOK
  <1>13. ASSUME NEW c \in Callers, Cancel(c)
         PROVE  TypeInv'
    <2>1. Places
      BY <1>13, <1>p, Move DEF Cancel, Finish, Go, Aim
    <2> QED BY <1>13, <2>1 DEF Cancel, TypeInv, BreakerTypeOK, keys
  <1>14. ASSUME TimePasses \/ SuccessesExpire
         PROVE  TypeInv'
    <2>1. /\ aged' \in BOOLEAN
          /\ UNCHANGED <<state, failures, calls, at, goal, cancels>>
      BY <1>14, Zenon DEF TimePasses, SuccessesExpire, TypeInv, BreakerTypeOK
    <2>2. successes' \in {successes, 0}
      BY <1>14 DEF TimePasses, SuccessesExpire
    <2> QED BY <2>1, <2>2 DEF TypeInv, BreakerTypeOK, Aimed
  <1>15. CASE UNCHANGED breakerVars
    BY <1>15 DEF breakerVars, keys, TypeInv, BreakerTypeOK, Aimed
  <1> QED
    BY <1>1, <1>2, <1>3, <1>4, <1>5, <1>6, <1>7, <1>8, <1>9, <1>10, <1>11, <1>12,
       <1>13, <1>14, <1>15 DEF BreakerNext, Proceed

(* Type correctness: in particular only members' values reach the state key. *)
THEOREM TypeCorrect == BreakerSpec => []BreakerTypeOK
  <1>1. TypeInv /\ [BreakerNext]_breakerVars => TypeInv'
    BY TypeKept
  <1>2. TypeInv => BreakerTypeOK
    BY DEF TypeInv
  <1> QED BY TypeInit, <1>1, <1>2, PTL DEF BreakerSpec

-----------------------------------------------------------------------------
(* Callers that were admitted and have not been counted yet.                *)
Entering == {c \in Callers : at[c] = "incr_calls"}

ProbesInv == TypeInv /\ calls + Cardinality(Entering) < HalfOpenMax + Cardinality(Callers)

LEMMA EnteringFinite ==
    /\ IsFiniteSet(Entering)
    /\ Cardinality(Entering) \in Nat
    /\ Cardinality(Callers) \in Nat \ {0}
    /\ Cardinality(Entering) <= Cardinality(Callers)
  <1>1. Entering \in SUBSET Callers
    BY DEF Entering
  <1> QED BY <1>1, CallersAssumption, FS_Subset, FS_CardinalityType, FS_EmptySet

(* What a step does to the probe counter and to those about to increment it. *)
LEMMA ProbeStep ==
    ASSUME TypeInv, [BreakerNext]_breakerVars
    PROVE  \/ calls' \in {calls, 0} /\ Entering' \subseteq Entering
           \/ calls' = calls /\ calls < HalfOpenMax
           \/ calls' = calls + 1 /\ \E c \in Entering : Entering' = Entering \ {c}
  <1>1. ASSUME NEW c \in Callers, CountProbe(c)
        PROVE  calls' = calls + 1 /\ \E d \in Entering : Entering' = Entering \ {d}
    BY <1>1 DEF CountProbe, Go, Entering, TypeInv, BreakerTypeOK
  <1>2. ASSUME NEW c \in Callers, AdmitProbe(c)
        PROVE  calls' = calls /\ calls < HalfOpenMax
    BY <1>2 DEF AdmitProbe, ProbesLeft, keys
  <1>3. ASSUME NEW c \in Callers, NEW place,
               place # "incr_calls", at' = [at EXCEPT ![c] = place]
        PROVE  Entering' \subseteq Entering
    BY <1>3 DEF Entering, TypeInv, BreakerTypeOK
  <1>4. ASSUME NEW c \in Callers,
               \/ BeginCall(c) \/ TimeoutPassed(c) \/ StillOpen(c) \/ RefuseProbe(c)
               \/ CallSucceeds(c) \/ CallFails(c) \/ CountSuccess(c)
               \/ CheckThreshold(c) \/ ResetFailures(c) \/ DeleteCalls(c)
               \/ DeleteSuccesses(c) \/ SetState(c) \/ SetLastChange(c)
               \/ BeginReset(c) \/ Cancel(c)
        PROVE  calls' \in {calls, 0} /\ Entering' \subseteq Entering
    <2>1. state \in CircuitStates
      BY DEF TypeInv, BreakerTypeOK
    <2> QED BY <1>3, <1>4, <2>1
        DEF BeginCall, TimeoutPassed, StillOpen, RefuseProbe, CallSucceeds, CallFails,
            CountSuccess, CheckThreshold, ResetFailures, DeleteCalls, DeleteSuccesses,
            SetState, SetLastChange, BeginReset, Cancel, Finish, Go, keys,
            CircuitStates
  <1>5. ASSUME NEW c \in Callers, CountFailure(c)
        PROVE  calls' \in {calls, 0} /\ Entering' \subseteq Entering
    <2>1. goal[c] \in {"none", "open", "open_at_threshold"}
      BY <1>5 DEF CountFailure, TypeInv, Aimed
    <2> QED BY <1>3, <1>5, <2>1 DEF CountFailure, Go
  <1>6. ASSUME UNCHANGED <<calls, at>>
        PROVE  calls' \in {calls, 0} /\ Entering' \subseteq Entering
    BY <1>6 DEF Entering
  <1> QED BY <1>1, <1>2, <1>4, <1>5, <1>6
      DEF BreakerNext, Proceed, TimePasses, SuccessesExpire, breakerVars, keys

(* The probe counter stays below its limit plus the number of callers: the   *)
(* price of reading and incrementing it in two commands is one call each.    *)
THEOREM ProbesBoundedHolds == BreakerSpec => []ProbesBounded
  <1> USE ThresholdsAssumption
  <1>1. BreakerInit => ProbesInv
    <2> SUFFICES ASSUME BreakerInit PROVE ProbesInv
      OBVIOUS
    <2>1. Entering = {} /\ calls = 0
      BY DEF BreakerInit, Entering
    <2> QED BY <2>1, TypeInit, EnteringFinite, FS_EmptySet DEF ProbesInv
  <1>2. ProbesInv /\ [BreakerNext]_breakerVars => ProbesInv'
    <2> SUFFICES ASSUME ProbesInv, [BreakerNext]_breakerVars PROVE ProbesInv'
      OBVIOUS
    <2>1. TypeInv /\ TypeInv' /\ calls \in Nat /\ calls' \in Nat
      BY TypeKept DEF ProbesInv, TypeInv, BreakerTypeOK
    <2>2. IsFiniteSet(Entering) /\ Cardinality(Entering) \in Nat
      BY EnteringFinite
    <2>3. Entering' \in SUBSET Callers
      BY DEF Entering
    <2>4. /\ Cardinality(Entering') \in Nat
          /\ Cardinality(Entering') <= Cardinality(Callers)
          /\ Cardinality(Callers) \in Nat \ {0}
      BY <2>3, CallersAssumption, EnteringFinite, FS_Subset, FS_CardinalityType
    <2>5. CASE calls' \in {calls, 0} /\ Entering' \subseteq Entering
      <3>1. Cardinality(Entering') <= Cardinality(Entering)
        BY <2>2, <2>5, FS_Subset
      <3> QED BY <2>1, <2>2, <2>4, <2>5, <3>1 DEF ProbesInv
    <2>6. CASE calls' = calls /\ calls < HalfOpenMax
      BY <2>1, <2>4, <2>6 DEF ProbesInv
    <2>7. ASSUME calls' = calls + 1,
                 NEW c \in Entering, Entering' = Entering \ {c}
          PROVE  ProbesInv'
      <3>1. Cardinality(Entering') = Cardinality(Entering) - 1
        BY <2>2, <2>7, FS_RemoveElement
      <3> QED BY <2>1, <2>2, <2>4, <2>7, <3>1 DEF ProbesInv
    <2> QED BY <2>1, <2>5, <2>6, <2>7, ProbeStep
  <1>3. ProbesInv => ProbesBounded
    BY EnteringFinite DEF ProbesInv, ProbesBounded, TypeInv, BreakerTypeOK
  <1> QED BY <1>1, <1>2, <1>3, PTL DEF BreakerSpec

-----------------------------------------------------------------------------
(* A HALF_OPEN breaker whose probes are used up, and past whose check no     *)
(* call is, refuses every call until someone resets it.                      *)
THEOREM ShutUntilResetHolds == BreakerSpec => ShutUntilReset
  <1>1. BreakerTypeOK /\ [BreakerNext]_breakerVars => (Shut => Shut' \/ \E c \in Callers : BeginReset(c))
    <2> SUFFICES ASSUME BreakerTypeOK, [BreakerNext]_breakerVars, Shut, \A c \in Callers : ~BeginReset(c)
                 PROVE  Shut'
      OBVIOUS
    <2> USE DEF Shut
    <2>1. ASSUME UNCHANGED <<state, calls>>, NEW c \in Callers,
                 NEW place \in {"idle", "get_calls"}, at' = [at EXCEPT ![c] = place]
          PROVE  Shut'
      BY <2>1 DEF BreakerTypeOK, ProbesLeft
    <2>2. ASSUME NEW c \in Callers, BeginCall(c) \/ RefuseProbe(c) \/ Cancel(c)
          PROVE  Shut'
      BY <2>1, <2>2 DEF BeginCall, RefuseProbe, Cancel, Finish, Go, keys
    <2>3. ASSUME UNCHANGED <<state, calls, at>>
          PROVE  Shut'
      BY <2>3 DEF ProbesLeft
    <2>4. \A c \in Callers : Proceed(c) => RefuseProbe(c)
      BY DEF Proceed, TimeoutPassed, StillOpen, AdmitProbe, CountProbe, CallSucceeds,
          CallFails, CountSuccess, CountFailure, CheckThreshold, ResetFailures,
          DeleteCalls, DeleteSuccesses, SetState, SetLastChange
    <2> QED BY <2>2, <2>3, <2>4 DEF BreakerNext, TimePasses, SuccessesExpire, breakerVars, keys
  <1> QED BY <1>1, TypeCorrect, PTL DEF BreakerSpec, ShutUntilReset
=============================================================================
