---------------------------- MODULE TaskHandover ----------------------------
(***************************************************************************)
(* What everybody may rely on who sees a task of the task store through    *)
(* its state, its owner and its epoch, whatever callers do, under whatever *)
(* names: a task waits, is held by one name at a time under a ticket that  *)
(* only grows, and ends in exactly one way.  It may be forgotten at any    *)
(* time and submitted anew, from ticket 0.                                 *)
(*                                                                         *)
(* TaskStore, DurableQueue and Engine each implement this store.           *)
(***************************************************************************)
EXTENDS Naturals, TLAPS

CONSTANTS Tasks, Names, NoName

VARIABLES
    phase,      \* per task: its state
    holder,     \* per task: who holds it, or held it last
    ticket      \* per task: the number of the current hand-over

handoverVars == <<phase, holder, ticket>>

Ended == {"DONE", "FAILED", "CANCELLED"}

HandoverTypeOK ==
    /\ phase \in [Tasks -> {"MISSING", "PENDING", "RUNNING"} \cup Ended]
    /\ holder \in [Tasks -> Names \cup {NoName}]
    /\ ticket \in [Tasks -> Nat]

\* Tasks may have been submitted before.
HandoverInit ==
    /\ phase \in [Tasks -> {"MISSING", "PENDING"}]
    /\ holder = [t \in Tasks |-> NoName]
    /\ ticket = [t \in Tasks |-> 0]

Becomes(t, p, h, n) ==
    /\ phase' = [phase EXCEPT ![t] = p]
    /\ holder' = [holder EXCEPT ![t] = h]
    /\ ticket' = [ticket EXCEPT ![t] = n]

Submit(t) == phase[t] = "MISSING" /\ Becomes(t, "PENDING", NoName, 0)

\* To a task that waits; or, from a holder who is taken for dead, to another.
Grant(t, w) ==
    phase[t] \in {"PENDING", "RUNNING"} /\ Becomes(t, "RUNNING", w, ticket[t] + 1)

Release(t) == phase[t] = "RUNNING" /\ Becomes(t, "PENDING", NoName, ticket[t] + 1)

End(t, p) == phase[t] = "RUNNING" /\ Becomes(t, p, holder[t], ticket[t])

Withdraw(t) ==
    phase[t] \in {"PENDING", "RUNNING"} /\ Becomes(t, "CANCELLED", holder[t], ticket[t])

Vanish(t) == Becomes(t, "MISSING", NoName, 0)

HandoverNext ==
    \E t \in Tasks :
        \/ Submit(t) \/ Release(t) \/ Withdraw(t) \/ Vanish(t)
        \/ \E w \in Names : Grant(t, w)
        \/ \E p \in {"DONE", "FAILED"} : End(t, p)

HandoverSpec == HandoverInit /\ [][HandoverNext]_handoverVars

-----------------------------------------------------------------------------
(* While a task is known its ticket never goes back, and it never gets       *)
(* another holder under the same ticket.                                     *)
Fenced(t) ==
    phase[t] # "MISSING" /\ phase'[t] # "MISSING" =>
        /\ ticket'[t] >= ticket[t]
        /\ holder'[t] # holder[t] => ticket'[t] > ticket[t]

(* A task that has ended stays as it ended, until it is forgotten.           *)
Settled(t) ==
    phase[t] \in Ended =>
        \/ phase'[t] = "MISSING"
        \/ phase'[t] = phase[t] /\ holder'[t] = holder[t] /\ ticket'[t] = ticket[t]

(* A task ends only in the hands of its holder, except that one that waits   *)
(* may be withdrawn.                                                         *)
EndsWhileHeld(t) ==
    phase[t] \notin Ended /\ phase'[t] \in Ended =>
        \/ phase[t] = "RUNNING" /\ holder'[t] = holder[t] /\ ticket'[t] = ticket[t]
        \/ phase[t] = "PENDING" /\ phase'[t] = "CANCELLED"

Promise == \A t \in Tasks : Fenced(t) /\ Settled(t) /\ EndsWhileHeld(t)

(* The step of one task, and with it all others.                             *)
LEMMA HandoverStep ==
    ASSUME HandoverTypeOK, [HandoverNext]_handoverVars
    PROVE  HandoverTypeOK' /\ Promise
  <1> USE DEF HandoverTypeOK, Ended
  <1>1. ASSUME NEW t \in Tasks, NEW p \in {"MISSING", "PENDING", "RUNNING"} \cup Ended,
               NEW h \in Names \cup {NoName}, NEW n \in Nat, Becomes(t, p, h, n)
        PROVE  /\ HandoverTypeOK'
               /\ phase'[t] = p /\ holder'[t] = h /\ ticket'[t] = n
               /\ \A x \in Tasks \ {t} :
                     phase'[x] = phase[x] /\ holder'[x] = holder[x] /\ ticket'[x] = ticket[x]
    BY <1>1 DEF Becomes
  <1>2. ASSUME NEW x \in Tasks,
               phase'[x] = phase[x], holder'[x] = holder[x], ticket'[x] = ticket[x]
        PROVE  Fenced(x) /\ Settled(x) /\ EndsWhileHeld(x)
    BY <1>2 DEF Fenced, Settled, EndsWhileHeld
  <1>3. ASSUME NEW t \in Tasks, HandoverTypeOK',
               Fenced(t) /\ Settled(t) /\ EndsWhileHeld(t),
               \A x \in Tasks \ {t} :
                   phase'[x] = phase[x] /\ holder'[x] = holder[x] /\ ticket'[x] = ticket[x]
        PROVE  HandoverTypeOK' /\ Promise
    BY <1>2, <1>3 DEF Promise
  <1>4. CASE UNCHANGED handoverVars
    BY <1>2, <1>4 DEF handoverVars, Promise
  <1>5. ASSUME NEW t \in Tasks, Submit(t) PROVE HandoverTypeOK' /\ Promise
    <2>1. NoName \in Names \cup {NoName} /\ 0 \in Nat
      OBVIOUS
    <2>2. Becomes(t, "PENDING", NoName, 0) /\ phase[t] = "MISSING"
      BY <1>5 DEF Submit
    <2>3. /\ HandoverTypeOK'
          /\ phase'[t] = "PENDING" /\ holder'[t] = NoName /\ ticket'[t] = 0
          /\ \A x \in Tasks \ {t} :
                phase'[x] = phase[x] /\ holder'[x] = holder[x] /\ ticket'[x] = ticket[x]
      BY <1>1, <2>1, <2>2
    <2>4. Fenced(t) /\ Settled(t) /\ EndsWhileHeld(t)
      BY <2>2, <2>3 DEF Fenced, Settled, EndsWhileHeld
    <2> QED BY <1>3, <2>3, <2>4
  <1>6. ASSUME NEW t \in Tasks, NEW w \in Names, Grant(t, w) PROVE HandoverTypeOK' /\ Promise
    <2>1. w \in Names \cup {NoName} /\ ticket[t] + 1 \in Nat
      OBVIOUS
    <2>2. Becomes(t, "RUNNING", w, ticket[t] + 1) /\ phase[t] \in {"PENDING", "RUNNING"}
      BY <1>6 DEF Grant
    <2>3. /\ HandoverTypeOK'
          /\ phase'[t] = "RUNNING" /\ holder'[t] = w /\ ticket'[t] = ticket[t] + 1
          /\ \A x \in Tasks \ {t} :
                phase'[x] = phase[x] /\ holder'[x] = holder[x] /\ ticket'[x] = ticket[x]
      BY <1>1, <2>1, <2>2
    <2>4. Fenced(t) /\ Settled(t) /\ EndsWhileHeld(t)
      BY <2>2, <2>3 DEF Fenced, Settled, EndsWhileHeld
    <2> QED BY <1>3, <2>3, <2>4
  <1>7. ASSUME NEW t \in Tasks, Release(t) PROVE HandoverTypeOK' /\ Promise
    <2>1. NoName \in Names \cup {NoName} /\ ticket[t] + 1 \in Nat
      OBVIOUS
    <2>2. Becomes(t, "PENDING", NoName, ticket[t] + 1) /\ phase[t] = "RUNNING"
      BY <1>7 DEF Release
    <2>3. /\ HandoverTypeOK'
          /\ phase'[t] = "PENDING" /\ holder'[t] = NoName /\ ticket'[t] = ticket[t] + 1
          /\ \A x \in Tasks \ {t} :
                phase'[x] = phase[x] /\ holder'[x] = holder[x] /\ ticket'[x] = ticket[x]
      BY <1>1, <2>1, <2>2
    <2>4. Fenced(t) /\ Settled(t) /\ EndsWhileHeld(t)
      BY <2>2, <2>3 DEF Fenced, Settled, EndsWhileHeld
    <2> QED BY <1>3, <2>3, <2>4
  <1>8. ASSUME NEW t \in Tasks, Withdraw(t) PROVE HandoverTypeOK' /\ Promise
    <2>1. holder[t] \in Names \cup {NoName} /\ ticket[t] \in Nat
      OBVIOUS
    <2>2. Becomes(t, "CANCELLED", holder[t], ticket[t]) /\ phase[t] \in {"PENDING", "RUNNING"}
      BY <1>8 DEF Withdraw
    <2>3. /\ HandoverTypeOK'
          /\ phase'[t] = "CANCELLED" /\ holder'[t] = holder[t] /\ ticket'[t] = ticket[t]
          /\ \A x \in Tasks \ {t} :
                phase'[x] = phase[x] /\ holder'[x] = holder[x] /\ ticket'[x] = ticket[x]
      BY <1>1, <2>1, <2>2
    <2>4. Fenced(t) /\ Settled(t) /\ EndsWhileHeld(t)
      BY <2>2, <2>3 DEF Fenced, Settled, EndsWhileHeld
    <2> QED BY <1>3, <2>3, <2>4
  <1>9. ASSUME NEW t \in Tasks, Vanish(t) PROVE HandoverTypeOK' /\ Promise
    <2>1. NoName \in Names \cup {NoName} /\ 0 \in Nat
      OBVIOUS
    <2>2. Becomes(t, "MISSING", NoName, 0)
      BY <1>9 DEF Vanish
    <2>3. /\ HandoverTypeOK'
          /\ phase'[t] = "MISSING" /\ holder'[t] = NoName /\ ticket'[t] = 0
          /\ \A x \in Tasks \ {t} :
                phase'[x] = phase[x] /\ holder'[x] = holder[x] /\ ticket'[x] = ticket[x]
      BY <1>1, <2>1, <2>2
    <2>4. Fenced(t) /\ Settled(t) /\ EndsWhileHeld(t)
      BY <2>2, <2>3 DEF Fenced, Settled, EndsWhileHeld
    <2> QED BY <1>3, <2>3, <2>4
  <1>10. ASSUME NEW t \in Tasks, NEW p \in {"DONE", "FAILED"}, End(t, p) PROVE HandoverTypeOK' /\ Promise
    <2>1. holder[t] \in Names \cup {NoName} /\ ticket[t] \in Nat
      OBVIOUS
    <2>2. Becomes(t, p, holder[t], ticket[t]) /\ phase[t] = "RUNNING"
      BY <1>10 DEF End
    <2>3. /\ HandoverTypeOK'
          /\ phase'[t] = p /\ holder'[t] = holder[t] /\ ticket'[t] = ticket[t]
          /\ \A x \in Tasks \ {t} :
                phase'[x] = phase[x] /\ holder'[x] = holder[x] /\ ticket'[x] = ticket[x]
      BY <1>1, <2>1, <2>2
    <2>4. Fenced(t) /\ Settled(t) /\ EndsWhileHeld(t)
      BY <2>2, <2>3 DEF Fenced, Settled, EndsWhileHeld
    <2> QED BY <1>3, <2>3, <2>4
  <1> QED BY <1>4, <1>5, <1>6, <1>7, <1>8, <1>9, <1>10 DEF HandoverNext

(* Whatever implements this store keeps the promise: fencing, settled ends,  *)
(* and ends in the hands of the holder.                                      *)
THEOREM PromiseHolds == HandoverSpec => [][Promise]_handoverVars
  <1>1. HandoverInit => HandoverTypeOK
    BY DEF HandoverInit, HandoverTypeOK
  <1>2. HandoverTypeOK /\ [HandoverNext]_handoverVars => HandoverTypeOK' /\ [Promise]_handoverVars
    BY HandoverStep
  <1> QED BY <1>1, <1>2, PTL DEF HandoverSpec
=============================================================================
