--------------------------- MODULE TaskLifecycle ---------------------------
(***************************************************************************)
(* What the task store promises its users, with no executions, scripts or  *)
(* round trips: tasks are handed over as in TaskHandover, and an answer    *)
(* can be published only by who ended its task with success.               *)
(***************************************************************************)
EXTENDS TaskHandover

CONSTANT Execs

VARIABLES
    owed,       \* answers that were earned and are not yet published
    answer      \* per task: the ticket of the published answer, 0 for none

vars == <<handoverVars, owed, answer>>

Init ==
    /\ HandoverInit
    /\ owed = {}
    /\ answer = [t \in Tasks |-> 0]

\* Submitted, granted, released, given up or withdrawn.
HandOver(t) ==
    /\ \/ Submit(t) \/ Release(t) \/ Withdraw(t) \/ End(t, "FAILED")
       \/ \E w \in Names : Grant(t, w)
    /\ UNCHANGED <<owed, answer>>

\* Success earns the right to publish one answer, under the ticket held.
Finish(t, e) ==
    /\ End(t, "DONE")
    /\ owed' = owed \cup {[by |-> e, task |-> t, ticket |-> ticket[t]]}
    /\ UNCHANGED answer

Publish(o) ==
    /\ owed' = owed \ {o}
    /\ answer' = [answer EXCEPT ![o.task] = o.ticket]
    /\ UNCHANGED handoverVars

\* Whoever owed the answer is gone.
Default(o) ==
    /\ owed' = owed \ {o}
    /\ UNCHANGED <<handoverVars, answer>>

\* The record of the task, its answer, or both are dropped.
Forget(t) ==
    /\ Vanish(t) \/ UNCHANGED handoverVars
    /\ answer' \in {answer, [answer EXCEPT ![t] = 0]}
    /\ UNCHANGED owed

Next ==
    \/ \E t \in Tasks : HandOver(t) \/ Forget(t) \/ \E e \in Execs : Finish(t, e)
    \/ \E o \in owed : Publish(o) \/ Default(o)

Spec == Init /\ [][Next]_vars
=============================================================================
