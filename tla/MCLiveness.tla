----------------------------- MODULE MCLiveness -----------------------------
(* What must eventually happen to the messages of the queue and to an open  *)
(* circuit breaker.  The two share no state, so every behaviour runs one of *)
(* them.                                                                    *)
EXTENDS MCDurableQueue, CircuitBreaker

VARIABLE part

allVars == <<part, vars, breakerVars>>

InitOne ==
    /\ part \in {"queue", "breaker"}
    /\ Init
    /\ BreakerInit

QueueStep(A) == part = "queue" /\ A /\ UNCHANGED <<part, breakerVars>>
BreakerStep(A) == part = "breaker" /\ A /\ UNCHANGED <<part, vars>>

NextOne == QueueStep(Next) \/ BreakerStep(BreakerNext)

(* The fairness of FairSpec and of BreakerFairSpec.                         *)
FairOne ==
    /\ \A p \in Procs :
        /\ WF_allVars(QueueStep(Work(p)))
        /\ WF_allVars(QueueStep(pc[p] = "down" /\ Start(p)))
    /\ WF_allVars(BreakerStep(TimePasses))
    /\ \A c \in Callers : WF_allVars(BreakerStep(Proceed(c)))

LiveSpec == InitOne /\ [][NextOne]_allVars /\ FairOne
=============================================================================
