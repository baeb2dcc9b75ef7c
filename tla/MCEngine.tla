------------------------------ MODULE MCEngine ------------------------------
(* Two processes with names of their own, here the processes themselves.    *)
EXTENDS Engine, TLC

MCNameOf == [w \in Workers |-> w]
Symmetric ==
    Permutations(Workers) \cup Permutations(Producers) \cup
    Permutations(Coroutines) \cup Permutations(Tasks \ Registered)
=============================================================================
