-------------------------- MODULE ExecutionGateway --------------------------
(***************************************************************************)
(* ExecutionGateway of orchestration/execution_gateway.py, which every     *)
(* mutation has to pass, with EnhancedExecutionContext of                  *)
(* core/runtime/execution_context.py below it.                             *)
(*                                                                         *)
(* Both are singletons: whether mutation is allowed is a pair of flags     *)
(* that every thread of the process shares, and the enhanced context saves *)
(* the earlier permission on one stack for all threads.  Entering and      *)
(* leaving a with-block takes two critical sections each, one of the       *)
(* enhanced context and one of the gateway, and a guarded call reads the   *)
(* flags one after the other before it runs.  Each action is one of these  *)
(* critical sections or reads, by one thread.                              *)
(*                                                                         *)
(* Left out: the audit logs, the mode, which always goes with can_mutate,  *)
(* and the checks of the guard policy, which look at the caller's module   *)
(* and stack frames and can only refuse a call that these flags refuse as  *)
(* well or one of a class that was not registered.                         *)
(***************************************************************************)
EXTENDS Naturals, Sequences, FiniteSets

CONSTANTS
    Threads,    \* threads that use the gateway
    MaxDepth    \* bound: with-blocks a thread may be inside of

ASSUME ThreadsAssumption == IsFiniteSet(Threads)
ASSUME DepthAssumption == MaxDepth \in Nat \ {0}

VARIABLES
    gateway,    \* the gateway's flags: _active_context, _can_mutate
    enhanced,   \* those of the enhanced context, with _prev_can_mutate and _context_depth
    stack,      \* _context_stack, the latest entry first: can_mutate as it was
    inside,     \* the with-blocks of each thread, innermost first: can_mutate as asked for
    pc          \* what each thread is doing

gateVars == <<gateway, enhanced, stack, inside, pc>>

Guarding == {"read_can", "assert_enhanced", "mutating"}
PCs == {"body", "entering", "leaving"} \cup Guarding

GateTypeOK ==
    /\ gateway \in [active : BOOLEAN, can : BOOLEAN]
    /\ enhanced \in [active : BOOLEAN, can : BOOLEAN, prev : BOOLEAN, depth : Nat]
    /\ stack \in Seq(BOOLEAN)
    /\ inside \in [Threads -> Seq(BOOLEAN)]
    /\ pc \in [Threads -> PCs]

GateInit ==
    /\ gateway = [active |-> FALSE, can |-> FALSE]
    /\ enhanced = [active |-> FALSE, can |-> FALSE, prev |-> FALSE, depth |-> 0]
    /\ stack = <<>>
    /\ inside = [t \in Threads |-> <<>>]
    /\ pc = [t \in Threads |-> "body"]

Goto(t, from, to) == pc[t] = from /\ pc' = [pc EXCEPT ![t] = to]

-----------------------------------------------------------------------------
(* with gateway.mutation_context(can): the enhanced context first ...        *)
EnterEnhanced(t, can) ==
    /\ Len(inside[t]) < MaxDepth
    /\ Goto(t, "body", "entering")
    /\ stack' = <<enhanced.can>> \o stack
    /\ enhanced' = [active |-> TRUE, can |-> can, prev |-> enhanced.can,
                    depth |-> enhanced.depth + 1]
    /\ inside' = [inside EXCEPT ![t] = <<can>> \o @]
    /\ UNCHANGED gateway

(* ... then _enter_context.                                                  *)
EnterGateway(t) ==
    /\ Goto(t, "entering", "body")
    /\ gateway' = [active |-> TRUE, can |-> Head(inside[t])]
    /\ UNCHANGED <<enhanced, stack, inside>>

\* Mutant: _can_mutate is not reset.
KeepPermission(t) ==
    /\ inside[t] # <<>>
    /\ Goto(t, "body", "leaving")
    /\ gateway' = [gateway EXCEPT !.active = FALSE]
    /\ UNCHANGED <<enhanced, stack, inside>>

(* The block ends or raises: _exit_context ...                               *)
ExitGateway(t) ==
    /\ inside[t] # <<>>
    /\ Goto(t, "body", "leaving")
    /\ gateway' = [active |-> FALSE, can |-> FALSE]
    /\ UNCHANGED <<enhanced, stack, inside>>

\* Mutant: only the block that brings the depth to 0 pops, and clears, the stack.
PopAtTheEnd(t) ==
    /\ Goto(t, "leaving", "body")
    /\ LET rest == IF enhanced.depth = 1 THEN <<>> ELSE stack
       IN  /\ stack' = rest
           /\ enhanced' = [active |-> rest # <<>>, can |-> Head(stack), prev |-> Head(stack),
                           depth |-> enhanced.depth - 1]
    /\ inside' = [inside EXCEPT ![t] = Tail(@)]
    /\ UNCHANGED gateway

(* ... then the enhanced context restores what is on top of its stack.       *)
ExitEnhanced(t) ==
    /\ Goto(t, "leaving", "body")
    /\ LET saved == IF stack # <<>> THEN Head(stack) ELSE enhanced.prev
           rest == IF stack # <<>> THEN Tail(stack) ELSE stack
       IN  /\ stack' = rest
           /\ enhanced' = [active |-> rest # <<>>, can |-> saved, prev |-> saved,
                           depth |-> IF enhanced.depth > 0 THEN enhanced.depth - 1 ELSE 0]
    /\ inside' = [inside EXCEPT ![t] = Tail(@)]
    /\ UNCHANGED gateway

(* A call of a method under requires_gateway, from inside a block or not: it *)
(* is refused, and the thread goes on where it was, unless the gateway is    *)
(* active, ...                                                               *)
ReadActive(t) ==
    /\ gateway.active
    /\ Goto(t, "body", "read_can")
    /\ UNCHANGED <<gateway, enhanced, stack, inside>>

(* ... may mutate, ...                                                       *)
ReadCan(t) ==
    /\ Goto(t, "read_can", IF gateway.can THEN "assert_enhanced" ELSE "body")
    /\ UNCHANGED <<gateway, enhanced, stack, inside>>

(* ... and the enhanced context is active and may mutate; then it runs.      *)
AssertEnhanced(t) ==
    /\ Goto(t, "assert_enhanced",
            IF enhanced.active /\ enhanced.can THEN "mutating" ELSE "body")
    /\ UNCHANGED <<gateway, enhanced, stack, inside>>

Mutate(t) ==
    /\ Goto(t, "mutating", "body")
    /\ UNCHANGED <<gateway, enhanced, stack, inside>>

GateNext ==
    \E t \in Threads :
        \/ \E can \in BOOLEAN : EnterEnhanced(t, can)
        \/ EnterGateway(t)
        \/ ExitGateway(t)
        \/ ExitEnhanced(t)
        \/ ReadActive(t)
        \/ ReadCan(t)
        \/ AssertEnhanced(t)
        \/ Mutate(t)

GateSpec == GateInit /\ [][GateNext]_gateVars

-----------------------------------------------------------------------------
(* The blocks whose __enter__ has returned and whose __exit__ has not begun. *)
Entered(t) == IF pc[t] \in {"entering", "leaving"} THEN Tail(inside[t]) ELSE inside[t]

(* Some thread is in a block that allows mutation.                           *)
MayMutate == \E t \in Threads : \E k \in 1..Len(Entered(t)) : Entered(t)[k]

(* All the blocks that threads are inside of, as far as the enhanced context *)
(* knows.                                                                    *)
OpenBlocks == {b \in Threads \X (1..MaxDepth) : b[2] <= Len(inside[b[1]])}

(* Whatever threads do to each other's flags, the gateway is open only while *)
(* somebody's block is, and allows mutation only while somebody is in a      *)
(* block that does: _exit_context, which clears flags that another thread    *)
(* set, and _enter_context, which overwrites them, never open a gateway that *)
(* all have left.                                                            *)
OpenForSomebody ==
    /\ gateway.active => \E t \in Threads : Entered(t) # <<>>
    /\ gateway.can => gateway.active /\ MayMutate

(* The shared stack keeps one entry per block anybody is inside of, and the  *)
(* depth counts them, in whatever order threads leave; the oldest entry is   *)
(* the state before all of them.  Hence a process that all threads have left *)
(* is read-only again, though each of them restored what it found on top.    *)
StackCountsBlocks ==
    /\ Len(stack) = Cardinality(OpenBlocks)
    /\ enhanced.depth = Len(stack)
    /\ enhanced.active <=> stack # <<>>
    /\ IF stack = <<>> THEN ~enhanced.can ELSE ~stack[Len(stack)]

(* Used by one thread, the enhanced context allows mutation exactly as the   *)
(* innermost block asked for, after inner blocks have ended as well.  With   *)
(* several threads it does not: each leaves what it found on top.            *)
InnermostDecides ==
    \A t \in Threads : enhanced.can <=> (inside[t] # <<>> /\ Head(inside[t]))
=============================================================================
