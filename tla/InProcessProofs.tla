--------------------------- MODULE InProcessProofs ---------------------------
(***************************************************************************)
(* Theorems about the three components of InProcess: first about           *)
(* ExecutionGateway, for any threads and any nesting; then about           *)
(* BFTConsensus, for any nodes, n >= 3f + 1, at most f of them faulty, any *)
(* strays, requests, views and bounds.                                     *)
(***************************************************************************)
EXTENDS InProcess, PersistenceProofs, FiniteSetTheorems, SequenceTheorems, TLAPS

(***************************************************************************)
(* The execution gateway.                                                  *)
(***************************************************************************)
Between == {"entering", "leaving"}

(* A thread on its way in or out has the block it enters or leaves.          *)
WaysHaveBlocks ==
    \A t \in Threads :
        /\ Len(inside[t]) <= MaxDepth
        /\ pc[t] \in Between => inside[t] # <<>>

GateInv == GateTypeOK /\ WaysHaveBlocks

-----------------------------------------------------------------------------
LEMMA Pushed ==
    ASSUME NEW x \in BOOLEAN, NEW s \in Seq(BOOLEAN)
    PROVE  /\ <<x>> \o s \in Seq(BOOLEAN) /\ <<x>> \o s # <<>>
           /\ Len(<<x>> \o s) = Len(s) + 1
           /\ Head(<<x>> \o s) = x /\ Tail(<<x>> \o s) = s
           /\ (<<x>> \o s)[1] = x
           /\ \A k \in 1 .. Len(s) : (<<x>> \o s)[k + 1] = s[k]
  <1> DEFINE r == <<x>> \o s
  <1>1. r \in Seq(BOOLEAN) /\ Len(r) = Len(s) + 1 /\ r[1] = x
    OBVIOUS
  <1>2. \A k \in 1 .. Len(s) : r[k + 1] = s[k]
    OBVIOUS
  <1>3. r # <<>> /\ Head(r) = x
    BY <1>1
  <1>4. Tail(r) = s
    <2>1. Tail(r) \in Seq(BOOLEAN) /\ Len(Tail(r)) = Len(s)
      BY <1>1, <1>3
    <2>2. \A k \in 1 .. Len(s) : Tail(r)[k] = s[k]
      BY <1>1, <1>2, <1>3
    <2> HIDE DEF r
    <2> QED BY <2>1, <2>2
  <1> QED BY <1>1, <1>2, <1>3, <1>4

LEMMA Popped ==
    ASSUME NEW s \in Seq(BOOLEAN), s # <<>>
    PROVE  /\ Tail(s) \in Seq(BOOLEAN) /\ Len(Tail(s)) = Len(s) - 1 /\ Len(s) > 0
           /\ Head(s) = s[1] /\ Head(s) \in BOOLEAN
           /\ \A k \in 1 .. Len(Tail(s)) : Tail(s)[k] = s[k + 1]
  OBVIOUS

-----------------------------------------------------------------------------
(* Types.                                                                    *)
LEMMA GateInitInv == GateInit => GateInv
  BY DepthAssumption DEF GateInit, GateInv, GateTypeOK, PCs, WaysHaveBlocks, Between

LEMMA GateNextInv == GateInv /\ [GateNext]_gateVars => GateInv'
  <1> SUFFICES ASSUME GateInv, [GateNext]_gateVars PROVE GateInv'
    OBVIOUS
  <1> USE DEF GateInv, GateTypeOK, WaysHaveBlocks, Between, PCs, Guarding, Goto
  <1>1. ASSUME NEW t \in Threads, NEW can \in BOOLEAN, EnterEnhanced(t, can)
        PROVE  GateInv'
    <2>1. /\ stack' \in Seq(BOOLEAN)
          /\ inside'[t] \in Seq(BOOLEAN) /\ inside'[t] # <<>>
          /\ Len(inside'[t]) = Len(inside[t]) + 1
      BY <1>1, Pushed DEF EnterEnhanced
    <2>2. Len(inside'[t]) <= MaxDepth
      BY <1>1, <2>1, DepthAssumption DEF EnterEnhanced
    <2> QED BY <1>1, <2>1, <2>2 DEF EnterEnhanced
  <1>2. ASSUME NEW t \in Threads, EnterGateway(t)
        PROVE  GateInv'
    <2>1. Head(inside[t]) \in BOOLEAN
      BY <1>2, Popped DEF EnterGateway
    <2> QED BY <1>2, <2>1 DEF EnterGateway
  <1>3. ASSUME NEW t \in Threads, ExitGateway(t)
        PROVE  GateInv'
    BY <1>3 DEF ExitGateway
  <1>4. ASSUME NEW t \in Threads, ExitEnhanced(t)
        PROVE  GateInv'
    <2>1. /\ Tail(inside[t]) \in Seq(BOOLEAN)
          /\ Len(Tail(inside[t])) = Len(inside[t]) - 1
      BY <1>4, Popped DEF ExitEnhanced
    <2>2. stack' \in Seq(BOOLEAN)
      BY <1>4, Popped DEF ExitEnhanced
    <2>3. enhanced' \in [active : BOOLEAN, can : BOOLEAN, prev : BOOLEAN, depth : Nat]
      BY <1>4, Popped DEF ExitEnhanced
    <2>4. WaysHaveBlocks'
      BY <1>4, <2>1, DepthAssumption DEF ExitEnhanced
    <2> HIDE DEF WaysHaveBlocks
    <2> QED BY <1>4, <2>1, <2>2, <2>3, <2>4 DEF ExitEnhanced
  <1>5. ASSUME NEW t \in Threads, ReadActive(t) \/ ReadCan(t)
        PROVE  GateInv'
    BY <1>5 DEF ReadActive, ReadCan
  <1>6. ASSUME NEW t \in Threads, AssertEnhanced(t) \/ Mutate(t)
        PROVE  GateInv'
    BY <1>6 DEF AssertEnhanced, Mutate
  <1>7. CASE UNCHANGED gateVars
    BY <1>7 DEF gateVars
  <1> QED BY <1>1, <1>2, <1>3, <1>4, <1>5, <1>6, <1>7 DEF GateNext

LEMMA GateInvHolds == GateSpec => []GateInv
  BY GateInitInv, GateNextInv, PTL DEF GateSpec

(* The flags, the stack and every thread's blocks stay well formed.          *)
THEOREM GateTypeCorrect == GateSpec => []GateTypeOK
  <1>1. GateInv => GateTypeOK
    BY DEF GateInv
  <1> QED BY <1>1, GateInvHolds, PTL

-----------------------------------------------------------------------------
(* OpenForSomebody.  Only the two steps of the gateway itself change the     *)
(* blocks a thread is entered in; the others change what is on the way.      *)
Still(t) == Entered(t)' = Entered(t)

LEMMA OthersStayEntered ==
    ASSUME NEW t \in Threads, NEW u \in Threads, u # t, GateTypeOK,
           \E x : pc' = [pc EXCEPT ![t] = x],
           \/ UNCHANGED inside
           \/ \E x : inside' = [inside EXCEPT ![t] = x]
    PROVE  Still(u)
  BY DEF Still, Entered, GateTypeOK

LEMMA OutsideGatewayStays ==
    ASSUME GateInv, NEW t \in Threads,
           \/ \E can \in BOOLEAN : EnterEnhanced(t, can)
           \/ ExitEnhanced(t)
           \/ ReadActive(t) \/ ReadCan(t) \/ AssertEnhanced(t) \/ Mutate(t)
    PROVE  gateway' = gateway /\ \A u \in Threads : Still(u)
  <1> USE DEF GateInv, Goto
  <1>1. gateway' = gateway /\ \E x : pc' = [pc EXCEPT ![t] = x]
    BY DEF EnterEnhanced, ExitEnhanced, ReadActive, ReadCan, AssertEnhanced, Mutate
  <1>2. \/ UNCHANGED inside
        \/ \E x : inside' = [inside EXCEPT ![t] = x]
    BY DEF EnterEnhanced, ExitEnhanced, ReadActive, ReadCan, AssertEnhanced, Mutate
  <1>3. \A u \in Threads \ {t} : Still(u)
    BY <1>1, <1>2, OthersStayEntered
  <1>4. Still(t)
    <2>1. ASSUME NEW can \in BOOLEAN, EnterEnhanced(t, can)
          PROVE  Still(t)
      <3>1. pc'[t] = "entering" /\ Tail(inside'[t]) = inside[t]
        BY <2>1, Pushed DEF EnterEnhanced, GateTypeOK
      <3> QED BY <2>1, <3>1 DEF EnterEnhanced, Still, Entered
    <2>2. CASE ExitEnhanced(t)
      BY <2>2 DEF ExitEnhanced, Still, Entered, GateTypeOK
    <2>3. CASE ReadActive(t) \/ ReadCan(t) \/ AssertEnhanced(t) \/ Mutate(t)
      BY <2>3 DEF ReadActive, ReadCan, AssertEnhanced, Mutate, Still, Entered, GateTypeOK
    <2> QED BY <2>1, <2>2, <2>3
  <1> QED BY <1>1, <1>3, <1>4

LEMMA OpenKept ==
    ASSUME GateInv, OpenForSomebody, [GateNext]_gateVars
    PROVE  OpenForSomebody'
  <1> USE DEF GateInv, OpenForSomebody, MayMutate
  <1>1. ASSUME NEW t \in Threads, EnterGateway(t)
        PROVE  OpenForSomebody'
    <2>1. Entered(t)' = inside[t] /\ inside[t] # <<>>
      BY <1>1 DEF EnterGateway, Goto, Entered, GateTypeOK, WaysHaveBlocks, Between
    <2>2. 1 \in 1 .. Len(Entered(t)') /\ Head(inside[t]) = Entered(t)'[1]
      BY <2>1, Popped DEF GateTypeOK
    <2> QED BY <1>1, <2>1, <2>2 DEF EnterGateway
  <1>2. ASSUME NEW t \in Threads, ExitGateway(t)
        PROVE  OpenForSomebody'
    BY <1>2 DEF ExitGateway
  <1>3. CASE gateway' = gateway /\ \A u \in Threads : Still(u)
    BY <1>3 DEF Still
  <1>4. CASE UNCHANGED gateVars
    BY <1>4 DEF gateVars, Entered
  <1> QED BY <1>1, <1>2, <1>3, <1>4, OutsideGatewayStays DEF GateNext

(* The gateway is open only while somebody is in a block, and allows         *)
(* mutation only while somebody is in one that does.                         *)
THEOREM OpenForSomebodyHolds == GateSpec => []OpenForSomebody
  <1>1. GateInit => OpenForSomebody
    BY DEF GateInit, OpenForSomebody
  <1> QED BY <1>1, OpenKept, GateInvHolds, PTL DEF GateSpec

-----------------------------------------------------------------------------
(* StackCountsBlocks.                                                        *)
LEMMA BlocksFinite == IsFiniteSet(OpenBlocks)
  <1>1. IsFiniteSet(1 .. MaxDepth)
    BY FS_Interval, DepthAssumption
  <1>2. IsFiniteSet(Threads \X (1 .. MaxDepth))
    BY <1>1, FS_Product, ThreadsAssumption
  <1> QED BY <1>2, FS_Subset DEF OpenBlocks

LEMMA BlockOpened ==
    ASSUME GateInv, GateInv', NEW t \in Threads,
           NEW x, inside' = [inside EXCEPT ![t] = x], Len(x) = Len(inside[t]) + 1
    PROVE  Cardinality(OpenBlocks') = Cardinality(OpenBlocks) + 1
  <1> DEFINE new == <<t, Len(inside[t]) + 1>>
  <1> USE DEF GateInv, GateTypeOK, WaysHaveBlocks, OpenBlocks
  <1>1. inside'[t] = x /\ Len(x) <= MaxDepth /\ Len(inside[t]) \in Nat
    OBVIOUS
  <1>2. new \in OpenBlocks' /\ new \notin OpenBlocks
    BY <1>1, DepthAssumption
  <1>3. \A b \in Threads \X (1 .. MaxDepth) : b # new =>
            (b[2] <= Len(inside'[b[1]]) <=> b[2] <= Len(inside[b[1]]))
    <2> SUFFICES ASSUME NEW u \in Threads, NEW k \in 1 .. MaxDepth, <<u, k>> # new
                 PROVE  k <= Len(inside'[u]) <=> k <= Len(inside[u])
      OBVIOUS
    <2>1. CASE u = t
      BY <1>1, <2>1, DepthAssumption
    <2>2. CASE u # t
      BY <2>2
    <2> QED BY <2>1, <2>2
  <1>4. OpenBlocks' = OpenBlocks \cup {new}
    BY <1>2, <1>3
  <1> HIDE DEF OpenBlocks, GateInv, new
  <1> QED BY <1>2, <1>4, BlocksFinite, FS_AddElement

LEMMA BlockClosed ==
    ASSUME GateInv, GateInv', NEW t \in Threads, inside[t] # <<>>,
           inside' = [inside EXCEPT ![t] = Tail(@)]
    PROVE  /\ OpenBlocks # {}
           /\ Cardinality(OpenBlocks') = Cardinality(OpenBlocks) - 1
  <1> DEFINE old == <<t, Len(inside[t])>>
  <1> USE DEF GateInv, GateTypeOK, WaysHaveBlocks, OpenBlocks
  <1>1. /\ inside'[t] = Tail(inside[t]) /\ Len(inside[t]) \in Nat \ {0}
        /\ Len(inside'[t]) = Len(inside[t]) - 1 /\ Len(inside[t]) <= MaxDepth
    BY Popped
  <1>2. old \in OpenBlocks /\ old \notin OpenBlocks'
    BY <1>1, DepthAssumption
  <1>3. \A b \in Threads \X (1 .. MaxDepth) : b # old =>
            (b[2] <= Len(inside'[b[1]]) <=> b[2] <= Len(inside[b[1]]))
    <2> SUFFICES ASSUME NEW u \in Threads, NEW k \in 1 .. MaxDepth, <<u, k>> # old
                 PROVE  k <= Len(inside'[u]) <=> k <= Len(inside[u])
      OBVIOUS
    <2>1. CASE u = t
      <3>1. k # Len(inside[t]) /\ k \in Nat
        BY <2>1, DepthAssumption
      <3> HIDE DEF GateInv, GateTypeOK, old
      <3> QED BY <1>1, <2>1, <3>1
    <2>2. CASE u # t
      BY <2>2
    <2> QED BY <2>1, <2>2
  <1>4. OpenBlocks' = OpenBlocks \ {old}
    BY <1>2, <1>3
  <1> HIDE DEF OpenBlocks, GateInv, old
  <1> QED BY <1>2, <1>4, BlocksFinite, FS_RemoveElement

LEMMA StackKept ==
    ASSUME GateInv, GateInv', StackCountsBlocks, [GateNext]_gateVars
    PROVE  StackCountsBlocks'
  <1> USE DEF GateInv, StackCountsBlocks, GateTypeOK
  <1>1. ASSUME NEW t \in Threads, NEW can \in BOOLEAN, EnterEnhanced(t, can)
        PROVE  StackCountsBlocks'
    <2>1. /\ Len(stack') = Len(stack) + 1 /\ stack' # <<>> /\ stack'[1] = enhanced.can
          /\ \A k \in 1 .. Len(stack) : stack'[k + 1] = stack[k]
      BY <1>1, Pushed DEF EnterEnhanced
    <2>2. Cardinality(OpenBlocks') = Cardinality(OpenBlocks) + 1
      BY <1>1, BlockOpened, Pushed DEF EnterEnhanced
    <2>3. ~stack'[Len(stack')]
      BY <2>1
    <2> QED BY <1>1, <2>1, <2>2, <2>3 DEF EnterEnhanced
  <1>2. ASSUME NEW t \in Threads, ExitEnhanced(t)
        PROVE  StackCountsBlocks'
    <2>1. inside[t] # <<>>
      BY <1>2 DEF ExitEnhanced, Goto, WaysHaveBlocks, Between
    <2>2. OpenBlocks # {} /\ Cardinality(OpenBlocks') = Cardinality(OpenBlocks) - 1
      BY <1>2, <2>1, BlockClosed DEF ExitEnhanced
    <2>3. stack # <<>>
      BY <2>2, BlocksFinite, FS_EmptySet
    <2>4. /\ stack' = Tail(stack) /\ Len(stack') = Len(stack) - 1 /\ Len(stack) > 0
          /\ Head(stack) = stack[1]
          /\ \A k \in 1 .. Len(stack') : stack'[k] = stack[k + 1]
      BY <1>2, <2>3, Popped DEF ExitEnhanced
    <2>5. /\ enhanced'.depth = Len(stack') /\ enhanced'.can = stack[1]
          /\ enhanced'.active <=> stack' # <<>>
      BY <1>2, <2>3, <2>4 DEF ExitEnhanced
    <2>6. IF stack' = <<>> THEN ~stack[1] ELSE ~stack'[Len(stack')]
      <3>1. ~stack[Len(stack)] /\ Len(stack) \in Nat /\ stack' \in Seq(BOOLEAN)
        BY <2>3
      <3>2. CASE stack' = <<>>
        <4>0. Len(stack') = 0
          BY <3>2
        <4> HIDE DEF GateInv, GateTypeOK, StackCountsBlocks
        <4>1. Len(stack) = 1
          BY <2>4, <3>1, <4>0
        <4>2. ~stack[1]
          BY <3>1, <4>1
        <4> QED BY <3>2, <4>2
      <3>3. CASE stack' # <<>>
        <4>1. Len(stack') \in 1 .. Len(stack') /\ Len(stack') + 1 = Len(stack)
          BY <2>4, <3>1, <3>3
        <4>2. stack'[Len(stack')] = stack[Len(stack)]
          BY <2>4, <4>1
        <4> QED BY <3>1, <3>3, <4>2, Zenon
      <3> QED BY <3>2, <3>3
    <2>7. Len(stack') = Cardinality(OpenBlocks')
      BY <2>2, <2>4
    <2>8. IF stack' = <<>> THEN ~enhanced'.can ELSE ~stack'[Len(stack')]
      BY <2>5, <2>6
    <2> HIDE DEF GateInv, GateTypeOK, StackCountsBlocks
    <2> QED BY <2>5, <2>7, <2>8, Zenon DEF StackCountsBlocks
  <1>3. CASE UNCHANGED <<enhanced, stack, inside>>
    BY <1>3 DEF OpenBlocks
  <1>4. ASSUME NEW t \in Threads,
               \/ EnterGateway(t) \/ ExitGateway(t)
               \/ ReadActive(t) \/ ReadCan(t) \/ AssertEnhanced(t) \/ Mutate(t)
        PROVE  UNCHANGED <<enhanced, stack, inside>>
    BY <1>4 DEF EnterGateway, ExitGateway, ReadActive, ReadCan, AssertEnhanced, Mutate
  <1> QED BY <1>1, <1>2, <1>3, <1>4 DEF GateNext, gateVars

(* The shared stack has one entry per open block and the depth counts them,  *)
(* in whatever order threads leave; so nothing stays open behind the last.   *)
THEOREM StackCountsBlocksHolds == GateSpec => []StackCountsBlocks
  <1>1. GateInit => StackCountsBlocks
    <2> SUFFICES ASSUME GateInit PROVE StackCountsBlocks
      OBVIOUS
    <2>1. OpenBlocks = {}
      BY DEF GateInit, OpenBlocks
    <2> QED BY <2>1, FS_EmptySet DEF GateInit, StackCountsBlocks
  <1>2. GateInv /\ GateInv' /\ StackCountsBlocks /\ [GateNext]_gateVars => StackCountsBlocks'
    BY StackKept
  <1> QED BY <1>1, <1>2, GateInvHolds, PTL DEF GateSpec

-----------------------------------------------------------------------------
(* InnermostDecides, for one thread.  The stack holds the thread's blocks    *)
(* but the innermost, which the flag itself stands for, and below them the   *)
(* state before any block.                                                   *)
StackIsBlocks(t) ==
    /\ Len(stack) = Len(inside[t])
    /\ enhanced.can <=> (inside[t] # <<>> /\ inside[t][1])
    /\ \A k \in 1 .. Len(stack) : stack[k] <=> (k < Len(stack) /\ inside[t][k + 1])

LEMMA StackIsBlocksKept ==
    ASSUME NEW t, Threads = {t}, GateInv, StackIsBlocks(t), [GateNext]_gateVars
    PROVE  StackIsBlocks(t)'
  <1> USE DEF GateInv, GateTypeOK, StackIsBlocks
  <1>1. ASSUME NEW can \in BOOLEAN, EnterEnhanced(t, can)
        PROVE  StackIsBlocks(t)'
    <2> DEFINE s == stack'
               b == inside'[t]
    <2>1. b = <<can>> \o inside[t] /\ s = <<enhanced.can>> \o stack
      BY <1>1 DEF EnterEnhanced
    <2>2. /\ Len(s) = Len(stack) + 1 /\ s[1] = enhanced.can
          /\ \A k \in 1 .. Len(stack) : s[k + 1] = stack[k]
      BY <2>1, Pushed
    <2>3. /\ Len(b) = Len(inside[t]) + 1 /\ b # <<>> /\ b[1] = can
          /\ \A k \in 1 .. Len(inside[t]) : b[k + 1] = inside[t][k]
      BY <2>1, Pushed
    <2>4. enhanced'.can = can
      BY <1>1 DEF EnterEnhanced
    <2>5. ASSUME NEW k \in 1 .. Len(s)
          PROVE  s[k] <=> (k < Len(s) /\ b[k + 1])
      <3>1. CASE k = 1
        <4>1. CASE inside[t] = <<>>
          BY <2>2, <3>1, <4>1
        <4>2. CASE inside[t] # <<>>
          BY <2>2, <2>3, <3>1, <4>2
        <4> QED BY <4>1, <4>2
      <3>2. CASE k # 1
        <4>1. k - 1 \in 1 .. Len(stack) /\ (k - 1) + 1 = k
          BY <2>2, <3>2
        <4>2. s[k] = stack[k - 1]
          BY <2>2, <4>1
        <4>3. k < Len(s) => b[k + 1] = inside[t][k]
          BY <2>2, <2>3
        <4> QED BY <2>2, <4>1, <4>2, <4>3
      <3> QED BY <3>1, <3>2
    <2> QED BY <2>2, <2>3, <2>4, <2>5
  <1>2. ASSUME ExitEnhanced(t)
        PROVE  StackIsBlocks(t)'
    <2> DEFINE s == stack'
               b == inside'[t]
    <2>1. inside[t] # <<>> /\ stack # <<>>
      BY <1>2 DEF ExitEnhanced, Goto, WaysHaveBlocks, Between
    <2>2. b = Tail(inside[t]) /\ s = Tail(stack) /\ enhanced'.can = stack[1]
      BY <1>2, <2>1, Popped DEF ExitEnhanced
    <2>3. Len(s) = Len(stack) - 1 /\ \A k \in 1 .. Len(s) : s[k] = stack[k + 1]
      BY <2>1, <2>2, Popped
    <2>4. Len(b) = Len(inside[t]) - 1 /\ \A k \in 1 .. Len(b) : b[k] = inside[t][k + 1]
      BY <2>1, <2>2, Popped
    <2>5. enhanced'.can <=> (b # <<>> /\ b[1])
      <3>1. stack[1] <=> (1 < Len(stack) /\ inside[t][2])
        BY <2>1
      <3>2. b # <<>> <=> 1 < Len(stack)
        BY <2>1, <2>4
      <3>3. b # <<>> => b[1] = inside[t][2]
        BY <2>1, <2>4
      <3> QED BY <2>2, <3>1, <3>2, <3>3
    <2>6. ASSUME NEW k \in 1 .. Len(s)
          PROVE  s[k] <=> (k < Len(s) /\ b[k + 1])
      BY <2>1, <2>3, <2>4
    <2> QED BY <2>3, <2>4, <2>5, <2>6
  <1>3. CASE UNCHANGED <<enhanced, stack, inside>>
    BY <1>3
  <1>4. ASSUME \/ EnterGateway(t) \/ ExitGateway(t)
               \/ ReadActive(t) \/ ReadCan(t) \/ AssertEnhanced(t) \/ Mutate(t)
        PROVE  UNCHANGED <<enhanced, stack, inside>>
    BY <1>4 DEF EnterGateway, ExitGateway, ReadActive, ReadCan, AssertEnhanced, Mutate
  <1> QED BY <1>1, <1>2, <1>3, <1>4 DEF GateNext, gateVars

(* A single thread finds the enhanced context as its innermost block asked   *)
(* for, however deeply blocks are nested.                                    *)
THEOREM InnermostDecidesHolds ==
    ASSUME NEW t, Threads = {t}
    PROVE  GateSpec => []InnermostDecides
  <1>1. GateInit => StackIsBlocks(t)
    BY DEF GateInit, StackIsBlocks
  <1>2. GateInv /\ StackIsBlocks(t) /\ [GateNext]_gateVars => StackIsBlocks(t)'
    BY StackIsBlocksKept
  <1>3. GateInv /\ StackIsBlocks(t) => InnermostDecides
    BY Popped DEF GateInv, GateTypeOK, StackIsBlocks, InnermostDecides
  <1> QED BY <1>1, <1>2, <1>3, GateInvHolds, PTL DEF GateSpec

(***************************************************************************)
(* The certificates of the BFT engine.                                     *)
(***************************************************************************)
Big(S) == Cardinality(S) >= Quorum

(* The engine has voted only for what it has prepared, and since then its    *)
(* phase is no earlier.                                                      *)
OwnVote(r) ==
    /\ phase[r] = "PREPARED" => Self \in commits[r]
    /\ Self \in commits[r] => phase[r] \in {"PREPARED", "COMMITTED", "DECIDED"}
                              /\ Big(prepares[r])

(* The quorum of a committed request is one of distinct votes: by the time   *)
(* that the engine's vote is appended again, there is a quorum without that. *)
CommitVotes(r) ==
    phase[r] \in {"COMMITTED", "DECIDED"} \/ repeats[r] > 0 => Big(commits[r])

Certificates(r) ==
    /\ pcert[r] # {} => Big(pcert[r])
    /\ ccert[r] # {} => Big(ccert[r])
    /\ ccert[r] \subseteq commits[r]
    /\ returned[r] \subseteq {ccert[r]} /\ {} \notin returned[r]

ReqInv(r) == OwnVote(r) /\ CommitVotes(r) /\ Certificates(r)

IInv == BFTTypeOK /\ \A r \in Requests : ReqInv(r)

-----------------------------------------------------------------------------
LEMMA QuorumIsNat == F \in Nat /\ Quorum \in Nat /\ Quorum > 0 /\ IsFiniteSet(Votes)
  <1>1. IsFiniteSet(Nodes \cup Strays)
    BY NodesAssumption, StraysAssumption, FS_Union
  <1> QED BY <1>1, NodesAssumption DEF Quorum, Votes

LEMMA BigGrows ==
    ASSUME NEW T \in SUBSET Votes, NEW S \in SUBSET T
    PROVE  /\ Cardinality(S) \in Nat /\ Cardinality(T) \in Nat
           /\ Cardinality(S) <= Cardinality(T)
           /\ Big(S) => Big(T)
  <1>1. IsFiniteSet(T) /\ IsFiniteSet(S)
    BY FS_Subset, QuorumIsNat
  <1>2. Cardinality(S) <= Cardinality(T)
    BY <1>1, FS_Subset
  <1>3. Cardinality(S) \in Nat /\ Cardinality(T) \in Nat
    BY <1>1, FS_CardinalityType
  <1> QED BY <1>2, <1>3, QuorumIsNat DEF Big

LEMMA BigIsNotEmpty == ASSUME NEW S, Big(S) PROVE S # {}
  BY QuorumIsNat, FS_EmptySet DEF Big

\* Of a quorum f + 1 are votes of correct nodes or strays.
LEMMA HonestInQuorum ==
    ASSUME NEW S \in SUBSET Votes, Big(S)
    PROVE  Cardinality(S \cap Correct) + Cardinality(S \cap Strays) >= F + 1
  <1> DEFINE A == S \cap Correct
             B == S \cap Strays
             C == S \cap Faulty
  <1>1. IsFiniteSet(S) /\ IsFiniteSet(Faulty) /\ Cardinality(Faulty) \in Nat
    BY QuorumIsNat, FS_Subset, NodesAssumption, FS_CardinalityType
  <1>2. /\ IsFiniteSet(A) /\ IsFiniteSet(B) /\ IsFiniteSet(C)
        /\ Cardinality(C) <= Cardinality(Faulty)
    BY <1>1, FS_Subset
  <1>3. /\ Cardinality(A) \in Nat /\ Cardinality(B) \in Nat /\ Cardinality(C) \in Nat
        /\ Cardinality(S) \in Nat /\ Cardinality(C) <= F
    BY <1>1, <1>2, FS_CardinalityType, NodesAssumption
  <1>4. S = (A \cup B) \cup C /\ A \cap B = {} /\ (A \cup B) \cap C = {}
    BY NodesAssumption, StraysAssumption DEF Votes, Correct
  <1> HIDE DEF A, B, C
  <1>5. Cardinality(A \cup B) = Cardinality(A) + Cardinality(B) /\ IsFiniteSet(A \cup B)
    BY <1>2, <1>3, <1>4, FS_Union, FS_EmptySet
  <1>6. Cardinality(S) = Cardinality(A) + Cardinality(B) + Cardinality(C)
    BY <1>2, <1>3, <1>4, <1>5, FS_Union, FS_EmptySet
  <1>7. Cardinality(A) + Cardinality(B) >= F + 1
    BY <1>3, <1>6, QuorumIsNat DEF Big, Quorum
  <1> QED BY <1>7 DEF A, B

(* A vote is appended or not, and nothing else.                              *)
LEMMA ListGrows ==
    ASSUME NEW list \in SUBSET Votes, NEW x \in Votes
    PROVE  /\ WithVote(list, x) \in SUBSET Votes
           /\ list \subseteq WithVote(list, x)
           /\ WithVote(list, x) \subseteq list \cup {x}
  BY DEF WithVote

-----------------------------------------------------------------------------
(* Types.                                                                    *)
LEMMA ReportTypes ==
    ASSUME SlashTypeOK, NEW n \in Nodes, Report(n)
    PROVE  SlashTypeOK'
  BY DEF SlashTypeOK, Report, Appeals

LEMMA AppealTypes ==
    ASSUME SlashTypeOK, NEW i \in 1 .. Len(records),
           Appeal(i) \/ \E upheld \in BOOLEAN : ResolveAppeal(i, upheld)
    PROVE  SlashTypeOK'
  <1> DEFINE Entries == [node : Nodes, appeal : Appeals]
  <1>1. records \in Seq(Entries) /\ records[i] \in Entries
    <2>1. records \in Seq(Entries)
      BY DEF SlashTypeOK
    <2> HIDE DEF Entries
    <2> QED BY <2>1, ElementOfSeq
  <1>2. PICK x \in Appeals : records' = [records EXCEPT ![i].appeal = x]
    <2>1. CASE Appeal(i)
      BY <2>1 DEF Appeal, Appeals
    <2>2. ASSUME NEW upheld \in BOOLEAN, ResolveAppeal(i, upheld)
          PROVE  \E x \in Appeals : records' = [records EXCEPT ![i].appeal = x]
      <3>1. CASE upheld
        BY <2>2, <3>1 DEF ResolveAppeal, Appeals
      <3>2. CASE ~upheld
        BY <2>2, <3>2 DEF ResolveAppeal, Appeals
      <3> QED BY <3>1, <3>2
    <2> QED BY <2>1, <2>2
  <1>3. records' = [records EXCEPT ![i] = [records[i] EXCEPT !.appeal = x]]
    BY <1>2
  <1>4. [records[i] EXCEPT !.appeal = x] \in Entries
    BY <1>1
  <1>5. records' \in Seq(Entries)
    BY <1>1, <1>3, <1>4, ExceptSeq
  <1>6. banned' \subseteq Nodes
    BY DEF SlashTypeOK, Appeal, ResolveAppeal
  <1> QED BY <1>5, <1>6 DEF SlashTypeOK

LEMMA TypesKept == ASSUME BFTTypeOK, [BFTNext]_bftVars PROVE BFTTypeOK'
  <1> USE DEF BFTTypeOK, Phases
  <1>0. Self \in Votes
    BY NodesAssumption DEF Votes
  <1>s. UNCHANGED slashVars => SlashTypeOK'
    BY DEF slashVars, SlashTypeOK
  <1>1. ASSUME NEW v \in Views, NEW l \in BOOLEAN, InitView(v, l)
        PROVE  BFTTypeOK'
    BY <1>1, <1>s DEF InitView
  <1>2. ASSUME NEW r \in Requests, ReceiveRequest(r)
        PROVE  BFTTypeOK'
    BY <1>2, <1>s DEF ReceiveRequest
  <1>3. ASSUME NEW r \in Requests, NEW x \in Votes, NEW s \in Sequences,
               ReceivePrepare(x, r, s)
        PROVE  BFTTypeOK'
    <2>1. signed' \in [Names \X Sequences -> SUBSET Requests]
      BY <1>3 DEF ReceivePrepare, Signs
    <2>2. prepares' \in [Requests -> SUBSET Votes]
      BY <1>3, ListGrows DEF ReceivePrepare
    <2>3. /\ commits' \in [Requests -> SUBSET Votes]
          /\ repeats' \in [Requests -> Nat] /\ phase' \in [Requests -> Phases]
      BY <1>0, <1>3 DEF ReceivePrepare, CommitIntent
    <2> QED BY <1>3, <1>s, <2>1, <2>2, <2>3 DEF ReceivePrepare
  <1>4. ASSUME NEW r \in Requests, NEW x \in Votes, NEW s \in Sequences, ReceiveCommit(x, r, s)
        PROVE  BFTTypeOK'
    <2>1. signed' \in [Names \X Sequences -> SUBSET Requests]
      BY <1>4 DEF ReceiveCommit, Signs
    <2>2. commits' \in [Requests -> SUBSET Votes] /\ phase' \in [Requests -> Phases]
      BY <1>4, ListGrows DEF ReceiveCommit
    <2> QED BY <1>4, <1>s, <2>1, <2>2 DEF ReceiveCommit
  <1>5. ASSUME NEW r \in Requests, CheckPrepared(r)
        PROVE  BFTTypeOK'
    BY <1>5, <1>s DEF CheckPrepared
  <1>6. ASSUME NEW r \in Requests, FinalizeCommit(r)
        PROVE  BFTTypeOK'
    <2>1. ccert' \in [Requests -> SUBSET Votes] /\ phase' \in [Requests -> Phases]
      BY <1>6 DEF FinalizeCommit
    <2>2. returned' \in [Requests -> SUBSET SUBSET Votes]
      BY <1>6, <2>1 DEF FinalizeCommit
    <2> QED BY <1>6, <1>s, <2>1, <2>2 DEF FinalizeCommit
  <1>7. ASSUME NEW n \in Nodes, Slash(n)
        PROVE  BFTTypeOK'
    BY <1>7, <1>s DEF Slash
  <1>8. ASSUME NEW n \in Nodes, ReportNode(n)
        PROVE  BFTTypeOK'
    BY <1>8, ReportTypes DEF ReportNode
  <1>9. CASE AppealStep
    BY <1>9, AppealTypes DEF AppealStep
  <1>10. CASE UNCHANGED bftVars
    BY <1>10, <1>s DEF bftVars, slashVars
  <1> QED BY <1>1, <1>2, <1>3, <1>4, <1>5, <1>6, <1>7, <1>8, <1>9, <1>10
          DEF BFTNext, EngineStep

-----------------------------------------------------------------------------
(* The invariant.                                                            *)
LEMMA Frame ==
    ASSUME NEW r \in Requests, ReqInv(r),
           phase'[r] = phase[r] \/ (phase[r] = "UNKNOWN" /\ phase'[r] \in {"INITIAL", "PRE_PREPARED"}),
           prepares'[r] = prepares[r], commits'[r] = commits[r], repeats'[r] = repeats[r],
           pcert'[r] = pcert[r], ccert'[r] = ccert[r], returned'[r] = returned[r]
    PROVE  ReqInv(r)'
  BY DEF ReqInv, OwnVote, CommitVotes, Certificates, Big

LEMMA KeepPrepare ==
    ASSUME IInv, NEW r \in Requests, NEW x \in Votes, NEW s \in Sequences,
           ReceivePrepare(x, r, s)
    PROVE  ReqInv(r)'
  <1> USE DEF IInv, BFTTypeOK, ReqInv
  <1>1. /\ prepares[r] \subseteq prepares'[r] /\ prepares'[r] \subseteq Votes
        /\ UNCHANGED <<pcert, ccert, returned>>
    BY ListGrows DEF ReceivePrepare
  <1>2. Big(prepares[r]) => Big(prepares'[r])
    BY <1>1, BigGrows
  <1>3. CASE Big(prepares'[r]) /\ phase[r] # "PREPARED"
    <2>1. /\ phase'[r] = "PREPARED" /\ commits'[r] = commits[r] \cup {Self}
          /\ repeats'[r] = IF Self \in commits[r] THEN repeats[r] + 1 ELSE repeats[r]
      BY <1>3 DEF ReceivePrepare, CommitIntent, Big
    <2>2. commits'[r] \subseteq Votes /\ (Big(commits[r]) => Big(commits'[r]))
      BY <2>1, BigGrows, NodesAssumption DEF Votes
    <2>3. OwnVote(r)'
      BY <1>3, <2>1 DEF OwnVote, Big
    <2>4. repeats'[r] > 0 => Big(commits[r])
      <3>1. CASE Self \in commits[r]
        BY <1>3, <3>1 DEF OwnVote, CommitVotes
      <3>2. CASE Self \notin commits[r]
        BY <2>1, <3>2 DEF CommitVotes
      <3> QED BY <3>1, <3>2
    <2>5. CommitVotes(r)'
      BY <2>1, <2>2, <2>4 DEF CommitVotes, Big
    <2>6. Certificates(r)'
      BY <1>1, <2>1 DEF Certificates, Big
    <2> QED BY <2>3, <2>5, <2>6
  <1>4. CASE ~(Big(prepares'[r]) /\ phase[r] # "PREPARED")
    <2>1. UNCHANGED <<phase, commits, repeats>>
      BY <1>4 DEF ReceivePrepare, Big
    <2> QED BY <1>1, <1>2, <2>1 DEF OwnVote, CommitVotes, Certificates, Big
  <1> QED BY <1>3, <1>4

LEMMA KeepOwnVote ==
    ASSUME IInv, NEW r \in Requests, NEW x \in Votes, NEW s \in Sequences,
           ReceiveCommit(x, r, s)
    PROVE  ReqInv(r)'
  <1> USE DEF IInv, BFTTypeOK, ReqInv
  <1>1. /\ commits[r] \subseteq commits'[r] /\ commits'[r] \subseteq Votes
        /\ Self \in commits'[r] <=> Self \in commits[r]
        /\ UNCHANGED <<prepares, repeats, pcert, ccert, returned>>
    BY ListGrows DEF ReceiveCommit
  <1>2. /\ Big(commits[r]) => Big(commits'[r])
        /\ Cardinality(commits'[r]) \in Nat
    BY <1>1, BigGrows
  <1>3. CASE Cardinality(commits'[r]) + repeats[r] >= Quorum
    <2>1. phase'[r] = "COMMITTED"
      BY <1>3 DEF ReceiveCommit
    <2>2. Big(commits'[r])
      <3>1. CASE repeats[r] = 0
        BY <1>2, <1>3, <3>1, QuorumIsNat DEF Big
      <3>2. CASE repeats[r] > 0
        BY <1>2, <3>2 DEF CommitVotes
      <3> QED BY <3>1, <3>2
    <2>3. OwnVote(r)'
      BY <1>1, <2>1 DEF OwnVote, Big
    <2> QED BY <1>1, <2>2, <2>3 DEF CommitVotes, Certificates, Big
  <1>4. CASE ~(Cardinality(commits'[r]) + repeats[r] >= Quorum)
    <2>1. phase'[r] = phase[r]
      BY <1>4 DEF ReceiveCommit
    <2>2. OwnVote(r)'
      BY <1>1, <2>1 DEF OwnVote, Big
    <2>3. CommitVotes(r)'
      BY <1>1, <1>2, <2>1 DEF CommitVotes, Big
    <2> QED BY <1>1, <2>2, <2>3 DEF Certificates, Big
  <1> QED BY <1>3, <1>4

LEMMA KeepFinalize ==
    ASSUME IInv, NEW r \in Requests, FinalizeCommit(r)
    PROVE  ReqInv(r)'
  <1> USE DEF IInv, BFTTypeOK, ReqInv
  <1>1. /\ phase[r] = "COMMITTED" /\ phase'[r] = "DECIDED"
        /\ ccert'[r] = IF ccert[r] = {} THEN commits[r] ELSE ccert[r]
        /\ returned'[r] = returned[r] \cup {ccert'[r]}
        /\ UNCHANGED <<prepares, commits, repeats, pcert>>
    BY DEF FinalizeCommit
  <1>2. Big(commits[r]) /\ commits[r] # {}
    BY <1>1, BigIsNotEmpty DEF CommitVotes
  <1>3. ccert'[r] # {} /\ Big(ccert'[r]) /\ ccert'[r] \subseteq commits[r]
    BY <1>1, <1>2 DEF Certificates
  <1>4. returned'[r] \subseteq {ccert'[r]}
    BY <1>1 DEF Certificates
  <1>5. Certificates(r)'
    BY <1>1, <1>3, <1>4 DEF Certificates, Big
  <1>6. OwnVote(r)' /\ CommitVotes(r)'
    BY <1>1, <1>2 DEF OwnVote, CommitVotes, Big
  <1> QED BY <1>5, <1>6

LEMMA Others ==
    ASSUME BFTTypeOK, NEW r \in Requests, NEW q \in Requests, q # r,
           \/ \E x \in Votes, s \in Sequences : ReceivePrepare(x, r, s) \/ ReceiveCommit(x, r, s)
           \/ ReceiveRequest(r) \/ CheckPrepared(r) \/ FinalizeCommit(r)
    PROVE  /\ phase'[q] = phase[q] /\ prepares'[q] = prepares[q]
           /\ commits'[q] = commits[q] /\ repeats'[q] = repeats[q]
           /\ pcert'[q] = pcert[q] /\ ccert'[q] = ccert[q] /\ returned'[q] = returned[q]
  <1> USE DEF BFTTypeOK
  <1>1. CASE \E x \in Votes, s \in Sequences : ReceivePrepare(x, r, s)
    BY <1>1 DEF ReceivePrepare, CommitIntent
  <1>2. CASE \E x \in Votes, s \in Sequences : ReceiveCommit(x, r, s)
    BY <1>2 DEF ReceiveCommit
  <1>3. CASE ReceiveRequest(r) \/ CheckPrepared(r) \/ FinalizeCommit(r)
    BY <1>3 DEF ReceiveRequest, CheckPrepared, FinalizeCommit
  <1> QED BY <1>1, <1>2, <1>3

LEMMA NextInv == IInv /\ [BFTNext]_bftVars => IInv'
  <1> SUFFICES ASSUME IInv, [BFTNext]_bftVars PROVE IInv'
    OBVIOUS
  <1>1. BFTTypeOK'
    BY TypesKept DEF IInv
  <1>2. SUFFICES ASSUME NEW q \in Requests PROVE ReqInv(q)'
    BY <1>1 DEF IInv
  <1>3. ReqInv(q) /\ BFTTypeOK
    BY DEF IInv
  <1>4. ASSUME NEW r \in Requests,
               \/ \E x \in Votes, s \in Sequences : ReceivePrepare(x, r, s) \/ ReceiveCommit(x, r, s)
               \/ ReceiveRequest(r) \/ CheckPrepared(r) \/ FinalizeCommit(r)
        PROVE  ReqInv(q)'
    <2>1. CASE q # r
      BY <1>3, <1>4, <2>1, Others, Frame
    <2>2. CASE q = r /\ \E x \in Votes, s \in Sequences : ReceivePrepare(x, r, s)
      BY <2>2, KeepPrepare
    <2>3. CASE q = r /\ \E x \in Votes, s \in Sequences : ReceiveCommit(x, r, s)
      BY <2>3, KeepOwnVote
    <2>4. CASE q = r /\ ReceiveRequest(r)
      BY <1>3, <2>4, Frame DEF ReceiveRequest, BFTTypeOK
    <2>5. CASE q = r /\ CheckPrepared(r)
      <3>1. pcert'[r] = prepares[r] /\ phase[r] = "PREPARED"
        BY <1>3, <2>5 DEF CheckPrepared, BFTTypeOK
      <3> QED BY <1>3, <2>5, <3>1
              DEF CheckPrepared, ReqInv, OwnVote, CommitVotes, Certificates, Big
    <2>6. CASE q = r /\ FinalizeCommit(r)
      BY <2>6, KeepFinalize
    <2> QED BY <1>4, <2>1, <2>2, <2>3, <2>4, <2>5, <2>6
  <1>5. CASE UNCHANGED <<phase, prepares, commits, repeats, pcert, ccert, returned>>
    BY <1>3, <1>5, Frame
  <1>6. ASSUME \/ \E v \in Views, l \in BOOLEAN : InitView(v, l)
               \/ \E n \in Nodes : Slash(n) \/ ReportNode(n)
               \/ AppealStep \/ UNCHANGED bftVars
        PROVE  UNCHANGED <<phase, prepares, commits, repeats, pcert, ccert, returned>>
    BY <1>6 DEF InitView, Slash, ReportNode, AppealStep, bftVars
  <1> QED BY <1>4, <1>5, <1>6 DEF BFTNext, EngineStep

LEMMA InitInv == BFTInit => IInv
  <1> SUFFICES ASSUME BFTInit PROVE IInv
    OBVIOUS
  <1>1. SlashTypeOK
    BY DEF BFTInit, SlashInit, SlashTypeOK
  <1>2. signed \in [Names \X Sequences -> SUBSET Requests]
    BY DEF BFTInit
  <1>3. BFTTypeOK
    BY <1>1, <1>2, ViewsAssumption DEF BFTInit, BFTTypeOK, Phases
  <1>4. \A r \in Requests : ReqInv(r)
    BY DEF BFTInit, ReqInv, OwnVote, CommitVotes, Certificates
  <1> QED BY <1>3, <1>4 DEF IInv

LEMMA IInvHolds == BFTSpec => []IInv
  BY InitInv, NextInv, PTL DEF BFTSpec

-----------------------------------------------------------------------------
(* Votes, certificates, the double-sign history and the slashing records     *)
(* stay well formed.                                                         *)
THEOREM BFTTypeCorrect == BFTSpec => []BFTTypeOK
  <1>1. IInv => BFTTypeOK
    BY DEF IInv
  <1> QED BY <1>1, IInvHolds, PTL

(* Every certificate, kept or returned, has the votes of f + 1 correct        *)
(* nodes, less one for each vote in it that is not what its sender sent.      *)
THEOREM CertificatesHaveHonestHolds == BFTSpec => []CertificatesHaveHonest
  <1>1. IInv => CertificatesHaveHonest
    <2> SUFFICES ASSUME IInv, NEW r \in Requests,
                        NEW c \in {pcert[r], ccert[r]} \cup returned[r], c # {}
                 PROVE  Cardinality(c \cap Correct) + Cardinality(c \cap Strays) >= F + 1
      BY DEF CertificatesHaveHonest
    <2>1. c \in SUBSET Votes /\ Big(c)
      BY DEF IInv, BFTTypeOK, ReqInv, Certificates
    <2> QED BY <2>1, HonestInQuorum
  <1> QED BY <1>1, IInvHolds, PTL

(* Behind the engine's own COMMIT there are PREPAREs of f + 1 correct nodes,  *)
(* less one for each stray among them.                                        *)
THEOREM OwnVoteIsBackedHolds == BFTSpec => []OwnVoteIsBacked
  <1>1. IInv => OwnVoteIsBacked
    <2> SUFFICES ASSUME IInv, NEW r \in Requests, Self \in commits[r]
                 PROVE  Cardinality(prepares[r] \cap Correct) + Cardinality(prepares[r] \cap Strays) >= F + 1
      BY DEF OwnVoteIsBacked
    <2>1. prepares[r] \in SUBSET Votes /\ Big(prepares[r])
      BY DEF IInv, BFTTypeOK, ReqInv, OwnVote
    <2> QED BY <2>1, HonestInQuorum
  <1> QED BY <1>1, IInvHolds, PTL

(* However often a request is finalised, the answer is one certificate, made *)
(* of votes the engine holds.                                                *)
THEOREM OneCertificateHolds == BFTSpec => []OneCertificate
  <1>1. IInv => OneCertificate
    <2> SUFFICES ASSUME IInv, NEW r \in Requests
                 PROVE  /\ Cardinality(returned[r]) <= 1
                        /\ \A c \in returned[r] : c = ccert[r] /\ c \subseteq commits[r]
      BY DEF OneCertificate
    <2>1. returned[r] \subseteq {ccert[r]} /\ ccert[r] \subseteq commits[r]
      BY DEF IInv, ReqInv, Certificates
    <2>2. returned[r] = {} \/ returned[r] = {ccert[r]}
      BY <2>1
    <2>3. Cardinality(returned[r]) <= 1
      <3>1. Cardinality({}) = 0 /\ Cardinality({ccert[r]}) = 1
        BY FS_EmptySet, FS_Singleton
      <3> QED BY <2>2, <3>1
    <2> QED BY <2>1, <2>3
  <1> QED BY <1>1, IInvHolds, PTL

(***************************************************************************)
(* The run of InProcess.                                                   *)
(***************************************************************************)

(* TypesOK of every instance: each component keeps to its types while it is  *)
(* the active one.                                                           *)
THEOREM TypesHold == SpecOne => []TypesOK
  <1> DEFINE StepOfOne == [NextOne]_<<part, persistVars, gateVars, bftVars>>
  <1>1. StepOfOne => [Next]_persistVars /\ [GateNext]_gateVars /\ [BFTNext]_bftVars
    BY DEF NextOne
  <1>2. InitOne => Init /\ GateInit /\ BFTInit
    BY DEF InitOne
  <1>3. TypeOK /\ GateTypeOK /\ BFTTypeOK => TypesOK
    BY DEF TypesOK
  <1> QED BY <1>1, <1>2, <1>3, TypeCorrect, GateTypeCorrect, BFTTypeCorrect, PTL
          DEF SpecOne, Spec, GateSpec, BFTSpec
=============================================================================
