--------------------------- MODULE PBFTLiteProofs ---------------------------
(***************************************************************************)
(* Theorems about PBFTLite, for any number n of nodes with at most         *)
(* (n - 1) div 3 faulty ones, any digests and any bounds.                  *)
(***************************************************************************)
EXTENDS PBFTLite, FiniteSetTheorems, TLAPS

Voting == {"PREPARE", "COMMIT", "FINISHED"}
VoteTypes == {"PREPARE", "COMMIT"}

(* A correct node's vote of its present view is for its present digest, and  *)
(* the node is in the phase that vote leads to.                              *)
VotesAreOfVoters ==
    \A m \in sent :
        /\ m.from \in Honest
        /\ m.view <= peer_view[m.from]
        /\ m.type \in VoteTypes /\ m.view = peer_view[m.from] /\ m.view \in Undisturbed =>
              /\ digest[m.from] = {m.digest}
              /\ peer_phase[m.from] \in Voting
              /\ m.type = "COMMIT" => peer_phase[m.from] # "PREPARE"

(* A correct node votes for one digest per view.                             *)
OneDigestPerView ==
    \A m1, m2 \in sent :
        m1.type \in VoteTypes /\ m2.type \in VoteTypes
        /\ m1.from = m2.from /\ m1.view = m2.view /\ m1.view \in Undisturbed
            => m1.digest = m2.digest

\* The nodes whose votes an engine has queued.
Senders(p, type) == {m.from : m \in {x \in counted[p] : x.type = type}}

(* The queues hold votes for the engine's digest, one per sender.            *)
QueuesAreSets ==
    \A p \in Honest : peer_view[p] \in Undisturbed =>
        /\ \A m \in counted[p] :
              /\ Genuine(m)
              /\ m.from # p
              /\ digest[p] = {m.digest}
              /\ peer_phase[p] \in Voting
              /\ m.type = "COMMIT" => peer_phase[p] # "PREPARE"
        /\ prepare_queue[p] <= Cardinality(Senders(p, "PREPARE"))
        /\ commit_queue[p] <= Cardinality(Senders(p, "COMMIT"))

(* Past PREPARE the threshold was reached, counting the engine's own vote,   *)
(* and the engine has voted.                                                 *)
PastThreshold ==
    \A p \in Honest : peer_view[p] \in Undisturbed =>
        /\ peer_phase[p] \in {"COMMIT", "FINISHED"} =>
              /\ prepare_queue[p] + 1 >= Threshold
              /\ \A d \in digest[p] : Message("COMMIT", peer_view[p], d, p) \in sent
        /\ peer_phase[p] \in Voting =>
              \A d \in digest[p] : Message("PREPARE", peer_view[p], d, p) \in sent

(* A proposer of the present view waits in PRE_PREPARE.                      *)
ProposersWait ==
    \A m \in sent : m.type = "PRE_PREPARE" /\ m.view \in Undisturbed /\ m.view = peer_view[m.from]
                      => peer_phase[m.from] = "PRE_PREPARE"

(* A node that decided in the present view is finished.                      *)
DecidersFinish ==
    \A a \in decided : a.view \in Undisturbed =>
        /\ a.view <= peer_view[a.node]
        /\ a.view = peer_view[a.node] => peer_phase[a.node] = "FINISHED"

PbftInv == PbftTypeOK /\ VotesAreOfVoters /\ OneDigestPerView /\ QueuesAreSets
               /\ PastThreshold /\ DecisionIsBacked
               /\ ProposersWait /\ DecidersFinish /\ ProposerStaysBehind

-----------------------------------------------------------------------------
LEMMA Numbers ==
    /\ N \in Nat /\ ComputeF \in Nat /\ Threshold = 2 * ComputeF + 1
    /\ N <= 3 * ComputeF + 3
    /\ IsFiniteSet(Honest) /\ IsFiniteSet(Byzantine)
    /\ Cardinality(Byzantine) \in Nat /\ Cardinality(Honest) \in Nat
    /\ Cardinality(Honest) = N - Cardinality(Byzantine)
  <1>1. IsFiniteSet(Byzantine) /\ N \in Nat /\ Cardinality(Byzantine) \in Nat
    BY PeersAssumption, FS_Subset, FS_CardinalityType DEF N
  <1>2. IsFiniteSet(Honest) /\ Cardinality(Honest) = N - Cardinality(Peers \cap Byzantine)
    BY PeersAssumption, FS_Difference DEF Honest, N
  <1>3. Peers \cap Byzantine = Byzantine
    BY PeersAssumption
  <1>4. ComputeF \in Nat /\ N <= 3 * ComputeF + 3
    BY <1>1 DEF ComputeF
  <1> QED BY <1>1, <1>2, <1>3, <1>4, FS_CardinalityType DEF Threshold

(* Two sets of correct nodes, each of which the faulty ones complete to one  *)
(* vote more than a quorum, have a node in common.                           *)
LEMMA QuorumsMeet ==
    ASSUME NEW S \in SUBSET Honest, NEW T \in SUBSET Honest,
           Cardinality(S) + Cardinality(Byzantine) >= Threshold + 1,
           Cardinality(T) + Cardinality(Byzantine) >= Threshold + 1
    PROVE  S \cap T # {}
  <1>1. /\ IsFiniteSet(S) /\ IsFiniteSet(T)
        /\ Cardinality(S) \in Nat /\ Cardinality(T) \in Nat
    BY Numbers, FS_Subset, FS_CardinalityType
  <1>2. Cardinality(S) + Cardinality(T) > Cardinality(Honest)
    BY <1>1, Numbers, FaultsAssumption
  <1> QED BY <1>2, Numbers, FS_MajoritiesIntersect

(* Senders that are correct or faulty: their number bounds the correct ones  *)
(* from below.                                                               *)
LEMMA CorrectSenders ==
    ASSUME NEW A, NEW S \in SUBSET Honest, A \subseteq S \cup Byzantine
    PROVE  /\ IsFiniteSet(A) /\ Cardinality(A) \in Nat
           /\ IsFiniteSet(S) /\ Cardinality(S) \in Nat
           /\ Cardinality(A) <= Cardinality(S) + Cardinality(Byzantine)
  <1>1. IsFiniteSet(S) /\ Cardinality(S) \in Nat
    BY Numbers, FS_Subset, FS_CardinalityType
  <1>2. /\ IsFiniteSet(S \cup Byzantine)
        /\ Cardinality(S \cup Byzantine) =
              Cardinality(S) + Cardinality(Byzantine) - Cardinality(S \cap Byzantine)
    BY <1>1, Numbers, FS_Union
  <1>3. Cardinality(S \cap Byzantine) \in Nat
    BY <1>1, FS_Intersection, FS_CardinalityType
  <1>4. IsFiniteSet(A) /\ Cardinality(A) <= Cardinality(S \cup Byzantine)
    BY <1>2, FS_Subset
  <1>5. Cardinality(A) \in Nat /\ Cardinality(S \cup Byzantine) \in Nat
    BY <1>2, <1>4, FS_CardinalityType
  <1> QED BY <1>1, <1>2, <1>3, <1>4, <1>5, Numbers

(* Whoever sent a genuine message has voted so, or is faulty.                *)
LEMMA SenderVoted ==
    ASSUME PbftInv, NEW p \in Honest, NEW m \in Messages, Genuine(m), m.from # p
    PROVE  m.from \in (Voters(m.type, m.view, m.digest) \ {p}) \cup Byzantine
  <1>1. CASE m \in sent
    <2>1. m = Message(m.type, m.view, m.digest, m.from)
      BY DEF Messages, Message
    <2>2. m.from \in Honest
      BY <1>1 DEF PbftInv, VotesAreOfVoters
    <2> QED BY <1>1, <2>1, <2>2 DEF Voters
  <1> QED BY <1>1 DEF Genuine

(* The senders in a queue of an undisturbed view.                            *)
LEMMA SendersVoted ==
    ASSUME PbftInv, NEW p \in Honest, peer_view[p] \in Undisturbed,
           NEW d, digest[p] = {d}, NEW type
    PROVE  Senders(p, type) \subseteq (Voters(type, peer_view[p], d) \ {p}) \cup Byzantine
  <1> SUFFICES ASSUME NEW m \in counted[p], m.type = type
               PROVE  m.from \in (Voters(type, peer_view[p], d) \ {p}) \cup Byzantine
    BY DEF Senders
  <1>1. m \in Messages /\ m.view = peer_view[p]
    BY DEF PbftInv, PbftTypeOK
  <1>2. Genuine(m) /\ m.from # p /\ m.digest = d
    BY DEF PbftInv, QueuesAreSets
  <1> QED BY <1>1, <1>2, SenderVoted

(* A queue that is a set bounds the votes behind it.                         *)
LEMMA VotesBehind ==
    ASSUME PbftInv, NEW p \in Honest, NEW A, NEW type, NEW v, NEW d,
           A \subseteq (Voters(type, v, d) \ {p}) \cup Byzantine
    PROVE  /\ IsFiniteSet(A) /\ Cardinality(A) \in Nat
           /\ Cardinality(Voters(type, v, d) \ {p}) \in Nat
           /\ Cardinality(A) <= Cardinality(Voters(type, v, d) \ {p}) + Cardinality(Byzantine)
  <1>1. Voters(type, v, d) \ {p} \in SUBSET Honest
    BY DEF Voters
  <1> QED BY <1>1, CorrectSenders

-----------------------------------------------------------------------------
LEMMA PbftInitInv == PbftInit => PbftInv
  <1> SUFFICES ASSUME PbftInit PROVE PbftInv
    OBVIOUS
  <1>1. PbftTypeOK
    BY PbftBoundsAssumption DEF PbftInit, PbftTypeOK, PeerPhases, PeerViews, Rounds
  <1>2. \A p \in Honest : \A type : Senders(p, type) = {}
    BY DEF PbftInit, Senders
  <1>3. QueuesAreSets
    BY <1>2, FS_EmptySet DEF PbftInit, QueuesAreSets
  <1> QED BY <1>1, <1>3
      DEF PbftInit, PbftInv, VotesAreOfVoters, OneDigestPerView, PastThreshold, Voting,
          DecisionIsBacked, ProposersWait, DecidersFinish, ProposerStaysBehind

(* Repeated votes and restarts only take views away.                         *)
LEMMA UpsetType ==
    ASSUME PbftTypeOK, NEW views \in SUBSET PeerViews, Upset(views)
    PROVE  /\ disturbed' \subseteq PeerViews /\ upsets' \in 0 .. MaxUpsets
           /\ Undisturbed' = Undisturbed \ views
  BY PbftBoundsAssumption DEF PbftTypeOK, Upset, Undisturbed

(* A message that fits is a new vote in the queue, or disturbs the view.     *)
LEMMA Counting ==
    ASSUME PbftTypeOK, NEW p \in Honest, NEW m \in OnTheWay, NEW type,
           Count(p, m, type), m.view = peer_view[p]
    PROVE  /\ m \in Messages
           /\ counted' \in [Honest -> SUBSET Messages]
           /\ \A q \in Honest : \A x \in counted'[q] : x.view = peer_view[q]
           /\ disturbed' \subseteq PeerViews /\ upsets' \in 0 .. MaxUpsets
           /\ \/ /\ NewVote(p, m, type)
                 /\ counted' = [counted EXCEPT ![p] = @ \cup {m}]
                 /\ Undisturbed' = Undisturbed
              \/ counted' = counted /\ Undisturbed' = Undisturbed \ {peer_view[p]}
  <1>1. m \in Messages /\ {m.view} \in SUBSET PeerViews
    BY DEF OnTheWay, Forged, PbftTypeOK
  <1>2. CASE NewVote(p, m, type)
    BY <1>1, <1>2 DEF Count, PbftTypeOK, Undisturbed
  <1>3. CASE ~NewVote(p, m, type)
    BY <1>1, <1>3, UpsetType DEF Count, PbftTypeOK
  <1> QED BY <1>2, <1>3

(* A backed decision stays backed while votes are only added.                *)
LEMMA BackedKept ==
    ASSUME NEW a, Backed(a), sent \subseteq sent'
    PROVE  Backed(a)'
  <1> DEFINE S == Voters("COMMIT", a.view, a.digest) \ {a.node}
             T == Voters("COMMIT", a.view, a.digest)' \ {a.node}
  <1>1. S \subseteq T /\ T \subseteq Honest /\ a.node \in Voters("COMMIT", a.view, a.digest)'
    BY DEF Voters, Backed
  <1>2. IsFiniteSet(T) /\ Cardinality(S) <= Cardinality(T)
    BY <1>1, Numbers, FS_Subset
  <1>3. Cardinality(S) \in Nat /\ Cardinality(T) \in Nat
    BY <1>1, <1>2, FS_Subset, FS_CardinalityType
  <1>4. Cardinality(S) + Cardinality(Byzantine) >= Threshold
    BY DEF Backed
  <1>5. Cardinality(T) + Cardinality(Byzantine) >= Threshold
    BY <1>2, <1>3, <1>4, Numbers
  <1>6. Threshold' = Threshold
    BY DEF Threshold, ComputeF, N
  <1> QED BY <1>1, <1>5, <1>6 DEF Backed

(* What a step that leaves the queues of every engine but p alone must show  *)
(* of them.                                                                  *)
LEMMA SendersKept ==
    ASSUME NEW p, counted'[p] = counted[p]
    PROVE  \A type : Senders(p, type)' = Senders(p, type)
  BY DEF Senders

(* A step that disturbs the view p is in takes that view out of every claim; *)
(* for the rest it may do with p, and with its messages of the view, what it *)
(* likes.                                                                    *)
LEMMA KeepDisturbed ==
    ASSUME PbftInv, NEW p \in Honest, PbftTypeOK',
           Undisturbed' = Undisturbed \ {peer_view[p]}, UNCHANGED <<peer_view, counted>>,
           \A q \in Honest : q # p =>
               /\ digest'[q] = digest[q] /\ peer_phase'[q] = peer_phase[q]
               /\ prepare_queue'[q] = prepare_queue[q] /\ commit_queue'[q] = commit_queue[q],
           sent \subseteq sent',
           \A x \in sent' \ sent : x.from = p /\ x.view = peer_view[p],
           decided \subseteq decided',
           \A a \in decided' \ decided : a.node = p /\ a.view = peer_view[p]
    PROVE  PbftInv'
  <1>0. peer_view[p] \in Nat
    BY DEF PbftInv, PbftTypeOK, PeerViews
  <1>1. VotesAreOfVoters'
    BY <1>0 DEF PbftInv, VotesAreOfVoters
  <1>2. OneDigestPerView'
    BY DEF PbftInv, OneDigestPerView
  <1>3. QueuesAreSets'
    <2>1. \A q \in Honest : \A type : Senders(q, type)' = Senders(q, type)
      BY SendersKept
    <2> QED BY <2>1 DEF PbftInv, QueuesAreSets, Genuine
  <1>4. PastThreshold'
    BY DEF PbftInv, PastThreshold, Threshold, ComputeF, N
  <1>5. DecisionIsBacked'
    BY BackedKept DEF PbftInv, DecisionIsBacked
  <1>6. ProposersWait'
    BY DEF PbftInv, ProposersWait, VotesAreOfVoters
  <1>7. DecidersFinish'
    BY DEF PbftInv, DecidersFinish, PbftTypeOK
  <1>8. ProposerStaysBehind'
    <2>1. \A v, d : v # peer_view[p] => Voters("COMMIT", v, d)' = Voters("COMMIT", v, d)
      BY DEF Voters, Message
    <2> QED BY <2>1 DEF PbftInv, ProposerStaysBehind
  <1> QED BY <1>1, <1>2, <1>3, <1>4, <1>5, <1>6, <1>7, <1>8 DEF PbftInv

(* An idle node has sent nothing in its view.                                *)
LEMMA IdleIsSilent ==
    ASSUME PbftInv, NEW p \in Honest, peer_phase[p] = "IDLE", peer_view[p] \in Undisturbed
    PROVE  /\ \A x \in sent : x.from = p => x.view < peer_view[p]
           /\ counted[p] = {}
  <1>1. counted[p] = {}
    BY DEF PbftInv, QueuesAreSets, Voting
  <1>2. ASSUME NEW x \in sent, x.from = p
        PROVE  x.view < peer_view[p]
    <2>1. x.view # peer_view[p]
      <3>1. x.type \in VoteTypes \/ x.type = "PRE_PREPARE"
        BY DEF PbftInv, PbftTypeOK, Messages, Types, VoteTypes
      <3>2. CASE x.type \in VoteTypes
        BY <1>2, <3>2 DEF PbftInv, VotesAreOfVoters, Voting
      <3>3. CASE x.type = "PRE_PREPARE"
        BY <1>2, <3>3 DEF PbftInv, ProposersWait
      <3> QED BY <3>1, <3>2, <3>3
    <2>2. x.view <= peer_view[p] /\ x.view \in Nat /\ peer_view[p] \in Nat
      BY <1>2 DEF PbftInv, VotesAreOfVoters, PbftTypeOK, Messages, PeerViews
    <2> QED BY <2>1, <2>2
  <1> QED BY <1>1, <1>2

LEMMA KeepSendPrePrepare ==
    ASSUME PbftInv, NEW p \in Honest, NEW d \in Digests, SendPrePrepare(p, d)
    PROVE  PbftInv'
  <1> DEFINE mine == Message("PRE_PREPARE", peer_view[p], d, p)
  <1> USE DEF SendPrePrepare
  <1>0. /\ mine \in Messages /\ mine.type = "PRE_PREPARE" /\ mine.type \notin VoteTypes
        /\ mine.view = peer_view[p] /\ mine.from = p
    BY DEF Messages, Types, VoteTypes, Message, PbftInv, PbftTypeOK, Honest
  <1>a. sent' = sent \cup {mine}
    OBVIOUS
  <1> HIDE DEF mine
  <1>1. PbftTypeOK'
    <2>2. ProposerPhase \in PeerPhases /\ 0 \in Rounds
      BY PbftBoundsAssumption DEF ProposerPhase, PeerPhases, Rounds
    <2> QED BY <1>0, <1>a, <2>2 DEF PbftInv, PbftTypeOK
  <1>2. Undisturbed' = Undisturbed /\ Threshold' = Threshold
    BY DEF Undisturbed, Threshold, ComputeF, N
  <1>3. peer_view[p] \in Undisturbed => \A x \in sent : x.from = p => x.view < peer_view[p]
    BY IdleIsSilent
  <1>4. VotesAreOfVoters'
    BY <1>0, <1>a, <1>2, <1>3 DEF PbftInv, VotesAreOfVoters, PbftTypeOK, Messages, PeerViews
  <1>5. OneDigestPerView'
    BY <1>0, <1>a, <1>2 DEF PbftInv, OneDigestPerView
  <1>6. QueuesAreSets'
    <2>1. peer_view[p] \in Undisturbed => counted[p] = {}
      BY IdleIsSilent
    <2> QED BY <1>a, <1>2, <2>1, SendersKept DEF PbftInv, QueuesAreSets, PbftTypeOK, Genuine
  <1>7. PastThreshold'
    BY <1>a, <1>2 DEF PbftInv, PastThreshold, ProposerPhase, Voting, PbftTypeOK
  <1>8. DecisionIsBacked'
    BY <1>a, <1>2, BackedKept DEF PbftInv, DecisionIsBacked
  <1>9. ProposersWait'
    BY <1>0, <1>a, <1>2 DEF PbftInv, ProposersWait, ProposerPhase, PbftTypeOK, PeerViews
  <1>10. DecidersFinish'
    BY <1>2 DEF PbftInv, DecidersFinish, PbftTypeOK, ProposerPhase
  <1>11. ProposerStaysBehind'
    <2>1. peer_view[p] \in Undisturbed => \A a \in decided : a.node = p => a.view # peer_view[p]
      BY DEF PbftInv, DecidersFinish
    <2>2. peer_view[p] \in Undisturbed =>
             \A x \in Digests : p \notin Voters("COMMIT", peer_view[p], x)
      BY <1>3 DEF Voters, Message, PbftInv, PbftTypeOK, PeerViews
    <2>3. \A v, x : Voters("COMMIT", v, x)' = Voters("COMMIT", v, x)
      BY <1>0, <1>a DEF Voters, Message
    <2> QED BY <1>0, <1>a, <1>2, <2>1, <2>2, <2>3 DEF PbftInv, ProposerStaysBehind
  <1> QED BY <1>1, <1>4, <1>5, <1>6, <1>7, <1>8, <1>9, <1>10, <1>11 DEF PbftInv

LEMMA KeepOnPrePrepare ==
    ASSUME PbftInv, NEW p \in Honest, NEW m \in OnTheWay, OnPrePrepare(p, m)
    PROVE  PbftInv'
  <1> DEFINE mine == Message("PREPARE", peer_view[p], m.digest, p)
  <1> USE DEF OnPrePrepare
  <1>0. /\ m.digest \in Digests /\ mine \in Messages
        /\ mine.type = "PREPARE" /\ mine.view = peer_view[p]
        /\ mine.digest = m.digest /\ mine.from = p
    BY DEF OnTheWay, Forged, Messages, Types, Message, PbftInv, PbftTypeOK, Honest
  <1> HIDE DEF mine
  <1>a. sent' = sent \cup {mine}
    BY DEF mine
  <1>1. PbftTypeOK'
    <2>1. "PREPARE" \in PeerPhases /\ 0 \in Rounds
      BY PbftBoundsAssumption DEF PeerPhases, Rounds
    <2> QED BY <1>0, <1>a, <2>1 DEF PbftInv, PbftTypeOK
  <1>2. Undisturbed' = Undisturbed /\ Threshold' = Threshold
    BY DEF Undisturbed, Threshold, ComputeF, N
  <1>3. peer_view[p] \in Undisturbed => \A x \in sent : x.from = p => x.view < peer_view[p]
    BY IdleIsSilent
  <1>4. VotesAreOfVoters'
    BY <1>0, <1>a, <1>2, <1>3 DEF PbftInv, VotesAreOfVoters, PbftTypeOK, Messages, PeerViews, Voting
  <1>5. OneDigestPerView'
    <2>1. peer_view[p] \in Undisturbed => \A x \in sent : x.from = p => x.view # peer_view[p]
      BY <1>3 DEF PbftInv, PbftTypeOK, PeerViews, Messages
    <2> QED BY <1>0, <1>a, <1>2, <2>1 DEF PbftInv, OneDigestPerView
  <1>6. QueuesAreSets'
    <2>1. peer_view[p] \in Undisturbed => counted[p] = {}
      BY IdleIsSilent
    <2>2. IsFiniteSet({}) /\ Cardinality({}) = 0
      BY FS_EmptySet
    <2>3. peer_view[p] \in Undisturbed => Senders(p, "PREPARE") = {}
      BY <2>1 DEF Senders
    <2> SUFFICES ASSUME NEW q \in Honest, peer_view[q] \in Undisturbed
                 PROVE  /\ \A x \in counted[q] :
                              /\ Genuine(x)' /\ x.from # q
                              /\ digest'[q] = {x.digest}
                              /\ peer_phase'[q] \in Voting
                              /\ x.type = "COMMIT" => peer_phase'[q] # "PREPARE"
                        /\ prepare_queue'[q] <= Cardinality(Senders(q, "PREPARE"))
                        /\ commit_queue'[q] <= Cardinality(Senders(q, "COMMIT"))
      BY <1>2, SendersKept DEF QueuesAreSets
    <2>4. CASE q = p
      <3>1. prepare_queue'[p] = 0 /\ commit_queue'[p] = commit_queue[p]
        BY DEF PbftInv, PbftTypeOK
      <3>2. commit_queue[p] <= Cardinality(Senders(p, "COMMIT"))
        BY <2>4 DEF PbftInv, QueuesAreSets
      <3>3. prepare_queue'[p] <= Cardinality(Senders(p, "PREPARE"))
        BY <2>2, <2>3, <2>4, <3>1
      <3> QED BY <2>1, <2>4, <3>1, <3>2, <3>3
    <2>5. CASE q # p
      BY <1>a, <2>5 DEF PbftInv, QueuesAreSets, PbftTypeOK, Genuine
    <2> QED BY <2>4, <2>5
  <1>7. PastThreshold'
    BY <1>0, <1>a, <1>2
    DEF PbftInv, PastThreshold, Voting, PbftTypeOK, mine
  <1>8. DecisionIsBacked'
    BY <1>a, <1>2, BackedKept DEF PbftInv, DecisionIsBacked
  <1>9. ProposersWait'
    BY <1>0, <1>a, <1>2, <1>3 DEF PbftInv, ProposersWait, VotesAreOfVoters, PbftTypeOK, PeerViews
  <1>10. DecidersFinish'
    BY <1>2 DEF PbftInv, DecidersFinish, PbftTypeOK
  <1>11. ProposerStaysBehind'
    <2>1. \A v, x : Voters("COMMIT", v, x)' = Voters("COMMIT", v, x)
      BY DEF Voters, Message
    <2> QED BY <1>0, <1>a, <1>2, <2>1 DEF PbftInv, ProposerStaysBehind
  <1> QED BY <1>1, <1>4, <1>5, <1>6, <1>7, <1>8, <1>9, <1>10, <1>11 DEF PbftInv

(* A new vote's sender is one the queue does not have yet.                   *)
LEMMA NewSender ==
    ASSUME PbftInv, NEW p \in Honest, NEW m \in Messages, NEW type, NEW in,
           Fits(p, m, in), NewVote(p, m, type), peer_view[p] \in Undisturbed,
           counted' = [counted EXCEPT ![p] = @ \cup {m}]
    PROVE  /\ Senders(p, type)' = Senders(p, type) \cup {m.from}
           /\ m.from \notin Senders(p, type)
           /\ IsFiniteSet(Senders(p, type))
  <1>1. /\ m.type = type /\ m.view = peer_view[p] /\ m.from # p
        /\ digest[p] = {m.digest} /\ m \notin counted[p]
        /\ counted \in [Honest -> SUBSET Messages]
        /\ counted'[p] = counted[p] \cup {m}
    BY DEF Fits, NewVote, PbftInv, PbftTypeOK
  <1>2. Senders(p, type)' = Senders(p, type) \cup {m.from}
    BY <1>1 DEF Senders
  <1>3. m.from \notin Senders(p, type)
    <2> SUFFICES ASSUME NEW x \in counted[p], x.type = type, x.from = m.from
                 PROVE  FALSE
      BY DEF Senders
    <2>1. x \in Messages /\ x.view = peer_view[p] /\ digest[p] = {x.digest}
      BY <1>1 DEF PbftInv, PbftTypeOK, QueuesAreSets
    <2>2. x = m
      BY <1>1, <2>1 DEF Messages
    <2> QED BY <1>1, <2>2
  <1>4. IsFiniteSet(Senders(p, type))
    <2>1. Senders(p, type) \subseteq (Voters(type, peer_view[p], m.digest) \ {p}) \cup Byzantine
      BY <1>1, SendersVoted
    <2> QED BY <2>1, VotesBehind
  <1> QED BY <1>2, <1>3, <1>4

(* With a new vote the queue still holds votes of others for its digest.     *)
LEMMA Counted ==
    ASSUME PbftInv, NEW p \in Honest, NEW m \in Messages, NEW type, NEW in \in Voting,
           Fits(p, m, in), NewVote(p, m, type), peer_view[p] \in Undisturbed,
           counted' = [counted EXCEPT ![p] = @ \cup {m}], sent \subseteq sent',
           type = "COMMIT" => in # "PREPARE"
    PROVE  \A x \in counted'[p] : /\ Genuine(x)' /\ x.from # p /\ digest[p] = {x.digest}
                                  /\ x.type = "COMMIT" => in # "PREPARE"
  <1>1. counted'[p] = counted[p] \cup {m}
    BY DEF PbftInv, PbftTypeOK
  <1>2. m.type = type /\ Genuine(m) /\ m.from # p /\ digest[p] = {m.digest} /\ peer_phase[p] = in
    BY DEF Fits, NewVote
  <1> QED BY <1>1, <1>2 DEF PbftInv, QueuesAreSets, Genuine

LEMMA OthersCounted ==
    ASSUME NEW p, NEW m, NEW type, NewVote(p, m, type), counted' = [counted EXCEPT ![p] = @ \cup {m}]
    PROVE  \A q \in DOMAIN counted : \A s : q # p \/ s # type => Senders(q, s)' = Senders(q, s)
  BY DEF Senders, NewVote

LEMMA KeepOnPrepare ==
    ASSUME PbftInv, NEW p \in Honest, NEW m \in OnTheWay, OnPrepare(p, m)
    PROVE  PbftInv'
  <1> DEFINE mine == Message("COMMIT", peer_view[p], m.digest, p)
             Reached == prepare_queue'[p] + 1 >= Threshold
  <1>1. /\ m \in Messages /\ m.view = peer_view[p]
        /\ digest[p] = {m.digest} /\ peer_phase[p] = "PREPARE" /\ m.digest \in Digests
        /\ counted' \in [Honest -> SUBSET Messages]
        /\ \A q \in Honest : \A x \in counted'[q] : x.view = peer_view[q]
        /\ disturbed' \subseteq PeerViews /\ upsets' \in 0 .. MaxUpsets
        /\ \/ /\ NewVote(p, m, "PREPARE")
              /\ counted' = [counted EXCEPT ![p] = @ \cup {m}]
              /\ Undisturbed' = Undisturbed
           \/ counted' = counted /\ Undisturbed' = Undisturbed \ {peer_view[p]}
    BY Counting DEF OnPrepare, Fits, PbftInv, PbftTypeOK, Messages
  <1>2. /\ prepare_queue' = [prepare_queue EXCEPT ![p] = @ + 1] /\ prepare_queue'[p] = prepare_queue[p] + 1
        /\ UNCHANGED <<peer_view, round, digest, decided>>
        /\ \/ /\ Reached
              /\ peer_phase' = [peer_phase EXCEPT ![p] = "COMMIT"]
              /\ commit_queue' = [commit_queue EXCEPT ![p] = 0]
              /\ sent' = sent \cup {mine}
           \/ UNCHANGED <<peer_phase, commit_queue, sent>>
    BY DEF OnPrepare, PbftInv, PbftTypeOK
  <1>3. /\ mine \in Messages /\ mine.type = "COMMIT" /\ mine.view = peer_view[p]
        /\ mine.digest = m.digest /\ mine.from = p
    BY <1>1 DEF Messages, Types, Message, PbftInv, PbftTypeOK, Honest
  <1> HIDE DEF mine, Reached
  <1>4. PbftTypeOK'
    <2>1. peer_phase' \in [Honest -> PeerPhases] /\ commit_queue' \in [Honest -> Nat]
      BY <1>2 DEF PbftInv, PbftTypeOK, PeerPhases
    <2>2. prepare_queue' \in [Honest -> Nat] /\ sent' \subseteq Messages
      BY <1>2, <1>3 DEF PbftInv, PbftTypeOK
    <2>3. \A q \in Honest :
             /\ peer_phase'[q] # "IDLE" => \E d \in Digests : digest'[q] = {d}
             /\ \A x \in counted'[q] : x.view = peer_view'[q]
      BY <1>1, <1>2 DEF PbftInv, PbftTypeOK
    <2> QED BY <1>1, <1>2, <2>1, <2>2, <2>3 DEF PbftInv, PbftTypeOK
  <1>b. CASE counted' = counted /\ Undisturbed' = Undisturbed \ {peer_view[p]}
    <2>1. \A q \in Honest : q # p =>
             /\ digest'[q] = digest[q] /\ peer_phase'[q] = peer_phase[q]
             /\ prepare_queue'[q] = prepare_queue[q] /\ commit_queue'[q] = commit_queue[q]
      BY <1>2 DEF PbftInv, PbftTypeOK
    <2> QED BY <1>2, <1>3, <1>4, <1>b, <2>1, KeepDisturbed
  <1> SUFFICES ASSUME NewVote(p, m, "PREPARE"), Undisturbed' = Undisturbed,
                      counted' = [counted EXCEPT ![p] = @ \cup {m}]
               PROVE  PbftInv'
    BY <1>1, <1>b
  <1>5. VotesAreOfVoters'
    <2> SUFFICES ASSUME NEW x \in sent'
                 PROVE  /\ x.from \in Honest /\ x.view <= peer_view[x.from]
                        /\ x.type \in VoteTypes /\ x.view = peer_view[x.from] /\ x.view \in Undisturbed =>
                              /\ digest[x.from] = {x.digest}
                              /\ peer_phase'[x.from] \in Voting
                              /\ x.type = "COMMIT" => peer_phase'[x.from] # "PREPARE"
      BY <1>2 DEF VotesAreOfVoters
    <2>1. CASE x \in sent
      <3>1. CASE x.from = p
        BY <1>1, <1>2, <2>1, <3>1 DEF PbftInv, VotesAreOfVoters, PbftTypeOK, Voting
      <3>2. CASE x.from # p
        BY <1>1, <1>2, <2>1, <3>2 DEF PbftInv, VotesAreOfVoters, PbftTypeOK
      <3> QED BY <3>1, <3>2
    <2>2. CASE x = mine /\ peer_phase' = [peer_phase EXCEPT ![p] = "COMMIT"]
      BY <1>1, <1>3, <2>2 DEF PbftInv, PbftTypeOK, Voting, PeerViews
    <2> QED BY <1>2, <2>1, <2>2
  <1>6. OneDigestPerView'
    <2>1. peer_view[p] \in Undisturbed =>
             \A x \in sent : x.type \in VoteTypes /\ x.from = p /\ x.view = peer_view[p]
                                => x.digest = m.digest
      BY <1>1 DEF PbftInv, VotesAreOfVoters
    <2> QED BY <1>1, <1>2, <1>3, <2>1 DEF PbftInv, OneDigestPerView
  <1>7. QueuesAreSets'
    <2>0. sent \subseteq sent'
      BY <1>2
    <2>1. \A q \in Honest : \A s : q # p \/ s # "PREPARE" => Senders(q, s)' = Senders(q, s)
      BY OthersCounted DEF PbftInv, PbftTypeOK
    <2>a. peer_view[p] \in Undisturbed =>
             /\ Cardinality(Senders(p, "PREPARE")') = Cardinality(Senders(p, "PREPARE")) + 1
             /\ Cardinality(Senders(p, "PREPARE")) \in Nat
             /\ \A x \in counted'[p] : /\ Genuine(x)' /\ x.from # p
                                       /\ digest[p] = {x.digest} /\ x.type # "COMMIT"
      <3>1. Fits(p, m, "PREPARE") /\ "PREPARE" \in Voting
        BY DEF OnPrepare, Voting
      <3>2. ASSUME peer_view[p] \in Undisturbed
            PROVE  /\ Cardinality(Senders(p, "PREPARE")') = Cardinality(Senders(p, "PREPARE")) + 1
                   /\ Cardinality(Senders(p, "PREPARE")) \in Nat
        <4>1. /\ Senders(p, "PREPARE")' = Senders(p, "PREPARE") \cup {m.from}
              /\ m.from \notin Senders(p, "PREPARE") /\ IsFiniteSet(Senders(p, "PREPARE"))
          BY <1>1, <3>1, <3>2, NewSender
        <4> QED BY <4>1, FS_AddElement, FS_CardinalityType
      <3>3. ASSUME peer_view[p] \in Undisturbed
            PROVE  \A x \in counted'[p] : /\ Genuine(x)' /\ x.from # p
                                          /\ digest[p] = {x.digest} /\ x.type # "COMMIT"
        BY <1>1, <2>0, <3>1, <3>3, Counted
      <3> QED BY <3>2, <3>3
    <2> SUFFICES ASSUME NEW q \in Honest, peer_view[q] \in Undisturbed
                 PROVE  /\ \A x \in counted'[q] :
                              /\ Genuine(x)' /\ x.from # q
                              /\ digest[q] = {x.digest}
                              /\ peer_phase'[q] \in Voting
                              /\ x.type = "COMMIT" => peer_phase'[q] # "PREPARE"
                        /\ prepare_queue'[q] <= Cardinality(Senders(q, "PREPARE")')
                        /\ commit_queue'[q] <= Cardinality(Senders(q, "COMMIT")')
      BY <1>2 DEF QueuesAreSets
    <2>2. CASE q = p
      <3>1. peer_phase'[p] \in Voting
        BY <1>1, <1>2 DEF PbftInv, PbftTypeOK, Voting
      <3>2. prepare_queue'[p] <= Cardinality(Senders(p, "PREPARE")')
        BY <1>1, <1>2, <2>a, <2>2 DEF PbftInv, PbftTypeOK, QueuesAreSets
      <3>3. commit_queue[p] \in Nat /\ commit_queue[p] <= Cardinality(Senders(p, "COMMIT"))
        BY <1>1, <2>2 DEF PbftInv, PbftTypeOK, QueuesAreSets
      <3>4. Cardinality(Senders(p, "COMMIT")) \in Nat
        <4>1. Senders(p, "COMMIT") \subseteq
                 (Voters("COMMIT", peer_view[p], m.digest) \ {p}) \cup Byzantine
          BY <1>1, <2>2, SendersVoted
        <4> QED BY <4>1, VotesBehind
      <3>5. commit_queue'[p] = commit_queue[p] \/ commit_queue'[p] = 0
        BY <1>2 DEF PbftInv, PbftTypeOK
      <3>6. commit_queue'[p] <= Cardinality(Senders(p, "COMMIT")')
        BY <2>1, <3>3, <3>4, <3>5
      <3> QED BY <2>a, <2>2, <3>1, <3>2, <3>6
    <2>3. CASE q # p
      <3>1. /\ counted'[q] = counted[q] /\ peer_phase'[q] = peer_phase[q]
            /\ prepare_queue'[q] = prepare_queue[q] /\ commit_queue'[q] = commit_queue[q]
            /\ Senders(q, "PREPARE")' = Senders(q, "PREPARE")
            /\ Senders(q, "COMMIT")' = Senders(q, "COMMIT")
        BY <1>2, <2>1, <2>3 DEF PbftInv, PbftTypeOK
      <3> QED BY <2>0, <3>1 DEF PbftInv, QueuesAreSets, Genuine
    <2> QED BY <2>2, <2>3
  <1>8. PastThreshold'
    <2> SUFFICES ASSUME NEW q \in Honest, peer_view[q] \in Undisturbed
                 PROVE  /\ peer_phase'[q] \in {"COMMIT", "FINISHED"} =>
                              /\ prepare_queue'[q] + 1 >= Threshold
                              /\ \A d \in digest[q] : Message("COMMIT", peer_view[q], d, q) \in sent'
                        /\ peer_phase'[q] \in Voting =>
                              \A d \in digest[q] : Message("PREPARE", peer_view[q], d, q) \in sent'
      BY <1>2 DEF PastThreshold, Threshold, ComputeF, N
    <2>1. CASE q = p
      <3>1. /\ peer_phase'[p] \in {"COMMIT", "FINISHED"} => Reached /\ mine \in sent'
            /\ \A d \in digest[p] : Message("PREPARE", peer_view[p], d, p) \in sent
        BY <1>1, <1>2, <2>1 DEF PbftInv, PastThreshold, PbftTypeOK, Voting
      <3>2. \A d \in digest[p] : Message("COMMIT", peer_view[p], d, p) = mine
        BY <1>1 DEF mine
      <3> QED BY <1>2, <2>1, <3>1, <3>2 DEF Reached
    <2>2. CASE q # p
      BY <1>1, <1>2, <2>2 DEF PbftInv, PastThreshold, PbftTypeOK
    <2> QED BY <2>1, <2>2
  <1>9. DecisionIsBacked'
    <2>1. sent \subseteq sent'
      BY <1>2
    <2> QED BY <1>2, <2>1, BackedKept DEF PbftInv, DecisionIsBacked
  <1>10. ProposersWait'
    BY <1>1, <1>2, <1>3 DEF PbftInv, ProposersWait, VotesAreOfVoters, PbftTypeOK
  <1>11. DecidersFinish'
    BY <1>1, <1>2 DEF PbftInv, DecidersFinish, PbftTypeOK
  <1>12. ProposerStaysBehind'
    <2>1. \A x \in sent : x.type = "PRE_PREPARE" /\ x.view \in Undisturbed /\ x.from = p
                              => x.view # peer_view[p]
      BY <1>1 DEF PbftInv, ProposersWait
    <2>2. \A x \in sent : x.type = "PRE_PREPARE" /\ x.view \in Undisturbed =>
             \A d \in Digests : Message("COMMIT", x.view, d, x.from) # mine
      BY <1>3, <2>1 DEF Message
    <2> QED BY <1>2, <1>3, <2>2 DEF PbftInv, ProposerStaysBehind, Voters
  <1> QED BY <1>4, <1>5, <1>6, <1>7, <1>8, <1>9, <1>10, <1>11, <1>12 DEF PbftInv

LEMMA KeepOnCommit ==
    ASSUME PbftInv, NEW p \in Honest, NEW m \in OnTheWay, OnCommit(p, m)
    PROVE  PbftInv'
  <1> DEFINE a == [node |-> p, view |-> peer_view[p], digest |-> m.digest]
             Reached == commit_queue'[p] >= Threshold
  <1>1. /\ m \in Messages /\ m.view = peer_view[p]
        /\ digest[p] = {m.digest} /\ peer_phase[p] = "COMMIT" /\ m.digest \in Digests
        /\ counted' \in [Honest -> SUBSET Messages]
        /\ \A q \in Honest : \A x \in counted'[q] : x.view = peer_view[q]
        /\ disturbed' \subseteq PeerViews /\ upsets' \in 0 .. MaxUpsets
        /\ \/ /\ NewVote(p, m, "COMMIT")
              /\ counted' = [counted EXCEPT ![p] = @ \cup {m}]
              /\ Undisturbed' = Undisturbed
           \/ counted' = counted /\ Undisturbed' = Undisturbed \ {peer_view[p]}
    BY Counting DEF OnCommit, Fits, PbftInv, PbftTypeOK, Messages
  <1>2. /\ commit_queue' = [commit_queue EXCEPT ![p] = @ + 1] /\ commit_queue'[p] = commit_queue[p] + 1
        /\ UNCHANGED <<peer_view, round, digest, prepare_queue, sent>>
        /\ \/ /\ Reached
              /\ peer_phase' = [peer_phase EXCEPT ![p] = "FINISHED"]
              /\ decided' = decided \cup {a}
           \/ UNCHANGED <<peer_phase, decided>>
    BY DEF OnCommit, PbftInv, PbftTypeOK
  <1>3. /\ a \in [node : Honest, view : PeerViews, digest : Digests]
        /\ a.node = p /\ a.view = peer_view[p] /\ a.digest = m.digest
    BY <1>1 DEF PbftInv, PbftTypeOK
  <1> HIDE DEF a, Reached
  <1>4. PbftTypeOK'
    <2>1. peer_phase' \in [Honest -> PeerPhases] /\ commit_queue' \in [Honest -> Nat]
      BY <1>2 DEF PbftInv, PbftTypeOK, PeerPhases
    <2>2. decided' \subseteq [node : Honest, view : PeerViews, digest : Digests]
      BY <1>2, <1>3 DEF PbftInv, PbftTypeOK
    <2>3. \A q \in Honest :
             /\ peer_phase'[q] # "IDLE" => \E d \in Digests : digest'[q] = {d}
             /\ \A x \in counted'[q] : x.view = peer_view'[q]
      BY <1>1, <1>2 DEF PbftInv, PbftTypeOK
    <2> QED BY <1>1, <1>2, <2>1, <2>2, <2>3 DEF PbftInv, PbftTypeOK
  <1>b. CASE counted' = counted /\ Undisturbed' = Undisturbed \ {peer_view[p]}
    <2>1. \A q \in Honest : q # p =>
             /\ digest'[q] = digest[q] /\ peer_phase'[q] = peer_phase[q]
             /\ prepare_queue'[q] = prepare_queue[q] /\ commit_queue'[q] = commit_queue[q]
      BY <1>2 DEF PbftInv, PbftTypeOK
    <2> QED BY <1>2, <1>3, <1>4, <1>b, <2>1, KeepDisturbed
  <1> SUFFICES ASSUME NewVote(p, m, "COMMIT"), Undisturbed' = Undisturbed,
                      counted' = [counted EXCEPT ![p] = @ \cup {m}]
               PROVE  PbftInv'
    BY <1>1, <1>b
  <1>5. VotesAreOfVoters'
    BY <1>1, <1>2 DEF PbftInv, VotesAreOfVoters, PbftTypeOK, Voting
  <1>6. OneDigestPerView'
    BY <1>1, <1>2 DEF PbftInv, OneDigestPerView
  <1>a. \A q \in Honest : \A s : q # p \/ s # "COMMIT" => Senders(q, s)' = Senders(q, s)
    BY OthersCounted DEF PbftInv, PbftTypeOK
  <1>c. peer_view[p] \in Undisturbed =>
           /\ Cardinality(Senders(p, "COMMIT")') = Cardinality(Senders(p, "COMMIT")) + 1
           /\ Cardinality(Senders(p, "COMMIT")) \in Nat
           /\ \A x \in counted'[p] : Genuine(x)' /\ x.from # p /\ digest[p] = {x.digest}
    <2>1. Fits(p, m, "COMMIT") /\ "COMMIT" \in Voting /\ sent \subseteq sent'
      BY <1>2 DEF OnCommit, Voting
    <2>2. ASSUME peer_view[p] \in Undisturbed
          PROVE  /\ Cardinality(Senders(p, "COMMIT")') = Cardinality(Senders(p, "COMMIT")) + 1
                 /\ Cardinality(Senders(p, "COMMIT")) \in Nat
      <3>1. /\ Senders(p, "COMMIT")' = Senders(p, "COMMIT") \cup {m.from}
            /\ m.from \notin Senders(p, "COMMIT") /\ IsFiniteSet(Senders(p, "COMMIT"))
        BY <1>1, <2>1, <2>2, NewSender
      <3> QED BY <3>1, FS_AddElement, FS_CardinalityType
    <2>3. ASSUME peer_view[p] \in Undisturbed
          PROVE  \A x \in counted'[p] : Genuine(x)' /\ x.from # p /\ digest[p] = {x.digest}
      BY <1>1, <2>1, <2>3, Counted
    <2> QED BY <2>2, <2>3
  <1>7. QueuesAreSets'
    <2> SUFFICES ASSUME NEW q \in Honest, peer_view[q] \in Undisturbed
                 PROVE  /\ \A x \in counted'[q] :
                              /\ Genuine(x)' /\ x.from # q
                              /\ digest[q] = {x.digest}
                              /\ peer_phase'[q] \in Voting
                              /\ x.type = "COMMIT" => peer_phase'[q] # "PREPARE"
                        /\ prepare_queue[q] <= Cardinality(Senders(q, "PREPARE")')
                        /\ commit_queue'[q] <= Cardinality(Senders(q, "COMMIT")')
      BY <1>2 DEF QueuesAreSets
    <2>2. CASE q = p
      <3>1. peer_phase'[p] \in Voting /\ peer_phase'[p] # "PREPARE"
        BY <1>1, <1>2 DEF PbftInv, PbftTypeOK, Voting
      <3>2. commit_queue'[p] <= Cardinality(Senders(p, "COMMIT")')
        BY <1>1, <1>2, <1>c, <2>2 DEF PbftInv, PbftTypeOK, QueuesAreSets
      <3>3. prepare_queue[p] <= Cardinality(Senders(p, "PREPARE")')
        BY <1>1, <1>a, <2>2 DEF PbftInv, QueuesAreSets
      <3> QED BY <1>c, <2>2, <3>1, <3>2, <3>3
    <2>3. CASE q # p
      <3>1. /\ counted'[q] = counted[q] /\ peer_phase'[q] = peer_phase[q]
            /\ commit_queue'[q] = commit_queue[q]
            /\ Senders(q, "PREPARE")' = Senders(q, "PREPARE")
            /\ Senders(q, "COMMIT")' = Senders(q, "COMMIT")
        BY <1>2, <1>a, <2>3 DEF PbftInv, PbftTypeOK
      <3> QED BY <1>2, <3>1 DEF PbftInv, QueuesAreSets, Genuine
    <2> QED BY <2>2, <2>3
  <1>8. PastThreshold'
    <2> SUFFICES ASSUME NEW q \in Honest, peer_view[q] \in Undisturbed
                 PROVE  /\ peer_phase'[q] \in {"COMMIT", "FINISHED"} =>
                              /\ prepare_queue[q] + 1 >= Threshold
                              /\ \A d \in digest[q] : Message("COMMIT", peer_view[q], d, q) \in sent
                        /\ peer_phase'[q] \in Voting =>
                              \A d \in digest[q] : Message("PREPARE", peer_view[q], d, q) \in sent
      BY <1>2 DEF PastThreshold, Threshold, ComputeF, N
    <2>1. CASE q = p
      BY <1>1, <1>2, <2>1 DEF PbftInv, PastThreshold, PbftTypeOK, Voting
    <2>2. CASE q # p
      BY <1>1, <1>2, <2>2 DEF PbftInv, PastThreshold, PbftTypeOK
    <2> QED BY <2>1, <2>2
  <1>9. DecisionIsBacked'
    <2>0. \A v, d : Voters("COMMIT", v, d)' = Voters("COMMIT", v, d)
      BY <1>2 DEF Voters
    <2> SUFFICES ASSUME NEW b \in decided', b.view \in Undisturbed
                 PROVE  Backed(b)'
      BY DEF DecisionIsBacked
    <2>1. CASE b \in decided
      BY <1>2, <2>1, BackedKept DEF PbftInv, DecisionIsBacked
    <2>2. CASE b = a /\ Reached
      <3>1. /\ peer_view[p] \in Undisturbed
            /\ b.node = p /\ b.view = peer_view[p] /\ b.digest = m.digest
        BY <1>1, <1>3, <2>2
      <3>2. Senders(p, "COMMIT")' \subseteq (Voters("COMMIT", peer_view[p], m.digest) \ {p}) \cup Byzantine
        <4>1. Senders(p, "COMMIT")' \subseteq Senders(p, "COMMIT") \cup {m.from}
          BY DEF Senders, PbftInv, PbftTypeOK
        <4>2. Senders(p, "COMMIT") \subseteq (Voters("COMMIT", peer_view[p], m.digest) \ {p}) \cup Byzantine
          BY <1>1, <3>1, SendersVoted
        <4>3. m.from \in (Voters("COMMIT", peer_view[p], m.digest) \ {p}) \cup Byzantine
          BY <1>1, SenderVoted DEF NewVote
        <4> QED BY <4>1, <4>2, <4>3
      <3>3. /\ Cardinality(Senders(p, "COMMIT")') \in Nat
            /\ Cardinality(Voters("COMMIT", peer_view[p], m.digest) \ {p}) \in Nat
            /\ Cardinality(Senders(p, "COMMIT")') <=
                  Cardinality(Voters("COMMIT", peer_view[p], m.digest) \ {p}) + Cardinality(Byzantine)
        BY <3>2, VotesBehind
      <3>4. commit_queue'[p] \in Nat /\ commit_queue'[p] <= Cardinality(Senders(p, "COMMIT")')
        BY <1>4, <1>7, <1>2, <3>1 DEF PbftTypeOK, QueuesAreSets
      <3>5. Cardinality(Voters("COMMIT", peer_view[p], m.digest) \ {p}) + Cardinality(Byzantine) >= Threshold
        BY <2>2, <3>3, <3>4, Numbers DEF Reached
      <3>6. p \in Voters("COMMIT", peer_view[p], m.digest)
        BY <1>1, <3>1 DEF PbftInv, PastThreshold, Voters
      <3> QED BY <2>0, <3>1, <3>5, <3>6 DEF Backed, Threshold, ComputeF, N
    <2> QED BY <1>2, <2>1, <2>2
  <1>10. ProposersWait'
    BY <1>1, <1>2 DEF PbftInv, ProposersWait, VotesAreOfVoters, PbftTypeOK
  <1>11. DecidersFinish'
    BY <1>1, <1>2, <1>3 DEF PbftInv, DecidersFinish, PbftTypeOK, PeerViews
  <1>12. ProposerStaysBehind'
    <2>1. \A x \in sent : x.type = "PRE_PREPARE" /\ x.view \in Undisturbed /\ x.from = p
                              => x.view # peer_view[p]
      BY <1>1 DEF PbftInv, ProposersWait
    <2> QED BY <1>2, <1>3, <2>1 DEF PbftInv, ProposerStaysBehind, Voters
  <1> QED BY <1>4, <1>5, <1>6, <1>7, <1>8, <1>9, <1>10, <1>11, <1>12 DEF PbftInv

LEMMA KeepAdvanceRound ==
    ASSUME PbftInv, NEW p \in Honest, AdvanceRound(p)
    PROVE  PbftInv'
  <1>1. {peer_view[p]} \in SUBSET PeerViews
    BY DEF PbftInv, PbftTypeOK
  <1>2. /\ disturbed' \subseteq PeerViews /\ upsets' \in 0 .. MaxUpsets
        /\ Undisturbed' = Undisturbed \ {peer_view[p]}
    BY <1>1, UpsetType DEF PbftInv, AdvanceRound
  <1>3. round[p] + 1 \in Rounds
    BY PbftBoundsAssumption DEF AdvanceRound, PbftInv, PbftTypeOK, Rounds
  <1>4. PbftTypeOK'
    BY <1>2, <1>3 DEF AdvanceRound, Restarted, PbftInv, PbftTypeOK, PeerPhases
  <1>5. /\ UNCHANGED <<peer_view, counted, sent, decided>>
        /\ \A q \in Honest : q # p =>
              /\ digest'[q] = digest[q] /\ peer_phase'[q] = peer_phase[q]
              /\ prepare_queue'[q] = prepare_queue[q] /\ commit_queue'[q] = commit_queue[q]
    BY DEF AdvanceRound, Restarted, PbftInv, PbftTypeOK
  <1> QED BY <1>2, <1>4, <1>5, KeepDisturbed

LEMMA KeepReset ==
    ASSUME PbftInv, NEW p \in Honest, NEW v \in PeerViews, Reset(p, v)
    PROVE  PbftInv'
  <1>0. 0 \in Rounds
    BY PbftBoundsAssumption DEF Rounds
  <1>1. CASE v = peer_view[p]
    <2>1. {v} \in SUBSET PeerViews /\ Upset({v}) /\ UNCHANGED <<peer_view, counted>>
      BY <1>1 DEF Reset, PbftInv, PbftTypeOK
    <2>2. /\ disturbed' \subseteq PeerViews /\ upsets' \in 0 .. MaxUpsets
          /\ Undisturbed' = Undisturbed \ {peer_view[p]}
      BY <1>1, <2>1, UpsetType DEF PbftInv
    <2>3. PbftTypeOK'
      BY <1>0, <2>1, <2>2 DEF Reset, Restarted, PbftInv, PbftTypeOK, PeerPhases
    <2>4. /\ UNCHANGED <<sent, decided>>
          /\ \A q \in Honest : q # p =>
                /\ digest'[q] = digest[q] /\ peer_phase'[q] = peer_phase[q]
                /\ prepare_queue'[q] = prepare_queue[q] /\ commit_queue'[q] = commit_queue[q]
      BY DEF Reset, Restarted, PbftInv, PbftTypeOK
    <2> QED BY <2>1, <2>2, <2>3, <2>4, KeepDisturbed
  <1>2. CASE v # peer_view[p]
    <2>1. /\ v = peer_view[p] + 1 /\ Upset({}) /\ {} \in SUBSET PeerViews
          /\ counted' = [counted EXCEPT ![p] = {}]
          /\ peer_view' = [peer_view EXCEPT ![p] = v]
          /\ digest' = [digest EXCEPT ![p] = {}]
          /\ peer_phase' = [peer_phase EXCEPT ![p] = "IDLE"]
          /\ prepare_queue' = [prepare_queue EXCEPT ![p] = 0]
          /\ commit_queue' = [commit_queue EXCEPT ![p] = 0]
          /\ round' = [round EXCEPT ![p] = 0]
          /\ UNCHANGED <<sent, decided>>
      BY <1>2 DEF Reset, Restarted
    <2>2. /\ disturbed' \subseteq PeerViews /\ upsets' \in 0 .. MaxUpsets
          /\ Undisturbed' = Undisturbed
      BY <2>1, UpsetType DEF PbftInv
    <2>3. PbftTypeOK'
      BY <1>0, <2>1, <2>2 DEF PbftInv, PbftTypeOK, PeerPhases
    <2>4. \A q \in Honest : q # p =>
             /\ peer_view'[q] = peer_view[q] /\ digest'[q] = digest[q] /\ peer_phase'[q] = peer_phase[q]
             /\ prepare_queue'[q] = prepare_queue[q] /\ commit_queue'[q] = commit_queue[q]
             /\ counted'[q] = counted[q]
             /\ Senders(q, "PREPARE")' = Senders(q, "PREPARE")
             /\ Senders(q, "COMMIT")' = Senders(q, "COMMIT")
      BY <2>1 DEF PbftInv, PbftTypeOK, Senders
    <2>5. /\ peer_view'[p] = v /\ peer_view[p] \in Nat /\ peer_phase'[p] = "IDLE" /\ counted'[p] = {}
          /\ prepare_queue'[p] = 0 /\ commit_queue'[p] = 0
          /\ Senders(p, "PREPARE")' = {} /\ Senders(p, "COMMIT")' = {}
      BY <2>1 DEF PbftInv, PbftTypeOK, Senders, PeerViews
    <2>6. VotesAreOfVoters'
      BY <2>1, <2>2, <2>4, <2>5 DEF PbftInv, VotesAreOfVoters, PbftTypeOK, Messages, PeerViews
    <2>7. OneDigestPerView'
      BY <2>1, <2>2 DEF PbftInv, OneDigestPerView
    <2>8. QueuesAreSets'
      <3> SUFFICES ASSUME NEW q \in Honest, peer_view'[q] \in Undisturbed'
                   PROVE  /\ \A x \in counted'[q] :
                                /\ Genuine(x)' /\ x.from # q
                                /\ digest'[q] = {x.digest}
                                /\ peer_phase'[q] \in Voting
                                /\ x.type = "COMMIT" => peer_phase'[q] # "PREPARE"
                          /\ prepare_queue'[q] <= Cardinality(Senders(q, "PREPARE")')
                          /\ commit_queue'[q] <= Cardinality(Senders(q, "COMMIT")')
        BY <2>1 DEF QueuesAreSets
      <3>0. 0 <= Cardinality({})
        BY FS_EmptySet
      <3>1. CASE q = p
        <4>1. /\ prepare_queue'[p] <= Cardinality(Senders(p, "PREPARE")')
              /\ commit_queue'[p] <= Cardinality(Senders(p, "COMMIT")')
          BY <2>5, <3>0
        <4> QED BY <2>5, <3>1, <4>1
      <3>2. CASE q # p
        BY <2>1, <2>2, <2>4, <3>2 DEF PbftInv, QueuesAreSets, Genuine
      <3> QED BY <3>1, <3>2
    <2>9. PastThreshold'
      BY <2>1, <2>2, <2>4, <2>5 DEF PbftInv, PastThreshold, Voting
    <2>10. DecisionIsBacked'
      BY <2>1, <2>2, BackedKept DEF PbftInv, DecisionIsBacked
    <2>11. ProposersWait'
      BY <2>1, <2>2, <2>4, <2>5 DEF PbftInv, VotesAreOfVoters, ProposersWait, PeerViews, PbftTypeOK, Messages
    <2>12. DecidersFinish'
      BY <2>1, <2>2, <2>4, <2>5 DEF PbftInv, PbftTypeOK, DecidersFinish, PeerViews
    <2>13. ProposerStaysBehind'
      BY <2>1, <2>2 DEF PbftInv, ProposerStaysBehind, Voters
    <2> QED BY <2>3, <2>6, <2>7, <2>8, <2>9, <2>10, <2>11, <2>12, <2>13 DEF PbftInv
  <1> QED BY <1>1, <1>2

LEMMA PbftNextInv == PbftInv /\ [PbftNext]_pbftVars => PbftInv'
  <1> SUFFICES ASSUME PbftInv, [PbftNext]_pbftVars PROVE PbftInv'
    OBVIOUS
  <1>1. CASE UNCHANGED pbftVars
    <2> USE <1>1 DEF pbftVars
    <2>1. PbftTypeOK' /\ Undisturbed' = Undisturbed
      BY DEF PbftInv, PbftTypeOK, Undisturbed
    <2>2. VotesAreOfVoters' /\ OneDigestPerView' /\ PastThreshold'
      BY <2>1 DEF PbftInv, VotesAreOfVoters, OneDigestPerView, PastThreshold
    <2>3. \A q, s : Senders(q, s)' = Senders(q, s)
      BY DEF Senders
    <2>4. QueuesAreSets'
      BY <2>1, <2>3 DEF PbftInv, QueuesAreSets, Genuine
    <2>5. DecisionIsBacked'
      BY <2>1, BackedKept DEF PbftInv, DecisionIsBacked
    <2>6. ProposersWait' /\ DecidersFinish' /\ ProposerStaysBehind'
      BY <2>1 DEF PbftInv, ProposersWait, DecidersFinish, ProposerStaysBehind, Voters
    <2> QED BY <2>1, <2>2, <2>4, <2>5, <2>6 DEF PbftInv
  <1>2. CASE PbftNext
    BY <1>2, KeepSendPrePrepare, KeepOnPrePrepare, KeepOnPrepare, KeepOnCommit,
       KeepAdvanceRound, KeepReset DEF PbftNext
  <1> QED BY <1>1, <1>2

LEMMA PbftInvariance == PbftSpec => []PbftInv
  BY PbftInitInv, PbftNextInv, PTL DEF PbftSpec

-----------------------------------------------------------------------------
(* The engines of pbft_consensus.py keep to their types.                     *)
THEOREM PbftTypeCorrect == PbftSpec => []PbftTypeOK
  <1>1. PbftInv => PbftTypeOK
    BY DEF PbftInv
  <1> QED BY <1>1, PbftInvariance, PTL

(* DecisionIsBacked of every instance: on_commit reports consensus only when *)
(* enough correct nodes besides its own are committed to the digest.         *)
THEOREM DecisionIsBackedHolds == PbftSpec => []DecisionIsBacked
  <1>1. PbftInv => DecisionIsBacked
    BY DEF PbftInv
  <1> QED BY <1>1, PbftInvariance, PTL

(* ProposerStaysBehind of every instance: the phase send_pre_prepare leaves  *)
(* a node in admits neither on_prepare nor on_commit.                        *)
THEOREM ProposerStaysBehindHolds == PbftSpec => []ProposerStaysBehind
  <1>1. PbftInv => ProposerStaysBehind
    BY DEF PbftInv
  <1> QED BY <1>1, PbftInvariance, PTL

(* CommitIsPrepared of every instance: the queue of on_prepare, being a set  *)
(* of senders while the view is undisturbed, bounds the voters behind it.    *)
THEOREM CommitIsPreparedHolds == PbftSpec => []CommitIsPrepared
  <1>1. PbftInv => CommitIsPrepared
    <2> SUFFICES ASSUME PbftInv, NEW p \in Honest, peer_phase[p] \in {"COMMIT", "FINISHED"},
                        peer_view[p] \in Undisturbed, NEW d \in digest[p]
                 PROVE  /\ p \in Voters("PREPARE", peer_view[p], d)
                        /\ Cardinality(Voters("PREPARE", peer_view[p], d)) + Cardinality(Byzantine)
                               >= Threshold
      BY DEF CommitIsPrepared
    <2> DEFINE others == Voters("PREPARE", peer_view[p], d) \ {p}
    <2>1. digest[p] = {d}
      BY DEF PbftInv, PbftTypeOK
    <2>2. p \in Voters("PREPARE", peer_view[p], d)
      BY DEF PbftInv, PastThreshold, Voting, Voters
    <2>3. /\ prepare_queue[p] \in Nat /\ prepare_queue[p] + 1 >= Threshold
          /\ prepare_queue[p] <= Cardinality(Senders(p, "PREPARE"))
      BY DEF PbftInv, PbftTypeOK, PastThreshold, QueuesAreSets
    <2>4. Senders(p, "PREPARE") \subseteq others \cup Byzantine
      BY <2>1, SendersVoted
    <2>5. /\ Cardinality(Senders(p, "PREPARE")) \in Nat /\ Cardinality(others) \in Nat
          /\ Cardinality(Senders(p, "PREPARE")) <= Cardinality(others) + Cardinality(Byzantine)
      BY <2>4, VotesBehind
    <2>6. Cardinality(Voters("PREPARE", peer_view[p], d)) = Cardinality(others) + 1
      <3>1. IsFiniteSet(others) /\ p \notin others
        BY Numbers, FS_Subset DEF Voters
      <3>2. Voters("PREPARE", peer_view[p], d) = others \cup {p}
        BY <2>2
      <3> HIDE DEF others
      <3> QED BY <3>1, <3>2, FS_AddElement
    <2> QED BY <2>2, <2>3, <2>5, <2>6, Numbers
  <1> QED BY <1>1, PbftInvariance, PTL

(* Agreement of every instance: the voters behind two decisions of one view  *)
(* meet in a correct node, and that node votes for one digest.               *)
THEOREM AgreementHolds == PbftSpec => []Agreement
  <1>1. PbftInv => Agreement
    <2> SUFFICES ASSUME PbftInv, NEW a \in decided, NEW b \in decided,
                        a.view = b.view, a.view \in Undisturbed
                 PROVE  a.digest = b.digest
      BY DEF Agreement
    <2> DEFINE S == Voters("COMMIT", a.view, a.digest)
               T == Voters("COMMIT", b.view, b.digest)
    <2>1. \A c \in decided : c.view \in Undisturbed =>
             LET U == Voters("COMMIT", c.view, c.digest)
             IN  Cardinality(U) + Cardinality(Byzantine) >= Threshold + 1
      <3> SUFFICES ASSUME NEW c \in decided, c.view \in Undisturbed
                   PROVE  Cardinality(Voters("COMMIT", c.view, c.digest)) + Cardinality(Byzantine)
                              >= Threshold + 1
        OBVIOUS
      <3> DEFINE U == Voters("COMMIT", c.view, c.digest)
                 others == U \ {c.node}
      <3>1. c.node \in U /\ Cardinality(others) + Cardinality(Byzantine) >= Threshold
        BY DEF PbftInv, DecisionIsBacked, Backed
      <3>2. IsFiniteSet(others) /\ Cardinality(others) \in Nat
        BY Numbers, FS_Subset, FS_CardinalityType DEF Voters
      <3>3. U = others \cup {c.node} /\ c.node \notin others
        BY <3>1
      <3> HIDE DEF U, others
      <3>4. Cardinality(U) = Cardinality(others) + 1
        BY <3>2, <3>3, FS_AddElement
      <3>5. Cardinality(U) + Cardinality(Byzantine) >= Threshold + 1
        BY <3>1, <3>2, <3>4, Numbers
      <3> QED BY <3>5 DEF U
    <2>2. S \in SUBSET Honest /\ T \in SUBSET Honest
      BY DEF Voters
    <2>3. S \cap T # {}
      <3>1. /\ Cardinality(S) + Cardinality(Byzantine) >= Threshold + 1
            /\ Cardinality(T) + Cardinality(Byzantine) >= Threshold + 1
        BY <2>1
      <3> HIDE DEF S, T
      <3> QED BY <2>2, <3>1, QuorumsMeet
    <2>4. PICK q \in Honest : /\ Message("COMMIT", a.view, a.digest, q) \in sent
                               /\ Message("COMMIT", b.view, b.digest, q) \in sent
      BY <2>3 DEF Voters
    <2> QED BY <2>4 DEF PbftInv, OneDigestPerView, Message, VoteTypes
  <1> QED BY <1>1, PbftInvariance, PTL
=============================================================================
