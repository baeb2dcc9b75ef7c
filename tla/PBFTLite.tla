------------------------------ MODULE PBFTLite ------------------------------
(***************************************************************************)
(* federation/byzantine/pbft_consensus.py: the PBFT-lite engines of the    *)
(* nodes of a federation, each a state machine fed with messages.          *)
(*                                                                         *)
(* Messages stay in the set sent and may reach a node late, out of order,  *)
(* never, or again, through any of the methods.  A message that an engine  *)
(* refuses leaves it unchanged.  No method verifies a signature, compares  *)
(* sender_id with anything, or looks at the phase a message carries: what  *)
(* counts is its view and its digest.  So a faulty node may send anything  *)
(* under any name, different things to different nodes, and whatever it    *)
(* could send is always on the way.                                        *)
(*                                                                         *)
(* What the engines promise one another therefore depends on the votes     *)
(* they count.  A view is disturbed when some engine in it has counted a   *)
(* message that is not a new vote, for that queue, of another node that    *)
(* sent it; or when a round is restarted, since no engine compares the     *)
(* round number of a message and the votes of a restarted round pass for   *)
(* those of the next.                                                      *)
(*                                                                         *)
(* Engines propose with round 0 only, so messages carry no round here.  (A *)
(* faulty proposer may name a later round; that only keeps its hearers     *)
(* from advance_round.)                                                    *)
(***************************************************************************)
EXTENDS Naturals, FiniteSets

CONSTANTS
    Peers,          \* n_nodes engines
    Byzantine,      \* the nodes that need not follow the protocol
    Digests,        \* hashes of proposed values
    MaxRounds,      \* max_rounds
    MaxView,        \* bound: the last view a node moves to
    MaxUpsets       \* bound: nodes that change view, and disturbances of a
                    \* view, of which one at most

N == Cardinality(Peers)

\* QuorumCalculator.compute_f.
ComputeF == IF N < 3 THEN 0 ELSE (N - 1) \div 3

ASSUME PeersAssumption == IsFiniteSet(Peers) /\ Byzantine \subseteq Peers
ASSUME FaultsAssumption == Cardinality(Byzantine) <= ComputeF
ASSUME PbftBoundsAssumption ==
    MaxRounds \in Nat \ {0} /\ MaxView \in Nat /\ MaxUpsets \in Nat

Honest == Peers \ Byzantine
PeerViews == 0 .. MaxView
Rounds == 0 .. MaxRounds - 1

\* Mutant: a slip of sign.
ThresholdSlip == 2 * ComputeF - 1

Threshold == 2 * ComputeF + 1

Types == {"PRE_PREPARE", "PREPARE", "COMMIT"}
Messages == [type : Types, view : PeerViews, digest : Digests, from : Peers]
Message(type, v, d, p) == [type |-> type, view |-> v, digest |-> d, from |-> p]

VARIABLES
    peer_phase, peer_view, round, digest, \* _phase, _view, _round, _current_digest
    prepare_queue,  \* the length of _prepare_queue
    commit_queue,   \* the length of _commit_queue
    sent,       \* what the correct nodes have sent
    counted,    \* history: the new votes of its view that each engine queued
    decided,    \* history: what each engine reported as reached, per view
    disturbed,  \* history: the disturbed views
    upsets      \* history: changes of view and disturbances so far

pbftVars == <<peer_phase, peer_view, round, digest, prepare_queue, commit_queue,
              sent, counted, decided, disturbed, upsets>>

PeerPhases == {"IDLE", "PRE_PREPARE", "PREPARE", "COMMIT", "FINISHED"}

PbftTypeOK ==
    /\ peer_phase \in [Honest -> PeerPhases]
    /\ peer_view \in [Honest -> PeerViews]
    /\ round \in [Honest -> Rounds]
    /\ digest \in [Honest -> SUBSET Digests]   \* None is the empty set
    /\ prepare_queue \in [Honest -> Nat]
    /\ commit_queue \in [Honest -> Nat]
    /\ sent \subseteq Messages
    /\ counted \in [Honest -> SUBSET Messages]
    /\ decided \subseteq [node : Honest, view : PeerViews, digest : Digests]
    /\ disturbed \subseteq PeerViews
    /\ upsets \in 0 .. MaxUpsets
    /\ \A p \in Honest :
          /\ peer_phase[p] # "IDLE" => \E d \in Digests : digest[p] = {d}
          /\ \A m \in counted[p] : m.view = peer_view[p]

PbftInit ==
    /\ peer_phase = [p \in Honest |-> "IDLE"]
    /\ peer_view = [p \in Honest |-> 0]
    /\ round = [p \in Honest |-> 0]
    /\ digest = [p \in Honest |-> {}]
    /\ prepare_queue = [p \in Honest |-> 0]
    /\ commit_queue = [p \in Honest |-> 0]
    /\ sent = {}
    /\ counted = [p \in Honest |-> {}]
    /\ decided = {}
    /\ disturbed = {}
    /\ upsets = 0

\* What may reach a node: the faulty nodes' part is never written down.
Forged == IF Byzantine = {} THEN {} ELSE Messages
OnTheWay == sent \cup Forged

-----------------------------------------------------------------------------
\* The phase of a node that has proposed.
ProposerPhase == "PRE_PREPARE"

(* send_pre_prepare: any idle node may propose, and always as round 0.      *)
SendPrePrepare(p, d) ==
    /\ peer_phase[p] = "IDLE"
    /\ peer_phase' = [peer_phase EXCEPT ![p] = ProposerPhase]
    /\ digest' = [digest EXCEPT ![p] = {d}]
    /\ round' = [round EXCEPT ![p] = 0]
    /\ sent' = sent \cup {Message("PRE_PREPARE", peer_view[p], d, p)}
    /\ UNCHANGED <<peer_view, prepare_queue, commit_queue, counted, decided, disturbed,
                   upsets>>

(* on_pre_prepare: the first message of the view that finds the node idle.  *)
OnPrePrepare(p, m) ==
    /\ peer_phase[p] = "IDLE"
    /\ m.view = peer_view[p]
    /\ peer_phase' = [peer_phase EXCEPT ![p] = "PREPARE"]
    /\ digest' = [digest EXCEPT ![p] = {m.digest}]
    /\ round' = [round EXCEPT ![p] = 0]
    /\ prepare_queue' = [prepare_queue EXCEPT ![p] = 0]
    /\ sent' = sent \cup {Message("PREPARE", peer_view[p], m.digest, p)}
    /\ UNCHANGED <<peer_view, commit_queue, counted, decided, disturbed, upsets>>

\* Mutant: votes of other views are taken too.
FitsAnyView(p, m, in) == peer_phase[p] = in /\ digest[p] = {m.digest}

\* Mutant: votes for other digests are taken too.
FitsAnyDigest(p, m, in) == peer_phase[p] = in /\ m.view = peer_view[p]

\* The checks of on_prepare and on_commit.
Fits(p, m, in) ==
    /\ peer_phase[p] = in
    /\ m.view = peer_view[p]
    /\ digest[p] = {m.digest}

Upset(views) ==
    /\ upsets < MaxUpsets
    /\ views = {} \/ disturbed = {}
    /\ upsets' = upsets + 1
    /\ disturbed' = disturbed \cup views

\* Whether it is from the node it names.
Genuine(m) == m.from \in Byzantine \/ m \in sent

\* A vote for this queue of another node, which sent it, not queued before.
NewVote(p, m, type) ==
    m.type = type /\ m.from # p /\ Genuine(m) /\ m \notin counted[p]

\* A message enters a queue, whatever it is.
Count(p, m, type) ==
    IF NewVote(p, m, type)
    THEN counted' = [counted EXCEPT ![p] = @ \cup {m}] /\ UNCHANGED <<disturbed, upsets>>
    ELSE Upset({m.view}) /\ UNCHANGED counted

(* on_prepare: the queue plus the node itself reach the threshold, or not.  *)
OnPrepare(p, m) ==
    /\ Fits(p, m, "PREPARE")
    /\ Count(p, m, "PREPARE")
    /\ prepare_queue' = [prepare_queue EXCEPT ![p] = @ + 1]
    /\ IF prepare_queue'[p] + 1 >= Threshold
       THEN /\ peer_phase' = [peer_phase EXCEPT ![p] = "COMMIT"]
            /\ commit_queue' = [commit_queue EXCEPT ![p] = 0]
            /\ sent' = sent \cup {Message("COMMIT", peer_view[p], m.digest, p)}
       ELSE UNCHANGED <<peer_phase, commit_queue, sent>>
    /\ UNCHANGED <<peer_view, round, digest, decided>>

(* on_commit: 2f + 1 queued COMMITs; the node's own does not count.         *)
OnCommit(p, m) ==
    /\ Fits(p, m, "COMMIT")
    /\ Count(p, m, "COMMIT")
    /\ commit_queue' = [commit_queue EXCEPT ![p] = @ + 1]
    /\ IF commit_queue'[p] >= Threshold
       THEN /\ peer_phase' = [peer_phase EXCEPT ![p] = "FINISHED"]
            /\ decided' = decided \cup
                   {[node |-> p, view |-> peer_view[p], digest |-> m.digest]}
       ELSE UNCHANGED <<peer_phase, decided>>
    /\ UNCHANGED <<peer_view, round, digest, prepare_queue, sent>>

-----------------------------------------------------------------------------
Restarted(p) ==
    /\ peer_phase' = [peer_phase EXCEPT ![p] = "IDLE"]
    /\ prepare_queue' = [prepare_queue EXCEPT ![p] = 0]
    /\ commit_queue' = [commit_queue EXCEPT ![p] = 0]
    /\ UNCHANGED <<sent, decided>>

(* advance_round: "manual round advance (for stalled consensus)", from any  *)
(* phase; the view, and with it every vote on the way, stays good.          *)
AdvanceRound(p) ==
    /\ round[p] + 1 < MaxRounds
    /\ round' = [round EXCEPT ![p] = @ + 1]
    /\ Restarted(p)
    /\ Upset({peer_view[p]})
    /\ UNCHANGED <<peer_view, digest, counted>>

(* reset, and the next view when the application sets one; each node moves  *)
(* on its own account.                                                      *)
Reset(p, v) ==
    /\ v \in {peer_view[p], peer_view[p] + 1} \cap PeerViews
    /\ peer_phase[p] # "IDLE" \/ v # peer_view[p]
    /\ Restarted(p)
    /\ round' = [round EXCEPT ![p] = 0]
    /\ digest' = [digest EXCEPT ![p] = {}]
    /\ peer_view' = [peer_view EXCEPT ![p] = v]
    /\ IF v = peer_view[p]
       THEN Upset({v}) /\ UNCHANGED counted
       ELSE Upset({}) /\ counted' = [counted EXCEPT ![p] = {}]

PbftNext ==
    \E p \in Honest :
        \/ \E d \in Digests : SendPrePrepare(p, d)
        \/ \E m \in OnTheWay : OnPrePrepare(p, m) \/ OnPrepare(p, m) \/ OnCommit(p, m)
        \/ AdvanceRound(p)
        \/ \E v \in PeerViews : Reset(p, v)

PbftSpec == PbftInit /\ [][PbftNext]_pbftVars

-----------------------------------------------------------------------------
Undisturbed == PeerViews \ disturbed

\* The correct nodes that voted so for digest d in view v.
Voters(type, v, d) == {p \in Honest : Message(type, v, d, p) \in sent}

(* Two engines that report consensus in the same undisturbed view report    *)
(* the same digest, for any number n of nodes, whatever the (n - 1) div 3   *)
(* faulty ones send under their own names and whatever is delayed, lost or  *)
(* given to the wrong method elsewhere.  (In a disturbed view it is false.) *)
Agreement ==
    \A a, b \in decided :
        a.view = b.view /\ a.view \in Undisturbed => a.digest = b.digest

(* A prepare certificate stands on votes: an engine past PREPARE was voted  *)
(* for by enough correct nodes, itself among them, that with all the faulty *)
(* ones they make a quorum.                                                 *)
CommitIsPrepared ==
    \A p \in Honest :
        peer_phase[p] \in {"COMMIT", "FINISHED"} /\ peer_view[p] \in Undisturbed =>
            \A d \in digest[p] :
                /\ p \in Voters("PREPARE", peer_view[p], d)
                /\ Cardinality(Voters("PREPARE", peer_view[p], d)) + Cardinality(Byzantine)
                       >= Threshold

Backed(a) ==
    LET voters == Voters("COMMIT", a.view, a.digest)
    IN  /\ a.node \in voters
        /\ Cardinality(voters \ {a.node}) + Cardinality(Byzantine) >= Threshold

(* A decision outlives its round: the node that decided is committed to it, *)
(* and f + 1 correct nodes besides, so every later quorum of the view meets *)
(* one of them; also where n is 3f + 2 or 3f + 3, because on_commit does    *)
(* not count the engine's own vote.                                         *)
DecisionIsBacked == \A a \in decided : a.view \in Undisturbed => Backed(a)

(* The node that proposed stays behind: it leaves PRE_PREPARE only by a     *)
(* restart, so it neither votes nor decides in the view of its proposal,    *)
(* and the others have to reach their quorums without it.                   *)
ProposerStaysBehind ==
    \A m \in sent : m.type = "PRE_PREPARE" /\ m.view \in Undisturbed =>
        /\ \A a \in decided : a.node = m.from => a.view # m.view
        /\ \A d \in Digests : m.from \notin Voters("COMMIT", m.view, d)
=============================================================================
