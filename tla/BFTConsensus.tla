---------------------------- MODULE BFTConsensus ----------------------------
(***************************************************************************)
(* The BFTConsensus engine of one node (core/federation/bft_consensus.py), *)
(* with the SlashingEngine that its double-sign history feeds.             *)
(*                                                                         *)
(* Each method holds the engine's lock from beginning to end, so a call is *)
(* one action.  Votes reach it delayed, reordered, duplicated or not at    *)
(* all.  Of a vote the methods look at the name in it, at its view and at  *)
(* its number; at no signature, at no list of members, and at its phase    *)
(* only once it is stored, to recognise a second vote of the same name.    *)
(* So while there are faulty nodes anything may come in anybody's name,    *)
(* and as often as they like.                                              *)
(*                                                                         *)
(* Here a vote is either the node that sent it, for the vote of that node  *)
(* in the phase of the method it is given to, or a stray: any other.       *)
(*                                                                         *)
(* Left out: signatures; the order of the votes in a list, so that a list  *)
(* is the set of its votes and the number of times that the engine's own   *)
(* vote is in it again; who is primary, but for whether this engine is;    *)
(* whether a vote says COMMIT or ABORT, which no method reads; and the     *)
(* PRE-PREPARE, since no public method takes one.                          *)
(***************************************************************************)
EXTENDS Naturals, Sequences, FiniteSets, Slashing

CONSTANTS
    Self,       \* the engine's node
    F,          \* nodes that may be faulty
    Faulty,     \* those that are
    Requests,
    Names,      \* what may stand in a vote as its sender
    Strays,     \* bound: votes that are not what the sender they name has sent
                \* in the phase of the method, told apart by a number
    MaxStrays,  \* bound: those of them that are stored for one request
    Views,      \* bound: views that are initialised
    Sequences,  \* bound: the numbers that votes carry
    MaxRepeats  \* bound: how often the engine's own vote is appended again

ASSUME NodesAssumption ==
    /\ IsFiniteSet(Nodes) /\ F \in Nat /\ Cardinality(Nodes) >= 3 * F + 1
    /\ Self \in Nodes
    /\ Faulty \subseteq Nodes \ {Self} /\ Cardinality(Faulty) <= F
ASSUME StraysAssumption ==
    /\ Nodes \subseteq Names /\ IsFiniteSet(Strays) /\ Strays \cap Nodes = {}
    /\ Strays \subseteq [name : Names, fits : BOOLEAN, copy : Nat]
    /\ Faulty = {} => Strays = {}
    /\ MaxStrays \in Nat
ASSUME ViewsAssumption == 0 \in Views
ASSUME RepeatsBound == MaxRepeats \in Nat

VARIABLES
    view,       \* _current_view
    leads,      \* is_primary
    stuck,      \* a method waits for the lock that its own caller holds
    phase,      \* of each request; UNKNOWN while there is no RequestState
    prepares,   \* prepare_votes
    commits,    \* commit_votes
    repeats,    \* how often the engine's own vote is in there again
    pcert,      \* prepared_certificate: its votes, none while there is none
    ccert,      \* commit_certificate: likewise
    signed,     \* _double_sign_history
    slashed,    \* _slashed of the engine
    returned    \* history: the certificates that finalize_commit has returned

bftVars == <<view, leads, stuck, phase, prepares, commits, repeats, pcert, ccert,
             signed, slashed, returned, banned, records>>

\* Mutant: a quorum of f + 1.
WeakQuorum == F + 1

Quorum == 2 * F + 1
Correct == Nodes \ Faulty
Phases == {"UNKNOWN", "INITIAL", "PRE_PREPARED", "PREPARED", "COMMITTED", "DECIDED"}
Votes == Nodes \cup Strays

BFTTypeOK ==
    /\ view \in Views /\ leads \in BOOLEAN /\ stuck \in BOOLEAN
    /\ phase \in [Requests -> Phases]
    /\ prepares \in [Requests -> SUBSET Votes]
    /\ commits \in [Requests -> SUBSET Votes]
    /\ repeats \in [Requests -> Nat]
    /\ pcert \in [Requests -> SUBSET Votes]
    /\ ccert \in [Requests -> SUBSET Votes]
    /\ signed \in [Names \X Sequences -> SUBSET Requests]
    /\ slashed \subseteq Nodes
    /\ returned \in [Requests -> SUBSET SUBSET Votes]
    /\ SlashTypeOK

BFTInit ==
    /\ view = 0 /\ leads \in BOOLEAN /\ stuck = FALSE
    /\ phase = [r \in Requests |-> "UNKNOWN"]
    /\ prepares = [r \in Requests |-> {}] /\ commits = [r \in Requests |-> {}]
    /\ repeats = [r \in Requests |-> 0]
    /\ pcert = [r \in Requests |-> {}] /\ ccert = [r \in Requests |-> {}]
    /\ signed = [key \in Names \X Sequences |-> {}]
    /\ slashed = {}
    /\ returned = [r \in Requests |-> {}]
    /\ SlashInit

-----------------------------------------------------------------------------
\* Mutant: the view is counted on from the one that is given.
NextView(v, l) ==
    /\ view' = v + 1 /\ leads' = l
    /\ UNCHANGED <<stuck, phase, prepares, commits, repeats, pcert, ccert, signed,
                   slashed, returned, slashVars>>

(* init_view, with any view, an earlier one too.  Requests and votes of the  *)
(* other views stay as they are.                                             *)
InitView(v, l) ==
    /\ view' = v /\ leads' = l
    /\ UNCHANGED <<stuck, phase, prepares, commits, repeats, pcert, ccert, signed,
                   slashed, returned, slashVars>>

(* receive_request.  The primary goes on to _receive_pre_prepare, which      *)
(* takes the lock that receive_request holds; a threading.Lock cannot be     *)
(* taken twice.                                                              *)
ReceiveRequest(r) ==
    /\ phase[r] = "UNKNOWN"
    /\ phase' = [phase EXCEPT ![r] = IF leads THEN "PRE_PREPARED" ELSE "INITIAL"]
    /\ stuck' = leads
    /\ UNCHANGED <<view, leads, prepares, commits, repeats, pcert, ccert, signed,
                   slashed, returned, slashVars>>

NameOf(x) == IF x \in Nodes THEN x ELSE x.name

\* The vote is for a known request and its sender is not slashed.
Accepts(x, r) == phase[r] # "UNKNOWN" /\ NameOf(x) \notin slashed

\* A vote under this number is on the sender's record.
Signs(x, s, r) == signed' = [signed EXCEPT ![<<NameOf(x), s>>] = @ \cup {r}]

(* Appended unless a vote in the same name and in the right phase is stored; *)
(* the phase of the vote itself does not matter.                             *)
WithVote(list, x) ==
    IF \E y \in list : NameOf(y) = NameOf(x) /\ (y \in Nodes \/ y.fits)
    THEN list ELSE list \cup {x}

\* _broadcast_commit_intent: the engine's own COMMIT, whether it has one or not.
CommitIntent(r) ==
    /\ Self \in commits[r] => repeats[r] < MaxRepeats
    /\ phase' = [phase EXCEPT ![r] = "PREPARED"]
    /\ commits' = [commits EXCEPT ![r] = @ \cup {Self}]
    /\ repeats' = IF Self \in commits[r] THEN [repeats EXCEPT ![r] = @ + 1] ELSE repeats

\* Mutant: every PREPARE beyond the quorum appends the engine's COMMIT.
CommitEachTime(x, r, s) ==
    /\ Accepts(x, r)
    /\ Signs(x, s, r)
    /\ prepares' = [prepares EXCEPT ![r] = WithVote(@, x)]
    /\ IF Cardinality(prepares'[r]) >= Quorum
       THEN CommitIntent(r)
       ELSE UNCHANGED <<phase, commits, repeats>>
    /\ UNCHANGED <<view, leads, stuck, pcert, ccert, slashed, returned, slashVars>>

(* receive_prepare.  With a quorum the engine appends its own COMMIT,        *)
(* whenever it was not in PREPARED already.                                  *)
ReceivePrepare(x, r, s) ==
    /\ Accepts(x, r)
    /\ Signs(x, s, r)
    /\ prepares' = [prepares EXCEPT ![r] = WithVote(@, x)]
    /\ IF Cardinality(prepares'[r]) >= Quorum /\ phase[r] # "PREPARED"
       THEN CommitIntent(r)
       ELSE UNCHANGED <<phase, commits, repeats>>
    /\ UNCHANGED <<view, leads, stuck, pcert, ccert, slashed, returned, slashVars>>

(* receive_commit.  A COMMIT in the engine's name that it has not appended   *)
(* itself is a stray.                                                        *)
ReceiveCommit(x, r, s) ==
    /\ Accepts(x, r)
    /\ x = Self => Self \in commits[r]
    /\ Signs(x, s, r)
    /\ commits' = [commits EXCEPT ![r] = WithVote(@, x)]
    /\ phase' = IF Cardinality(commits'[r]) + repeats[r] >= Quorum
                THEN [phase EXCEPT ![r] = "COMMITTED"] ELSE phase
    /\ UNCHANGED <<view, leads, stuck, prepares, repeats, pcert, ccert, slashed,
                   returned, slashVars>>

(* check_prepared: the certificate is made once and kept.                    *)
CheckPrepared(r) ==
    /\ phase[r] = "PREPARED"
    /\ pcert[r] = {}
    /\ pcert' = [pcert EXCEPT ![r] = prepares[r]]
    /\ UNCHANGED <<view, leads, stuck, phase, prepares, commits, repeats, ccert, signed,
                   slashed, returned, slashVars>>

\* Mutant: each answer is a new certificate.
NewCertificate(r) ==
    /\ phase[r] = "COMMITTED"
    /\ ccert' = [ccert EXCEPT ![r] = commits[r]]
    /\ returned' = [returned EXCEPT ![r] = @ \cup {ccert'[r]}]
    /\ phase' = [phase EXCEPT ![r] = "DECIDED"]
    /\ UNCHANGED <<view, leads, stuck, prepares, commits, repeats, pcert, signed,
                   slashed, slashVars>>

(* finalize_commit: so is this one, and it is returned whenever the phase is *)
(* COMMITTED.                                                                *)
FinalizeCommit(r) ==
    /\ phase[r] = "COMMITTED"
    /\ ccert' = IF ccert[r] = {} THEN [ccert EXCEPT ![r] = commits[r]] ELSE ccert
    /\ returned' = [returned EXCEPT ![r] = @ \cup {ccert'[r]}]
    /\ phase' = [phase EXCEPT ![r] = "DECIDED"]
    /\ UNCHANGED <<view, leads, stuck, prepares, commits, repeats, pcert, signed,
                   slashed, slashVars>>

\* detect_double_sign finds more than one request.
DoubleSigned(n) == \E s \in Sequences : Cardinality(signed[<<n, s>>]) > 1

(* A node that detect_double_sign finds, or a faulty one for another         *)
(* misbehaviour, is reported, and then excluded by slash.                    *)
ReportNode(n) ==
    /\ DoubleSigned(n) \/ n \in Faulty
    /\ Report(n)
    /\ UNCHANGED <<view, leads, stuck, phase, prepares, commits, repeats, pcert, ccert,
                   signed, slashed, returned>>

Slash(n) ==
    /\ n \in banned
    /\ slashed' = slashed \cup {n}
    /\ UNCHANGED <<view, leads, stuck, phase, prepares, commits, repeats, pcert, ccert,
                   signed, returned, slashVars>>

AppealStep ==
    /\ \E i \in 1 .. Len(records) :
          Appeal(i) \/ \E upheld \in BOOLEAN : ResolveAppeal(i, upheld)
    /\ UNCHANGED <<view, leads, stuck, phase, prepares, commits, repeats, pcert, ccert,
                   signed, slashed, returned>>

StraysBound(r) ==
    Cardinality(prepares[r] \cap Strays) + Cardinality(commits[r] \cap Strays) <= MaxStrays

(* While one method waits for the lock, so does every other of the engine.   *)
EngineStep ==
    /\ ~stuck
    /\ \/ \E v \in Views, l \in BOOLEAN : InitView(v, l)
       \/ \E r \in Requests :
            \/ ReceiveRequest(r)
            \/ \E x \in Votes, s \in Sequences :
                  /\ ReceivePrepare(x, r, s) \/ ReceiveCommit(x, r, s)
                  /\ StraysBound(r)'
            \/ CheckPrepared(r)
            \/ FinalizeCommit(r)
       \/ \E n \in Nodes : Slash(n)

BFTNext == EngineStep \/ (\E n \in Nodes : ReportNode(n)) \/ AppealStep

BFTSpec == BFTInit /\ [][BFTNext]_bftVars

-----------------------------------------------------------------------------
(* A quorum certificate, once there is one, holds the votes of f + 1 correct *)
(* nodes less one for each stray in it, whatever is duplicated, late, of     *)
(* another view, or appended again when the phase has gone back.  (The       *)
(* header of bft_consensus.py promises f + 1 of them in any case.)           *)
CertificatesHaveHonest ==
    \A r \in Requests : \A c \in {pcert[r], ccert[r]} \cup returned[r] :
        c # {} => Cardinality(c \cap Correct) + Cardinality(c \cap Strays) >= F + 1

(* The engine's own COMMIT stands on the PREPAREs of f + 1 correct nodes,    *)
(* less one for each stray among them, also when it is given COMMITs first   *)
(* and is COMMITTED before it has prepared.                                  *)
OwnVoteIsBacked ==
    \A r \in Requests : Self \in commits[r] =>
        Cardinality(prepares[r] \cap Correct) + Cardinality(prepares[r] \cap Strays) >= F + 1

(* Though finalize_commit answers anew whenever a late vote has set the      *)
(* phase back, all its answers for a request are the same certificate, made  *)
(* of votes that the engine still holds.                                     *)
OneCertificate ==
    \A r \in Requests :
        /\ Cardinality(returned[r]) <= 1
        /\ \A c \in returned[r] : c = ccert[r] /\ c \subseteq commits[r]
=============================================================================
