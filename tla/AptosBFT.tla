------------------------------ MODULE AptosBFT ------------------------------
(***************************************************************************)
(* One epoch of the 2-chain AptosBFT protocol with order votes: what the   *)
(* rules each honest validator keeps (TwoChainRules, applied by its        *)
(* SafetyRules) amount to for the validator set.                           *)
(*                                                                         *)
(* The network is the set of everything an honest validator ever signed:   *)
(* messages are lost, delayed, repeated and reordered freely.  A faulty    *)
(* validator signs whatever it likes, so it supports every certificate.    *)
(* A block is its round and an id that tells apart the proposals of one    *)
(* round; its parent is the block its quorum certificate certifies.        *)
(***************************************************************************)
EXTENDS TwoChainRules

CONSTANTS
  Honest, Byzantine,  \* the validators
  Quorums,            \* the validator sets that hold a quorum of the voting power
  Ids,                \* bound: proposals per round
  MaxRound,           \* bound: rounds are 1 .. MaxRound
  OrderVoteEnabled    \* onchain_config.order_vote_enabled()

ASSUME BFTAssumption ==
  /\ MaxRound \in Nat
  /\ OrderVoteEnabled \in BOOLEAN
  /\ Quorums \subseteq SUBSET (Honest \cup Byzantine)
  /\ \A q1, q2 \in Quorums : q1 \cap q2 \cap Honest # {}

VARIABLES
  parent,      \* of each proposed block the parent, None where there is no proposal
  ancestors,   \* of each proposed block the blocks below it, down to the genesis block
  sd,          \* of each honest validator the persisted SafetyData
  votes,       \* <<v, b>>: v signed a Vote for b
  orderVotes,  \* <<v, b>>: v signed an OrderVote for b
  timeouts     \* [author, round, hqc_round]: what v signed as TimeoutSigningRepr

vars == <<parent, ancestors, sd, votes, orderVotes, timeouts>>

Rounds     == 1 .. MaxRound
Rounds0    == 0 .. MaxRound   \* with the genesis block's
Blocks     == Rounds \X Ids
Genesis    == <<0, None>>
Round(b)   == b[1]
Parent(b)  == IF b = Genesis THEN Genesis ELSE parent[b]
Proposed   == {b \in Blocks : parent[b] # None}

----------------------------------------------------------------------------
(* Certificates: a quorum, whose honest members signed.                    *)

\* A QuorumCert for b can be put together (PendingVotes::insert_vote).
Certified(b) ==
  b = Genesis \/ \E q \in Quorums : \A v \in q \cap Honest : <<v, b>> \in votes

\* The certificate as the rules read it.
QCOf(b) == [round |-> Round(b), parent_round |-> Round(Parent(b))]

\* Some block of round h has a QuorumCert.
CertifiedRound(h) == \E b \in Proposed \cup {Genesis} : Round(b) = h /\ Certified(b)

\* A TwoChainTimeoutCertificate of round r whose highest reported round is h: it carries a
\* valid certificate of round h, below r, and h is the maximum over the signers.
TimeoutCert(r, h) ==
  /\ h < r /\ CertifiedRound(h)
  /\ \E q \in Quorums :
       /\ \A v \in q \cap Honest : \E t \in timeouts :
            t.author = v /\ t.round = r /\ t.hqc_round <= h
       /\ \/ q \cap Byzantine # {}
          \/ \E t \in timeouts : t.author \in q /\ t.round = r /\ t.hqc_round = h

TCs == {NoTC} \cup {tc \in [round : Rounds, hqc_round : Rounds0] :
                      TimeoutCert(tc.round, tc.hqc_round)}

\* b is ordered: by the OrderVotes of a quorum, or by a certified child in the next round
\* (the ledger info that construct_ledger_info_2chain puts into the child's votes).
Ordered(b) ==
  \/ \E q \in Quorums : \A v \in q \cap Honest : <<v, b>> \in orderVotes
  \/ \E c \in Proposed :
       /\ Certified(c) /\ parent[c] = b
       /\ CommitsParent([round |-> Round(c), qc |-> QCOf(b)])

----------------------------------------------------------------------------
Init ==
  /\ parent = [b \in Blocks |-> None]
  /\ ancestors = [b \in Blocks |-> {}]
  /\ sd = [v \in Honest |-> FreshSafetyData(1)]
  /\ votes = {} /\ orderVotes = {} /\ timeouts = {}

\* A proposal that is well formed: it extends a certified block of a lower round.
Propose(b, p) ==
  /\ parent[b] = None
  /\ Certified(p) /\ Round(p) < Round(b)
  /\ parent' = [parent EXCEPT ![b] = p]
  /\ ancestors' = [ancestors EXCEPT ![b] =
                     {p} \cup (IF p = Genesis THEN {} ELSE ancestors[p])]
  /\ UNCHANGED <<sd, votes, orderVotes, timeouts>>

\* vote_block: the vote SafetyRules signs, given the highest timeout certificate.
VoteFor(v, b, tc) ==
  LET qc == QCOf(parent[b]) IN
  /\ AboveLastVotedRound(sd[v], Round(b))
  /\ SafeToVote([round |-> Round(b), qc |-> qc], tc)
  /\ sd' = [sd EXCEPT ![v] = RecordVote(ObserveQC(@, qc), Round(b), b)]
  /\ votes' = votes \cup {<<v, b>>}
  /\ UNCHANGED <<parent, ancestors, orderVotes, timeouts>>

\* broadcast_order_vote: an order vote for a block with a QuorumCert.
OrderVoteFor(v, b) ==
  /\ OrderVoteEnabled
  /\ Certified(b)
  /\ SafeForOrderVote(Round(b), ObserveQC(sd[v], QCOf(b)))
  /\ sd' = [sd EXCEPT ![v] = ObserveQC(@, QCOf(b))]
  /\ orderVotes' = orderVotes \cup {<<v, b>>}
  /\ UNCHANGED <<parent, ancestors, votes, timeouts>>

\* The timeout process_local_timeout signs, carrying a certificate of round h; the vote
\* for a NIL block it may cast first is a VoteFor step, made durable on its own.
TimeoutAt(v, r, h, tc) ==
  /\ h < r
  /\ SafeToTimeout([round |-> r, hqc_round |-> h], tc, sd[v])
  /\ r >= sd[v].last_voted_round
  /\ CertifiedRound(h)
  /\ sd' = [sd EXCEPT ![v] = RecordTimeout(@, r)]
  /\ timeouts' = timeouts \cup {[author |-> v, round |-> r, hqc_round |-> h]}
  /\ UNCHANGED <<parent, ancestors, votes, orderVotes>>

Next ==
  \/ \E p \in {p \in Proposed \cup {Genesis} : Certified(p)}, b \in Blocks : Propose(b, p)
  \/ \E b \in Proposed, v \in Honest : OrderVoteFor(v, b)
  \/ \E tc \in TCs, v \in Honest :
       \/ \E b \in Proposed : VoteFor(v, b, tc)
       \/ \E r \in Rounds, h \in Rounds0 : TimeoutAt(v, r, h, tc)

Spec == Init /\ [][Next]_vars

----------------------------------------------------------------------------
SafetyData ==
  [epoch : {1}, last_voted_round : Rounds0, preferred_round : Rounds0,
   one_chain_round : Rounds0, last_vote : Blocks \cup {None},
   highest_timeout_round : Rounds0]

\* The shape of the state: every parent is a proposed block or the genesis block, and
\* every message signed is of a validator, for a block or rounds of the epoch.
TypeOK ==
  /\ parent \in [Blocks -> Blocks \cup {Genesis, None}]
  /\ ancestors \in [Blocks -> SUBSET (Blocks \cup {Genesis})]
  /\ sd \in [Honest -> SafetyData]
  /\ votes \subseteq Honest \X Blocks
  /\ orderVotes \subseteq Honest \X Blocks
  /\ timeouts \subseteq [author : Honest, round : Rounds, hqc_round : Rounds0]

\* No two blocks of one round both get a quorum certificate.
OneQCPerRound ==
  \A b, c \in Proposed :
    Certified(b) /\ Certified(c) /\ Round(b) = Round(c) => b = c

\* An ordered block stays on the chain: every certified block of its round or of a later
\* one is that block or extends it, whatever timeout certificates were formed in between.
OrderedIsSafe ==
  \A b, c \in Proposed :
    Ordered(b) /\ Certified(c) /\ Round(c) >= Round(b) => c = b \/ b \in ancestors[c]

\* Agreement: any two ordered blocks lie on one chain, so no two validators commit
\* conflicting blocks.
Agreement ==
  \A b, c \in Proposed :
    Ordered(b) /\ Ordered(c) => b = c \/ b \in ancestors[c] \/ c \in ancestors[b]
=============================================================================
