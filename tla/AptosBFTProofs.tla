--------------------------- MODULE AptosBFTProofs ---------------------------
(***************************************************************************)
(* Agreement of the 2-chain protocol, for every validator set, quorum      *)
(* system and number of rounds in which two quorums share an honest        *)
(* validator.                                                              *)
(*                                                                         *)
(* The inductive invariant IInv ties every message on the network to the   *)
(* SafetyData of its author.  Its two important conjuncts are about one    *)
(* validator: a timeout it signs at or above the round of a block it       *)
(* order-voted carries a certificate of that round or a later one, and a   *)
(* timeout at or above the round of a block it voted for carries one of    *)
(* the parent's round or a later one.  With quorum intersection they give  *)
(* that the parent of every certified block above an ordered one is itself *)
(* at or above it (OrderedParent); OrderedIsSafe follows by taking the     *)
(* lowest certified block that would not extend the ordered one.           *)
(***************************************************************************)
EXTENDS AptosBFT, WellFoundedInduction, TLAPS

Below(b) == IF b = Genesis THEN {} ELSE ancestors[b]

\* A proposal extends a certified block of a lower round.
ProposalOK(b) ==
  /\ parent[b] \in Proposed \cup {Genesis}
  /\ Certified(parent[b])
  /\ Round(parent[b]) < Round(b)
  /\ ancestors[b] = {parent[b]} \cup Below(parent[b])

ProposalsOK == \A b \in Proposed : ProposalOK(b)

\* A vote was allowed by the second voting rule, and its author remembers it.
VoteOK(v, b) ==
  /\ b \in Proposed
  /\ Round(b) <= sd[v].last_voted_round
  /\ Round(parent[b]) <= sd[v].one_chain_round
  /\ \/ Round(b) = Round(parent[b]) + 1
     \/ \E h \in Rounds0 : TimeoutCert(Round(b) - 1, h) /\ h <= Round(parent[b])

VotesOK == \A v \in Honest, b \in Blocks : <<v, b>> \in votes => VoteOK(v, b)

OneVotePerRound ==
  \A v \in Honest, b, c \in Blocks :
    <<v, b>> \in votes /\ <<v, c>> \in votes /\ Round(b) = Round(c) => b = c

OrderVoteOK(v, b) == b \in Proposed /\ Certified(b) /\ Round(b) <= sd[v].one_chain_round

OrderVotesOK == \A v \in Honest, b \in Blocks : <<v, b>> \in orderVotes => OrderVoteOK(v, b)

TimeoutOK(t) == /\ t.round <= sd[t.author].highest_timeout_round
                /\ t.round <= sd[t.author].last_voted_round

TimeoutsOK == \A t \in timeouts : TimeoutOK(t)

TimeoutAfterOrderVote ==
  \A v \in Honest, b \in Blocks, t \in timeouts :
    <<v, b>> \in orderVotes /\ t.author = v /\ t.round >= Round(b) => t.hqc_round >= Round(b)

TimeoutAfterVote ==
  \A v \in Honest, b \in Blocks, t \in timeouts :
    <<v, b>> \in votes /\ t.author = v /\ t.round >= Round(b) => t.hqc_round >= Round(parent[b])

IInv ==
  /\ TypeOK /\ ProposalsOK /\ VotesOK /\ OneVotePerRound /\ OrderVotesOK /\ TimeoutsOK
  /\ TimeoutAfterOrderVote /\ TimeoutAfterVote

----------------------------------------------------------------------------
(* Facts about naturals, blocks and the operators of TwoChainRules.        *)

\* Every non-empty set of rounds has a lowest one.
LEMMA LeastElement ==
  ASSUME NEW T, T \subseteq Nat, T # {}
  PROVE  \E x \in T : \A y \in T : x <= y
<1>1. \E x \in T : \A y \in T : ~ (<<y, x>> \in OpToRel(<, Nat))
  BY NatLessThanWellFounded, WFMin
<1>2. ASSUME NEW x \in Nat, NEW y \in Nat, ~ (<<y, x>> \in OpToRel(<, Nat))
      PROVE  x <= y
  BY <1>2 DEF OpToRel
<1> QED BY <1>1, <1>2

\* Rounds of blocks are naturals, and the genesis block is not a block of the epoch.
LEMMA BlockRounds ==
  /\ \A b \in Blocks : Round(b) \in Rounds /\ Round(b) \in Nat /\ Round(b) > 0
  /\ Genesis \notin Blocks
  /\ Round(Genesis) = 0
  /\ Proposed \subseteq Blocks
<1>1. \A b \in Blocks : b[1] \in Rounds
  BY DEF Blocks
<1>2. \A r \in Rounds : r \in Nat /\ r > 0
  BY BFTAssumption DEF Rounds
<1>3. Round(Genesis) = 0
  BY DEF Round, Genesis
<1>4. Genesis \notin Blocks
  BY <1>1, <1>2, <1>3 DEF Round
<1> QED BY <1>1, <1>2, <1>3, <1>4 DEF Round, Proposed

\* Rounds are naturals.
LEMMA RoundsNat == Rounds \subseteq Rounds0 /\ Rounds0 \subseteq Nat /\ 0 \in Rounds0
  BY BFTAssumption DEF Rounds, Rounds0

\* Higher is the maximum.
LEMMA HigherFacts ==
  ASSUME NEW a \in Rounds0, NEW b \in Rounds0
  PROVE  /\ Higher(a, b) \in Rounds0
         /\ Higher(a, b) >= a /\ Higher(a, b) >= b
<1>1. a \in Nat /\ b \in Nat
  BY RoundsNat
<1>2. Higher(a, b) \in Rounds0
  BY DEF Higher
<1>3. Higher(a, b) >= a /\ Higher(a, b) >= b
  BY <1>1 DEF Higher
<1> QED BY <1>2, <1>3

\* observe_qc keeps the type and only raises one_chain_round, to the certificate's round.
LEMMA ObserveQCFacts ==
  ASSUME NEW s \in SafetyData, NEW qc, qc.round \in Rounds0, qc.parent_round \in Rounds0
  PROVE  /\ ObserveQC(s, qc) \in SafetyData
         /\ ObserveQC(s, qc).one_chain_round >= s.one_chain_round
         /\ ObserveQC(s, qc).one_chain_round >= qc.round
         /\ ObserveQC(s, qc).last_voted_round = s.last_voted_round
         /\ ObserveQC(s, qc).highest_timeout_round = s.highest_timeout_round
<1>1. s.one_chain_round \in Rounds0 /\ s.preferred_round \in Rounds0
  BY DEF SafetyData
<1>2. /\ Higher(s.one_chain_round, qc.round) \in Rounds0
      /\ Higher(s.one_chain_round, qc.round) >= s.one_chain_round
      /\ Higher(s.one_chain_round, qc.round) >= qc.round
      /\ Higher(s.preferred_round, qc.parent_round) \in Rounds0
  BY <1>1, HigherFacts
<1> QED BY <1>2 DEF ObserveQC, SafetyData

\* A vote is remembered with its round.
LEMMA RecordVoteFacts ==
  ASSUME NEW s \in SafetyData, NEW r \in Rounds0, NEW b \in Blocks
  PROVE  /\ RecordVote(s, r, b) \in SafetyData
         /\ RecordVote(s, r, b).one_chain_round = s.one_chain_round
         /\ RecordVote(s, r, b).last_voted_round = r
         /\ RecordVote(s, r, b).highest_timeout_round = s.highest_timeout_round
  BY DEF RecordVote, SafetyData

\* A timeout raises last_voted_round and highest_timeout_round to its round.
LEMMA RecordTimeoutFacts ==
  ASSUME NEW s \in SafetyData, NEW r \in Rounds0
  PROVE  /\ RecordTimeout(s, r) \in SafetyData
         /\ RecordTimeout(s, r).one_chain_round = s.one_chain_round
         /\ RecordTimeout(s, r).last_voted_round >= s.last_voted_round
         /\ RecordTimeout(s, r).last_voted_round >= r
         /\ RecordTimeout(s, r).highest_timeout_round >= s.highest_timeout_round
         /\ RecordTimeout(s, r).highest_timeout_round >= r
<1>1. s.last_voted_round \in Rounds0 /\ s.highest_timeout_round \in Rounds0
  BY DEF SafetyData
<1>2. /\ Higher(s.last_voted_round, r) \in Rounds0
      /\ Higher(s.last_voted_round, r) >= s.last_voted_round
      /\ Higher(s.last_voted_round, r) >= r
      /\ Higher(s.highest_timeout_round, r) \in Rounds0
      /\ Higher(s.highest_timeout_round, r) >= s.highest_timeout_round
      /\ Higher(s.highest_timeout_round, r) >= r
  BY <1>1, HigherFacts
<1> QED BY <1>2 DEF RecordTimeout, SafetyData

\* The fields of SafetyData are naturals.
LEMMA SafetyDataNat ==
  ASSUME NEW s \in SafetyData
  PROVE  /\ s.last_voted_round \in Nat /\ s.one_chain_round \in Nat
         /\ s.highest_timeout_round \in Nat
<1>1. /\ s.last_voted_round \in Rounds0 /\ s.one_chain_round \in Rounds0
      /\ s.highest_timeout_round \in Rounds0
  BY DEF SafetyData
<1> QED BY <1>1, RoundsNat

\* Two quorums share an honest validator, and a quorum contains one.
LEMMA QuorumsMeet ==
  ASSUME NEW q1 \in Quorums, NEW q2 \in Quorums
  PROVE  \E v \in Honest : v \in q1 /\ v \in q2
  BY BFTAssumption

----------------------------------------------------------------------------
(* What the invariant says of certificates in one state.                   *)

\* Two quorum certificates of one round share an honest voter, who voted once in it.
LEMMA QCUnique == IInv => OneQCPerRound
<1> SUFFICES ASSUME IInv, NEW b \in Proposed, NEW c \in Proposed,
                    Certified(b), Certified(c), Round(b) = Round(c)
             PROVE  b = c
  BY DEF OneQCPerRound
<1>1. b \in Blocks /\ c \in Blocks /\ b # Genesis /\ c # Genesis
  BY BlockRounds
<1>2. PICK q1 \in Quorums : \A v \in q1 \cap Honest : <<v, b>> \in votes
  BY <1>1 DEF Certified
<1>3. PICK q2 \in Quorums : \A v \in q2 \cap Honest : <<v, c>> \in votes
  BY <1>1 DEF Certified
<1>4. PICK v \in Honest : v \in q1 /\ v \in q2
  BY QuorumsMeet
<1> QED BY <1>1, <1>2, <1>3, <1>4 DEF IInv, OneVotePerRound

\* Only certified blocks are ordered.
LEMMA OrderedIsCertified ==
  ASSUME IInv, NEW b \in Proposed, Ordered(b)
  PROVE  Certified(b)
<1>1. b \in Blocks
  BY BlockRounds
<1>2. CASE \E q \in Quorums : \A v \in q \cap Honest : <<v, b>> \in orderVotes
  <2>1. PICK q \in Quorums : \A v \in q \cap Honest : <<v, b>> \in orderVotes
    BY <1>2
  <2>2. PICK v \in Honest : v \in q
    BY QuorumsMeet
  <2> QED BY <1>1, <2>1, <2>2 DEF IInv, OrderVotesOK, OrderVoteOK
<1>3. CASE \E c \in Proposed : parent[c] = b
  BY <1>3 DEF IInv, ProposalsOK, ProposalOK
<1> QED BY <1>2, <1>3 DEF Ordered

\* The parent of a certified block above the quorum's round: some timeout of an honest
\* member w of the quorum q bounds it from below, unless the rounds are consecutive.
LEMMA ParentReported ==
  ASSUME IInv, NEW q \in Quorums, NEW c \in Proposed, Certified(c)
  PROVE  \/ Round(c) = Round(parent[c]) + 1
         \/ \E w \in Honest, t \in timeouts :
              /\ w \in q /\ t.author = w /\ t.round = Round(c) - 1
              /\ t.hqc_round <= Round(parent[c])
<1>1. c \in Blocks /\ c # Genesis
  BY BlockRounds
<1>2. PICK qc \in Quorums : \A v \in qc \cap Honest : <<v, c>> \in votes
  BY <1>1 DEF Certified
<1>3. PICK v \in Honest : v \in qc
  BY QuorumsMeet
<1>4. \/ Round(c) = Round(parent[c]) + 1
      \/ \E h \in Rounds0 : TimeoutCert(Round(c) - 1, h) /\ h <= Round(parent[c])
  BY <1>1, <1>2, <1>3 DEF IInv, VotesOK, VoteOK
<1>5. ASSUME NEW h \in Rounds0, TimeoutCert(Round(c) - 1, h), h <= Round(parent[c])
      PROVE  \E w \in Honest, t \in timeouts :
              /\ w \in q /\ t.author = w /\ t.round = Round(c) - 1
              /\ t.hqc_round <= Round(parent[c])
  <2>1. PICK q2 \in Quorums : \A w \in q2 \cap Honest : \E t \in timeouts :
              t.author = w /\ t.round = Round(c) - 1 /\ t.hqc_round <= h
    BY <1>5 DEF TimeoutCert
  <2>2. PICK w \in Honest : w \in q /\ w \in q2
    BY QuorumsMeet
  <2>3. PICK t \in timeouts : t.author = w /\ t.round = Round(c) - 1 /\ t.hqc_round <= h
    BY <2>1, <2>2
  <2>4. t.hqc_round \in Nat /\ h \in Nat
    BY RoundsNat DEF IInv, TypeOK
  <2>5. Round(parent[c]) \in Nat
    BY BlockRounds DEF IInv, ProposalsOK, ProposalOK
  <2>6. t.hqc_round <= Round(parent[c])
    BY <1>5, <2>3, <2>4, <2>5
  <2> QED BY <2>2, <2>3, <2>6
<1> QED BY <1>4, <1>5

\* Above an ordered block, no certified block has a parent below it.
LEMMA OrderedParent ==
  ASSUME IInv, NEW b \in Proposed, Ordered(b),
         NEW c \in Proposed, Certified(c), Round(c) > Round(b)
  PROVE  Round(parent[c]) >= Round(b)
<1>1. /\ b \in Blocks /\ c \in Blocks
      /\ Round(b) \in Nat /\ Round(c) \in Nat
  BY BlockRounds
<1>2. Round(parent[c]) \in Nat
  BY BlockRounds DEF IInv, ProposalsOK, ProposalOK
<1>3. \A t \in timeouts : t.hqc_round \in Nat /\ t.round \in Nat
  BY RoundsNat DEF IInv, TypeOK
<1>4. CASE \E q \in Quorums : \A v \in q \cap Honest : <<v, b>> \in orderVotes
  <2>1. PICK q \in Quorums : \A v \in q \cap Honest : <<v, b>> \in orderVotes
    BY <1>4
  <2>2. CASE Round(c) = Round(parent[c]) + 1
    BY <1>1, <1>2, <2>2
  <2>3. ASSUME NEW w \in Honest, NEW t \in timeouts,
               w \in q, t.author = w, t.round = Round(c) - 1,
               t.hqc_round <= Round(parent[c])
        PROVE  Round(parent[c]) >= Round(b)
    <3>1. t.round >= Round(b)
      BY <1>1, <2>3
    <3>2. t.hqc_round >= Round(b)
      BY <1>1, <2>1, <2>3, <3>1 DEF IInv, TimeoutAfterOrderVote
    <3> QED BY <1>1, <1>2, <1>3, <2>3, <3>2
  <2> QED BY <2>2, <2>3, ParentReported
<1>5. CASE \E d \in Proposed : /\ Certified(d) /\ parent[d] = b
                               /\ CommitsParent([round |-> Round(d), qc |-> QCOf(b)])
  <2>1. PICK d \in Proposed : /\ Certified(d) /\ parent[d] = b
                              /\ CommitsParent([round |-> Round(d), qc |-> QCOf(b)])
    BY <1>5
  <2>2. d \in Blocks /\ d # Genesis /\ Round(d) = Round(b) + 1
    BY <2>1, BlockRounds DEF CommitsParent, QCOf
  <2>3. CASE Round(c) = Round(d)
    <3>1. c = d
      BY <2>1, <2>3, QCUnique DEF OneQCPerRound
    <3> QED BY <2>1, <3>1, <1>1
  <2>4. CASE Round(c) > Round(d)
    <3>1. PICK q \in Quorums : \A v \in q \cap Honest : <<v, d>> \in votes
      BY <2>1, <2>2 DEF Certified
    <3>2. CASE Round(c) = Round(parent[c]) + 1
      BY <1>1, <1>2, <3>2
    <3>3. ASSUME NEW w \in Honest, NEW t \in timeouts,
                 w \in q, t.author = w, t.round = Round(c) - 1,
                 t.hqc_round <= Round(parent[c])
          PROVE  Round(parent[c]) >= Round(b)
      <4>1. t.round >= Round(d)
        BY <1>1, <2>2, <2>4, <3>3
      <4>2. t.hqc_round >= Round(b)
        BY <2>1, <2>2, <3>1, <3>3, <4>1 DEF IInv, TimeoutAfterVote
      <4> QED BY <1>1, <1>2, <1>3, <3>3, <4>2
    <3> QED BY <3>2, <3>3, ParentReported
  <2> QED BY <1>1, <2>2, <2>3, <2>4
<1> QED BY <1>4, <1>5 DEF Ordered

\* Among the certified blocks at or above an ordered block that do not extend it, the
\* lowest one has a parent that does.
LEMMA OrderedSafe == IInv => OrderedIsSafe
<1> SUFFICES ASSUME IInv, NEW b \in Proposed, Ordered(b)
             PROVE  \A c \in Proposed : Certified(c) /\ Round(c) >= Round(b) =>
                      c = b \/ b \in ancestors[c]
  BY DEF OrderedIsSafe
<1> DEFINE Bad == {c \in Proposed : /\ Certified(c) /\ Round(c) >= Round(b)
                                    /\ c # b /\ b \notin ancestors[c]}
           T == {Round(c) : c \in Bad}
<1>1. SUFFICES ASSUME Bad # {} PROVE FALSE
  OBVIOUS
<1>2. T \subseteq Nat /\ T # {}
  BY <1>1, BlockRounds
<1>3. PICK r \in T : \A y \in T : r <= y
  <2> HIDE DEF T
  <2> QED BY <1>2, LeastElement
<1>4. PICK c \in Bad : Round(c) = r
  BY <1>3
<1>5. /\ c \in Proposed /\ Certified(c) /\ Round(c) >= Round(b)
      /\ c # b /\ b \notin ancestors[c]
      /\ \A d \in Bad : Round(c) <= Round(d)
  BY <1>3, <1>4
<1> HIDE DEF Bad, T
<1>6. Round(b) \in Nat /\ Round(c) \in Nat /\ Round(b) > 0
  BY <1>5, BlockRounds
<1>7. Round(c) > Round(b)
  <2>1. Certified(b)
    BY OrderedIsCertified
  <2>2. Round(c) # Round(b)
    BY <1>5, <2>1, QCUnique DEF OneQCPerRound
  <2> QED BY <1>5, <1>6, <2>2
<1>8. Round(parent[c]) >= Round(b)
  BY <1>5, <1>7, OrderedParent
<1>9. /\ parent[c] \in Proposed \cup {Genesis} /\ Certified(parent[c])
      /\ Round(parent[c]) < Round(c)
      /\ ancestors[c] = {parent[c]} \cup Below(parent[c])
  BY <1>5 DEF IInv, ProposalsOK, ProposalOK
<1>10. parent[c] # Genesis
  BY <1>6, <1>8, BlockRounds
<1>11. parent[c] \in Proposed /\ Round(parent[c]) \in Nat
  BY <1>9, <1>10, BlockRounds
<1>12. parent[c] \notin Bad
  BY <1>5, <1>6, <1>9, <1>11
<1>13. parent[c] = b \/ b \in ancestors[parent[c]]
  BY <1>8, <1>9, <1>11, <1>12 DEF Bad
<1>14. b \in ancestors[c]
  BY <1>9, <1>10, <1>13 DEF Below
<1> QED BY <1>5, <1>14

\* Two ordered blocks: the one of the lower round is below the other.
LEMMA OrderedAgree == IInv => Agreement
<1> SUFFICES ASSUME IInv, NEW b \in Proposed, NEW c \in Proposed, Ordered(b), Ordered(c)
             PROVE  b = c \/ b \in ancestors[c] \/ c \in ancestors[b]
  BY DEF Agreement
<1>1. Certified(b) /\ Certified(c)
  BY OrderedIsCertified
<1>2. Round(b) \in Nat /\ Round(c) \in Nat
  BY BlockRounds
<1>3. CASE Round(c) >= Round(b)
  BY <1>1, <1>3, OrderedSafe DEF OrderedIsSafe
<1>4. CASE Round(b) >= Round(c)
  BY <1>1, <1>4, OrderedSafe DEF OrderedIsSafe
<1> QED BY <1>2, <1>3, <1>4

----------------------------------------------------------------------------
(* Every step keeps what the messages on the network stand for.            *)

\* SafetyData s moves up to z.
MovesUp(s, z) ==
  /\ s.last_voted_round <= z.last_voted_round
  /\ s.one_chain_round <= z.one_chain_round
  /\ s.highest_timeout_round <= z.highest_timeout_round

\* What is proposed or signed stays, and SafetyData only moves up.
Grows ==
  /\ votes \subseteq votes' /\ timeouts \subseteq timeouts'
  /\ \A b \in Proposed : parent'[b] = parent[b] /\ ancestors'[b] = ancestors[b]
  /\ \A v \in Honest : sd'[v] \in SafetyData /\ MovesUp(sd[v], sd'[v])

\* Unchanged SafetyData moves up trivially.
LEMMA SafetyDataMovesUp == \A s \in SafetyData : MovesUp(s, s)
<1> SUFFICES ASSUME NEW s \in SafetyData PROVE MovesUp(s, s)
  OBVIOUS
<1>1. /\ s.last_voted_round \in Nat /\ s.one_chain_round \in Nat
      /\ s.highest_timeout_round \in Nat
  BY SafetyDataNat
<1> QED BY <1>1 DEF MovesUp

\* A step that replaces the SafetyData of one validator and signs one message.
LEMMA OneValidatorGrows ==
  ASSUME IInv, NEW v \in Honest, NEW z \in SafetyData, MovesUp(sd[v], z),
         sd' = [sd EXCEPT ![v] = z], UNCHANGED <<parent, ancestors>>,
         votes \subseteq votes', timeouts \subseteq timeouts'
  PROVE  Grows /\ sd' \in [Honest -> SafetyData] /\ Proposed' = Proposed
<1>1. sd \in [Honest -> SafetyData]
  BY DEF IInv, TypeOK
<1>2. sd' \in [Honest -> SafetyData]
  BY <1>1
<1>3. ASSUME NEW w \in Honest PROVE sd'[w] \in SafetyData /\ MovesUp(sd[w], sd'[w])
  BY <1>1, SafetyDataMovesUp
<1>4. Proposed' = Proposed
  BY DEF Proposed
<1> QED BY <1>2, <1>3, <1>4 DEF Grows

\* Certificates stay.
LEMMA CertificatesStay ==
  ASSUME Grows
  PROVE  /\ Proposed \subseteq Proposed'
         /\ \A b : Certified(b) => Certified(b)'
         /\ \A r, h : TimeoutCert(r, h) => TimeoutCert(r, h)'
<1>1. Proposed \subseteq Proposed'
  BY DEF Grows, Proposed
<1>2. ASSUME NEW b, Certified(b) PROVE Certified(b)'
  BY <1>2 DEF Grows, Certified
<1>3. ASSUME NEW h, CertifiedRound(h) PROVE CertifiedRound(h)'
  BY <1>1, <1>2, <1>3 DEF CertifiedRound
<1>4. ASSUME NEW r, NEW h, TimeoutCert(r, h) PROVE TimeoutCert(r, h)'
  <2>1. h < r /\ CertifiedRound(h)'
    BY <1>3, <1>4 DEF TimeoutCert
  <2>2. PICK q \in Quorums :
          /\ \A v \in q \cap Honest : \E t \in timeouts :
               t.author = v /\ t.round = r /\ t.hqc_round <= h
          /\ \/ q \cap Byzantine # {}
             \/ \E t \in timeouts : t.author \in q /\ t.round = r /\ t.hqc_round = h
    BY <1>4 DEF TimeoutCert
  <2>3. timeouts \subseteq timeouts'
    BY DEF Grows
  <2> QED BY <2>1, <2>2, <2>3 DEF TimeoutCert
<1> QED BY <1>1, <1>2, <1>4

\* An earlier proposal keeps its place.
LEMMA OldProposal ==
  ASSUME IInv, Grows, NEW b \in Proposed
  PROVE  ProposalOK(b)'
<1>1. ProposalOK(b)
  BY DEF IInv, ProposalsOK
<1>2. parent'[b] = parent[b] /\ ancestors'[b] = ancestors[b]
  BY DEF Grows
<1>3. parent[b] \in Proposed' \cup {Genesis} /\ Certified(parent[b])'
  <2>1. parent[b] \in Proposed' \cup {Genesis}
    BY <1>1, CertificatesStay DEF ProposalOK
  <2>2. Certified(parent[b])
    BY <1>1 DEF ProposalOK
  <2> QED BY <1>2, <2>1, <2>2 DEF Certified, Grows
<1>4. ancestors[b] = {parent[b]} \cup (IF parent[b] = Genesis THEN {} ELSE ancestors'[parent[b]])
  BY <1>1 DEF ProposalOK, Below, Grows
<1> QED BY <1>1, <1>2, <1>3, <1>4 DEF ProposalOK, Below

\* An earlier vote stays justified.
LEMMA OldVote ==
  ASSUME IInv, Grows, NEW v \in Honest, NEW b \in Blocks, <<v, b>> \in votes
  PROVE  VoteOK(v, b)'
<1>1. VoteOK(v, b)
  BY DEF IInv, VotesOK
<1>2. b \in Proposed /\ parent'[b] = parent[b] /\ b \in Proposed'
  BY <1>1, CertificatesStay DEF VoteOK, Grows
<1>3. Round(b) \in Nat /\ Round(parent[b]) \in Nat
  BY <1>2, BlockRounds DEF IInv, ProposalsOK, ProposalOK
<1>4. sd[v] \in SafetyData /\ sd'[v] \in SafetyData
  BY DEF IInv, TypeOK, Grows
<1>5. /\ sd[v].last_voted_round \in Nat /\ sd[v].one_chain_round \in Nat
      /\ sd'[v].last_voted_round \in Nat /\ sd'[v].one_chain_round \in Nat
  BY <1>4, SafetyDataNat
<1>6. /\ Round(b) <= sd'[v].last_voted_round
      /\ Round(parent[b]) <= sd'[v].one_chain_round
  BY <1>1, <1>3, <1>5 DEF VoteOK, Grows, MovesUp
<1>7. \/ Round(b) = Round(parent[b]) + 1
      \/ \E h \in Rounds0 : TimeoutCert(Round(b) - 1, h)' /\ h <= Round(parent[b])
  BY <1>1, CertificatesStay DEF VoteOK
<1> QED BY <1>2, <1>6, <1>7 DEF VoteOK

\* An earlier order vote stays justified.
LEMMA OldOrderVote ==
  ASSUME IInv, Grows, NEW v \in Honest, NEW b \in Blocks, <<v, b>> \in orderVotes
  PROVE  OrderVoteOK(v, b)'
<1>1. OrderVoteOK(v, b)
  BY DEF IInv, OrderVotesOK
<1>2. b \in Proposed' /\ Certified(b)'
  BY <1>1, CertificatesStay DEF OrderVoteOK
<1>3. Round(b) \in Nat
  BY BlockRounds
<1>4. sd[v] \in SafetyData /\ sd'[v] \in SafetyData
  BY DEF IInv, TypeOK, Grows
<1>5. sd[v].one_chain_round \in Nat /\ sd'[v].one_chain_round \in Nat
  BY <1>4, SafetyDataNat
<1>6. Round(b) <= sd'[v].one_chain_round
  BY <1>1, <1>3, <1>5 DEF OrderVoteOK, Grows, MovesUp
<1> QED BY <1>2, <1>6 DEF OrderVoteOK

\* An earlier timeout is still covered by its author's SafetyData.
LEMMA OldTimeout ==
  ASSUME IInv, Grows, NEW t \in timeouts
  PROVE  TimeoutOK(t)'
<1>1. TimeoutOK(t)
  BY DEF IInv, TimeoutsOK
<1>2. t.author \in Honest /\ t.round \in Nat
  BY RoundsNat DEF IInv, TypeOK
<1>3. sd[t.author] \in SafetyData /\ sd'[t.author] \in SafetyData
  BY <1>2 DEF IInv, TypeOK, Grows
<1>4. /\ sd[t.author].last_voted_round \in Nat /\ sd[t.author].highest_timeout_round \in Nat
      /\ sd'[t.author].last_voted_round \in Nat /\ sd'[t.author].highest_timeout_round \in Nat
  BY <1>3, SafetyDataNat
<1> QED BY <1>1, <1>2, <1>4 DEF TimeoutOK, Grows, MovesUp

\* A certificate of a block of the chain has rounds of the epoch.
LEMMA QCRounds ==
  ASSUME IInv, NEW b \in Proposed \cup {Genesis}
  PROVE  QCOf(b).round = Round(b) /\ QCOf(b).round \in Rounds0 /\ QCOf(b).parent_round \in Rounds0
<1>1. Parent(b) \in Blocks \cup {Genesis}
  BY BlockRounds DEF Parent, IInv, ProposalsOK, ProposalOK
<1>2. Round(b) \in Rounds0 /\ Round(Parent(b)) \in Rounds0
  BY <1>1, BlockRounds, RoundsNat
<1> QED BY <1>2 DEF QCOf

----------------------------------------------------------------------------
(* One lemma per action.                                                   *)

\* A proposal.
LEMMA ProposeStep ==
  ASSUME IInv, NEW b \in Blocks, NEW p \in Proposed \cup {Genesis}, Propose(b, p)
  PROVE  IInv'
<1>1. p \in Blocks \cup {Genesis}
  BY BlockRounds
<1>2. TypeOK'
  <2>1. parent' \in [Blocks -> Blocks \cup {Genesis, None}]
    BY <1>1 DEF Propose, IInv, TypeOK
  <2>2. {p} \cup (IF p = Genesis THEN {} ELSE ancestors[p]) \subseteq Blocks \cup {Genesis}
    BY <1>1 DEF IInv, TypeOK
  <2>3. ancestors' \in [Blocks -> SUBSET (Blocks \cup {Genesis})]
    BY <2>2 DEF Propose, IInv, TypeOK
  <2> QED BY <2>1, <2>3 DEF Propose, IInv, TypeOK
<1>3. Grows
  <2>1. \A c \in Proposed : c \in Blocks /\ c # b
    BY DEF Propose, Proposed
  <2>2. \A c \in Proposed : parent'[c] = parent[c] /\ ancestors'[c] = ancestors[c]
    BY <2>1 DEF Propose, IInv, TypeOK
  <2>3. \A v \in Honest : sd[v] \in SafetyData /\ MovesUp(sd[v], sd[v])
    BY SafetyDataMovesUp DEF IInv, TypeOK
  <2> QED BY <2>2, <2>3 DEF Propose, Grows
<1>4. ProposalsOK'
  <2>1. ASSUME NEW c \in Proposed', c # b PROVE ProposalOK(c)'
    <3>1. c \in Proposed
      BY <2>1 DEF Propose, Proposed, IInv, TypeOK
    <3> QED BY <1>3, <3>1, OldProposal
  <2>2. ProposalOK(b)'
    <3>1. parent'[b] = p
      BY DEF Propose, IInv, TypeOK
    <3>2. ancestors'[b] = {p} \cup (IF p = Genesis THEN {} ELSE ancestors[p])
      BY DEF Propose, IInv, TypeOK
    <3>3. p # Genesis => ancestors'[p] = ancestors[p]
      BY <1>3 DEF Grows
    <3>4. p \in Proposed' \cup {Genesis}
      BY <1>3, CertificatesStay
    <3>5. Certified(p)'
      BY <1>3, CertificatesStay DEF Propose
    <3>6. Round(p) < Round(b)
      BY DEF Propose
    <3> QED BY <3>1, <3>2, <3>3, <3>4, <3>5, <3>6 DEF ProposalOK, Below, Certified
  <2> QED BY <2>1, <2>2 DEF ProposalsOK
<1>5. VotesOK'
  BY <1>3, OldVote DEF VotesOK, Propose
<1>6. OrderVotesOK'
  BY <1>3, OldOrderVote DEF OrderVotesOK, Propose
<1>7. TimeoutsOK'
  BY <1>3, OldTimeout DEF TimeoutsOK, Propose
<1>8. OneVotePerRound' /\ TimeoutAfterOrderVote'
  BY DEF Propose, IInv, OneVotePerRound, TimeoutAfterOrderVote
<1>9. TimeoutAfterVote'
  <2>1. \A v \in Honest, c \in Blocks : <<v, c>> \in votes => parent'[c] = parent[c]
    BY <1>3 DEF IInv, VotesOK, VoteOK, Grows
  <2> QED BY <2>1 DEF Propose, IInv, TimeoutAfterVote
<1> QED BY <1>2, <1>4, <1>5, <1>6, <1>7, <1>8, <1>9 DEF IInv

\* A vote.  Its author timed out in no round at or above it, so the vote is not bound by
\* an earlier timeout; the highest timeout certificate justifies it.
LEMMA VoteStep ==
  ASSUME IInv, NEW v \in Honest, NEW b \in Proposed, NEW tc \in TCs, VoteFor(v, b, tc)
  PROVE  IInv'
<1> DEFINE qc == QCOf(parent[b])
           obs == ObserveQC(sd[v], qc)
           new == RecordVote(obs, Round(b), b)
<1>1. /\ b \in Blocks /\ Round(b) \in Rounds0 /\ Round(b) \in Nat
      /\ parent[b] \in Proposed \cup {Genesis} /\ Round(parent[b]) \in Nat
      /\ Round(parent[b]) < Round(b)
  BY BlockRounds, RoundsNat DEF IInv, ProposalsOK, ProposalOK
<1>2. /\ qc.round = Round(parent[b])
      /\ qc.round \in Rounds0 /\ qc.parent_round \in Rounds0
  BY <1>1, QCRounds
<1>3. sd[v] \in SafetyData
  BY DEF IInv, TypeOK
<1>4. /\ AboveLastVotedRound(sd[v], Round(b))
      /\ SafeToVote([round |-> Round(b), qc |-> qc], tc)
      /\ sd' = [sd EXCEPT ![v] = new]
      /\ votes' = votes \cup {<<v, b>>}
      /\ UNCHANGED <<parent, ancestors, orderVotes, timeouts>>
  BY DEF VoteFor
<1> HIDE DEF qc
<1>5. /\ obs \in SafetyData
      /\ obs.one_chain_round >= sd[v].one_chain_round
      /\ obs.one_chain_round >= qc.round
      /\ obs.last_voted_round = sd[v].last_voted_round
      /\ obs.highest_timeout_round = sd[v].highest_timeout_round
  BY <1>2, <1>3, ObserveQCFacts
<1> HIDE DEF obs
<1>6. /\ new \in SafetyData
      /\ new.one_chain_round = obs.one_chain_round
      /\ new.last_voted_round = Round(b)
      /\ new.highest_timeout_round = obs.highest_timeout_round
  BY <1>1, <1>5, RecordVoteFacts
<1> HIDE DEF new
<1>7. /\ sd[v].last_voted_round \in Nat /\ sd[v].one_chain_round \in Nat
      /\ sd[v].highest_timeout_round \in Nat /\ new.one_chain_round \in Nat
  BY <1>3, <1>6, SafetyDataNat
<1>8. MovesUp(sd[v], new)
  BY <1>1, <1>4, <1>5, <1>6, <1>7 DEF MovesUp, AboveLastVotedRound
<1>9. Grows /\ sd' \in [Honest -> SafetyData] /\ Proposed' = Proposed
  BY <1>4, <1>6, <1>8, OneValidatorGrows
<1>10. TypeOK'
  BY <1>1, <1>4, <1>9 DEF IInv, TypeOK
<1>11. ProposalsOK'
  BY <1>9, OldProposal DEF ProposalsOK
<1>12. VoteOK(v, b)'
  <2>1. sd'[v] = new
    BY <1>4 DEF IInv, TypeOK
  <2>2. Round(b) <= new.last_voted_round /\ Round(parent[b]) <= new.one_chain_round
    BY <1>1, <1>2, <1>5, <1>6, <1>7
  <2>3. \/ Round(b) = Round(parent[b]) + 1
        \/ \E h \in Rounds0 : TimeoutCert(Round(b) - 1, h) /\ h <= Round(parent[b])
    <3>1. CASE tc = NoTC
      BY <1>1, <1>2, <1>4, <3>1 DEF SafeToVote, NoTC
    <3>2. CASE /\ tc \in [round : Rounds, hqc_round : Rounds0]
               /\ TimeoutCert(tc.round, tc.hqc_round)
      <4>1. tc.round \in Nat /\ tc.hqc_round \in Nat /\ tc.hqc_round \in Rounds0
        BY <3>2, RoundsNat
      <4>2. CASE Round(b) = Round(parent[b]) + 1
        BY <4>2
      <4>3. CASE Round(b) = tc.round + 1 /\ Round(parent[b]) >= tc.hqc_round
        <5>1. Round(b) - 1 = tc.round /\ tc.hqc_round <= Round(parent[b])
          BY <1>1, <4>1, <4>3
        <5> QED BY <3>2, <4>1, <5>1
      <4> QED BY <1>2, <1>4, <4>2, <4>3 DEF SafeToVote
    <3> QED BY <3>1, <3>2 DEF TCs
  <2>4. \/ Round(b) = Round(parent[b]) + 1
        \/ \E h \in Rounds0 : TimeoutCert(Round(b) - 1, h)' /\ h <= Round(parent[b])
    BY <1>9, <2>3, CertificatesStay
  <2> QED BY <1>4, <1>9, <2>1, <2>2, <2>4 DEF VoteOK
<1>13. VotesOK'
  BY <1>4, <1>9, <1>12, OldVote DEF VotesOK
<1>14. OneVotePerRound'
  <2>1. \A c \in Blocks : <<v, c>> \in votes => Round(c) # Round(b)
    <3>1. \A c \in Blocks : <<v, c>> \in votes => Round(c) <= sd[v].last_voted_round
      BY DEF IInv, VotesOK, VoteOK
    <3>2. Round(b) > sd[v].last_voted_round
      BY <1>4 DEF AboveLastVotedRound
    <3> QED BY <1>1, <1>7, <3>1, <3>2, BlockRounds
  <2> QED BY <1>4, <2>1 DEF IInv, OneVotePerRound
<1>15. OrderVotesOK'
  BY <1>4, <1>9, OldOrderVote DEF OrderVotesOK
<1>16. TimeoutsOK'
  BY <1>4, <1>9, OldTimeout DEF TimeoutsOK
<1>17. TimeoutAfterOrderVote'
  BY <1>4 DEF IInv, TimeoutAfterOrderVote
<1>18. TimeoutAfterVote'
  <2>1. ASSUME NEW t \in timeouts, t.author = v, t.round >= Round(b) PROVE FALSE
    <3>1. t.round <= sd[v].last_voted_round
      BY <2>1 DEF IInv, TimeoutsOK, TimeoutOK
    <3>2. t.round \in Nat
      BY RoundsNat DEF IInv, TypeOK
    <3> QED BY <1>1, <1>4, <1>7, <2>1, <3>1, <3>2 DEF AboveLastVotedRound
  <2> QED BY <1>4, <2>1 DEF IInv, TimeoutAfterVote
<1> QED BY <1>10, <1>11, <1>13, <1>14, <1>15, <1>16, <1>17, <1>18 DEF IInv

\* An order vote.  Its author timed out in no round at or above the block's.
LEMMA OrderVoteStep ==
  ASSUME IInv, NEW v \in Honest, NEW b \in Proposed, OrderVoteFor(v, b)
  PROVE  IInv'
<1> DEFINE new == ObserveQC(sd[v], QCOf(b))
<1>1. b \in Blocks /\ Round(b) \in Nat
  BY BlockRounds
<1>2. sd[v] \in SafetyData
  BY DEF IInv, TypeOK
<1>3. /\ Certified(b)
      /\ SafeForOrderVote(Round(b), new)
      /\ sd' = [sd EXCEPT ![v] = new]
      /\ orderVotes' = orderVotes \cup {<<v, b>>}
      /\ UNCHANGED <<parent, ancestors, votes, timeouts>>
  BY DEF OrderVoteFor
<1>4. /\ new \in SafetyData
      /\ new.one_chain_round >= sd[v].one_chain_round
      /\ new.one_chain_round >= Round(b)
      /\ new.last_voted_round = sd[v].last_voted_round
      /\ new.highest_timeout_round = sd[v].highest_timeout_round
  BY <1>2, QCRounds, ObserveQCFacts
<1> HIDE DEF new
<1>5. /\ sd[v].last_voted_round \in Nat /\ sd[v].one_chain_round \in Nat
      /\ sd[v].highest_timeout_round \in Nat /\ new.one_chain_round \in Nat
  BY <1>2, <1>4, SafetyDataNat
<1>6. MovesUp(sd[v], new)
  BY <1>4, <1>5 DEF MovesUp
<1>7. Grows /\ sd' \in [Honest -> SafetyData] /\ Proposed' = Proposed
  BY <1>3, <1>4, <1>6, OneValidatorGrows
<1>8. TypeOK'
  BY <1>1, <1>3, <1>7 DEF IInv, TypeOK
<1>9. ProposalsOK'
  BY <1>7, OldProposal DEF ProposalsOK
<1>10. VotesOK'
  BY <1>3, <1>7, OldVote DEF VotesOK
<1>11. OneVotePerRound' /\ TimeoutAfterVote'
  BY <1>3 DEF IInv, OneVotePerRound, TimeoutAfterVote
<1>12. OrderVoteOK(v, b)'
  <2>1. sd'[v] = new
    BY <1>3 DEF IInv, TypeOK
  <2>2. Certified(b)'
    BY <1>3, <1>7, CertificatesStay
  <2>3. Round(b) <= new.one_chain_round
    BY <1>1, <1>4, <1>5
  <2> QED BY <1>7, <2>1, <2>2, <2>3 DEF OrderVoteOK
<1>13. OrderVotesOK'
  BY <1>3, <1>7, <1>12, OldOrderVote DEF OrderVotesOK
<1>14. TimeoutsOK'
  BY <1>3, <1>7, OldTimeout DEF TimeoutsOK
<1>15. TimeoutAfterOrderVote'
  <2>1. ASSUME NEW t \in timeouts, t.author = v, t.round >= Round(b) PROVE FALSE
    <3>1. t.round <= sd[v].highest_timeout_round
      BY <2>1 DEF IInv, TimeoutsOK, TimeoutOK
    <3>2. t.round \in Nat
      BY RoundsNat DEF IInv, TypeOK
    <3> QED BY <1>1, <1>3, <1>4, <1>5, <2>1, <3>1, <3>2 DEF SafeForOrderVote
  <2> QED BY <1>3, <2>1 DEF IInv, TimeoutAfterOrderVote
<1> QED BY <1>8, <1>9, <1>10, <1>11, <1>13, <1>14, <1>15 DEF IInv

\* A timeout.  The certificate it carries is at least its author's one_chain_round, which
\* covers every block the author order-voted and every parent of a block it voted for.
LEMMA TimeoutStep ==
  ASSUME IInv, NEW v \in Honest, NEW r \in Rounds, NEW h \in Rounds0, NEW tc \in TCs,
         TimeoutAt(v, r, h, tc)
  PROVE  IInv'
<1> DEFINE new == RecordTimeout(sd[v], r)
           msg == [author |-> v, round |-> r, hqc_round |-> h]
<1>1. r \in Rounds0 /\ r \in Nat /\ h \in Nat
  BY RoundsNat
<1>2. sd[v] \in SafetyData
  BY DEF IInv, TypeOK
<1>3. /\ h >= sd[v].one_chain_round
      /\ sd' = [sd EXCEPT ![v] = new]
      /\ timeouts' = timeouts \cup {msg}
      /\ UNCHANGED <<parent, ancestors, votes, orderVotes>>
  BY DEF TimeoutAt, SafeToTimeout
<1>4. /\ new \in SafetyData
      /\ new.one_chain_round = sd[v].one_chain_round
      /\ new.last_voted_round >= sd[v].last_voted_round
      /\ new.last_voted_round >= r
      /\ new.highest_timeout_round >= sd[v].highest_timeout_round
      /\ new.highest_timeout_round >= r
  BY <1>1, <1>2, RecordTimeoutFacts
<1> HIDE DEF new
<1>5. /\ sd[v].last_voted_round \in Nat /\ sd[v].one_chain_round \in Nat
      /\ sd[v].highest_timeout_round \in Nat
      /\ new.last_voted_round \in Nat /\ new.highest_timeout_round \in Nat
  BY <1>2, <1>4, SafetyDataNat
<1>6. MovesUp(sd[v], new)
  BY <1>4, <1>5 DEF MovesUp
<1>7. /\ msg \in [author : Honest, round : Rounds, hqc_round : Rounds0]
      /\ msg.author = v /\ msg.round = r /\ msg.hqc_round = h
  OBVIOUS
<1> HIDE DEF msg
<1>8. Grows /\ sd' \in [Honest -> SafetyData] /\ Proposed' = Proposed
  BY <1>3, <1>4, <1>6, OneValidatorGrows
<1>9. TypeOK'
  BY <1>3, <1>7, <1>8 DEF IInv, TypeOK
<1>10. ProposalsOK'
  BY <1>8, OldProposal DEF ProposalsOK
<1>11. VotesOK'
  BY <1>3, <1>8, OldVote DEF VotesOK
<1>12. OneVotePerRound'
  BY <1>3 DEF IInv, OneVotePerRound
<1>13. OrderVotesOK'
  BY <1>3, <1>8, OldOrderVote DEF OrderVotesOK
<1>14. TimeoutsOK'
  <2>1. sd'[v] = new
    BY <1>3 DEF IInv, TypeOK
  <2>2. TimeoutOK(msg)'
    BY <1>1, <1>4, <1>5, <1>7, <2>1 DEF TimeoutOK, msg
  <2> QED BY <1>3, <1>8, <2>2, OldTimeout DEF TimeoutsOK
<1>15. TimeoutAfterOrderVote'
  <2>1. \A b \in Blocks : <<v, b>> \in orderVotes => h >= Round(b)
    <3>1. \A b \in Blocks : <<v, b>> \in orderVotes => Round(b) <= sd[v].one_chain_round
      BY DEF IInv, OrderVotesOK, OrderVoteOK
    <3> QED BY <1>1, <1>3, <1>5, <3>1, BlockRounds
  <2> QED BY <1>3, <1>7, <2>1 DEF IInv, TimeoutAfterOrderVote
<1>16. TimeoutAfterVote'
  <2>1. ASSUME NEW b \in Blocks, <<v, b>> \in votes PROVE h >= Round(parent[b])
    <3>1. b \in Proposed /\ Round(parent[b]) <= sd[v].one_chain_round
      BY <2>1 DEF IInv, VotesOK, VoteOK
    <3>2. Round(parent[b]) \in Nat
      BY <3>1, BlockRounds DEF IInv, ProposalsOK, ProposalOK
    <3> QED BY <1>1, <1>3, <1>5, <3>1, <3>2
  <2> QED BY <1>3, <1>7, <2>1 DEF IInv, TimeoutAfterVote
<1> QED BY <1>9, <1>10, <1>11, <1>12, <1>13, <1>14, <1>15, <1>16 DEF IInv

----------------------------------------------------------------------------
\* Nothing is proposed or signed yet.
LEMMA InitInv == Init => IInv
<1> SUFFICES ASSUME Init PROVE IInv
  OBVIOUS
<1>1. FreshSafetyData(1) \in SafetyData
  BY RoundsNat DEF FreshSafetyData, SafetyData
<1>2. TypeOK
  BY <1>1 DEF Init, TypeOK
<1>3. Proposed = {}
  BY DEF Init, Proposed
<1>4. ProposalsOK
  BY <1>3 DEF ProposalsOK
<1>5. VotesOK /\ OneVotePerRound /\ OrderVotesOK /\ TimeoutsOK
  BY DEF Init, VotesOK, OneVotePerRound, OrderVotesOK, TimeoutsOK
<1>6. TimeoutAfterOrderVote /\ TimeoutAfterVote
  BY DEF Init, TimeoutAfterOrderVote, TimeoutAfterVote
<1> QED BY <1>2, <1>4, <1>5, <1>6 DEF IInv

\* Stuttering.
LEMMA StutterStep ==
  ASSUME IInv, UNCHANGED vars
  PROVE  IInv'
<1>1. Proposed' = Proposed /\ (\A b : Certified(b)' <=> Certified(b))
  BY DEF vars, Proposed, Certified
<1>2. \A h : CertifiedRound(h)' <=> CertifiedRound(h)
  BY <1>1 DEF CertifiedRound
<1>3. \A r, h : TimeoutCert(r, h)' <=> TimeoutCert(r, h)
  BY <1>2 DEF TimeoutCert, vars
<1>4. TypeOK' /\ OneVotePerRound' /\ TimeoutAfterOrderVote' /\ TimeoutAfterVote' /\ TimeoutsOK'
  BY DEF IInv, vars, TypeOK, OneVotePerRound, TimeoutAfterOrderVote, TimeoutAfterVote,
         TimeoutsOK, TimeoutOK
<1>5. ProposalsOK'
  BY <1>1 DEF IInv, vars, ProposalsOK, ProposalOK, Below, Certified
<1>6. VotesOK'
  BY <1>1, <1>3 DEF IInv, vars, VotesOK, VoteOK
<1>7. OrderVotesOK'
  BY <1>1 DEF IInv, vars, OrderVotesOK, OrderVoteOK
<1> QED BY <1>4, <1>5, <1>6, <1>7 DEF IInv

\* Every reachable state satisfies the inductive invariant: each message an honest
\* validator signed was allowed by TwoChainRules and is remembered in its SafetyData.
THEOREM Invariance == Spec => []IInv
<1>1. Init => IInv
  BY InitInv
<1>2. IInv /\ [Next]_vars => IInv'
  <2> SUFFICES ASSUME IInv, [Next]_vars PROVE IInv'
    OBVIOUS
  <2>1. CASE UNCHANGED vars
    BY <2>1, StutterStep
  <2>2. CASE Next
    <3>1. ASSUME NEW b \in Blocks, NEW p \in Proposed \cup {Genesis}, Propose(b, p)
          PROVE  IInv'
      BY <3>1, ProposeStep
    <3>2. ASSUME NEW v \in Honest, NEW b \in Proposed, OrderVoteFor(v, b)
          PROVE  IInv'
      BY <3>2, OrderVoteStep
    <3>3. ASSUME NEW v \in Honest, NEW b \in Proposed, NEW tc \in TCs, VoteFor(v, b, tc)
          PROVE  IInv'
      BY <3>3, VoteStep
    <3>4. ASSUME NEW v \in Honest, NEW r \in Rounds, NEW h \in Rounds0, NEW tc \in TCs,
                 TimeoutAt(v, r, h, tc)
          PROVE  IInv'
      BY <3>4, TimeoutStep
    <3> QED BY <2>2, <3>1, <3>2, <3>3, <3>4 DEF Next
  <2> QED BY <2>1, <2>2
<1> QED BY <1>1, <1>2, PTL DEF Spec

\* No two blocks of one round are certified, for every quorum system in which two quorums
\* share an honest validator.
THEOREM CertifiedOncePerRound == Spec => []OneQCPerRound
  BY Invariance, QCUnique, PTL

\* Every certified block at or above an ordered one extends it.
THEOREM OrderedBlocksStay == Spec => []OrderedIsSafe
  BY Invariance, OrderedSafe, PTL

\* The blocks that honest validators order, by order votes or by the 2-chain rule, lie on
\* one chain: the safety of the protocol.
THEOREM AgreementHolds == Spec => []Agreement
  BY Invariance, OrderedAgree, PTL
=============================================================================
