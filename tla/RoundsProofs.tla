---------------------------- MODULE RoundsProofs ----------------------------
(***************************************************************************)
(* Proofs about the rounds of AptosBFT (RoundManager) and of the DAG       *)
(* (DagBroadcast).                                                         *)
(*                                                                         *)
(* Every event of the round manager is a composition of operators on the   *)
(* state of the validator, so its inductive invariant is an operator on    *)
(* such a state, Sound(n), and each operator of RoundManager has a lemma   *)
(* saying that it keeps it.                                                *)
(*                                                                         *)
(* In the DAG, certified nodes are unique in the rounds that the honest    *)
(* validators keep, for every quorum system in which two quorums share an  *)
(* honest validator, every window and every set of rounds.  The inductive  *)
(* invariant is DagTypeOK /\ VotesAgree.  A vote leaves the memory, and    *)
(* then the database, only once its round is below the DAG; from that      *)
(* round up the four places where a vote may be, in memory, in the         *)
(* database, in a task that has saved it and on the network, hold the same *)
(* ones, so that a second vote for the round and author finds the first.   *)
(* Below it that is false, see OriginalAck.                                *)
(***************************************************************************)
EXTENDS RoundManager, DagBroadcast, FiniteSetTheorems, WellFoundedInduction, TLAPS

----------------------------------------------------------------------------
(* The inductive invariant *)

VoteRecords == [block : Blocks, hqc_round : {NoTimeout} \cup (0 .. MaxRound)]
TimeoutCerts == {NoTC} \cup [round : Rounds, hqc_round : 0 .. MaxRound]
SafetyDatas ==
  [epoch : {1}, last_voted_round : 0 .. MaxRound, preferred_round : {0}, one_chain_round : 0 .. MaxRound,
   last_vote : {None} \cup Blocks, highest_timeout_round : 0 .. MaxRound]
Nodes ==
  [hqc : 0 .. MaxRound, htc : TimeoutCerts, hoc : 0 .. MaxRound, current_round : 0 .. MaxRound + 1,
   pending : [Validators -> {None} \cup VoteRecords],
   partial_tc : SUBSET [author : Validators, hqc_round : 0 .. MaxRound],
   echo_timeout : BOOLEAN, vote_sent : {None} \cup VoteRecords, sd : SafetyDatas,
   saved_vote : {None} \cup Blocks,
   futures : SUBSET Proposals, resending : SUBSET Proposals, buffered : SUBSET Proposals,
   already_proposed : {None} \cup Proposals,
   order_votes : SUBSET [round : Rounds, voters : SUBSET Validators, enough : BOOLEAN],
   sent : SUBSET VoteRecords]

\* The highest quorum certificate bounds whatever was ordered, voted for, reported in a timeout
\* or proposed.
CertsInv(n) ==
  /\ n.hoc <= n.hqc
  /\ n.htc.hqc_round <= n.hqc
  /\ n.sd.one_chain_round <= n.hqc
  /\ \A t \in n.partial_tc : t.hqc_round <= n.hqc
  /\ \A b \in n.futures \cup n.resending \cup n.buffered : b.qc.round <= n.hqc /\ b.round <= n.current_round

\* The block is of a round before the last vote's, or it is the last vote.
Remembered(n, b) ==
  /\ n.sd.last_vote # None
  /\ b.round <= n.sd.last_vote.round
  /\ b.round = n.sd.last_vote.round => b = n.sd.last_vote

\* The safety data remember the last vote whatever crashed: what was sent or saved before is of
\* an earlier round or is that vote.
VotesInv(n) ==
  /\ n.sd.last_vote = None => n.sd.last_voted_round = 0
  /\ n.sd.last_vote # None =>
       n.sd.last_voted_round = n.sd.last_vote.round /\ n.sd.last_vote.round <= n.current_round
  /\ n.saved_vote # None => Remembered(n, n.saved_vote)
  /\ n.vote_sent # None =>
       /\ n.sd.last_vote # None /\ n.vote_sent.block = n.sd.last_vote
       /\ n.vote_sent.block.round = n.current_round
       /\ n.vote_sent.hqc_round # NoTimeout => n.vote_sent \in n.sent
  /\ \A v \in n.sent : Remembered(n, v.block)
  /\ \A v, u \in n.sent : v.block.round = u.block.round => v.block = u.block

\* What is pending is of the current round, and a timeout of an author is one of the votes.
PendingInv(n) ==
  /\ \A a \in Validators : n.pending[a] # None => n.pending[a].block.round = n.current_round
  /\ \A t \in n.partial_tc : n.pending[t.author] # None /\ n.pending[t.author].hqc_round # NoTimeout
  /\ \A t, u \in n.partial_tc : t.author = u.author => t = u

\* Before process_certificates the round may be behind.
Behind(n) ==
  /\ n \in Nodes /\ CertsInv(n) /\ VotesInv(n) /\ PendingInv(n)
  /\ n.current_round <= HighestRound(n) + 1

Sound(n) == Behind(n) /\ n.current_round = HighestRound(n) + 1

\* The validator has sent a timeout of the round it is in.
Joined(n) == \E v \in n.sent : v.block.round = n.current_round /\ v.hqc_round # NoTimeout

\* It has if f + 1 others did, or if it set echo_timeout.
Joins(n) ==
  /\ n.echo_timeout => Joined(n)
  /\ Cardinality(n.partial_tc) >= FPlusOne => Joined(n)

----------------------------------------------------------------------------
(* Blocks, votes and maxima *)

LEMMA BlocksTyped ==
  ASSUME NEW b \in Blocks
  PROVE  /\ b.round \in Rounds /\ b.qc.round \in 0 .. MaxRound
         /\ b.qc.round < b.round /\ b.qc.parent_round = 0
BY RoundManagerAssumption DEF Blocks, Proposals, BlockRounds, Block, Rounds

LEMMA ProposalsAreBlocks == Proposals \subseteq Blocks
BY DEF Blocks

LEMMA BlockIsProposal ==
  ASSUME NEW r \in Rounds, NEW q \in 0 .. MaxRound, q < r
  PROVE  Block(r, q, FALSE) \in Proposals
<1> DEFINE p == <<r, q>>
<1>1. p \in BlockRounds /\ p[1] = r /\ p[2] = q
  BY DEF BlockRounds
<1> HIDE DEF p
<1> QED BY <1>1 DEF Proposals

LEMMA NilIsBlock ==
  ASSUME NEW r \in Rounds, NEW q \in 0 .. MaxRound, q < r
  PROVE  Block(r, q, TRUE) \in Blocks
<1> DEFINE p == <<r, q>>
<1>1. p \in BlockRounds /\ p[1] = r /\ p[2] = q
  BY DEF BlockRounds
<1> HIDE DEF p
<1> QED BY <1>1 DEF Blocks

\* A set of rounds with a member has a largest one.
LEMMA MaxOfRounds ==
  ASSUME NEW S \in SUBSET (0 .. MaxRound), S # {}
  PROVE  Max(S) \in S
<1> DEFINE Gaps == {MaxRound - x : x \in S}
<1>1. Gaps \subseteq Nat /\ Gaps # {}
  BY RoundManagerAssumption
<1>2. PICK g \in Gaps : \A y \in Gaps : ~(<<y, g>> \in OpToRel(<, Nat))
  BY <1>1, NatLessThanWellFounded, WFMin, Zenon
<1>3. \A y \in Gaps : ~(y < g)
  BY <1>1, <1>2 DEF OpToRel
<1>4. PICK x \in S : g = MaxRound - x
  OBVIOUS
<1>5. \A y \in S : x >= y
  BY SMTT(30), <1>3, <1>4, RoundManagerAssumption
<1> QED BY <1>5 DEF Max

----------------------------------------------------------------------------
(* Rounds and certificates *)

LEMMA HighestRoundTyped ==
  ASSUME NEW n \in Nodes
  PROVE  /\ n.htc.round \in 0 .. MaxRound /\ n.htc.hqc_round \in 0 .. MaxRound
         /\ HighestRound(n) \in 0 .. MaxRound
         /\ HighestRound(n) >= n.hqc /\ HighestRound(n) >= n.htc.round
         /\ HighestRound(n) = n.hqc \/ HighestRound(n) = n.htc.round
BY RoundManagerAssumption DEF Nodes, TimeoutCerts, NoTC, Rounds, HighestRound, Higher

LEMMA FPlusOneTyped == FPlusOne \in Nat \ {0}
<1>1. Cardinality(Validators) \in Nat
  BY RoundManagerAssumption, FS_CardinalityType
<1> QED BY <1>1, RoundManagerAssumption DEF FPlusOne

LEMMA JoinsKept ==
  ASSUME NEW n, Joins(n), NEW m, m.partial_tc = n.partial_tc, m.echo_timeout = n.echo_timeout,
         m.current_round = n.current_round, n.sent \subseteq m.sent
  PROVE  Joins(m)
BY DEF Joins, Joined

LEMMA JoinsAfresh ==
  ASSUME NEW m, m.partial_tc = {}, m.echo_timeout = FALSE
  PROVE  Joins(m)
<1>1. Cardinality({}) = 0
  BY FS_EmptySet
<1> QED BY <1>1, FPlusOneTyped DEF Joins

\* What a new round starts with.
LEMMA NewRoundTyped ==
  ASSUME NEW n \in Nodes, ~(HighestRound(n) + 1 <= n.current_round)
  PROVE  LET m == ProcessCertificates(n) IN
         /\ m \in Nodes
         /\ m.hqc = n.hqc /\ m.htc = n.htc /\ m.hoc = n.hoc /\ m.current_round = HighestRound(n) + 1
         /\ m.pending = NoVotes /\ m.partial_tc = {} /\ m.echo_timeout = FALSE /\ m.vote_sent = None
         /\ m.sd = n.sd /\ m.saved_vote = n.saved_vote /\ m.sent = n.sent
         /\ m.futures = n.futures /\ m.resending = n.resending /\ m.buffered = n.buffered
<1> DEFINE m == [n EXCEPT !.current_round = HighestRound(n) + 1,
                 !.pending = NoVotes, !.partial_tc = {}, !.echo_timeout = FALSE,
                 !.vote_sent = None, !.order_votes = GarbageCollect(@, n.hoc)]
<1>1. ProcessCertificates(n) = m
  BY DEF ProcessCertificates
<1>2. /\ m.hqc = n.hqc /\ m.htc = n.htc /\ m.hoc = n.hoc /\ m.current_round = HighestRound(n) + 1
      /\ m.pending = NoVotes /\ m.partial_tc = {} /\ m.echo_timeout = FALSE /\ m.vote_sent = None
      /\ m.sd = n.sd /\ m.saved_vote = n.saved_vote /\ m.sent = n.sent
      /\ m.futures = n.futures /\ m.resending = n.resending /\ m.buffered = n.buffered
  BY DEF Nodes
<1>3. m \in Nodes
  <2>1. NoVotes \in [Validators -> {None} \cup VoteRecords]
    BY DEF NoVotes
  <2>2. GarbageCollect(n.order_votes, n.hoc) \subseteq n.order_votes
    BY DEF GarbageCollect
  <2>3. HighestRound(n) + 1 \in 0 .. MaxRound + 1
    BY HighestRoundTyped, RoundManagerAssumption
  <2>4. GarbageCollect(n.order_votes, n.hoc) \in SUBSET [round : Rounds, voters : SUBSET Validators, enough : BOOLEAN]
    BY <2>2 DEF Nodes
  <2> QED BY <2>1, <2>3, <2>4 DEF Nodes
<1> QED BY <1>1, <1>2, <1>3

LEMMA ProcessCertificatesSound ==
  ASSUME NEW n, Behind(n)
  PROVE  LET m == ProcessCertificates(n) IN
         /\ Sound(m) /\ m.hqc = n.hqc /\ m.hoc = n.hoc
         /\ Joins(n) \/ n.current_round # HighestRound(n) + 1 => Joins(m)
<1>1. n \in Nodes /\ HighestRound(n) \in 0 .. MaxRound /\ n.current_round \in Int
  BY HighestRoundTyped DEF Behind, Nodes
<1>2. CASE HighestRound(n) + 1 <= n.current_round
  <2>1. n.current_round = HighestRound(n) + 1
    BY <1>1, <1>2 DEF Behind
  <2> QED BY <1>2, <2>1 DEF ProcessCertificates, Sound
<1>3. CASE ~(HighestRound(n) + 1 <= n.current_round)
  <2> DEFINE m == ProcessCertificates(n)
  <2>2. /\ m \in Nodes
        /\ m.hqc = n.hqc /\ m.htc = n.htc /\ m.hoc = n.hoc /\ m.current_round = HighestRound(n) + 1
        /\ m.pending = NoVotes /\ m.partial_tc = {} /\ m.echo_timeout = FALSE /\ m.vote_sent = None
        /\ m.sd = n.sd /\ m.saved_vote = n.saved_vote /\ m.sent = n.sent
        /\ m.futures = n.futures /\ m.resending = n.resending /\ m.buffered = n.buffered
    BY <1>1, <1>3, NewRoundTyped
  <2> HIDE DEF m
  <2>4. HighestRound(m) = HighestRound(n)
    BY <2>2 DEF HighestRound
  <2>5. CertsInv(m)
    <3>1. \A b \in m.futures \cup m.resending \cup m.buffered : b.round \in Int
      BY <1>1, <2>2, BlocksTyped, ProposalsAreBlocks DEF Nodes, Rounds
    <3> QED BY <1>1, <1>3, <2>2, <3>1 DEF Behind, CertsInv
  <2>6. VotesInv(m)
    <3>1. n.sd.last_vote # None => n.sd.last_vote.round \in Int
      BY <1>1, BlocksTyped DEF Nodes, SafetyDatas, Rounds
    <3>2. \A b : Remembered(n, b) => Remembered(m, b)
      BY <2>2 DEF Remembered
    <3> QED BY <1>1, <1>3, <2>2, <3>1, <3>2 DEF Behind, VotesInv
  <2>7. PendingInv(m)
    BY <2>2 DEF PendingInv, NoVotes
  <2>8. Joins(m)
    BY <2>2, JoinsAfresh
  <2> QED BY <1>1, <2>2, <2>4, <2>5, <2>6, <2>7, <2>8 DEF Sound, Behind, m
<1> QED BY <1>2, <1>3

\* Certificates may be added as long as the highest quorum certificate stays above the others.
LEMMA CertsRaised ==
  ASSUME NEW n, Behind(n), NEW m \in Nodes,
         m.hqc >= n.hqc, m.htc.round >= n.htc.round, m.hoc <= m.hqc, m.htc.hqc_round <= m.hqc,
         m.current_round = n.current_round, m.pending = n.pending, m.partial_tc = n.partial_tc,
         m.vote_sent = n.vote_sent, m.sd = n.sd, m.saved_vote = n.saved_vote, m.sent = n.sent,
         m.futures = n.futures, m.resending = n.resending, m.buffered = n.buffered
  PROVE  Behind(m)
<1>1. n \in Nodes
  BY DEF Behind
<1>2. CertsInv(m)
  <2>1. \A b \in n.futures \cup n.resending \cup n.buffered : b.qc.round \in Int
    BY <1>1, BlocksTyped, ProposalsAreBlocks DEF Nodes
  <2>2. n.sd.one_chain_round \in Int /\ \A t \in n.partial_tc : t.hqc_round \in Int
    BY <1>1 DEF Nodes, SafetyDatas
  <2>3. m.hqc \in Int /\ n.hqc \in Int
    BY <1>1 DEF Nodes
  <2> QED BY <2>1, <2>2, <2>3 DEF Behind, CertsInv
<1>3. VotesInv(m)
  <2>1. \A b : Remembered(n, b) => Remembered(m, b)
    BY DEF Remembered
  <2> QED BY <2>1 DEF Behind, VotesInv
<1>4. PendingInv(m)
  BY DEF Behind, PendingInv
<1>5. m.current_round <= HighestRound(m) + 1
  <2>1. n.current_round \in Int /\ n.hqc \in Int /\ m.hqc \in Int
    BY <1>1 DEF Nodes
  <2>2. HighestRound(n) <= HighestRound(m)
    BY <1>1, <2>1, HighestRoundTyped
  <2>3. HighestRound(n) \in Int /\ HighestRound(m) \in Int
    BY <1>1, HighestRoundTyped
  <2> QED BY <2>1, <2>2, <2>3 DEF Behind
<1> QED BY <1>2, <1>3, <1>4, <1>5 DEF Behind

LEMMA InsertQuorumCertBehind ==
  ASSUME NEW n, Behind(n), NEW r \in 0 .. MaxRound
  PROVE  /\ Behind(InsertQuorumCert(n, r))
         /\ InsertQuorumCert(n, r).hqc >= n.hqc /\ InsertQuorumCert(n, r).hqc >= r
         /\ Joins(n) => Joins(InsertQuorumCert(n, r))
<1> DEFINE m == InsertQuorumCert(n, r)
<1>1. n \in Nodes /\ n.hqc \in Int /\ n.hoc \in Int /\ n.htc.hqc_round \in Int /\ n.htc.round \in Int
  BY HighestRoundTyped DEF Behind, Nodes
<1>2. m.hqc = Higher(n.hqc, r)
  BY <1>1 DEF InsertQuorumCert, Nodes
<1>3. m.hqc >= n.hqc /\ m.hqc >= r /\ m.hqc \in 0 .. MaxRound
  BY <1>1, <1>2 DEF Higher, Nodes
<1>4. /\ m.htc = n.htc /\ m.hoc = n.hoc /\ m.current_round = n.current_round
      /\ m.pending = n.pending /\ m.partial_tc = n.partial_tc /\ m.echo_timeout = n.echo_timeout
      /\ m.vote_sent = n.vote_sent /\ m.sd = n.sd /\ m.saved_vote = n.saved_vote /\ m.sent = n.sent
      /\ m.futures = n.futures /\ m.resending = n.resending /\ m.buffered = n.buffered
  BY <1>1 DEF InsertQuorumCert, Nodes
<1>5. m \in Nodes
  BY <1>1, <1>2, <1>3 DEF InsertQuorumCert, Nodes
<1>6. n.hoc <= n.hqc /\ n.htc.hqc_round <= n.hqc
  BY DEF Behind, CertsInv
<1> HIDE DEF m
<1>7. Behind(m)
  BY <1>1, <1>3, <1>4, <1>5, <1>6, CertsRaised, m.hqc \in Int
<1> QED BY <1>3, <1>4, <1>7, JoinsKept DEF m

LEMMA InsertOrderedCertBehind ==
  ASSUME NEW n, Behind(n), NEW r \in 0 .. MaxRound, r <= n.hqc
  PROVE  /\ Behind(InsertOrderedCert(n, r)) /\ InsertOrderedCert(n, r).hqc = n.hqc
         /\ Joins(n) => Joins(InsertOrderedCert(n, r))
<1> DEFINE m == InsertOrderedCert(n, r)
<1>1. n \in Nodes /\ n.hqc \in Int /\ n.hoc \in Int /\ n.htc.hqc_round \in Int /\ n.htc.round \in Int
  BY HighestRoundTyped DEF Behind, Nodes
<1>2. m.hoc = Higher(n.hoc, r)
  BY <1>1 DEF InsertOrderedCert, Nodes
<1>3. n.hoc <= n.hqc /\ n.htc.hqc_round <= n.hqc
  BY DEF Behind, CertsInv
<1>4. m.hoc <= n.hqc /\ m.hoc \in 0 .. MaxRound
  BY <1>1, <1>2, <1>3 DEF Higher, Nodes
<1>5. /\ m.htc = n.htc /\ m.hqc = n.hqc /\ m.current_round = n.current_round
      /\ m.pending = n.pending /\ m.partial_tc = n.partial_tc /\ m.echo_timeout = n.echo_timeout
      /\ m.vote_sent = n.vote_sent /\ m.sd = n.sd /\ m.saved_vote = n.saved_vote /\ m.sent = n.sent
      /\ m.futures = n.futures /\ m.resending = n.resending /\ m.buffered = n.buffered
  BY <1>1 DEF InsertOrderedCert, Nodes
<1>6. m \in Nodes
  BY <1>1, <1>2, <1>4 DEF InsertOrderedCert, Nodes
<1> HIDE DEF m
<1>7. Behind(m)
  BY <1>1, <1>3, <1>4, <1>5, <1>6, CertsRaised
<1> QED BY <1>5, <1>7, JoinsKept DEF m

LEMMA InsertTimeoutCertBehind ==
  ASSUME NEW n, Behind(n), NEW tc \in TimeoutCerts, tc.hqc_round <= n.hqc
  PROVE  /\ Behind(InsertTimeoutCert(n, tc)) /\ InsertTimeoutCert(n, tc).hqc = n.hqc
         /\ InsertTimeoutCert(n, tc).htc.round >= tc.round
         /\ InsertTimeoutCert(n, tc).current_round = n.current_round
         /\ Joins(n) => Joins(InsertTimeoutCert(n, tc))
<1> DEFINE m == InsertTimeoutCert(n, tc)
<1>1. n \in Nodes /\ n.hqc \in Int /\ n.hoc \in Int /\ n.htc.hqc_round \in Int /\ n.htc.round \in Int
  BY HighestRoundTyped DEF Behind, Nodes
<1>2. m.htc = IF tc.round > n.htc.round THEN tc ELSE n.htc
  BY <1>1 DEF InsertTimeoutCert, Nodes
<1>3. n.hoc <= n.hqc /\ n.htc.hqc_round <= n.hqc
  BY DEF Behind, CertsInv
<1>4. tc.round \in Int
  BY DEF TimeoutCerts, NoTC, Rounds
<1>5. /\ m.htc \in TimeoutCerts /\ m.htc.round >= n.htc.round /\ m.htc.round >= tc.round
      /\ m.htc.hqc_round <= n.hqc
  BY <1>1, <1>2, <1>3, <1>4 DEF Nodes
<1>6. /\ m.hqc = n.hqc /\ m.hoc = n.hoc /\ m.current_round = n.current_round
      /\ m.pending = n.pending /\ m.partial_tc = n.partial_tc /\ m.echo_timeout = n.echo_timeout
      /\ m.vote_sent = n.vote_sent /\ m.sd = n.sd /\ m.saved_vote = n.saved_vote /\ m.sent = n.sent
      /\ m.futures = n.futures /\ m.resending = n.resending /\ m.buffered = n.buffered
  BY <1>1 DEF InsertTimeoutCert, Nodes
<1>7. m \in Nodes
  BY <1>1, <1>2, <1>5 DEF InsertTimeoutCert, Nodes
<1> HIDE DEF m
<1>8. Behind(m)
  BY <1>1, <1>3, <1>5, <1>6, <1>7, CertsRaised
<1> QED BY <1>5, <1>6, <1>8, JoinsKept DEF m

LEMMA SyncInfoTyped ==
  ASSUME NEW si \in SyncInfos
  PROVE  /\ si.hqc \in 0 .. MaxRound /\ si.hoc \in 0 .. MaxRound /\ si.htc \in TimeoutCerts
         /\ si.hoc <= si.hqc /\ si.htc.hqc_round <= si.hqc
         /\ si.htc.round \in 0 .. MaxRound /\ si.htc.hqc_round \in 0 .. MaxRound
<1>1. /\ si.hqc \in 0 .. MaxRound /\ si.hoc \in 0 .. MaxRound /\ si.htc \in TimeoutCerts
      /\ si.hoc <= si.hqc
      /\ si.htc = NoTC \/ (si.htc.round > si.hqc /\ si.htc.hqc_round <= si.hqc)
  BY DEF SyncInfos, TimeoutCerts
<1> QED BY <1>1, RoundManagerAssumption DEF TimeoutCerts, NoTC, Rounds

\* Whatever part of a SyncInfo was added.
LEMMA AddCertsBehind ==
  ASSUME NEW n, Behind(n), NEW si \in SyncInfos, NEW k \in 0 .. Added
  PROVE  /\ Behind(AddCerts(n, si, k))
         /\ AddCerts(n, si, k).hqc >= n.hqc
         /\ k = Added => AddCerts(n, si, k).hqc >= si.hqc
         /\ Joins(n) => Joins(AddCerts(n, si, k))
<1> DEFINE q == IF k >= 1 THEN InsertQuorumCert(n, si.hqc) ELSE n
           o == IF k >= 2 THEN InsertOrderedCert(q, si.hoc) ELSE q
           t == IF k >= 3 THEN InsertTimeoutCert(o, si.htc) ELSE o
<1>1. AddCerts(n, si, k) = t
  BY DEF AddCerts
<1>2. n.hqc \in Int
  BY DEF Behind, Nodes
<1>3. Behind(q) /\ q.hqc >= n.hqc /\ (k >= 1 => q.hqc >= si.hqc) /\ (Joins(n) => Joins(q))
  BY <1>2, SyncInfoTyped, InsertQuorumCertBehind DEF Added
<1> HIDE DEF q
<1>4. q.hqc \in Int
  BY <1>3 DEF Behind, Nodes
<1>5. Behind(o) /\ o.hqc = q.hqc /\ (Joins(q) => Joins(o))
  BY <1>3, <1>4, SyncInfoTyped, InsertOrderedCertBehind DEF Added
<1> HIDE DEF o
<1>6. Behind(t) /\ t.hqc = q.hqc /\ (Joins(o) => Joins(t))
  <2>1. CASE k >= 3
    <3>1. si.htc.hqc_round <= o.hqc
      BY <1>3, <1>4, <1>5, <2>1, SyncInfoTyped
    <3> QED BY <1>5, <2>1, <3>1, SyncInfoTyped, InsertTimeoutCertBehind
  <2> QED BY <1>5, <2>1
<1> QED BY <1>1, <1>3, <1>5, <1>6 DEF Added

LEMMA SyncUpSound ==
  ASSUME NEW n, Sound(n), NEW si \in SyncInfos, NEW k \in 0 .. Added
  PROVE  /\ Sound(SyncUp(n, si, k))
         /\ k = Added \/ ~HasNewerCertificates(si, n) => SyncUp(n, si, k).hqc >= si.hqc
         /\ Joins(n) => Joins(SyncUp(n, si, k))
<1>1. CASE HasNewerCertificates(si, n)
  BY <1>1, AddCertsBehind, ProcessCertificatesSound DEF SyncUp, Sound
<1>2. CASE ~HasNewerCertificates(si, n)
  <2>1. SyncUp(n, si, k) = n /\ ~(si.hqc > n.hqc)
    BY <1>2 DEF SyncUp, HasNewerCertificates
  <2>2. n.hqc \in Int /\ si.hqc \in Int
    BY SyncInfoTyped DEF Sound, Behind, Nodes
  <2> QED BY <2>1, <2>2
<1> QED BY <1>1, <1>2

----------------------------------------------------------------------------
(* VoteRecords *)

LEMMA ObserveQCTyped ==
  ASSUME NEW sd \in SafetyDatas, NEW qc, qc.round \in 0 .. MaxRound, qc.parent_round = 0
  PROVE  LET o == ObserveQC(sd, qc) IN
         /\ o \in SafetyDatas /\ o.one_chain_round = Higher(sd.one_chain_round, qc.round)
         /\ o.last_vote = sd.last_vote /\ o.last_voted_round = sd.last_voted_round
<1>1. Higher(sd.one_chain_round, qc.round) \in 0 .. MaxRound /\ Higher(sd.preferred_round, 0) = 0
  BY DEF Higher, SafetyDatas
<1> QED BY <1>1 DEF ObserveQC, SafetyDatas

\* The first vote of a round is remembered before it can be saved or sent.
LEMMA SafetySignSound ==
  ASSUME NEW n, Sound(n), NEW b \in Blocks, b.round <= n.current_round, b.qc.round <= n.hqc,
         n.vote_sent = None, SafetyAccepts(n, b)
  PROVE  LET m == SafetySign(n, b) IN
         /\ Sound(m)
         /\ m.sd.last_vote # None /\ m.sd.last_vote = SignedBlock(n, b) /\ m.sd.last_vote.round = b.round
         /\ m.vote_sent = None /\ m.current_round = n.current_round /\ m.hqc = n.hqc /\ m.htc = n.htc
         /\ m.sent = n.sent /\ m.partial_tc = n.partial_tc /\ m.echo_timeout = n.echo_timeout
<1>1. CASE VotedInRound(n, b)
  BY <1>1 DEF SafetySign, SignedBlock, VotedInRound
<1>2. CASE ~VotedInRound(n, b)
  <2> DEFINE o == ObserveQC(n.sd, b.qc)
             sd == RecordVote(o, b.round, b)
             m == [n EXCEPT !.sd = sd]
  <2>1. SafetySign(n, b) = m /\ SignedBlock(n, b) = b
    BY <1>2 DEF SafetySign, SignedBlock, Sound, Behind, Nodes
  <2>2. n \in Nodes /\ n.sd \in SafetyDatas
    BY DEF Sound, Behind, Nodes
  <2>3. /\ b.round \in Rounds /\ b.round \in Int
        /\ b.qc.round \in 0 .. MaxRound /\ b.qc.parent_round = 0
    BY BlocksTyped DEF Rounds
  <2>4. /\ sd.last_vote = b /\ sd.last_voted_round = b.round
        /\ sd.one_chain_round = Higher(n.sd.one_chain_round, b.qc.round)
        /\ sd \in SafetyDatas
    <3>1. b.round \in 0 .. MaxRound
      BY <2>3 DEF Rounds
    <3>2. /\ o \in SafetyDatas /\ o.one_chain_round = Higher(n.sd.one_chain_round, b.qc.round)
      BY <2>2, <2>3, ObserveQCTyped
    <3> HIDE DEF o
    <3> QED BY <3>1, <3>2 DEF RecordVote, SafetyDatas
  <2>5. b # None
    BY RoundManagerAssumption
  <2> HIDE DEF sd
  <2>6. m \in Nodes
    BY <2>2, <2>4 DEF Nodes
  <2>7. /\ m.sd = sd
        /\ m.hqc = n.hqc /\ m.htc = n.htc /\ m.hoc = n.hoc /\ m.current_round = n.current_round
        /\ m.pending = n.pending /\ m.partial_tc = n.partial_tc /\ m.echo_timeout = n.echo_timeout
        /\ m.vote_sent = n.vote_sent /\ m.saved_vote = n.saved_vote /\ m.sent = n.sent
        /\ m.futures = n.futures /\ m.resending = n.resending /\ m.buffered = n.buffered
    BY <2>2 DEF Nodes
  <2> HIDE DEF m
  <2>8. CertsInv(m)
    <3>1. n.sd.one_chain_round <= n.hqc /\ n.sd.one_chain_round \in Int /\ n.hqc \in Int
      BY <2>2 DEF Sound, Behind, CertsInv, SafetyDatas, Nodes
    <3>2. sd.one_chain_round <= n.hqc
      BY <2>3, <2>4, <3>1 DEF Higher
    <3> QED BY <2>7, <3>2 DEF Sound, Behind, CertsInv
  <2>9. n.sd.last_vote # None => n.sd.last_vote.round < b.round /\ n.sd.last_vote.round \in Int
    <3>1. b.round > n.sd.last_voted_round
      BY <1>2 DEF SafetyAccepts, AboveLastVotedRound
    <3>2. n.sd.last_vote # None => n.sd.last_vote.round = n.sd.last_voted_round
      BY DEF Sound, Behind, VotesInv
    <3>3. n.sd.last_voted_round \in Int
      BY <2>2 DEF SafetyDatas
    <3> QED BY <2>3, <3>1, <3>2, <3>3
  <2>10. ASSUME NEW c \in Blocks, Remembered(n, c)
         PROVE  Remembered(m, c)
    <3>1. c.round \in Int
      BY BlocksTyped DEF Rounds
    <3>2. n.sd.last_vote # None /\ c.round <= n.sd.last_vote.round
      BY <2>10 DEF Remembered
    <3>3. c.round < b.round
      BY <2>3, <2>9, <3>1, <3>2
    <3> QED BY <2>3, <2>4, <2>5, <2>7, <3>1, <3>3 DEF Remembered
  <2>11. VotesInv(m)
    <3>1. m.saved_vote # None => Remembered(m, m.saved_vote)
      BY <2>2, <2>7, <2>10 DEF Sound, Behind, VotesInv, Nodes
    <3>2. \A v \in m.sent : Remembered(m, v.block)
      BY <2>2, <2>7, <2>10 DEF Sound, Behind, VotesInv, Nodes, VoteRecords
    <3>3. \A v, u \in m.sent : v.block.round = u.block.round => v.block = u.block
      BY <2>7 DEF Sound, Behind, VotesInv
    <3> QED BY <2>4, <2>5, <2>7, <3>1, <3>2, <3>3 DEF VotesInv
  <2>12. PendingInv(m) /\ HighestRound(m) = HighestRound(n)
    BY <2>7 DEF Sound, Behind, PendingInv, HighestRound
  <2> QED BY <2>1, <2>4, <2>5, <2>6, <2>7, <2>8, <2>11, <2>12 DEF Sound, Behind
<1> QED BY <1>1, <1>2 DEF SafetyAccepts

\* vote_block: what is signed is what is saved.
LEMMA VoteBlockSound ==
  ASSUME NEW n, Sound(n), NEW b \in Blocks, b.round <= n.current_round, b.qc.round <= n.hqc,
         n.vote_sent = None, SafetyAccepts(n, b)
  PROVE  LET m == VoteBlock(n, b) IN
         /\ Sound(m)
         /\ m.sd.last_vote # None /\ m.sd.last_vote = SignedBlock(n, b) /\ m.sd.last_vote.round = b.round
         /\ m.vote_sent = None /\ m.current_round = n.current_round /\ m.hqc = n.hqc /\ m.htc = n.htc
         /\ m.sent = n.sent /\ m.partial_tc = n.partial_tc /\ m.echo_timeout = n.echo_timeout
<1> DEFINE s == SafetySign(n, b)
           m == [s EXCEPT !.saved_vote = SignedBlock(n, b)]
<1>1. VoteBlock(n, b) = m
  BY DEF VoteBlock
<1>2. /\ Sound(s)
      /\ s.sd.last_vote # None /\ s.sd.last_vote = SignedBlock(n, b) /\ s.sd.last_vote.round = b.round
      /\ s.vote_sent = None /\ s.current_round = n.current_round /\ s.hqc = n.hqc /\ s.htc = n.htc
      /\ s.sent = n.sent /\ s.partial_tc = n.partial_tc /\ s.echo_timeout = n.echo_timeout
  BY SafetySignSound
<1> HIDE DEF s
<1>3. s \in Nodes /\ s.sd.last_vote \in Blocks
  BY <1>2 DEF Sound, Behind, Nodes, SafetyDatas
<1>4. m \in Nodes
  BY <1>2, <1>3 DEF Nodes
<1>5. /\ m.saved_vote = s.sd.last_vote /\ m.sd = s.sd
      /\ m.hqc = s.hqc /\ m.htc = s.htc /\ m.hoc = s.hoc /\ m.current_round = s.current_round
      /\ m.pending = s.pending /\ m.partial_tc = s.partial_tc /\ m.echo_timeout = s.echo_timeout
      /\ m.vote_sent = s.vote_sent /\ m.sent = s.sent
      /\ m.futures = s.futures /\ m.resending = s.resending /\ m.buffered = s.buffered
  BY <1>2, <1>3 DEF Nodes
<1> HIDE DEF m
<1>6. CertsInv(m) /\ PendingInv(m) /\ HighestRound(m) = HighestRound(s)
  BY <1>2, <1>5 DEF Sound, Behind, CertsInv, PendingInv, HighestRound
<1>7. VotesInv(m)
  <2>1. \A c : Remembered(s, c) => Remembered(m, c)
    BY <1>5 DEF Remembered
  <2>2. Remembered(m, m.saved_vote)
    <3>1. s.sd.last_vote.round \in Int
      BY <1>3, BlocksTyped DEF Rounds
    <3> QED BY <1>2, <1>5, <3>1 DEF Remembered
  <2> QED BY <1>2, <1>5, <2>1, <2>2 DEF Sound, Behind, VotesInv
<1> QED BY <1>1, <1>2, <1>4, <1>5, <1>6, <1>7 DEF Sound, Behind

\* A vote for the remembered block may be recorded and sent.
LEMMA SendVoteSound ==
  ASSUME NEW n, Sound(n), NEW v \in VoteRecords, n.sd.last_vote # None, v.block = n.sd.last_vote
  PROVE  LET m == SendVote(RecordVoteSent(n, v), v) IN
         /\ Sound(m)
         /\ m.sent = n.sent \cup {v} /\ m.current_round = n.current_round
         /\ m.partial_tc = n.partial_tc /\ m.echo_timeout = n.echo_timeout
<1> DEFINE q == RecordVoteSent(n, v)
           m == SendVote(q, v)
<1>1. n \in Nodes
  BY DEF Sound, Behind
<1>2. /\ q \in Nodes
      /\ q.vote_sent = IF v.block.round = n.current_round THEN v ELSE n.vote_sent
      /\ q.sd = n.sd /\ q.saved_vote = n.saved_vote
      /\ q.hqc = n.hqc /\ q.htc = n.htc /\ q.hoc = n.hoc /\ q.current_round = n.current_round
      /\ q.pending = n.pending /\ q.partial_tc = n.partial_tc /\ q.echo_timeout = n.echo_timeout
      /\ q.sent = n.sent
      /\ q.futures = n.futures /\ q.resending = n.resending /\ q.buffered = n.buffered
  <2>1. CASE v.block.round = n.current_round
    BY <1>1, <2>1 DEF RecordVoteSent, Nodes
  <2>2. CASE v.block.round # n.current_round
    BY <1>1, <2>2 DEF RecordVoteSent
  <2> QED BY <2>1, <2>2
<1> HIDE DEF q
<1>3. /\ m \in Nodes
      /\ m.vote_sent = IF v.block.round = n.current_round THEN v ELSE n.vote_sent
      /\ m.sd = n.sd /\ m.saved_vote = n.saved_vote
      /\ m.hqc = n.hqc /\ m.htc = n.htc /\ m.hoc = n.hoc /\ m.current_round = n.current_round
      /\ m.pending = n.pending /\ m.partial_tc = n.partial_tc /\ m.echo_timeout = n.echo_timeout
      /\ m.sent = n.sent \cup {v}
      /\ m.futures = n.futures /\ m.resending = n.resending /\ m.buffered = n.buffered
  BY <1>2 DEF SendVote, Nodes
<1> HIDE DEF m
<1>4. CertsInv(m) /\ PendingInv(m) /\ HighestRound(m) = HighestRound(n)
  BY <1>3 DEF Sound, Behind, CertsInv, PendingInv, HighestRound
<1>5. VotesInv(m)
  <2>1. \A c : Remembered(n, c) <=> Remembered(m, c)
    BY <1>3 DEF Remembered
  <2>2. Remembered(m, v.block)
    <3>1. v.block.round \in Int
      BY BlocksTyped DEF Rounds, VoteRecords
    <3> QED BY <1>3, <3>1 DEF Remembered
  <2>3. \A u \in m.sent : Remembered(m, u.block)
    BY <1>3, <2>1, <2>2 DEF Sound, Behind, VotesInv
  <2>4. \A u, w \in m.sent : u.block.round = w.block.round => u.block = w.block
    <3>1. \A u \in n.sent : u.block.round = v.block.round => u.block = v.block
      BY DEF Sound, Behind, VotesInv, Remembered
    <3> QED BY <1>3, <3>1 DEF Sound, Behind, VotesInv
  <2> QED BY <1>3, <2>1, <2>3, <2>4 DEF Sound, Behind, VotesInv
<1> QED BY <1>3, <1>4, <1>5 DEF Sound, Behind, m, q

LEMMA ProcessVerifiedProposalSound ==
  ASSUME NEW n, Sound(n), NEW b \in Blocks, b.round <= n.current_round, b.qc.round <= n.hqc
  PROVE  LET m == ProcessVerifiedProposal(n, b) IN
         /\ Sound(m)
         /\ n.sent \subseteq m.sent /\ m.current_round = n.current_round
         /\ m.partial_tc = n.partial_tc /\ m.echo_timeout = n.echo_timeout
<1>1. CASE ~CanVote(n, b)
  BY <1>1 DEF ProcessVerifiedProposal
<1>2. CASE CanVote(n, b)
  <2> DEFINE v == Vote(SignedBlock(n, b), NoTimeout)
             q == VoteBlock(n, b)
  <2>1. ProcessVerifiedProposal(n, b) = SendVote(RecordVoteSent(q, v), v)
    BY <1>2 DEF ProcessVerifiedProposal
  <2>2. n.vote_sent = None /\ SafetyAccepts(n, b)
    BY <1>2 DEF CanVote
  <2>3. /\ Sound(q) /\ q.sd.last_vote # None /\ q.sd.last_vote = SignedBlock(n, b)
        /\ q.sent = n.sent /\ q.current_round = n.current_round
        /\ q.partial_tc = n.partial_tc /\ q.echo_timeout = n.echo_timeout
    BY <2>2, VoteBlockSound
  <2> HIDE DEF q
  <2>4. v \in VoteRecords /\ v.block = q.sd.last_vote
    BY <2>3 DEF Vote, VoteRecords, Sound, Behind, Nodes, SafetyDatas
  <2> HIDE DEF v
  <2> QED BY <2>1, <2>3, <2>4, SendVoteSound
<1> QED BY <1>1, <1>2

\* The proposals that wait may be any that the certificates cover.
LEMMA QueuesSound ==
  ASSUME NEW n, Sound(n), NEW m \in Nodes,
         m.hqc = n.hqc, m.htc = n.htc, m.hoc = n.hoc, m.current_round = n.current_round,
         m.pending = n.pending, m.partial_tc = n.partial_tc, m.vote_sent = n.vote_sent,
         m.sd = n.sd, m.saved_vote = n.saved_vote, m.sent = n.sent,
         \A b \in m.futures \cup m.resending \cup m.buffered :
            b.qc.round <= n.hqc /\ b.round <= n.current_round
  PROVE  Sound(m)
<1>1. CertsInv(m) /\ PendingInv(m) /\ HighestRound(m) = HighestRound(n)
  BY DEF Sound, Behind, CertsInv, PendingInv, HighestRound
<1>2. VotesInv(m)
  <2>1. \A c : Remembered(n, c) => Remembered(m, c)
    BY DEF Remembered
  <2> QED BY <2>1 DEF Sound, Behind, VotesInv
<1> QED BY <1>1, <1>2 DEF Sound, Behind

LEMMA CheckBackPressureSound ==
  ASSUME NEW n, Sound(n), NEW b \in Proposals, b.round <= n.current_round, b.qc.round <= n.hqc
  PROVE  LET m == CheckBackPressure(n, b) IN
         /\ Sound(m)
         /\ n.sent \subseteq m.sent /\ m.current_round = n.current_round
         /\ m.partial_tc = n.partial_tc /\ m.echo_timeout = n.echo_timeout
<1>1. CASE back_pressure
  <2> DEFINE m == [n EXCEPT !.resending = @ \cup {b}]
  <2>1. n \in Nodes
    BY DEF Sound, Behind
  <2>2. m \in Nodes
    BY <2>1 DEF Nodes
  <2>3. /\ m.hqc = n.hqc /\ m.htc = n.htc /\ m.hoc = n.hoc /\ m.current_round = n.current_round
        /\ m.pending = n.pending /\ m.partial_tc = n.partial_tc /\ m.echo_timeout = n.echo_timeout
        /\ m.vote_sent = n.vote_sent /\ m.sd = n.sd /\ m.saved_vote = n.saved_vote /\ m.sent = n.sent
        /\ m.futures = n.futures /\ m.resending = n.resending \cup {b} /\ m.buffered = n.buffered
    BY <2>1 DEF Nodes
  <2> HIDE DEF m
  <2>4. \A c \in m.futures \cup m.resending \cup m.buffered : c.qc.round <= n.hqc /\ c.round <= n.current_round
    BY <2>3 DEF Sound, Behind, CertsInv
  <2>5. Sound(m)
    BY <2>2, <2>3, <2>4, QueuesSound
  <2> QED BY <1>1, <2>3, <2>5 DEF CheckBackPressure, m
<1>2. CASE ~back_pressure
  BY <1>2, ProcessVerifiedProposalSound, ProposalsAreBlocks DEF CheckBackPressure
<1> QED BY <1>1, <1>2

LEMMA ProcessProposalSound ==
  ASSUME NEW n, Sound(n), NEW b \in Proposals, b.round <= n.current_round, b.qc.round <= n.hqc,
         NEW available \in BOOLEAN
  PROVE  LET m == ProcessProposal(n, b, available) IN
         /\ Sound(m)
         /\ n.sent \subseteq m.sent /\ m.current_round = n.current_round
         /\ m.partial_tc = n.partial_tc /\ m.echo_timeout = n.echo_timeout
<1> DEFINE q == [n EXCEPT !.already_proposed = b]
           f == [q EXCEPT !.futures = @ \cup {b}]
<1>1. n \in Nodes
  BY DEF Sound, Behind
<1>2. /\ q \in Nodes
      /\ q.hqc = n.hqc /\ q.htc = n.htc /\ q.hoc = n.hoc /\ q.current_round = n.current_round
      /\ q.pending = n.pending /\ q.partial_tc = n.partial_tc /\ q.echo_timeout = n.echo_timeout
      /\ q.vote_sent = n.vote_sent /\ q.sd = n.sd /\ q.saved_vote = n.saved_vote /\ q.sent = n.sent
      /\ q.futures = n.futures /\ q.resending = n.resending /\ q.buffered = n.buffered
  BY <1>1 DEF Nodes
<1> HIDE DEF q
<1>3. Sound(q)
  BY <1>2, QueuesSound DEF Sound, Behind, CertsInv
<1>4. /\ f \in Nodes
      /\ f.hqc = q.hqc /\ f.htc = q.htc /\ f.hoc = q.hoc /\ f.current_round = q.current_round
      /\ f.pending = q.pending /\ f.partial_tc = q.partial_tc /\ f.echo_timeout = q.echo_timeout
      /\ f.vote_sent = q.vote_sent /\ f.sd = q.sd /\ f.saved_vote = q.saved_vote /\ f.sent = q.sent
      /\ f.futures = q.futures \cup {b} /\ f.resending = q.resending /\ f.buffered = q.buffered
  BY <1>2 DEF Nodes
<1> HIDE DEF f
<1>5. \A c \in f.futures \cup f.resending \cup f.buffered : c.qc.round <= q.hqc /\ c.round <= q.current_round
  BY <1>2, <1>3, <1>4 DEF Sound, Behind, CertsInv
<1>6. Sound(f)
  BY <1>3, <1>4, <1>5, QueuesSound
<1>7. CASE ~IsValidProposal(n, b)
  BY <1>7 DEF ProcessProposal
<1>8. CASE IsValidProposal(n, b) /\ available
  <2>1. ProcessProposal(n, b, available) = CheckBackPressure(q, b)
    BY <1>8 DEF ProcessProposal, q
  <2> QED BY <1>2, <1>3, <2>1, CheckBackPressureSound
<1>9. CASE IsValidProposal(n, b) /\ ~available
  <2>1. ProcessProposal(n, b, available) = f
    BY <1>9 DEF ProcessProposal, q, f
  <2> QED BY <1>2, <1>4, <1>6, <2>1
<1> QED BY <1>7, <1>8, <1>9

----------------------------------------------------------------------------
(* Timeouts *)

\* A local timeout repeats the vote of this round, or the safety rules' vote for a NIL block.
LEMMA WithTimedOutVoteSound ==
  ASSUME NEW n, Sound(n), n.current_round \in Rounds, CanRepeatVote(n)
  PROVE  LET m == WithTimedOutVote(n) IN
         /\ Sound(m)
         /\ TimedOutVote(n) \in VoteRecords
         /\ m.sd.last_vote # None /\ TimedOutVote(n).block = m.sd.last_vote
         /\ m.sd.last_vote.round = n.current_round
         /\ m.current_round = n.current_round /\ m.hqc = n.hqc /\ m.htc = n.htc
         /\ m.sent = n.sent /\ m.partial_tc = n.partial_tc /\ m.echo_timeout = n.echo_timeout
<1>1. n \in Nodes
  BY DEF Sound, Behind
<1>2. CASE VotedThisRound(n)
  <2>1. WithTimedOutVote(n) = n /\ TimedOutVote(n) = n.vote_sent /\ n.vote_sent # None
    BY <1>2 DEF WithTimedOutVote, TimedOutVote, VotedThisRound
  <2> QED BY <1>1, <2>1 DEF Sound, Behind, VotesInv, Nodes
<1>3. CASE ~VotedThisRound(n)
  <2> DEFINE b == NilBlock(n)
  <2>1. /\ WithTimedOutVote(n) = VoteBlock(n, b)
        /\ TimedOutVote(n) = Vote(SignedBlock(n, b), NoTimeout)
        /\ CanVote(n, b)
    BY <1>3 DEF WithTimedOutVote, TimedOutVote, CanRepeatVote
  <2>2. n.vote_sent = None /\ SafetyAccepts(n, b)
    BY <2>1 DEF CanVote
  <2>3. n.hqc \in 0 .. MaxRound /\ n.hqc < n.current_round
    BY <1>1, HighestRoundTyped DEF Sound, Nodes
  <2>4. b \in Blocks /\ b.round = n.current_round /\ b.qc.round = n.hqc
    BY <2>3, NilIsBlock DEF NilBlock, Block
  <2>5. b.round <= n.current_round /\ b.qc.round <= n.hqc
    BY <1>1, <2>4 DEF Nodes
  <2> HIDE DEF b
  <2> DEFINE m == VoteBlock(n, b)
  <2>6. /\ Sound(m)
        /\ m.sd.last_vote # None /\ m.sd.last_vote = SignedBlock(n, b) /\ m.sd.last_vote.round = b.round
        /\ m.vote_sent = None /\ m.current_round = n.current_round /\ m.hqc = n.hqc /\ m.htc = n.htc
        /\ m.sent = n.sent /\ m.partial_tc = n.partial_tc /\ m.echo_timeout = n.echo_timeout
    BY <2>2, <2>4, <2>5, VoteBlockSound
  <2> HIDE DEF m
  <2>7. SignedBlock(n, b) \in Blocks
    BY <2>6 DEF Sound, Behind, Nodes, SafetyDatas
  <2>8. TimedOutVote(n) \in VoteRecords /\ TimedOutVote(n).block = SignedBlock(n, b)
    BY <2>1, <2>7 DEF Vote, VoteRecords
  <2> QED BY <2>1, <2>4, <2>6, <2>8 DEF m
<1> QED BY <1>2, <1>3

\* Signing the timeout of the round of the last vote.
LEMMA RecordTimeoutSound ==
  ASSUME NEW n, Sound(n), n.sd.last_vote # None, n.sd.last_vote.round = n.current_round
  PROVE  LET m == [n EXCEPT !.sd = RecordTimeout(@, n.current_round)] IN
         /\ Sound(m)
         /\ m.sd.last_vote = n.sd.last_vote /\ m.current_round = n.current_round
         /\ m.sent = n.sent /\ m.partial_tc = n.partial_tc /\ m.echo_timeout = n.echo_timeout
<1> DEFINE sd == RecordTimeout(n.sd, n.current_round)
           m == [n EXCEPT !.sd = sd]
<1>1. n \in Nodes /\ n.sd \in SafetyDatas
  BY DEF Sound, Behind, Nodes
<1>2. n.current_round \in 0 .. MaxRound
  <2>1. n.sd.last_vote.round \in Rounds
    BY <1>1, BlocksTyped DEF SafetyDatas
  <2> QED BY <2>1 DEF Rounds
<1>3. n.sd.last_voted_round = n.current_round
  BY DEF Sound, Behind, VotesInv
<1>4. /\ Higher(n.sd.last_voted_round, n.current_round) = n.current_round
      /\ Higher(n.sd.highest_timeout_round, n.current_round) \in 0 .. MaxRound
  BY <1>1, <1>2, <1>3 DEF Higher, SafetyDatas
<1>5. /\ sd \in SafetyDatas /\ sd.last_vote = n.sd.last_vote
      /\ sd.last_voted_round = n.sd.last_voted_round /\ sd.one_chain_round = n.sd.one_chain_round
  BY <1>1, <1>2, <1>3, <1>4 DEF RecordTimeout, SafetyDatas
<1>6. m = [n EXCEPT !.sd = RecordTimeout(@, n.current_round)]
  BY <1>1 DEF Nodes
<1> HIDE DEF sd
<1>7. /\ m \in Nodes /\ m.sd = sd
      /\ m.hqc = n.hqc /\ m.htc = n.htc /\ m.hoc = n.hoc /\ m.current_round = n.current_round
      /\ m.pending = n.pending /\ m.partial_tc = n.partial_tc /\ m.echo_timeout = n.echo_timeout
      /\ m.vote_sent = n.vote_sent /\ m.saved_vote = n.saved_vote /\ m.sent = n.sent
      /\ m.futures = n.futures /\ m.resending = n.resending /\ m.buffered = n.buffered
  BY <1>1, <1>5 DEF Nodes
<1> HIDE DEF m
<1>8. CertsInv(m) /\ PendingInv(m) /\ HighestRound(m) = HighestRound(n)
  BY <1>5, <1>7 DEF Sound, Behind, CertsInv, PendingInv, HighestRound
<1>9. VotesInv(m)
  <2>1. \A c : Remembered(n, c) => Remembered(m, c)
    BY <1>5, <1>7 DEF Remembered
  <2> QED BY <1>5, <1>7, <2>1 DEF Sound, Behind, VotesInv
<1> QED BY <1>5, <1>6, <1>7, <1>8, <1>9 DEF Sound, Behind

LEMMA SendTimeoutSound ==
  ASSUME NEW n, Sound(n), n.current_round \in Rounds, CanRepeatVote(n)
  PROVE  LET m == SendTimeout(n) IN
         /\ Sound(m) /\ Joined(m)
         /\ n.sent \subseteq m.sent /\ m.current_round = n.current_round
         /\ m.partial_tc = n.partial_tc /\ m.echo_timeout = n.echo_timeout
<1> DEFINE w == WithTimedOutVote(n)
           v == [TimedOutVote(n) EXCEPT !.hqc_round = n.hqc]
           t == [w EXCEPT !.sd = RecordTimeout(@, n.current_round)]
           m == SendVote(RecordVoteSent(t, v), v)
<1>1. SendTimeout(n) = m
  BY DEF SendTimeout
<1>2. /\ Sound(w)
      /\ TimedOutVote(n) \in VoteRecords
      /\ w.sd.last_vote # None /\ TimedOutVote(n).block = w.sd.last_vote
      /\ w.sd.last_vote.round = n.current_round
      /\ w.current_round = n.current_round
      /\ w.sent = n.sent /\ w.partial_tc = n.partial_tc /\ w.echo_timeout = n.echo_timeout
  BY WithTimedOutVoteSound
<1>3. n.hqc \in 0 .. MaxRound
  BY DEF Sound, Behind, Nodes
<1>4. v \in VoteRecords /\ v.block = w.sd.last_vote /\ v.hqc_round = n.hqc
  BY <1>2, <1>3 DEF VoteRecords
<1> HIDE DEF w, v
<1>5. /\ Sound(t)
      /\ t.sd.last_vote = w.sd.last_vote /\ t.current_round = n.current_round
      /\ t.sent = n.sent /\ t.partial_tc = n.partial_tc /\ t.echo_timeout = n.echo_timeout
  BY <1>2, RecordTimeoutSound
<1> HIDE DEF t
<1>6. /\ Sound(m)
      /\ m.sent = n.sent \cup {v} /\ m.current_round = n.current_round
      /\ m.partial_tc = n.partial_tc /\ m.echo_timeout = n.echo_timeout
  BY <1>2, <1>4, <1>5, SendVoteSound
<1> HIDE DEF m
<1>7. Joined(m)
  BY <1>2, <1>3, <1>4, <1>6 DEF Joined, NoTimeout
<1> QED BY <1>1, <1>6, <1>7

LEMMA ProcessLocalTimeoutSound ==
  ASSUME NEW n, Sound(n), n.current_round \in Rounds
  PROVE  LET m == ProcessLocalTimeout(n) IN
         /\ Sound(m)
         /\ n.sent \subseteq m.sent /\ m.current_round = n.current_round
         /\ m.partial_tc = n.partial_tc /\ m.echo_timeout = n.echo_timeout
<1>1. CASE back_pressure \/ ~CanRepeatVote(n) \/ TimedOutVote(n).hqc_round # NoTimeout
  BY <1>1 DEF ProcessLocalTimeout
<1>2. CASE ~(back_pressure \/ ~CanRepeatVote(n) \/ TimedOutVote(n).hqc_round # NoTimeout)
  <2>1. CASE CanSignTimeout(WithTimedOutVote(n))
    BY <1>2, <2>1, SendTimeoutSound DEF ProcessLocalTimeout
  <2>2. CASE ~CanSignTimeout(WithTimedOutVote(n))
    BY <1>2, <2>2, WithTimedOutVoteSound DEF ProcessLocalTimeout
  <2> QED BY <2>1, <2>2
<1> QED BY <1>1, <1>2

\* A validator that is not held back can give its timeout vote for the round it is in.
LEMMA TimeoutAccepted ==
  ASSUME NEW n, Sound(n), n.current_round \in Rounds, ~back_pressure
  PROVE  CanRepeatVote(n) /\ CanSignTimeout(WithTimedOutVote(n))
<1>1. n \in Nodes /\ n.sd \in SafetyDatas
  BY DEF Sound, Behind, Nodes
<1>2. /\ n.hqc \in Int /\ n.hoc \in Int /\ n.current_round \in Int
      /\ n.htc.round \in Int /\ n.htc.hqc_round \in Int
      /\ n.hoc <= n.hqc /\ n.htc.hqc_round <= n.hqc /\ n.hqc < n.current_round
      /\ n.current_round = n.hqc + 1 \/ n.current_round = n.htc.round + 1
  <2>1. n.current_round = HighestRound(n) + 1 /\ n.hoc <= n.hqc /\ n.htc.hqc_round <= n.hqc
    BY DEF Sound, Behind, CertsInv
  <2> QED BY <1>1, <2>1, HighestRoundTyped DEF Nodes
<1>3. CanRepeatVote(n)
  <2>1. CASE VotedThisRound(n)
    BY <2>1 DEF CanRepeatVote
  <2>2. CASE ~VotedThisRound(n)
    <3>1. NilBlock(n).round = n.current_round /\ NilBlock(n).qc.round = n.hqc
      BY DEF NilBlock, Block
    <3>2. n.vote_sent = None
      BY <2>2 DEF VotedThisRound, Sound, Behind, VotesInv
    <3>3. SafeToVote(NilBlock(n), n.htc)
      BY <1>2, <3>1 DEF SafeToVote
    <3>4. VotedInRound(n, NilBlock(n)) \/ AboveLastVotedRound(n.sd, NilBlock(n).round)
      <4>1. CASE n.sd.last_vote = None
        <5>1. n.sd.last_voted_round = 0 /\ n.current_round > 0
          BY <4>1 DEF Sound, Behind, VotesInv, Rounds
        <5> QED BY <3>1, <5>1 DEF AboveLastVotedRound
      <4>2. CASE n.sd.last_vote # None
        <5>1. n.sd.last_voted_round = n.sd.last_vote.round /\ n.sd.last_vote.round <= n.current_round
          BY <4>2 DEF Sound, Behind, VotesInv
        <5>2. n.sd.last_voted_round \in Int
          BY <1>1 DEF SafetyDatas
        <5> QED BY <1>2, <3>1, <4>2, <5>1, <5>2 DEF AboveLastVotedRound, VotedInRound
      <4> QED BY <4>1, <4>2
    <3>5. SafetyAccepts(n, NilBlock(n))
      BY <3>3, <3>4 DEF SafetyAccepts
    <3> QED BY <1>2, <3>1, <3>2, <3>5 DEF CanRepeatVote, CanVote
  <2> QED BY <2>1, <2>2
<1>4. CanSignTimeout(WithTimedOutVote(n))
  <2> DEFINE m == WithTimedOutVote(n)
  <2>1. /\ Sound(m) /\ m.current_round = n.current_round /\ m.hqc = n.hqc /\ m.htc = n.htc
        /\ m.sd.last_vote # None /\ m.sd.last_vote.round = n.current_round
    BY <1>3, WithTimedOutVoteSound
  <2> HIDE DEF m
  <2>2. m.sd.one_chain_round <= m.hqc /\ m.sd.last_voted_round = n.current_round
    BY <2>1 DEF Sound, Behind, CertsInv, VotesInv
  <2>3. m.sd.one_chain_round \in Int
    BY <2>1 DEF Sound, Behind, Nodes, SafetyDatas
  <2> QED BY <1>2, <2>1, <2>2, <2>3 DEF CanSignTimeout, SafeToTimeout, m
<1> QED BY <1>3, <1>4

----------------------------------------------------------------------------
(* VoteRecords of the validators *)

LEMMA AddVoteSound ==
  ASSUME NEW n, Sound(n), NEW a \in Validators, NEW v \in VoteRecords,
         v.block.round = n.current_round, v.hqc_round <= n.hqc, IsNewVote(n, a, v)
  PROVE  LET m == AddVote(n, a, v) IN
         /\ Sound(m)
         /\ m.current_round = n.current_round /\ m.echo_timeout = n.echo_timeout /\ m.sent = n.sent
         /\ \/ m.partial_tc = n.partial_tc
            \/ v.hqc_round # NoTimeout /\ Cardinality(VotersFor(m, v.block)) < Quorum
<1> DEFINE q == [n EXCEPT !.pending[a] = v]
           t == [author |-> a, hqc_round |-> v.hqc_round]
           p == [q EXCEPT !.partial_tc = @ \cup {t}]
<1>1. n \in Nodes
  BY DEF Sound, Behind
<1>2. /\ q \in Nodes /\ q.pending = [n.pending EXCEPT ![a] = v]
      /\ q.hqc = n.hqc /\ q.htc = n.htc /\ q.hoc = n.hoc /\ q.current_round = n.current_round
      /\ q.partial_tc = n.partial_tc /\ q.echo_timeout = n.echo_timeout
      /\ q.vote_sent = n.vote_sent /\ q.sd = n.sd /\ q.saved_vote = n.saved_vote /\ q.sent = n.sent
      /\ q.futures = n.futures /\ q.resending = n.resending /\ q.buffered = n.buffered
  <2>1. [n.pending EXCEPT ![a] = v] \in [Validators -> {None} \cup VoteRecords]
    BY <1>1 DEF Nodes
  <2> QED BY <1>1, <2>1 DEF Nodes
<1> HIDE DEF q
<1>3. v # None
  BY RoundManagerAssumption DEF VoteRecords
<1>4. \A u \in n.partial_tc : u.author # a /\ u.author \in Validators
  BY <1>1 DEF IsNewVote, Sound, Behind, PendingInv, Nodes
<1>5. n.pending \in [Validators -> {None} \cup VoteRecords]
  BY <1>1 DEF Nodes
<1>6. PendingInv(q)
  BY <1>2, <1>4, <1>5 DEF Sound, Behind, PendingInv
<1>7. CertsInv(q) /\ HighestRound(q) = HighestRound(n)
  BY <1>2 DEF Sound, Behind, CertsInv, HighestRound
<1>8. VotesInv(q)
  <2>1. \A c : Remembered(n, c) => Remembered(q, c)
    BY <1>2 DEF Remembered
  <2> QED BY <1>2, <2>1 DEF Sound, Behind, VotesInv
<1>9. Sound(q)
  BY <1>2, <1>6, <1>7, <1>8 DEF Sound, Behind
<1>10. CASE ~(v.hqc_round # NoTimeout /\ Cardinality(VotersFor(q, v.block)) < Quorum)
  <2>1. AddVote(n, a, v) = q
    BY <1>10 DEF AddVote, q
  <2> QED BY <1>2, <1>9, <2>1
<1>11. CASE v.hqc_round # NoTimeout /\ Cardinality(VotersFor(q, v.block)) < Quorum
  <2>1. AddVote(n, a, v) = p
    BY <1>11 DEF AddVote, q, p, t
  <2>2. t \in [author : Validators, hqc_round : 0 .. MaxRound] /\ t.author = a /\ t.hqc_round = v.hqc_round
    BY <1>11 DEF VoteRecords
  <2> HIDE DEF t
  <2>3. /\ p \in Nodes /\ p.pending = q.pending
        /\ p.hqc = n.hqc /\ p.htc = n.htc /\ p.hoc = n.hoc /\ p.current_round = n.current_round
        /\ p.partial_tc = n.partial_tc \cup {t} /\ p.echo_timeout = n.echo_timeout
        /\ p.vote_sent = n.vote_sent /\ p.sd = n.sd /\ p.saved_vote = n.saved_vote /\ p.sent = n.sent
        /\ p.futures = n.futures /\ p.resending = n.resending /\ p.buffered = n.buffered
    BY <1>2, <2>2 DEF Nodes
  <2> HIDE DEF p
  <2>4. CertsInv(p) /\ HighestRound(p) = HighestRound(n)
    BY <2>2, <2>3 DEF Sound, Behind, CertsInv, HighestRound
  <2>5. VotesInv(p)
    <3>1. \A c : Remembered(n, c) => Remembered(p, c)
      BY <2>3 DEF Remembered
    <3> QED BY <2>3, <3>1 DEF Sound, Behind, VotesInv
  <2>6. PendingInv(p)
    <3>1. p.pending[a] = v
      BY <1>2, <1>5, <2>3
    <3>2. \A u \in p.partial_tc : p.pending[u.author] # None /\ p.pending[u.author].hqc_round # NoTimeout
      BY <1>2, <1>3, <1>6, <1>11, <2>2, <2>3, <3>1 DEF PendingInv
    <3>3. \A u, w \in p.partial_tc : u.author = w.author => u = w
      BY <1>2, <1>4, <1>6, <2>2, <2>3 DEF PendingInv
    <3> QED BY <1>2, <1>6, <2>3, <3>2, <3>3 DEF PendingInv
  <2>7. Sound(p)
    BY <2>3, <2>4, <2>5, <2>6 DEF Sound, Behind
  <2>8. VotersFor(p, v.block) = VotersFor(q, v.block)
    BY <2>3 DEF VotersFor
  <2> QED BY <1>11, <2>1, <2>3, <2>7, <2>8
<1> QED BY <1>10, <1>11

LEMMA BroadcastOrderVoteSound ==
  ASSUME NEW n, Sound(n), NEW r \in Rounds, r <= n.hqc
  PROVE  Sound(BroadcastOrderVote(n, r)) /\ (Joins(n) => Joins(BroadcastOrderVote(n, r)))
<1>1. CASE ~(OrderVoteEnabled /\ SafeForOrderVote(r, n.sd))
  BY <1>1 DEF BroadcastOrderVote
<1>2. CASE OrderVoteEnabled /\ SafeForOrderVote(r, n.sd)
  <2> DEFINE qc == [round |-> r, parent_round |-> 0]
             sd == ObserveQC(n.sd, qc)
             m == [n EXCEPT !.sd = sd]
  <2>1. n \in Nodes /\ n.sd \in SafetyDatas
    BY DEF Sound, Behind, Nodes
  <2>2. BroadcastOrderVote(n, r) = m
    BY <1>2, <2>1 DEF BroadcastOrderVote, Nodes
  <2>3. qc.round = r /\ qc.round \in 0 .. MaxRound /\ qc.parent_round = 0
    BY DEF Rounds
  <2> HIDE DEF qc
  <2>4. /\ sd \in SafetyDatas /\ sd.one_chain_round = Higher(n.sd.one_chain_round, r)
        /\ sd.last_vote = n.sd.last_vote /\ sd.last_voted_round = n.sd.last_voted_round
    BY <2>1, <2>3, ObserveQCTyped
  <2>5. sd.one_chain_round <= n.hqc
    BY <2>4 DEF Sound, Behind, CertsInv, Higher
  <2> HIDE DEF sd
  <2>6. /\ m \in Nodes /\ m.sd = sd
        /\ m.hqc = n.hqc /\ m.htc = n.htc /\ m.hoc = n.hoc /\ m.current_round = n.current_round
        /\ m.pending = n.pending /\ m.partial_tc = n.partial_tc /\ m.echo_timeout = n.echo_timeout
        /\ m.vote_sent = n.vote_sent /\ m.saved_vote = n.saved_vote /\ m.sent = n.sent
        /\ m.futures = n.futures /\ m.resending = n.resending /\ m.buffered = n.buffered
    BY <2>1, <2>4 DEF Nodes
  <2> HIDE DEF m
  <2>7. CertsInv(m) /\ PendingInv(m) /\ HighestRound(m) = HighestRound(n)
    BY <2>5, <2>6 DEF Sound, Behind, CertsInv, PendingInv, HighestRound
  <2>8. VotesInv(m)
    <3>1. \A c : Remembered(n, c) => Remembered(m, c)
      BY <2>4, <2>6 DEF Remembered
    <3> QED BY <2>4, <2>6, <3>1 DEF Sound, Behind, VotesInv
  <2> QED BY <2>2, <2>6, <2>7, <2>8, JoinsKept DEF Sound, Behind
<1> QED BY <1>1, <1>2

\* A quorum of timeouts makes a certificate for the round they are of, and ends it.
LEMMA New2ChainTcAggregatedSound ==
  ASSUME NEW n, Sound(n), n.current_round \in Rounds, n.partial_tc # {}
  PROVE  Sound(New2ChainTcAggregated(n)) /\ Joins(New2ChainTcAggregated(n))
<1> DEFINE S == {t.hqc_round : t \in n.partial_tc}
           tc == TimeoutCertificate(n)
           m == InsertTimeoutCert(n, tc)
<1>1. n \in Nodes /\ Behind(n)
  BY DEF Sound, Behind
<1>2. S \in SUBSET (0 .. MaxRound) /\ S # {}
  BY <1>1 DEF Nodes
<1>3. Max(S) \in S
  BY <1>2, MaxOfRounds
<1>4. Max(S) \in 0 .. MaxRound /\ Max(S) <= n.hqc
  BY <1>2, <1>3 DEF Behind, Sound, CertsInv
<1>5. tc = [round |-> n.current_round, hqc_round |-> Max(S)]
  BY DEF TimeoutCertificate
<1> HIDE DEF S
<1>6. tc \in TimeoutCerts /\ tc.round = n.current_round /\ tc.hqc_round <= n.hqc
  BY <1>4, <1>5 DEF TimeoutCerts
<1> HIDE DEF tc
<1>7. Behind(m) /\ m.htc.round >= n.current_round /\ m.current_round = n.current_round
  BY <1>1, <1>6, InsertTimeoutCertBehind
<1>8. New2ChainTcAggregated(n) = ProcessCertificates(m)
  BY DEF New2ChainTcAggregated, m, tc
<1> HIDE DEF m
<1>9. m.current_round # HighestRound(m) + 1
  <2>1. m \in Nodes /\ m.current_round \in Int
    BY <1>1, <1>7 DEF Behind, Nodes
  <2> QED BY <1>7, <2>1, HighestRoundTyped
<1> QED BY <1>7, <1>8, <1>9, ProcessCertificatesSound

\* The echo gives the round this validator's timeout.
LEMMA EchoTimeoutSound ==
  ASSUME NEW n, Sound(n), n.current_round \in Rounds
  PROVE  /\ Sound(EchoTimeout(n))
         /\ ~back_pressure => Joins(EchoTimeout(n))
<1> DEFINE e == [n EXCEPT !.echo_timeout = TRUE]
<1>1. n \in Nodes
  BY DEF Sound, Behind
<1>2. /\ e \in Nodes
      /\ e.hqc = n.hqc /\ e.htc = n.htc /\ e.hoc = n.hoc /\ e.current_round = n.current_round
      /\ e.pending = n.pending /\ e.partial_tc = n.partial_tc
      /\ e.vote_sent = n.vote_sent /\ e.sd = n.sd /\ e.saved_vote = n.saved_vote /\ e.sent = n.sent
      /\ e.futures = n.futures /\ e.resending = n.resending /\ e.buffered = n.buffered
  BY <1>1 DEF Nodes
<1>3. EchoTimeout(n) = IF e.vote_sent # None /\ e.vote_sent.hqc_round # NoTimeout THEN e ELSE ProcessLocalTimeout(e)
  BY DEF EchoTimeout
<1> HIDE DEF e
<1>4. Sound(e)
  BY <1>2, QueuesSound DEF Sound, Behind, CertsInv
<1>5. CASE e.vote_sent # None /\ e.vote_sent.hqc_round # NoTimeout
  <2>1. Joined(e)
    BY <1>4, <1>5 DEF Sound, Behind, VotesInv, Joined
  <2> QED BY <1>3, <1>4, <1>5, <2>1 DEF Joins
<1>6. CASE ~(e.vote_sent # None /\ e.vote_sent.hqc_round # NoTimeout)
  <2>1. EchoTimeout(n) = ProcessLocalTimeout(e)
    BY <1>3, <1>6
  <2>2. Sound(ProcessLocalTimeout(e))
    BY <1>2, <1>4, ProcessLocalTimeoutSound
  <2>3. ASSUME ~back_pressure PROVE Joins(ProcessLocalTimeout(e))
    <3>1. CanRepeatVote(e) /\ CanSignTimeout(WithTimedOutVote(e))
      BY <1>2, <1>4, <2>3, TimeoutAccepted
    <3>2. TimedOutVote(e).hqc_round = NoTimeout
      BY <1>6 DEF TimedOutVote, VotedThisRound, Vote
    <3>3. ProcessLocalTimeout(e) = SendTimeout(e)
      BY <2>3, <3>1, <3>2 DEF ProcessLocalTimeout
    <3>4. Joined(SendTimeout(e))
      BY <1>2, <1>4, <3>1, SendTimeoutSound
    <3> QED BY <3>3, <3>4 DEF Joins
  <2> QED BY <2>1, <2>2, <2>3
<1> QED BY <1>5, <1>6

\* Each author of a timeout is counted once.
LEMMA TimeoutVotersCount ==
  ASSUME NEW n, Sound(n)
  PROVE  /\ Cardinality(n.partial_tc) \in Nat /\ Cardinality(TimeoutVoters(n)) \in Nat
         /\ Cardinality(n.partial_tc) <= Cardinality(TimeoutVoters(n))
         /\ n.partial_tc = {} => Cardinality(TimeoutVoters(n)) = 0
<1> DEFINE f == [t \in n.partial_tc |-> t.author]
<1>1. IsFiniteSet(TimeoutVoters(n))
  <2>1. TimeoutVoters(n) \subseteq Validators
    BY DEF TimeoutVoters, Sound, Behind, Nodes
  <2> QED BY <2>1, RoundManagerAssumption, FS_Subset
<1>2. f \in Injection(n.partial_tc, TimeoutVoters(n))
  <2>1. f \in [n.partial_tc -> TimeoutVoters(n)]
    BY DEF TimeoutVoters
  <2>2. \A t, u \in n.partial_tc : t.author = u.author => t = u
    BY DEF Sound, Behind, PendingInv
  <2>3. \A t, u \in n.partial_tc : f[t] = f[u] => t = u
    BY <2>2
  <2> QED BY <2>1, <2>3 DEF Injection, IsInjective
<1>3. IsFiniteSet(n.partial_tc) /\ Cardinality(n.partial_tc) <= Cardinality(TimeoutVoters(n))
  BY <1>1, <1>2, FS_Injection
<1>4. n.partial_tc = {} => TimeoutVoters(n) = {}
  BY DEF TimeoutVoters
<1> QED BY <1>1, <1>3, <1>4, FS_CardinalityType, FS_EmptySet

LEMMA ProcessVoteSound ==
  ASSUME NEW n, Sound(n), NEW a \in Validators, NEW v \in VoteRecords, NEW ok \in BOOLEAN,
         v.block.round = n.current_round, v.hqc_round <= n.hqc
  PROVE  /\ Sound(ProcessVote(n, a, v, ok))
         /\ ~back_pressure /\ Joins(n) => Joins(ProcessVote(n, a, v, ok))
<1> DEFINE m == AddVote(n, a, v)
           r == v.block.round
           result == VoteReceptionResult(m, v)
<1>1. CASE v.block.round <= n.hqc \/ ~IsNewVote(n, a, v)
  BY <1>1 DEF ProcessVote
<1>2. CASE ~(v.block.round <= n.hqc \/ ~IsNewVote(n, a, v))
  <2>1. ProcessVote(n, a, v, ok) = ProcessVoteReceptionResult(m, r, result, ok)
    BY <1>2 DEF ProcessVote
  <2>2. /\ Sound(m)
        /\ m.current_round = n.current_round /\ m.echo_timeout = n.echo_timeout /\ m.sent = n.sent
        /\ \/ m.partial_tc = n.partial_tc
           \/ v.hqc_round # NoTimeout /\ Cardinality(VotersFor(m, v.block)) < Quorum
    BY <1>2, AddVoteSound
  <2>3. r \in Rounds /\ r \in 0 .. MaxRound /\ m.current_round \in Rounds
    BY <2>2, BlocksTyped DEF VoteRecords, Rounds
  <2>4. Behind(m)
    BY <2>2 DEF Sound
  <2> HIDE DEF m
  <2>5. Joins(n) /\ m.partial_tc = n.partial_tc => Joins(m)
    BY <2>2, JoinsKept
  <2>6. /\ Cardinality(m.partial_tc) \in Nat /\ Cardinality(TimeoutVoters(m)) \in Nat
        /\ Cardinality(m.partial_tc) <= Cardinality(TimeoutVoters(m))
        /\ m.partial_tc = {} => Cardinality(TimeoutVoters(m)) = 0
    BY <2>2, TimeoutVotersCount
  <2>7. CASE Cardinality(VotersFor(m, v.block)) >= Quorum
    <3>1. result = "NewQuorumCertificate"
      BY <2>7 DEF VoteReceptionResult
    <3>2. m.partial_tc = n.partial_tc
      <4>1. ~(Cardinality(VotersFor(m, v.block)) < Quorum)
        <5>1. VotersFor(m, v.block) \subseteq Validators
          BY DEF VotersFor
        <5>2. Cardinality(VotersFor(m, v.block)) \in Nat
          BY <5>1, RoundManagerAssumption, FS_Subset, FS_CardinalityType
        <5>3. Quorum \in Int
          BY RoundManagerAssumption
        <5> QED BY <2>7, <5>2, <5>3
      <4> QED BY <2>2, <4>1
    <3>3. CASE ok
      <4> DEFINE i == InsertQuorumCert(m, r)
                 c == ProcessCertificates(i)
      <4>1. ProcessVote(n, a, v, ok) = BroadcastOrderVote(c, r)
        BY <2>1, <3>1, <3>3 DEF ProcessVoteReceptionResult, NewQcAggregated
      <4>2. Behind(i) /\ i.hqc >= r /\ (Joins(m) => Joins(i))
        BY <2>3, <2>4, InsertQuorumCertBehind
      <4> HIDE DEF i
      <4>3. Sound(c) /\ c.hqc = i.hqc /\ (Joins(i) => Joins(c))
        BY <4>2, ProcessCertificatesSound
      <4> HIDE DEF c
      <4>4. r <= c.hqc
        <5>1. i.hqc \in Int /\ r \in Int
          BY <2>3, <4>2 DEF Behind, Nodes
        <5> QED BY <4>2, <4>3, <5>1
      <4> QED BY <2>3, <2>5, <3>2, <4>1, <4>2, <4>3, <4>4, BroadcastOrderVoteSound
    <3>4. CASE ~ok
      <4>1. ProcessVote(n, a, v, ok) = m
        BY <2>1, <3>1, <3>4 DEF ProcessVoteReceptionResult, NewQcAggregated
      <4> QED BY <2>2, <2>5, <3>2, <4>1
    <3> QED BY <3>3, <3>4
  <2>8. CASE ~(Cardinality(VotersFor(m, v.block)) >= Quorum) /\ v.hqc_round = NoTimeout
    <3>1. result = "VoteAdded"
      BY <2>8 DEF VoteReceptionResult
    <3>2. ProcessVote(n, a, v, ok) = m
      BY <2>1, <3>1 DEF ProcessVoteReceptionResult
    <3> QED BY <2>2, <2>5, <2>8, <3>2
  <2>9. CASE /\ ~(Cardinality(VotersFor(m, v.block)) >= Quorum) /\ v.hqc_round # NoTimeout
             /\ Cardinality(TimeoutVoters(m)) >= Quorum
    <3>1. result = "New2ChainTimeoutCertificate"
      BY <2>9 DEF VoteReceptionResult
    <3>2. ProcessVote(n, a, v, ok) = New2ChainTcAggregated(m)
      BY <2>1, <3>1 DEF ProcessVoteReceptionResult
    <3>3. m.partial_tc # {}
      BY <2>6, <2>9, RoundManagerAssumption
    <3> QED BY <2>2, <2>3, <3>2, <3>3, New2ChainTcAggregatedSound
  <2>10. CASE /\ ~(Cardinality(VotersFor(m, v.block)) >= Quorum) /\ v.hqc_round # NoTimeout
              /\ ~(Cardinality(TimeoutVoters(m)) >= Quorum)
    <3>1. CASE ~m.echo_timeout /\ Cardinality(TimeoutVoters(m)) >= FPlusOne
      <4>1. result = "EchoTimeout"
        BY <2>10, <3>1 DEF VoteReceptionResult
      <4>2. ProcessVote(n, a, v, ok) = EchoTimeout(m)
        BY <2>1, <4>1 DEF ProcessVoteReceptionResult
      <4> QED BY <2>2, <2>3, <4>2, EchoTimeoutSound
    <3>2. CASE ~(~m.echo_timeout /\ Cardinality(TimeoutVoters(m)) >= FPlusOne)
      <4>1. result = "VoteAdded"
        BY <2>10, <3>2 DEF VoteReceptionResult
      <4>2. ProcessVote(n, a, v, ok) = m
        BY <2>1, <4>1 DEF ProcessVoteReceptionResult
      <4>3. CASE m.echo_timeout
        BY <2>2, <4>2, <4>3 DEF Joins, Joined
      <4>4. CASE ~m.echo_timeout
        <5>1. ~(Cardinality(m.partial_tc) >= FPlusOne)
          BY <2>6, <3>2, <4>4, FPlusOneTyped
        <5> QED BY <2>2, <4>2, <4>4, <5>1 DEF Joins
      <4> QED BY <4>3, <4>4
    <3> QED BY <3>1, <3>2
  <2> QED BY <2>7, <2>8, <2>9, <2>10
<1> QED BY <1>1, <1>2

----------------------------------------------------------------------------
(* Order votes *)

\* The certificate of an order vote is added before the vote counts.
LEMMA NewQcFromOrderVoteMsgSound ==
  ASSUME NEW n, Sound(n), NEW r \in Rounds
  PROVE  LET m == NewQcFromOrderVoteMsg(n, r) IN
         /\ Sound(m) /\ r <= m.hqc
         /\ Joins(n) => Joins(m)
<1>1. n.hqc \in Int /\ r \in Int /\ r \in 0 .. MaxRound /\ Behind(n)
  BY DEF Sound, Behind, Nodes, Rounds
<1>2. CASE r > n.hqc
  <2> DEFINE i == InsertQuorumCert(n, r)
  <2>1. NewQcFromOrderVoteMsg(n, r) = ProcessCertificates(i)
    BY <1>2 DEF NewQcFromOrderVoteMsg
  <2>2. Behind(i) /\ i.hqc >= r /\ (Joins(n) => Joins(i))
    BY <1>1, InsertQuorumCertBehind
  <2> HIDE DEF i
  <2>3. i.hqc \in Int
    BY <2>2 DEF Behind, Nodes
  <2> QED BY <1>1, <2>1, <2>2, <2>3, ProcessCertificatesSound
<1>3. CASE ~(r > n.hqc)
  BY <1>1, <1>3 DEF NewQcFromOrderVoteMsg
<1> QED BY <1>2, <1>3

LEMMA OrderVotesSound ==
  ASSUME NEW n, Sound(n), NEW ov \in [round : Rounds, voters : SUBSET Validators, enough : BOOLEAN]
  PROVE  LET m == WithOrderVotes(n, ov) IN
         /\ Sound(m) /\ m.hqc = n.hqc
         /\ Joins(n) => Joins(m)
<1> DEFINE m == WithOrderVotes(n, ov)
<1>1. n \in Nodes
  BY DEF Sound, Behind
<1>2. /\ m \in Nodes
      /\ m.hqc = n.hqc /\ m.htc = n.htc /\ m.hoc = n.hoc /\ m.current_round = n.current_round
      /\ m.pending = n.pending /\ m.partial_tc = n.partial_tc /\ m.echo_timeout = n.echo_timeout
      /\ m.vote_sent = n.vote_sent /\ m.sd = n.sd /\ m.saved_vote = n.saved_vote /\ m.sent = n.sent
      /\ m.futures = n.futures /\ m.resending = n.resending /\ m.buffered = n.buffered
  <2> DEFINE ovs == {o \in n.order_votes : o.round # ov.round} \cup {ov}
  <2>1. ovs \in SUBSET [round : Rounds, voters : SUBSET Validators, enough : BOOLEAN]
    BY <1>1 DEF Nodes
  <2>2. m = [n EXCEPT !.order_votes = ovs]
    BY <1>1 DEF WithOrderVotes, Nodes
  <2> HIDE DEF ovs, m
  <2> QED BY <1>1, <2>1, <2>2 DEF Nodes
<1> HIDE DEF m
<1>3. Sound(m)
  BY <1>2, QueuesSound DEF Sound, Behind, CertsInv
<1> QED BY <1>2, <1>3, JoinsKept DEF m

LEMMA InsertOrderVoteSound ==
  ASSUME NEW n, Sound(n), NEW a \in Validators, NEW r \in Rounds, NEW ok \in BOOLEAN, r <= n.hqc
  PROVE  LET m == InsertOrderVote(n, a, r, ok) IN
         /\ Sound(m)
         /\ Joins(n) => Joins(m)
<1> DEFINE S == [round : Rounds, voters : SUBSET Validators, enough : BOOLEAN]
           st == OrderVoteStatus(n, r)
           ov == [st EXCEPT !.voters = @ \cup {a}]
           en == [ov EXCEPT !.enough = TRUE]
<1>1. st \in S
  <2>1. n.order_votes \subseteq S
    BY DEF Sound, Behind, Nodes
  <2>2. NoOrderVotes(r) \in S
    BY DEF NoOrderVotes
  <2>3. CASE \E o \in n.order_votes : o.round = r
    <3>1. st = CHOOSE o \in n.order_votes : o.round = r
      BY <2>3 DEF OrderVoteStatus
    <3> QED BY <2>1, <2>3, <3>1
  <2>4. CASE ~\E o \in n.order_votes : o.round = r
    BY <2>2, <2>4 DEF OrderVoteStatus
  <2> QED BY <2>3, <2>4
<1> HIDE DEF st
<1>2. ov \in S
  BY <1>1
<1>3. en \in S
  BY <1>1
<1>4. InsertOrderVote(n, a, r, ok) =
        IF Cardinality(ov.voters) < Quorum THEN WithOrderVotes(n, ov)
        ELSE NewOrderedCert(WithOrderVotes(n, en), r, ok)
  BY DEF InsertOrderVote, st
<1> HIDE DEF ov, en
<1>5. CASE Cardinality(ov.voters) < Quorum
  BY <1>2, <1>4, <1>5, OrderVotesSound
<1>6. CASE ~(Cardinality(ov.voters) < Quorum)
  <2> DEFINE w == WithOrderVotes(n, en)
             i == InsertOrderedCert(w, r)
  <2>1. Sound(w) /\ w.hqc = n.hqc /\ (Joins(n) => Joins(w))
    BY <1>3, OrderVotesSound
  <2> HIDE DEF w
  <2>2. CASE ok
    <3>1. InsertOrderVote(n, a, r, ok) = ProcessCertificates(i)
      BY <1>4, <1>6, <2>2 DEF NewOrderedCert, w
    <3>2. Behind(w) /\ r \in 0 .. MaxRound
      BY <2>1 DEF Sound, Rounds
    <3>3. Behind(i) /\ (Joins(w) => Joins(i))
      BY <2>1, <3>2, InsertOrderedCertBehind
    <3> HIDE DEF i
    <3> QED BY <2>1, <3>1, <3>3, ProcessCertificatesSound
  <2>3. CASE ~ok
    BY <1>4, <1>6, <2>1, <2>3 DEF NewOrderedCert, w
  <2> QED BY <2>2, <2>3
<1> QED BY <1>5, <1>6

----------------------------------------------------------------------------
(* Restarts *)

\* What storage holds: the certificates, the safety data and the saved vote.
Persisted(n) ==
  /\ n \in Nodes
  /\ n.hoc <= n.hqc /\ n.htc.hqc_round <= n.hqc /\ n.sd.one_chain_round <= n.hqc
  /\ n.sd.last_vote = None => n.sd.last_voted_round = 0
  /\ n.sd.last_vote # None =>
       n.sd.last_voted_round = n.sd.last_vote.round /\ n.sd.last_vote.round <= HighestRound(n) + 1
  /\ n.saved_vote # None => Remembered(n, n.saved_vote)
  /\ \A v \in n.sent : Remembered(n, v.block)
  /\ \A v, u \in n.sent : v.block.round = u.block.round => v.block = u.block

LEMMA SoundPersisted ==
  ASSUME NEW n, Sound(n)
  PROVE  Persisted(n)
BY DEF Sound, Behind, CertsInv, VotesInv, Persisted

\* init: the vote of this round, if it was saved, is the one the safety data remember.
LEMMA RestartSound ==
  ASSUME NEW n, Persisted(n)
  PROVE  Sound(Restart(n)) /\ Joins(Restart(n))
<1> DEFINE z == [n EXCEPT !.current_round = 0, !.vote_sent = None, !.futures = {}, !.resending = {},
                          !.buffered = {}, !.already_proposed = None, !.order_votes = {}]
           s == ProcessCertificates(z)
           v == Vote(n.saved_vote, NoTimeout)
           m == [s EXCEPT !.vote_sent = v]
<1>1. n \in Nodes
  BY DEF Persisted
<1>2. /\ z \in Nodes /\ z.hqc = n.hqc /\ z.htc = n.htc /\ z.hoc = n.hoc /\ z.current_round = 0
      /\ z.sd = n.sd /\ z.saved_vote = n.saved_vote /\ z.sent = n.sent
      /\ z.futures = {} /\ z.resending = {} /\ z.buffered = {}
  <2>1. 0 \in 0 .. MaxRound + 1
    BY RoundManagerAssumption
  <2>2. z \in Nodes
    BY <1>1, <2>1 DEF Nodes
  <2> QED BY <1>1, <2>2 DEF Nodes
<1>3. Restart(n) = IF n.saved_vote = None THEN s ELSE RecordVoteSent(s, v)
  BY DEF Restart
<1> HIDE DEF z
<1>4. HighestRound(z) = HighestRound(n) /\ HighestRound(n) \in Nat
  BY <1>1, <1>2, HighestRoundTyped DEF HighestRound
<1>5. /\ s \in Nodes
      /\ s.hqc = n.hqc /\ s.htc = n.htc /\ s.hoc = n.hoc /\ s.current_round = HighestRound(n) + 1
      /\ s.pending = NoVotes /\ s.partial_tc = {} /\ s.echo_timeout = FALSE /\ s.vote_sent = None
      /\ s.sd = n.sd /\ s.saved_vote = n.saved_vote /\ s.sent = n.sent
      /\ s.futures = {} /\ s.resending = {} /\ s.buffered = {}
  <2>1. ~(HighestRound(z) + 1 <= z.current_round)
    BY <1>2, <1>4
  <2> QED BY <1>2, <1>4, <2>1, NewRoundTyped
<1> HIDE DEF s
<1>6. HighestRound(s) = HighestRound(n)
  BY <1>5 DEF HighestRound
<1>7. CertsInv(s) /\ PendingInv(s)
  BY <1>5 DEF Persisted, CertsInv, PendingInv, NoVotes
<1>8. \A b : Remembered(n, b) => Remembered(s, b)
  BY <1>5 DEF Remembered
<1>9. VotesInv(s)
  BY <1>5, <1>8 DEF Persisted, VotesInv
<1>10. Sound(s) /\ Joins(s)
  <2>1. s.current_round <= HighestRound(s) + 1
    BY <1>4, <1>5, <1>6
  <2>2. Joins(s)
    BY <1>5, JoinsAfresh
  <2> QED BY <1>5, <1>6, <1>7, <1>9, <2>1, <2>2 DEF Sound, Behind
<1>11. CASE n.saved_vote = None \/ v.block.round # s.current_round
  BY <1>3, <1>10, <1>11 DEF RecordVoteSent
<1>12. CASE n.saved_vote # None /\ v.block.round = s.current_round
  <2>1. Restart(n) = m
    BY <1>3, <1>12 DEF RecordVoteSent
  <2>2. n.saved_vote \in Blocks
    BY <1>1, <1>12 DEF Nodes
  <2>3. v \in VoteRecords /\ v.block = n.saved_vote /\ v.hqc_round = NoTimeout
    BY <2>2 DEF Vote, VoteRecords
  <2> HIDE DEF v
  <2>4. /\ m \in Nodes /\ m.vote_sent = v
        /\ m.hqc = s.hqc /\ m.htc = s.htc /\ m.hoc = s.hoc /\ m.current_round = s.current_round
        /\ m.pending = s.pending /\ m.partial_tc = s.partial_tc /\ m.echo_timeout = s.echo_timeout
        /\ m.sd = s.sd /\ m.saved_vote = s.saved_vote /\ m.sent = s.sent
        /\ m.futures = s.futures /\ m.resending = s.resending /\ m.buffered = s.buffered
    BY <1>5, <2>3 DEF Nodes
  <2> HIDE DEF m
  <2>5. CertsInv(m) /\ PendingInv(m) /\ HighestRound(m) = HighestRound(s)
    BY <1>7, <2>4 DEF CertsInv, PendingInv, HighestRound
  <2>6. n.sd.last_vote # None /\ n.saved_vote = n.sd.last_vote
    <3>1. Remembered(n, n.saved_vote)
      BY <1>12 DEF Persisted
    <3>2. n.sd.last_vote # None /\ n.saved_vote.round <= n.sd.last_vote.round
      BY <3>1 DEF Remembered
    <3>3. n.sd.last_vote.round <= n.saved_vote.round
      BY <1>5, <1>12, <2>3, <3>2 DEF Persisted
    <3>4. n.sd.last_vote.round \in Int /\ n.saved_vote.round \in Int
      BY <1>1, <2>2, <3>2, BlocksTyped DEF Nodes, SafetyDatas, Rounds
    <3> QED BY <3>1, <3>2, <3>3, <3>4 DEF Remembered
  <2>7. VotesInv(m)
    <3>1. \A b : Remembered(s, b) => Remembered(m, b)
      BY <2>4 DEF Remembered
    <3> QED BY <1>5, <1>9, <1>12, <2>3, <2>4, <2>6, <3>1 DEF VotesInv
  <2>8. Joins(m)
    BY <1>10, <2>4, JoinsKept
  <2> QED BY <1>10, <2>1, <2>4, <2>5, <2>7, <2>8 DEF Sound, Behind
<1> QED BY <1>11, <1>12

----------------------------------------------------------------------------
(* The steps *)

IndInv ==
  /\ Sound(node)
  /\ HeldBack \/ Joins(node)
  /\ back_pressure \in BOOLEAN /\ (back_pressure => HeldBack)
  /\ setting \in Settings
  /\ crashes \in 0 .. MaxCrashes

\* What an event may leave the validator with.
Kept(m) == Sound(m) /\ (HeldBack \/ Joins(m))

LEMMA InitIndInv == Init => IndInv
<1> SUFFICES ASSUME Init PROVE IndInv
  OBVIOUS
<1> DEFINE n == [hqc |-> 0, htc |-> NoTC, hoc |-> 0, current_round |-> 0, pending |-> NoVotes, partial_tc |-> {},
                 echo_timeout |-> FALSE, vote_sent |-> None, sd |-> FreshSafetyData(1),
                 saved_vote |-> None, futures |-> {}, resending |-> {}, buffered |-> {},
                 already_proposed |-> None, order_votes |-> {}, sent |-> {}]
<1>1. node = Restart(n)
  BY DEF Init
<1>2. FreshSafetyData(1) \in SafetyDatas /\ NoTC \in TimeoutCerts /\ NoVotes \in [Validators -> {None} \cup VoteRecords]
  BY RoundManagerAssumption DEF FreshSafetyData, SafetyDatas, TimeoutCerts, NoVotes
<1>3. n \in Nodes
  BY <1>2, RoundManagerAssumption DEF Nodes
<1>4. Persisted(n)
  BY <1>3, <1>2 DEF Persisted, FreshSafetyData, NoTC
<1> HIDE DEF n
<1>5. Sound(node) /\ Joins(node)
  BY <1>1, <1>4, RestartSound
<1>6. setting \in Settings /\ 0 \in 0 .. MaxCrashes
  BY RoundManagerAssumption DEF Init, MaxCrashes
<1> QED BY <1>5, <1>6 DEF Init, IndInv

LEMMA StepsTyped ==
  ASSUME NEW si, NEW k \in Steps(si)
  PROVE  k \in 0 .. Added
BY DEF Steps, Added

\* The certificates of a message that leads to its round.
LEMMA InRoundSound ==
  ASSUME IndInv, NEW round \in Rounds, round >= node.current_round,
         NEW si \in SyncInfos, NEW k \in 0 .. Added
  PROVE  LET n == EnsureRoundAndSyncUp(node, round, si, k) IN
         /\ Kept(n)
         /\ InRound(node, round, si, k) => n.current_round = round /\ n.hqc >= si.hqc
<1>1. node.current_round \in Int /\ round \in Int
  BY DEF IndInv, Sound, Behind, Nodes, Rounds
<1>2. EnsureRoundAndSyncUp(node, round, si, k) = SyncUp(node, si, k)
  BY <1>1 DEF EnsureRoundAndSyncUp
<1>3. Sound(SyncUp(node, si, k)) /\ (Joins(node) => Joins(SyncUp(node, si, k)))
  BY SyncUpSound DEF IndInv
<1>4. InRound(node, round, si, k) => SyncUp(node, si, k).hqc >= si.hqc
  BY SyncUpSound DEF IndInv, InRound
<1> QED BY <1>2, <1>3, <1>4 DEF IndInv, Kept, InRound

LEMMA ProposalMsgKept ==
  ASSUME IndInv, NEW b \in Proposals, NEW si \in SyncInfosTo[b.round], NEW k \in Steps(si),
         NEW available \in BOOLEAN, ProposalMsg(b, si, k, available)
  PROVE  Kept(node')
<1> DEFINE n == EnsureRoundAndSyncUp(node, b.round, si, k)
<1>1. b \in Blocks /\ b.round \in Rounds /\ b.qc.round \in Int /\ b.round \in Int
  BY ProposalsAreBlocks, BlocksTyped DEF Rounds
<1>2. si \in SyncInfos /\ k \in 0 .. Added /\ si.hqc \in Int
  BY <1>1, StepsTyped, SyncInfoTyped DEF SyncInfosTo
<1>3. /\ Kept(n)
      /\ InRound(node, b.round, si, k) => n.current_round = b.round /\ n.hqc >= si.hqc
  BY <1>1, <1>2, InRoundSound DEF ProposalMsg
<1>4. node' = IF InRound(node, b.round, si, k) THEN ProcessProposal(n, b, available) ELSE n
  BY DEF ProposalMsg
<1> HIDE DEF n
<1>5. CASE ~InRound(node, b.round, si, k)
  BY <1>3, <1>4, <1>5
<1>6. CASE InRound(node, b.round, si, k)
  <2>1. si.hqc = b.qc.round
    BY DEF ProposalMsg, WellFormed
  <2>2. n.hqc \in Int /\ n.current_round \in Int
    BY <1>3 DEF Kept, Sound, Behind, Nodes
  <2>3. b.round <= n.current_round /\ b.qc.round <= n.hqc
    BY <1>1, <1>2, <1>3, <1>6, <2>1, <2>2
  <2> DEFINE m == ProcessProposal(n, b, available)
  <2>4. /\ Sound(m)
        /\ n.sent \subseteq m.sent /\ m.current_round = n.current_round
        /\ m.partial_tc = n.partial_tc /\ m.echo_timeout = n.echo_timeout
    BY <1>3, <2>3, ProcessProposalSound DEF Kept
  <2>5. node' = m
    BY <1>4, <1>6
  <2> HIDE DEF m
  <2> QED BY <1>3, <2>4, <2>5, JoinsKept DEF Kept
<1> QED BY <1>5, <1>6

LEMMA VoteMsgKept ==
  ASSUME IndInv, NEW a \in Validators, NEW v \in VoteRecords, NEW si \in SyncInfosTo[v.block.round], NEW k \in Steps(si),
         NEW ok \in BOOLEAN, VoteMsg(a, v, si, k, ok)
  PROVE  Kept(node')
<1> DEFINE n == EnsureRoundAndSyncUp(node, v.block.round, si, k)
<1>1. v.block \in Blocks /\ v.block.round \in Rounds /\ v.hqc_round \in Int
  BY BlocksTyped, RoundManagerAssumption DEF VoteRecords, NoTimeout
<1>2. si \in SyncInfos /\ k \in 0 .. Added /\ si.hqc \in Int
  BY <1>1, StepsTyped, SyncInfoTyped DEF SyncInfosTo
<1>3. /\ Kept(n)
      /\ InRound(node, v.block.round, si, k) => n.current_round = v.block.round /\ n.hqc >= si.hqc
  BY <1>1, <1>2, InRoundSound DEF VoteMsg
<1>4. node' = IF InRound(node, v.block.round, si, k) THEN ProcessVote(n, a, v, ok) ELSE n
  BY DEF VoteMsg
<1> HIDE DEF n
<1>5. CASE ~InRound(node, v.block.round, si, k)
  BY <1>3, <1>4, <1>5
<1>6. CASE InRound(node, v.block.round, si, k)
  <2>1. v.hqc_round <= si.hqc
    BY DEF VoteMsg
  <2>2. n.hqc \in Int
    BY <1>3 DEF Kept, Sound, Behind, Nodes
  <2>3. v.block.round = n.current_round /\ v.hqc_round <= n.hqc
    BY <1>1, <1>2, <1>3, <1>6, <2>1, <2>2
  <2>4. /\ Sound(ProcessVote(n, a, v, ok))
        /\ ~back_pressure /\ Joins(n) => Joins(ProcessVote(n, a, v, ok))
    BY <1>3, <2>3, ProcessVoteSound DEF Kept
  <2> QED BY <1>3, <1>4, <1>6, <2>4 DEF Kept, IndInv
<1> QED BY <1>5, <1>6

\* A proposal leaves one of the places it can wait in.
LEMMA QueueLeft ==
  ASSUME IndInv, NEW m \in Nodes,
         m.hqc = node.hqc, m.htc = node.htc, m.hoc = node.hoc, m.current_round = node.current_round,
         m.pending = node.pending, m.partial_tc = node.partial_tc, m.echo_timeout = node.echo_timeout,
         m.vote_sent = node.vote_sent, m.sd = node.sd, m.saved_vote = node.saved_vote, m.sent = node.sent,
         m.futures \cup m.resending \cup m.buffered \subseteq node.futures \cup node.resending \cup node.buffered
  PROVE  Kept(m)
<1>1. \A b \in m.futures \cup m.resending \cup m.buffered :
         b.qc.round <= node.hqc /\ b.round <= node.current_round
  BY DEF IndInv, Sound, Behind, CertsInv
<1>2. Sound(m)
  BY <1>1, QueuesSound DEF IndInv
<1> QED BY <1>2, JoinsKept DEF Kept, IndInv

LEMMA PayloadArrivesKept ==
  ASSUME IndInv, NEW b \in node.futures, NEW ok \in BOOLEAN, PayloadArrives(b, ok)
  PROVE  Kept(node')
<1> DEFINE n == [node EXCEPT !.futures = @ \ {b}]
<1>1. node \in Nodes
  BY DEF IndInv, Sound, Behind
<1>2. /\ n \in Nodes
      /\ n.hqc = node.hqc /\ n.htc = node.htc /\ n.hoc = node.hoc /\ n.current_round = node.current_round
      /\ n.pending = node.pending /\ n.partial_tc = node.partial_tc /\ n.echo_timeout = node.echo_timeout
      /\ n.vote_sent = node.vote_sent /\ n.sd = node.sd /\ n.saved_vote = node.saved_vote /\ n.sent = node.sent
      /\ n.futures = node.futures \ {b} /\ n.resending = node.resending /\ n.buffered = node.buffered
  BY <1>1 DEF Nodes
<1>3. node' = IF ok THEN CheckBackPressure(n, b) ELSE n
  BY DEF PayloadArrives
<1> HIDE DEF n
<1>4. Kept(n)
  BY <1>2, QueueLeft
<1>5. b \in Proposals /\ b.round <= n.current_round /\ b.qc.round <= n.hqc
  BY <1>1, <1>2 DEF IndInv, Sound, Behind, CertsInv, Nodes
<1>6. CASE ok
  <2> DEFINE m == CheckBackPressure(n, b)
  <2>1. /\ Sound(m)
        /\ n.sent \subseteq m.sent /\ m.current_round = n.current_round
        /\ m.partial_tc = n.partial_tc /\ m.echo_timeout = n.echo_timeout
    BY <1>4, <1>5, CheckBackPressureSound DEF Kept
  <2>2. node' = m
    BY <1>3, <1>6
  <2> HIDE DEF m
  <2> QED BY <1>4, <2>1, <2>2, JoinsKept DEF Kept
<1>7. CASE ~ok
  BY <1>3, <1>4, <1>7
<1> QED BY <1>6, <1>7

LEMMA ResendingKept ==
  ASSUME IndInv, NEW b \in node.resending, ResendProposal(b) \/ StopResending(b)
  PROVE  Kept(node')
<1>1. node \in Nodes /\ b \in Proposals
  BY DEF IndInv, Sound, Behind, Nodes
<1>2. CASE ResendProposal(b)
  <2> DEFINE n == [node EXCEPT !.resending = @ \ {b}, !.buffered = @ \cup {b}]
  <2>1. node' = n
    BY <1>2 DEF ResendProposal
  <2>2. /\ n \in Nodes
        /\ n.hqc = node.hqc /\ n.htc = node.htc /\ n.hoc = node.hoc /\ n.current_round = node.current_round
        /\ n.pending = node.pending /\ n.partial_tc = node.partial_tc /\ n.echo_timeout = node.echo_timeout
        /\ n.vote_sent = node.vote_sent /\ n.sd = node.sd /\ n.saved_vote = node.saved_vote /\ n.sent = node.sent
        /\ n.futures = node.futures /\ n.resending = node.resending \ {b} /\ n.buffered = node.buffered \cup {b}
    BY <1>1 DEF Nodes
  <2> HIDE DEF n
  <2> QED BY <2>1, <2>2, QueueLeft
<1>3. CASE StopResending(b)
  <2> DEFINE n == [node EXCEPT !.resending = @ \ {b}]
  <2>1. node' = n
    BY <1>3 DEF StopResending
  <2>2. /\ n \in Nodes
        /\ n.hqc = node.hqc /\ n.htc = node.htc /\ n.hoc = node.hoc /\ n.current_round = node.current_round
        /\ n.pending = node.pending /\ n.partial_tc = node.partial_tc /\ n.echo_timeout = node.echo_timeout
        /\ n.vote_sent = node.vote_sent /\ n.sd = node.sd /\ n.saved_vote = node.saved_vote /\ n.sent = node.sent
        /\ n.futures = node.futures /\ n.resending = node.resending \ {b} /\ n.buffered = node.buffered
    BY <1>1 DEF Nodes
  <2> HIDE DEF n
  <2> QED BY <2>1, <2>2, QueueLeft
<1> QED BY <1>2, <1>3

LEMMA BufferedProposalKept ==
  ASSUME IndInv, NEW b \in node.buffered, BufferedProposal(b)
  PROVE  Kept(node')
<1> DEFINE n == [node EXCEPT !.buffered = @ \ {b}]
<1>1. node \in Nodes
  BY DEF IndInv, Sound, Behind
<1>2. /\ n \in Nodes
      /\ n.hqc = node.hqc /\ n.htc = node.htc /\ n.hoc = node.hoc /\ n.current_round = node.current_round
      /\ n.pending = node.pending /\ n.partial_tc = node.partial_tc /\ n.echo_timeout = node.echo_timeout
      /\ n.vote_sent = node.vote_sent /\ n.sd = node.sd /\ n.saved_vote = node.saved_vote /\ n.sent = node.sent
      /\ n.futures = node.futures /\ n.resending = node.resending /\ n.buffered = node.buffered \ {b}
  BY <1>1 DEF Nodes
<1>3. node' = IF b.round = n.current_round THEN ProcessVerifiedProposal(n, b) ELSE n
  BY DEF BufferedProposal
<1> HIDE DEF n
<1>4. Kept(n)
  BY <1>2, QueueLeft
<1>5. b \in Blocks /\ b.round <= n.current_round /\ b.qc.round <= n.hqc
  BY <1>1, <1>2, ProposalsAreBlocks DEF IndInv, Sound, Behind, CertsInv, Nodes
<1>6. CASE b.round = n.current_round
  <2> DEFINE m == ProcessVerifiedProposal(n, b)
  <2>1. /\ Sound(m)
        /\ n.sent \subseteq m.sent /\ m.current_round = n.current_round
        /\ m.partial_tc = n.partial_tc /\ m.echo_timeout = n.echo_timeout
    BY <1>4, <1>5, ProcessVerifiedProposalSound DEF Kept
  <2>2. node' = m
    BY <1>3, <1>6
  <2> HIDE DEF m
  <2> QED BY <1>4, <2>1, <2>2, JoinsKept DEF Kept
<1>7. CASE b.round # n.current_round
  BY <1>3, <1>4, <1>7
<1> QED BY <1>6, <1>7

LEMMA OrderVoteMsgKept ==
  ASSUME IndInv, NEW a \in Validators, NEW r \in Rounds, NEW fetched \in BOOLEAN, NEW ok \in BOOLEAN,
         OrderVoteMsg(a, r, fetched, ok)
  PROVE  Kept(node')
<1> DEFINE n == NewQcFromOrderVoteMsg(node, r)
<1>1. Sound(n) /\ r <= n.hqc /\ (Joins(node) => Joins(n))
  BY NewQcFromOrderVoteMsgSound DEF IndInv
<1>2. node' = IF OrderVoteStatus(n, r).enough \/ r <= n.hoc THEN n ELSE InsertOrderVote(n, a, r, ok)
  BY DEF OrderVoteMsg
<1> HIDE DEF n
<1>3. Sound(InsertOrderVote(n, a, r, ok)) /\ (Joins(n) => Joins(InsertOrderVote(n, a, r, ok)))
  BY <1>1, InsertOrderVoteSound
<1> QED BY <1>1, <1>2, <1>3 DEF Kept, IndInv

LEMMA SyncInfoMsgKept ==
  ASSUME IndInv, NEW si \in SyncInfos, NEW k \in Steps(si), SyncInfoMsg(si, k)
  PROVE  Kept(node')
<1>1. k \in 0 .. Added
  BY StepsTyped
<1>2. Sound(SyncUp(node, si, k)) /\ (Joins(node) => Joins(SyncUp(node, si, k)))
  BY <1>1, SyncUpSound DEF IndInv
<1>3. node' = node \/ node' = SyncUp(node, si, k)
  BY DEF SyncInfoMsg, EnsureRoundAndSyncUp
<1> QED BY <1>2, <1>3 DEF Kept, IndInv

LEMMA LocalTimeoutKept ==
  ASSUME IndInv, LocalTimeout
  PROVE  Kept(node')
<1> DEFINE m == ProcessLocalTimeout(node)
<1>1. node' = m /\ node.current_round \in Rounds
  BY DEF LocalTimeout
<1>2. /\ Sound(m)
      /\ node.sent \subseteq m.sent /\ m.current_round = node.current_round
      /\ m.partial_tc = node.partial_tc /\ m.echo_timeout = node.echo_timeout
  BY <1>1, ProcessLocalTimeoutSound DEF IndInv
<1> HIDE DEF m
<1> QED BY <1>1, <1>2, JoinsKept DEF Kept, IndInv

\* Wherever the process stops, what it restarts from is sound.
LEMMA CrashAnywhereKept ==
  ASSUME IndInv, CrashAnywhere
  PROVE  Kept(node')
<1>1. ASSUME NEW n, Sound(n), Crash(n) PROVE Kept(node')
  BY <1>1, SoundPersisted, RestartSound DEF Crash, Kept
<1>2. CASE Crash(node)
  BY <1>1, <1>2 DEF IndInv
<1>3. ASSUME NEW b \in Blocks, b.round = node.current_round,
             b.nil => b.qc.round = node.hqc, ~b.nil => b.qc.round <= node.hqc, CanVote(node, b),
             Crash(SafetySign(node, b)) \/ Crash(VoteBlock(node, b))
      PROVE  Kept(node')
  <2>1. Sound(node) /\ node.vote_sent = None /\ SafetyAccepts(node, b)
    BY <1>3 DEF IndInv, CanVote
  <2>2. node.hqc \in Int /\ node.current_round \in Int
    BY <2>1 DEF Sound, Behind, Nodes
  <2>3. b.round <= node.current_round /\ b.qc.round <= node.hqc
    BY <1>3, <2>2
  <2>4. Sound(SafetySign(node, b))
    BY <2>1, <2>3, SafetySignSound
  <2>5. Sound(VoteBlock(node, b))
    BY <2>1, <2>3, VoteBlockSound
  <2> QED BY <1>1, <1>3, <2>4, <2>5
<1> QED BY <1>2, <1>3 DEF CrashAnywhere

LEMMA NextIndInv == IndInv /\ [Next]_vars => IndInv'
<1> SUFFICES ASSUME IndInv, [Next]_vars PROVE IndInv'
  OBVIOUS
<1>1. ASSUME Kept(node'), UNCHANGED <<back_pressure, setting>>, crashes' = crashes \/ (crashes < MaxCrashes /\ crashes' = crashes + 1)
      PROVE  IndInv'
  <2>1. MaxCrashes \in Nat
    BY RoundManagerAssumption DEF IndInv, MaxCrashes
  <2>2. Sound(node)' /\ (HeldBack \/ Joins(node))'
    BY <1>1 DEF Kept, HeldBack
  <2>3. crashes' \in 0 .. MaxCrashes'
    BY <1>1, <2>1 DEF IndInv, MaxCrashes
  <2> QED BY <1>1, <2>2, <2>3 DEF IndInv, HeldBack
<1>2. CASE UNCHANGED vars
  BY <1>2 DEF vars, IndInv, HeldBack, MaxCrashes, Sound, Behind, CertsInv, VotesInv, PendingInv,
              Remembered, HighestRound, Joins, Joined
<1>3. CASE Next
  <2>0. setting' = setting
    BY <1>3 DEF Next
  <2>1. ASSUME NEW b \in Proposals, NEW si \in SyncInfosTo[b.round], NEW k \in Steps(si),
               NEW available \in {TRUE, ~WaitsForPayload}, ProposalMsg(b, si, k, available)
        PROVE  IndInv'
    BY <1>1, <2>0, <2>1, ProposalMsgKept DEF ProposalMsg
  <2>2. ASSUME NEW b \in node.futures, NEW ok \in BOOLEAN, PayloadArrives(b, ok) PROVE IndInv'
    BY <1>1, <2>0, <2>2, PayloadArrivesKept DEF PayloadArrives
  <2>3. ASSUME NEW b \in node.resending, ResendProposal(b) \/ StopResending(b) PROVE IndInv'
    BY <1>1, <2>0, <2>3, ResendingKept DEF ResendProposal, StopResending
  <2>4. ASSUME NEW b \in node.buffered, BufferedProposal(b) PROVE IndInv'
    BY <1>1, <2>0, <2>4, BufferedProposalKept DEF BufferedProposal
  <2>5. ASSUME NEW v \in node.sent, NEW si \in SyncInfosTo[v.block.round], NEW k \in Steps(si),
               NEW ok \in BOOLEAN, VoteMsg(Self, v, si, k, ok)
        PROVE  IndInv'
    <3>1. v \in VoteRecords /\ Self \in Validators
      BY RoundManagerAssumption DEF IndInv, Sound, Behind, Nodes
    <3> QED BY <1>1, <2>0, <2>5, <3>1, VoteMsgKept DEF VoteMsg
  <2>6. ASSUME NEW b \in {Block(p[1], p[2], FALSE) : p \in PeersVoteFor}, NEW si \in SyncInfosTo[b.round],
               NEW a \in Peers, NEW h \in {NoTimeout} \cup (IF PeersTimeOut THEN 0 .. b.round - 1 ELSE {}),
               NEW k \in Steps(si), NEW ok \in BOOLEAN, VoteMsg(a, Vote(b, h), si, k, ok)
        PROVE  IndInv'
    <3>1. b \in Blocks
      <4>1. PeersVoteFor \subseteq BlockRounds
        BY RoundManagerAssumption DEF IndInv, PeersVoteFor
      <4> QED BY <4>1 DEF Blocks, Proposals
    <3>2. h \in {NoTimeout} \cup (0 .. MaxRound)
      BY <3>1, BlocksTyped, RoundManagerAssumption DEF Rounds
    <3>3. Vote(b, h) \in VoteRecords /\ Vote(b, h).block = b
      BY <3>1, <3>2 DEF Vote, VoteRecords
    <3>4. Kept(node')
      BY <2>6, <3>3, VoteMsgKept DEF Peers
    <3> QED BY <1>1, <2>0, <2>6, <3>4 DEF VoteMsg
  <2>7. ASSUME NEW a \in Validators, NEW r \in Rounds, NEW fetched \in BOOLEAN, NEW ok \in BOOLEAN,
               OrderVoteMsg(a, r, fetched, ok)
        PROVE  IndInv'
    BY <1>1, <2>0, <2>7, OrderVoteMsgKept DEF OrderVoteMsg
  <2>8. ASSUME NEW si \in SyncInfos, NEW k \in Steps(si), SyncInfoMsg(si, k) PROVE IndInv'
    BY <1>1, <2>0, <2>8, SyncInfoMsgKept DEF SyncInfoMsg
  <2>9. CASE LocalTimeout
    BY <1>1, <2>0, <2>9, LocalTimeoutKept DEF LocalTimeout
  <2>10. CASE BackPressureChanges
    BY <2>0, <2>10 DEF BackPressureChanges, IndInv, HeldBack, MaxCrashes, Sound, Behind, CertsInv, VotesInv,
                       PendingInv, Remembered, HighestRound, Joins, Joined
  <2>11. CASE CrashAnywhere
    <3>1. UNCHANGED back_pressure /\ crashes < MaxCrashes /\ crashes' = crashes + 1
      BY <2>11 DEF CrashAnywhere, Crash
    <3> QED BY <1>1, <2>0, <2>11, <3>1, CrashAnywhereKept
  <2> QED BY <1>3, <2>1, <2>2, <2>3, <2>4, <2>5, <2>6, <2>7, <2>8, <2>9, <2>10, <2>11 DEF Next, Step
<1> QED BY <1>2, <1>3

----------------------------------------------------------------------------
(* The theorems *)

LEMMA IndInvSound == IndInv => RoundsAndVotes /\ TimeoutsComplete
<1> SUFFICES ASSUME IndInv PROVE RoundsAndVotes /\ TimeoutsComplete
  OBVIOUS
<1>1. node \in Nodes /\ Sound(node)
  BY DEF IndInv, Sound, Behind
<1>2. node.current_round \in 1 .. MaxRound + 1
  BY <1>1, HighestRoundTyped, RoundManagerAssumption DEF Sound, Nodes
<1>3. TypeOK
  <2>1. node.htc = NoTC \/ node.htc \in [round : Rounds, hqc_round : 0 .. MaxRound]
    BY <1>1 DEF Nodes, TimeoutCerts
  <2>2. \A a \in Validators : node.pending[a] # None =>
          node.pending[a].block \in Blocks /\ node.pending[a].block.round = node.current_round
    BY <1>1 DEF Nodes, VoteRecords, Sound, Behind, PendingInv
  <2>3. node.vote_sent # None => node.vote_sent.block \in Blocks
    BY <1>1 DEF Nodes, VoteRecords
  <2>4. /\ node.hqc \in 0 .. MaxRound /\ node.hoc \in 0 .. MaxRound
        /\ node.futures \cup node.resending \cup node.buffered \subseteq Proposals
    BY <1>1 DEF Nodes
  <2> QED BY <1>2, <2>1, <2>2, <2>3, <2>4 DEF IndInv, TypeOK
<1>4. RoundsAndVotes
  BY <1>1, <1>3 DEF RoundsAndVotes, RoundFollowsCertificates, OneBlockPerRound, OrderedIsCertified,
                    Sound, Behind, CertsInv, VotesInv
<1>5. TimeoutIsAccepted
  <2> SUFFICES ASSUME node.current_round <= MaxRound, ~back_pressure
               PROVE  CanRepeatVote(node) /\ CanSignTimeout(WithTimedOutVote(node))
    BY DEF TimeoutIsAccepted
  <2>1. node.current_round \in Rounds
    BY <1>2, RoundManagerAssumption DEF Rounds
  <2> QED BY <1>1, <2>1, TimeoutAccepted
<1>6. JoinsTimeout
  <2> SUFFICES ASSUME ~HeldBack, Cardinality(node.partial_tc) > Cardinality(Validators) - Quorum
               PROVE  Joined(node)
    BY DEF JoinsTimeout, Joined
  <2>1. Cardinality(node.partial_tc) \in Nat
    BY <1>1, TimeoutVotersCount
  <2>2. Cardinality(Validators) \in Nat /\ Quorum \in Int
    BY RoundManagerAssumption, FS_CardinalityType
  <2>3. Cardinality(node.partial_tc) >= FPlusOne
    BY <2>1, <2>2 DEF FPlusOne
  <2> QED BY <2>3 DEF IndInv, Joins
<1> QED BY <1>4, <1>5, <1>6 DEF TimeoutsComplete

\* Whatever is delivered, delayed, partly added or lost in a crash, a validator is in the round
\* after its highest certificate, votes for one block in a round, and orders only what is
\* certified (round_manager.rs with round_state.rs and pending_votes.rs).
THEOREM RoundsFollowCertificates == Spec => []RoundsAndVotes
<1>1. Init => IndInv
  BY InitIndInv
<1>2. IndInv /\ [Next]_vars => IndInv'
  BY NextIndInv
<1>3. IndInv => RoundsAndVotes
  BY IndInvSound
<1> QED BY <1>1, <1>2, <1>3, PTL DEF Spec

\* No round lacks its timeout certificate for want of this validator: the safety rules accept its
\* timeout vote for the round it is in, and f + 1 timeouts of others make it give that vote
\* (process_local_timeout and the EchoTimeout arm of process_vote_reception_result).
THEOREM TimeoutsAlwaysPossible == Spec => []TimeoutsComplete
<1>1. Init => IndInv
  BY InitIndInv
<1>2. IndInv /\ [Next]_vars => IndInv'
  BY NextIndInv
<1>3. IndInv => TimeoutsComplete
  BY IndInvSound
<1> QED BY <1>1, <1>2, <1>3, PTL DEF Spec

----------------------------------------------------------------------------
(* DagBroadcast: one certified node per round and author *)

LEMMA TypeInit == ASSUME RoundsAreNumbers PROVE DagInit => DagTypeOK
  BY DEF DagInit, DagTypeOK, RoundsAreNumbers

\* Every step keeps the type invariant.
LEMMA TypeNext ==
  ASSUME RoundsAreNumbers, DagTypeOK, [DagNext]_dagVars
  PROVE  DagTypeOK'
<1>. USE DEF DagTypeOK
<1>1. CASE UNCHANGED dagVars
  BY <1>1 DEF dagVars
<1>2. ASSUME NEW v \in Honest, NEW x \in Votes, Validate(v, x)
      PROVE  DagTypeOK'
  <2>1. [vote |-> x, saved |-> FALSE] \in [vote : Votes, saved : BOOLEAN]
    OBVIOUS
  <2>. QED  BY <1>2, <2>1 DEF Validate
<1>3. ASSUME NEW v \in Honest, NEW t \in tasks[v],
             SendAgain(v, t) \/ Save(v, t) \/ SaveFails(v, t) \/ Insert(v, t)
      PROVE  DagTypeOK'
  <2>1. t \in [vote : Votes, saved : BOOLEAN] /\ t.vote \in Votes /\ t.vote.round \in NodeRounds
    BY DEF Votes
  <2>2. CASE SendAgain(v, t)
    BY <2>1, <2>2 DEF SendAgain, Voted
  <2>3. CASE Save(v, t)
    <3>1. [t EXCEPT !.saved = TRUE] \in [vote : Votes, saved : BOOLEAN]
      BY <2>1
    <3>. QED  BY <2>1, <2>3, <3>1 DEF Save
  <2>4. CASE SaveFails(v, t)
    BY <2>1, <2>4 DEF SaveFails
  <2>5. CASE Insert(v, t)
    <3>1. {y \in votes[v] : ~SameSlot(y, t.vote)} \cup {t.vote} \subseteq Votes
      BY <2>1
    <3>2. CASE t.vote.round \in rows[v]
      BY <2>1, <2>5, <3>1, <3>2 DEF Insert
    <3>3. CASE t.vote.round \notin rows[v]
      BY <2>1, <2>5, <3>3 DEF Insert
    <3>. QED  BY <3>2, <3>3
  <2>. QED  BY <1>3, <2>2, <2>3, <2>4, <2>5
<1>4. ASSUME NEW v \in Honest, NEW r \in CommitRounds, Commit(v, r)
      PROVE  DagTypeOK'
  BY <1>4 DEF Commit, RoundsAreNumbers
<1>5. ASSUME NEW v \in Honest, CommitCallback(v)
      PROVE  DagTypeOK'
  BY <1>5 DEF CommitCallback, RoundsAreNumbers
<1>6. ASSUME NEW v \in Honest, Gc(v) \/ DeleteVotes(v)
      PROVE  DagTypeOK'
  BY <1>6 DEF Gc, DeleteVotes
<1>7. ASSUME NEW v \in Honest, Bootstrap(v)
      PROVE  DagTypeOK'
  <2>1. FirstRound(v) \in Nat
    BY DEF FirstRound, RoundsAreNumbers
  <2>2. {y.round : y \in stored[v]} \subseteq NodeRounds
    BY DEF Votes
  <2>. QED  BY <1>7, <2>1, <2>2 DEF Bootstrap
<1>. QED  BY <1>1, <1>2, <1>3, <1>4, <1>5, <1>6, <1>7 DEF DagNext

\* A validator that takes no step keeps its votes, and nobody signs for it.
LEMMA OthersKeep ==
  ASSUME NEW w \in Honest, VotesAgreeAt(w),
         up'[w] = up[w], committed'[w] = committed[w], lowest'[w] = lowest[w],
         votes'[w] = votes[w], stored'[w] = stored[w], deleting'[w] = deleting[w],
         tasks'[w] = tasks[w],
         \A x \in Votes : <<w, x>> \in signed' => <<w, x>> \in signed
  PROVE  VotesAgreeAt(w)'
  BY DEF VotesAgreeAt, FirstRound, StoredOnce, MemoryIsStored, DeletesOld, TasksApart,
         SavedIsStored, SignedIsStored, StoredIsKnown

\* The rounds of votes are numbers.
LEMMA Typed ==
  ASSUME RoundsAreNumbers, DagTypeOK, NEW v \in Honest
  PROVE  /\ \A x \in Votes : x.round \in Int
         /\ \A x \in votes[v] : x \in Votes /\ x.round \in Int
         /\ \A x \in stored[v] : x \in Votes /\ x.round \in Int
         /\ \A x \in deleting[v] : x \in Votes /\ x.round \in Int
         /\ \A t \in tasks[v] : /\ t.vote \in Votes /\ t.vote.round \in Int /\ t.saved \in BOOLEAN
                                /\ t = [vote |-> t.vote, saved |-> t.saved]
         /\ lowest[v] \in Int /\ committed[v] \in Int /\ Window \in Nat /\ FirstRound(v) \in Int
<1>1. ASSUME NEW x \in Votes PROVE x.round \in Int
  <2>1. x.round \in NodeRounds
    BY DEF Votes
  <2>2. \A r \in NodeRounds : r \in Int
    BY DEF RoundsAreNumbers
  <2>. QED  BY <2>1, <2>2
<1>2. votes[v] \subseteq Votes /\ stored[v] \subseteq Votes /\ deleting[v] \subseteq Votes
  BY DEF DagTypeOK
<1>3. tasks[v] \subseteq [vote : Votes, saved : BOOLEAN]
  BY DEF DagTypeOK
<1>4. lowest[v] \in Int /\ committed[v] \in Int /\ Window \in Nat
  BY DEF DagTypeOK, RoundsAreNumbers
<1>. QED  BY <1>1, <1>2, <1>3, <1>4 DEF FirstRound

\* Every step keeps the votes of a validator in agreement.
LEMMA AgreeNext ==
  ASSUME RoundsAreNumbers, DagTypeOK, VotesAgree, [DagNext]_dagVars
  PROVE  VotesAgree'
<1>. SUFFICES ASSUME NEW w \in Honest PROVE VotesAgreeAt(w)'
  BY DEF VotesAgree
<1>. VotesAgreeAt(w)
  BY DEF VotesAgree
<1>0. CASE UNCHANGED dagVars
  BY <1>0, OthersKeep DEF dagVars
<1>1. ASSUME NEW v \in Honest, NEW x \in Votes, Validate(v, x)
      PROVE  VotesAgreeAt(w)'
  <2>1. CASE w # v
    BY <1>1, <2>1, OthersKeep DEF Validate, DagTypeOK
  <2>2. CASE w = v
    <3>0. /\ tasks'[v] = tasks[v] \cup {[vote |-> x, saved |-> FALSE]}
          /\ votes'[v] = votes[v] /\ stored'[v] = stored[v] /\ lowest'[v] = lowest[v]
          /\ up'[v] = up[v] /\ deleting'[v] = deleting[v] /\ signed' = signed
          /\ \A u \in tasks[v] : ~SameSlot(u.vote, x)
      BY <1>1, Typed DEF Validate, DagTypeOK
    <3>1. StoredOnce(v)'
      BY <2>2, <3>0, Typed DEF VotesAgreeAt, StoredOnce
    <3>2. MemoryIsStored(v)'
      BY <2>2, <3>0, Typed DEF VotesAgreeAt, MemoryIsStored
    <3>3. DeletesOld(v)'
      BY <2>2, <3>0, Typed DEF VotesAgreeAt, DeletesOld
    <3>4. TasksApart(v)'
      <4>. SUFFICES ASSUME NEW u \in tasks'[v], NEW s \in tasks'[v], SameSlot(u.vote, s.vote)
                    PROVE  u = s
        BY DEF TasksApart
      <4>1. CASE u \in tasks[v] /\ s \in tasks[v]
        BY <2>2, <4>1 DEF VotesAgreeAt, TasksApart
      <4>. DEFINE n == [vote |-> x, saved |-> FALSE]
      <4>2. n.vote = x
        OBVIOUS
      <4>3. \A q \in tasks[v] : ~SameSlot(q.vote, x) /\ ~SameSlot(x, q.vote)
        BY <3>0 DEF SameSlot
      <4>4. (u \in tasks[v] \/ u = n) /\ (s \in tasks[v] \/ s = n)
        BY <3>0
      <4>. HIDE DEF n
      <4>. QED  BY <4>1, <4>2, <4>3, <4>4
    <3>5. SavedIsStored(v)'
      BY <2>2, <3>0, Typed DEF VotesAgreeAt, SavedIsStored
    <3>6. SignedIsStored(v)'
      BY <2>2, <3>0, Typed DEF VotesAgreeAt, SignedIsStored
    <3>7. StoredIsKnown(v)'
      BY <2>2, <3>0, Typed DEF VotesAgreeAt, StoredIsKnown
    <3>8. lowest'[v] <= FirstRound(v)'
      BY <1>1, <2>2, <3>0, Typed DEF Validate, VotesAgreeAt, FirstRound, RoundsAreNumbers
    <3>. QED  BY <2>2, <3>1, <3>2, <3>3, <3>4, <3>5, <3>6, <3>7, <3>8 DEF VotesAgreeAt
  <2>. QED  BY <2>1, <2>2
<1>2. ASSUME NEW v \in Honest, NEW t \in tasks[v], up[v], SendAgain(v, t)
      PROVE  VotesAgreeAt(w)'
  <2>1. CASE w # v
    BY <1>2, <2>1, OthersKeep DEF SendAgain, DagTypeOK
  <2>2. CASE w = v
    <3>0. /\ tasks'[v] = tasks[v] \ {t} /\ ~t.saved
          /\ votes'[v] = votes[v] /\ stored'[v] = stored[v] /\ lowest'[v] = lowest[v]
          /\ up'[v] = up[v] /\ deleting'[v] = deleting[v]
          /\ \E y \in votes[v] : SameSlot(t.vote, y) /\ signed' = signed \cup {<<v, y>>}
      BY <1>2, Typed DEF SendAgain, Voted, DagTypeOK
    <3>1. StoredOnce(v)'
      BY <2>2, <3>0, Typed DEF VotesAgreeAt, StoredOnce
    <3>2. MemoryIsStored(v)'
      BY <2>2, <3>0, Typed DEF VotesAgreeAt, MemoryIsStored
    <3>3. DeletesOld(v)'
      BY <2>2, <3>0, Typed DEF VotesAgreeAt, DeletesOld
    <3>4. TasksApart(v)'
      BY <2>2, <3>0, Typed DEF VotesAgreeAt, TasksApart
    <3>5. SavedIsStored(v)'
      BY <2>2, <3>0, Typed DEF VotesAgreeAt, SavedIsStored
    <3>6. SignedIsStored(v)'
      BY <1>2, <2>2, <3>0, Typed DEF SameSlot, VotesAgreeAt,
         StoredOnce, MemoryIsStored, DeletesOld, TasksApart, SavedIsStored, SignedIsStored, StoredIsKnown
    <3>7. StoredIsKnown(v)'
      BY <2>2, <3>0, Typed DEF VotesAgreeAt, StoredIsKnown
    <3>8. lowest'[v] <= FirstRound(v)'
      BY <1>2, <2>2, <3>0, Typed DEF SendAgain, VotesAgreeAt, FirstRound, RoundsAreNumbers
    <3>. QED  BY <2>2, <3>1, <3>2, <3>3, <3>4, <3>5, <3>6, <3>7, <3>8 DEF VotesAgreeAt
  <2>. QED  BY <2>1, <2>2
<1>3. ASSUME NEW v \in Honest, NEW t \in tasks[v], up[v], Save(v, t)
      PROVE  VotesAgreeAt(w)'
  <2>1. CASE w # v
    BY <1>3, <2>1, OthersKeep DEF Save, DagTypeOK
  <2>2. CASE w = v
    <3>0. /\ tasks'[v] = (tasks[v] \ {t}) \cup {[vote |-> t.vote, saved |-> TRUE]} /\ ~t.saved
          /\ stored'[v] = {y \in stored[v] : ~SameSlot(y, t.vote)} \cup {t.vote}
          /\ votes'[v] = votes[v] /\ lowest'[v] = lowest[v] /\ deleting'[v] = deleting[v]
          /\ up'[v] = up[v] /\ signed' = signed
          /\ \A y \in votes[v] : ~SameSlot(t.vote, y)
      BY <1>3, Typed DEF Save, Voted, DagTypeOK
    <3>1. StoredOnce(v)'
      BY <1>3, <2>2, <3>0, Typed DEF SameSlot, VotesAgreeAt,
         StoredOnce, MemoryIsStored, DeletesOld, TasksApart, SavedIsStored, SignedIsStored, StoredIsKnown
    <3>2. MemoryIsStored(v)'
      BY <1>3, <2>2, <3>0, Typed DEF SameSlot, VotesAgreeAt,
         StoredOnce, MemoryIsStored, DeletesOld, TasksApart, SavedIsStored, SignedIsStored, StoredIsKnown
    <3>3. DeletesOld(v)'
      BY <2>2, <3>0, Typed DEF VotesAgreeAt, DeletesOld
    <3>4. TasksApart(v)'
      <4>. SUFFICES ASSUME NEW u \in tasks'[v], NEW s \in tasks'[v], SameSlot(u.vote, s.vote)
                    PROVE  u = s
        BY DEF TasksApart
      <4>1. CASE u \in tasks[v] /\ s \in tasks[v]
        BY <2>2, <4>1 DEF VotesAgreeAt, TasksApart
      <4>2. \A q \in tasks[v] \ {t} : ~SameSlot(q.vote, t.vote) /\ ~SameSlot(t.vote, q.vote)
        BY <2>2 DEF VotesAgreeAt, TasksApart, SameSlot
      <4>. DEFINE n == [vote |-> t.vote, saved |-> TRUE]
      <4>3. n.vote = t.vote
        OBVIOUS
      <4>4. (u \in tasks[v] \ {t} \/ u = n) /\ (s \in tasks[v] \ {t} \/ s = n)
        BY <3>0
      <4>. HIDE DEF n
      <4>. QED  BY <4>1, <4>2, <4>3, <4>4
    <3>5. SavedIsStored(v)'
      BY <1>3, <2>2, <3>0, Typed DEF SameSlot, VotesAgreeAt,
         StoredOnce, MemoryIsStored, DeletesOld, TasksApart, SavedIsStored, SignedIsStored, StoredIsKnown
    <3>6. SignedIsStored(v)'
      BY <1>3, <2>2, <3>0, Typed DEF SameSlot, VotesAgreeAt,
         StoredOnce, MemoryIsStored, DeletesOld, TasksApart, SavedIsStored, SignedIsStored, StoredIsKnown
    <3>7. StoredIsKnown(v)'
      <4>. SUFFICES ASSUME NEW y \in stored'[v], y.round >= lowest[v]
                    PROVE  y \in votes[v] \/ \E u \in tasks'[v] : u.saved /\ u.vote = y
        BY <3>0 DEF StoredIsKnown
      <4>1. CASE y = t.vote
        <5>1. [vote |-> t.vote, saved |-> TRUE] \in tasks'[v]
          BY <3>0
        <5>. QED  BY <4>1, <5>1
      <4>2. CASE y # t.vote
        <5>1. y \in stored[v]
          BY <3>0, <4>2
        <5>2. CASE y \in votes[v]
          BY <5>2
        <5>3. CASE \E u \in tasks[v] : u.saved /\ u.vote = y
          BY <3>0, <5>3
        <5>. QED  BY <1>3, <2>2, <5>1, <5>2, <5>3 DEF VotesAgreeAt, StoredIsKnown
      <4>. QED  BY <4>1, <4>2
    <3>8. lowest'[v] <= FirstRound(v)'
      BY <1>3, <2>2, <3>0, Typed DEF Save, VotesAgreeAt, FirstRound, RoundsAreNumbers
    <3>. QED  BY <2>2, <3>1, <3>2, <3>3, <3>4, <3>5, <3>6, <3>7, <3>8 DEF VotesAgreeAt
  <2>. QED  BY <2>1, <2>2
<1>4. ASSUME NEW v \in Honest, NEW t \in tasks[v], up[v], SaveFails(v, t)
      PROVE  VotesAgreeAt(w)'
  <2>1. CASE w # v
    BY <1>4, <2>1, OthersKeep DEF SaveFails, DagTypeOK
  <2>2. CASE w = v
    <3>0. /\ tasks'[v] = tasks[v] \ {t} /\ ~t.saved
          /\ votes'[v] = votes[v] /\ stored'[v] = stored[v] /\ lowest'[v] = lowest[v]
          /\ up'[v] = up[v] /\ deleting'[v] = deleting[v] /\ signed' = signed
      BY <1>4, Typed DEF SaveFails, DagTypeOK
    <3>1. StoredOnce(v)'
      BY <2>2, <3>0, Typed DEF VotesAgreeAt, StoredOnce
    <3>2. MemoryIsStored(v)'
      BY <2>2, <3>0, Typed DEF VotesAgreeAt, MemoryIsStored
    <3>3. DeletesOld(v)'
      BY <2>2, <3>0, Typed DEF VotesAgreeAt, DeletesOld
    <3>4. TasksApart(v)'
      BY <2>2, <3>0, Typed DEF VotesAgreeAt, TasksApart
    <3>5. SavedIsStored(v)'
      BY <2>2, <3>0, Typed DEF VotesAgreeAt, SavedIsStored
    <3>6. SignedIsStored(v)'
      BY <2>2, <3>0, Typed DEF VotesAgreeAt, SignedIsStored
    <3>7. StoredIsKnown(v)'
      BY <2>2, <3>0, Typed DEF VotesAgreeAt, StoredIsKnown
    <3>8. lowest'[v] <= FirstRound(v)'
      BY <1>4, <2>2, <3>0, Typed DEF SaveFails, VotesAgreeAt, FirstRound, RoundsAreNumbers
    <3>. QED  BY <2>2, <3>1, <3>2, <3>3, <3>4, <3>5, <3>6, <3>7, <3>8 DEF VotesAgreeAt
  <2>. QED  BY <2>1, <2>2
<1>5. ASSUME NEW v \in Honest, NEW t \in tasks[v], up[v], Insert(v, t)
      PROVE  VotesAgreeAt(w)'
  <2>1. CASE w # v
    BY <1>5, <2>1, OthersKeep DEF Insert, DagTypeOK
  <2>2. CASE w = v
    <3>0. /\ tasks'[v] = tasks[v] \ {t} /\ t.saved
          /\ stored'[v] = stored[v] /\ lowest'[v] = lowest[v] /\ deleting'[v] = deleting[v]
          /\ \/ /\ votes'[v] = {y \in votes[v] : ~SameSlot(y, t.vote)} \cup {t.vote}
                /\ signed' = signed \cup {<<v, t.vote>>}
             \/ ~up'[v] /\ votes'[v] = votes[v] /\ signed' = signed
      BY <1>5, Typed DEF Insert, DagTypeOK
    <3>1. StoredOnce(v)'
      BY <2>2, <3>0, Typed DEF VotesAgreeAt, StoredOnce
    <3>2. MemoryIsStored(v)'
      BY <1>5, <2>2, <3>0, Typed DEF SameSlot, VotesAgreeAt,
         StoredOnce, MemoryIsStored, DeletesOld, TasksApart, SavedIsStored, SignedIsStored, StoredIsKnown
    <3>3. DeletesOld(v)'
      BY <2>2, <3>0, Typed DEF VotesAgreeAt, DeletesOld
    <3>4. TasksApart(v)'
      BY <2>2, <3>0, Typed DEF VotesAgreeAt, TasksApart
    <3>5. SavedIsStored(v)'
      BY <1>5, <2>2, <3>0, Typed DEF SameSlot, VotesAgreeAt,
         StoredOnce, MemoryIsStored, DeletesOld, TasksApart, SavedIsStored, SignedIsStored, StoredIsKnown
    <3>6. SignedIsStored(v)'
      BY <1>5, <2>2, <3>0, Typed DEF SameSlot, VotesAgreeAt,
         StoredOnce, MemoryIsStored, DeletesOld, TasksApart, SavedIsStored, SignedIsStored, StoredIsKnown
    <3>7. StoredIsKnown(v)'
      BY <1>5, <2>2, <3>0, Typed DEF SameSlot, VotesAgreeAt,
         StoredOnce, MemoryIsStored, DeletesOld, TasksApart, SavedIsStored, SignedIsStored, StoredIsKnown
    <3>8. lowest'[v] <= FirstRound(v)'
      BY <1>5, <2>2, <3>0, Typed DEF Insert, VotesAgreeAt, FirstRound, RoundsAreNumbers
    <3>. QED  BY <2>2, <3>1, <3>2, <3>3, <3>4, <3>5, <3>6, <3>7, <3>8 DEF VotesAgreeAt
  <2>. QED  BY <2>1, <2>2
<1>6. ASSUME NEW v \in Honest, NEW r \in CommitRounds, Commit(v, r)
      PROVE  VotesAgreeAt(w)'
  <2>1. CASE w # v
    BY <1>6, <2>1, OthersKeep DEF Commit, DagTypeOK
  <2>2. CASE w = v
    <3>0. /\ committed'[v] = r /\ r > committed[v]
          /\ tasks'[v] = tasks[v] /\ votes'[v] = votes[v] /\ stored'[v] = stored[v]
          /\ lowest'[v] = lowest[v] /\ up'[v] = up[v] /\ deleting'[v] = deleting[v] /\ signed' = signed
      BY <1>6, Typed DEF Commit, DagTypeOK
    <3>1. StoredOnce(v)'
      BY <2>2, <3>0, Typed DEF VotesAgreeAt, StoredOnce
    <3>2. MemoryIsStored(v)'
      BY <2>2, <3>0, Typed DEF VotesAgreeAt, MemoryIsStored
    <3>3. DeletesOld(v)'
      BY <2>2, <3>0, Typed DEF VotesAgreeAt, DeletesOld
    <3>4. TasksApart(v)'
      BY <2>2, <3>0, Typed DEF VotesAgreeAt, TasksApart
    <3>5. SavedIsStored(v)'
      BY <2>2, <3>0, Typed DEF VotesAgreeAt, SavedIsStored
    <3>6. SignedIsStored(v)'
      BY <2>2, <3>0, Typed DEF VotesAgreeAt, SignedIsStored
    <3>7. StoredIsKnown(v)'
      BY <2>2, <3>0, Typed DEF VotesAgreeAt, StoredIsKnown
    <3>8. lowest'[v] <= FirstRound(v)'
      BY <1>6, <2>2, <3>0, Typed DEF Commit, VotesAgreeAt, FirstRound, RoundsAreNumbers
    <3>. QED  BY <2>2, <3>1, <3>2, <3>3, <3>4, <3>5, <3>6, <3>7, <3>8 DEF VotesAgreeAt
  <2>. QED  BY <2>1, <2>2
<1>7. ASSUME NEW v \in Honest, CommitCallback(v)
      PROVE  VotesAgreeAt(w)'
  <2>1. CASE w # v
    BY <1>7, <2>1, OthersKeep DEF CommitCallback, DagTypeOK
  <2>2. CASE w = v
    <3>0. /\ lowest'[v] = committed[v] - 3 * Window /\ lowest'[v] > lowest[v]
          /\ committed'[v] = committed[v] /\ tasks'[v] = tasks[v] /\ votes'[v] = votes[v]
          /\ stored'[v] = stored[v] /\ up'[v] = up[v] /\ deleting'[v] = deleting[v] /\ signed' = signed
      BY <1>7, Typed DEF CommitCallback, DagTypeOK
    <3>1. StoredOnce(v)'
      BY <2>2, <3>0, Typed DEF VotesAgreeAt, StoredOnce
    <3>2. MemoryIsStored(v)'
      BY <2>2, <3>0, Typed DEF VotesAgreeAt, MemoryIsStored
    <3>3. DeletesOld(v)'
      BY <2>2, <3>0, Typed DEF VotesAgreeAt, DeletesOld
    <3>4. TasksApart(v)'
      BY <2>2, <3>0, Typed DEF VotesAgreeAt, TasksApart
    <3>5. SavedIsStored(v)'
      BY <2>2, <3>0, Typed DEF VotesAgreeAt, SavedIsStored
    <3>6. SignedIsStored(v)'
      BY <2>2, <3>0, Typed DEF VotesAgreeAt, SignedIsStored
    <3>7. StoredIsKnown(v)'
      BY <2>2, <3>0, Typed DEF VotesAgreeAt, StoredIsKnown
    <3>8. lowest'[v] <= FirstRound(v)'
      BY <1>7, <2>2, <3>0, Typed DEF CommitCallback, VotesAgreeAt, FirstRound, RoundsAreNumbers
    <3>. QED  BY <2>2, <3>1, <3>2, <3>3, <3>4, <3>5, <3>6, <3>7, <3>8 DEF VotesAgreeAt
  <2>. QED  BY <2>1, <2>2
<1>8. ASSUME NEW v \in Honest, Gc(v)
      PROVE  VotesAgreeAt(w)'
  <2>1. CASE w # v
    BY <1>8, <2>1, OthersKeep DEF Gc, DagTypeOK
  <2>2. CASE w = v
    <3>0. /\ votes'[v] = {y \in votes[v] : ~(y.round < lowest[v])}
          /\ deleting'[v] = {y \in votes[v] : y.round < lowest[v]}
          /\ tasks'[v] = tasks[v] /\ stored'[v] = stored[v] /\ lowest'[v] = lowest[v]
          /\ up'[v] = up[v] /\ committed'[v] = committed[v] /\ signed' = signed
      BY <1>8, Typed DEF Gc, DagTypeOK
    <3>1. StoredOnce(v)'
      BY <2>2, <3>0, Typed DEF VotesAgreeAt, StoredOnce
    <3>2. MemoryIsStored(v)'
      BY <2>2, <3>0, Typed DEF VotesAgreeAt, MemoryIsStored
    <3>3. DeletesOld(v)'
      BY <2>2, <3>0, Typed DEF VotesAgreeAt, DeletesOld
    <3>4. TasksApart(v)'
      BY <2>2, <3>0, Typed DEF VotesAgreeAt, TasksApart
    <3>5. SavedIsStored(v)'
      BY <2>2, <3>0, Typed DEF VotesAgreeAt, SavedIsStored
    <3>6. SignedIsStored(v)'
      BY <2>2, <3>0, Typed DEF VotesAgreeAt, SignedIsStored
    <3>7. StoredIsKnown(v)'
      BY <2>2, <3>0, Typed DEF VotesAgreeAt, StoredIsKnown
    <3>8. lowest'[v] <= FirstRound(v)'
      BY <1>8, <2>2, <3>0, Typed DEF Gc, VotesAgreeAt, FirstRound, RoundsAreNumbers
    <3>. QED  BY <2>2, <3>1, <3>2, <3>3, <3>4, <3>5, <3>6, <3>7, <3>8 DEF VotesAgreeAt
  <2>. QED  BY <2>1, <2>2
<1>9. ASSUME NEW v \in Honest, DeleteVotes(v)
      PROVE  VotesAgreeAt(w)'
  <2>1. CASE w # v
    BY <1>9, <2>1, OthersKeep DEF DeleteVotes, DagTypeOK
  <2>2. CASE w = v
    <3>0. /\ \/ stored'[v] = {y \in stored[v] : \A z \in deleting[v] : ~SameSlot(y, z)}
             \/ stored'[v] = stored[v]
          /\ deleting'[v] = {}
          /\ tasks'[v] = tasks[v] /\ votes'[v] = votes[v] /\ lowest'[v] = lowest[v]
          /\ up'[v] = up[v] /\ committed'[v] = committed[v] /\ signed' = signed
      BY <1>9, Typed DEF DeleteVotes, DagTypeOK
    <3>1. StoredOnce(v)'
      BY <2>2, <3>0, Typed DEF VotesAgreeAt, StoredOnce
    <3>2. MemoryIsStored(v)'
      BY <1>9, <2>2, <3>0, Typed DEF SameSlot, VotesAgreeAt,
         StoredOnce, MemoryIsStored, DeletesOld, TasksApart, SavedIsStored, SignedIsStored, StoredIsKnown
    <3>3. DeletesOld(v)'
      BY <2>2, <3>0, Typed DEF VotesAgreeAt, DeletesOld
    <3>4. TasksApart(v)'
      BY <2>2, <3>0, Typed DEF VotesAgreeAt, TasksApart
    <3>5. SavedIsStored(v)'
      BY <1>9, <2>2, <3>0, Typed DEF SameSlot, VotesAgreeAt,
         StoredOnce, MemoryIsStored, DeletesOld, TasksApart, SavedIsStored, SignedIsStored, StoredIsKnown
    <3>6. SignedIsStored(v)'
      BY <1>9, <2>2, <3>0, Typed DEF SameSlot, VotesAgreeAt,
         StoredOnce, MemoryIsStored, DeletesOld, TasksApart, SavedIsStored, SignedIsStored, StoredIsKnown
    <3>7. StoredIsKnown(v)'
      BY <2>2, <3>0, Typed DEF VotesAgreeAt, StoredIsKnown
    <3>8. lowest'[v] <= FirstRound(v)'
      BY <1>9, <2>2, <3>0, Typed DEF DeleteVotes, VotesAgreeAt, FirstRound, RoundsAreNumbers
    <3>. QED  BY <2>2, <3>1, <3>2, <3>3, <3>4, <3>5, <3>6, <3>7, <3>8 DEF VotesAgreeAt
  <2>. QED  BY <2>1, <2>2
<1>10. ASSUME NEW v \in Honest, Bootstrap(v)
      PROVE  VotesAgreeAt(w)'
  <2>1. CASE w # v
    BY <1>10, <2>1, OthersKeep DEF Bootstrap, DagTypeOK
  <2>2. CASE w = v
    <3>0. /\ lowest'[v] = FirstRound(v)
          /\ votes'[v] = stored[v] /\ tasks'[v] = {} /\ deleting'[v] = {}
          /\ stored'[v] = stored[v] /\ committed'[v] = committed[v] /\ signed' = signed
      BY <1>10, Typed DEF Bootstrap, DagTypeOK
    <3>1. StoredOnce(v)'
      BY <2>2, <3>0, Typed DEF VotesAgreeAt, StoredOnce
    <3>2. MemoryIsStored(v)'
      BY <2>2, <3>0, Typed DEF VotesAgreeAt, MemoryIsStored
    <3>3. DeletesOld(v)'
      BY <2>2, <3>0, Typed DEF VotesAgreeAt, DeletesOld
    <3>4. TasksApart(v)'
      BY <2>2, <3>0, Typed DEF VotesAgreeAt, TasksApart
    <3>5. SavedIsStored(v)'
      BY <2>2, <3>0, Typed DEF VotesAgreeAt, SavedIsStored
    <3>6. SignedIsStored(v)'
      BY <2>2, <3>0, Typed DEF VotesAgreeAt, SignedIsStored
    <3>7. StoredIsKnown(v)'
      BY <2>2, <3>0, Typed DEF VotesAgreeAt, StoredIsKnown
    <3>8. lowest'[v] <= FirstRound(v)'
      BY <1>10, <2>2, <3>0, Typed DEF Bootstrap, VotesAgreeAt, FirstRound, RoundsAreNumbers
    <3>. QED  BY <2>2, <3>1, <3>2, <3>3, <3>4, <3>5, <3>6, <3>7, <3>8 DEF VotesAgreeAt
  <2>. QED  BY <2>1, <2>2
<1>. QED
  BY <1>0, <1>1, <1>2, <1>3, <1>4, <1>5, <1>6, <1>7, <1>8, <1>9, <1>10 DEF DagNext

\* The invariant holds whatever the validators do.
THEOREM VotesStayInAgreement == ASSUME RoundsAreNumbers PROVE DagSpec => [](DagTypeOK /\ VotesAgree)
<1>1. DagInit => DagTypeOK /\ VotesAgree
  BY TypeInit DEF DagInit, DagTypeOK, VotesAgree, VotesAgreeAt, FirstRound, RoundsAreNumbers,
         StoredOnce, MemoryIsStored, DeletesOld, TasksApart,
         SavedIsStored, SignedIsStored, StoredIsKnown
<1>2. DagTypeOK /\ VotesAgree /\ [DagNext]_dagVars => (DagTypeOK /\ VotesAgree)'
  BY TypeNext, AgreeNext
<1>. QED  BY <1>1, <1>2, PTL DEF DagSpec

\* Two quorums share an honest validator, which keeps one vote for the author in the round.
LEMMA QuorumsAgree ==
  ASSUME QuorumsIntersect, DagTypeOK, VotesAgree
  PROVE  LiveCertificatesUnique
<1>. SUFFICES ASSUME NEW x \in Votes, NEW y \in Votes,
                     SameSlot(x, y), Certified(x), Certified(y),
                     \A v \in Honest : x.round >= lowest[v]
              PROVE  x = y
  BY DEF LiveCertificatesUnique
<1>1. PICK Q \in Quorums : \A v \in Q \cap Honest : <<v, x>> \in signed
  BY DEF Certified
<1>2. PICK R \in Quorums : \A v \in R \cap Honest : <<v, y>> \in signed
  BY DEF Certified
<1>3. PICK v \in Honest : v \in Q /\ v \in R
  BY DEF QuorumsIntersect
<1>4. x \in stored[v] /\ y \in stored[v]
  BY <1>1, <1>2, <1>3 DEF VotesAgree, VotesAgreeAt, SignedIsStored, SameSlot
<1>. QED  BY <1>4 DEF VotesAgree, VotesAgreeAt, StoredOnce

\* In the rounds that every honest validator keeps, an author has at most one certified node:
\* through equivocation, concurrent tasks, crashes and the collection of old votes.
THEOREM CertificatesUnique ==
  ASSUME RoundsAreNumbers, QuorumsIntersect
  PROVE  DagSpec => []LiveCertificatesUnique
<1>1. DagTypeOK /\ VotesAgree => LiveCertificatesUnique
  BY QuorumsAgree
<1>. QED  BY <1>1, VotesStayInAgreement, PTL
=============================================================================
