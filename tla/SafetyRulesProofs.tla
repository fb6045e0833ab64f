------------------------- MODULE SafetyRulesProofs -------------------------
(***************************************************************************)
(* Proofs about SafetyRules, for every set of epochs, rounds and block ids *)
(* and every relation Accepts.                                             *)
(*                                                                         *)
(* The invariants are not inductive by themselves: what the caller has     *)
(* been given says nothing about the next request unless the durable data  *)
(* remembers it.  IInv adds, for each history, what store keeps about it.  *)
(***************************************************************************)
EXTENDS SafetyRules, TLAPS

\* What the last vote says of the rest of the safety data.
LastVoteRecorded ==
  store.last_vote # None =>
    /\ store.last_vote.epoch = store.epoch
    /\ store.last_vote.round <= store.last_voted_round
    /\ store.last_vote.qc_round <= store.one_chain_round

\* Nothing has been signed for an epoch that is not durable yet.
NoFutureEpoch ==
  /\ \A v \in votes : v.epoch <= store.epoch
  /\ \A o \in orderVotes : o.epoch <= store.epoch
  /\ \A t \in timeouts : t.epoch <= store.epoch

\* A vote of the durable epoch is the last vote or older than it.
VotesRemembered ==
  \A v \in votes : v.epoch = store.epoch =>
    /\ store.last_vote # None
    /\ v.round <= store.last_vote.round
    /\ v.round = store.last_vote.round => v = store.last_vote
    /\ v.qc_round <= store.one_chain_round

OrderVotesRemembered ==
  \A o \in orderVotes : o.epoch = store.epoch => o.round <= store.one_chain_round

TimeoutsRemembered ==
  \A t \in timeouts : t.epoch = store.epoch =>
    /\ t.round <= store.highest_timeout_round
    /\ t.round <= store.last_voted_round

\* A persisted vote that was never returned may still be: TimeoutCarriesVotedQC
\* has to hold of it already.
TimeoutCarriesLastVoteQC ==
  store.last_vote # None =>
    \A t \in timeouts :
      t.epoch = store.epoch /\ t.round >= store.last_vote.round
        => t.hqc_round >= store.last_vote.qc_round

\* The inductive invariant.
IInv ==
  /\ TypeOK
  /\ CacheCoherent
  /\ WaypointCoversEpoch
  /\ LastVoteRecorded
  /\ NoFutureEpoch
  /\ VotesRemembered
  /\ OrderVotesRemembered
  /\ TimeoutsRemembered
  /\ TimeoutCarriesLastVoteQC
  /\ OneVotePerRound
  /\ TimeoutCarriesOrderedQC
  /\ TimeoutCarriesVotedQC

-----------------------------------------------------------------------------
(* The cache is transparent: safety_data() returns the durable data. *)
LEMMA CurrentIsStore ==
  ASSUME CacheCoherent, TypeOK
  PROVE  CurrentSafetyData = store
BY DEF CacheCoherent, CurrentSafetyData

(* A write leaves either the old data or the new, and a coherent cache. *)
LEMMA WriteResult ==
  ASSUME NEW data, NEW w \in WriteOutcomes, SetSafetyData(data, w)
  PROVE  /\ store' = store \/ store' = data
         /\ w = "ok" => store' = data
         /\ cached' = store' \/ cached' = None
BY DEF SetSafetyData, WriteOutcomes

(* Fresh safety data is well typed. *)
LEMMA FreshTyped ==
  ASSUME NEW e \in Epochs
  PROVE  /\ FreshSafetyData(e) \in SafetyData
         /\ FreshSafetyData(e).epoch = e
         /\ FreshSafetyData(e).last_vote = None
BY DEF FreshSafetyData, SafetyData, Rounds0

(* The type of a QC's rounds. *)
LEMMA QCTyped ==
  ASSUME NEW qc \in QCs
  PROVE  qc.round \in Rounds0 /\ qc.parent_round \in Rounds0
BY DEF QCs

(* Rounds, with the genesis round, are naturals. *)
LEMMA Rounds0Nat == Rounds0 \subseteq Nat
BY RoundsAssumption DEF Rounds0

(* ObserveQC keeps safety data well typed and only raises two fields. *)
LEMMA ObserveTyped ==
  ASSUME NEW sd \in SafetyData, NEW qc \in QCs
  PROVE  /\ ObserveQC(sd, qc) \in SafetyData
         /\ ObserveQC(sd, qc).epoch = sd.epoch
         /\ ObserveQC(sd, qc).last_voted_round = sd.last_voted_round
         /\ ObserveQC(sd, qc).last_vote = sd.last_vote
         /\ ObserveQC(sd, qc).highest_timeout_round = sd.highest_timeout_round
         /\ ObserveQC(sd, qc).one_chain_round >= sd.one_chain_round
         /\ ObserveQC(sd, qc).one_chain_round >= qc.round
         /\ ObserveQC(sd, qc).preferred_round >= sd.preferred_round
<1>1. /\ sd.one_chain_round \in Nat /\ sd.preferred_round \in Nat
      /\ qc.round \in Nat /\ qc.parent_round \in Nat
  <2>1. sd.one_chain_round \in Rounds0 /\ sd.preferred_round \in Rounds0
    BY DEF SafetyData
  <2>2. qc.round \in Rounds0 /\ qc.parent_round \in Rounds0
    BY QCTyped
  <2>. QED
    BY <2>1, <2>2, Rounds0Nat
<1>2. /\ Higher(sd.one_chain_round, qc.round) \in Rounds0
      /\ Higher(sd.preferred_round, qc.parent_round) \in Rounds0
  BY QCTyped DEF SafetyData, Higher
<1>3. /\ Higher(sd.one_chain_round, qc.round) >= sd.one_chain_round
      /\ Higher(sd.one_chain_round, qc.round) >= qc.round
      /\ Higher(sd.preferred_round, qc.parent_round) >= sd.preferred_round
  BY <1>1 DEF Higher
<1>. QED
  BY <1>2, <1>3 DEF ObserveQC, SafetyData

(* Recording a vote keeps the other fields. *)
LEMMA RecordVoteTyped ==
  ASSUME NEW sd \in SafetyData, NEW r \in Rounds, NEW v \in Votes
  PROVE  /\ RecordVote(sd, r, v) \in SafetyData
         /\ RecordVote(sd, r, v).epoch = sd.epoch
         /\ RecordVote(sd, r, v).last_vote = v
         /\ RecordVote(sd, r, v).last_voted_round = r
         /\ RecordVote(sd, r, v).one_chain_round = sd.one_chain_round
         /\ RecordVote(sd, r, v).highest_timeout_round = sd.highest_timeout_round
BY DEF SafetyData, Rounds0, RecordVote

(* Recording a timeout raises two rounds and keeps the other fields. *)
LEMMA RecordTimeoutTyped ==
  ASSUME NEW sd \in SafetyData, NEW r \in Rounds
  PROVE  /\ RecordTimeout(sd, r) \in SafetyData
         /\ RecordTimeout(sd, r).epoch = sd.epoch
         /\ RecordTimeout(sd, r).last_vote = sd.last_vote
         /\ RecordTimeout(sd, r).one_chain_round = sd.one_chain_round
         /\ RecordTimeout(sd, r).preferred_round = sd.preferred_round
         /\ RecordTimeout(sd, r).last_voted_round >= sd.last_voted_round
         /\ RecordTimeout(sd, r).last_voted_round >= r
         /\ RecordTimeout(sd, r).highest_timeout_round >= sd.highest_timeout_round
         /\ RecordTimeout(sd, r).highest_timeout_round >= r
<1>1. /\ sd.last_voted_round \in Rounds0 /\ sd.highest_timeout_round \in Rounds0
      /\ r \in Rounds0
  BY DEF SafetyData, Rounds0
<1>2. /\ sd.last_voted_round \in Nat /\ sd.highest_timeout_round \in Nat /\ r \in Nat
  BY <1>1, Rounds0Nat
<1>3. /\ Higher(sd.last_voted_round, r) \in Rounds0
      /\ Higher(sd.highest_timeout_round, r) \in Rounds0
  BY <1>1 DEF Higher
<1>4. /\ Higher(sd.last_voted_round, r) >= sd.last_voted_round
      /\ Higher(sd.last_voted_round, r) >= r
      /\ Higher(sd.highest_timeout_round, r) >= sd.highest_timeout_round
      /\ Higher(sd.highest_timeout_round, r) >= r
  BY <1>2 DEF Higher
<1>. QED
  BY <1>3, <1>4 DEF RecordTimeout, SafetyData

(* The numeric fields of safety data are naturals. *)
LEMMA SafetyDataNat ==
  ASSUME NEW sd \in SafetyData
  PROVE  /\ sd.epoch \in Nat /\ sd.last_voted_round \in Nat
         /\ sd.preferred_round \in Nat /\ sd.one_chain_round \in Nat
         /\ sd.highest_timeout_round \in Nat
         /\ sd.last_vote # None => sd.last_vote \in Votes
<1>1. /\ sd.epoch \in Epochs /\ sd.last_voted_round \in Rounds0
      /\ sd.preferred_round \in Rounds0 /\ sd.one_chain_round \in Rounds0
      /\ sd.highest_timeout_round \in Rounds0
      /\ sd.last_vote \in Votes \cup {None}
  BY DEF SafetyData
<1>. QED
  BY <1>1, Rounds0Nat, EpochsAssumption

(* The numeric fields of the three kinds of messages are naturals. *)
LEMMA MessageNat ==
  /\ \A v \in Votes : v.epoch \in Nat /\ v.round \in Nat /\ v.qc_round \in Nat
  /\ \A o \in OrderVotes : o.epoch \in Nat /\ o.round \in Nat
  /\ \A t \in Timeouts : t.epoch \in Nat /\ t.round \in Nat /\ t.hqc_round \in Nat
<1>1. \A v \in Votes : v.epoch \in Epochs /\ v.round \in Rounds /\ v.qc_round \in Rounds0
  BY DEF Votes
<1>2. \A o \in OrderVotes : o.epoch \in Epochs /\ o.round \in Rounds
  BY DEF OrderVotes
<1>3. \A t \in Timeouts : t.epoch \in Epochs /\ t.round \in Rounds /\ t.hqc_round \in Rounds0
  BY DEF Timeouts
<1>4. Rounds \subseteq Nat /\ Epochs \subseteq Nat
  BY RoundsAssumption, EpochsAssumption
<1>. QED
  BY <1>1, <1>2, <1>3, <1>4, Rounds0Nat

(* Steps that leave the durable data and the histories alone. *)
LEMMA SameStoreStep ==
  ASSUME IInv, UNCHANGED <<store, votes, orderVotes, timeouts>>,
         cached' \in {store, None}, waypoint' \in Epochs, waypoint' >= waypoint,
         signer' \in BOOLEAN, epochState' \in Epochs \cup {None}
  PROVE  IInv'
<1>1. TypeOK'
  BY DEF IInv, TypeOK
<1>2. WaypointCoversEpoch'
  <2>1. waypoint \in Nat /\ waypoint' \in Nat /\ store.epoch \in Nat
    BY SafetyDataNat, EpochsAssumption DEF IInv, TypeOK
  <2>. QED
    BY <2>1 DEF IInv, WaypointCoversEpoch
<1>3. CacheCoherent'
  BY DEF CacheCoherent
<1>. QED
  BY <1>1, <1>2, <1>3 DEF IInv, LastVoteRecorded, NoFutureEpoch, VotesRemembered,
     OrderVotesRemembered, TimeoutsRemembered, TimeoutCarriesLastVoteQC,
     OneVotePerRound, TimeoutCarriesOrderedQC, TimeoutCarriesVotedQC

(* The same, for the signing operations, which leave more alone. *)
LEMMA QuietStep ==
  ASSUME IInv, cached' = store' \/ cached' = None,
         UNCHANGED <<store, waypoint, signer, epochState, votes, orderVotes, timeouts>>
  PROVE  IInv'
<1>1. waypoint \in Nat /\ waypoint \in Epochs
  BY EpochsAssumption DEF IInv, TypeOK
<1>2. signer' \in BOOLEAN /\ epochState' \in Epochs \cup {None}
  BY DEF IInv, TypeOK
<1>3. waypoint' \in Epochs /\ waypoint' >= waypoint
  BY <1>1
<1>4. cached' \in {store, None}
  OBVIOUS
<1>. QED
  BY <1>2, <1>3, <1>4, SameStoreStep

(* Steps that start a new epoch with fresh safety data. *)
LEMMA NewEpochStep ==
  ASSUME IInv, NEW e \in Epochs, store.epoch < e, store' = FreshSafetyData(e),
         UNCHANGED <<votes, orderVotes, timeouts>>,
         cached' \in {store', None}, waypoint' \in Epochs, waypoint' >= e,
         signer' \in BOOLEAN, epochState' \in Epochs \cup {None}
  PROVE  IInv'
<1>1. /\ store' \in SafetyData /\ store'.epoch = e /\ store'.last_vote = None
  BY FreshTyped
<1>2. TypeOK' /\ WaypointCoversEpoch' /\ CacheCoherent'
  BY <1>1, NoneAssumption DEF IInv, TypeOK, WaypointCoversEpoch, CacheCoherent
<1>3. e \in Nat /\ store.epoch \in Nat
  BY SafetyDataNat, EpochsAssumption DEF IInv, TypeOK
<1>4. /\ \A v \in votes : v.epoch \in Nat /\ v.epoch <= store.epoch
      /\ \A o \in orderVotes : o.epoch \in Nat /\ o.epoch <= store.epoch
      /\ \A t \in timeouts : t.epoch \in Nat /\ t.epoch <= store.epoch
  BY MessageNat DEF IInv, TypeOK, NoFutureEpoch
<1>5. /\ \A v \in votes : v.epoch < e
      /\ \A o \in orderVotes : o.epoch < e
      /\ \A t \in timeouts : t.epoch < e
  BY <1>3, <1>4
<1>6. NoFutureEpoch'
  BY <1>1, <1>3, <1>4, <1>5 DEF NoFutureEpoch
<1>7. VotesRemembered' /\ OrderVotesRemembered' /\ TimeoutsRemembered'
  BY <1>1, <1>3, <1>4, <1>5 DEF VotesRemembered, OrderVotesRemembered, TimeoutsRemembered
<1>8. LastVoteRecorded' /\ TimeoutCarriesLastVoteQC'
  BY <1>1 DEF LastVoteRecorded, TimeoutCarriesLastVoteQC
<1>. QED
  BY <1>2, <1>6, <1>7, <1>8 DEF IInv, OneVotePerRound, TimeoutCarriesOrderedQC,
     TimeoutCarriesVotedQC

(* A vote made durable, returned or not. *)
LEMMA VoteStep ==
  ASSUME IInv, NEW vote \in Votes,
         store' \in SafetyData, store'.epoch = store.epoch, vote.epoch = store.epoch,
         store'.last_vote = vote, store'.last_voted_round = vote.round,
         vote.round > store.last_voted_round,
         store'.one_chain_round >= store.one_chain_round,
         store'.one_chain_round >= vote.qc_round,
         store'.highest_timeout_round = store.highest_timeout_round,
         votes' = votes \/ votes' = votes \cup {vote},
         UNCHANGED <<waypoint, signer, epochState, orderVotes, timeouts>>,
         cached' = store' \/ cached' = None
  PROVE  IInv'
<1>1. /\ TypeOK /\ store \in SafetyData
      /\ vote.epoch \in Nat /\ vote.round \in Nat /\ vote.qc_round \in Nat
  BY MessageNat DEF IInv, TypeOK
<1>2. TypeOK' /\ CacheCoherent' /\ WaypointCoversEpoch'
  BY <1>1 DEF TypeOK, CacheCoherent, IInv, WaypointCoversEpoch
<1>3. vote # None
  BY NoneAssumption
<1>4. LastVoteRecorded'
  BY <1>1 DEF LastVoteRecorded
<1>5. NoFutureEpoch'
  BY <1>1, SafetyDataNat DEF IInv, NoFutureEpoch
<1>6. /\ store.last_voted_round \in Nat /\ store.one_chain_round \in Nat
      /\ store'.one_chain_round \in Nat
      /\ store.last_vote # None => store.last_vote.round \in Nat
  BY <1>1, SafetyDataNat, MessageNat
<1>7. \A v \in votes : v.epoch = store.epoch =>
        /\ v.round \in Nat /\ v.qc_round \in Nat
        /\ v.round < vote.round /\ v.qc_round <= store'.one_chain_round
  <2>. SUFFICES ASSUME NEW v \in votes, v.epoch = store.epoch
                PROVE  /\ v.round \in Nat /\ v.qc_round \in Nat
                       /\ v.round < vote.round
                       /\ v.qc_round <= store'.one_chain_round
    OBVIOUS
  <2>1. v.round \in Nat /\ v.qc_round \in Nat
    BY <1>1, MessageNat DEF TypeOK
  <2>2. /\ store.last_vote # None /\ v.round <= store.last_vote.round
        /\ v.qc_round <= store.one_chain_round
    BY DEF IInv, VotesRemembered
  <2>3. store.last_vote.round <= store.last_voted_round
    BY <2>2 DEF IInv, LastVoteRecorded
  <2>. QED
    BY <2>1, <2>2, <2>3, <1>6, <1>1
<1>8. VotesRemembered'
  <2>. SUFFICES ASSUME NEW v \in votes', v.epoch = store.epoch
                PROVE  /\ v.round <= vote.round
                       /\ v.round = vote.round => v = vote
                       /\ v.qc_round <= store'.one_chain_round
    BY <1>3 DEF VotesRemembered
  <2>1. CASE v \in votes
    BY <2>1, <1>7, <1>1
  <2>2. CASE v = vote
    BY <2>2, <1>1
  <2>. QED
    BY <2>1, <2>2
<1>9. OrderVotesRemembered' /\ TimeoutsRemembered'
  <2>1. \A o \in orderVotes : o.round \in Nat
    BY <1>1, MessageNat DEF TypeOK
  <2>2. \A t \in timeouts : t.round \in Nat
    BY <1>1, MessageNat DEF TypeOK
  <2>3. OrderVotesRemembered'
    BY <2>1, <1>6 DEF IInv, OrderVotesRemembered
  <2>4. TimeoutsRemembered'
    BY <2>2, <1>6, <1>1 DEF IInv, TimeoutsRemembered
  <2>. QED
    BY <2>3, <2>4
<1>10. \A t \in timeouts : t.epoch = store.epoch => ~(t.round >= vote.round)
  <2>1. \A t \in timeouts : t.round \in Nat
    BY <1>1, MessageNat DEF TypeOK
  <2>. QED
    BY <2>1, <1>6, <1>1 DEF IInv, TimeoutsRemembered
<1>11. TimeoutCarriesLastVoteQC'
  BY <1>10 DEF TimeoutCarriesLastVoteQC
<1>12. OneVotePerRound'
  <2>. SUFFICES ASSUME NEW v \in votes', NEW u \in votes',
                       v.epoch = u.epoch, v.round = u.round
                PROVE  v = u
    BY DEF OneVotePerRound
  <2>1. CASE v \in votes /\ u \in votes
    BY <2>1 DEF IInv, OneVotePerRound
  <2>2. CASE v = vote /\ u \in votes
    BY <2>2, <1>7, <1>1
  <2>3. CASE v \in votes /\ u = vote
    BY <2>3, <1>7, <1>1
  <2>. QED
    BY <2>1, <2>2, <2>3
<1>13. TimeoutCarriesVotedQC'
  BY <1>10 DEF IInv, TimeoutCarriesVotedQC
<1>14. TimeoutCarriesOrderedQC'
  BY DEF IInv, TimeoutCarriesOrderedQC
<1>. QED
  BY <1>2, <1>4, <1>5, <1>8, <1>9, <1>11, <1>12, <1>13, <1>14 DEF IInv

(* The durable last vote is returned, perhaps for the first time. *)
LEMMA SendBackStep ==
  ASSUME IInv, NEW block \in Blocks, SendBackLastVote(block)
  PROVE  IInv'
<1>1. CurrentSafetyData = store
  BY CurrentIsStore DEF IInv
<1>2. /\ store.last_vote # None /\ votes' = votes \cup {store.last_vote}
      /\ cached' = store
      /\ UNCHANGED <<store, waypoint, signer, epochState, orderVotes, timeouts>>
  BY <1>1 DEF SendBackLastVote, VotedIn
<1>3. store.last_vote \in Votes
  BY <1>2, SafetyDataNat DEF IInv, TypeOK
<1>4. /\ store.last_vote.epoch = store.epoch
      /\ store.last_vote.qc_round <= store.one_chain_round
      /\ store.last_vote.round \in Nat /\ store.epoch \in Nat
  BY <1>2, <1>3, MessageNat, SafetyDataNat DEF IInv, LastVoteRecorded, TypeOK
<1>5. TypeOK' /\ CacheCoherent' /\ WaypointCoversEpoch' /\ LastVoteRecorded'
  BY <1>2, <1>3 DEF IInv, TypeOK, CacheCoherent, WaypointCoversEpoch, LastVoteRecorded
<1>6. NoFutureEpoch' /\ VotesRemembered'
  BY <1>2, <1>4 DEF IInv, NoFutureEpoch, VotesRemembered
<1>7. OneVotePerRound'
  BY <1>2, <1>4 DEF IInv, VotesRemembered, OneVotePerRound
<1>8. TimeoutCarriesVotedQC'
  BY <1>2, <1>4 DEF IInv, TimeoutCarriesLastVoteQC, TimeoutCarriesVotedQC
<1>. QED
  BY <1>2, <1>5, <1>6, <1>7, <1>8 DEF IInv, OrderVotesRemembered, TimeoutsRemembered,
     TimeoutCarriesLastVoteQC, TimeoutCarriesOrderedQC

(* A vote: ConstructAndSignVote writes and returns as VoteStep assumes. *)
LEMMA ConstructVoteStep ==
  ASSUME IInv, NEW block \in Blocks, NEW tc \in TCs, NEW w \in WriteOutcomes,
         ConstructAndSignVote(block, tc, w)
  PROVE  IInv'
<1>. DEFINE vote == [epoch |-> block.epoch, round |-> block.round, id |-> block.id,
                     qc_round |-> block.qc.round, commit |-> CommitsParent(block)]
            obs  == ObserveQC(store, block.qc)
            new  == RecordVote(obs, block.round, vote)
<1>1. CurrentSafetyData = store
  BY CurrentIsStore DEF IInv
<1>2. /\ MaySign(block.epoch) /\ AboveLastVotedRound(store, block.round)
      /\ SetSafetyData(new, w)
      /\ votes' = IF w = "ok" THEN votes \cup {vote} ELSE votes
      /\ UNCHANGED <<waypoint, signer, epochState, orderVotes, timeouts>>
  BY <1>1 DEF ConstructAndSignVote
<1>3. /\ block.epoch \in Epochs /\ block.round \in Rounds /\ block.id \in Ids
      /\ block.qc \in QCs
  BY DEF Blocks
<1>4. vote \in Votes
  BY <1>3, QCTyped DEF Votes, CommitsParent
<1>5. /\ vote.epoch = block.epoch /\ vote.round = block.round
      /\ vote.qc_round = block.qc.round
  OBVIOUS
<1>6. store \in SafetyData
  BY DEF IInv, TypeOK
<1>8. /\ obs \in SafetyData /\ obs.epoch = store.epoch
      /\ obs.one_chain_round >= store.one_chain_round
      /\ obs.one_chain_round >= block.qc.round
      /\ obs.highest_timeout_round = store.highest_timeout_round
  BY <1>3, <1>6, ObserveTyped
<1>9. /\ new \in SafetyData /\ new.epoch = store.epoch /\ new.last_vote = vote
      /\ new.last_voted_round = block.round
      /\ new.one_chain_round >= store.one_chain_round
      /\ new.one_chain_round >= block.qc.round
      /\ new.highest_timeout_round = store.highest_timeout_round
  <2>. HIDE DEF vote, obs
  <2>1. /\ new \in SafetyData /\ new.epoch = obs.epoch /\ new.last_vote = vote
        /\ new.last_voted_round = block.round
        /\ new.one_chain_round = obs.one_chain_round
        /\ new.highest_timeout_round = obs.highest_timeout_round
    <3>1. obs \in SafetyData /\ block.round \in Rounds /\ vote \in Votes
      BY <1>3, <1>4, <1>8
    <3>. QED
      BY <3>1, RecordVoteTyped
  <2>. HIDE DEF new
  <2>. QED
    BY <2>1, <1>8
<1>10. block.epoch = store.epoch /\ block.round > store.last_voted_round
  BY <1>1, <1>2 DEF MaySign, AboveLastVotedRound
<1>11. /\ store' = store \/ store' = new
       /\ w = "ok" => store' = new
       /\ cached' = store' \/ cached' = None
  BY <1>2, WriteResult
<1>. HIDE DEF vote, new
<1>12. CASE store' = new
  <2>1. /\ vote.epoch = store.epoch /\ vote.round > store.last_voted_round
        /\ votes' = votes \/ votes' = votes \cup {vote}
    BY <1>2, <1>5, <1>10
  <2>. QED
    BY <1>2, <1>4, <1>5, <1>9, <1>11, <1>12, <2>1, VoteStep
<1>13. CASE store' = store /\ w # "ok"
  BY <1>2, <1>11, <1>13, QuietStep
<1>. QED
  BY <1>11, <1>12, <1>13

(* Raising rounds without a new vote keeps what the histories need. *)
LEMMA RaisedRounds ==
  ASSUME IInv, store' \in SafetyData, store'.epoch = store.epoch,
         store'.last_vote = store.last_vote,
         store'.last_voted_round >= store.last_voted_round,
         store'.one_chain_round >= store.one_chain_round,
         store'.highest_timeout_round >= store.highest_timeout_round,
         cached' = store' \/ cached' = None,
         UNCHANGED <<waypoint, signer, epochState, votes>>
  PROVE  /\ store' \in SafetyData /\ waypoint' \in Epochs
         /\ cached' \in SafetyData \cup {None}
         /\ signer' \in BOOLEAN /\ epochState' \in Epochs \cup {None}
         /\ votes' \subseteq Votes
         /\ CacheCoherent' /\ WaypointCoversEpoch' /\ LastVoteRecorded'
         /\ VotesRemembered' /\ OneVotePerRound'
         /\ \A o \in orderVotes : o.epoch = store.epoch =>
              o.round <= store'.one_chain_round
         /\ \A t \in timeouts : t.epoch = store.epoch =>
              /\ t.round <= store'.highest_timeout_round
              /\ t.round <= store'.last_voted_round
<1>1. /\ store \in SafetyData /\ votes \subseteq Votes
      /\ orderVotes \subseteq OrderVotes /\ timeouts \subseteq Timeouts
  BY DEF IInv, TypeOK
<1>2. /\ store' \in SafetyData /\ waypoint' \in Epochs
      /\ cached' \in SafetyData \cup {None}
      /\ signer' \in BOOLEAN /\ epochState' \in Epochs \cup {None}
      /\ votes' \subseteq Votes
      /\ CacheCoherent' /\ WaypointCoversEpoch' /\ OneVotePerRound'
  BY DEF IInv, TypeOK, CacheCoherent, WaypointCoversEpoch, OneVotePerRound
<1>3. /\ store.last_voted_round \in Nat /\ store'.last_voted_round \in Nat
      /\ store.one_chain_round \in Nat /\ store'.one_chain_round \in Nat
      /\ store.highest_timeout_round \in Nat /\ store'.highest_timeout_round \in Nat
      /\ store.last_vote # None => store.last_vote \in Votes
  BY <1>1, SafetyDataNat
<1>4. LastVoteRecorded'
  <2>1. store.last_vote # None => /\ store.last_vote.round \in Nat
                                  /\ store.last_vote.qc_round \in Nat
    BY <1>3, MessageNat
  <2>. QED
    BY <2>1, <1>3 DEF IInv, LastVoteRecorded
<1>5. VotesRemembered'
  <2>1. \A v \in votes : v.qc_round \in Nat
    BY <1>1, MessageNat
  <2>. QED
    BY <2>1, <1>3 DEF IInv, VotesRemembered
<1>6. \A o \in orderVotes : o.epoch = store.epoch =>
        o.round <= store'.one_chain_round
  <2>1. \A o \in orderVotes : o.round \in Nat
    BY <1>1, MessageNat
  <2>. QED
    BY <2>1, <1>3 DEF IInv, OrderVotesRemembered
<1>7. \A t \in timeouts : t.epoch = store.epoch =>
        /\ t.round <= store'.highest_timeout_round
        /\ t.round <= store'.last_voted_round
  <2>1. \A t \in timeouts : t.round \in Nat
    BY <1>1, MessageNat
  <2>. QED
    BY <2>1, <1>3 DEF IInv, TimeoutsRemembered
<1>. QED
  BY <1>2, <1>4, <1>5, <1>6, <1>7

(* An order vote. *)
LEMMA OrderVoteStep ==
  ASSUME IInv, NEW epoch \in Epochs, NEW qc \in QCs, NEW w \in WriteOutcomes,
         qc.round \in Rounds, ConstructAndSignOrderVote(epoch, qc, w)
  PROVE  IInv'
<1>. DEFINE new == ObserveQC(store, qc)
            ov  == [epoch |-> epoch, round |-> qc.round]
<1>1. CurrentSafetyData = store
  BY CurrentIsStore DEF IInv
<1>2. /\ MaySign(epoch) /\ SafeForOrderVote(qc.round, new)
      /\ SetSafetyData(new, w)
      /\ orderVotes' = IF w = "ok" THEN orderVotes \cup {ov} ELSE orderVotes
      /\ UNCHANGED <<waypoint, signer, epochState, votes, timeouts>>
  BY <1>1 DEF ConstructAndSignOrderVote
<1>3. store \in SafetyData
  BY DEF IInv, TypeOK
<1>4. /\ new \in SafetyData /\ new.epoch = store.epoch
      /\ new.last_vote = store.last_vote
      /\ new.last_voted_round = store.last_voted_round
      /\ new.highest_timeout_round = store.highest_timeout_round
      /\ new.one_chain_round >= store.one_chain_round
      /\ new.one_chain_round >= qc.round
  BY <1>3, ObserveTyped
<1>5. epoch = store.epoch /\ qc.round > store.highest_timeout_round
  BY <1>1, <1>2, <1>4 DEF MaySign, SafeForOrderVote
<1>6. ov \in OrderVotes /\ ov.epoch = epoch /\ ov.round = qc.round
  BY DEF OrderVotes
<1>7. /\ store' = store \/ store' = new
      /\ w = "ok" => store' = new
      /\ cached' = store' \/ cached' = None
  BY <1>2, WriteResult
<1>. HIDE DEF new, ov
<1>8. CASE store' = store /\ w # "ok"
  BY <1>2, <1>7, <1>8, QuietStep
<1>9. CASE store' = new
  <2>1. /\ store.last_voted_round \in Nat /\ store.highest_timeout_round \in Nat
        /\ qc.round \in Nat /\ epoch \in Nat /\ store.one_chain_round \in Nat
    BY <1>3, SafetyDataNat, EpochsAssumption, QCTyped, Rounds0Nat
  <2>2. /\ store' \in SafetyData /\ store'.epoch = store.epoch
        /\ store'.last_vote = store.last_vote
        /\ store'.last_voted_round >= store.last_voted_round
        /\ store'.one_chain_round >= store.one_chain_round
        /\ store'.highest_timeout_round >= store.highest_timeout_round
    BY <1>4, <1>9, <2>1
  <2>3. /\ store' \in SafetyData /\ waypoint' \in Epochs
        /\ cached' \in SafetyData \cup {None}
        /\ signer' \in BOOLEAN /\ epochState' \in Epochs \cup {None}
        /\ votes' \subseteq Votes
        /\ CacheCoherent' /\ WaypointCoversEpoch' /\ LastVoteRecorded'
        /\ VotesRemembered' /\ OneVotePerRound'
        /\ \A o \in orderVotes : o.epoch = store.epoch =>
             o.round <= store'.one_chain_round
        /\ \A t \in timeouts : t.epoch = store.epoch =>
             /\ t.round <= store'.highest_timeout_round
             /\ t.round <= store'.last_voted_round
    BY <1>2, <1>7, <2>2, RaisedRounds
  <2>4. TypeOK'
    BY <1>2, <1>6, <2>3 DEF IInv, TypeOK
  <2>5. \A o \in orderVotes' : o \in orderVotes \/ o = ov
    BY <1>2
  <2>6. NoFutureEpoch'
    BY <1>2, <1>5, <1>6, <2>1, <2>2, <2>5 DEF IInv, NoFutureEpoch
  <2>7. OrderVotesRemembered'
    BY <1>4, <1>6, <1>9, <2>2, <2>3, <2>5 DEF OrderVotesRemembered
  <2>8. TimeoutsRemembered'
    BY <1>2, <2>2, <2>3 DEF TimeoutsRemembered
  <2>9. \A t \in timeouts : t.epoch = store.epoch => ~(t.round >= ov.round)
    <3>1. \A t \in timeouts : t.round \in Nat
      BY MessageNat DEF IInv, TypeOK
    <3>. QED
      BY <3>1, <1>5, <1>6, <2>1 DEF IInv, TimeoutsRemembered
  <2>10. TimeoutCarriesOrderedQC'
    BY <1>2, <1>5, <1>6, <2>5, <2>9 DEF IInv, TimeoutCarriesOrderedQC
  <2>11. TimeoutCarriesLastVoteQC' /\ TimeoutCarriesVotedQC'
    BY <1>2, <2>2 DEF IInv, TimeoutCarriesLastVoteQC, TimeoutCarriesVotedQC
  <2>. QED
    BY <2>3, <2>4, <2>6, <2>7, <2>8, <2>10, <2>11 DEF IInv
<1>. QED
  BY <1>7, <1>8, <1>9

(* A timeout. *)
LEMMA TimeoutStep ==
  ASSUME IInv, NEW timeout \in Timeouts, NEW tc \in TCs, NEW w \in WriteOutcomes,
         SignTimeoutWithQC(timeout, tc, w)
  PROVE  IInv'
<1>. DEFINE new == RecordTimeout(store, timeout.round)
<1>1. CurrentSafetyData = store
  BY CurrentIsStore DEF IInv
<1>2. /\ MaySign(timeout.epoch) /\ SafeToTimeout(timeout, tc, store)
      /\ SetSafetyData(new, w)
      /\ timeouts' = IF w = "ok" THEN timeouts \cup {timeout} ELSE timeouts
      /\ UNCHANGED <<waypoint, signer, epochState, votes, orderVotes>>
  BY <1>1 DEF SignTimeoutWithQC
<1>3. store \in SafetyData /\ timeout.round \in Rounds
  BY DEF IInv, TypeOK, Timeouts
<1>4. /\ new \in SafetyData /\ new.epoch = store.epoch
      /\ new.last_vote = store.last_vote
      /\ new.one_chain_round = store.one_chain_round
      /\ new.last_voted_round >= store.last_voted_round
      /\ new.last_voted_round >= timeout.round
      /\ new.highest_timeout_round >= store.highest_timeout_round
      /\ new.highest_timeout_round >= timeout.round
  BY <1>3, RecordTimeoutTyped
<1>5. timeout.epoch = store.epoch /\ timeout.hqc_round >= store.one_chain_round
  BY <1>1, <1>2 DEF MaySign, SafeToTimeout
<1>6. /\ store' = store \/ store' = new
      /\ w = "ok" => store' = new
      /\ cached' = store' \/ cached' = None
  BY <1>2, WriteResult
<1>. HIDE DEF new
<1>7. CASE store' = store /\ w # "ok"
  BY <1>2, <1>6, <1>7, QuietStep
<1>8. CASE store' = new
  <2>1. /\ store.one_chain_round \in Nat /\ store.epoch \in Nat
        /\ timeout.round \in Nat /\ timeout.hqc_round \in Nat
        /\ new.highest_timeout_round \in Nat /\ new.last_voted_round \in Nat
    BY <1>3, <1>4, SafetyDataNat, MessageNat
  <2>2. /\ store' \in SafetyData /\ store'.epoch = store.epoch
        /\ store'.last_vote = store.last_vote
        /\ store'.last_voted_round >= store.last_voted_round
        /\ store'.one_chain_round >= store.one_chain_round
        /\ store'.highest_timeout_round >= store.highest_timeout_round
    BY <1>4, <1>8, <2>1
  <2>3. /\ store' \in SafetyData /\ waypoint' \in Epochs
        /\ cached' \in SafetyData \cup {None}
        /\ signer' \in BOOLEAN /\ epochState' \in Epochs \cup {None}
        /\ votes' \subseteq Votes
        /\ CacheCoherent' /\ WaypointCoversEpoch' /\ LastVoteRecorded'
        /\ VotesRemembered' /\ OneVotePerRound'
        /\ \A o \in orderVotes : o.epoch = store.epoch =>
             o.round <= store'.one_chain_round
        /\ \A t \in timeouts : t.epoch = store.epoch =>
             /\ t.round <= store'.highest_timeout_round
             /\ t.round <= store'.last_voted_round
    BY <1>2, <1>6, <2>2, RaisedRounds
  <2>4. TypeOK'
    BY <1>2, <2>3 DEF IInv, TypeOK
  <2>5. \A t \in timeouts' : t \in timeouts \/ t = timeout
    BY <1>2
  <2>6. NoFutureEpoch'
    BY <1>2, <1>5, <2>1, <2>2, <2>5 DEF IInv, NoFutureEpoch
  <2>7. OrderVotesRemembered'
    BY <1>2, <2>2, <2>3 DEF OrderVotesRemembered
  <2>8. TimeoutsRemembered'
    BY <1>4, <1>8, <2>1, <2>2, <2>3, <2>5 DEF TimeoutsRemembered
  <2>9. TimeoutCarriesOrderedQC'
    <3>1. \A o \in orderVotes : o.epoch = timeout.epoch => timeout.hqc_round >= o.round
      <4>1. \A o \in orderVotes : o.round \in Nat
        BY MessageNat DEF IInv, TypeOK
      <4>. QED
        BY <4>1, <1>5, <2>1 DEF IInv, OrderVotesRemembered
    <3>. QED
      BY <3>1, <1>2, <2>5 DEF IInv, TimeoutCarriesOrderedQC
  <2>10. TimeoutCarriesVotedQC'
    <3>1. \A v \in votes : v.epoch = timeout.epoch => timeout.hqc_round >= v.qc_round
      <4>1. \A v \in votes : v.qc_round \in Nat
        BY MessageNat DEF IInv, TypeOK
      <4>. QED
        BY <4>1, <1>5, <2>1 DEF IInv, VotesRemembered
    <3>. QED
      BY <3>1, <1>2, <2>5 DEF IInv, TimeoutCarriesVotedQC
  <2>11. TimeoutCarriesLastVoteQC'
    <3>1. store.last_vote # None => timeout.hqc_round >= store.last_vote.qc_round
      <4>1. store.last_vote # None => store.last_vote.qc_round \in Nat
        BY <1>3, SafetyDataNat, MessageNat
      <4>. QED
        BY <4>1, <1>5, <2>1 DEF IInv, LastVoteRecorded
    <3>. QED
      BY <3>1, <2>2, <2>5 DEF IInv, TimeoutCarriesLastVoteQC
  <2>. QED
    BY <2>3, <2>4, <2>6, <2>7, <2>8, <2>9, <2>10, <2>11 DEF IInv
<1>. QED
  BY <1>6, <1>7, <1>8

(* guarded_initialize, on each of its four paths. *)
LEMMA InitializeStep ==
  ASSUME IInv, NEW e \in Epochs, NEW w \in WriteOutcomes, Initialize(e, w)
  PROVE  IInv'
<1>1. CurrentSafetyData = store /\ store \in SafetyData
  BY CurrentIsStore DEF IInv, TypeOK
<1>2. /\ waypoint \in Epochs /\ signer \in BOOLEAN /\ epochState \in Epochs \cup {None}
      /\ waypoint \in Nat /\ e \in Nat /\ store.epoch \in Nat
  BY <1>1, SafetyDataNat, EpochsAssumption DEF IInv, TypeOK
<1>3. /\ Higher(waypoint, e) \in Epochs
      /\ Higher(waypoint, e) >= waypoint /\ Higher(waypoint, e) >= e
  BY <1>2 DEF Higher
<1>4. CASE InitializeFailsAtWaypoint(e, w)
  <2>1. /\ waypoint' \in Epochs /\ waypoint' >= waypoint
        /\ UNCHANGED <<store, cached, signer, epochState, votes, orderVotes, timeouts>>
    BY <1>2, <1>4 DEF InitializeFailsAtWaypoint, memory, history
  <2>2. cached' \in {store, None}
    BY <2>1 DEF IInv, CacheCoherent
  <2>. QED
    BY <1>2, <2>1, <2>2, SameStoreStep
<1>5. CASE InitializeOutOfDate(e)
  <2>1. /\ waypoint' = Higher(waypoint, e) /\ cached' = store
        /\ UNCHANGED <<store, signer, epochState, votes, orderVotes, timeouts>>
    BY <1>1, <1>5 DEF InitializeOutOfDate, history
  <2>. QED
    BY <1>2, <1>3, <2>1, SameStoreStep
<1>6. CASE InitializeFailsAtSafetyData(e, w)
  <2>1. /\ store.epoch < e /\ waypoint' = Higher(waypoint, e)
        /\ SetSafetyData(FreshSafetyData(e), w)
        /\ UNCHANGED <<signer, epochState, votes, orderVotes, timeouts>>
    BY <1>1, <1>6 DEF InitializeFailsAtSafetyData, history
  <2>2. /\ store' = store \/ store' = FreshSafetyData(e)
        /\ cached' = store' \/ cached' = None
    BY <2>1, WriteResult
  <2>3. CASE store' = store
    BY <1>2, <1>3, <2>1, <2>2, <2>3, SameStoreStep
  <2>4. CASE store' = FreshSafetyData(e)
    BY <1>2, <1>3, <2>1, <2>2, <2>4, NewEpochStep
  <2>. QED
    BY <2>2, <2>3, <2>4
<1>7. CASE InitializeSucceeds(e)
  <2>1. /\ waypoint' = Higher(waypoint, e)
        /\ signer' \in BOOLEAN /\ epochState' \in Epochs \cup {None}
        /\ UNCHANGED <<votes, orderVotes, timeouts>>
    BY <1>7 DEF InitializeSucceeds, history
  <2>2. CASE store.epoch < e
    <3>1. SetSafetyData(FreshSafetyData(e), "ok")
      BY <1>1, <1>7, <2>2 DEF InitializeSucceeds
    <3>2. store' = FreshSafetyData(e) /\ cached' = store'
      BY <3>1 DEF SetSafetyData
    <3>. QED
      BY <1>2, <1>3, <2>1, <2>2, <3>2, NewEpochStep
  <2>3. CASE ~(store.epoch < e)
    <3>1. store' = store /\ cached' = store
      BY <1>1, <1>7, <2>3 DEF InitializeSucceeds
    <3>. QED
      BY <1>2, <1>3, <2>1, <3>1, SameStoreStep
  <2>. QED
    BY <2>2, <2>3
<1>. QED
  BY <1>4, <1>5, <1>6, <1>7 DEF Initialize

(* The initial state satisfies the inductive invariant. *)
LEMMA InitIInv == Init => IInv
<1>. SUFFICES ASSUME Init PROVE IInv
  OBVIOUS
<1>1. 1 \in Epochs
  BY EpochsAssumption
<1>2. store \in SafetyData /\ store.epoch = 1 /\ store.last_vote = None
  BY <1>1, FreshTyped DEF Init
<1>3. TypeOK /\ CacheCoherent
  BY <1>1, <1>2 DEF Init, TypeOK, CacheCoherent
<1>4. WaypointCoversEpoch
  BY <1>2 DEF Init, WaypointCoversEpoch
<1>5. votes = {} /\ orderVotes = {} /\ timeouts = {}
  BY DEF Init
<1>. QED
  BY <1>2, <1>3, <1>4, <1>5 DEF IInv, LastVoteRecorded, NoFutureEpoch, VotesRemembered, OrderVotesRemembered,
     TimeoutsRemembered, TimeoutCarriesLastVoteQC, OneVotePerRound,
     TimeoutCarriesOrderedQC, TimeoutCarriesVotedQC

(* Every step preserves the inductive invariant. *)
LEMMA NextIInv == IInv /\ [Next]_vars => IInv'
<1>. SUFFICES ASSUME IInv, [Next]_vars PROVE IInv'
  OBVIOUS
<1>1. ASSUME NEW e \in Epochs, NEW w \in WriteOutcomes, Initialize(e, w)
      PROVE  IInv'
  BY <1>1, InitializeStep
<1>2. CASE ReadSafetyData
  BY <1>2, QuietStep DEF ReadSafetyData, history
<1>3. ASSUME NEW block \in Blocks, SendBackLastVote(block)
      PROVE  IInv'
  BY <1>3, SendBackStep
<1>4. ASSUME NEW block \in Blocks, NEW tc \in TCs, NEW w \in WriteOutcomes,
             ConstructAndSignVote(block, tc, w)
      PROVE  IInv'
  BY <1>4, ConstructVoteStep
<1>5. ASSUME NEW epoch \in Epochs, NEW qc \in QCs, NEW w \in WriteOutcomes,
             qc.round \in Rounds, ConstructAndSignOrderVote(epoch, qc, w)
      PROVE  IInv'
  BY <1>5, OrderVoteStep
<1>6. ASSUME NEW timeout \in Timeouts, NEW tc \in TCs, NEW w \in WriteOutcomes,
             SignTimeoutWithQC(timeout, tc, w)
      PROVE  IInv'
  BY <1>6, TimeoutStep
<1>7. CASE CrashAndRestart
  <2>1. waypoint \in Epochs /\ waypoint >= waypoint
    BY EpochsAssumption DEF IInv, TypeOK
  <2>. QED
    BY <1>7, <2>1, SameStoreStep DEF CrashAndRestart, history
<1>8. CASE UNCHANGED vars
  <2>1. cached' = store' \/ cached' = None
    BY <1>8 DEF vars, IInv, CacheCoherent
  <2>. QED
    BY <1>8, <2>1, QuietStep DEF vars
<1>. QED
  BY <1>1, <1>2, <1>3, <1>4, <1>5, <1>6, <1>7, <1>8 DEF Next

-----------------------------------------------------------------------------
(* Theorems *)

(* The inductive invariant holds in every reachable state. *)
THEOREM Invariance == Spec => []IInv
BY InitIInv, NextIInv, PTL DEF Spec

(* Every variable of the service keeps its type. *)
THEOREM TypeCorrect == Spec => []TypeOK
<1>1. IInv => TypeOK
  BY DEF IInv
<1>. QED
  BY <1>1, Invariance, PTL

(* The service returns at most one vote per epoch and round: whatever        *)
(* construct_and_sign_vote_two_chain is asked, whichever writes fail and     *)
(* however often the process restarts.                                       *)
THEOREM VoteUniqueness == Spec => []OneVotePerRound
<1>1. IInv => OneVotePerRound
  BY DEF IInv
<1>. QED
  BY <1>1, Invariance, PTL

(* A timeout at or above an order-voted (voted) round reports a QC at least  *)
(* as high as the ordered block (the QC the vote extended): the facts about  *)
(* safe_for_order_vote and safe_to_timeout that agreement rests on.          *)
THEOREM TimeoutsProtectVotes == Spec => []TimeoutCarriesQC
<1>1. IInv => TimeoutCarriesQC
  BY DEF IInv, TimeoutCarriesQC
<1>. QED
  BY <1>1, Invariance, PTL

(* The cache never differs from the durable data, and the waypoint is never  *)
(* behind the durable epoch.                                                 *)
THEOREM RestartsFromDecided == Spec => []StorageCoherent
<1>1. IInv => StorageCoherent
  BY DEF IInv, StorageCoherent
<1>. QED
  BY <1>1, Invariance, PTL

(* Keeping the safety data, or starting a later epoch, moves forward. *)
LEMMA ForwardReflexive ==
  ASSUME NEW sd \in SafetyData
  PROVE  MovesForward(sd, sd)
BY SafetyDataNat DEF MovesForward

(* Every step moves the durable safety data forward. *)
LEMMA NextMovesForward == IInv /\ [Next]_vars => MovesForward(store, store')
<1>. SUFFICES ASSUME IInv, [Next]_vars PROVE MovesForward(store, store')
  OBVIOUS
<1>1. store \in SafetyData /\ CurrentSafetyData = store
  BY CurrentIsStore DEF IInv, TypeOK
<1>2. MovesForward(store, store)
  BY <1>1, ForwardReflexive
<1>3. ASSUME NEW e \in Epochs, NEW w \in WriteOutcomes, Initialize(e, w)
      PROVE  MovesForward(store, store')
  <2>1. store' = store \/ (store' = FreshSafetyData(e) /\ store.epoch < e)
    BY <1>1, <1>3, WriteResult
    DEF Initialize, InitializeFailsAtWaypoint, InitializeOutOfDate,
        InitializeFailsAtSafetyData, InitializeSucceeds, SetSafetyData
  <2>2. FreshSafetyData(e).epoch = e
    BY FreshTyped
  <2>3. store.epoch \in Nat /\ e \in Nat
    BY <1>1, SafetyDataNat, EpochsAssumption
  <2>4. CASE store' = FreshSafetyData(e) /\ store.epoch < e
    BY <2>2, <2>3, <2>4 DEF MovesForward
  <2>. QED
    BY <1>2, <2>1, <2>4
<1>4. ASSUME NEW block \in Blocks, NEW tc \in TCs, NEW w \in WriteOutcomes,
             ConstructAndSignVote(block, tc, w)
      PROVE  MovesForward(store, store')
  <2>. DEFINE vote == [epoch |-> block.epoch, round |-> block.round, id |-> block.id,
                       qc_round |-> block.qc.round, commit |-> CommitsParent(block)]
              obs  == ObserveQC(store, block.qc)
              new  == RecordVote(obs, block.round, vote)
  <2>1. store' = store \/ store' = new
    BY <1>1, <1>4, WriteResult DEF ConstructAndSignVote
  <2>2. block.round > store.last_voted_round
    BY <1>1, <1>4 DEF ConstructAndSignVote, AboveLastVotedRound
  <2>3. block.round \in Rounds /\ block.qc \in QCs
    BY DEF Blocks
  <2>4. /\ obs \in SafetyData /\ obs.epoch = store.epoch
        /\ obs.one_chain_round >= store.one_chain_round
        /\ obs.highest_timeout_round = store.highest_timeout_round
        /\ obs.preferred_round >= store.preferred_round
    BY <1>1, <2>3, ObserveTyped
  <2>. HIDE DEF obs, vote
  <2>5. /\ new.epoch = obs.epoch /\ new.last_voted_round = block.round
        /\ new.preferred_round = obs.preferred_round
        /\ new.one_chain_round = obs.one_chain_round
        /\ new.highest_timeout_round = obs.highest_timeout_round
    BY <2>4 DEF RecordVote, SafetyData
  <2>. HIDE DEF new
  <2>6. /\ store.last_voted_round \in Nat /\ store.highest_timeout_round \in Nat
        /\ block.round \in Nat
    BY <1>1, <2>3, SafetyDataNat, RoundsAssumption
  <2>7. MovesForward(store, new)
    BY <2>2, <2>4, <2>5, <2>6 DEF MovesForward
  <2>. QED
    BY <1>2, <2>1, <2>7
<1>5. ASSUME NEW epoch \in Epochs, NEW qc \in QCs, NEW w \in WriteOutcomes,
             qc.round \in Rounds, ConstructAndSignOrderVote(epoch, qc, w)
      PROVE  MovesForward(store, store')
  <2>1. store' = store \/ store' = ObserveQC(store, qc)
    BY <1>1, <1>5, WriteResult DEF ConstructAndSignOrderVote
  <2>2. store.last_voted_round \in Nat /\ store.highest_timeout_round \in Nat
    BY <1>1, SafetyDataNat
  <2>3. MovesForward(store, ObserveQC(store, qc))
    BY <1>1, <2>2, ObserveTyped DEF MovesForward
  <2>. QED
    BY <1>2, <2>1, <2>3
<1>6. ASSUME NEW timeout \in Timeouts, NEW tc \in TCs, NEW w \in WriteOutcomes,
             SignTimeoutWithQC(timeout, tc, w)
      PROVE  MovesForward(store, store')
  <2>1. store' = store \/ store' = RecordTimeout(store, timeout.round)
    BY <1>1, <1>6, WriteResult DEF SignTimeoutWithQC
  <2>2. store.one_chain_round \in Nat /\ store.preferred_round \in Nat
    BY <1>1, SafetyDataNat
  <2>3. timeout.round \in Rounds
    BY DEF Timeouts
  <2>4. MovesForward(store, RecordTimeout(store, timeout.round))
    BY <1>1, <2>2, <2>3, RecordTimeoutTyped DEF MovesForward
  <2>. QED
    BY <1>2, <2>1, <2>4
<1>7. ASSUME NEW block \in Blocks, SendBackLastVote(block)
      PROVE  MovesForward(store, store')
  BY <1>2, <1>7 DEF SendBackLastVote
<1>8. CASE ReadSafetyData \/ CrashAndRestart \/ UNCHANGED vars
  BY <1>2, <1>8 DEF ReadSafetyData, CrashAndRestart, vars
<1>. QED
  BY <1>3, <1>4, <1>5, <1>6, <1>7, <1>8 DEF Next

(* The durable safety data never moves back (set_safety_data is only given   *)
(* data in which every round of the epoch is kept or raised).                *)
THEOREM SafetyDataForward == Spec => SafetyDataMonotone
<1>1. IInv /\ [Next]_vars => [MovesForward(store, store')]_vars
  BY NextMovesForward
<1>. QED
  BY <1>1, Invariance, PTL DEF Spec, SafetyDataMonotone
=============================================================================
