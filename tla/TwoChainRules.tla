--------------------------- MODULE TwoChainRules ---------------------------
(***************************************************************************)
(* The voting rules of the 2-chain AptosBFT protocol, as pure operators on *)
(* a validator's SafetyData.  The module has no state: SafetyRules applies *)
(* the rules to the persisted data of one validator, AptosBFT to a whole   *)
(* validator set.                                                          *)
(*                                                                         *)
(* A quorum certificate is used here through the round it certifies        *)
(* (qc.round) and the round of the parent of the certified block           *)
(* (qc.parent_round); a block through its epoch, its round and its qc; a   *)
(* timeout certificate through its round and the highest certified round   *)
(* its signers reported (tc.hqc_round).                                    *)
(***************************************************************************)
EXTENDS Naturals

CONSTANT None       \* Rust's Option::None

\* The absent timeout certificate: maybe_tc.map_or(0, ..) reads it as zeros.
NoTC == [round |-> 0, hqc_round |-> 0]

\* The larger of two rounds (each field of SafetyData only ever grows).
Higher(a, b) == IF a > b THEN a ELSE b

\* SafetyData::new(epoch, 0, 0, 0, None, 0): what a new epoch starts from.
FreshSafetyData(epoch) ==
  [epoch                 |-> epoch,
   last_voted_round      |-> 0,
   preferred_round       |-> 0,
   one_chain_round       |-> 0,
   last_vote             |-> None,
   highest_timeout_round |-> 0]

\* Mutants of ObserveQC: the last certificate wins; the next round is kept.
ObserveQCOverwrites(sd, qc) ==
  [sd EXCEPT !.one_chain_round = qc.round, !.preferred_round = qc.parent_round]
ObserveQCOffByOne(sd, qc) ==
  [sd EXCEPT !.one_chain_round = Higher(@, qc.round + 1),
             !.preferred_round = Higher(@, qc.parent_round)]

\* SafetyRules::observe_qc
ObserveQC(sd, qc) ==
  [sd EXCEPT !.one_chain_round = Higher(@, qc.round),
             !.preferred_round = Higher(@, qc.parent_round)]

\* guarded_sign_timeout_with_qc, after its guards: last_voted_round is raised
\* to the timeout's round, then update_highest_timeout_round.
RecordTimeout(sd, round) ==
  [sd EXCEPT !.last_voted_round      = Higher(@, round),
             !.highest_timeout_round = Higher(@, round)]

\* The new vote: its round becomes last_voted_round, and it is kept whole.
RecordVote(sd, round, vote) ==
  [sd EXCEPT !.last_voted_round = round, !.last_vote = vote]

\* Mutant of AboveLastVotedRound: the rule is dropped.
AnyVoteRound(sd, round) == round \in Nat

\* First voting rule: the guard of verify_and_update_last_vote_round.
AboveLastVotedRound(sd, round) == round > sd.last_voted_round

\* Second voting rule: SafetyRules::safe_to_vote
SafeToVote(block, tc) ==
  \/ block.round = block.qc.round + 1
  \/ block.round = tc.round + 1 /\ block.qc.round >= tc.hqc_round

\* Mutant of SafeToTimeout: the comparison with one_chain_round is dropped.
TimeoutForgetsOneChain(timeout, tc, sd) ==
  timeout.round = timeout.hqc_round + 1 \/ timeout.round = tc.round + 1

\* SafetyRules::safe_to_timeout
SafeToTimeout(timeout, tc, sd) ==
  /\ timeout.round = timeout.hqc_round + 1 \/ timeout.round = tc.round + 1
  /\ timeout.hqc_round >= sd.one_chain_round

\* Mutant of SafeForOrderVote: off by one.
OrderVoteAtTimeoutRound(round, sd) == round >= sd.highest_timeout_round

\* SafetyRules::safe_for_order_vote
SafeForOrderVote(round, sd) == round > sd.highest_timeout_round

\* construct_ledger_info_2chain: does a quorum of votes for this block also
\* order its parent?  (The ledger info names the parent, or no block.)
CommitsParent(block) == block.round = block.qc.round + 1
=============================================================================
