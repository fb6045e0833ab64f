---------------------------- MODULE RoundManager ----------------------------
(***************************************************************************)
(* The round manager of one validator: it follows the certificates it      *)
(* collects and is sent from round to round, votes once in each round for  *)
(* the proposal or, at the timeout, for a NIL block, and keeps the votes   *)
(* of the others until they make a certificate (round_manager.rs,          *)
(* liveness/round_state.rs, pending_votes.rs, pending_order_votes.rs).     *)
(*                                                                         *)
(* Validators have equal voting power.  A certificate stands for the round *)
(* it certifies, a block for its round, the round of its parent            *)
(* certificate and whether it is NIL.  The other validators may send       *)
(* anything that passes the verification of UnverifiedEvent::verify; their *)
(* SyncInfo is what some block store holds.  The aggregator is NoDelay,    *)
(* the only one there is: no delayed certificate is ever sent.             *)
(***************************************************************************)
EXTENDS Integers, FiniteSets, FiniteSetsExt, TwoChainRules

CONSTANTS
  Validators, Self,
  Quorum,              \* quorum_voting_power
  MaxRound,            \* bound: the last round
  Settings             \* what may happen to the validator: each behaviour is under one of them

VARIABLES
  node,            \* the state of the validator, see Restart
  back_pressure,   \* block_store.vote_back_pressure()
  crashes,
  setting          \* one of Settings

vars == <<node, back_pressure, crashes, setting>>

OrderVoteEnabled == setting.order_votes       \* onchain_config.order_vote_enabled()
WaitsForPayload  == setting.waits             \* payloads may be missing when a proposal comes
HeldBack         == setting.back_pressure     \* there may be back pressure
MaxCrashes       == setting.crashes           \* bound
PeersVoteFor     == setting.votes             \* bound: <<round, round of the QC>> of the blocks the others vote for
PeersTimeOut     == setting.timeouts          \* bound: whether they sign timeouts

Rounds == 1 .. MaxRound
Peers  == Validators \ {Self}
NoTimeout == -1

\* How many timeouts cannot all be of faulty validators.
FPlusOne == Cardinality(Validators) - Quorum + 1

\* The 2-chain rules do not read preferred_round.
Block(r, q, nil) == [round |-> r, qc |-> [round |-> q, parent_round |-> 0], nil |-> nil]
BlockRounds == {p \in Rounds \X (0 .. MaxRound) : p[2] < p[1]}
Proposals == {Block(p[1], p[2], FALSE) : p \in BlockRounds}
Blocks == Proposals \cup {Block(p[1], p[2], TRUE) : p \in BlockRounds}

\* Some validators make a quorum, there is a round, the bounds of a setting are numbers and
\* blocks, and no block or vote is mistaken for Option::None.
ASSUME RoundManagerAssumption ==
  /\ IsFiniteSet(Validators) /\ Self \in Validators
  /\ Quorum \in 1 .. Cardinality(Validators)
  /\ MaxRound \in Nat \ {0}
  /\ \A s \in Settings : s.crashes \in Nat /\ s.votes \subseteq BlockRounds
  /\ None \notin Blocks /\ None \notin [block : Blocks, hqc_round : {NoTimeout} \cup (0 .. MaxRound)]

\* Vote, with the highest certified round of its two_chain_timeout.
Vote(b, hqc_round) == [block |-> b, hqc_round |-> hqc_round]

\* The SyncInfo a block store makes: new_decoupled leaves out a TC below the HQC.
SyncInfos ==
  {si \in [hqc : 0 .. MaxRound, hoc : 0 .. MaxRound,
           htc : {NoTC} \cup [round : Rounds, hqc_round : 0 .. MaxRound]] :
     /\ si.hoc <= si.hqc
     /\ si.htc = NoTC \/ (si.htc.round > si.hqc /\ si.htc.hqc_round <= si.hqc)}

HighestRound(n) == Higher(n.hqc, n.htc.round)

\* Those that lead to a round: what a validator in that round sends with its messages.
SyncInfosTo == [r \in Rounds |-> {si \in SyncInfos : Higher(si.hqc, si.htc.round) + 1 = r}]

----------------------------------------------------------------------------
(* RoundState and PendingVotes                                             *)

NoVotes == [a \in Validators |-> None]

\* PendingOrderVotes::garbage_collect, of the new round event; the proposal of a leader is made
\* on a task of its own.
GarbageCollect(order_votes, highest_ordered_round) == {ov \in order_votes : ov.round > highest_ordered_round}

\* Mutant: the vote of the last round is not forgotten.
ProcessCertificatesKeepsVote(n) ==
  IF HighestRound(n) + 1 <= n.current_round THEN n
  ELSE [n EXCEPT !.current_round = HighestRound(n) + 1,
                 !.pending = NoVotes, !.partial_tc = {}, !.echo_timeout = FALSE,
                 !.order_votes = GarbageCollect(@, n.hoc)]

\* RoundState::process_certificates, and the new round event.
ProcessCertificates(n) ==
  IF HighestRound(n) + 1 <= n.current_round THEN n
  ELSE [n EXCEPT !.current_round = HighestRound(n) + 1,
                 !.pending = NoVotes, !.partial_tc = {}, !.echo_timeout = FALSE,
                 !.vote_sent = None, !.order_votes = GarbageCollect(@, n.hoc)]

\* RoundState::record_vote.
RecordVoteSent(n, v) == IF v.block.round = n.current_round THEN [n EXCEPT !.vote_sent = v] ELSE n

VotersFor(n, b) == {a \in Validators : n.pending[a] # None /\ n.pending[a].block = b}
TimeoutVoters(n) == {t.author : t \in n.partial_tc}

\* TwoChainTimeoutWithPartialSignatures keeps the timeout with the highest certificate.
TimeoutCertificate(n) ==
  [round |-> n.current_round, hqc_round |-> Max({t.hqc_round : t \in n.partial_tc})]

\* PendingVotes::insert_vote, first step: a second vote counts only if it adds a timeout.
IsNewVote(n, a, v) ==
  LET previous == n.pending[a] IN
    previous = None \/ (previous.block = v.block /\ v.hqc_round # NoTimeout /\ previous.hqc_round = NoTimeout)

\* The second and the fourth step: a timeout is looked at only if the votes for the block are
\* not a quorum.
AddVote(n, a, v) ==
  LET m == [n EXCEPT !.pending[a] = v] IN
  IF v.hqc_round # NoTimeout /\ Cardinality(VotersFor(m, v.block)) < Quorum
  THEN [m EXCEPT !.partial_tc = @ \cup {[author |-> a, hqc_round |-> v.hqc_round]}] ELSE m

\* What insert_vote returns once the vote is stored: a certificate of votes before one of
\* timeouts, and the echo once.
VoteReceptionResult(n, v) ==
  IF Cardinality(VotersFor(n, v.block)) >= Quorum THEN "NewQuorumCertificate"
  ELSE IF v.hqc_round = NoTimeout THEN "VoteAdded"
  ELSE IF Cardinality(TimeoutVoters(n)) >= Quorum THEN "New2ChainTimeoutCertificate"
  ELSE IF ~n.echo_timeout /\ Cardinality(TimeoutVoters(n)) >= FPlusOne THEN "EchoTimeout"
  ELSE "VoteAdded"

----------------------------------------------------------------------------
(* The block store's certificates                                          *)

InsertTimeoutCert(n, tc) == [n EXCEPT !.htc = IF tc.round > @.round THEN tc ELSE @]

InsertQuorumCert(n, r) == [n EXCEPT !.hqc = Higher(@, r)]
InsertOrderedCert(n, r) == [n EXCEPT !.hoc = Higher(@, r)]

\* add_certs up to its k-th step: the blocks and the QC, the ordered certificate, the TC.
AddCerts(n, si, k) ==
  LET with_qc == IF k >= 1 THEN InsertQuorumCert(n, si.hqc) ELSE n
      with_oc == IF k >= 2 THEN InsertOrderedCert(with_qc, si.hoc) ELSE with_qc
  IN IF k >= 3 THEN InsertTimeoutCert(with_oc, si.htc) ELSE with_oc
Added == 3

HasNewerCertificates(si, n) == si.hqc > n.hqc \/ si.htc.round > n.htc.round \/ si.hoc > n.hoc

\* Mutant: certificates that came before a failure are not given to the round state.
SyncUpAllOrNothing(n, si, k) ==
  IF ~HasNewerCertificates(si, n) THEN n
  ELSE IF k = Added THEN ProcessCertificates(AddCerts(n, si, k)) ELSE AddCerts(n, si, k)

\* sync_up: what was added counts even if adding the rest failed.
SyncUp(n, si, k) ==
  IF HasNewerCertificates(si, n) THEN ProcessCertificates(AddCerts(n, si, k)) ELSE n

\* ensure_round_and_sync_up: the node afterwards, and whether to go on with the message.
EnsureRoundAndSyncUp(n, round, si, k) == IF round < n.current_round THEN n ELSE SyncUp(n, si, k)
InRound(n, round, si, k) ==
  /\ round >= n.current_round
  /\ k = Added \/ ~HasNewerCertificates(si, n)
  /\ round = SyncUp(n, si, k).current_round

----------------------------------------------------------------------------
(* Votes                                                                   *)

\* construct_and_sign_vote_two_chain: a second request for a round gets the first vote.
VotedInRound(n, b) == n.sd.last_vote # None /\ n.sd.last_vote.round = b.round
SafetyAccepts(n, b) ==
  VotedInRound(n, b) \/ (AboveLastVotedRound(n.sd, b.round) /\ SafeToVote(b, n.htc))
SignedBlock(n, b) == IF VotedInRound(n, b) THEN n.sd.last_vote ELSE b

SafetySign(n, b) ==
  IF VotedInRound(n, b) THEN n
  ELSE [n EXCEPT !.sd = RecordVote(ObserveQC(@, b.qc), b.round, b)]

\* vote_block, its checks: insert_block wants a block above the ordered root.
CanVote(n, b) ==
  /\ b.round > n.hoc
  /\ n.vote_sent = None
  /\ ~back_pressure
  /\ SafetyAccepts(n, b)

\* vote_block, the vote signed and saved.
VoteBlock(n, b) == [SafetySign(n, b) EXCEPT !.saved_vote = SignedBlock(n, b)]

SendVote(n, v) == [n EXCEPT !.sent = @ \cup {v}]

\* process_verified_proposal.
ProcessVerifiedProposal(n, b) ==
  IF ~CanVote(n, b) THEN n
  ELSE LET v == Vote(SignedBlock(n, b), NoTimeout) IN SendVote(RecordVoteSent(VoteBlock(n, b), v), v)

\* check_backpressure_and_process_proposal.
CheckBackPressure(n, b) ==
  IF back_pressure THEN [n EXCEPT !.resending = @ \cup {b}] ELSE ProcessVerifiedProposal(n, b)

VotedThisRound(n) == n.vote_sent # None /\ n.vote_sent.block.round = n.current_round

\* The vote a local timeout repeats: the one that was sent, or else a NIL block's.
NilBlock(n) == Block(n.current_round, n.hqc, TRUE)
TimedOutVote(n) == IF VotedThisRound(n) THEN n.vote_sent ELSE Vote(SignedBlock(n, NilBlock(n)), NoTimeout)
CanRepeatVote(n) == VotedThisRound(n) \/ CanVote(n, NilBlock(n))
WithTimedOutVote(n) == IF VotedThisRound(n) THEN n ELSE VoteBlock(n, NilBlock(n))

\* sign_timeout_with_qc, with the safety data the vote left.
CanSignTimeout(n) ==
  /\ SafeToTimeout([round |-> n.current_round, hqc_round |-> n.hqc], n.htc, n.sd)
  /\ n.current_round >= n.sd.last_voted_round

\* The vote is given a timeout, kept, and sent to all.
SendTimeout(n) ==
  LET v == [TimedOutVote(n) EXCEPT !.hqc_round = n.hqc]
      m == WithTimedOutVote(n)
  IN SendVote(RecordVoteSent([m EXCEPT !.sd = RecordTimeout(@, n.current_round)], v), v)

\* process_local_timeout for the current round.
ProcessLocalTimeout(n) ==
  IF back_pressure \/ ~CanRepeatVote(n) \/ TimedOutVote(n).hqc_round # NoTimeout THEN n
  ELSE IF CanSignTimeout(WithTimedOutVote(n)) THEN SendTimeout(n) ELSE WithTimedOutVote(n)

----------------------------------------------------------------------------
(* The events of the main loop                                             *)

\* init, after start_new_epoch read the certificates and the last vote from storage.
Restart(n) ==
  LET m == [n EXCEPT !.current_round = 0, !.vote_sent = None, !.futures = {}, !.resending = {},
                     !.buffered = {}, !.already_proposed = None, !.order_votes = {}]
      started == ProcessCertificates(m)
  IN IF n.saved_vote = None THEN started ELSE RecordVoteSent(started, Vote(n.saved_vote, NoTimeout))

Init ==
  /\ node = Restart([hqc |-> 0, htc |-> NoTC, hoc |-> 0, current_round |-> 0, pending |-> NoVotes, partial_tc |-> {},
                     echo_timeout |-> FALSE, vote_sent |-> None, sd |-> FreshSafetyData(1),
                     saved_vote |-> None, futures |-> {}, resending |-> {}, buffered |-> {},
                     already_proposed |-> None, order_votes |-> {}, sent |-> {}])
  /\ back_pressure = FALSE
  /\ crashes = 0
  /\ setting \in Settings

\* UnequivocalProposerElection::is_valid_proposal.
IsValidProposal(n, b) ==
  \/ n.already_proposed = None
  \/ n.already_proposed # None /\ (b.round > n.already_proposed.round \/ b = n.already_proposed)

\* A proposal comes with the certificates that lead to its round, verify_well_formed.
WellFormed(b, si) == si.hqc = b.qc.round /\ b.round = Higher(b.qc.round, si.htc.round) + 1

\* process_proposal: the payload may have to be waited for.
ProcessProposal(n, b, available) ==
  LET m == [n EXCEPT !.already_proposed = b] IN
  IF ~IsValidProposal(n, b) THEN n
  ELSE IF available THEN CheckBackPressure(m, b) ELSE [m EXCEPT !.futures = @ \cup {b}]

\* process_proposal_msg.
ProposalMsg(b, si, k, available) ==
  LET n == EnsureRoundAndSyncUp(node, b.round, si, k) IN
  /\ b.round >= node.current_round
  /\ WellFormed(b, si)
  /\ node' = IF InRound(node, b.round, si, k) THEN ProcessProposal(n, b, available) ELSE n
  /\ UNCHANGED <<back_pressure, crashes>>

\* wait_for_payload ends, with or without the payload.
PayloadArrives(b, ok) ==
  /\ b \in node.futures
  /\ LET n == [node EXCEPT !.futures = @ \ {b}] IN
     node' = IF ok THEN CheckBackPressure(n, b) ELSE n
  /\ UNCHANGED <<back_pressure, crashes>>

\* resend_verified_proposal_to_self: the task pushes the proposal once there is no back
\* pressure, or gives up.
ResendProposal(b) ==
  /\ b \in node.resending
  /\ ~back_pressure
  /\ node' = [node EXCEPT !.resending = @ \ {b}, !.buffered = @ \cup {b}]
  /\ UNCHANGED <<back_pressure, crashes>>

StopResending(b) ==
  /\ b \in node.resending
  /\ back_pressure
  /\ node' = [node EXCEPT !.resending = @ \ {b}]
  /\ UNCHANGED <<back_pressure, crashes>>

\* process_delayed_proposal_msg.
BufferedProposal(b) ==
  /\ b \in node.buffered
  /\ LET n == [node EXCEPT !.buffered = @ \ {b}] IN
     node' = IF b.round = n.current_round THEN ProcessVerifiedProposal(n, b) ELSE n
  /\ UNCHANGED <<back_pressure, crashes>>

\* broadcast_order_vote, if the safety rules allow it.
BroadcastOrderVote(n, r) ==
  IF OrderVoteEnabled /\ SafeForOrderVote(r, n.sd)
  THEN [n EXCEPT !.sd = ObserveQC(@, [round |-> r, parent_round |-> 0])] ELSE n

\* new_qc_aggregated, which may fail to fetch the block.
NewQcAggregated(n, r, ok) == IF ok THEN ProcessCertificates(InsertQuorumCert(n, r)) ELSE n

\* new_2chain_tc_aggregated.
New2ChainTcAggregated(n) == ProcessCertificates(InsertTimeoutCert(n, TimeoutCertificate(n)))

\* The vote of this round is sent again, with a timeout, unless it had one.
EchoTimeout(n) ==
  LET e == [n EXCEPT !.echo_timeout = TRUE] IN
  IF e.vote_sent # None /\ e.vote_sent.hqc_round # NoTimeout THEN e ELSE ProcessLocalTimeout(e)

\* process_vote_reception_result.
ProcessVoteReceptionResult(n, r, result, ok) ==
  IF result = "NewQuorumCertificate"
  THEN IF ok THEN BroadcastOrderVote(NewQcAggregated(n, r, ok), r) ELSE NewQcAggregated(n, r, ok)
  ELSE IF result = "New2ChainTimeoutCertificate" THEN New2ChainTcAggregated(n)
  ELSE IF result = "EchoTimeout" THEN EchoTimeout(n)
  ELSE n

\* process_vote: a block of a certified round needs no more votes.
ProcessVote(n, a, v, ok) ==
  LET m == AddVote(n, a, v) IN
  IF v.block.round <= n.hqc \/ ~IsNewVote(n, a, v) THEN n
  ELSE ProcessVoteReceptionResult(m, v.block.round, VoteReceptionResult(m, v), ok)

\* process_vote_msg: broadcast_vote is set.  VoteMsg::verify bounds the certificate of a
\* timeout by the one of the SyncInfo.  Our own votes come back to us.
VoteMsg(a, v, si, k, ok) ==
  /\ v.block.round >= node.current_round
  /\ v.hqc_round <= si.hqc
  /\ LET n == EnsureRoundAndSyncUp(node, v.block.round, si, k) IN
     node' = IF InRound(node, v.block.round, si, k) THEN ProcessVote(n, a, v, ok) ELSE n
  /\ UNCHANGED <<back_pressure, crashes>>

NoOrderVotes(r) == [round |-> r, voters |-> {}, enough |-> FALSE]
OrderVoteStatus(n, r) ==
  IF \E ov \in n.order_votes : ov.round = r THEN CHOOSE ov \in n.order_votes : ov.round = r ELSE NoOrderVotes(r)
WithOrderVotes(n, ov) == [n EXCEPT !.order_votes = {o \in @ : o.round # ov.round} \cup {ov}]

\* new_ordered_cert: executing the block may fail.
NewOrderedCert(n, r, ok) == IF ok THEN ProcessCertificates(InsertOrderedCert(n, r)) ELSE n

\* PendingOrderVotes::insert_order_vote, and what a quorum leads to.
InsertOrderVote(n, a, r, ok) ==
  LET ov == [OrderVoteStatus(n, r) EXCEPT !.voters = @ \cup {a}] IN
  IF Cardinality(ov.voters) < Quorum THEN WithOrderVotes(n, ov)
  ELSE NewOrderedCert(WithOrderVotes(n, [ov EXCEPT !.enough = TRUE]), r, ok)

\* new_qc_from_order_vote_msg: the block of a new certificate may have to be fetched.
NewQcFromOrderVoteMsg(n, r) == IF r > n.hqc THEN ProcessCertificates(InsertQuorumCert(n, r)) ELSE n

\* process_order_vote_msg: the certificate first.
OrderVoteMsg(a, r, fetched, ok) ==
  /\ OrderVoteEnabled
  /\ fetched \/ r <= node.hqc
  /\ LET n == NewQcFromOrderVoteMsg(node, r) IN
     node' = IF OrderVoteStatus(n, r).enough \/ r <= n.hoc THEN n ELSE InsertOrderVote(n, a, r, ok)
  /\ UNCHANGED <<back_pressure, crashes>>

\* process_sync_info_msg.
SyncInfoMsg(si, k) ==
  /\ node' = EnsureRoundAndSyncUp(node, Higher(si.hqc, si.htc.round) + 1, si, k)
  /\ UNCHANGED <<back_pressure, crashes>>

\* The timer of the current round; a timeout of an older round is ignored.
LocalTimeout ==
  /\ node.current_round \in Rounds
  /\ node' = ProcessLocalTimeout(node)
  /\ UNCHANGED <<back_pressure, crashes>>

BackPressureChanges ==
  /\ HeldBack
  /\ back_pressure' = ~back_pressure
  /\ UNCHANGED <<node, crashes>>

\* The process stops between two events, or inside vote_block: after the safety data was
\* persisted, before or after the vote was saved; or after a timeout was signed.
Crash(n) ==
  /\ crashes < MaxCrashes
  /\ crashes' = crashes + 1
  /\ node' = Restart(n)
  /\ UNCHANGED back_pressure

CrashAnywhere ==
  \/ Crash(node)
  \/ \E b \in Blocks :
       /\ b.round = node.current_round /\ (b.nil => b.qc.round = node.hqc) /\ (~b.nil => b.qc.round <= node.hqc)
       /\ CanVote(node, b)
       /\ Crash(SafetySign(node, b)) \/ Crash(VoteBlock(node, b))

\* The steps of add_certs that are done, if there is anything to add.
Steps(si) == IF HasNewerCertificates(si, node) THEN 0 .. Added ELSE {Added}

\* Nothing is ordered ahead of its certificate's commit rule without order votes.
Sent(si) == si.hoc > 0 => OrderVoteEnabled

Step ==
  \/ \E b \in Proposals : \E si \in SyncInfosTo[b.round] : \E k \in Steps(si), available \in {TRUE, ~WaitsForPayload} :
       Sent(si) /\ ProposalMsg(b, si, k, available)
  \/ \E b \in node.futures, ok \in BOOLEAN : PayloadArrives(b, ok)
  \/ \E b \in node.resending : ResendProposal(b) \/ StopResending(b)
  \/ \E b \in node.buffered : BufferedProposal(b)
  \/ \E v \in node.sent : \E si \in SyncInfosTo[v.block.round] : \E k \in Steps(si), ok \in BOOLEAN :
       Sent(si) /\ VoteMsg(Self, v, si, k, ok)
  \/ \E b \in {Block(p[1], p[2], FALSE) : p \in PeersVoteFor} : \E si \in SyncInfosTo[b.round] :
     \E a \in Peers, h \in {NoTimeout} \cup (IF PeersTimeOut THEN 0 .. b.round - 1 ELSE {}), k \in Steps(si), ok \in BOOLEAN :
       Sent(si) /\ VoteMsg(a, Vote(b, h), si, k, ok)
  \/ \E a \in Validators, r \in Rounds, fetched, ok \in BOOLEAN : OrderVoteMsg(a, r, fetched, ok)
  \/ \E si \in SyncInfos : \E k \in Steps(si) : Sent(si) /\ SyncInfoMsg(si, k)
  \/ LocalTimeout
  \/ BackPressureChanges
  \/ CrashAnywhere

Next == Step /\ UNCHANGED setting

Spec == Init /\ [][Next]_vars

----------------------------------------------------------------------------
(* Properties *)

TypeOK ==
  /\ node.hqc \in 0 .. MaxRound /\ node.hoc \in 0 .. MaxRound
  /\ node.htc = NoTC \/ node.htc \in [round : Rounds, hqc_round : 0 .. MaxRound]
  /\ node.current_round \in 1 .. MaxRound + 1
  /\ \A a \in Validators : node.pending[a] # None =>
       node.pending[a].block \in Blocks /\ node.pending[a].block.round = node.current_round
  /\ node.vote_sent # None => node.vote_sent.block \in Blocks
  /\ node.futures \cup node.resending \cup node.buffered \subseteq Proposals
  /\ back_pressure \in BOOLEAN /\ crashes \in 0 .. MaxCrashes

\* The round is always the one after the highest certificate of the block store, also when a
\* SyncInfo was only partly added and after a restart: a validator that has a certificate for a
\* round is never left waiting in it (process_certificates after every insertion).
RoundFollowsCertificates == node.current_round = HighestRound(node) + 1

\* Whatever crashes and wherever, the votes sent in a round are for one block: a timeout
\* repeats the vote that was sent or persisted (process_local_timeout, vote_block).
OneBlockPerRound ==
  \A v, u \in node.sent : v.block.round = u.block.round => v.block = u.block

\* A validator that is not held back can always give its timeout vote for the round it is in:
\* the safety rules accept the vote it sent, or a NIL block on its highest certificate, and the
\* timeout that reports that certificate.  Otherwise the round would miss its timeout until a
\* certificate comes from elsewhere (process_local_timeout).
TimeoutIsAccepted ==
  node.current_round <= MaxRound /\ ~back_pressure =>
    /\ CanRepeatVote(node)
    /\ CanSignTimeout(WithTimedOutVote(node))

\* f + 1 timeout votes of a round make a validator join, so that one that gave its vote early
\* does not leave the round without its certificate; echo_timeout is set once
\* (PendingVotes::insert_vote and the EchoTimeout arm of process_vote_reception_result).
JoinsTimeout ==
  ~HeldBack /\ Cardinality(node.partial_tc) > Cardinality(Validators) - Quorum =>
    \E v \in node.sent : v.block.round = node.current_round /\ v.hqc_round # NoTimeout

\* What is ordered is certified: SyncInfo::verify of the others refuses anything else, and
\* with it every message this validator sends (process_order_vote_msg adds the certificate
\* before it counts the order vote).
OrderedIsCertified == node.hoc <= node.hqc

\* No round is left without its timeout certificate for want of this validator's vote.
TimeoutsComplete == TimeoutIsAccepted /\ JoinsTimeout

\* The rounds, votes and orders of a validator are those its certificates justify, across partly
\* added SyncInfos, delayed proposals and crashes.
RoundsAndVotes == TypeOK /\ RoundFollowsCertificates /\ OneBlockPerRound /\ OrderedIsCertified
=============================================================================
