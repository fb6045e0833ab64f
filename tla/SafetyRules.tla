---------------------------- MODULE SafetyRules ----------------------------
(***************************************************************************)
(* One validator's safety-rules service: the durable SafetyData and        *)
(* waypoint (PersistentSafetyStorage), the in-memory cache of the safety   *)
(* data, the signer and the epoch state, and every message the service has *)
(* handed to its caller signed.                                            *)
(*                                                                         *)
(* The callers (RoundManager, and behind it the network) are the           *)
(* environment: they may present any well-formed block, timeout or order   *)
(* vote proposal, in any order, again and again.  A write to the secure    *)
(* storage may succeed, fail, or fail after taking effect; the process may *)
(* crash between any two calls, and a failed write followed by a crash is  *)
(* a crash in the middle of a call.                                        *)
(***************************************************************************)
EXTENDS TwoChainRules

CONSTANTS
  Epochs,     \* the epochs of the model, a set of naturals that contains 1
  Rounds,     \* the rounds a block or a timeout may have, naturals above 0
  Ids,        \* block ids: the proposals of one round differ in their id
  InSet,      \* the epochs whose validator set holds this author's key
  Accepts     \* <<e, f>>: the validator set of epoch e may accept a
              \* certificate of epoch f (always for e = f; for e # f when the
              \* two sets are the same, or for a certificate of round 0)

ASSUME EpochsAssumption == Epochs \subseteq Nat /\ 1 \in Epochs
ASSUME RoundsAssumption == Rounds \subseteq Nat \ {0}
VARIABLES
  store,      \* SAFETY_DATA in the secure storage
  waypoint,   \* WAYPOINT in the secure storage: the epoch it starts
  cached,     \* cached_safety_data
  signer,     \* is validator_signer Some?
  epochState, \* the epoch of epoch_state, or None
  votes,      \* history: the votes returned to the caller
  orderVotes, \* history: the order votes returned to the caller
  timeouts    \* history: the timeouts whose signature was returned

memory  == <<cached, signer, epochState>>
history == <<votes, orderVotes, timeouts>>
vars    == <<store, waypoint, cached, signer, epochState,
             votes, orderVotes, timeouts>>

-----------------------------------------------------------------------------
(* Data *)

Rounds0 == Rounds \cup {0}        \* round 0 is the epoch's genesis block

\* A QC through the rounds of the block it certifies and of that block's
\* parent; the genesis certificate certifies round 0 with parent round 0.
QCs == {qc \in [round : Rounds0, parent_round : Rounds0] :
          qc.parent_round < qc.round \/ qc = [round |-> 0, parent_round |-> 0]}

\* Block::verify_well_formed: the certified parent has a smaller round.
Blocks == {b \in [epoch : Epochs, round : Rounds, id : Ids, qc : QCs] :
             b.qc.round < b.round}

TCs == {NoTC} \cup {tc \in [round : Rounds, hqc_round : Rounds0] :
                      tc.hqc_round < tc.round}

\* TwoChainTimeout::verify: the QC it carries is below its round.
Timeouts == {t \in [epoch : Epochs, round : Rounds, hqc_round : Rounds0] :
               t.hqc_round < t.round}

Votes == [epoch : Epochs, round : Rounds, id : Ids, qc_round : Rounds0,
          commit : BOOLEAN]

\* An order vote through the round of the certified block it orders; the
\* rules do not look at the block's id.
OrderVotes == [epoch : Epochs, round : Rounds]

SafetyData == [epoch : Epochs, last_voted_round : Rounds0,
               preferred_round : Rounds0, one_chain_round : Rounds0,
               last_vote : Votes \cup {None}, highest_timeout_round : Rounds0]

ASSUME NoneAssumption ==
  None \notin Nat /\ None \notin Votes /\ None \notin SafetyData

\* What a call to the secure storage may do.
WriteOutcomes == {"ok", "applied_but_failed", "failed"}

-----------------------------------------------------------------------------
(* PersistentSafetyStorage *)

\* safety_data(): the cache, or the stored value when nothing is cached.
CurrentSafetyData == IF cached = None THEN store ELSE cached

\* Mutant of SetSafetyData: the cache keeps what the storage refused.
SetSafetyDataKeepsCache(data, w) ==
  /\ store'  = IF w = "failed" THEN store ELSE data
  /\ cached' = data

\* set_safety_data(data): a failed write empties the cache.
SetSafetyData(data, w) ==
  /\ store'  = IF w = "failed" THEN store ELSE data
  /\ cached' = IF w = "ok" THEN data ELSE None

-----------------------------------------------------------------------------
(* Guards shared by the signing operations: signer()?, verify_epoch and the *)
(* signature checks that go through epoch_state()?                          *)

MaySign(epoch) ==
  /\ signer
  /\ epoch = CurrentSafetyData.epoch
  /\ epochState # None /\ <<epochState, epoch>> \in Accepts

\* Is the last vote for this round?  (Only the round is compared.)
VotedIn(sd, round) == sd.last_vote # None /\ sd.last_vote.round = round

-----------------------------------------------------------------------------
(* Operations *)

\* guarded_initialize with a verified epoch-change proof that ends at the
\* first ledger info of epoch e.  ww and ws are what the writes of the
\* waypoint and of the safety data do; a failed write is an early return.
InitializeFailsAtWaypoint(e, ww) ==
  /\ e > waypoint /\ ww # "ok"
  /\ waypoint' = IF ww = "failed" THEN waypoint ELSE e
  /\ UNCHANGED <<store, memory, history>>

\* Ordering::Greater: the stored epoch is ahead of the proof.
InitializeOutOfDate(e) ==
  /\ CurrentSafetyData.epoch > e
  /\ waypoint' = Higher(waypoint, e)
  /\ cached' = CurrentSafetyData
  /\ UNCHANGED <<store, signer, epochState, history>>

\* Ordering::Less: start a new epoch, but the write fails.
InitializeFailsAtSafetyData(e, ws) ==
  /\ CurrentSafetyData.epoch < e /\ ws # "ok"
  /\ waypoint' = Higher(waypoint, e)
  /\ SetSafetyData(FreshSafetyData(e), ws)
  /\ UNCHANGED <<signer, epochState, history>>

\* The remaining path: fresh safety data for a new epoch, the current one
\* for the same epoch; then the key reconciliation.
InitializeSucceeds(e) ==
  /\ CurrentSafetyData.epoch <= e
  /\ waypoint' = Higher(waypoint, e)
  /\ IF CurrentSafetyData.epoch < e
     THEN SetSafetyData(FreshSafetyData(e), "ok")
     ELSE cached' = CurrentSafetyData /\ store' = store
  /\ epochState' = e
  /\ signer' = (e \in InSet)
  /\ UNCHANGED history

Initialize(e, w) ==
  \/ InitializeFailsAtWaypoint(e, w)
  \/ InitializeOutOfDate(e)
  \/ InitializeFailsAtSafetyData(e, w)
  \/ InitializeSucceeds(e)

\* guarded_consensus_state, and what every rejected call leaves behind: the
\* safety data has been read into the cache.
ReadSafetyData ==
  /\ cached = None
  /\ cached' = store
  /\ UNCHANGED <<store, waypoint, signer, epochState, history>>

\* guarded_construct_and_sign_vote_two_chain, already voted in this round:
\* the previous vote is sent back.
SendBackLastVote(block) ==
  /\ MaySign(block.epoch)
  /\ VotedIn(CurrentSafetyData, block.round)
  /\ cached' = CurrentSafetyData
  /\ votes' = votes \cup {CurrentSafetyData.last_vote}
  /\ UNCHANGED <<store, waypoint, signer, epochState, orderVotes, timeouts>>

\* guarded_construct_and_sign_vote_two_chain, a new vote: it is signed, then
\* persisted, and only returned when the write succeeded.
ConstructAndSignVote(block, tc, w) ==
  LET sd   == CurrentSafetyData
      vote == [epoch |-> block.epoch, round |-> block.round, id |-> block.id,
               qc_round |-> block.qc.round, commit |-> CommitsParent(block)]
  IN
  /\ MaySign(block.epoch)
  /\ ~VotedIn(sd, block.round)
  /\ AboveLastVotedRound(sd, block.round)
  /\ SafeToVote(block, tc)
  /\ SetSafetyData(RecordVote(ObserveQC(sd, block.qc), block.round, vote), w)
  /\ votes' = IF w = "ok" THEN votes \cup {vote} ELSE votes
  /\ UNCHANGED <<waypoint, signer, epochState, orderVotes, timeouts>>

\* guarded_construct_and_sign_order_vote for a block certified by qc.
ConstructAndSignOrderVote(epoch, qc, w) ==
  LET new == ObserveQC(CurrentSafetyData, qc) IN
  /\ MaySign(epoch)
  /\ SafeForOrderVote(qc.round, new)
  /\ SetSafetyData(new, w)
  /\ orderVotes' = IF w = "ok"
                   THEN orderVotes \cup {[epoch |-> epoch, round |-> qc.round]}
                   ELSE orderVotes
  /\ UNCHANGED <<waypoint, signer, epochState, votes, timeouts>>

\* guarded_sign_timeout_with_qc: persisted first, then signed.
SignTimeoutWithQC(timeout, tc, w) ==
  LET sd == CurrentSafetyData IN
  /\ MaySign(timeout.epoch)
  /\ SafeToTimeout(timeout, tc, sd)
  /\ timeout.round >= sd.last_voted_round
  /\ SetSafetyData(RecordTimeout(sd, timeout.round), w)
  /\ timeouts' = IF w = "ok" THEN timeouts \cup {timeout} ELSE timeouts
  /\ UNCHANGED <<waypoint, signer, epochState, votes, orderVotes>>

\* The process dies; PersistentSafetyStorage::new and SafetyRules::new start
\* from an empty cache, no signer and no epoch state.
CrashAndRestart ==
  /\ cached' = None /\ signer' = FALSE /\ epochState' = None
  /\ UNCHANGED <<store, waypoint, history>>

-----------------------------------------------------------------------------
(* PersistentSafetyStorage::initialize on an empty store: epoch 1. *)
Init ==
  /\ store = FreshSafetyData(1)
  /\ waypoint = 1
  /\ cached = FreshSafetyData(1)
  /\ signer = FALSE
  /\ epochState = None
  /\ votes = {} /\ orderVotes = {} /\ timeouts = {}

Next ==
  \/ \E e \in Epochs, w \in WriteOutcomes : Initialize(e, w)
  \/ ReadSafetyData
  \/ \E block \in Blocks : SendBackLastVote(block)
  \/ \E block \in Blocks, tc \in TCs, w \in WriteOutcomes :
       ConstructAndSignVote(block, tc, w)
  \/ \E epoch \in Epochs, qc \in QCs, w \in WriteOutcomes :
       qc.round \in Rounds /\ ConstructAndSignOrderVote(epoch, qc, w)
  \/ \E timeout \in Timeouts, tc \in TCs, w \in WriteOutcomes :
       SignTimeoutWithQC(timeout, tc, w)
  \/ CrashAndRestart

Spec == Init /\ [][Next]_vars

-----------------------------------------------------------------------------
(* Properties *)

\* Every variable stays in its type; the histories hold well-formed messages.
TypeOK ==
  /\ store \in SafetyData
  /\ waypoint \in Epochs
  /\ cached \in SafetyData \cup {None}
  /\ signer \in BOOLEAN
  /\ epochState \in Epochs \cup {None}
  /\ votes \subseteq Votes
  /\ orderVotes \subseteq OrderVotes
  /\ timeouts \subseteq Timeouts

\* The service never hands out two different votes for one round of an
\* epoch, whatever is presented again, whichever writes fail and however
\* often the process restarts (last_voted_round and last_vote in
\* guarded_construct_and_sign_vote_two_chain).
OneVotePerRound ==
  \A v, u \in votes : v.epoch = u.epoch /\ v.round = u.round => v = u

\* A timeout for the round of an order vote, or for a later round, reports a
\* certified round at least as high as the block that was order-voted: the
\* fact that lets a TC's hqc_round protect a block ordered by order votes
\* (highest_timeout_round and one_chain_round, across failures and restarts).
TimeoutCarriesOrderedQC ==
  \A o \in orderVotes, t \in timeouts :
    o.epoch = t.epoch /\ t.round >= o.round => t.hqc_round >= o.round

\* The same for votes: a timeout at or above the round of a vote reports a
\* certified round at least as high as the QC the vote extended, even when
\* the vote was persisted before a crash and only returned afterwards.
TimeoutCarriesVotedQC ==
  \A v \in votes, t \in timeouts :
    v.epoch = t.epoch /\ t.round >= v.round => t.hqc_round >= v.qc_round

\* A timeout certificate that a quorum signed protects what was voted for and order-voted before.
TimeoutCarriesQC == TimeoutCarriesOrderedQC /\ TimeoutCarriesVotedQC

\* The cache never disagrees with the durable data, so a restart never goes
\* back to an older opinion (set_safety_data empties it on a failed write).
CacheCoherent == cached \in {store, None}

\* The durable waypoint is never behind the durable epoch: guarded_initialize
\* writes the waypoint first, so a crash in between leaves a waypoint a
\* restarted node can still be initialized from.
WaypointCoversEpoch == waypoint >= store.epoch

\* What a restarted node is initialized from is what the running node decided on, at every point
\* where a write may fail or the process may stop (set_safety_data, guarded_initialize).
StorageCoherent == CacheCoherent /\ WaypointCoversEpoch

\* No field of the durable safety data is lowered within an epoch.
MovesForward(old, new) ==
  \/ new.epoch > old.epoch
  \/ /\ new.epoch = old.epoch
     /\ new.last_voted_round >= old.last_voted_round
     /\ new.preferred_round >= old.preferred_round
     /\ new.one_chain_round >= old.one_chain_round
     /\ new.highest_timeout_round >= old.highest_timeout_round

\* The durable safety data never moves back: the epoch grows, and within an
\* epoch no round is ever lowered, by no write, failure or restart.
SafetyDataMonotone == [][MovesForward(store, store')]_vars
=============================================================================
