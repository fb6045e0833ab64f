-------------------------- MODULE ProposalGenerator --------------------------
(***************************************************************************)
(* How a validator makes its proposals (proposal_generator.rs, the         *)
(* proposer's part of round_manager.rs, payload_client/): the round        *)
(* manager spawns a task when it enters a round that is its own; the task  *)
(* reads the block store step by step while certificates and commits       *)
(* arrive, waits, pulls a payload from the quorum store and signs.         *)
(*                                                                         *)
(* A block is its round; whose certificate comes is what AptosBFT allows:  *)
(* it extends what is ordered.  A batch has one transaction, and which     *)
(* proofs the quorum store has and prefers is left open (see ProofQueue).  *)
(* has_reconfiguration of a certificate is never set, since votes are for  *)
(* the order only, and pending_ordering is without effect, since the       *)
(* client always returns what the first request gave.                      *)
(***************************************************************************)
EXTENDS Integers, Sequences, FiniteSets, FiniteSetsExt

CONSTANTS
  MaxRound,
  Mine,              \* the rounds in which this validator is the proposer
  Batches, Vtxns,    \* batches of transactions, and validator transactions
  MaxFailedAuthorsToStore,
  MaxBlockTxns,      \* max_block_txns_after_filtering
  MinBlockTxns,      \* min_max_txns_in_block_after_filtering_from_backpressure
  MaxVtxns,          \* per_block_limit_txn_count
  ChainHealth,       \* percentage of voting power -> limit of transactions
  PipelineLatency,   \* latency -> limit of transactions
  MinBlocks, Percentile, MinCalibrated,   \* of the back pressure by execution
  Conditions,        \* what may be measured: [power, latency, sizes]
  AllowInline,       \* allow_batches_without_pos_in_proposal
  Capacity,          \* of the channel to the quorum store's coordinator
  PeerTimes,         \* round -> the timestamps that another validator may give its block
  Timeouts,          \* the rounds that may time out
  MaxClock, MaxRestarts   \* bounds

Rounds == 1 .. MaxRound

VARIABLES
  clock,
  blocks,       \* the block tree: round -> [parent, chain, timestamp, payload]
  hqc, tc,      \* rounds of the highest quorum certificate and timeout certificate
  ordered_root, commit_root,
  committing,   \* a commit that was notified of, whose callback has not raised the root, or 0
  task,         \* own round -> the task that generates its proposal
  last_round_generated,
  last_voted_round,
  notices,      \* commit notifications on the way to the proof manager
  marked,       \* batches that it does not propose since they were committed
  lives,        \* one more than the restarts
  sent          \* the proposals broadcast and the nil blocks voted for

store == <<blocks, hqc, tc, ordered_root>>
commits == <<commit_root, committing, notices, marked>>
generator == <<task, last_round_generated>>
vars == <<clock, store, commits, generator, last_voted_round, lives, sent>>

Idle == [pc |-> "idle"]
Unlimited == MaxBlockTxns + MinBlockTxns

\* process_certificates.
CurrentRound == (IF hqc > tc THEN hqc ELSE tc) + 1

----------------------------------------------------------------------------
(* Limits by back pressure. *)

\* ChainHealthBackoffConfig::get_backoff: the entry of the least percentage from here on.
ChainHealthBackoff(power) ==
  LET keys == {k \in DOMAIN ChainHealth : k >= power}
  IN {ChainHealth[k] : k \in {x \in keys : \A y \in keys : x <= y}}

\* PipelineBackpressureConfig::get_backoff: the entry of the greatest latency below.
PipelineBackoff(latency) ==
  LET keys == {k \in DOMAIN PipelineLatency : k < latency}
  IN {PipelineLatency[k] : k \in {x \in keys : \A y \in keys : x >= y}}

\* get_execution_block_size_backoff, of the sizes that recent blocks should have had, in order.
ExecutionBackoff(sizes) ==
  IF Len(sizes) < MinBlocks THEN {}
  ELSE LET i == Min({(Percentile * Len(sizes)) \div 100, Len(sizes) - 1})
           calibrated == Max({sizes[i + 1], MinCalibrated})
       IN {calibrated} \cap (0 .. MaxBlockTxns - 1)

Overrides(c) == ChainHealthBackoff(c.power) \cup PipelineBackoff(c.latency) \cup ExecutionBackoff(c.sizes)

\* The pipeline's latency, the recent blocks' execution and the power of those who vote: any of these.
Measured == Conditions

\* calculate_max_block_sizes: batches are not split, so a small limit bounds what is executed instead.
CalculateMaxBlockSizes(overrides) ==
  LET limit == Min({MaxBlockTxns} \cup overrides)
  IN IF MinBlockTxns > limit THEN [txns |-> MinBlockTxns, execute |-> limit]
     ELSE [txns |-> limit, execute |-> Unlimited]

\* The rounds of the failed authors that are stored; each stands for its proposer too.
ComputeFailedAuthors(round, previous_round, include_cur_round) ==
  LET end == IF include_cur_round THEN round + 1 ELSE round
  IN {r \in previous_round + 1 .. end - 1 : r >= end - MaxFailedAuthorsToStore}

----------------------------------------------------------------------------
(* Reading the block tree. *)

\* path_from_root_to_block: the blocks after the root up to b, if b extends it.
PathExists(root, b) == root \in blocks[b].chain
Path(root, b) == {a \in blocks[b].chain : a > root}

\* PayloadFilter::from, and the hashes of pending validator transactions.
Exclude(set) == UNION {blocks[b].payload : b \in set}

\* Mutant: only what is not ordered counts as pending.
PendingOrderedOnly(b) == Path(ordered_root, b)

PendingBlocks(b) == Path(commit_root, b)

----------------------------------------------------------------------------
(* The certificates and blocks that arrive. *)

\* process_new_round_event in an own round: the task starts with the sync_info of this moment.
NewRound ==
  LET round == (IF hqc' > tc' THEN hqc' ELSE tc') + 1
  IN task' = IF round > CurrentRound /\ round \in Mine
             THEN [task EXCEPT ![round] = [pc |-> "start", hqc |-> hqc', tc |-> tc']] ELSE task

Tick == clock < MaxClock /\ clock' = clock + 1
        /\ UNCHANGED <<store, commits, generator, last_voted_round, lives, sent>>

\* insert_block, which waits until the time has passed the block's.
InsertBlock(r, parent, timestamp, payload) ==
  /\ r \notin DOMAIN blocks
  /\ clock > timestamp
  /\ blocks' = [b \in DOMAIN blocks \cup {r} |->
                  IF b # r THEN blocks[b]
                  ELSE [parent |-> parent, chain |-> blocks[parent].chain \cup {r},
                        timestamp |-> timestamp, payload |-> payload]]

\* The proposal of another validator, whose certificates are processed first.
PeerProposal(r) ==
  /\ r \in Rounds \ Mine /\ r >= CurrentRound
  /\ \E parent \in {b \in DOMAIN blocks : b < r /\ ordered_root \in blocks[b].chain} :
       /\ parent >= hqc
       /\ hqc' = parent
       /\ parent = r - 1 \/ r - 1 \in Timeouts
       /\ tc' = IF parent = r - 1 THEN tc ELSE r - 1
       /\ \E timestamp \in {t \in PeerTimes[r] : t > blocks[parent].timestamp}, payload \in SUBSET (Batches \cup Vtxns) :
            InsertBlock(r, parent, timestamp, payload)
  /\ NewRound
  /\ UNCHANGED <<clock, ordered_root, commits, last_round_generated, last_voted_round, lives, sent>>

\* A quorum certificate, of votes or in a message. Of two consecutive rounds the first is ordered.
QuorumCert(b) ==
  /\ b > hqc /\ ordered_root \in blocks[b].chain
  /\ hqc' = b
  /\ ordered_root' = IF blocks[b].parent = b - 1 /\ b - 1 > ordered_root THEN b - 1 ELSE ordered_root
  /\ UNCHANGED <<blocks, tc>>
  /\ NewRound
  /\ UNCHANGED <<clock, commits, last_round_generated, last_voted_round, lives, sent>>

\* A timeout certificate of the current round.
TimeoutCert ==
  /\ CurrentRound \in Timeouts
  /\ tc' = CurrentRound
  /\ UNCHANGED <<blocks, hqc, ordered_root>>
  /\ NewRound
  /\ UNCHANGED <<clock, commits, last_round_generated, last_voted_round, lives, sent>>

----------------------------------------------------------------------------
(* Commits: the quorum store is told first, then the root is raised. *)

\* notify_commit, which gives up on a channel that is full.
Commit(b) ==
  /\ committing = 0
  /\ b \in Path(commit_root, ordered_root)
  /\ committing' = b
  /\ notices' = IF Len(notices) < Capacity THEN Append(notices, Exclude(Path(commit_root, b)) \cap Batches)
                ELSE notices
  /\ UNCHANGED <<clock, store, commit_root, marked, generator, last_voted_round, lives, sent>>

\* commit_callback.
CommitCallback ==
  /\ committing # 0
  /\ commit_root' = committing
  /\ committing' = 0
  /\ UNCHANGED <<clock, store, notices, marked, generator, last_voted_round, lives, sent>>

HandleCommitNotification ==
  /\ notices # <<>>
  /\ marked' = marked \cup Head(notices)
  /\ notices' = Tail(notices)
  /\ UNCHANGED <<clock, store, commit_root, committing, generator, last_voted_round, lives, sent>>

\* receive_batches: a summary that comes late puts a batch that was committed among those to inline.
LateSummary(b) ==
  /\ AllowInline /\ b \in marked
  /\ marked' = marked \ {b}
  /\ UNCHANGED <<clock, store, commit_root, committing, notices, generator, last_voted_round, lives, sent>>

----------------------------------------------------------------------------
(* ProposalGenerator::generate_proposal, in the task of round r. *)

To(r, next) == task' = [task EXCEPT ![r] = next]

\* ensure_highest_quorum_cert.
EnsureHighestQuorumCert(r) == hqc < r

Start(r) ==
  /\ task[r].pc = "start"
  /\ IF last_round_generated < r
     THEN /\ last_round_generated' = r
          /\ To(r, IF EnsureHighestQuorumCert(r)
                   THEN [pc |-> "path", hqc |-> task[r].hqc, tc |-> task[r].tc, parent |-> hqc] ELSE Idle)
     ELSE To(r, Idle) /\ UNCHANGED last_round_generated
  /\ UNCHANGED <<clock, store, commits, last_voted_round, lives, sent>>

\* path_from_commit_root of the parent.
ReadPath(r) ==
  /\ task[r].pc = "path"
  /\ LET t == task[r]
     IN To(r, IF PathExists(commit_root, t.parent)
              THEN [pc |-> "root", hqc |-> t.hqc, tc |-> t.tc, parent |-> t.parent,
                    root |-> commit_root, exclude |-> Exclude(PendingBlocks(t.parent))]
              ELSE Idle)
  /\ UNCHANGED <<clock, store, commits, last_round_generated, last_voted_round, lives, sent>>

\* The commit root, read again, path_from_ordered_root, the time and the limits.
ReadRoot(r) ==
  /\ task[r].pc = "root"
  /\ LET t == task[r]
     IN IF PathExists(ordered_root, t.parent)
        THEN \E c \in Measured :
               To(r, [pc |-> "pull", hqc |-> t.hqc, tc |-> t.tc, parent |-> t.parent, root |-> t.root,
                      exclude |-> t.exclude \cup Exclude({commit_root}), timestamp |-> clock,
                      overrides |-> Overrides(c)])
        ELSE To(r, Idle)
  /\ UNCHANGED <<clock, store, commits, last_round_generated, last_voted_round, lives, sent>>

\* MixedPayloadClient: validator transactions come first, and count in the limits.
PullVtxns(t) == {v \in SUBSET (Vtxns \ t.exclude) : Cardinality(v) <= Min({MaxBlockTxns, MaxVtxns})}

\* QuorumStoreClient: batches without those that the proof manager knows to be committed.
PullBatches(t, vtxns) ==
  {b \in SUBSET (Batches \ (t.exclude \cup marked)) :
     Cardinality(b) <= CalculateMaxBlockSizes(t.overrides).txns - Cardinality(vtxns)}

\* transform_to_quorum_store_v2: how many of the batches will be executed.
LenForExecution(batches, execute) == Min({Cardinality(batches), execute})

\* pull_payload. The request or the answer may be lost.
Pull(r) ==
  /\ task[r].pc = "pull"
  /\ LET t == task[r]
     IN \/ \E vtxns \in PullVtxns(t) : \E batches \in PullBatches(t, vtxns) :
             To(r, [pc |-> "sign", hqc |-> t.hqc, tc |-> t.tc, parent |-> t.parent, root |-> t.root,
                    timestamp |-> t.timestamp, overrides |-> t.overrides, payload |-> vtxns \cup batches,
                    committed |-> marked,
                    execute |-> LenForExecution(batches, CalculateMaxBlockSizes(t.overrides).execute)])
        \/ To(r, Idle)
  /\ UNCHANGED <<clock, store, commits, last_round_generated, last_voted_round, lives, sent>>

\* The block with the certificates that go with it, and how it came about.
Proposal(r, t) ==
  [kind |-> "proposal", round |-> r, parent |-> t.parent, hqc |-> t.hqc, tc |-> t.tc, timestamp |-> t.timestamp,
   payload |-> t.payload, execute |-> t.execute, failed_authors |-> ComputeFailedAuthors(r, t.parent, FALSE),
   root |-> t.root, committed |-> t.committed, overrides |-> t.overrides, life |-> lives]

\* The rest of generate_proposal, sign_proposal and the broadcast.
Sign(r) ==
  /\ task[r].pc = "sign"
  /\ sent' = IF r > last_voted_round THEN sent \cup {Proposal(r, task[r])} ELSE sent
  /\ To(r, Idle)
  /\ UNCHANGED <<clock, store, commits, last_round_generated, last_voted_round, lives>>

----------------------------------------------------------------------------
(* What a receiver checks. *)

\* Block::verify_well_formed, of a block in the tree's terms.
BlockWellFormed(m) ==
  LET parent == blocks[m.parent]
      succ == IF m.kind = "nil" THEN m.round + 1 ELSE m.round
  IN /\ m.parent < m.round
     /\ \A f \in m.failed_authors : m.parent < f /\ f < succ
     /\ IF m.kind = "nil" THEN m.timestamp = parent.timestamp ELSE m.timestamp > parent.timestamp

\* ProposalMsg::verify_well_formed: the certificates sent with it.
SyncInfoMatches(m) ==
  /\ m.parent = m.hqc
  /\ m.round - 1 = (IF m.parent > m.tc THEN m.parent ELSE m.tc)

\* The validator gets its own proposal like everyone.
OwnProposal(m) ==
  /\ m.kind = "proposal" /\ m.round = CurrentRound
  /\ BlockWellFormed(m) /\ SyncInfoMatches(m)
  /\ InsertBlock(m.round, m.parent, m.timestamp, m.payload)
  /\ UNCHANGED <<clock, hqc, tc, ordered_root, commits, generator, last_voted_round, lives, sent>>

\* A vote for the block of the round.
Vote ==
  /\ CurrentRound \in DOMAIN blocks
  /\ last_voted_round < CurrentRound
  /\ last_voted_round' = CurrentRound
  /\ UNCHANGED <<clock, store, commits, generator, lives, sent>>

\* A timeout, for which generate_nil_block makes the block to vote for.
LocalTimeout ==
  /\ CurrentRound \in Timeouts
  /\ last_voted_round < CurrentRound
  /\ last_voted_round' = CurrentRound
  /\ sent' = sent \cup {[kind |-> "nil", round |-> CurrentRound, parent |-> hqc,
                         timestamp |-> blocks[hqc].timestamp,
                         failed_authors |-> ComputeFailedAuthors(CurrentRound, hqc, TRUE)]}
  /\ UNCHANGED <<clock, store, commits, generator, lives>>

\* What is in memory only is gone, and the round is entered anew.
Restart ==
  /\ lives <= MaxRestarts
  /\ lives' = lives + 1
  /\ task' = [r \in Mine |-> IF r = CurrentRound THEN [pc |-> "start", hqc |-> hqc, tc |-> tc] ELSE Idle]
  /\ last_round_generated' = 0
  /\ committing' = 0
  /\ notices' = <<>> /\ marked' = {}
  /\ UNCHANGED <<clock, store, commit_root, last_voted_round, sent>>

----------------------------------------------------------------------------
Init ==
  /\ clock = 1
  /\ blocks = [b \in {0} |-> [parent |-> 0, chain |-> {0}, timestamp |-> 0, payload |-> {}]]
  /\ hqc = 0 /\ tc = 0 /\ ordered_root = 0 /\ commit_root = 0
  /\ committing = 0
  /\ task = [r \in Mine |-> IF r = 1 THEN [pc |-> "start", hqc |-> 0, tc |-> 0] ELSE Idle]
  /\ last_round_generated = 0 /\ last_voted_round = 0
  /\ notices = <<>> /\ marked = {}
  /\ lives = 1 /\ sent = {}

Next ==
  \/ Tick \/ TimeoutCert \/ Vote \/ LocalTimeout \/ Restart
  \/ \E r \in Rounds : PeerProposal(r)
  \/ \E b \in DOMAIN blocks : QuorumCert(b) \/ Commit(b)
  \/ CommitCallback \/ HandleCommitNotification \/ \E b \in Batches : LateSummary(b)
  \/ \E r \in Mine : Start(r) \/ ReadPath(r) \/ ReadRoot(r) \/ Pull(r) \/ Sign(r)
  \/ \E m \in sent : OwnProposal(m)

Spec == Init /\ [][Next]_vars

----------------------------------------------------------------------------
\* What this validator proposes, or votes for on a timeout, the others accept, whatever arrived while it
\* was made: the time is later than the parent's although it was read later than the parent, the failed
\* authors are those of the last rounds skipped, no more are executed than each back pressure allows, and
\* the certificates sent along are those of the parent. Only in a round entered by a timeout certificate
\* may they not be: a late quorum certificate becomes the parent's and the message, with the sync_info
\* of before, is refused by everyone.
ProposalsAccepted ==
  \A m \in sent :
    /\ BlockWellFormed(m)
    /\ LET end == IF m.kind = "nil" THEN m.round ELSE m.round - 1
           skipped == end - m.parent
       IN /\ Cardinality(m.failed_authors) =
               (IF skipped < MaxFailedAuthorsToStore THEN skipped ELSE MaxFailedAuthorsToStore)
          /\ m.failed_authors # {} => end \in m.failed_authors
    /\ m.kind = "proposal" =>
         /\ SyncInfoMatches(m) \/ (m.tc = m.round - 1 /\ m.hqc < m.parent)
         /\ \A limit \in m.overrides : m.execute <= limit
         /\ Cardinality(m.payload) <= MaxBlockTxns

\* A proposal has nothing that a block has that it extends, unless that block was committed when the
\* path was read and, for batches, the proof manager had not been told of it when it answered.
NothingTwice ==
  \A m \in sent : m.kind = "proposal" =>
    \A b \in blocks[m.parent].chain : blocks[b].payload \cap m.payload # {} =>
      /\ b <= m.root
      /\ blocks[b].payload \cap m.payload \cap m.committed = {}

\* At most one proposal is made in a round, however often it is entered; only after a crash, which
\* forgets last_round_generated, may there be a second one.
OneProposalPerRound ==
  \A m, n \in sent : m.kind = "proposal" /\ n.kind = "proposal" /\ m.round = n.round /\ m.life = n.life => m = n
=============================================================================
