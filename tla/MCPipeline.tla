---------------------------- MODULE MCPipeline ------------------------------
(* What happens to ordered blocks, and to transactions on their way to execution, for TLC: in *)
(* each behaviour one instance of one component, as `scenario` says. Commit votes of two      *)
(* rounds; randomness for two rounds on one path and for one round on both; the keys that     *)
(* randomness needs, certified by four validators of which v4 is Byzantine; and the buffer    *)
(* of transactions with up to three batches.                                                  *)
EXTENDS AugDataStore, Integers, Sequences, FiniteSets, TLC

CONSTANTS v1, v2, v3, v4, v5, w1

VARIABLES
  scenario,     \* the component, and the instance of it, that this behaviour is about
  buffer, next_round, signing_root, signing, commit_vote_cache, pending_commit_proofs,
  highest_committed_round, latest_round, persisting, persisted, votes, decided, root, resets,
  failed,
  txns, pushed, popped, last, buffer_state, initialised, enabled, notified, init_pc, pc,
  apks, randManager_certified, incoming_blocks, reset_rx, stop, rand_map, highest_known_round,
  jobs, queue, highest_dequeued_round, tasks, sent, outgoing, randManager_root,
  randManager_resets, panicked

Symmetry == Permutations({v2, v3})

CommitVotesVars ==
  <<buffer, next_round, signing_root, signing, commit_vote_cache, pending_commit_proofs,
    highest_committed_round, latest_round, persisting, persisted, votes, decided, root, resets,
    failed>>
TxnBufferVars ==
  <<txns, pushed, popped, last, buffer_state, initialised, enabled, notified, init_pc, pc>>
RandManagerVars ==
  <<apks, randManager_certified, incoming_blocks, reset_rx, stop, rand_map,
    highest_known_round, jobs, queue, highest_dequeued_round, tasks, sent, outgoing,
    randManager_root, randManager_resets, panicked>>
mcvars == <<scenario, CommitVotesVars, TxnBufferVars, RandManagerVars, vars>>

\* A component that is not looked at stays in its initial state or keeps this value in its
\* variables.
Unused == "unused"
NoCommitVotes ==
  /\ buffer = Unused /\ next_round = Unused /\ signing_root = Unused /\ signing = Unused
  /\ commit_vote_cache = Unused /\ pending_commit_proofs = Unused /\ highest_committed_round = Unused /\ latest_round = Unused
  /\ persisting = Unused /\ persisted = Unused /\ votes = Unused /\ decided = Unused
  /\ root = Unused /\ resets = Unused /\ failed = Unused
NoTxnBuffer ==
  /\ txns = Unused /\ pushed = Unused /\ popped = Unused /\ last = Unused
  /\ buffer_state = Unused /\ initialised = Unused /\ enabled = Unused /\ notified = Unused
  /\ init_pc = Unused /\ pc = Unused
NoRandManager ==
  /\ apks = Unused /\ randManager_certified = Unused /\ incoming_blocks = Unused /\ reset_rx = Unused
  /\ stop = Unused /\ rand_map = Unused /\ highest_known_round = Unused /\ jobs = Unused
  /\ queue = Unused /\ highest_dequeued_round = Unused /\ tasks = Unused /\ sent = Unused
  /\ outgoing = Unused /\ randManager_root = Unused /\ randManager_resets = Unused /\ panicked = Unused

Votes == INSTANCE CommitVotes WITH
  Honest <- {v5}, Byzantine <- {v4}, Self <- v1, Quorum <- 2, Window <- 3, MaxIds <- 1,
  MaxPending <- 1, MaxBacklog <- 5, MaxResets <- 0, MaxFailures <- 0, OtherBlocks <- {},
  MaxRound <- 2
OtherBlock == INSTANCE CommitVotes WITH
  Honest <- {v5}, Byzantine <- {v4}, Self <- v1, Quorum <- 2, Window <- 3, MaxIds <- 1,
  MaxPending <- 1, MaxBacklog <- 5, MaxResets <- 0, MaxFailures <- 0, OtherBlocks <- {"other"},
  MaxRound <- 1
Buffer == INSTANCE TxnBuffer WITH
  Waiters <- {w1}, GasLimits <- {0, 2, 3, 7}, BlockGas <- {0, 5, 6},
  BlockSizes <- {0, 1, 2, 3}, MaxBatches <- 3
Order == INSTANCE RandManager WITH
  Authors <- {v1, v2, v3}, Self <- v1, Weight <- [a \in {v1, v2, v3} |-> 1],
  Threshold <- "Slow" :> 2 @@ "Fast" :> 3, FutureRounds <- 1, Paths <- {"Slow"}, MaxRound <- 2,
  MaxResets <- 1, certified <- randManager_certified, root <- randManager_root,
  resets <- randManager_resets
Shares == INSTANCE RandManager WITH
  Authors <- {v1, v2, v3}, Self <- v1, Weight <- [a \in {v1, v2, v3} |-> 1],
  Threshold <- "Slow" :> 2 @@ "Fast" :> 3, FutureRounds <- 1, Paths <- {"Slow", "Fast"},
  MaxRound <- 1, MaxResets <- 2, certified <- randManager_certified, root <- randManager_root,
  resets <- randManager_resets
KeysValidators == {v1, v2, v3, v4}
KeysByzantine == {v4}
KeysAuthors == {v1, v4}
KeysQuorums == {Q \in SUBSET {v1, v2, v3, v4} : Cardinality(Q) >= 3}
KeysKeys == {1, 2}

\* What the theorems about these components assume holds of the instances here.
ASSUME KeysAreKeys /\ QuorumsIntersect

----------------------------------------------------------------------------
MCInit ==
  \/ scenario = "Votes" /\ Votes!Init /\ NoTxnBuffer /\ NoRandManager /\ Init
  \/ scenario = "OtherBlock" /\ OtherBlock!Init /\ NoTxnBuffer /\ NoRandManager /\ Init
  \/ scenario = "Buffer" /\ Buffer!Init /\ NoCommitVotes /\ NoRandManager /\ Init
  \/ scenario = "Order" /\ Order!Init /\ NoCommitVotes /\ NoTxnBuffer /\ Init
  \/ scenario = "Shares" /\ Shares!Init /\ NoCommitVotes /\ NoTxnBuffer /\ Init
  \/ scenario = "Keys" /\ Init /\ NoCommitVotes /\ NoTxnBuffer /\ NoRandManager

MCNext ==
  /\ UNCHANGED scenario
  /\ \/ scenario = "Votes" /\ Votes!Next /\ UNCHANGED <<TxnBufferVars, RandManagerVars, vars>>
     \/ scenario = "OtherBlock" /\ OtherBlock!Next /\ UNCHANGED <<TxnBufferVars, RandManagerVars, vars>>
     \/ scenario = "Buffer" /\ Buffer!Next /\ UNCHANGED <<CommitVotesVars, RandManagerVars, vars>>
     \/ scenario = "Order" /\ Order!Next /\ UNCHANGED <<CommitVotesVars, TxnBufferVars, vars>>
     \/ scenario = "Shares" /\ Shares!Next /\ UNCHANGED <<CommitVotesVars, TxnBufferVars, vars>>
     \/ scenario = "Keys" /\ Next /\ UNCHANGED <<CommitVotesVars, TxnBufferVars, RandManagerVars>>

MCSpec == MCInit /\ [][MCNext]_mcvars

----------------------------------------------------------------------------
\* A block is committed with a decision or with a quorum of signatures of the commit info our own
\* execution gave, although votes that come early cannot be checked; a vote that was acknowledged,
\* and will not be sent again, is kept until its round is committed; and the signing root is in
\* the buffer (add_signature_if_matched, drain_cached_commit_votes, advance_head). Blocks leave with
\* randomness in the order they were sent, whichever resets come between; a block in the queue has
\* its randomness coming, by a share to come, an aggregation or a decision; and an aggregation has
\* our own share and the certified key of every share in it (try_aggregate, process_ready_blocks,
\* RandStore::reset). pop_txns takes the longest run of batches within the size and the gas limit,
\* or a first batch that is over the gas limit alone; transactions leave in the order they came; and
\* a caller of wait_until_ready goes on only when init has assigned everything.
PipelineCorrect ==
  /\ scenario = "Votes" =>
       /\ Votes!TypeOK
       /\ Votes!CommittedWithQuorum
       /\ Votes!AckedVoteIsKept
       /\ Votes!SigningRootInBuffer
  /\ scenario = "OtherBlock" =>
       /\ OtherBlock!TypeOK
       /\ OtherBlock!CommittedWithQuorum
       /\ OtherBlock!AckedVoteIsKept
       /\ OtherBlock!SigningRootInBuffer
  /\ scenario = "Buffer" =>
       /\ Buffer!TypeOK
       /\ Buffer!LargestPrefix
       /\ Buffer!InOrder
       /\ Buffer!ReadyMeansInitialised
  /\ scenario = "Order" => Order!TypeOK /\ Order!BlocksInOrder /\ Order!QueuedBlockProgresses
  /\ scenario = "Shares" =>
       /\ Shares!TypeOK
       /\ Shares!AggregatesWithSelfShare
       /\ Shares!AggregationHasKeys
=============================================================================
