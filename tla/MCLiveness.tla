---------------------------- MODULE MCLiveness ------------------------------
(* What must happen in the end, for TLC: in each behaviour one component, as `scenario` says.  *)
(* A reader of a batch that asks the signers; a batch that finds no quorum; randomness with   *)
(* shares that come only when asked for; commits with a failure and with back pressure; and   *)
(* the start of the block buffer manager.                                                     *)
EXTENDS Integers, Sequences, FiniteSets, TLC

CONSTANTS d1, w1, r1, alice, me, v1, v2

VARIABLES
  scenario,     \* the component, and the instance of it, that this behaviour is about
  last_certified_time, db_cache, peer_quota, expirations, db, subscribers, task, request,
  answer, signed, clear,
  batch_id, db_batch_id, batches, in_progress, txn_count, committed_txns, batch_expirations,
  latest_block_timestamp, bucketing, proofs, times, timeouts, proved, commands,
  apks, certified, incoming_blocks, reset_rx, stop, rand_map, highest_known_round, jobs, queue,
  highest_dequeued_round, tasks, sent, outgoing, root, resets, panicked,
  buffer, next_round, signing_root, signing, commit_vote_cache, pending_commit_proofs,
  highest_committed_round, latest_round, persisting, persisted, votes, decided,
  commitVotes_root, commitVotes_resets, failed,
  txns, pushed, popped, last, buffer_state, initialised, enabled, notified, init_pc, pc

BatchStoreVars ==
  <<last_certified_time, db_cache, peer_quota, expirations, db, subscribers, task, request,
    answer, signed, clear>>
BatchGeneratorVars ==
  <<batch_id, db_batch_id, batches, in_progress, txn_count, committed_txns, batch_expirations,
    latest_block_timestamp, bucketing, proofs, times, timeouts, proved, commands>>
RandManagerVars ==
  <<apks, certified, incoming_blocks, reset_rx, stop, rand_map, highest_known_round, jobs,
    queue, highest_dequeued_round, tasks, sent, outgoing, root, resets, panicked>>
CommitVotesVars ==
  <<buffer, next_round, signing_root, signing, commit_vote_cache, pending_commit_proofs,
    highest_committed_round, latest_round, persisting, persisted, votes, decided,
    commitVotes_root, commitVotes_resets, failed>>
TxnBufferVars ==
  <<txns, pushed, popped, last, buffer_state, initialised, enabled, notified, init_pc, pc>>
vars == <<scenario, BatchStoreVars, BatchGeneratorVars, RandManagerVars, CommitVotesVars, TxnBufferVars>>

\* A component that is not looked at keeps this value in its variables.
Unused == "unused"
NoBatchStore ==
  /\ last_certified_time = Unused /\ db_cache = Unused /\ peer_quota = Unused /\ expirations = Unused
  /\ db = Unused /\ subscribers = Unused /\ task = Unused /\ request = Unused
  /\ answer = Unused /\ signed = Unused /\ clear = Unused
NoBatchGenerator ==
  /\ batch_id = Unused /\ db_batch_id = Unused /\ batches = Unused /\ in_progress = Unused
  /\ txn_count = Unused /\ committed_txns = Unused /\ batch_expirations = Unused /\ latest_block_timestamp = Unused
  /\ bucketing = Unused /\ proofs = Unused /\ times = Unused /\ timeouts = Unused
  /\ proved = Unused /\ commands = Unused
NoRandManager ==
  /\ apks = Unused /\ certified = Unused /\ incoming_blocks = Unused /\ reset_rx = Unused
  /\ stop = Unused /\ rand_map = Unused /\ highest_known_round = Unused /\ jobs = Unused
  /\ queue = Unused /\ highest_dequeued_round = Unused /\ tasks = Unused /\ sent = Unused
  /\ outgoing = Unused /\ root = Unused /\ resets = Unused /\ panicked = Unused
NoCommitVotes ==
  /\ buffer = Unused /\ next_round = Unused /\ signing_root = Unused /\ signing = Unused
  /\ commit_vote_cache = Unused /\ pending_commit_proofs = Unused /\ highest_committed_round = Unused /\ latest_round = Unused
  /\ persisting = Unused /\ persisted = Unused /\ votes = Unused /\ decided = Unused
  /\ commitVotes_root = Unused /\ commitVotes_resets = Unused /\ failed = Unused
NoTxnBuffer ==
  /\ txns = Unused /\ pushed = Unused /\ popped = Unused /\ last = Unused
  /\ buffer_state = Unused /\ initialised = Unused /\ enabled = Unused /\ notified = Unused
  /\ init_pc = Unused /\ pc = Unused

Readers == INSTANCE BatchStore WITH
  Digests <- {d1}, Author <- [d \in {d1} |-> alice], NumBytes <- [d \in {d1} |-> 1],
  MaxTime <- 1, MemoryQuota <- 0, DbQuota <- 1, BatchQuota <- 1, Writers <- {w1},
  Readers <- {r1}, Signers <- 2, RequestNumPeers <- 1, RetryLimit <- 2
Generator == INSTANCE BatchGenerator WITH
  Txns <- {1, 2}, Gas <- <<2, 1, 1>>, TxnBytes <- <<1, 1, 3>>, Buckets <- <<2, 0>>,
  MaxBatchTxns <- 2, MaxBatchBytes <- 2, MaxNumBatches <- 2, RemoteBatches <- <<>>,
  Power <- me :> 1 @@ v2 :> 1, QuorumPower <- 2, ChannelSize <- 1, MaxId <- 1, MaxTime <- 1
Randomness == INSTANCE RandManager WITH
  Authors <- {v1, v2}, Self <- v1, Weight <- [a \in {v1, v2} |-> 1],
  Threshold <- "Slow" :> 2 @@ "Fast" :> 2, Paths <- {"Slow"}, FutureRounds <- 1, MaxRound <- 2,
  MaxResets <- 1
Commit == INSTANCE CommitVotes WITH
  Honest <- {v2}, Byzantine <- {}, Self <- v1, Quorum <- 2, OtherBlocks <- {}, Window <- 2,
  MaxIds <- 1, MaxPending <- 1, MaxBacklog <- 1, MaxRound <- 2, MaxResets <- 0,
  MaxFailures <- 1, root <- commitVotes_root, resets <- commitVotes_resets
Backlog == INSTANCE CommitVotes WITH
  Honest <- {v2}, Byzantine <- {}, Self <- v1, Quorum <- 2, OtherBlocks <- {}, Window <- 2,
  MaxIds <- 1, MaxPending <- 1, MaxBacklog <- 0, MaxRound <- 2, MaxResets <- 1,
  MaxFailures <- 0, root <- commitVotes_root, resets <- commitVotes_resets
Buffer == INSTANCE TxnBuffer WITH
  Waiters <- {w1}, GasLimits <- {3, 7}, BlockGas <- {5}, BlockSizes <- {0, 1}, MaxBatches <- 2

----------------------------------------------------------------------------
Init ==
  \/ scenario = "Readers" /\ Readers!Init /\ NoBatchGenerator /\ NoRandManager /\ NoCommitVotes /\ NoTxnBuffer
  \/ scenario = "Generator" /\ Generator!Init /\ NoBatchStore /\ NoRandManager /\ NoCommitVotes /\ NoTxnBuffer
  \/ scenario = "Randomness" /\ Randomness!Init /\ NoBatchStore /\ NoBatchGenerator /\ NoCommitVotes /\ NoTxnBuffer
  \/ scenario = "Commit" /\ Commit!Init /\ NoBatchStore /\ NoBatchGenerator /\ NoRandManager /\ NoTxnBuffer
  \/ scenario = "Backlog" /\ Backlog!Init /\ NoBatchStore /\ NoBatchGenerator /\ NoRandManager /\ NoTxnBuffer
  \/ scenario = "Buffer" /\ Buffer!Init /\ NoBatchStore /\ NoBatchGenerator /\ NoRandManager /\ NoCommitVotes

Next ==
  /\ UNCHANGED scenario
  /\ \/ scenario = "Readers" /\ Readers!Next /\ UNCHANGED <<BatchGeneratorVars, RandManagerVars, CommitVotesVars, TxnBufferVars>>
     \/ scenario = "Generator" /\ Generator!Next /\ UNCHANGED <<BatchStoreVars, RandManagerVars, CommitVotesVars, TxnBufferVars>>
     \/ scenario = "Randomness" /\ Randomness!Next /\ UNCHANGED <<BatchStoreVars, BatchGeneratorVars, CommitVotesVars, TxnBufferVars>>
     \/ scenario = "Commit" /\ Commit!Next /\ UNCHANGED <<BatchStoreVars, BatchGeneratorVars, RandManagerVars, TxnBufferVars>>
     \/ scenario = "Backlog" /\ Backlog!Next /\ UNCHANGED <<BatchStoreVars, BatchGeneratorVars, RandManagerVars, TxnBufferVars>>
     \/ scenario = "Buffer" /\ Buffer!Next /\ UNCHANGED <<BatchStoreVars, BatchGeneratorVars, RandManagerVars, CommitVotesVars>>

Spec == Init /\ [][Next]_vars

\* The fairness of each component, where the component is the one looked at.
ReadersFairness ==
  /\ \A t \in Readers!Tasks : WF_BatchStoreVars(scenario = "Readers" /\ Readers!PersistStep(t))
  /\ WF_BatchStoreVars(scenario = "Readers" /\ Readers!ReaderStep(r1))

GeneratorFairness ==
  /\ WF_BatchGeneratorVars(scenario = "Generator" /\ Generator!GeneratorStep)
  /\ WF_BatchGeneratorVars(scenario = "Generator" /\ Generator!Timer)

RandomnessFairness ==
  /\ WF_RandManagerVars(scenario = "Randomness" /\ Randomness!ProcessIncomingBlocks)
  /\ WF_RandManagerVars(scenario = "Randomness" /\ Randomness!ProcessReset)
  /\ \A r \in Randomness!Rounds : WF_RandManagerVars(scenario = "Randomness" /\ \E job \in jobs : job.round = r /\ Randomness!ProcessRandomness(job))
  /\ \A r \in Randomness!Rounds : WF_RandManagerVars(scenario = "Randomness" /\ Randomness!WakeTask(r))
  /\ \A r \in Randomness!Rounds : WF_RandManagerVars(scenario = "Randomness" /\ Randomness!LookUpShares(r, "woken"))
  /\ \A r \in Randomness!Rounds : WF_RandManagerVars(scenario = "Randomness" /\ Randomness!ShareResponse(r, v2))
  /\ \A a \in {v1, v2} : WF_RandManagerVars(scenario = "Randomness" /\ Randomness!HandleCertifiedAugData(a))

CommitFairness ==
  /\ WF_CommitVotesVars(scenario = "Commit" /\ Commit!ProcessOrderedBlocks)
  /\ WF_CommitVotesVars(scenario = "Commit" /\ \E i \in DOMAIN buffer : Commit!ProcessExecutionResponse(i))
  /\ \A a \in {v1, v2}, r \in Commit!Rounds : WF_CommitVotesVars(scenario = "Commit" /\ Commit!Rebroadcast(a, r))
  /\ WF_CommitVotesVars(scenario = "Commit" /\ Commit!Persist(TRUE))
  /\ WF_CommitVotesVars(scenario = "Commit" /\ Commit!ProcessPersisted)
  /\ WF_CommitVotesVars(scenario = "Commit" /\ Commit!OthersDecideWithUs)
  /\ \A r \in Commit!Rounds : WF_CommitVotesVars(scenario = "Commit" /\ Commit!ProcessSigningResponse(r, TRUE))
  /\ \A a \in {v1, v2}, r \in Commit!Rounds : WF_CommitVotesVars(scenario = "Commit" /\ Commit!HonestVote(a, r))
  /\ WF_CommitVotesVars(scenario = "Commit" /\ decided > 0 /\ Commit!CommitDecision(decided))

BacklogFairness ==
  /\ WF_CommitVotesVars(scenario = "Backlog" /\ Backlog!ProcessOrderedBlocks)
  /\ WF_CommitVotesVars(scenario = "Backlog" /\ \E i \in DOMAIN buffer : Backlog!ProcessExecutionResponse(i))
  /\ \A a \in {v1, v2}, r \in Backlog!Rounds : WF_CommitVotesVars(scenario = "Backlog" /\ Backlog!Rebroadcast(a, r))
  /\ WF_CommitVotesVars(scenario = "Backlog" /\ Backlog!Persist(TRUE))
  /\ WF_CommitVotesVars(scenario = "Backlog" /\ Backlog!ProcessPersisted)
  /\ WF_CommitVotesVars(scenario = "Backlog" /\ Backlog!OthersDecideWithUs)
  /\ \A r \in Backlog!Rounds : WF_CommitVotesVars(scenario = "Backlog" /\ Backlog!ProcessSigningResponse(r, TRUE))
  /\ \A a \in {v1, v2}, r \in Backlog!Rounds : WF_CommitVotesVars(scenario = "Backlog" /\ Backlog!HonestVote(a, r))
  /\ WF_CommitVotesVars(scenario = "Backlog" /\ decided > 0 /\ Backlog!CommitDecision(decided))

BufferFairness ==
  /\ WF_TxnBufferVars(scenario = "Buffer" /\ Buffer!InitFields)
  /\ WF_TxnBufferVars(scenario = "Buffer" /\ Buffer!InitStore)
  /\ WF_TxnBufferVars(scenario = "Buffer" /\ Buffer!InitNotify)
  /\ WF_TxnBufferVars(scenario = "Buffer" /\ (Buffer!Check(w1) \/ Buffer!Enable(w1) \/ Buffer!Recheck(w1) \/ Buffer!Await(w1)))
  /\ WF_TxnBufferVars(scenario = "Buffer" /\ \E gas_limit \in {5} : Buffer!PopTxns(1, gas_limit))

FairSpec ==
  /\ Spec
  /\ ReadersFairness /\ GeneratorFairness /\ RandomnessFairness
  /\ CommitFairness /\ BacklogFairness /\ BufferFairness

----------------------------------------------------------------------------
\* A reader of a batch is answered by the batch or by an error, whatever the signers do, it misses
\* no batch that is persisted while it subscribes, and it gives up only when it has asked every
\* signer (BatchStore::get_batch, BatchRequester::request_batch); a batch whose proof does not complete is given up, so that its
\* transactions can be pulled again (ProofCoordinator::expire, BatchGenerator::start).
QuorumStoreProgress ==
  /\ (scenario = "Readers" /\ task[r1].pc = "subscribe") ~> (scenario = "Readers" /\ answer[r1] # "none")
  /\ \A id \in Generator!Ids :
       (scenario = "Generator" /\ id \in DOMAIN proofs \cap DOMAIN in_progress) ~>
         (scenario = "Generator" /\ (id \in proved \/ id \notin DOMAIN in_progress))
  /\ [](scenario = "Readers" => Readers!NoLostNotification)
  /\ [][scenario = "Readers" => Readers!AsksSigners]_vars

\* Every block that was sent leaves with randomness or is dropped by a reset, although shares that
\* nobody asked for may be lost (RandManager::start); and every round is committed, with back
\* pressure, with a failure of the persisting phase, and whichever votes were refused before the
\* others committed and stopped sending theirs (a failure of the last round stays). No waiter
\* misses the notification of init, wherever init is between its two looks at the state
\* (wait_until_ready); and every batch of transactions is popped, one over every limit included.
PipelineProgress ==
  /\ \A r \in Randomness!Rounds :
       (scenario = "Randomness" /\ \E k \in 1 .. Len(sent) : r \in sent[k]) ~>
         (scenario = "Randomness" /\ (stop \/ reset_rx # {} \/ \E k \in 1 .. Len(outgoing) : r \in outgoing[k]))
  /\ (scenario = "Commit") ~> (scenario = "Commit" /\ Commit!AllCommitted)
  /\ (scenario = "Backlog") ~> (scenario = "Backlog" /\ Backlog!AllCommitted)
  /\ (scenario = "Buffer") ~> (scenario = "Buffer" /\ pc[w1] = "done")
  /\ \A id \in Buffer!Ids :
       (scenario = "Buffer" /\ pushed >= id) ~> (scenario = "Buffer" /\ \E i \in DOMAIN popped : popped[i] = id)
=============================================================================
