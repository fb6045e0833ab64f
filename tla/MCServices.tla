---------------------------- MODULE MCServices ------------------------------
(* The services around consensus for TLC: in each behaviour one of them, as `scenario` says.   *)
(* The quorum store with two batches of one author and small quotas, with three batches of two *)
(* authors that share a transaction, and with three transactions in two gas buckets; the epoch *)
(* manager through three epochs; the retrieval of a chain of four blocks from two peers; and   *)
(* the shuffle of blocks of three, five and six transactions, named in order of first use. And *)
(* the proposals of a validator: Late, in a round that may be entered by a timeout; Commits,   *)
(* while two blocks are committed; and Crash, in two rounds of its own. And the batches of one *)
(* block, fetched for the vote and for execution, Fetched, or after a restart, Recovery.       *)
EXTENDS BatchStore, EpochManager, Integers, Sequences, FiniteSets, TLC

CONSTANTS d1, d2, w1, w2, alice, me, peer, t1, t2, t3, r1, v2

VARIABLES
  scenario,     \* the component, and the instance of it, that this behaviour is about
  queued, batch_to_proof, occurrences, summaries, proofQueue_expirations,
  latest_block_timestamp, remaining, batch_queue, back_pressure, pull, committed_ever,
  batch_id, db_batch_id, batches, in_progress, txn_count, committed_txns, batch_expirations,
  batchGenerator_latest_block_timestamp, bucketing, batchGenerator_proofs, times, timeouts,
  proved, commands,
  stores, retrieval, chunk,
  config, block, pc, txns, input, output, result, start_index, senders_in_window,
  txns_by_senders, ordered_txns, input_idx, output_idx, accounts, use_cases,
  use_cases_by_delay, account_placeholders, use_case_placeholders, failed,
  clock, blocks, hqc, tc, ordered_root, commit_root, committing, proposalGenerator_task,
  last_round_generated, last_voted_round, notices, marked, lives, sent,
  status, prefetch, reader, stored, proposal, cancelled, returned, payloadManager_failures,
  attempts

\* What a proposer measures: nothing unusual, and back pressure of each kind.
Relaxed == [power |-> 100, latency |-> 0, sizes |-> <<>>]
Pressed == [power |-> 70, latency |-> 9, sizes |-> <<1, 2>>]

StoreOf(low, high, certified, ledger) ==
  [low |-> low, high |-> high, certified |-> certified, ledger |-> ledger]

ConfigOf(kind, dedup, sender, platform, user, limit) ==
  [kind |-> kind, dedup |-> dedup, sender |-> sender, platform |-> platform, user |-> user, limit |-> limit]

Named(n, m) ==
  {f \in [1 .. n -> 1 .. m] : \A i \in 1 .. n : f[i] = 1 \/ \E j \in 1 .. i - 1 : f[j] = f[i] - 1}

TxnOf(s, q, k, d) == [sender |-> s, seq |-> q, use_case |-> k, id |-> d]
BlockOf(f, g) == [i \in DOMAIN f |-> TxnOf(f[i], i, g[i], 1)]

ProofQueueVars ==
  <<queued, batch_to_proof, occurrences, summaries, proofQueue_expirations,
    latest_block_timestamp, remaining, batch_queue, back_pressure, pull, committed_ever>>
BatchGeneratorVars ==
  <<batch_id, db_batch_id, batches, in_progress, txn_count, committed_txns, batch_expirations,
    batchGenerator_latest_block_timestamp, bucketing, batchGenerator_proofs, times, timeouts,
    proved, commands>>
BlockRetrievalVars == <<stores, retrieval, chunk>>
TransactionShufflerVars ==
  <<config, block, pc, txns, input, output, result, start_index, senders_in_window,
    txns_by_senders, ordered_txns, input_idx, output_idx, accounts, use_cases,
    use_cases_by_delay, account_placeholders, use_case_placeholders, failed>>
ProposalGeneratorVars ==
  <<clock, blocks, hqc, tc, ordered_root, commit_root, committing, proposalGenerator_task,
    last_round_generated, last_voted_round, notices, marked, lives, sent>>
PayloadManagerVars ==
  <<status, prefetch, reader, stored, proposal, cancelled, returned, payloadManager_failures,
    attempts>>
mcvars == <<scenario, vars, ProofQueueVars, BatchGeneratorVars, emVars, BlockRetrievalVars, TransactionShufflerVars, ProposalGeneratorVars, PayloadManagerVars>>

\* A component that is not looked at stays in its initial state or keeps this value in its
\* variables.
Unused == "unused"
NoProofQueue ==
  /\ queued = Unused /\ batch_to_proof = Unused /\ occurrences = Unused /\ summaries = Unused
  /\ proofQueue_expirations = Unused /\ latest_block_timestamp = Unused /\ remaining = Unused /\ batch_queue = Unused
  /\ back_pressure = Unused /\ pull = Unused /\ committed_ever = Unused
NoBatchGenerator ==
  /\ batch_id = Unused /\ db_batch_id = Unused /\ batches = Unused /\ in_progress = Unused
  /\ txn_count = Unused /\ committed_txns = Unused /\ batch_expirations = Unused /\ batchGenerator_latest_block_timestamp = Unused
  /\ bucketing = Unused /\ batchGenerator_proofs = Unused /\ times = Unused /\ timeouts = Unused
  /\ proved = Unused /\ commands = Unused
NoBlockRetrieval ==
  /\ stores = Unused /\ retrieval = Unused /\ chunk = Unused
NoTransactionShuffler ==
  /\ config = Unused /\ block = Unused /\ pc = Unused /\ txns = Unused
  /\ input = Unused /\ output = Unused /\ result = Unused /\ start_index = Unused
  /\ senders_in_window = Unused /\ txns_by_senders = Unused /\ ordered_txns = Unused /\ input_idx = Unused
  /\ output_idx = Unused /\ accounts = Unused /\ use_cases = Unused /\ use_cases_by_delay = Unused
  /\ account_placeholders = Unused /\ use_case_placeholders = Unused /\ failed = Unused
NoProposalGenerator ==
  /\ clock = Unused /\ blocks = Unused /\ hqc = Unused /\ tc = Unused
  /\ ordered_root = Unused /\ commit_root = Unused /\ committing = Unused /\ proposalGenerator_task = Unused
  /\ last_round_generated = Unused /\ last_voted_round = Unused /\ notices = Unused /\ marked = Unused
  /\ lives = Unused /\ sent = Unused
NoPayloadManager ==
  /\ status = Unused /\ prefetch = Unused /\ reader = Unused /\ stored = Unused
  /\ proposal = Unused /\ cancelled = Unused /\ returned = Unused /\ payloadManager_failures = Unused
  /\ attempts = Unused

CacheDigests == {d1, d2}
CacheAuthor == [d \in {d1, d2} |-> alice]
CacheNumBytes == [d \in {d1, d2} |-> 1]
CacheWriters == {w1, w2}
CacheReaders == {}
Queue == INSTANCE ProofQueue WITH
  Batches <- 1 .. 3, Author <- <<me, me, peer>>, Gas <- <<0, 1, 0>>, NumBytes <- <<1, 2, 1>>,
  Txns <- <<{t1}, {t1, t2}, {t2, t3}>>, Expiration <- <<1, 2, 2>>,
  TxnExpiration <- [t \in {t1, t2, t3} |-> IF t = t3 THEN 1 ELSE 3], Me <- me, MaxTime <- 1,
  MaxTxns <- 5, MaxUnique <- 3, SoftMaxUnique <- 3, MaxBytes <- 3, MaxInlineTxns <- 2,
  MaxInlineBytes <- 2, AllowInline <- TRUE, TxnLimit <- 1, ProofLimit <- 1,
  expirations <- proofQueue_expirations
Generator == INSTANCE BatchGenerator WITH
  Txns <- {1, 2, 3}, Gas <- <<2, 1, 1>>, TxnBytes <- <<1, 1, 3>>, Buckets <- <<2, 0>>,
  MaxBatchTxns <- 2, MaxBatchBytes <- 2, MaxNumBatches <- 2, RemoteBatches <- r1 :> {2},
  Power <- me :> 1 @@ v2 :> 1, QuorumPower <- 2, ChannelSize <- 1, MaxId <- 2, MaxTime <- 1,
  latest_block_timestamp <- batchGenerator_latest_block_timestamp,
  proofs <- batchGenerator_proofs
EpochsValidatorEpochs == {1, 3}
EpochsSenders == {peer}
Retrieval == INSTANCE BlockRetrieval WITH
  Rounds <- <<1, 2, 4, 5>>, LedgerInfoBlocks <- {1, 3},
  InitialStores <- {StoreOf(1, 4, 4, 3), StoreOf(1, 4, 3, 1), StoreOf(2, 4, 4, 3), StoreOf(1, 3, 2, 1)},
  PeersOfCert <- {me, peer}, PreferredPeer <- me, MaxBlocksToRequest <- 2, NumRetries <- 3
Shuffle == INSTANCE TransactionShuffler WITH
  Inputs <- [config : {ConfigOf("SenderAware", TRUE, 1, 0, 0, 9), ConfigOf("SenderAware", FALSE, 2, 0, 0, 3)},
    block : {BlockOf(f, [i \in 1 .. 6 |-> 1]) : f \in Named(6, 3)}]
   \cup [config : {ConfigOf("UseCaseAware", FALSE, 2, 0, 1, 9), ConfigOf("UseCaseAware", FALSE, 1, 1, 2, 9)},
         block : {BlockOf(f, [i \in 1 .. 5 |-> g[i] % 3]) : f \in Named(5, 3), g \in Named(5, 3)}]
   \cup [config : {ConfigOf("None", TRUE, 0, 0, 0, 9), ConfigOf("SenderAware", FALSE, 1, 0, 0, 2)},
         block : [1 .. 3 -> {TxnOf(1, q, 1, d) : q \in {1, 2}, d \in {1, 2}}]],
  Refused <- {TxnOf(2, 2, 0, 1)}, Platform <- 0
Late == INSTANCE ProposalGenerator WITH
  MaxRound <- 3, Mine <- {3}, Batches <- {d1}, Vtxns <- {v2}, MaxFailedAuthorsToStore <- 1,
  MaxBlockTxns <- 2, MinBlockTxns <- 2, MaxVtxns <- 1, ChainHealth <- [k \in {80} |-> 1],
  PipelineLatency <- [k \in {5} |-> 1], MinBlocks <- 2, Percentile <- 50, MinCalibrated <- 1,
  Conditions <- {Pressed}, AllowInline <- FALSE, Capacity <- 1,
  PeerTimes <- [r \in 1 .. 2 |-> {1, 2}], Timeouts <- {1, 2}, MaxClock <- 3, MaxRestarts <- 0,
  task <- proposalGenerator_task
Commits == INSTANCE ProposalGenerator WITH
  MaxRound <- 4, Mine <- {4}, Batches <- {d1}, Vtxns <- {v2}, MaxFailedAuthorsToStore <- 1,
  MaxBlockTxns <- 2, MinBlockTxns <- 2, MaxVtxns <- 1, ChainHealth <- [k \in {80} |-> 1],
  PipelineLatency <- [k \in {5} |-> 1], MinBlocks <- 2, Percentile <- 50, MinCalibrated <- 1,
  Conditions <- {Pressed}, AllowInline <- TRUE, Capacity <- 1,
  PeerTimes <- [r \in 1 .. 3 |-> {r}], Timeouts <- {}, MaxClock <- 5, MaxRestarts <- 0,
  task <- proposalGenerator_task
Crash == INSTANCE ProposalGenerator WITH
  MaxRound <- 2, Mine <- {1, 2}, Batches <- {d1}, Vtxns <- {}, MaxFailedAuthorsToStore <- 1,
  MaxBlockTxns <- 2, MinBlockTxns <- 2, MaxVtxns <- 1, ChainHealth <- [k \in {80} |-> 1],
  PipelineLatency <- [k \in {5} |-> 1], MinBlocks <- 2, Percentile <- 50, MinCalibrated <- 1,
  Conditions <- {Relaxed}, AllowInline <- FALSE, Capacity <- 1, PeerTimes <- <<>>,
  Timeouts <- {1, 2}, MaxClock <- 2, MaxRestarts <- 1, task <- proposalGenerator_task
Fetched == INSTANCE PayloadManager WITH
  Payload <- <<<<1, 2>>, <<3>>>>, Inline <- <<4>>, Unproved <- {1}, ExpiredBatches <- {2},
  Recovering <- FALSE, MaxFailures <- 2, MaxAttempts <- 3, failures <- payloadManager_failures
Recovery == INSTANCE PayloadManager WITH
  Payload <- <<<<1, 2, 3>>>>, Inline <- <<4>>, Unproved <- {1}, ExpiredBatches <- {2},
  Recovering <- TRUE, MaxFailures <- 2, MaxAttempts <- 3, failures <- payloadManager_failures

----------------------------------------------------------------------------
MCInit ==
  \/ scenario = "Cache" /\ Init /\ NoProofQueue /\ NoBatchGenerator /\ EmInit /\ NoBlockRetrieval /\ NoTransactionShuffler /\ NoProposalGenerator /\ NoPayloadManager
  \/ scenario = "Queue" /\ Queue!Init /\ Init /\ NoBatchGenerator /\ EmInit /\ NoBlockRetrieval /\ NoTransactionShuffler /\ NoProposalGenerator /\ NoPayloadManager
  \/ scenario = "Generator" /\ Generator!Init /\ Init /\ NoProofQueue /\ EmInit /\ NoBlockRetrieval /\ NoTransactionShuffler /\ NoProposalGenerator /\ NoPayloadManager
  \/ scenario = "Epochs" /\ EmInit /\ Init /\ NoProofQueue /\ NoBatchGenerator /\ NoBlockRetrieval /\ NoTransactionShuffler /\ NoProposalGenerator /\ NoPayloadManager
  \/ scenario = "Retrieval" /\ Retrieval!Init /\ Init /\ NoProofQueue /\ NoBatchGenerator /\ EmInit /\ NoTransactionShuffler /\ NoProposalGenerator /\ NoPayloadManager
  \/ scenario = "Shuffle" /\ Shuffle!Init /\ Init /\ NoProofQueue /\ NoBatchGenerator /\ EmInit /\ NoBlockRetrieval /\ NoProposalGenerator /\ NoPayloadManager
  \/ scenario = "Late" /\ Late!Init /\ Init /\ NoProofQueue /\ NoBatchGenerator /\ EmInit /\ NoBlockRetrieval /\ NoTransactionShuffler /\ NoPayloadManager
  \/ scenario = "Commits" /\ Commits!Init /\ Init /\ NoProofQueue /\ NoBatchGenerator /\ EmInit /\ NoBlockRetrieval /\ NoTransactionShuffler /\ NoPayloadManager
  \/ scenario = "Crash" /\ Crash!Init /\ Init /\ NoProofQueue /\ NoBatchGenerator /\ EmInit /\ NoBlockRetrieval /\ NoTransactionShuffler /\ NoPayloadManager
  \/ scenario = "Fetched" /\ Fetched!Init /\ Init /\ NoProofQueue /\ NoBatchGenerator /\ EmInit /\ NoBlockRetrieval /\ NoTransactionShuffler /\ NoProposalGenerator
  \/ scenario = "Recovery" /\ Recovery!Init /\ Init /\ NoProofQueue /\ NoBatchGenerator /\ EmInit /\ NoBlockRetrieval /\ NoTransactionShuffler /\ NoProposalGenerator

MCNext ==
  /\ UNCHANGED scenario
  /\ \/ scenario = "Cache" /\ Next /\ UNCHANGED <<ProofQueueVars, BatchGeneratorVars, emVars, BlockRetrievalVars, TransactionShufflerVars, ProposalGeneratorVars, PayloadManagerVars>>
     \/ scenario = "Queue" /\ Queue!Next /\ UNCHANGED <<vars, BatchGeneratorVars, emVars, BlockRetrievalVars, TransactionShufflerVars, ProposalGeneratorVars, PayloadManagerVars>>
     \/ scenario = "Generator" /\ Generator!Next /\ UNCHANGED <<vars, ProofQueueVars, emVars, BlockRetrievalVars, TransactionShufflerVars, ProposalGeneratorVars, PayloadManagerVars>>
     \/ scenario = "Epochs" /\ EmNext /\ UNCHANGED <<vars, ProofQueueVars, BatchGeneratorVars, BlockRetrievalVars, TransactionShufflerVars, ProposalGeneratorVars, PayloadManagerVars>>
     \/ scenario = "Retrieval" /\ Retrieval!Next /\ UNCHANGED <<vars, ProofQueueVars, BatchGeneratorVars, emVars, TransactionShufflerVars, ProposalGeneratorVars, PayloadManagerVars>>
     \/ scenario = "Shuffle" /\ Shuffle!Next /\ UNCHANGED <<vars, ProofQueueVars, BatchGeneratorVars, emVars, BlockRetrievalVars, ProposalGeneratorVars, PayloadManagerVars>>
     \/ scenario = "Late" /\ Late!Next /\ UNCHANGED <<vars, ProofQueueVars, BatchGeneratorVars, emVars, BlockRetrievalVars, TransactionShufflerVars, PayloadManagerVars>>
     \/ scenario = "Commits" /\ Commits!Next /\ UNCHANGED <<vars, ProofQueueVars, BatchGeneratorVars, emVars, BlockRetrievalVars, TransactionShufflerVars, PayloadManagerVars>>
     \/ scenario = "Crash" /\ Crash!Next /\ UNCHANGED <<vars, ProofQueueVars, BatchGeneratorVars, emVars, BlockRetrievalVars, TransactionShufflerVars, PayloadManagerVars>>
     \/ scenario = "Fetched" /\ Fetched!Next /\ UNCHANGED <<vars, ProofQueueVars, BatchGeneratorVars, emVars, BlockRetrievalVars, TransactionShufflerVars, ProposalGeneratorVars>>
     \/ scenario = "Recovery" /\ Recovery!Next /\ UNCHANGED <<vars, ProofQueueVars, BatchGeneratorVars, emVars, BlockRetrievalVars, TransactionShufflerVars, ProposalGeneratorVars>>

MCSpec == MCInit /\ [][MCNext]_mcvars

----------------------------------------------------------------------------
\* The batch store, with two writers and the cleanup of expired batches between any two of their
\* steps: what an author's batches take of its quotas is what is missing there. The proof queue,
\* with summaries, proofs, commits and expirations of a batch in any order: its counters are the
\* batches and transactions it still has, each counted once; a pull proposes no batch that was
\* committed or is excluded, and stays within each of its limits. The batch generator and the proof
\* coordinator: a transaction is counted in progress once for each of our and of the others' batches
\* that hold it, the batches of a pull partition what was pulled by gas, and a proof that is being
\* collected times out (BatchStore, ProofQueue, BatchGenerator, ProofCoordinator).
QuorumStoreCorrect ==
  /\ scenario = "Cache" => TypeOK /\ TasksTyped /\ BatchesKept /\ QuotaConserved
  /\ scenario = "Queue" =>
       /\ Queue!RemainingMatches
       /\ Queue!OccurrencesMatch
       /\ Queue!NotProposedAgain
       /\ Queue!WithinLimits
       /\ Queue!UniqueCounted
  /\ scenario = "Generator" =>
       /\ Generator!TxnCountsMatch
       /\ Generator!BucketsPartition
       /\ Generator!CoordinatorBookkeeping

\* The blocks that were fetched, in chunks of different peers that prune meanwhile, are one chain
\* from the block asked for, which ends at the target when the retrieval succeeds; and the ledger
\* infos with them are from the highest down and can be committed by a certificate that came with
\* the blocks (BlockRetriever, process_block_retrieval). Their batches: whoever asks gets all that
\* have not expired, in order, and what was requested is lost only when the wait before a vote times
\* out (QuorumStorePayloadManager). Their transactions when they are executed: the duplicates alone
\* are gone, each sender's transactions keep their order and none is lost, at each step of either
\* shuffler; a transaction is put close to another of its sender or use case only when each that is
\* left would be; and the nested queues never hold an account or a use case under a key that is not
\* its own, on which every removal relies (block_preparer, DelayedQueue, SenderAwareShuffler).
BlocksComplete ==
  /\ scenario = "Retrieval" => Retrieval!RetrievedIsChain /\ Retrieval!LedgerInfosRecoverable
  /\ scenario = "Fetched" =>
       /\ Fetched!TransactionsComplete
       /\ Fetched!StatusIsKept
       /\ Fetched!VotesWithPayload
  /\ scenario = "Recovery" => Recovery!TransactionsComplete /\ Recovery!StatusIsKept
  /\ scenario = "Shuffle" =>
       /\ Shuffle!DedupIsExact
       /\ Shuffle!SenderOrderKept
       /\ Shuffle!SpreadUnlessStuck
       /\ Shuffle!QueuesMatch
       /\ Shuffle!AllShuffled

\* What a validator proposes or votes for on a timeout the others accept, and it has nothing that
\* a block below it has, although the certificates, the roots and the committed batches change
\* between the steps that read them, and it makes one proposal in a round (ProposalGenerator,
\* generate_and_send_proposal). Excepted are, in a round that was entered by a timeout, the
\* certificates sent along; the batches of blocks already committed; and a crash.
ProposalsCorrect ==
  /\ scenario = "Late" => Late!ProposalsAccepted /\ Late!NothingTwice /\ Late!OneProposalPerRound
  /\ scenario = "Commits" =>
       /\ Commits!ProposalsAccepted
       /\ Commits!NothingTwice
       /\ Commits!OneProposalPerRound
  /\ scenario = "Crash" =>
       /\ Crash!ProposalsAccepted
       /\ Crash!NothingTwice
       /\ Crash!OneProposalPerRound

\* A batch id names one batch for ever, across crashes.
BatchIdsUnique == [][scenario = "Generator" => Generator!BatchIdsKept]_mcvars
=============================================================================
