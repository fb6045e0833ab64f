--------------------------- MODULE BatchGenerator ---------------------------
(***************************************************************************)
(* Two tasks of the quorum store that keep each other informed: the batch  *)
(* generator, which pulls transactions from the mempool into batches and   *)
(* remembers which transactions are in one, and the proof coordinator,     *)
(* which gathers the signatures of our batches into proofs of store and    *)
(* tells the generator when it gave up (quorum_store/batch_generator.rs,   *)
(* proof_coordinator.rs).  The node may crash; batch ids survive in the    *)
(* database.  Other validators' batches come under keys of RemoteBatches.  *)
(***************************************************************************)
EXTENDS Integers, Sequences, FiniteSets, SequencesExt, FiniteSetsExt

CONSTANTS
  Txns,              \* transactions of the mempool, natural numbers
  Gas, TxnBytes,     \* of a transaction
  Buckets,           \* batch_buckets, highest first, ending with 0
  MaxBatchTxns, MaxBatchBytes, MaxNumBatches,   \* the sender's limits
  RemoteBatches,     \* key -> transactions, of other authors' batches
  Power,             \* voting power of a validator
  QuorumPower,
  ChannelSize,       \* capacity of the command channel: sending to a full one waits
  MaxId,             \* bound: batch ids are 1 .. MaxId
  MaxTime            \* bound: expirations and block timestamps are 0 .. MaxTime

VARIABLES
  batch_id, db_batch_id,   \* the next id, and the one in the database
  batches,           \* history: id -> [txns, bucket] of the batches made here
  in_progress,       \* batches_in_progress: key -> [txns, exp]
  txn_count,         \* txns_in_progress_sorted: how many of those batches have it
  committed_txns,    \* commited_txns_buffer
  batch_expirations, \* keys in the heap, with their times
  latest_block_timestamp,
  bucketing,         \* the pulled transactions that are being split into batches
  proofs,            \* batch_info_to_proof: id -> [sigs, completed]
  times,             \* ids in batch_info_to_time
  timeouts,          \* the queue of ids that will time out
  proved,            \* history: ids of which a proof was formed
  commands           \* the channel of ProofExpiration commands

generatorVars   == <<batch_id, db_batch_id, batches, in_progress, txn_count, committed_txns,
                     batch_expirations, latest_block_timestamp, bucketing>>
coordinatorVars == <<proofs, times, timeouts, proved>>
vars == <<generatorVars, coordinatorVars, commands>>

Ids        == 1 .. MaxId
Validators == DOMAIN Power
Idle       == [pc |-> "idle"]
Empty      == [x \in {} |-> 0]
With(f, k, v) == [x \in DOMAIN f \cup {k} |-> IF x = k THEN v ELSE f[x]]
Without(f, s) == [x \in DOMAIN f \ s |-> f[x]]

Init ==
  /\ batch_id = 1 /\ db_batch_id = 2
  /\ batches = Empty /\ in_progress = Empty
  /\ txn_count = [t \in Txns |-> 0]
  /\ committed_txns = {}
  /\ batch_expirations = {}
  /\ latest_block_timestamp = 0
  /\ bucketing = Idle
  /\ proofs = Empty /\ times = {} /\ timeouts = <<>> /\ proved = {}
  /\ commands = <<>>

----------------------------------------------------------------------------
(* The batch generator                                                     *)

\* insert_batch: a batch that is in progress already is left alone.
InsertBatch(key, txns, exp) ==
  IF key \in DOMAIN in_progress
    THEN UNCHANGED <<in_progress, txn_count, batch_expirations>>
    ELSE /\ in_progress' = With(in_progress, key, [txns |-> txns, exp |-> exp])
         /\ txn_count' = [t \in Txns |-> txn_count[t] + (IF t \in txns THEN 1 ELSE 0)]
         /\ batch_expirations' = batch_expirations \cup {<<exp, key>>}

\* remove_batch_in_progress for each key of s.
Removed(s) == s \cap DOMAIN in_progress
CountWithout(s) ==
  [t \in Txns |-> txn_count[t] - Cardinality({k \in Removed(s) : t \in in_progress[k].txns})]

RemoveBatches(s) ==
  /\ in_progress' = Without(in_progress, s)
  /\ txn_count' = CountWithout(s)

\* handle_scheduled_pull: what is in a batch, or was in the last commit, is excluded; the
\* answer of the mempool is sorted by gas, highest first.  The loop is biased: commands
\* that wait are handled before the next pull.
Excluded == {t \in Txns : txn_count[t] > 0} \cup committed_txns
SortedByGas(s) == \A i, j \in DOMAIN s : i < j => Gas[s[i]] >= Gas[s[j]]

ScheduledPull(txns) ==
  /\ bucketing = Idle /\ commands = <<>>
  /\ txns # {} /\ txns \cap Excluded = {}
  /\ \E s \in SetToSeqs(txns), exp \in latest_block_timestamp + 1 .. MaxTime :
       /\ SortedByGas(s)
       /\ bucketing' = [pc |-> "bucket", txns |-> s, exp |-> exp, buckets |-> Buckets,
                        bucket |-> 0, in_bucket |-> 0, left |-> MaxNumBatches, made |-> {}]
  /\ UNCHANGED <<batch_id, db_batch_id, batches, in_progress, txn_count, committed_txns,
                 batch_expirations, latest_block_timestamp, coordinatorVars, commands>>

\* bucket_into_batches: the transactions that reach the next bucket are its own.
NextBucket ==
  /\ bucketing.pc = "bucket" /\ bucketing.in_bucket = 0
  /\ bucketing.buckets # <<>> /\ bucketing.txns # <<>> /\ bucketing.left > 0
  /\ LET bucket == Head(bucketing.buckets)
     IN  bucketing' = [bucketing EXCEPT
           !.buckets = Tail(@), !.bucket = bucket,
           !.in_bucket = Cardinality({i \in DOMAIN bucketing.txns : Gas[bucketing.txns[i]] >= bucket})]
  /\ UNCHANGED <<batch_id, db_batch_id, batches, in_progress, txn_count, committed_txns,
                 batch_expirations, latest_block_timestamp, coordinatorVars, commands>>

Bytes(s) == MapThenSumSet(LAMBDA i : TxnBytes[s[i]], DOMAIN s)

\* The longest prefix of the bucket's transactions that fits a batch.
Fitting(s, n) ==
  Max({k \in 0 .. Min({n, MaxBatchTxns}) : Bytes(SubSeq(s, 1, k)) <= MaxBatchBytes})

\* create_new_batch saves the id after the one it uses, before the batch leaves the node.
IdToSave == batch_id + 1

\* push_bucket_to_batches: one batch, or one oversized transaction skipped.
PushBatch ==
  /\ bucketing.pc = "bucket" /\ bucketing.in_bucket > 0 /\ bucketing.left > 0
  /\ batch_id <= MaxId
  /\ LET n == Fitting(bucketing.txns, bucketing.in_bucket)
         txns == ToSet(SubSeq(bucketing.txns, 1, n))
         rest(k) == SubSeq(bucketing.txns, k + 1, Len(bucketing.txns))
     IN  \/ /\ n > 0
            /\ InsertBatch(batch_id, txns, bucketing.exp)
            /\ batches' = With(batches, batch_id, [txns |-> txns, bucket |-> bucketing.bucket])
            /\ batch_id' = batch_id + 1
            /\ db_batch_id' = IdToSave
            /\ bucketing' = [bucketing EXCEPT !.txns = rest(n), !.in_bucket = IF @ > n THEN @ - n ELSE 0,
                                              !.left = @ - 1, !.made = @ \cup {batch_id}]
         \/ /\ n = 0
            /\ bucketing' = [bucketing EXCEPT !.txns = rest(1), !.in_bucket = @ - 1]
            /\ UNCHANGED <<batch_id, db_batch_id, batches, in_progress, txn_count, batch_expirations>>
  /\ UNCHANGED <<committed_txns, latest_block_timestamp, coordinatorVars, commands>>

\* The batches are persisted and broadcast.
PullDone ==
  /\ bucketing.pc = "bucket"
  /\ \/ bucketing.left = 0 \/ bucketing.txns = <<>>
     \/ bucketing.in_bucket = 0 /\ bucketing.buckets = <<>>
     \/ batch_id > MaxId
  /\ bucketing' = Idle
  /\ UNCHANGED <<batch_id, db_batch_id, batches, in_progress, txn_count, committed_txns,
                 batch_expirations, latest_block_timestamp, coordinatorVars, commands>>

RemoteBatch(key) ==
  /\ bucketing = Idle
  /\ \E exp \in latest_block_timestamp + 1 .. MaxTime : InsertBatch(key, RemoteBatches[key], exp)
  /\ UNCHANGED <<batch_id, db_batch_id, batches, committed_txns, latest_block_timestamp,
                 bucketing, coordinatorVars, commands>>

\* CommitNotification: the transactions of the committed batches are kept until the next
\* one, and what expired up to the block's time leaves too.
CommitNotification(time, keys) ==
  /\ bucketing = Idle
  /\ time >= latest_block_timestamp
  /\ latest_block_timestamp' = time
  /\ committed_txns' = UNION {in_progress[k].txns : k \in Removed(keys)}
  /\ LET popped  == {x \in batch_expirations : x[1] <= time}
         expired == {x[2] : x \in popped}
         kept    == {k \in Removed(expired) \ keys : in_progress[k].exp > time}
     IN  /\ batch_expirations' = (batch_expirations \ popped)
                                   \cup {<<in_progress[k].exp, k>> : k \in kept}
         /\ RemoveBatches(keys \cup (expired \ kept))
  /\ UNCHANGED <<batch_id, db_batch_id, batches, bucketing, coordinatorVars, commands>>

\* ProofExpiration: the transactions of our batches may be pulled again.
ProofExpiration ==
  /\ bucketing = Idle /\ commands # <<>>
  /\ RemoveBatches(Head(commands))
  /\ commands' = Tail(commands)
  /\ UNCHANGED <<batch_id, db_batch_id, batches, committed_txns, batch_expirations,
                 latest_block_timestamp, bucketing, coordinatorVars>>

----------------------------------------------------------------------------
(* The proof coordinator                                                   *)

AggregatedPower(sigs) == MapThenSumSet(LAMBDA v : Power[v], sigs)
Ready(sigs) == AggregatedPower(sigs) >= QuorumPower

\* init_proof: an unknown batch of ours that the batch store has.
NewProof == [sigs |-> {}, completed |-> FALSE]

\* add_signature, on what the coordinator has of the batch: a signature counts once; the
\* proof is taken as soon as the quorum is there, and its creation time with it.
AddSignature(id, v) ==
  LET fresh == id \notin DOMAIN proofs
      state == IF fresh THEN NewProof ELSE proofs[id]
      sigs  == state.sigs \cup {v}
      takes == ~ state.completed /\ Ready(sigs)
  IN  /\ id \in DOMAIN batches
      /\ v \notin state.sigs
      /\ proofs' = With(proofs, id, [sigs |-> sigs, completed |-> state.completed \/ takes])
      /\ timeouts' = IF fresh THEN Append(timeouts, id) ELSE timeouts
      /\ times' = (IF fresh THEN times \cup {id} ELSE times) \ (IF takes THEN {id} ELSE {})
      /\ proved' = IF takes THEN proved \cup {id} ELSE proved
      /\ UNCHANGED <<generatorVars, commands>>

\* expire: the first n proofs of the queue time out; the generator hears of those that
\* did not complete.
Expire(n) ==
  LET expired == ToSet(SubSeq(timeouts, 1, n)) \cap DOMAIN proofs
      failed  == {id \in expired : ~ proofs[id].completed}
  IN  /\ Len(commands) < ChannelSize
      /\ timeouts' = SubSeq(timeouts, n + 1, Len(timeouts))
      /\ proofs' = Without(proofs, expired)
      /\ times' = times \ expired
      /\ commands' = IF failed = {} THEN commands ELSE Append(commands, failed)
      /\ UNCHANGED <<proved, generatorVars>>

----------------------------------------------------------------------------
\* Mutant: clean_and_get_batch_id forgets the id of the current epoch too.
RestartForgetful ==
  /\ batch_id' = 1 /\ db_batch_id' = 2
  /\ in_progress' = Empty /\ txn_count' = [t \in Txns |-> 0]
  /\ committed_txns' = {} /\ batch_expirations' = {}
  /\ latest_block_timestamp' = 0
  /\ bucketing' = Idle
  /\ proofs' = Empty /\ times' = {} /\ timeouts' = <<>>
  /\ commands' = <<>>
  /\ UNCHANGED <<batches, proved>>

\* A crash and a restart: the id in the database is the next unused one and is skipped
\* all the same.
Restart ==
  /\ db_batch_id <= MaxId
  /\ batch_id' = db_batch_id + 1
  /\ db_batch_id' = db_batch_id + 2
  /\ in_progress' = Empty /\ txn_count' = [t \in Txns |-> 0]
  /\ committed_txns' = {} /\ batch_expirations' = {}
  /\ latest_block_timestamp' = 0
  /\ bucketing' = Idle
  /\ proofs' = Empty /\ times' = {} /\ timeouts' = <<>>
  /\ commands' = <<>>
  /\ UNCHANGED <<batches, proved>>

GeneratorStep == NextBucket \/ PushBatch \/ PullDone \/ ProofExpiration
Timer == \E n \in 1 .. Len(timeouts) : Expire(n)

Next ==
  \/ \E txns \in SUBSET Txns : ScheduledPull(txns)
  \/ GeneratorStep
  \/ \E key \in DOMAIN RemoteBatches : RemoteBatch(key)
  \/ \E time \in 0 .. MaxTime, keys \in SUBSET (proved \cup DOMAIN RemoteBatches) :
       CommitNotification(time, keys)
  \/ \E id \in Ids, v \in Validators : AddSignature(id, v)
  \/ Timer
  \/ Restart

Spec == Init /\ [][Next]_vars

\* The two tasks run, and the interval of the coordinator ticks.
FairSpec ==
  /\ Spec
  /\ WF_vars(GeneratorStep)
  /\ WF_vars(Timer)

----------------------------------------------------------------------------
\* A transaction is excluded from pulls exactly as long as some batch in progress has it:
\* the counts survive batches with common transactions, commits, expirations and proofs
\* that time out.
TxnCountsMatch ==
  \A t \in Txns : txn_count[t] = Cardinality({k \in DOMAIN in_progress : t \in in_progress[k].txns})

\* A batch id names one batch for ever, across crashes.
BatchIdsKept == \A id \in DOMAIN batches : id \in DOMAIN batches' /\ batches'[id] = batches[id]

\* The batches of one pull have no transaction in common, and the transactions of a batch
\* belong to its gas bucket: they reach it, and no higher one.
BucketsPartition ==
  \A i \in DOMAIN batches :
    LET b == batches[i]
    IN  \A t \in b.txns :
          /\ Gas[t] >= b.bucket
          /\ \A h \in ToSet(Buckets) : h > b.bucket /\ bucketing.pc = "bucket" /\ i \in bucketing.made
               => Gas[t] < h
          /\ bucketing.pc = "bucket" /\ i \in bucketing.made =>
               t \notin ToSet(bucketing.txns) /\
               \A j \in bucketing.made \ {i} : t \notin batches[j].txns

\* What the coordinator remembers of a batch goes away with it: every proof state will
\* time out, and has a creation time until it completes.  A missing time would make
\* add_signature lose the proof (NoTimeStamps); one too many is a leak.
CoordinatorBookkeeping ==
  /\ ToSet(timeouts) = DOMAIN proofs
  /\ times = {id \in DOMAIN proofs : ~ proofs[id].completed}
=============================================================================
