----------------------------- MODULE ProofQueue -----------------------------
(***************************************************************************)
(* The proof manager of the quorum store and its proof queue: the proofs   *)
(* of store a proposal may contain, which of them are committed or expired,*)
(* how many transactions they hold with and without duplicates, and what a *)
(* proposal pulls within its limits (quorum_store/proof_manager.rs,        *)
(* utils.rs).  One task owns all of it: every message is one action, and   *)
(* the pull, whose order is random, is a sequence of steps no message      *)
(* comes between.                                                          *)
(***************************************************************************)
EXTENDS Integers, FiniteSets, FiniteSetsExt

CONSTANTS
  Batches,         \* batch ids, natural numbers
  Author, Gas,     \* of a batch: who made it, and its gas_bucket_start
  NumBytes, Txns,  \* its size, and the summaries of its transactions
  Expiration,      \* its expiration
  TxnExpiration,   \* of a transaction
  Me,              \* my_peer_id
  MaxTime,         \* bound: timestamps are 0 .. MaxTime
  MaxTxns, MaxUnique, SoftMaxUnique, MaxBytes,   \* the limits of a proposal
  MaxInlineTxns, MaxInlineBytes,
  AllowInline,     \* allow_batches_without_pos_in_proposal
  TxnLimit, ProofLimit   \* back_pressure_total_txn_limit, ..._proof_limit

VARIABLES
  queued,          \* the batches in author_to_batches
  batch_to_proof,  \* batch -> "absent", "proof", "committed" (None in the code)
  occurrences,     \* txn_summary_num_occurrences
  summaries,       \* batch_summaries: batch -> "absent", "known", "added"
  expirations,     \* batches in the heap of expirations
  latest_block_timestamp,
  remaining,       \* [txns, proofs, local_txns, local_proofs]
  batch_queue,     \* the batches without a proof, for inlining
  back_pressure,   \* the last value sent to the batch generator
  pull,            \* the proposal that is being answered
  committed_ever   \* history: the batches of every commit notification

vars == <<queued, batch_to_proof, occurrences, summaries, expirations, latest_block_timestamp,
          remaining, batch_queue, back_pressure, pull, committed_ever>>

Summaries == UNION {Txns[b] : b \in Batches}
NumTxns(b) == Cardinality(Txns[b])
Times == 0 .. MaxTime
Idle  == [pc |-> "idle"]

Init ==
  /\ queued = {}
  /\ batch_to_proof = [b \in Batches |-> "absent"]
  /\ occurrences = [t \in Summaries |-> 0]
  /\ summaries = [b \in Batches |-> "absent"]
  /\ expirations = {}
  /\ latest_block_timestamp = 0
  /\ remaining = [txns |-> 0, proofs |-> 0, local_txns |-> 0, local_proofs |-> 0]
  /\ batch_queue = {}
  /\ back_pressure = [txn_count |-> FALSE, proof_count |-> FALSE]
  /\ pull = Idle
  /\ committed_ever = {}

----------------------------------------------------------------------------
(* Counters                                                                *)

\* What the batches of s add to the counters; inc_remaining and dec_remaining.
Weight(s) ==
  LET local == {b \in s : Author[b] = Me}
  IN  [txns         |-> MapThenSumSet(NumTxns, s),
       proofs       |-> Cardinality(s),
       local_txns   |-> MapThenSumSet(NumTxns, local),
       local_proofs |-> Cardinality(local)]

IncRemaining(r, s) == [f \in DOMAIN r |-> r[f] + Weight(s)[f]]
DecRemaining(r, s) == [f \in DOMAIN r |-> r[f] - Weight(s)[f]]

\* Every summary of the batches of s counted once more, or once less.
CountUp(occ, s)   == [t \in Summaries |-> occ[t] + Cardinality({b \in s : t \in Txns[b]})]
CountDown(occ, s) == [t \in Summaries |-> occ[t] - Cardinality({b \in s : t \in Txns[b]})]

\* remaining_txns_without_duplicates: the transactions that occur, and all those of the
\* proofs whose summary is not known.
RemainingTxns(occ, q, proofs, sums) ==
  Cardinality({t \in Summaries : occ[t] > 0})
    + MapThenSumSet(NumTxns, {b \in q : sums[b] = "absent" /\ proofs[b] = "proof"})

BackPressure(txns, proofs) == [txn_count |-> txns > TxnLimit, proof_count |-> proofs > ProofLimit]

\* start: after every message the back pressure is computed again, and sent if it changed.
UpdateBackPressure ==
  back_pressure' = BackPressure(
    RemainingTxns(occurrences', queued', batch_to_proof', summaries'), remaining'.proofs)

\* gc_expired_batch_summaries_without_proofs, which runs at most twice a second, at a wall
\* clock that is not behind the blocks.
Collected(sums, now) ==
  [b \in Batches |-> IF sums[b] = "known" /\ Expiration[b] <= now THEN "absent" ELSE sums[b]]
CollectSummaries(sums) ==
  \/ summaries' = sums
  \/ \E now \in latest_block_timestamp .. MaxTime : summaries' = Collected(sums, now)

----------------------------------------------------------------------------
(* Messages                                                                *)

\* push takes a proof that is not expired and was never seen, committed or not.
Accepts(b) == Expiration[b] > latest_block_timestamp /\ batch_to_proof[b] = "absent"

\* receive_proofs and push. An accepted proof counts the summaries that came before it.
ReceiveProof(b) ==
  /\ pull = Idle
  /\ batch_queue' = batch_queue \ {b}
  /\ \/ /\ ~ Accepts(b)
        /\ UNCHANGED <<queued, batch_to_proof, occurrences, summaries, expirations, remaining>>
     \/ /\ Accepts(b)
        /\ queued' = queued \cup {b}
        /\ expirations' = expirations \cup {b}
        /\ batch_to_proof' = [batch_to_proof EXCEPT ![b] = "proof"]
        /\ occurrences' = IF summaries[b] = "known" THEN CountUp(occurrences, {b}) ELSE occurrences
        /\ CollectSummaries([summaries EXCEPT ![b] = IF @ = "known" THEN "added" ELSE @])
        /\ remaining' = IncRemaining(remaining, {b})
  /\ UpdateBackPressure
  /\ UNCHANGED <<latest_block_timestamp, pull, committed_ever>>

\* add_batch_summaries: counted now if the proof is there, else when it comes.
AddBatchSummary(b) ==
  LET proof_exists == b \in queued /\ batch_to_proof[b] = "proof"
      not_added    == summaries[b] # "added"
  IN  /\ occurrences' = IF proof_exists /\ not_added THEN CountUp(occurrences, {b}) ELSE occurrences
      /\ CollectSummaries([summaries EXCEPT ![b] =
           IF not_added THEN (IF proof_exists THEN "added" ELSE "known") ELSE @])

ReceiveBatch(b) ==
  /\ pull = Idle
  /\ batch_queue' = IF AllowInline THEN batch_queue \cup {b} ELSE batch_queue
  /\ AddBatchSummary(b)
  /\ UNCHANGED <<queued, batch_to_proof, expirations, latest_block_timestamp, remaining, pull, committed_ever>>
  /\ UpdateBackPressure

\* The batches of s that still count: a committed one was taken off when it was marked.
UncommittedAmong(committed, s) == {b \in s : batch_to_proof[b] = "proof" /\ b \notin committed}

\* handle_commit_notification: mark_committed remembers every batch, its proof known or
\* not, and handle_updated_block_timestamp then drops what has expired.
CommitNotification(time, committed) ==
  /\ pull = Idle
  /\ time >= latest_block_timestamp
  /\ latest_block_timestamp' = time
  /\ \E now \in time .. MaxTime :
       batch_queue' = {b \in batch_queue \ committed : Expiration[b] >= now}
  /\ LET live    == {b \in committed : batch_to_proof[b] = "proof"}
         expired == {b \in expirations : Expiration[b] <= time}
         dropped == UncommittedAmong(committed, expired)
         gone    == {b \in committed \cup dropped : summaries[b] = "added"}
     IN  /\ remaining' = DecRemaining(remaining, live \cup dropped)
         /\ occurrences' = CountDown(occurrences, gone)
         /\ summaries' = [b \in Batches |-> IF b \in committed \cup dropped THEN "absent" ELSE summaries[b]]
         /\ expirations' = expirations \ expired
         /\ queued' = queued \ expired
         /\ batch_to_proof' = [b \in Batches |->
              CASE b \in expired -> "absent" [] b \in committed -> "committed" [] OTHER -> batch_to_proof[b]]
  /\ UpdateBackPressure
  /\ committed_ever' = committed_ever \cup committed
  /\ UNCHANGED pull

----------------------------------------------------------------------------
(* handle_proposal_request: pull_proofs, then pull_batches for inlining.   *)

\* The first batch an author's iterator returns: highest gas bucket, then lowest id.
First(s) ==
  CHOOSE b \in s : \A c \in s : Gas[b] > Gas[c] \/ (Gas[b] = Gas[c] /\ b <= c)

\* The iterators over the batches of s, one for every author that has some.
Iterators(s) == [a \in {Author[b] : b \in s} |-> {b \in s : Author[b] = a}]

KnownTxns(s) == UNION {Txns[b] : b \in {c \in s : summaries[c] # "absent"}}

ProposalRequest(excluded, return_non_full, timestamp) ==
  /\ pull = Idle
  /\ pull' = [pc |-> "proofs", excluded |-> excluded, non_full |-> return_non_full,
              timestamp |-> timestamp, iters |-> Iterators(queued), visited |-> {},
              ret |-> {}, bytes |-> 0, txns |-> 0, unique |-> 0,
              filtered |-> KnownTxns(excluded), full |-> FALSE, inline |-> {}]
  /\ UNCHANGED <<queued, batch_to_proof, occurrences, summaries, expirations,
                 latest_block_timestamp, remaining, batch_queue, back_pressure, committed_ever>>

\* The transactions of a batch that a pull does not have yet and that have not expired.
NewTxns(p, b) == {t \in Txns[b] : t \notin p.filtered /\ p.timestamp < TxnExpiration[t]}
Unique(p, b)  == p.unique + (IF summaries[b] = "absent" THEN NumTxns(b) ELSE Cardinality(NewTxns(p, b)))

Exceeds(p, b) ==
  p.bytes + NumBytes[b] > MaxBytes \/ Unique(p, b) > MaxUnique \/ p.txns + NumTxns(b) > MaxTxns

Taken(p, b) ==
  [p EXCEPT !.bytes = @ + NumBytes[b], !.txns = @ + NumTxns(b), !.unique = Unique(p, b),
            !.ret = @ \cup {b},
            !.filtered = IF summaries[b] = "absent" THEN @ ELSE @ \cup Txns[b]]

Filled(p) ==
  \/ p.bytes = MaxBytes \/ p.txns = MaxTxns \/ p.unique = MaxUnique
  \/ p.unique >= SoftMaxUnique

\* Leave an iterator out of the coming passes, or keep it with one batch less.
Dropped(p, a) == [p EXCEPT !.iters = [x \in DOMAIN p.iters \ {a} |-> p.iters[x]]]
Advanced(p, a, b) == [p EXCEPT !.iters[a] = @ \ {b}, !.visited = @ \cup {a}]

\* One call of the closure of retain_mut on the iterator of author a, in a pass that
\* visits every iterator once in random order.
Visit(p, a) ==
  IF p.iters[a] = {} THEN Dropped(p, a)
  ELSE LET b == First(p.iters[a])
           next == Advanced(p, a, b)
       IN  IF b \in p.excluded \/ batch_to_proof[b] # "proof" THEN next
           ELSE IF Exceeds(p, b) THEN [Dropped(p, a) EXCEPT !.full = TRUE]
           ELSE IF Filled(Taken(p, b)) THEN [Dropped(Taken(p, b), a) EXCEPT !.full = TRUE]
           ELSE Taken(next, b)

NewPass(p) == IF DOMAIN p.iters \subseteq p.visited THEN [p EXCEPT !.visited = {}] ELSE p

PullProofs(a) ==
  /\ pull.pc = "proofs"
  /\ a \in DOMAIN pull.iters \ pull.visited
  /\ pull' = NewPass(Visit(pull, a))
  /\ UNCHANGED <<queued, batch_to_proof, occurrences, summaries, expirations,
                 latest_block_timestamp, remaining, batch_queue, back_pressure, committed_ever>>

\* A pull that is not full returns nothing unless it may; inlining follows only a pull
\* that used the whole queue.
PullDone ==
  /\ pull.pc = "proofs" /\ DOMAIN pull.iters = {}
  /\ LET ret == IF pull.full \/ pull.non_full THEN pull.ret ELSE {}
         unique == IF pull.full \/ pull.non_full THEN pull.unique ELSE 0
         txns == MapThenSumSet(NumTxns, ret)
         bytes == MapThenSumSet(LAMBDA b : NumBytes[b], ret)
     IN  pull' = IF AllowInline /\ ~ pull.full
           THEN [pull EXCEPT !.pc = "inline", !.ret = ret, !.unique = unique,
                             !.iters = Iterators(batch_queue), !.visited = {}, !.filtered = {},
                             !.txns = txns, !.bytes = bytes]
           ELSE [pull EXCEPT !.pc = "answer", !.ret = ret, !.unique = unique,
                             !.txns = txns, !.bytes = bytes, !.filtered = {}]
  /\ UNCHANGED <<queued, batch_to_proof, occurrences, summaries, expirations,
                 latest_block_timestamp, remaining, batch_queue, back_pressure, committed_ever>>

\* What is left for inlined batches.
InlineTxns(p) ==
  Min({Max({MaxTxns - p.txns, 0}), Max({MaxUnique - p.unique, 0}), MaxInlineTxns})
InlineBytes(p) == Min({MaxBytes - p.bytes, MaxInlineBytes})

InlineSkips(p, b) == b \in p.excluded \cup p.ret

\* One call of the closure in pull_batches; the batch may be missing from the batch store.
VisitInline(p, a, stored) ==
  IF p.iters[a] = {} THEN Dropped(p, a)
  ELSE LET b == First(p.iters[a])
           next == Advanced(p, a, b)
           inline == p.inline \cup {b}
       IN  IF InlineSkips(p, b) THEN next
           ELSE IF MapThenSumSet(NumTxns, inline) <= InlineTxns(p)
                   /\ MapThenSumSet(LAMBDA x : NumBytes[x], inline) <= InlineBytes(p)
                  THEN IF stored THEN [next EXCEPT !.inline = inline] ELSE next
           ELSE [p EXCEPT !.iters = [x \in {} |-> {}]]

PullBatches(a, stored) ==
  /\ pull.pc = "inline"
  /\ a \in DOMAIN pull.iters \ pull.visited
  /\ pull' = NewPass(VisitInline(pull, a, stored))
  /\ UNCHANGED <<queued, batch_to_proof, occurrences, summaries, expirations,
                 latest_block_timestamp, remaining, batch_queue, back_pressure, committed_ever>>

PullBatchesDone ==
  /\ pull.pc = "inline" /\ DOMAIN pull.iters = {}
  /\ pull' = [pull EXCEPT !.pc = "answer"]
  /\ UNCHANGED <<queued, batch_to_proof, occurrences, summaries, expirations,
                 latest_block_timestamp, remaining, batch_queue, back_pressure, committed_ever>>

\* The payload is sent to the proposal generator.
Answer ==
  /\ pull.pc = "answer"
  /\ pull' = Idle
  /\ UNCHANGED <<queued, batch_to_proof, occurrences, summaries, expirations,
                 latest_block_timestamp, remaining, batch_queue, committed_ever>>
  /\ UpdateBackPressure

Next ==
  \/ \E b \in Batches : ReceiveProof(b) \/ ReceiveBatch(b)
  \/ \E time \in Times, committed \in SUBSET Batches : CommitNotification(time, committed)
  \/ \E excluded \in SUBSET Batches, non_full \in BOOLEAN, time \in latest_block_timestamp .. MaxTime :
       ProposalRequest(excluded, non_full, time)
  \/ \E a \in {Author[b] : b \in Batches} :
       PullProofs(a) \/ \E stored \in BOOLEAN : PullBatches(a, stored)
  \/ PullDone \/ PullBatchesDone \/ Answer

Spec == Init /\ [][Next]_vars

----------------------------------------------------------------------------
\* The proofs a proposal may use: in the queue, and neither committed nor expired.
Live == {b \in queued : batch_to_proof[b] = "proof"}

\* The counters are those of the live proofs, whatever order proofs, commits and
\* expirations come in; inc_remaining and dec_remaining never go below zero.
RemainingMatches == remaining = Weight(Live)

\* A transaction is counted once for every live proof whose summary is known, however
\* often and in whatever order summary, proof, commit and expiration arrive.
OccurrencesMatch ==
  \A t \in Summaries :
    occurrences[t] = Cardinality({b \in Live : summaries[b] # "absent" /\ t \in Txns[b]})

\* A batch that was committed is never proposed again with its proof, even if the proof
\* reaches this node only after the commit; nor is one that is excluded or expired.
NotProposedAgain ==
  pull.pc = "answer" => pull.ret \subseteq Live \ (pull.excluded \cup committed_ever)

\* The hard limits of a proposal hold, the inlined batches included, and no batch is in
\* it both with its proof and inlined.
WithinLimits ==
  pull.pc = "answer" =>
    /\ pull.bytes + MapThenSumSet(LAMBDA b : NumBytes[b], pull.inline) <= MaxBytes
    /\ pull.txns + MapThenSumSet(NumTxns, pull.inline) <= MaxTxns
    /\ pull.unique <= MaxUnique
    /\ pull.ret \cap pull.inline = {}

\* The number of unique transactions reported for the pulled proofs is the number of
\* transactions that are new to the excluded batches and not expired, each counted once,
\* and all transactions of a batch without summary.
UniqueCounted ==
  pull.pc = "answer" =>
    pull.unique =
      Cardinality({t \in KnownTxns(pull.ret) \ KnownTxns(pull.excluded) : pull.timestamp < TxnExpiration[t]})
        + MapThenSumSet(NumTxns, {b \in pull.ret : summaries[b] = "absent"})
=============================================================================
