---------------------------- MODULE RandManager ----------------------------
(***************************************************************************)
(* The randomness manager of one validator (rand/rand_gen): the loop that  *)
(* queues ordered blocks until each has its randomness, the store that     *)
(* collects the shares of every round on the slow and on the fast path,    *)
(* the jobs that aggregate them, and the tasks that ask for missing shares *)
(* 300 ms after a block came.                                              *)
(*                                                                         *)
(* The metadata a share is for is its epoch and round, and messages of     *)
(* other epochs are not verified: a round stands for it.  The randomness   *)
(* of a round is a function of it, whichever shares it is made from.       *)
(***************************************************************************)
EXTENDS Integers, Sequences, FiniteSets, FiniteSetsExt, SequencesExt

CONSTANTS
  Authors, Self, Weight,   \* Weight[a]: RandConfig::get_peer_weight
  Paths,                   \* {"Slow"}, or {"Slow", "Fast"} with a fast_config: the epoch
                           \* manager gives none at present
  Threshold,               \* Threshold[path]: RandConfig::threshold
  FutureRounds,            \* FUTURE_ROUNDS_TO_ACCEPT
  MaxRound, MaxResets      \* bounds: the rounds, and how often consensus resets

VARIABLES
  apks,              \* authors with a certified augmented public key
  certified,         \* whether our certified augmented data is in the store
  incoming_blocks,   \* the channel of ordered blocks: batches, as sets of rounds
  reset_rx,          \* the pending ResetRequest, at most one: <<signal, target round>>
  stop,
  rand_map,          \* path -> round -> RandItem
  highest_known_round,
  jobs,              \* the aggregations spawned: [path, round, shares]
  queue,             \* the items of the BlockQueue: [rounds, undecided]
  highest_dequeued_round,
  tasks,             \* the tasks of spawn_aggregate_shares_task: <<round, pc>>
  sent, outgoing,    \* batches sent to the manager, and by it, since the last reset
  root,              \* the round consensus was last reset to
  resets,
  panicked           \* get_all_shares_authors met an item without metadata

loop  == <<incoming_blocks, reset_rx, stop, queue, highest_dequeued_round, outgoing>>
store == <<rand_map, highest_known_round, jobs>>
keys  == <<apks, certified>>
consensus == <<sent, root, resets>>
vars == <<loop, store, keys, consensus, tasks, panicked>>

Rounds == 1 .. MaxRound
Peers  == Authors \ {Self}
Batches == SUBSET Rounds \ {{}}

NoItem == [st |-> "None", shares |-> {}]

\* RandManager::new and start.  A validator that restarts finds its augmented data in the
\* database and does not generate it: its own key is certified only with the quorum's
\* signatures.
Init ==
  /\ apks \in {{}, {Self}}
  /\ certified = FALSE
  /\ incoming_blocks = <<>>
  /\ reset_rx = {}
  /\ stop = FALSE
  /\ rand_map = [p \in Paths |-> [r \in Rounds |-> NoItem]]
  /\ highest_known_round = 0
  /\ jobs = {}
  /\ queue = {}
  /\ highest_dequeued_round = 0
  /\ tasks = {}
  /\ sent = <<>> /\ outgoing = <<>>
  /\ root = 0
  /\ resets = 0
  /\ panicked = FALSE

----------------------------------------------------------------------------
(* RandStore: what its operations do to the item of a round                *)

TotalWeight(shares) == MapThenSumSet(LAMBDA a : Weight[a], shares)

AcceptsRound(known, r) == r <= known + FutureRounds

\* RandItem::add_share, in an item made for it if there is none.
AddShare(item, a) ==
  IF item.st = "Decided" THEN item
  ELSE [st     |-> IF item.st = "None" THEN "PendingMetadata" ELSE item.st,
        shares |-> item.shares \cup {a}]

\* RandItem::add_metadata.
AddMetadata(item) ==
  IF item.st = "Decided" THEN item ELSE [item EXCEPT !.st = "PendingDecision"]

\* RandItem::try_aggregate: an item that knows its block is decided at the threshold, and
\* its shares go to an aggregation; our own is kept for those who ask.
Aggregates(p, item) == item.st = "PendingDecision" /\ TotalWeight(item.shares) >= Threshold[p]

TryAggregate(p, item) ==
  IF Aggregates(p, item) THEN [st |-> "Decided", shares |-> item.shares \cap {Self}] ELSE item

Aggregation(p, r, item) ==
  IF Aggregates(p, item) THEN {[path |-> p, round |-> r, shares |-> item.shares]} ELSE {}

\* process_incoming_metadata, under the store's lock: our share, on the slow and on the fast
\* path, then the metadata.
ProcessIncomingMetadata(item) == AddMetadata(AddShare(item, Self))

\* RandStore::add_share.
StoreShare(p, r, a) ==
  /\ rand_map' = [rand_map EXCEPT ![p][r] = TryAggregate(p, AddShare(@, a))]
  /\ jobs' = jobs \cup Aggregation(p, r, AddShare(rand_map[p][r], a))

\* RandStore::reset_to_round.
ResetToRound(m, target) ==
  [p \in Paths |-> [r \in Rounds |-> IF r < target THEN m[p][r] ELSE NoItem]]

\* The blocks of a batch enter the store.
StoreBlocks(rounds) ==
  /\ rand_map' = [p \in Paths |-> [r \in Rounds |->
       IF r \in rounds THEN TryAggregate(p, ProcessIncomingMetadata(rand_map[p][r])) ELSE rand_map[p][r]]]
  /\ jobs' = jobs \cup UNION {Aggregation(p, r, ProcessIncomingMetadata(rand_map[p][r])) : p \in Paths, r \in rounds}
  /\ highest_known_round' = Max({highest_known_round} \cup rounds)

----------------------------------------------------------------------------
(* BlockQueue                                                              *)

FirstRound(item) == Min(item.rounds)
LastRound(item)  == Max(item.rounds)

\* dequeue_rand_ready_prefix: the items up to the first that has an undecided block.
ReadyPrefix(q) == {i \in q : \A j \in q : FirstRound(j) <= FirstRound(i) => j.undecided = {}}

InOrder(items) == SetToSortSeq(items, LAMBDA i, j : FirstRound(i) < FirstRound(j))

\* Dropping an item's guards aborts its tasks; a task that is being polled goes on to its
\* next await.
Aborted(ts, rounds) ==
  {t \in ts : t[1] \notin rounds} \cup {<<t[1], "aborted">> : t \in {u \in ts : u[1] \in rounds /\ u[2] \in {"woken", "aborted"}}}

\* The end of every turn of the loop, process_ready_blocks: the queue q, the tasks ts.
Dequeue(q, ts, dequeued) ==
  LET ready == ReadyPrefix(q)
  IN  /\ queue' = q \ ready
      /\ outgoing' = outgoing \o [k \in 1 .. Cardinality(ready) |-> InOrder(ready)[k].rounds]
      /\ highest_dequeued_round' = Max({dequeued} \cup {LastRound(i) : i \in ready})
      /\ tasks' = Aborted(ts, UNION {i.rounds : i \in ready})

\* A turn of the loop that leaves the queue as it is dequeues nothing.
QueueUnchanged == UNCHANGED <<queue, outgoing, highest_dequeued_round, tasks>>

----------------------------------------------------------------------------
(* The turns of the loop in start                                          *)

\* process_incoming_blocks and push_back, once our augmented data is certified: our shares
\* and the metadata are in the store whether or not the queue drops the batch as stale.
ProcessIncomingBlocks ==
  /\ ~ stop /\ certified /\ incoming_blocks # <<>>
  /\ LET rounds == Head(incoming_blocks)
         stale  == highest_dequeued_round # 0 /\ Min(rounds) <= highest_dequeued_round
     IN  /\ StoreBlocks(rounds)
         /\ IF stale
              THEN QueueUnchanged
              ELSE Dequeue(queue \cup {[rounds |-> rounds, undecided |-> rounds]},
                           tasks \cup {<<r, "sleeping">> : r \in rounds}, highest_dequeued_round)
  /\ incoming_blocks' = Tail(incoming_blocks)
  /\ UNCHANGED <<reset_rx, stop, keys, consensus, panicked>>

\* Mutant: the blocks that wait in the channel are not drained.
ProcessResetKeepsIncoming ==
  /\ ~ stop
  /\ \E request \in reset_rx :
       /\ rand_map' = ResetToRound(rand_map, request[2])
       /\ highest_known_round' = Max({highest_known_round, request[2]})
       /\ stop' = (request[1] = "Stop")
  /\ sent' = <<>> /\ outgoing' = <<>>
  /\ queue' = {} /\ highest_dequeued_round' = 0
  /\ tasks' = Aborted(tasks, Rounds)
  /\ reset_rx' = {}
  /\ UNCHANGED <<incoming_blocks, jobs, keys, root, resets, panicked>>

\* A reset drains the channel of blocks and process_reset drops the queue, its tasks and the
\* items from the target round on.
ProcessReset ==
  /\ ~ stop
  /\ \E request \in reset_rx :
       /\ rand_map' = ResetToRound(rand_map, request[2])
       /\ highest_known_round' = Max({highest_known_round, request[2]})
       /\ stop' = (request[1] = "Stop")
  /\ incoming_blocks' = <<>>
  /\ sent' = <<>> /\ outgoing' = <<>>
  /\ queue' = {} /\ highest_dequeued_round' = 0
  /\ tasks' = Aborted(tasks, Rounds)
  /\ reset_rx' = {}
  /\ UNCHANGED <<jobs, keys, root, resets, panicked>>

\* item_mut: the last item that starts at or before the round, if the round is in it.
ItemOf(q, r) ==
  LET before == {i \in q : FirstRound(i) <= r}
      last   == {i \in before : \A j \in before : FirstRound(j) <= FirstRound(i)}
  IN  {i \in last : r \in i.rounds}

\* process_randomness: an aggregation has ended, in whichever order they end, and its
\* decision is taken from decision_rx.
ProcessRandomness(job) ==
  /\ ~ stop /\ job \in jobs
  /\ job.shares \subseteq apks          \* otherwise Share::aggregate fails and sends nothing
  /\ jobs' = jobs \ {job}
  /\ LET items == ItemOf(queue, job.round)
         decided == {[i EXCEPT !.undecided = @ \ {job.round}] : i \in items}
     IN  Dequeue((queue \ items) \cup decided, tasks, highest_dequeued_round)
  /\ UNCHANGED <<incoming_blocks, reset_rx, stop, rand_map, highest_known_round, keys, consensus, panicked>>

\* RequestShare from a peer: our share, made and added again if it is not in the store.
HandleRequestShare(r) ==
  /\ ~ stop /\ r <= highest_known_round
  /\ Self \notin rand_map["Slow"][r].shares
  /\ StoreShare("Slow", r, Self)
  /\ QueueUnchanged
  /\ UNCHANGED <<incoming_blocks, reset_rx, stop, highest_known_round, keys, consensus, panicked>>

\* Share and FastShare from a peer: verified against its certified key.
HandleShare(p, r, a) ==
  /\ ~ stop
  /\ a \in apks \cap Peers
  /\ AcceptsRound(highest_known_round, r)
  /\ rand_map[p][r].st # "Decided" /\ a \notin rand_map[p][r].shares   \* otherwise nothing changes
  /\ StoreShare(p, r, a)
  /\ QueueUnchanged
  /\ UNCHANGED <<incoming_blocks, reset_rx, stop, highest_known_round, keys, consensus, panicked>>

\* CertifiedAugData of a peer, or our own.
HandleCertifiedAugData(a) ==
  /\ ~ stop
  /\ a \notin apks \/ (a = Self /\ ~ certified)
  /\ apks' = apks \cup {a}
  /\ certified' = (certified \/ a = Self)
  /\ QueueUnchanged
  /\ UNCHANGED <<incoming_blocks, reset_rx, stop, store, consensus, panicked>>

----------------------------------------------------------------------------
(* The tasks of spawn_aggregate_shares_task, on other threads              *)

\* 300 ms are over.
WakeTask(r) ==
  /\ <<r, "sleeping">> \in tasks
  /\ tasks' = (tasks \ {<<r, "sleeping">>}) \cup {<<r, "woken">>}
  /\ UNCHANGED <<loop, store, keys, consensus, panicked>>

\* Mutant: the task is content with the shares it finds.
LookUpSharesContent(r, pc) ==
  /\ pc \in {"woken", "aborted"} /\ <<r, pc>> \in tasks
  /\ tasks' = tasks \ {<<r, pc>>}
  /\ panicked' = (panicked \/ rand_map["Slow"][r].st = "PendingMetadata")
  /\ UNCHANGED <<loop, store, keys, consensus>>

\* get_all_shares_authors: a decided round needs nothing, otherwise the others are asked.
LookUpShares(r, pc) ==
  /\ pc \in {"woken", "aborted"} /\ <<r, pc>> \in tasks
  /\ tasks' = (tasks \ {<<r, pc>>}) \cup
       (IF pc = "woken" /\ rand_map["Slow"][r].st = "PendingDecision" THEN {<<r, "asking">>} ELSE {})
  /\ panicked' = (panicked \/ rand_map["Slow"][r].st = "PendingMetadata")
  /\ UNCHANGED <<loop, store, keys, consensus>>

\* ShareAggregateState::add: the answer of a peer that was asked, asked again until it comes
\* and can be verified.  The task ends when the round is decided.
ShareResponse(r, a) ==
  /\ <<r, "asking">> \in tasks
  /\ a \in apks \cap Peers
  /\ StoreShare("Slow", r, a)
  /\ tasks' = IF TryAggregate("Slow", AddShare(rand_map["Slow"][r], a)).st = "Decided"
                THEN tasks \ {<<r, "asking">>} ELSE tasks
  /\ UNCHANGED <<loop, highest_known_round, keys, consensus, panicked>>

----------------------------------------------------------------------------
(* Consensus: blocks in the order of their rounds, and resets              *)

NextRound == IF sent = <<>> THEN root + 1 ELSE Max(Last(sent)) + 1

\* finalize_order.
FinalizeOrder(rounds) ==
  /\ reset_rx = {} /\ ~ stop
  /\ Min(rounds) >= NextRound
  /\ sent' = Append(sent, rounds)
  /\ incoming_blocks' = Append(incoming_blocks, rounds)
  /\ UNCHANGED <<reset_rx, stop, queue, highest_dequeued_round, outgoing, store, keys, root, resets, tasks, panicked>>

\* reset and end_epoch: nothing is sent until the reset is acknowledged.
Reset(signal, target) ==
  /\ reset_rx = {} /\ ~ stop
  /\ resets < MaxResets /\ resets' = resets + 1
  /\ \/ signal = "Stop" /\ target = 0 /\ root' = root
     \/ signal = "TargetRound" /\ target >= root /\ root' = target
  /\ reset_rx' = {<<signal, target>>}
  /\ UNCHANGED <<incoming_blocks, stop, queue, highest_dequeued_round, outgoing, store, keys, sent, tasks, panicked>>

----------------------------------------------------------------------------
Next ==
  \/ ProcessIncomingBlocks
  \/ ProcessReset
  \/ \E job \in jobs : ProcessRandomness(job)
  \/ \E r \in Rounds : HandleRequestShare(r)
  \/ \E p \in Paths, r \in Rounds, a \in Peers : HandleShare(p, r, a)
  \/ \E a \in Authors : HandleCertifiedAugData(a)
  \/ \E r \in Rounds : WakeTask(r)
  \/ \E r \in Rounds, pc \in {"woken", "aborted"} : LookUpShares(r, pc)
  \/ \E r \in Rounds, a \in Peers : ShareResponse(r, a)
  \/ \E rounds \in Batches : FinalizeOrder(rounds)
  \/ \E signal \in {"Stop", "TargetRound"}, target \in 0 .. MaxRound : Reset(signal, target)

Spec == Init /\ [][Next]_vars

\* The loop and the tasks are scheduled, a peer that is asked answers in the end, and the
\* reliable broadcast of augmented data reaches its quorum and everyone.  No share needs to
\* come unasked.
Fairness ==
  /\ WF_vars(ProcessIncomingBlocks)
  /\ WF_vars(ProcessReset)
  /\ \A r \in Rounds :
       /\ WF_vars(\E job \in jobs : job.round = r /\ ProcessRandomness(job))
       /\ WF_vars(WakeTask(r))
       /\ WF_vars(LookUpShares(r, "woken"))
       /\ \A a \in Peers : WF_vars(ShareResponse(r, a))
  /\ \A a \in Authors : WF_vars(HandleCertifiedAugData(a))

FairSpec == Spec /\ Fairness

----------------------------------------------------------------------------
(* Properties                                                              *)

TypeOK ==
  /\ apks \subseteq Authors /\ certified \in BOOLEAN /\ stop \in BOOLEAN
  /\ reset_rx \subseteq {"Stop", "TargetRound"} \X (0 .. MaxRound)
  /\ \A p \in Paths, r \in Rounds :
       /\ rand_map[p][r].st \in {"None", "PendingMetadata", "PendingDecision", "Decided"}
       /\ rand_map[p][r].shares \subseteq Authors
  /\ \A i \in queue : i.rounds \in Batches /\ i.undecided \subseteq i.rounds
  /\ tasks \subseteq Rounds \X {"sleeping", "woken", "aborted", "asking"}
  /\ highest_known_round \in 0 .. MaxRound /\ highest_dequeued_round \in 0 .. MaxRound

\* Blocks leave the manager in the order consensus sent them, none twice and none left out:
\* what left, what is queued and what waits in the channel is what was sent since the last
\* reset, and nothing from before a reset comes after it.
BlocksInOrder ==
  sent = outgoing \o [k \in 1 .. Cardinality(queue) |-> InOrder(queue)[k].rounds] \o incoming_blocks

\* An item is aggregated with our own share among the others: the expect of try_aggregate,
\* "Aggregated item should have self share", holds on every path by which a share or the
\* block comes last.
AggregatesWithSelfShare ==
  /\ \A job \in jobs : Self \in job.shares
  /\ \A p \in Paths, r \in Rounds :
       rand_map[p][r].st \in {"PendingDecision", "Decided"} => Self \in rand_map[p][r].shares

\* An aggregation never misses the key of one of its shares, so the failure that would
\* stall the chain until the epoch ends cannot come from there: not even from our own
\* share after a restart, when our augmented data is known but not certified yet.
AggregationHasKeys == \A job \in jobs : job.shares \subseteq apks

\* Every queued block whose shares are not complete has someone who asks for them, and
\* every one whose shares are complete has its decision on the way: resets do not leave a
\* decided item behind for a block that comes again.
QueuedBlockProgresses ==
  \A i \in queue : \A r \in i.undecided :
    \/ \E job \in jobs : job.round = r
    \/ \E pc \in {"sleeping", "woken", "asking"} : <<r, pc>> \in tasks
=============================================================================
