-------------------------- MODULE ConsensusObserver --------------------------
(***************************************************************************)
(* A consensus observer: it follows the ordered blocks, payloads and       *)
(* commit decisions that one publisher sends it, hands the blocks to its   *)
(* own execution pipeline and falls back on state sync                     *)
(* (consensus_observer/observer.rs, payload_store.rs, pending_blocks.rs,   *)
(* ordered_blocks.rs).                                                     *)
(*                                                                         *)
(* The chain is 0 .. Height in the order of (epoch, round); the first block  *)
(* of an epoch has the genesis of the epoch as its parent, whose id is no  *)
(* id of the epoch before.  Publishers are honest and each sends its own   *)
(* batches of blocks and their decisions in order; any message may be      *)
(* lost, and a payload may come at any time and more than once.            *)
(***************************************************************************)
EXTENDS Integers, Sequences, FiniteSets, SequencesExt, FiniteSetsExt

CONSTANTS
  Peers, NoPeer,
  Height, EpochOf, Round,     \* the chain
  Batches,                  \* peer -> the sequence of ordered batches <<first, last>> it publishes
  QuorumStoreEnabled,
  MaxNumPendingBlocks,      \* max_num_pending_blocks
  MaxSyncFailures           \* bound

Blocks == 1 .. Height
NoSync == [target |-> 0, epoch_changed |-> FALSE]

VARIABLES
  epoch,          \* epoch_state.epoch
  root,           \* the block of the root ledger info
  payloads,       \* block -> "none", "unverified", "verified"
  pending,        \* batches that wait for payloads
  ordered,        \* the ordered block store
  decided,        \* the batches of it that have a commit decision
  sync_handle,    \* NoSync, or the target and whether the epoch changes
  task,           \* the state sync task: its stage and its target
  notifications,  \* the targets in sync_notification_listener
  loop,           \* "select", or "epoch" while it waits for the start of an epoch
  subscription,
  exec, decisions, \* the batches in the execution pipeline, and the decisions it was sent
  base,           \* where the pipeline begins: the last reset or commit
  state,          \* the highest block that is committed in the ledger
  reconfig,       \* the epoch in reconfig_events (it keeps the latest), or 0
  callbacks,      \* the last blocks of commits whose callbacks are in async_state_sync_notifier
  callback,       \* that of the callback that has yet to update the root, or 0
  sent,           \* peer -> how many of its batches were ordered, and how many committed
  failures

stores == <<payloads, pending, ordered, decided>>
syncing == <<sync_handle, task, notifications, loop, failures>>
pipeline == <<exec, decisions, base, state, reconfig, callbacks, callback>>
vars == <<epoch, root, stores, syncing, subscription, pipeline, sent>>

Init ==
  /\ epoch = 1 /\ root = 0
  /\ payloads = [b \in Blocks |-> "none"] /\ pending = {} /\ ordered = {} /\ decided = {}
  /\ sync_handle = NoSync /\ task = [stage |-> "none", target |-> 0] /\ notifications = <<>>
  /\ loop = "select" /\ failures = 0
  /\ subscription = NoPeer
  /\ exec = <<>> /\ decisions = {} /\ base = 0 /\ state = 0 /\ reconfig = 0
  /\ callbacks = <<>> /\ callback = 0
  /\ sent = [p \in Peers |-> [ordered |-> 0, committed |-> 0]]

----------------------------------------------------------------------------
(* The stores                                                              *)

BlocksOf(q) == q[1] .. q[2]

\* BlockPayloadStore::all_payloads_exist.
PayloadsVerified(ps, q) == \A b \in BlocksOf(q) : ps[b] = "verified"

\* ConsensusObserver::all_payloads_exist.
AllPayloadsExist(ps, q) == QuorumStoreEnabled => PayloadsVerified(ps, q)

\* A full store drops the payload, also one of a block it has.
InsertBlockPayload(ps, b, status) ==
  IF Cardinality({c \in Blocks : ps[c] # "none"}) >= MaxNumPendingBlocks THEN ps
  ELSE [ps EXCEPT ![b] = status]

RemovePayloadsUpTo(ps, b) == [c \in Blocks |-> IF c <= b THEN "none" ELSE ps[c]]

\* A batch is stored under its first block; when there are too many the oldest goes.
InsertPendingBlock(q) ==
  LET all == IF \E o \in pending : o[1] = q[1] THEN pending ELSE pending \cup {q}
      oldest == CHOOSE o \in all : \A r \in all : o[1] <= r[1]
  IN IF Cardinality(all) > MaxNumPendingBlocks THEN all \ {oldest} ELSE all

\* remove_ready_block: the newest batch that begins at or before the payload is the candidate,
\* those before it are dropped.
Candidate(pend, b) ==
  {q \in pend : q[1] <= b /\ \A r \in pend : r[1] <= b => r[1] <= q[1]}

RemoveReadyBlock(pend, ps, b) ==
  {q \in pend : q[1] > b}
    \cup {q \in Candidate(pend, b) : ~PayloadsVerified(ps, q) /\ Round[q[2]] > Round[b]}

ReadyBlock(pend, ps, b) == {q \in Candidate(pend, b) : PayloadsVerified(ps, q)}

\* get_last_block: the last of the ordered blocks, or the root.
LastBlock(ord, r) == IF ord = {} THEN r ELSE Max({q[2] : q \in ord})

\* The parent of the first block of the batch is the block.
Follows(q, b) == q[1] = b + 1 /\ EpochOf[q[1]] = EpochOf[b]

\* insert_ordered_block.
InsertOrderedBlock(ord, q) == IF Cardinality(ord) >= MaxNumPendingBlocks THEN ord ELSE ord \cup {q}

RemoveForCommit(ord, b) == {q \in ord : q[2] > b}

\* The checks of process_ordered_block: the epoch, the payloads (those in the store, also when
\* quorum store is disabled), the parent.
Accepts(q, ps, ord, e) ==
  /\ EpochOf[q[2]] = e
  /\ PayloadsVerified(ps, q)
  /\ Follows(q, LastBlock(ord, root))

Finalizes == sync_handle = NoSync

\* process_ordered_block, on the batches that are ready: at most one.
ProcessOrdered(qs, ps, e, s) ==
  IF \E q \in qs : Accepts(q, ps, s.ordered, e)
  THEN LET q == CHOOSE q \in qs : TRUE IN
       [s EXCEPT !.ordered = InsertOrderedBlock(@, q),
                 !.exec = IF Finalizes THEN Append(@, q) ELSE @]
  ELSE s

\* order_ready_pending_block.
OrderReady(b, ps, e, s) ==
  ProcessOrdered(ReadyBlock(s.pending, ps, b), ps, e,
                 [s EXCEPT !.pending = RemoveReadyBlock(@, ps, b)])

Stored == [pending |-> pending, ordered |-> ordered, exec |-> exec]
Store(s) == pending' = s.pending /\ ordered' = s.ordered /\ exec' = s.exec

----------------------------------------------------------------------------
(* Messages                                                                *)

\* A message of a peer that is not the one subscribed to is answered by unsubscribing from it.
Receives(p) == loop = "select" /\ subscription = p

BlockPayload(p, b) ==
  LET status == IF EpochOf[b] = epoch THEN "verified" ELSE "unverified" IN
  /\ Receives(p)
  /\ QuorumStoreEnabled
  /\ payloads' = InsertBlockPayload(payloads, b, status)
  /\ Store(IF status = "verified" THEN OrderReady(b, payloads', epoch, Stored) ELSE Stored)
  /\ UNCHANGED <<epoch, root, decided, syncing, subscription, decisions, base, state, reconfig, callbacks, callback, sent>>

OrderedBlock(p, i) ==
  LET q == Batches[p][i] IN
  /\ Receives(p)
  /\ i > sent[p].ordered
  /\ sent' = [sent EXCEPT ![p].ordered = i]
  /\ Store(IF AllPayloadsExist(payloads, q) THEN ProcessOrdered({q}, payloads, epoch, Stored)
           ELSE [Stored EXCEPT !.pending = InsertPendingBlock(q)])
  /\ UNCHANGED <<epoch, root, payloads, decided, syncing, subscription, decisions, base, state, reconfig, callbacks, callback>>

\* process_commit_decision_for_pending_block: the batch that it decides.
Decides(b) == {q \in ordered : q[2] = b /\ EpochOf[b] = epoch /\ AllPayloadsExist(payloads, q)}

NeedsSync(b) ==
  LET last == LastBlock(ordered, root) IN EpochOf[b] > EpochOf[last] \/ Round[b] > Round[last]

\* The decision of a batch that is ordered here goes to the pipeline, at once or after the sync.
StoreDecision(b) ==
  /\ decided' = decided \cup Decides(b)
  /\ decisions' = IF sync_handle = NoSync THEN decisions \cup {b} ELSE decisions
  /\ UNCHANGED <<root, payloads, ordered, sync_handle, task>>

\* Any other, if it is ahead, becomes the root and the target of a state sync; a sync that is
\* under way is aborted.
StartSync(b) ==
  /\ root' = b
  /\ payloads' = RemovePayloadsUpTo(payloads, b)
  /\ ordered' = RemoveForCommit(ordered, b)
  /\ decided' = RemoveForCommit(decided, b)
  /\ task' = [stage |-> "start", target |-> b]
  /\ sync_handle' = [target |-> b, epoch_changed |-> EpochOf[b] > EpochOf[LastBlock(ordered, root)]]
  /\ UNCHANGED decisions

CommitDecision(p, i) ==
  LET b == Batches[p][i][2] IN
  /\ Receives(p)
  /\ i > sent[p].committed
  /\ sent' = [sent EXCEPT ![p] = [ordered |-> Max({i, sent[p].ordered}), committed |-> i]]
  /\ IF Decides(b) # {} THEN StoreDecision(b)
     ELSE IF NeedsSync(b) /\ ~sync_handle.epoch_changed THEN StartSync(b)
     ELSE UNCHANGED <<root, payloads, ordered, decided, sync_handle, task, decisions>>
  /\ UNCHANGED <<epoch, pending, notifications, loop, failures, subscription, exec, base, state, reconfig, callbacks, callback>>

----------------------------------------------------------------------------
(* State sync                                                              *)

\* sync_to resets the pipeline before anything else.
SyncStart ==
  /\ task.stage = "start"
  /\ task' = [task EXCEPT !.stage = "syncing"]
  /\ exec' = <<>> /\ decisions' = {} /\ base' = task.target
  /\ UNCHANGED <<epoch, root, stores, sync_handle, notifications, loop, failures, subscription, state, reconfig, callbacks, callback, sent>>

\* The epoch after a block: the last block of an epoch ends it.
EpochAfter(b) == IF b < Height /\ EpochOf[b + 1] > EpochOf[b] THEN EpochOf[b + 1] ELSE EpochOf[b]

\* The ledger reaches the block; reconfig_events gets the epoch that begins.
Reaches(b) ==
  /\ state' = Max({state, b})
  /\ reconfig' = IF EpochAfter(state') > EpochAfter(state) THEN EpochAfter(state') ELSE reconfig

\* The notification is sent also when the sync failed.
SyncDone(ok) ==
  /\ task.stage = "syncing"
  /\ IF ok THEN Reaches(task.target) /\ UNCHANGED failures
     ELSE failures < MaxSyncFailures /\ failures' = failures + 1 /\ UNCHANGED <<state, reconfig>>
  /\ notifications' = Append(notifications, task.target)
  /\ task' = [stage |-> "none", target |-> 0]
  /\ UNCHANGED <<epoch, root, stores, sync_handle, loop, subscription, exec, decisions, base, callbacks, callback, sent>>

InOrder(qs) == SetToSortSeq(qs, LAMBDA q, r : q[1] < r[1])

\* The end of process_sync_notification: everything that is ordered goes to the pipeline.
FinishSync(s) ==
  /\ sync_handle' = NoSync
  /\ exec' = s.exec \o InOrder(s.ordered)
  /\ decisions' = decisions \cup {q[2] : q \in decided}
  /\ pending' = s.pending /\ ordered' = s.ordered

\* Mutant: a notification of a sync that was replaced is taken for the one it waits for.
IsRootAny(b) == TRUE

\* check_root_epoch_and_round.
IsRoot(b) == b = root

SyncNotification ==
  LET b == Head(notifications) IN
  /\ loop = "select" /\ notifications # <<>>
  /\ notifications' = Tail(notifications)
  /\ \/ /\ ~IsRoot(b)
        /\ UNCHANGED <<pending, ordered, sync_handle, loop, exec, decisions, base>>
     \/ /\ IsRoot(b) /\ EpochOf[b] <= epoch
        /\ FinishSync(Stored)
        /\ UNCHANGED <<loop, base>>
     \/ /\ IsRoot(b) /\ EpochOf[b] > epoch        \* end_epoch, then wait_for_epoch_start
        /\ loop' = "epoch"
        /\ exec' = <<>> /\ decisions' = {} /\ base' = b
        /\ UNCHANGED <<pending, ordered, sync_handle>>
  /\ UNCHANGED <<epoch, root, payloads, decided, task, failures, subscription, state, reconfig, callbacks, callback, sent>>

\* verify_payload_signatures: the payloads of the new epoch that were kept unverified, and the
\* store after them; a store that is full drops them again and keeps them unverified.
NewlyVerified == {b \in Blocks : EpochOf[b] = reconfig /\ payloads[b] = "unverified"}

VerifyPayloadSignatures ==
  FoldLeft(LAMBDA ps, b : InsertBlockPayload(ps, b, "verified"), payloads, SetToSortSeq(NewlyVerified, <))

EpochStart ==
  /\ loop = "epoch" /\ reconfig # 0
  /\ loop' = "select"
  /\ epoch' = reconfig /\ reconfig' = 0
  /\ payloads' = VerifyPayloadSignatures
  /\ FinishSync(FoldLeft(LAMBDA s, b : OrderReady(b, payloads', epoch', s), Stored, SetToSortSeq(NewlyVerified, <)))
  /\ UNCHANGED <<root, decided, task, notifications, failures, subscription, base, state, callbacks, callback, sent>>

----------------------------------------------------------------------------
(* The execution pipeline, and its commit callback                         *)

\* The batches up to one with a decision are committed; the callback is left to another task.
Commit(i) ==
  LET b == exec[i][2] IN
  /\ b \in decisions
  /\ exec' = SubSeq(exec, i + 1, Len(exec))
  /\ base' = b
  /\ Reaches(b)
  /\ callbacks' = Append(callbacks, b)
  /\ UNCHANGED <<epoch, root, stores, syncing, subscription, decisions, callback, sent>>

\* It clears the stores ...
CallbackClears ==
  LET b == Head(callbacks) IN
  /\ callbacks # <<>> /\ callback = 0
  /\ payloads' = RemovePayloadsUpTo(payloads, b)
  /\ ordered' = RemoveForCommit(ordered, b)
  /\ decided' = RemoveForCommit(decided, b)
  /\ callbacks' = Tail(callbacks) /\ callback' = b
  /\ UNCHANGED <<epoch, root, pending, syncing, subscription, exec, decisions, base, state, reconfig, sent>>

Raises(b) == EpochOf[b] = EpochOf[root] /\ Round[b] > Round[root]

\* ... and then, under another lock, updates the root.
CallbackUpdatesRoot ==
  /\ callback # 0
  /\ root' = IF Raises(callback) THEN callback ELSE root
  /\ callback' = 0
  /\ UNCHANGED <<epoch, stores, syncing, subscription, exec, decisions, base, state, reconfig, callbacks, sent>>

----------------------------------------------------------------------------
(* Subscriptions                                                           *)

\* check_progress, when the subscription is not healthy (or there is none): one with any other
\* peer, or none when no peer answers; with a new one everything begins again at the root.
CheckProgress(p) ==
  /\ loop = "select" /\ sync_handle = NoSync
  /\ p # subscription
  /\ subscription' = p
  /\ IF p = NoPeer THEN UNCHANGED <<stores, exec, decisions, base>>
     ELSE /\ payloads' = [b \in Blocks |-> "none"]
          /\ pending' = {} /\ ordered' = {} /\ decided' = {}
          /\ exec' = <<>> /\ decisions' = {} /\ base' = root
  /\ UNCHANGED <<epoch, root, syncing, state, reconfig, callbacks, callback, sent>>

Next ==
  \/ \E p \in Peers, b \in Blocks : BlockPayload(p, b)
  \/ \E p \in Peers : \E i \in DOMAIN Batches[p] : OrderedBlock(p, i) \/ CommitDecision(p, i)
  \/ SyncStart \/ (\E ok \in BOOLEAN : SyncDone(ok)) \/ SyncNotification \/ EpochStart
  \/ (\E i \in DOMAIN exec : Commit(i)) \/ CallbackClears \/ CallbackUpdatesRoot
  \/ \E p \in Peers \cup {NoPeer} : CheckProgress(p)

Spec == Init /\ [][Next]_vars

----------------------------------------------------------------------------
TypeOK ==
  /\ epoch \in {EpochOf[b] : b \in 0 .. Height} /\ root \in 0 .. Height /\ state \in 0 .. Height
  /\ Cardinality(ordered) <= MaxNumPendingBlocks
  /\ Cardinality(pending) <= MaxNumPendingBlocks
  /\ Cardinality({b \in Blocks : payloads[b] # "none"}) <= MaxNumPendingBlocks
  /\ decided \subseteq ordered

\* Execution gets the chain: each batch in the pipeline follows the one before it, and the parent
\* of the first is in the ledger or was the target of a state sync (process_ordered_block,
\* process_sync_notification, clear_pending_block_state).
ExecutionGetsChain ==
  \A i \in DOMAIN exec :
    IF i = 1 THEN exec[i][1] - 1 <= Max({base, state}) ELSE Follows(exec[i], exec[i - 1][2])

\* The pipeline is empty from the reset of a sync on until its notification is processed: what is
\* ordered meanwhile is finalized afterwards (process_ordered_block, process_sync_notification).
NothingExecutesDuringSync ==
  sync_handle # NoSync /\ task.stage # "start" => exec = <<>>

\* While a sync is awaited, its task runs or its notification is there to be read, and the root is
\* its target unless the pipeline had committed more (sync_to_commit_decision aborts the task of
\* the sync before it, not its notification).
SyncIsNotified ==
  sync_handle # NoSync /\ loop = "select" =>
    LET b == sync_handle.target IN
    \/ root = b /\ (task.target = b \/ \E i \in DOMAIN notifications : notifications[i] = b)
    \/ root > b /\ state >= root

\* check_progress: "If we're in state sync mode, we should wait for state sync to complete". It
\* does not wait for a notification that will be refused or has been.
WaitsForSyncOnly ==
  sync_handle # NoSync /\ loop = "select" => root = sync_handle.target

=============================================================================
