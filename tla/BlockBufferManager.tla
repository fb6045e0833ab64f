------------------------- MODULE BlockBufferManager -------------------------
(***************************************************************************)
(* The block buffer manager: the shared map through which consensus and    *)
(* reth exchange blocks (crates/block-buffer-manager).  Every method takes *)
(* the mutex once per attempt, so every method is one action here, and     *)
(* what it returns is a state function of the state the action reads.      *)
(* The callers are in the modules RethCli and ExecutionPipeline.           *)
(*                                                                         *)
(* A block is known by its epoch and number, which make its id.  Payloads, *)
(* rounds, timestamps, hashes and profiles are left out.                   *)
(***************************************************************************)
EXTENDS Integers, FiniteSets, FiniteSetsExt

CONSTANTS
  MaxEpoch,       \* bound: epochs are 0 .. MaxEpoch, 0 being the genesis block's
  MaxBlock,       \* bound: block numbers are 0 .. MaxBlock
  MaxBlockSize,   \* config.max_block_size: removal starts at this many blocks
  None            \* an absent value

ASSUME BufferAssumption ==
  /\ MaxEpoch \in Nat \ {0}
  /\ MaxBlock \in Nat \ {0}
  /\ MaxBlockSize \in Nat

VARIABLES
  blocks,               \* BlockKey -> BlockState, None where the map has no entry
  latest_commit,        \* latest_commit_block_number
  latest_finalized,     \* latest_finalized_block_number
  current_epoch,
  next_epoch,           \* set by a reconfiguration block, taken by the release
  epoch_change_number,  \* latest_epoch_change_block_number, 0 when none is pending
  epoch_change_info,    \* epoch_change_block_info: the cached EpochChangeCache
  epoch_change_ready    \* released, and not yet consumed by the execution loop

bufferVars == <<blocks, latest_commit, latest_finalized, current_epoch, next_epoch,
                epoch_change_number, epoch_change_info, epoch_change_ready>>

Epochs  == 0 .. MaxEpoch
Numbers == 0 .. MaxBlock
Keys    == Epochs \X Numbers

\* The id of a block: consensus orders one block per epoch and number.
Id(e, n) == <<e, n>>

----------------------------------------------------------------------------
(* Block states and compute results.                                       *)

\* A result computed by reth; `epoch_state` is the new epoch of a reconfiguration.
Executed(epoch_state) == [epoch_state |-> epoch_state, dummy |-> FALSE]
\* StateComputeResult::new_dummy and new_dummy_with_epoch_state.
Dummy(epoch_state)    == [epoch_state |-> epoch_state, dummy |-> TRUE]

Ordered(id, parent)         == [st |-> "Ordered", id |-> id, parent |-> parent]
Computed(id, res)           == [st |-> "Computed", id |-> id, res |-> res]
Committed(id, res, persist_notifier) ==
  [st |-> "Committed", id |-> id, res |-> res, persist_notifier |-> persist_notifier]
Historical(id)              == [st |-> "Historical", id |-> id]

Present(k) == k \in Keys /\ blocks[k] # None
Is(k, st)  == Present(k) /\ blocks[k].st = st

\* What the map holds, and the cached epoch change.  The first block of an epoch has a parent
\* outside the map, the epoch's own genesis block.
ComputeResults    == [epoch_state : Epochs \cup {None}, dummy : BOOLEAN]
EpochChangeCaches == [number : Numbers, epoch_state : Epochs]
BlockStates ==
  [st : {"Ordered"}, id : Keys, parent : Keys] \cup
  [st : {"Ordered"}, id : Keys, parent : Epochs \X {"genesis"}] \cup
  [st : {"Computed"}, id : Keys, res : ComputeResults] \cup
  [st : {"Committed"}, id : Keys, res : ComputeResults, persist_notifier : BOOLEAN] \cup
  [st : {"Historical"}, id : Keys]

\* An absent value is none of the values that may be present.
ASSUME BufferNoneAssumption ==
  None \notin Int /\ None \notin BlockStates /\ None \notin EpochChangeCaches

\* is_suffix_block: past the reconfiguration block of the epoch that is ending.
IsSuffixBlock(n) == epoch_change_info # None /\ n > epoch_change_info.number

\* is_stale_commit_after_epoch_change
IsStaleCommit(e, n) == e < current_epoch \/ (e = current_epoch /\ IsSuffixBlock(n))

----------------------------------------------------------------------------
(* init: the state left by a successful init() for a node whose reth       *)
(* database holds blocks up to `number`; `epoch` is consensus' max epoch.  *)

InitBuffer(number, id_epoch, id, epoch) ==
  /\ blocks = [k \in Keys |-> IF k = <<id_epoch, number>> THEN Historical(id) ELSE None]
  /\ latest_commit = number
  /\ latest_finalized = number
  /\ current_epoch = epoch
  /\ next_epoch = None
  /\ epoch_change_number = 0
  /\ epoch_change_info = None
  /\ epoch_change_ready = FALSE

\* init_epoch: EpochManager::start corrects the epoch from the on-chain configuration.
InitEpoch(epoch) ==
  /\ current_epoch' = epoch
  /\ UNCHANGED <<blocks, latest_commit, latest_finalized, next_epoch,
                 epoch_change_number, epoch_change_info, epoch_change_ready>>

\* remove_committed_blocks, run every remove_committed_blocks_interval.
RemoveCommittedBlocks ==
  /\ Cardinality({k \in Keys : Present(k)}) >= MaxBlockSize
  /\ blocks' = [k \in Keys |-> IF k[2] >= latest_finalized THEN blocks[k] ELSE None]
  /\ UNCHANGED <<latest_commit, latest_finalized, current_epoch, next_epoch,
                 epoch_change_number, epoch_change_info, epoch_change_ready>>

----------------------------------------------------------------------------
(* Consensus to reth: ordered blocks.                                      *)

SetOrderedFails(e) == epoch_change_ready \/ e > current_epoch

\* Mutant: the parent is only looked up in the block's own epoch.
ActualParentInEpoch(e, n, parent_id) ==
  IF Present(<<e, n - 1>>) THEN blocks[<<e, n - 1>>].id ELSE parent_id

\* The block stored one below, in the same epoch or else in the previous one,
\* replaces the parent consensus names.
ActualParent(e, n, parent_id) ==
  IF Present(<<e, n - 1>>) THEN blocks[<<e, n - 1>>].id
  ELSE IF Present(<<e - 1, n - 1>>) THEN blocks[<<e - 1, n - 1>>].id
  ELSE parent_id

\* set_ordered_blocks: a block of an old epoch and a block already there are dropped.
SetOrderedBlocks(e, n, id, parent_id) ==
  /\ blocks' = IF SetOrderedFails(e) \/ e < current_epoch \/ Present(<<e, n>>)
               THEN blocks
               ELSE [blocks EXCEPT ![<<e, n>>] = Ordered(id, ActualParent(e, n, parent_id))]
  /\ UNCHANGED <<latest_commit, latest_finalized, current_epoch, next_epoch,
                 epoch_change_number, epoch_change_info, epoch_change_ready>>

\* The numbers from `start` on whose blocks are all in state `st`.
RunFrom(start, e, st) ==
  {n \in Numbers : n >= start /\ \A m \in start .. n : Is(<<e, m>>, st)}

\* get_ordered_blocks: an error during an epoch change, else the run of ordered blocks.
GetOrderedFails(expected_epoch) == epoch_change_ready \/ current_epoch # expected_epoch
OrderedRun(start, e) == RunFrom(start, e, "Ordered")

----------------------------------------------------------------------------
(* reth to consensus: compute results.                                     *)

\* What get_executed_res answers in the current state.
ExecutedRes(e, n, id) ==
  LET k == <<e, n>> IN
  IF Is(k, "Ordered")
  THEN IF IsSuffixBlock(n) THEN [kind |-> "ok", res |-> Dummy(epoch_change_info.epoch_state)]
                           ELSE [kind |-> "wait"]
  ELSE IF Is(k, "Computed") \/ Is(k, "Committed")
  THEN IF blocks[k].id = id THEN [kind |-> "ok", res |-> blocks[k].res] ELSE [kind |-> "err"]
  ELSE IF ~Present(k) /\ e < current_epoch THEN [kind |-> "ok", res |-> Dummy(None)]
  ELSE [kind |-> "err"]

\* get_executed_res: asking for an ordered suffix block computes it.
GetExecutedRes(e, n, id) ==
  /\ blocks' = IF Is(<<e, n>>, "Ordered") /\ IsSuffixBlock(n)
               THEN [blocks EXCEPT ![<<e, n>>] =
                       Computed(id, Dummy(epoch_change_info.epoch_state))]
               ELSE blocks
  /\ UNCHANGED <<latest_commit, latest_finalized, current_epoch, next_epoch,
                 epoch_change_number, epoch_change_info, epoch_change_ready>>

SetComputeFails(e, n, id) == ~(Is(<<e, n>>, "Ordered") /\ blocks[<<e, n>>].id = id)

\* set_compute_res with calculate_new_epoch_state and handle_epoch_change_suffix_blocks:
\* a reconfiguration block also computes every ordered block behind it in its epoch.
SetComputeRes(e, n, id, new_epoch) ==
  /\ ~SetComputeFails(e, n, id)
  /\ blocks' = [k \in Keys |->
       IF k = <<e, n>> THEN Computed(id, Executed(new_epoch))
       ELSE IF new_epoch # None /\ k[1] = e /\ k[2] > n /\ Is(k, "Ordered")
       THEN Computed(blocks[k].id, Dummy(new_epoch))
       ELSE blocks[k]]
  /\ IF new_epoch = None
     THEN UNCHANGED <<next_epoch, epoch_change_number, epoch_change_info>>
     ELSE /\ next_epoch' = new_epoch
          /\ epoch_change_number' = n
          /\ epoch_change_info' = [number |-> n, epoch_state |-> new_epoch]
  /\ UNCHANGED <<latest_commit, latest_finalized, current_epoch, epoch_change_ready>>

\* Mutant: the epoch's boundary is not remembered for the suffix blocks.
EpochChangeBlockInfoLost(n, e) == None

\* get_epoch_change_block_info: the boundary block, asked for a suffix block.
EpochChangeBlockInfo(n, e) ==
  IF IsSuffixBlock(n) /\ e = current_epoch THEN epoch_change_info.number ELSE None

----------------------------------------------------------------------------
(* Consensus to reth: commits.                                             *)

\* The block of the batch at which set_commit_blocks returns an error.
CommitRejects(e, n, id) ==
  LET k == <<e, n>> IN
  \/ Is(k, "Ordered")
  \/ (Is(k, "Computed") \/ Is(k, "Historical")) /\ blocks[k].id # id
  \/ Is(k, "Committed") /\ ~IsSuffixBlock(n) /\ blocks[k].id # id
  \/ ~Present(k) /\ ~IsStaleCommit(e, n)

\* Mutant: no committed block carries a persist notifier.
NeedsNotifierNever(k) == FALSE

\* A committed reconfiguration block gets a notifier its committer waits for.
NeedsNotifier(k) == blocks[k].res.epoch_state # None /\ ~IsSuffixBlock(k[2])

SetCommitFails(e, nums) == \E n \in nums : CommitRejects(e, n, Id(e, n))

\* The notifiers set_commit_blocks returns.
CommitNotifiers(e, nums) ==
  {k \in {<<e, n>> : n \in nums} : Is(k, "Computed") /\ NeedsNotifier(k)}

\* set_commit_blocks: the blocks ahead of a rejected one are committed all the same.
SetCommitBlocks(e, nums) ==
  LET done == {n \in nums : \A m \in nums : m <= n => ~CommitRejects(e, m, Id(e, m))} IN
  /\ blocks' = [k \in Keys |->
       IF k[1] = e /\ k[2] \in done /\ Is(k, "Computed")
       THEN Committed(blocks[k].id, blocks[k].res, NeedsNotifier(k))
       ELSE blocks[k]]
  /\ UNCHANGED <<latest_commit, latest_finalized, current_epoch, next_epoch,
                 epoch_change_number, epoch_change_info, epoch_change_ready>>

\* Mutant: suffix blocks are handed to reth as well.
CommittedRunWithSuffix(start, e) == RunFrom(start, e, "Committed")

\* get_committed_blocks: the run of committed blocks, short of the first suffix block.
CommittedRun(start, e) == {n \in RunFrom(start, e, "Committed") : ~IsSuffixBlock(n)}

\* The notifiers the returned blocks carry away.
TakenNotifiers(start, e) ==
  {k \in {<<e, n>> : n \in CommittedRun(start, e)} : blocks[k].persist_notifier}

\* Mutant: the notifier stays in the map.
GetCommittedKeepsNotifier(start, e) == UNCHANGED bufferVars

GetCommittedBlocks(start, e) ==
  /\ blocks' = [k \in Keys |->
       IF k \in TakenNotifiers(start, e) THEN Committed(blocks[k].id, blocks[k].res, FALSE)
       ELSE blocks[k]]
  /\ UNCHANGED <<latest_commit, latest_finalized, current_epoch, next_epoch,
                 epoch_change_number, epoch_change_info, epoch_change_ready>>

SetState(commit_number, finalized_number) ==
  /\ latest_commit' = commit_number
  /\ latest_finalized' = finalized_number
  /\ UNCHANGED <<blocks, current_epoch, next_epoch,
                 epoch_change_number, epoch_change_info, epoch_change_ready>>

----------------------------------------------------------------------------
(* The epoch change.                                                       *)

PendingEpochChange ==
  epoch_change_number # 0 \/ next_epoch # None \/ epoch_change_info # None

\* release_inflight_blocks, called by BufferManager::reset: advances the epoch, drops
\* the blocks past the reconfiguration block and asks the execution loop to follow.
ReleaseInflightBlocks ==
  IF ~PendingEpochChange THEN UNCHANGED bufferVars ELSE
  /\ current_epoch' = IF next_epoch # None THEN next_epoch ELSE current_epoch
  /\ next_epoch' = None
  /\ blocks' = [k \in Keys |-> IF k[2] <= epoch_change_number THEN blocks[k] ELSE None]
  /\ epoch_change_info' = None
  /\ epoch_change_ready' = TRUE
  /\ UNCHANGED <<latest_commit, latest_finalized, epoch_change_number>>

\* What consume_epoch_change returns: the epoch to follow and the block it starts behind.
ConsumedEpoch  == IF next_epoch # None THEN next_epoch ELSE current_epoch
ConsumedNumber == IF epoch_change_number = 0 THEN latest_commit ELSE epoch_change_number

ConsumeEpochChange ==
  /\ epoch_change_number' = 0
  /\ epoch_change_ready' = FALSE
  /\ UNCHANGED <<blocks, latest_commit, latest_finalized, current_epoch, next_epoch,
                 epoch_change_info>>
=============================================================================
