------------------------------ MODULE RethCli ------------------------------
(***************************************************************************)
(* The reth side of the block buffer manager: the three tasks of           *)
(* RethCoordinator::run (start_execution, start_commit_vote, start_commit) *)
(* and, external to the repository, the execution pipe they drive.         *)
(*                                                                         *)
(* The tasks share one atomic, `current_epoch`, and call the buffer        *)
(* manager; each action below is a task's step between two shared          *)
(* accesses.  A task that returns an error takes the coordinator down.     *)
(***************************************************************************)
EXTENDS BlockBufferManager, Sequences, SequencesExt

VARIABLES
  reth_epoch,          \* RethCli.current_epoch
  start_ordered_block, \* start_execution: the next block to fetch
  exec_pc,             \* start_execution: init, fetch, consume or swap
  consumed,            \* start_execution: what consume_epoch_change returned
  vote,                \* start_commit_vote: a received result and the epoch it goes to
  start_commit_num,    \* start_commit: the next block to commit
  commit_pc,           \* start_commit: load, fetch, set_state or notify
  commit_epoch,        \* start_commit: the epoch it asks for, 0 when it asks for none
  notifiers,           \* start_commit: persist notifiers it has still to send to
  down,                \* the coordinator stopped because a task failed
  pipe,                \* external: ordered blocks pushed and not yet executed
  executed,            \* external: the ids of the blocks executed, by number
  exec_epoch,          \* external: the epoch reth executes in
  results,             \* external: execution results not yet received
  delivered,           \* external: the ids of the blocks told to be committed
  persisted,           \* external: the highest block on disk (recover_block_number)
  boundary             \* external: the block that reconfigures, for each epoch

execVars   == <<start_ordered_block, exec_pc, consumed>>
commitVars == <<start_commit_num, commit_pc, commit_epoch, notifiers>>
pipeVars   == <<pipe, executed, exec_epoch, results, delivered, persisted, boundary>>
rethVars   == <<reth_epoch, execVars, vote, commitVars, down, pipeVars>>

----------------------------------------------------------------------------
(* Ids: a block's epoch and number.  The first block of an epoch names the *)
(* epoch's own genesis block, which reth never sees, as its parent.        *)

GenesisId       == Id(0, 0)
EpochGenesis(e) == <<e, "genesis">>
ExecutedId(n)   == IF n = 0 THEN GenesisId ELSE executed[n]

\* A result on its way from reth to set_compute_res.
Votes == [num : Numbers, id : Keys, new_epoch : Epochs \cup {None}, epoch : Epochs]

ASSUME VoteNoneAssumption == None \notin Votes

\* A node whose reth database ends at block `h`, a block of epoch 1, and which executes in
\* epoch `epoch`.
InitReth(h, epoch) ==
  /\ reth_epoch = 0
  /\ start_ordered_block = h + 1 /\ exec_pc = "init" /\ consumed = None
  /\ vote = None
  /\ start_commit_num = h + 1 /\ commit_pc = "load" /\ commit_epoch = 0 /\ notifiers = {}
  /\ down = FALSE
  /\ pipe = <<>> /\ results = <<>>
  /\ executed = [n \in 1 .. h |-> Id(1, n)]
  /\ exec_epoch = epoch
  /\ delivered = executed
  /\ persisted = h

----------------------------------------------------------------------------
(* start_execution                                                         *)

StartExecution ==
  /\ ~down /\ exec_pc = "init"
  /\ reth_epoch' = current_epoch
  /\ exec_pc' = "fetch"
  /\ UNCHANGED <<bufferVars, start_ordered_block, consumed, vote, commitVars, down, pipeVars>>

\* get_ordered_blocks returned blocks: they are pushed into the pipe, in order.
FetchOrdered ==
  /\ ~down /\ exec_pc = "fetch"
  /\ ~GetOrderedFails(reth_epoch)
  /\ OrderedRun(start_ordered_block, reth_epoch) # {}
  /\ LET last == Max(OrderedRun(start_ordered_block, reth_epoch))
         batch == [i \in 1 .. last - start_ordered_block + 1 |->
                     LET n == start_ordered_block + i - 1
                         b == blocks[<<reth_epoch, n>>]
                     IN [epoch |-> reth_epoch, num |-> n, id |-> b.id, parent |-> b.parent]]
     IN /\ pipe' = pipe \o batch
        /\ start_ordered_block' = last + 1
  /\ UNCHANGED <<bufferVars, reth_epoch, exec_pc, consumed, vote, commitVars, down,
                 executed, exec_epoch, results, delivered, persisted, boundary>>

\* get_ordered_blocks failed on an epoch change, or timed out and the epoch has moved.
NoticeEpochChange ==
  /\ ~down /\ exec_pc = "fetch"
  /\ GetOrderedFails(reth_epoch)
  /\ exec_pc' = "consume"
  /\ UNCHANGED <<bufferVars, reth_epoch, start_ordered_block, consumed, vote, commitVars,
                 down, pipeVars>>

Consume ==
  /\ ~down /\ exec_pc = "consume"
  /\ consumed' = [epoch |-> ConsumedEpoch, num |-> ConsumedNumber]
  /\ ConsumeEpochChange
  /\ exec_pc' = "swap"
  /\ UNCHANGED <<reth_epoch, start_ordered_block, vote, commitVars, down, pipeVars>>

SwapEpoch ==
  /\ ~down /\ exec_pc = "swap"
  /\ start_ordered_block' = consumed.num + 1
  /\ reth_epoch' = consumed.epoch
  /\ consumed' = None
  /\ exec_pc' = "fetch"
  /\ UNCHANGED <<bufferVars, vote, commitVars, down, pipeVars>>

----------------------------------------------------------------------------
(* start_commit_vote                                                       *)

ReceiveResult ==
  /\ ~down /\ vote = None /\ results # <<>>
  /\ vote' = [num |-> Head(results).num, id |-> Head(results).id,
              new_epoch |-> Head(results).new_epoch, epoch |-> reth_epoch]
  /\ results' = Tail(results)
  /\ UNCHANGED <<bufferVars, reth_epoch, execVars, commitVars, down,
                 pipe, executed, exec_epoch, delivered, persisted, boundary>>

\* set_compute_res; its error ends the task.
ReportResult ==
  /\ ~down /\ vote # None
  /\ IF SetComputeFails(vote.epoch, vote.num, vote.id)
     THEN down' = TRUE /\ UNCHANGED bufferVars
     ELSE SetComputeRes(vote.epoch, vote.num, vote.id, vote.new_epoch) /\ UNCHANGED down
  /\ vote' = None
  /\ UNCHANGED <<reth_epoch, execVars, commitVars, pipeVars>>

----------------------------------------------------------------------------
(* start_commit                                                            *)

LoadCommitEpoch ==
  /\ ~down /\ commit_pc = "load"
  /\ commit_epoch' = reth_epoch
  /\ commit_pc' = "fetch"
  /\ UNCHANGED <<bufferVars, reth_epoch, execVars, vote, start_commit_num, notifiers, down,
                 pipeVars>>

\* get_committed_blocks returned blocks.  The pipe must know the last one under its
\* number (get_block_id, then assert_eq); all are then told to be committed.
FetchCommitted ==
  /\ ~down /\ commit_pc = "fetch"
  /\ CommittedRun(start_commit_num, commit_epoch) # {}
  /\ LET last == Max(CommittedRun(start_commit_num, commit_epoch))
         known == /\ last \in DOMAIN executed
                  /\ executed[last] = blocks[<<commit_epoch, last>>].id
     IN /\ down' = ~known
        /\ IF known
           THEN /\ delivered' = delivered \o
                     [i \in 1 .. last - start_commit_num + 1 |->
                        blocks[<<commit_epoch, start_commit_num + i - 1>>].id]
                /\ notifiers' = TakenNotifiers(start_commit_num, commit_epoch)
                /\ start_commit_num' = last + 1
                /\ commit_pc' = "set_state"
           ELSE UNCHANGED <<delivered, notifiers, start_commit_num, commit_pc>>
  /\ GetCommittedBlocks(start_commit_num, commit_epoch)
  /\ commit_epoch' = 0
  /\ UNCHANGED <<reth_epoch, execVars, vote,
                 pipe, executed, exec_epoch, results, persisted, boundary>>

\* Mutant: the loop keeps waiting in the epoch it read.
CommitTimeoutNever == FALSE /\ UNCHANGED <<bufferVars, rethVars>>

\* max_wait_timeout passed without a committed block: the loop reads the epoch again.
CommitTimeout ==
  /\ ~down /\ commit_pc = "fetch"
  /\ CommittedRun(start_commit_num, commit_epoch) = {}
  /\ commit_epoch # reth_epoch
  /\ commit_pc' = "load"
  /\ commit_epoch' = 0
  /\ UNCHANGED <<bufferVars, reth_epoch, execVars, vote, start_commit_num,
                 notifiers, down, pipeVars>>

CommitSetState ==
  /\ ~down /\ commit_pc = "set_state"
  /\ SetState(start_commit_num - 1, persisted)
  /\ commit_pc' = IF notifiers = {} THEN "load" ELSE "notify"
  /\ UNCHANGED <<reth_epoch, execVars, vote, start_commit_num, commit_epoch, notifiers,
                 down, pipeVars>>

\* wait_for_block_persistence, then send to the block's notifier.
NotifyPersisted ==
  /\ ~down /\ commit_pc = "notify"
  /\ \E k \in notifiers :
       /\ \A other \in notifiers : k[2] <= other[2]
       /\ k[2] <= persisted
       /\ notifiers' = notifiers \ {k}
  /\ commit_pc' = IF notifiers' = {} THEN "load" ELSE "notify"
  /\ UNCHANGED <<bufferVars, reth_epoch, execVars, vote, start_commit_num, commit_epoch,
                 down, pipeVars>>

----------------------------------------------------------------------------
(* External: the pipe executes its blocks in order.  A block of an epoch   *)
(* that has ended is discarded without a result.                           *)

ExecuteBlock ==
  /\ pipe # <<>> /\ Head(pipe).epoch = exec_epoch
  /\ LET b == Head(pipe)
         new_epoch == IF boundary[b.epoch] = b.num THEN b.epoch + 1 ELSE None
     IN /\ executed' = Append(executed, b.id)
        /\ results' = Append(results, [num |-> b.num, id |-> b.id, new_epoch |-> new_epoch])
        /\ exec_epoch' = IF new_epoch = None THEN exec_epoch ELSE new_epoch
  /\ pipe' = Tail(pipe)
  /\ UNCHANGED <<bufferVars, reth_epoch, execVars, vote, commitVars, down,
                 delivered, persisted, boundary>>

DiscardStaleBlock ==
  /\ pipe # <<>> /\ Head(pipe).epoch # exec_epoch
  /\ pipe' = Tail(pipe)
  /\ UNCHANGED <<bufferVars, reth_epoch, execVars, vote, commitVars, down,
                 executed, exec_epoch, results, delivered, persisted, boundary>>

PersistBlock ==
  /\ persisted < Len(delivered)
  /\ persisted' = persisted + 1
  /\ UNCHANGED <<bufferVars, reth_epoch, execVars, vote, commitVars, down,
                 pipe, executed, exec_epoch, results, delivered, boundary>>

RethNext ==
  \/ StartExecution \/ FetchOrdered \/ NoticeEpochChange \/ Consume \/ SwapEpoch
  \/ ReceiveResult \/ ReportResult
  \/ LoadCommitEpoch \/ FetchCommitted \/ CommitTimeout \/ CommitSetState \/ NotifyPersisted
  \/ ExecuteBlock \/ DiscardStaleBlock \/ PersistBlock
=============================================================================
