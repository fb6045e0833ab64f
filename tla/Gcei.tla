-------------------------------- MODULE Gcei --------------------------------
(***************************************************************************)
(* The Gravity Consensus Engine Interface of one node: consensus' pipeline *)
(* (ExecutionPipeline) and reth's tasks (RethCli) around the block buffer  *)
(* manager (BlockBufferManager).                                           *)
(***************************************************************************)
EXTENDS ExecutionPipeline

\* Every run of reth reconfigures at the same blocks: execution is deterministic.
Boundaries ==
  {b \in [Epochs -> 1 .. MaxBlock + 1] :
     /\ b[0] = 1 /\ b[MaxEpoch] = MaxBlock + 1
     /\ \A e \in 1 .. MaxEpoch - 1 : b[e] < b[e + 1] \/ b[e] = MaxBlock + 1}

\* Where a node starts: on the genesis block, inside epoch 1, or on epoch 1's last block
\* with consensus already in epoch 2 but none of its blocks in the consensus database.
Starts == {[number |-> 0, id_epoch |-> 0, db_epoch |-> 0, epoch |-> 1],
           [number |-> 1, id_epoch |-> 1, db_epoch |-> 1, epoch |-> 1],
           [number |-> 1, id_epoch |-> 1, db_epoch |-> 1, epoch |-> 2]}

Init ==
  /\ boundary \in Boundaries
  /\ \E s \in Starts :
       /\ s.epoch <= MaxEpoch
       /\ s.epoch = 1 => s.number < boundary[1]
       /\ s.epoch = 2 => s.number = boundary[1]
       /\ InitBuffer(s.number, s.id_epoch, Id(s.id_epoch, s.number), s.db_epoch)
       /\ InitReth(s.number, s.epoch)
       /\ InitPipeline(s.number, s.epoch)

\* The periodic cleanup task of BlockBufferManager::new.
Cleanup == RemoveCommittedBlocks /\ UNCHANGED <<rethVars, pipelineVars>>

ConsensusNext ==
  \/ StartEpochManager \/ OrderBatch \/ ScheduledTask \/ OrphanTask \/ TaskTimeout
  \/ ProcessExecutionFailure \/ RetrySchedule \/ ProcessExecutionResponse \/ AdvanceHead
  \/ \E e \in Epochs : CommitLedger(e) \/ PersistingDone(e)
  \/ EndEpoch \/ StartNewEpoch
  \/ FastForwardSync \/ StartRecovery \/ SkipRecovery
  \/ RecoverSetOrdered \/ RecoverGetExecuted \/ RecoverTimeout \/ RecoverCommit
  \/ RecoverNext \/ RecoverFailed

\* A failed assertion ends the process: ConsensusEngine::init sets up a panic handler.
Running == panics = {}

Next ==
  /\ Running
  /\ \/ ConsensusNext
     \/ RethNext /\ UNCHANGED pipelineVars
     \/ Cleanup

Spec == Init /\ [][Next]_gceiVars

\* Every task is polled while it can move, and the pipe goes on executing and persisting.
\* Nothing obliges consensus to order a block or the validators to certify one.
Fairness ==
  /\ WF_gceiVars(/\ Running /\ UNCHANGED pipelineVars
                 /\ StartExecution \/ FetchOrdered \/ NoticeEpochChange \/ Consume \/ SwapEpoch)
  /\ WF_gceiVars(Running /\ UNCHANGED pipelineVars /\ (ReceiveResult \/ ReportResult))
  /\ WF_gceiVars(/\ Running /\ UNCHANGED pipelineVars
                 /\ \/ LoadCommitEpoch \/ FetchCommitted \/ CommitTimeout \/ CommitSetState
                    \/ NotifyPersisted)
  /\ WF_gceiVars(Running /\ UNCHANGED pipelineVars /\ (ExecuteBlock \/ DiscardStaleBlock))
  /\ WF_gceiVars(Running /\ UNCHANGED pipelineVars /\ PersistBlock)
  /\ WF_gceiVars(Running /\ (StartEpochManager \/ EndEpoch \/ StartNewEpoch))
  /\ WF_gceiVars(Running /\ ScheduledTask) /\ WF_gceiVars(Running /\ TaskTimeout)
  /\ WF_gceiVars(Running /\ (ProcessExecutionFailure \/ ProcessExecutionResponse))
  /\ WF_gceiVars(Running /\ RetrySchedule)
  /\ \A e \in Epochs : /\ WF_gceiVars(Running /\ CommitLedger(e))
                       /\ WF_gceiVars(Running /\ PersistingDone(e))

FairSpec == Spec /\ Fairness

----------------------------------------------------------------------------
(* Safety.                                                                 *)

\* The type invariant of the block buffer manager and of the state around it: what each
\* BlockState carries, and the range of every counter, cursor and program counter.
TypeOK ==
  /\ \A k \in Keys : Present(k) =>
       /\ blocks[k].id \in Keys
       /\ blocks[k].st \in {"Ordered", "Computed", "Committed", "Historical"}
       /\ blocks[k].st \in {"Computed", "Committed"} =>
            blocks[k].res.epoch_state \in Epochs \cup {None}
  /\ {latest_commit, latest_finalized, epoch_change_number, persisted, root} \subseteq Numbers
  /\ {current_epoch, reth_epoch, exec_epoch, commit_epoch, epoch} \subseteq Epochs
  /\ next_epoch \in Epochs \cup {None}
  /\ epoch_change_ready \in BOOLEAN /\ down \in BOOLEAN /\ end_seen \in BOOLEAN
  /\ start_ordered_block \in 1 .. MaxBlock + 1 /\ start_commit_num \in 1 .. MaxBlock + 1
  /\ exec_pc \in {"init", "fetch", "consume", "swap"}
  /\ commit_pc \in {"load", "fetch", "set_state", "notify"}
  /\ notifiers \subseteq Keys
  /\ phase \in {"boot", "run", "resetting", "recover", "ending"}
  /\ execution_root \in Numbers \cup {None}
  /\ \A i \in DOMAIN items : items[i].lo <= items[i].hi /\ items[i].hi \in Numbers
  /\ proof \in Numbers \cup {None}

\* One chain reaches reth: the next block the pipe executes carries the number behind the
\* last executed one and names that very block as its parent, across epoch changes too,
\* where consensus names the new epoch's own genesis block (the parent substitution of
\* set_ordered_blocks and start_execution's cursor after consume_epoch_change).
ExtendsExecuted ==
  pipe # <<>> /\ Head(pipe).epoch = exec_epoch =>
    /\ Head(pipe).num = Len(executed) + 1
    /\ Head(pipe).parent = ExecutedId(Len(executed))

\* No reth task ends with an error: the result start_commit_vote reports finds its ordered
\* block under the epoch it read, and the last block start_commit is handed is known to
\* the pipe under that number (get_block_id and the assert_eq after it).  And set_commit_blocks
\* accepts what the persisting phase commits, up to the epoch's last block: ExecutionProxy::commit
\* expects it to, and panics otherwise.  (A suffix block may be back in state Ordered when its batch
\* was scheduled again.  After a fast-forward sync that failed, blocks are committed twice.)
NodeStaysUp ==
  /\ ~ down
  /\ resets = 0 => \A e \in Epochs : persist_q[e] # <<>> =>
       \A n \in Head(persist_q[e]).lo .. Head(persist_q[e]).hi :
         n <= boundary[e] => ~CommitRejects(e, n, Id(e, n))

\* What the node signs: every executed batch carries the commit info the other validators
\* sign for it, in particular the same epoch boundary for every batch behind the
\* reconfiguration block, however execution, retries and the epoch change interleave
\* (process_execution_response, resolve_epoch_block_info, get_executed_res).  A fast-forward
\* sync in mid-epoch may move the buffer manager to the next epoch: see EpochFollowsConsensus.
CommitVotesAgree ==
  resets = 0 => \A i \in DOMAIN items :
    items[i].info # None => items[i].info = QuorumCommitInfo(epoch, items[i].hi)

\* A response that reaches a batch is of the batch's own blocks, however often
\* retry_schedule_phase scheduled it and however batches were regrouped (the zip_eq of
\* advance_to_executed_or_aggregated), until a fast-forward sync.  (That the batch was not executed
\* before does not hold once a batch was scheduled twice: the panic "only ordered".)
ResponsesMatchBatches == resets = 0 => "zip_eq" \notin panics

\* What execution answers is what the batch asked for and what the others sign.
AnswersMatch == TypeOK /\ CommitVotesAgree /\ ResponsesMatchBatches

\* Once a reconfiguration was seen, every batch that is executed ends in a reconfiguration
\* suffix: the assertion of advance_to_executed_or_aggregated.
SuffixAssertHolds == "not a reconfiguration suffix" \notin panics

\* The epoch-change proof is sent with the true boundary and only once reth has the
\* boundary block on disk (the persist notifier of set_commit_blocks).
EpochEndIsPersisted ==
  proof # None => proof = boundary[epoch] /\ persisted >= proof

\* The buffer manager's epoch runs ahead of the consensus pipeline's only while that
\* pipeline is being ended ("It MUST only be advanced in `release_inflight_blocks` when the
\* consensus pipeline officially transitions"), unless a fast-forward sync releases the inflight
\* blocks in mid-epoch.
EpochFollowsConsensus == resets = 0 => current_epoch <= epoch \/ phase = "ending"

\* The three views of the epoch, of consensus, of the buffer manager and of reth's disk, change in
\* the order that lets a node restart in any of them.
EpochChangeOrdered == EpochEndIsPersisted /\ EpochFollowsConsensus

\* The node implements the execution log: blocks are executed, told to be committed and
\* persisted as three growing prefixes of one sequence, and consensus leaves an epoch only
\* when its last block is on disk.
Log == INSTANCE ExecutionLog WITH log <- executed, told <- delivered, disk <- persisted,
                                  log_epoch <- exec_epoch, epoch <- epoch, boundary <- boundary

ImplementsExecutionLog == Log!Spec

----------------------------------------------------------------------------
(* Liveness, under FairSpec, of a node that does not panic.                *)

\* A certified block that is not past its epoch's boundary ends up on reth's disk.
CertifiedIsPersisted ==
  \A n \in 1 .. MaxBlock : (root >= n /\ n <= boundary[epoch]) ~> (persisted >= n \/ ~Running)

\* The execution root never stays on a batch: the batch is executed or committed, whatever
\* timeouts and retries it takes.
BatchesExecute ==
  \A n \in 1 .. MaxBlock : (execution_root = n) ~> (execution_root # n \/ ~Running)

\* Nothing that was certified is left behind.
BatchesComplete == CertifiedIsPersisted /\ BatchesExecute

\* Once an epoch's boundary block is certified, consensus moves to the next epoch.
EpochEnds ==
  \A e \in 1 .. MaxEpoch - 1 : (epoch = e /\ root >= boundary[e]) ~> (epoch = e + 1 \/ ~Running)
=============================================================================
