------------------------- MODULE ExecutionPipeline -------------------------
(***************************************************************************)
(* The consensus side of the block buffer manager: the decoupled execution *)
(* pipeline of a validator (BufferManager and its phases, ExecutionProxy,  *)
(* GravityBlockExecutor), the epoch manager that ends an epoch, and the    *)
(* fast-forward sync that resets the pipeline inside one.                  *)
(*                                                                         *)
(* Consensus orders one chain of blocks per epoch, so block n of epoch e   *)
(* is the same block whoever asks.  Commit votes are abstracted: a batch   *)
(* whose commit info is the one the other validators vote for may be       *)
(* certified, with everything ahead of it, at any time.                    *)
(***************************************************************************)
EXTENDS RethCli

CONSTANTS
  MaxBatch,     \* bound: blocks in one ordered batch
  MaxTimeouts,  \* bound: how often get_executed_res gives up; Unbounded: no bound
  MaxResets,    \* bound: fast-forward syncs
  MaxOrphans    \* bound: futures that go on when their epoch ends

Unbounded == -1

ASSUME PipelineAssumption ==
  /\ MaxBatch \in Nat \ {0} /\ MaxTimeouts \in Nat \cup {Unbounded}
  /\ MaxResets \in Nat /\ MaxOrphans \in Nat

VARIABLES
  phase,       \* boot, run, resetting (a fast-forward sync), recover or ending
  epoch,       \* EpochManager's epoch
  root,        \* number of the last block handed to the persisting phase
  items,       \* BufferManager.buffer: the ordered batches behind root
  execution_root, \* BufferManager.execution_root: the last block of the first ordered batch
  tasks,       \* the futures of ExecutionSchedulePhase, in ExecutionWaitPhase's order
  retries,     \* messages in execution_schedule_retry_rx
  orphans,     \* futures of an ended epoch: they run on, unobserved
  end_seen,    \* BufferManager.end_epoch_timestamp is set
  persist_q,   \* per epoch's pipeline: requests sent to the persisting phase
  persisting,  \* per epoch's pipeline: the request it waits to see persisted
  recovery,    \* recover_blocks: the block being replayed, and how far
  proof,       \* the boundary of the EpochChangeProof sent to ourselves
  panics,      \* assertions that failed
  timeouts, resets  \* how many have happened

queueVars == <<items, execution_root, tasks, retries>>
pipelineVars == <<phase, epoch, root, queueVars, orphans, end_seen, persist_q, persisting,
                  recovery, proof, panics, timeouts, resets>>
gceiVars == <<bufferVars, rethVars, pipelineVars>>

\* What a commit vote signs of an executed batch, and what the persisting phase waits for.
CommitInfos        == [res : ComputeResults, ends : Numbers \cup {None}]
PersistingRequests == [ends : Numbers \cup {None}, waits : SUBSET Keys]

ASSUME PipelineNoneAssumption == None \notin CommitInfos /\ None \notin PersistingRequests

\* The parent consensus names: the epoch's genesis block for its first block.
ParentId(e, n) ==
  IF n - 1 = (IF e = 1 THEN 0 ELSE boundary[e - 1])
  THEN (IF e = 1 THEN GenesisId ELSE EpochGenesis(e))
  ELSE Id(e, n - 1)

InitPipeline(h, e) ==
  /\ phase = "boot" /\ epoch = e /\ root = h
  /\ items = <<>> /\ execution_root = None /\ tasks = <<>> /\ retries = 0
  /\ orphans = {} /\ end_seen = FALSE
  /\ persist_q = [x \in Epochs |-> <<>>] /\ persisting = [x \in Epochs |-> None]
  /\ recovery = None /\ proof = None
  /\ panics = {} /\ timeouts = 0 /\ resets = 0

\* EpochManager::start
StartEpochManager ==
  /\ phase = "boot"
  /\ InitEpoch(epoch)
  /\ phase' = "run"
  /\ UNCHANGED <<rethVars, epoch, root, queueVars, orphans, end_seen, persist_q, persisting,
                 recovery, proof, panics, timeouts, resets>>

----------------------------------------------------------------------------
(* Ordering and execution.                                                 *)

LastOrdered == IF items = <<>> THEN root ELSE Last(items).hi

Task(lo, hi) == [epoch |-> epoch, lo |-> lo, hi |-> hi, next |-> lo, pc |-> "set",
                 reconfig |-> FALSE, res |-> None]

\* advance_execution_root: the first batch from the cursor on that was not executed.
FirstOrdered(buffer, cursor) ==
  LET candidates == {i \in DOMAIN buffer : /\ buffer[i].info = None
                                           /\ cursor = None \/ buffer[i].hi >= cursor}
  IN IF candidates = {} THEN None ELSE buffer[Min(candidates)].hi

AdvanceRootIfNone(buffer, cursor) == IF cursor = None THEN FirstOrdered(buffer, None) ELSE cursor

\* process_ordered_blocks: the batch enters the buffer and its execution is scheduled.
OrderBatch ==
  /\ phase = "run"
  /\ \E hi \in LastOrdered + 1 .. LastOrdered + MaxBatch :
       /\ hi <= MaxBlock
       /\ items' = Append(items, [lo |-> LastOrdered + 1, hi |-> hi, info |-> None])
       /\ tasks' = Append(tasks, Task(LastOrdered + 1, hi))
  /\ execution_root' = AdvanceRootIfNone(items', execution_root)
  /\ UNCHANGED <<bufferVars, rethVars, phase, epoch, root, retries, orphans, end_seen, persist_q,
                 persisting, recovery, proof, panics, timeouts, resets>>

\* schedule_compute's future first calls set_ordered_blocks for the next block of the
\* batch ...
SetOrderedStep(t) == [t EXCEPT !.pc = IF SetOrderedFails(t.epoch) THEN "failed" ELSE "get"]

TaskSetOrdered(t) ==
  /\ t.pc = "set"
  /\ SetOrderedBlocks(t.epoch, t.next, Id(t.epoch, t.next), ParentId(t.epoch, t.next))

\* ... then get_executed_res, and only then goes on to the batch's next block.
Answer(t) == ExecutedRes(t.epoch, t.next, Id(t.epoch, t.next))

GetExecutedStep(t) ==
  IF Answer(t).kind = "err" THEN [t EXCEPT !.pc = "failed"]
  ELSE LET res == Answer(t).res
           seen == [t EXCEPT !.reconfig = @ \/ res.epoch_state # None]
       IN IF t.next < t.hi THEN [seen EXCEPT !.pc = "set", !.next = @ + 1]
                           ELSE [seen EXCEPT !.pc = "done", !.res = res]

TaskGetExecuted(t) ==
  /\ t.pc = "get" /\ Answer(t).kind # "wait"
  /\ GetExecutedRes(t.epoch, t.next, Id(t.epoch, t.next))

\* A step of the future of a batch in the buffer.
ScheduledTask ==
  /\ \E i \in DOMAIN tasks :
       \/ TaskSetOrdered(tasks[i]) /\ tasks' = [tasks EXCEPT ![i] = SetOrderedStep(@)]
       \/ TaskGetExecuted(tasks[i]) /\ tasks' = [tasks EXCEPT ![i] = GetExecutedStep(@)]
  /\ UNCHANGED <<rethVars, phase, epoch, root, items, execution_root, retries, orphans, end_seen,
                 persist_q, persisting, recovery, proof, panics, timeouts, resets>>

\* A step of a future nobody waits for: it ends where a response would be sent.
OrphanTask ==
  /\ \E t \in orphans :
       \/ /\ TaskSetOrdered(t)
          /\ orphans' = (orphans \ {t}) \cup
               {x \in {SetOrderedStep(t)} : x.pc # "failed"}
       \/ /\ TaskGetExecuted(t)
          /\ orphans' = (orphans \ {t}) \cup
               {x \in {GetExecutedStep(t)} : x.pc \notin {"failed", "done"}}
  /\ UNCHANGED <<rethVars, phase, epoch, root, queueVars, end_seen, persist_q,
                 persisting, recovery, proof, panics, timeouts, resets>>

\* max_wait_timeout passed in get_executed_res.
CountTimeout ==
  /\ MaxTimeouts = Unbounded \/ timeouts < MaxTimeouts
  /\ timeouts' = IF MaxTimeouts = Unbounded THEN 0 ELSE timeouts + 1

TaskTimeout ==
  /\ CountTimeout
  /\ \E i \in DOMAIN tasks :
       /\ tasks[i].pc = "get" /\ Answer(tasks[i]).kind = "wait"
       /\ tasks' = [tasks EXCEPT ![i].pc = "failed"]
  /\ UNCHANGED <<bufferVars, rethVars, phase, epoch, root, items, execution_root, retries, orphans,
                 end_seen, persist_q, persisting, recovery, proof, panics, resets>>

\* find_elem_by_key(execution_root, block_id): a response is for the batch that ends in its
\* block, unless that batch lies ahead of the execution root or is no longer in the buffer.
Found(t) == {i \in DOMAIN items : /\ items[i].hi = t.hi
                                  /\ execution_root # None /\ t.hi >= execution_root}

\* The wait phase failed: the response for the execution root makes the buffer manager
\* schedule again, a moment later.
ProcessExecutionFailure ==
  /\ tasks # <<>> /\ Head(tasks).pc = "failed"
  /\ tasks' = Tail(tasks)
  /\ execution_root' = FirstOrdered(items, execution_root)
  /\ retries' = IF execution_root # None /\ execution_root' = execution_root
                     /\ Head(tasks).hi = execution_root
                THEN retries + 1 ELSE retries
  /\ UNCHANGED <<bufferVars, rethVars, phase, epoch, root, items, orphans, end_seen,
                 persist_q, persisting, recovery, proof, panics, timeouts, resets>>

\* retry_schedule_phase: every batch from the execution root on, executed or not.
RetrySchedule ==
  /\ retries > 0
  /\ retries' = retries - 1
  /\ \E first \in 1 .. Len(items) + 1 :
       /\ \A i \in DOMAIN items :
            i >= first <=> (execution_root # None /\ items[i].hi >= execution_root)
       /\ tasks' = tasks \o [j \in 1 .. Len(items) + 1 - first |->
                             Task(items[first + j - 1].lo, items[first + j - 1].hi)]
  /\ UNCHANGED <<bufferVars, rethVars, phase, epoch, root, items, execution_root, orphans, end_seen,
                 persist_q, persisting, recovery, proof, panics, timeouts, resets>>

\* resolve_epoch_block_info: the boundary the batch's commit info carries.
EpochBlockInfo(t) ==
  IF EpochChangeBlockInfo(t.hi, t.epoch) # None THEN EpochChangeBlockInfo(t.hi, t.epoch)
  ELSE IF t.res.epoch_state # None THEN t.hi ELSE None

\* The commit info the batch's commit vote signs.
CommitInfo(t) == [res |-> t.res, ends |-> EpochBlockInfo(t)]

\* External: the commit info of the other validators for block n of epoch e.
QuorumCommitInfo(e, n) ==
  IF n < boundary[e] THEN [res |-> Executed(None), ends |-> None]
  ELSE IF n = boundary[e] THEN [res |-> Executed(e + 1), ends |-> n]
  ELSE [res |-> Dummy(e + 1), ends |-> boundary[e]]

\* advance_to_executed_or_aggregated: what it asserts of a batch and its response.  Once
\* some block of the epoch reconfigured, every later batch must end in a block whose
\* result carries the new epoch.
ExecutedPanics(item, t, ended) ==
  {p \in {"only ordered", "zip_eq", "not a reconfiguration suffix"} :
     \/ p = "only ordered" /\ item.info # None
     \/ p = "zip_eq" /\ item.lo # t.lo
     \/ p = "not a reconfiguration suffix" /\ ended /\ t.res.epoch_state = None}

\* process_execution_response on success.
ProcessExecutionResponse ==
  /\ tasks # <<>> /\ Head(tasks).pc = "done"
  /\ tasks' = Tail(tasks)
  /\ LET t == Head(tasks) IN
     /\ items' = [i \in DOMAIN items |->
          IF i \in Found(t) THEN [items[i] EXCEPT !.info = CommitInfo(t)] ELSE items[i]]
     /\ end_seen' = (end_seen \/ (Found(t) # {} /\ t.reconfig))
     /\ panics' = panics \cup UNION {ExecutedPanics(items[i], t, end_seen') : i \in Found(t)}
  /\ execution_root' = FirstOrdered(items', execution_root)
  /\ UNCHANGED <<bufferVars, rethVars, phase, epoch, root, retries, orphans, persist_q, persisting,
                 recovery, proof, timeouts, resets>>

----------------------------------------------------------------------------
(* Commit.                                                                 *)

\* advance_head: a batch was certified; it and all ahead of it go to the persisting phase.
AdvanceHead ==
  /\ \E i \in DOMAIN items :
       /\ items[i].info # None /\ items[i].info = QuorumCommitInfo(epoch, items[i].hi)
       /\ persist_q' = [persist_q EXCEPT ![epoch] =
            Append(@, [lo |-> root + 1, hi |-> items[i].hi, ends |-> items[i].info.ends])]
       /\ root' = items[i].hi
       /\ items' = SubSeq(items, i + 1, Len(items))
       /\ execution_root' = AdvanceRootIfNone(items',
            IF execution_root # None /\ execution_root > items[i].hi THEN execution_root ELSE None)
  /\ UNCHANGED <<bufferVars, rethVars, phase, epoch, tasks, retries, orphans, end_seen, persisting,
                 recovery, proof, panics, timeouts, resets>>

\* commit_ledger: set_commit_blocks, whose error is a panic.
CommitLedger(e) ==
  /\ persisting[e] = None /\ persist_q[e] # <<>>
  /\ LET req == Head(persist_q[e]) IN
     /\ SetCommitBlocks(e, req.lo .. req.hi)
     /\ persisting' = [persisting EXCEPT ![e] =
          [ends |-> req.ends, waits |-> CommitNotifiers(e, req.lo .. req.hi)]]
     /\ panics' = IF SetCommitFails(e, req.lo .. req.hi)
                  THEN panics \cup {"failed to commit blocks"} ELSE panics
  /\ persist_q' = [persist_q EXCEPT ![e] = Tail(@)]
  /\ UNCHANGED <<rethVars, phase, epoch, root, queueVars, orphans, end_seen, recovery, proof,
                 timeouts, resets>>

\* A notifier's receiver returns once its sender was used or dropped.
SenderAlive(k) == k \in notifiers \/ (Is(k, "Committed") /\ blocks[k].persist_notifier)

\* Mutant: the persisting phase does not wait for the notifiers.
PersistingDoneAtOnce(e) ==
  /\ persisting[e] # None
  /\ proof' = IF persisting[e].ends # None /\ e = epoch THEN persisting[e].ends ELSE proof
  /\ persisting' = [persisting EXCEPT ![e] = None]
  /\ UNCHANGED <<bufferVars, rethVars, phase, epoch, root, queueVars, orphans, end_seen,
                 persist_q, recovery, panics, timeouts, resets>>

\* The notifiers came back: the request is done, and a batch that ends the epoch sends
\* the epoch-change proof to our own epoch manager, which ignores it in a later epoch.
PersistingDone(e) ==
  /\ persisting[e] # None
  /\ \A k \in persisting[e].waits : ~SenderAlive(k)
  /\ proof' = IF persisting[e].ends # None /\ e = epoch THEN persisting[e].ends ELSE proof
  /\ persisting' = [persisting EXCEPT ![e] = None]
  /\ UNCHANGED <<bufferVars, rethVars, phase, epoch, root, queueVars, orphans, end_seen,
                 persist_q, recovery, panics, timeouts, resets>>

----------------------------------------------------------------------------
(* Resets.                                                                 *)

\* BufferManager::reset
Reset ==
  /\ ReleaseInflightBlocks
  /\ items' = <<>>
  /\ execution_root' = None

\* initiate_new_epoch: shutdown_current_processor ends with a Stop reset.  The spawned
\* futures live on; nobody listens to them any more.  Those past the bound take no
\* further step, as after their timeout.
EndEpoch ==
  /\ phase = "run" /\ proof # None
  /\ Reset
  /\ tasks' = <<>>
  /\ LET live == orphans \cup {t \in Range(tasks) : t.pc \in {"set", "get"}}
     IN \E left \in SUBSET live :
          /\ Cardinality(left) = Min({MaxOrphans, Cardinality(live)})
          /\ orphans' = left
  /\ retries' = 0
  /\ phase' = "ending"
  /\ UNCHANGED <<rethVars, epoch, root, end_seen, persist_q, persisting, recovery, proof,
                 panics, timeouts, resets>>

\* start_new_epoch, once the reset is acknowledged: ongoing tasks are awaited for at
\* most 30 seconds, so it may come before they are done.
StartNewEpoch ==
  /\ phase = "ending"
  /\ phase' = "run"
  /\ epoch' = epoch + 1
  /\ root' = proof
  /\ proof' = None
  /\ end_seen' = FALSE
  /\ UNCHANGED <<bufferVars, rethVars, queueVars, orphans, persist_q, persisting, recovery,
                 panics, timeouts, resets>>

\* fast_forward_sync of a validator: a TargetRound reset in the middle of an epoch.  The
\* responses of the futures in flight still come in afterwards.
FastForwardSync ==
  /\ phase = "run" /\ resets < MaxResets
  /\ Reset
  /\ phase' = "resetting"
  /\ resets' = resets + 1
  /\ UNCHANGED <<rethVars, epoch, root, tasks, retries, orphans, end_seen, persist_q, persisting, recovery, proof,
                 panics, timeouts>>

\* The tree is rebuilt; the blocks its ledger infos certify, up to the epoch's boundary,
\* are replayed against the buffer manager.
StartRecovery ==
  /\ phase = "resetting"
  /\ \E hi \in root + 1 .. MaxBlock :
       /\ hi <= boundary[epoch]
       /\ recovery' = [lo |-> root + 1, next |-> root + 1, hi |-> hi, pc |-> "set",
                       waits |-> {}]
  /\ phase' = "recover"
  /\ UNCHANGED <<bufferVars, rethVars, epoch, root, queueVars, orphans, end_seen, persist_q,
                 persisting, proof, panics, timeouts, resets>>

\* The sync brought no ledger info past the root: nothing to replay.
SkipRecovery ==
  /\ phase = "resetting"
  /\ phase' = "run"
  /\ UNCHANGED <<bufferVars, rethVars, epoch, root, queueVars, orphans, end_seen, persist_q,
                 persisting, recovery, proof, panics, timeouts, resets>>

RecoverSetOrdered ==
  /\ phase = "recover" /\ recovery.pc = "set"
  /\ LET n == recovery.next IN
     /\ SetOrderedBlocks(epoch, n, Id(epoch, n), ParentId(epoch, n))
     /\ recovery' = [recovery EXCEPT !.pc = IF SetOrderedFails(epoch) THEN "failed" ELSE "get"]
  /\ UNCHANGED <<rethVars, phase, epoch, root, queueVars, orphans, end_seen, persist_q,
                 persisting, proof, panics, timeouts, resets>>

\* A block without a stored hash is committed along with the next one that has it; where
\* there is one, the result must equal it, so no dummy result may come back.
RecoverGetExecuted ==
  /\ phase = "recover" /\ recovery.pc = "get"
  /\ LET n == recovery.next
         answer == ExecutedRes(epoch, n, Id(epoch, n))
     IN /\ answer.kind # "wait"
        /\ GetExecutedRes(epoch, n, Id(epoch, n))
        /\ \E hashed \in BOOLEAN :
             /\ n = recovery.hi => hashed
             /\ recovery' =
                  IF answer.kind = "err" THEN [recovery EXCEPT !.pc = "failed"]
                  ELSE IF hashed THEN [recovery EXCEPT !.pc = "commit"]
                  ELSE [recovery EXCEPT !.pc = "set", !.next = @ + 1]
             /\ panics' = IF answer.kind = "ok" /\ hashed /\ answer.res.dummy
                          THEN panics \cup {"recovered hash differs"} ELSE panics
  /\ UNCHANGED <<rethVars, phase, epoch, root, queueVars, orphans, end_seen, persist_q,
                 persisting, proof, timeouts, resets>>

RecoverTimeout ==
  /\ phase = "recover" /\ recovery.pc = "get"
  /\ CountTimeout
  /\ ExecutedRes(epoch, recovery.next, Id(epoch, recovery.next)).kind = "wait"
  /\ recovery' = [recovery EXCEPT !.pc = "failed"]
  /\ UNCHANGED <<bufferVars, rethVars, phase, epoch, root, queueVars, orphans, end_seen,
                 persist_q, persisting, proof, panics, resets>>

RecoverCommit ==
  /\ phase = "recover" /\ recovery.pc = "commit"
  /\ LET nums == recovery.lo .. recovery.next IN
     /\ SetCommitBlocks(epoch, nums)
     /\ recovery' = IF SetCommitFails(epoch, nums) THEN [recovery EXCEPT !.pc = "failed"]
                    ELSE [recovery EXCEPT !.pc = "wait", !.waits = CommitNotifiers(epoch, nums)]
  /\ UNCHANGED <<rethVars, phase, epoch, root, queueVars, orphans, end_seen, persist_q,
                 persisting, proof, panics, timeouts, resets>>

\* The notifiers came back.  After the last block the root moves, and a ledger info that
\* ends the epoch at a boundary the root has reached is sent as the epoch-change proof.
RecoverNext ==
  /\ phase = "recover" /\ recovery.pc = "wait"
  /\ \A k \in recovery.waits : ~SenderAlive(k)
  /\ IF recovery.next < recovery.hi
     THEN /\ recovery' = [recovery EXCEPT !.pc = "set", !.next = @ + 1, !.lo = recovery.next + 1,
                                          !.waits = {}]
          /\ UNCHANGED <<phase, root, proof>>
     ELSE /\ recovery' = None
          /\ phase' = "run"
          /\ root' = recovery.hi
          /\ proof' = IF recovery.hi = boundary[epoch] THEN recovery.hi ELSE proof
  /\ UNCHANGED <<bufferVars, rethVars, epoch, queueVars, orphans, end_seen, persist_q, persisting,
                 panics, timeouts, resets>>

\* recover_blocks gives up at the first error; consensus goes on from the old root.
RecoverFailed ==
  /\ phase = "recover" /\ recovery.pc = "failed"
  /\ recovery' = None
  /\ phase' = "run"
  /\ UNCHANGED <<bufferVars, rethVars, epoch, root, queueVars, orphans, end_seen, persist_q,
                 persisting, proof, panics, timeouts, resets>>

====
