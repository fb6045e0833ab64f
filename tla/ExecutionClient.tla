--------------------------- MODULE ExecutionClient ---------------------------
(***************************************************************************)
(* What stands between consensus and execution (execution_client.rs,       *)
(* state_computer.rs): ExecutionProxyClient, which starts, resets and ends *)
(* the randomness and buffer managers of an epoch, and ExecutionProxy,     *)
(* whose state is of one epoch while tasks of several may use it: it       *)
(* schedules blocks, commits them, notifies of them, and syncs.            *)
(*                                                                         *)
(* The managers are here for what they hold and when they let go of it;    *)
(* ExecutionPipeline, CommitVotes and RandManager have their details.  The *)
(* caller is the epoch manager, or the DAG that syncs inside an epoch and  *)
(* then goes on from what is stored.  A block is <<epoch, round>>, which   *)
(* also stands for its number.                                             *)
(***************************************************************************)
EXTENDS Integers, Sequences, SequencesExt

CONSTANTS
  MaxEpoch, MaxRound,
  Boundary,     \* epoch -> round of the block that changes the epoch
  RandEpochs,   \* epochs with randomness
  Validators,   \* epoch -> sequence of addresses
  Author,       \* block -> address
  Vtxns,        \* block -> sequence of validator transactions: "dkg" or a sequence of keys
  Capacity,     \* of the channel of notifications
  MaxSyncs, MaxFailures, MaxGiveUps   \* bounds

Epochs == 1 .. MaxEpoch
Blocks == Epochs \X (1 .. MaxRound)
None == <<0, 0>>

VARIABLES
  caller,        \* what the caller does: [pc, target, ends]
  epoch, ordered,   \* its epoch and the last round it ordered
  handle,        \* BufferManagerHandle: the epoch its channels are of, or 0
  proxy_state,   \* ExecutionProxy.state: the epoch it was set for, or 0
  rand, ready,   \* blocks in the randomness manager, and on the way to the buffer manager
  buffer,        \* the buffer: [block, executed]
  alive,         \* epochs whose buffer manager runs
  resetting,     \* it waits for its tasks to end
  reset_flag,    \* epoch -> BOOLEAN
  schedule_q, scheduling,   \* epoch -> the schedule phase: requests, and [block, pc] or None
  scheduled,     \* epoch -> blocks on the way back to the buffer manager, their futures spawned
  computing,     \* epoch -> blocks whose future the wait phase waits for
  persist_q, committing,    \* epoch -> the persisting phase: requests, and [blocks, pc, state read]
  write_mutex, latest_logical_time,
  notifications, \* the channel to the notifier
  stored,        \* the last block the ledger has
  handed,        \* blocks as they were handed to execution
  notified,      \* what state sync was told of
  returned,      \* what sync_to returned last: [target, ok]
  told,          \* epoch -> the last time its payload manager, and so its quorum store, was told
  decreasing,    \* BatchGenerator's assertion that these times do not decrease failed
  abandoned,     \* blocks of tasks that a reset did not wait for
  panics, syncs, failures, giveups

callerVars == <<caller, epoch, ordered, handle>>
scheduleVars == <<schedule_q, scheduling, scheduled, computing>>
phases == <<reset_flag, scheduleVars, persist_q, committing>>
bm == <<rand, ready, buffer, alive, resetting>>
proxy == <<proxy_state, write_mutex, latest_logical_time, notifications>>
timestamps == <<told, decreasing>>
history == <<stored, handed, notified, returned, abandoned, panics, timestamps>>
counts == <<syncs, failures, giveups>>
vars == <<callerVars, phases, bm, proxy, history, counts>>

Later(a, b) == a[1] > b[1] \/ (a[1] = b[1] /\ a[2] > b[2])
LaterOf(a, b) == IF Later(a, b) THEN a ELSE b

----------------------------------------------------------------------------
(* What a block is for execution. *)

IndexOf(v, set) == {i \in DOMAIN set : set[i] = v}

\* process_validator_transactions_util: of the keys of an update those of type RSA are dropped.
ExtraData(vtxns) ==
  [i \in DOMAIN vtxns |-> IF vtxns[i] = "dkg" THEN "dkg" ELSE SelectSeq(vtxns[i], LAMBDA k : k # "rsa")]

\* ExternalBlock, with the index of the proposer among the validators of the state.
ExternalBlock(b, set) ==
  [block |-> b, proposer_index |-> IndexOf(Author[b], set), extra_data |-> ExtraData(Vtxns[b]),
   enable_randomness |-> proxy_state \in RandEpochs]

----------------------------------------------------------------------------
(* The caller. *)

Goto(pc) == caller' = [caller EXCEPT !.pc = pc]

\* start_epoch: spawn_decoupled_execution, then new_epoch.
StartEpoch ==
  /\ caller.pc = "stopped"
  /\ epoch < MaxEpoch
  /\ epoch' = epoch + 1
  /\ ordered' = 0
  /\ handle' = epoch'
  /\ alive' = alive \cup {epoch'}
  /\ Goto("new_epoch")
  /\ UNCHANGED <<phases, rand, ready, buffer, resetting, proxy, history, counts>>

NewEpoch ==
  /\ caller.pc = "new_epoch"
  /\ proxy_state' = epoch
  /\ Goto("running")
  /\ UNCHANGED <<epoch, ordered, handle, phases, bm, write_mutex, latest_logical_time, notifications,
                 history, counts>>

\* finalize_order, to the randomness manager when there is one.
FinalizeOrder ==
  /\ caller.pc = "running"
  /\ ordered < MaxRound
  /\ ordered' = ordered + 1
  /\ IF handle \in RandEpochs
     THEN rand' = Append(rand, <<epoch, ordered'>>) /\ UNCHANGED ready
     ELSE ready' = Append(ready, <<epoch, ordered'>>) /\ UNCHANGED rand
  /\ UNCHANGED <<caller, epoch, handle, phases, buffer, alive, resetting, proxy, history, counts>>

\* sync_to, inside an epoch: the managers are reset first.
SyncTo ==
  /\ caller.pc = "running"
  /\ syncs < MaxSyncs
  /\ \E r \in 1 .. MaxRound : caller' = [pc |-> "reset_rand", target |-> <<epoch, r>>, ends |-> FALSE]
  /\ syncs' = syncs + 1
  /\ UNCHANGED <<epoch, ordered, handle, phases, bm, proxy, history, failures, giveups>>

\* end_epoch, when there is a proof of the end of the epoch, of this validator or of another.
EndEpoch ==
  /\ caller.pc = "running"
  /\ \E r \in Boundary[epoch] .. MaxRound :
       caller' = [pc |-> "reset_rand", target |-> <<epoch, r>>, ends |-> TRUE]
  /\ handle' = 0
  /\ UNCHANGED <<epoch, ordered, phases, bm, proxy, history, counts>>

\* The randomness manager drops its blocks and acknowledges.
ResetRand ==
  /\ caller.pc = "reset_rand"
  /\ rand' = <<>>
  /\ Goto("reset_buffer")
  /\ UNCHANGED <<epoch, ordered, handle, phases, ready, buffer, alive, resetting, proxy, history, counts>>

\* BufferManager::reset.
ResetBuffer ==
  /\ caller.pc = "reset_buffer"
  /\ reset_flag' = [reset_flag EXCEPT ![epoch] = TRUE]
  /\ buffer' = <<>> /\ ready' = <<>>
  /\ resetting' = TRUE
  /\ Goto("reset_ack")
  /\ UNCHANGED <<epoch, ordered, handle, scheduleVars, persist_q, committing, rand,
                 alive, proxy, history, counts>>

Ongoing(e) ==
  ToSet(schedule_q[e]) \cup computing[e] \cup UNION {ToSet(q) : q \in ToSet(persist_q[e])}
    \cup (IF scheduling[e].pc = "idle" THEN {} ELSE {scheduling[e].block})
    \cup (IF committing[e].pc = "idle" THEN {} ELSE ToSet(committing[e].blocks))

\* Mutant: the reset does not wait for its tasks.
NeverWaits(e) == TRUE

NoneOngoing(e) == Ongoing(e) = {}

\* It acknowledges when no task is left, or after 30 seconds.
ResetAck ==
  /\ resetting
  /\ \/ NoneOngoing(epoch) /\ UNCHANGED <<abandoned, giveups>>
     \/ /\ ~ NoneOngoing(epoch)
        /\ giveups < MaxGiveUps
        /\ giveups' = giveups + 1
        /\ abandoned' = abandoned \cup Ongoing(epoch)
  /\ reset_flag' = [reset_flag EXCEPT ![epoch] = FALSE]
  /\ resetting' = FALSE
  /\ alive' = IF caller.ends THEN alive \ {epoch} ELSE alive
  /\ Goto(IF caller.ends THEN "end_state" ELSE "sync")
  /\ UNCHANGED <<epoch, ordered, handle, scheduleVars, persist_q, committing, rand,
                 ready, buffer, proxy, stored, handed, notified, returned, panics, timestamps, syncs,
                 failures>>

\* ExecutionProxy::end_epoch; the epoch manager syncs to the end of the epoch then.
EndState ==
  /\ caller.pc = "end_state"
  /\ proxy_state' = 0
  /\ Goto("sync")
  /\ UNCHANGED <<epoch, ordered, handle, phases, bm, write_mutex, latest_logical_time, notifications,
                 history, counts>>

----------------------------------------------------------------------------
(* ExecutionProxy::sync_to. *)

\* TPayloadManager::notify_commit of the quorum store of epoch e, as far as its batch generator.
NotifyCommit(e, time) ==
  /\ told' = [told EXCEPT ![e] = time]
  /\ decreasing' = (decreasing \/ Later(told[e], time))

\* The caller goes on: from what is stored, or with the next epoch.
Return(ok, last) ==
  /\ returned' = [target |-> caller.target, ok |-> ok]
  /\ Goto(IF ~ caller.ends THEN "running" ELSE IF ok THEN "stopped" ELSE "panicked")
  /\ ordered' = IF caller.ends THEN ordered ELSE IF last[1] = epoch THEN last[2] ELSE 0
  /\ UNCHANGED <<epoch, handle>>

SyncDone ==
  /\ caller.pc = "sync"
  /\ write_mutex = "free"
  /\ ~ Later(caller.target, latest_logical_time)
  /\ Return(TRUE, stored)
  /\ UNCHANGED <<phases, bm, proxy, stored, handed, notified, abandoned, panics, timestamps, counts>>

SyncStart ==
  /\ caller.pc = "sync"
  /\ write_mutex = "free"
  /\ Later(caller.target, latest_logical_time)
  /\ write_mutex' = "sync"
  /\ IF proxy_state # 0 THEN NotifyCommit(proxy_state, caller.target) ELSE UNCHANGED timestamps
  /\ Goto("sync_to_target")
  /\ UNCHANGED <<epoch, ordered, handle, phases, bm, proxy_state, latest_logical_time, notifications,
                 stored, handed, notified, returned, abandoned, panics, counts>>

\* sync_to_target returned: the logical time is the target's, whether it did or failed.
SyncEnd(ok) ==
  /\ caller.pc = "sync_to_target"
  /\ ~ ok => failures < MaxFailures
  /\ failures' = IF ok THEN failures ELSE failures + 1
  /\ stored' = IF ok THEN LaterOf(caller.target, stored) ELSE stored
  /\ latest_logical_time' = caller.target
  /\ write_mutex' = "free"
  /\ Return(ok, stored')
  /\ UNCHANGED <<phases, bm, proxy_state, notifications, handed, notified, abandoned, panics,
                 timestamps, syncs, giveups>>

----------------------------------------------------------------------------
(* The managers and their phases. *)

RandReady ==
  /\ rand # <<>>
  /\ rand' = Tail(rand) /\ ready' = Append(ready, Head(rand))
  /\ UNCHANGED <<callerVars, phases, buffer, alive, resetting, proxy, history, counts>>

\* process_ordered_blocks.
TakeOrdered ==
  /\ ready # <<>> /\ ~ resetting
  /\ ready' = Tail(ready)
  /\ buffer' = Append(buffer, [block |-> Head(ready), executed |-> FALSE])
  /\ schedule_q' = [schedule_q EXCEPT ![epoch] = Append(@, Head(ready))]
  /\ UNCHANGED <<callerVars, reset_flag, scheduling, scheduled, computing, persist_q, committing, rand, alive,
                 resetting, proxy, history, counts>>

\* A phase takes a request, or drops it while there is a reset.
TakeSchedule(e) ==
  /\ schedule_q[e] # <<>> /\ scheduling[e].pc = "idle"
  /\ schedule_q' = [schedule_q EXCEPT ![e] = Tail(@)]
  /\ scheduling' = IF reset_flag[e] THEN scheduling
                   ELSE [scheduling EXCEPT ![e] = [block |-> Head(schedule_q[e]), pc |-> "txns"]]
  /\ UNCHANGED <<callerVars, reset_flag, scheduled, computing, persist_q, committing, bm, proxy, history,
                 counts>>

Idle == [block |-> None, pc |-> "idle"]
NotCommitting == [blocks |-> <<>>, pc |-> "idle", state |-> 0]

\* What is left for a phase whose answer nobody reads.
LeftOver(e, queue) == IF e \in alive THEN queue ELSE <<>>

\* get_block_txns, once the transactions are there; without a state it is an error.
GetBlockTxns(e) ==
  /\ scheduling[e].pc = "txns"
  /\ IF proxy_state = 0
     THEN /\ scheduling' = [scheduling EXCEPT ![e] = Idle]
          /\ schedule_q' = [schedule_q EXCEPT ![e] = LeftOver(e, @)]
     ELSE scheduling' = [scheduling EXCEPT ![e].pc = "state"] /\ UNCHANGED schedule_q
  /\ UNCHANGED <<callerVars, reset_flag, scheduled, computing, persist_q, committing, bm, proxy, history,
                 counts>>

\* The rest of schedule_compute, with the state as it is now.
ScheduleCompute(e) ==
  /\ scheduling[e].pc = "state"
  /\ scheduling' = [scheduling EXCEPT ![e] = Idle]
  /\ LET b == scheduling[e].block
     IN IF proxy_state = 0
        THEN /\ panics' = panics \cup {b}
             /\ schedule_q' = [schedule_q EXCEPT ![e] = <<>>]
             /\ UNCHANGED <<scheduled, handed>>
        ELSE /\ scheduled' = [scheduled EXCEPT ![e] = IF e \in alive THEN @ \cup {b} ELSE @]
             /\ handed' = handed \cup {ExternalBlock(b, Validators[proxy_state])}
             /\ schedule_q' = [schedule_q EXCEPT ![e] = LeftOver(e, @)]
             /\ UNCHANGED panics
  /\ UNCHANGED <<callerVars, reset_flag, computing, persist_q, committing, bm, proxy, stored, notified,
                 returned, abandoned, timestamps, counts>>

\* process_execution_schedule_response. Until then the future runs and no counted request holds it.
PassToWait ==
  /\ epoch \in alive /\ ~ resetting
  /\ \E b \in scheduled[epoch] :
       /\ scheduled' = [scheduled EXCEPT ![epoch] = @ \ {b}]
       /\ computing' = [computing EXCEPT ![epoch] = @ \cup {b}]
  /\ UNCHANGED <<callerVars, reset_flag, schedule_q, scheduling, persist_q, committing, bm, proxy, history,
                 counts>>

\* The future of a block ends; in a reset with an error, as release_inflight_blocks has it.
Computed(e) ==
  /\ \E b \in computing[e] :
       /\ computing' = [computing EXCEPT ![e] = @ \ {b}]
       /\ buffer' = [i \in DOMAIN buffer |-> IF buffer[i].block = b /\ e \in alive
                                             THEN [buffer[i] EXCEPT !.executed = TRUE] ELSE buffer[i]]
  /\ UNCHANGED <<callerVars, reset_flag, schedule_q, scheduling, scheduled, persist_q, committing, rand,
                 ready, alive, resetting, proxy, history, counts>>

\* advance_head, with a certificate for the k-th item.
AdvanceHead ==
  /\ ~ resetting
  /\ \E k \in DOMAIN buffer :
       /\ \A i \in 1 .. k : buffer[i].executed
       /\ persist_q' = [persist_q EXCEPT ![epoch] = Append(@, [i \in 1 .. k |-> buffer[i].block])]
       /\ buffer' = SubSeq(buffer, k + 1, Len(buffer))
  /\ UNCHANGED <<callerVars, reset_flag, scheduleVars, committing, rand, ready, alive,
                 resetting, proxy, history, counts>>

TakePersist(e) ==
  /\ persist_q[e] # <<>> /\ committing[e].pc = "idle"
  /\ persist_q' = [persist_q EXCEPT ![e] = Tail(@)]
  /\ committing' = IF reset_flag[e] THEN committing
                   ELSE [committing EXCEPT ![e] = [blocks |-> Head(persist_q[e]), pc |-> "lock", state |-> 0]]
  /\ UNCHANGED <<callerVars, reset_flag, scheduleVars, bm, proxy, history, counts>>

----------------------------------------------------------------------------
(* ExecutionProxy::commit. *)

CommitLock(e) ==
  /\ committing[e].pc = "lock"
  /\ write_mutex = "free"
  /\ IF proxy_state = 0
     THEN /\ panics' = panics \cup ToSet(committing[e].blocks)
          /\ committing' = [committing EXCEPT ![e] = NotCommitting]
          /\ persist_q' = [persist_q EXCEPT ![e] = <<>>]
          /\ UNCHANGED write_mutex
     ELSE /\ write_mutex' = "commit"
          /\ committing' = [committing EXCEPT ![e].pc = "ledger", ![e].state = proxy_state]
          /\ UNCHANGED <<panics, persist_q>>
  /\ UNCHANGED <<callerVars, reset_flag, scheduleVars, bm, proxy_state,
                 latest_logical_time, notifications, stored, handed, notified, returned, abandoned, timestamps,
                 counts>>

\* commit_ledger.
CommitLedger(e) ==
  /\ committing[e].pc = "ledger"
  /\ stored' = LaterOf(Last(committing[e].blocks), stored)
  /\ committing' = [committing EXCEPT ![e].pc = "notify"]
  /\ UNCHANGED <<callerVars, reset_flag, scheduleVars, persist_q, bm, proxy, handed,
                 notified, returned, abandoned, panics, timestamps, counts>>

\* The blocks that were executed: those after the one that changes the epoch have no transactions,
\* and the number is that block's.
Notification(blocks) ==
  LET last == Last(blocks)
      end == <<last[1], Boundary[last[1]]>>
  IN [txns |-> SelectSeq(blocks, LAMBDA b : ~ Later(b, end)),
      block_number |-> IF Later(last, end) THEN end ELSE last]

\* The notification is sent, which waits for room in the channel, and the lock is released.
CommitNotify(e) ==
  /\ committing[e].pc = "notify"
  /\ Len(notifications) < Capacity
  /\ notifications' = Append(notifications, [told |-> Notification(committing[e].blocks), state |-> committing[e].state,
                                            time |-> Last(committing[e].blocks)])
  /\ latest_logical_time' = Last(committing[e].blocks)
  /\ write_mutex' = "free"
  /\ committing' = [committing EXCEPT ![e] = NotCommitting]
  /\ persist_q' = [persist_q EXCEPT ![e] = LeftOver(e, @)]
  /\ UNCHANGED <<callerVars, reset_flag, scheduleVars, bm, proxy_state, history, counts>>

\* The task of the notifier: notify_new_commit, then the callback, of which the first part is the
\* notify_commit of the payload manager that commit had read.
Notify ==
  /\ notifications # <<>>
  /\ notifications' = Tail(notifications)
  /\ notified' = Append(notified, Head(notifications).told)
  /\ NotifyCommit(Head(notifications).state, Head(notifications).time)
  /\ UNCHANGED <<callerVars, phases, bm, proxy_state, write_mutex, latest_logical_time, stored, handed,
                 returned, abandoned, panics, counts>>

----------------------------------------------------------------------------
Init ==
  /\ caller = [pc |-> "stopped", target |-> None, ends |-> FALSE]
  /\ epoch = 0 /\ ordered = 0 /\ handle = 0 /\ proxy_state = 0
  /\ rand = <<>> /\ ready = <<>> /\ buffer = <<>> /\ alive = {} /\ resetting = FALSE
  /\ reset_flag = [e \in Epochs |-> FALSE]
  /\ schedule_q = [e \in Epochs |-> <<>>] /\ scheduling = [e \in Epochs |-> Idle]
  /\ scheduled = [e \in Epochs |-> {}] /\ computing = [e \in Epochs |-> {}]
  /\ persist_q = [e \in Epochs |-> <<>>] /\ committing = [e \in Epochs |-> NotCommitting]
  /\ write_mutex = "free" /\ latest_logical_time = None /\ notifications = <<>>
  /\ told = [e \in Epochs |-> None] /\ decreasing = FALSE
  /\ stored = None /\ handed = {} /\ notified = <<>> /\ returned = [target |-> None, ok |-> TRUE]
  /\ abandoned = {} /\ panics = {}
  /\ syncs = 0 /\ failures = 0 /\ giveups = 0

Next ==
  \/ StartEpoch \/ NewEpoch \/ FinalizeOrder \/ SyncTo \/ EndEpoch
  \/ ResetRand \/ ResetBuffer \/ ResetAck \/ EndState
  \/ SyncDone \/ SyncStart \/ \E ok \in BOOLEAN : SyncEnd(ok)
  \/ RandReady \/ TakeOrdered \/ PassToWait \/ AdvanceHead \/ Notify
  \/ \E e \in Epochs : \/ TakeSchedule(e) \/ GetBlockTxns(e) \/ ScheduleCompute(e) \/ Computed(e)
                       \/ TakePersist(e) \/ CommitLock(e) \/ CommitLedger(e) \/ CommitNotify(e)

Spec == Init /\ [][Next]_vars

----------------------------------------------------------------------------
\* Execution gets a block with its proposer's index in the validator set of the block's own epoch:
\* the state that schedule_compute reads after it waited for the transactions is still of that epoch.
\* And no task finds the state gone. Only a task that a reset did not wait for may.
StateOfOwnEpoch ==
  /\ \A x \in handed : x.block \notin abandoned =>
       /\ x.proposer_index = IndexOf(Author[x.block], Validators[x.block[1]])
       /\ x.enable_randomness = (x.block[1] \in RandEpochs)
  /\ panics \subseteq abandoned

\* Whatever was ordered, dropped by a reset, synced and ordered again: the blocks of a commit follow
\* each other and what the ledger has, and none is committed again.
CommitsFollow ==
  \A e \in Epochs : committing[e].pc = "ledger" =>
    LET blocks == committing[e].blocks
    IN /\ \A i \in 2 .. Len(blocks) : blocks[i] = <<e, blocks[i - 1][2] + 1>>
       /\ abandoned = {} =>
            blocks[1] = <<e, IF stored[1] = e THEN stored[2] + 1 ELSE 1>>

\* State sync is told of the commits in order, and of no block twice; and the quorum store of an epoch
\* is told of times that do not decrease, as BatchGenerator::start asserts. A sync inside an epoch is
\* excepted: it notifies of its target at once, while those of commits before it may still wait in the
\* channel of the notifier, and then the assertion fails.
NotifiedInOrder ==
  abandoned = {} =>
    LET all == notified \o [i \in DOMAIN notifications |-> notifications[i].told]
    IN /\ \A i \in 1 .. Len(all) - 1 :
            /\ ~ Later(all[i].block_number, all[i + 1].block_number)
            /\ \A t \in ToSet(all[i].txns), u \in ToSet(all[i + 1].txns) : Later(u, t)
       /\ syncs = 0 => ~ decreasing

\* The time of the latest commit or sync is that of the last block that is stored, so that a sync
\* that finds its target behind this time, and returns, has it stored. After a sync that failed, and
\* after a reset that did not wait, neither is so.
TimeIsStored ==
  failures = 0 /\ abandoned = {} =>
    /\ write_mutex = "free" => latest_logical_time = stored
    /\ returned.ok => ~ Later(returned.target, stored)
=============================================================================
