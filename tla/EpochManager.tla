---------------------------- MODULE EpochManager ----------------------------
(***************************************************************************)
(* The epoch manager of one node (epoch_manager.rs): a single loop that    *)
(* takes messages, requests, timeouts and sync infos, hands them to the    *)
(* processors of the current epoch, and replaces these processors when an  *)
(* epoch ends.  Signatures are verified by tasks of their own, which go on *)
(* while the loop waits for the old round manager to stop and for the new  *)
(* epoch to start.  They hold the channels that the epoch manager had when *)
(* it spawned them.                                                        *)
(*                                                                         *)
(* A message stands for its kind, its epoch and its sender.  What a round  *)
(* manager does with one is left to the other modules, but for the change  *)
(* of its epoch.  The queues keep one copy of equal events; pushing to a   *)
(* receiver that was dropped fails and drops the event.                    *)
(***************************************************************************)
EXTENDS Naturals, FiniteSets

CONSTANTS
  LastEpoch,           \* bound: the last epoch of the network
  ValidatorEpochs,     \* the epochs in which this node is a validator
  Senders,             \* the other nodes
  QuorumStoreEnabled,  \* enable_quorum_store
  MaxInFlight,         \* bound: messages that are being verified or wait to be handled
  MaxProofs,           \* bound: epoch change proofs that are sent for one epoch
  MaxFailures          \* bound: syncs and requests that fail, in a behaviour

ASSUME EpochsAreNumbers == LastEpoch \in Nat \ {0}
ASSUME CountsAreNumbers == MaxProofs \in Nat /\ MaxFailures \in Nat /\ MaxInFlight \in Nat

VARIABLES
  epoch,           \* epoch_state.epoch
  loop,            \* what the loop does: "select", or a step of initiate_new_epoch
  channels,        \* channel -> the epoch of its receiver
  verifying,       \* the tasks of bounded_executor
  inbox,           \* what the processors of each epoch have not handled yet
  round_managers,  \* epoch -> "none", "running", "closing" or "stopped"
  changing,        \* wait_change_epoch_flag of the round manager of each epoch
  proofs,          \* epoch -> EpochChangeProofs for it in the self channel
  timers,          \* the epochs whose round manager has a timer that may still fire
  pending_blocks,  \* the epochs of the proposals there
  sync_request,    \* inflight_request_sync_info, and what sync_info_rx holds
  network,         \* the epoch of the other nodes
  failures

emVars == <<epoch, loop, channels, verifying, inbox, round_managers, changing, proofs, timers,
            pending_blocks, sync_request, network, failures>>

AllEpochs == 1 .. LastEpoch
NoEpoch == 0

Channels == {"round_manager", "buffered_proposal", "quorum_store", "block_retrieval",
             "batch_retrieval", "rand_manager", "sync_info_request"}

\* Messages that are verified, one for each way NetworkTask::start and forward_event send them on,
\* and the channel that forward_event sends each kind to.
Kinds == {"ProposalMsg", "VoteMsg", "BatchMsg"}
ChannelOf(kind) ==
  IF kind = "BatchMsg" THEN "quorum_store"
  ELSE IF kind = "ProposalMsg" THEN "buffered_proposal"
  ELSE "round_manager"

\* Requests that name no epoch, and the ones that do.
AnyEpochRequests == {"block_retrieval", "batch_retrieval", "sync_info_request"}

Event(kind, e, from) == [kind |-> kind, epoch |-> e, from |-> from]
Item(channel, owner, event) == [channel |-> channel, owner |-> owner, event |-> event]

is_current_epoch_validator == epoch \in ValidatorEpochs

\* Pushing `event` into `channel` whose receiver is of epoch `owner`. The round manager's own
\* channels are closed with it, the others with the epoch.
Alive(owner) == owner # NoEpoch /\ round_managers[owner] \in {"running", "closing"}
Push(channel, owner, event) ==
  inbox' = IF Alive(owner) THEN inbox \cup {Item(channel, owner, event)} ELSE inbox

InFlight == Cardinality(verifying) + Cardinality(inbox)

----------------------------------------------------------------------------
(* The loop.  Every handler runs to its end before the next event is taken. *)

\* process_different_epoch. A message of a lower epoch reaches it only from a validator, and is
\* ignored; for a higher one the round manager is told, with the epoch it is in itself.
ProcessDifferentEpoch(e, from) ==
  IF e > epoch
  THEN Push("round_manager", channels["round_manager"], Event("EpochChange", epoch, from))
  ELSE UNCHANGED inbox

\* process_message for what is signed by validators: consensus_msg_filter, check_epoch,
\* filter_quorum_store_events, and a task that verifies it.
ProcessMessage(kind, e, from) ==
  /\ loop = "select"
  /\ InFlight < MaxInFlight
  /\ is_current_epoch_validator
  /\ e <= network
  /\ \/ /\ e # epoch
        /\ ProcessDifferentEpoch(e, from)
        /\ UNCHANGED verifying
     \/ /\ e = epoch
        /\ kind = "BatchMsg" => QuorumStoreEnabled
        /\ verifying' = verifying \cup
             {[event |-> Event(kind, e, from), verifier |-> epoch, channels |-> channels]}
        /\ UNCHANGED inbox
  /\ UNCHANGED <<epoch, loop, channels, round_managers, changing, proofs, timers, pending_blocks,
                 sync_request, network, failures>>

\* Mutant: the task uses the channels of the epoch manager, not the ones it was given.
VerifyAndForwardToCurrent(task, valid) ==
  /\ task \in verifying
  /\ verifying' = verifying \ {task}
  /\ LET channel == ChannelOf(task.event.kind)
     IN IF valid
        THEN /\ Push(channel, channels[channel], task.event)
             /\ pending_blocks' = pending_blocks \cup
                  {e \in {task.event.epoch} : task.event.kind = "ProposalMsg"}
        ELSE UNCHANGED <<inbox, pending_blocks>>
  /\ UNCHANGED <<epoch, loop, channels, round_managers, changing, proofs, timers, sync_request,
                 network, failures>>

\* The task: verify with the epoch state it was given, and forward_event. What fails is dropped.
VerifyAndForward(task, valid) ==
  /\ task \in verifying
  /\ verifying' = verifying \ {task}
  /\ LET channel == ChannelOf(task.event.kind)
     IN IF valid
        THEN /\ Push(channel, task.channels[channel], task.event)
             /\ pending_blocks' = pending_blocks \cup
                  {e \in {task.event.epoch} : task.event.kind = "ProposalMsg"}
        ELSE UNCHANGED <<inbox, pending_blocks>>
  /\ UNCHANGED <<epoch, loop, channels, round_managers, changing, proofs, timers, sync_request,
                 network, failures>>

\* process_rpc_request: rpc_request_filter, the epoch if the request has one, and the channel of
\* the service. Commit requests go to the execution client, which is not part of this module.
ProcessRpcRequest(kind, e, from) ==
  /\ loop = "select"
  /\ InFlight < MaxInFlight
  /\ kind \in AnyEpochRequests => e = epoch
  /\ kind \notin AnyEpochRequests => is_current_epoch_validator
  /\ e <= network
  /\ IF e # epoch
     THEN ProcessDifferentEpoch(e, from)
     ELSE Push(kind, channels[kind], Event(kind, e, from))
  /\ UNCHANGED <<epoch, loop, channels, verifying, round_managers, changing, proofs, timers,
                 pending_blocks, sync_request, network, failures>>

\* process_local_timeout. The timer of a round manager that has stopped still fires.
ProcessLocalTimeout(e) ==
  /\ loop = "select"
  /\ e \in timers
  /\ timers' = timers \ {e}
  /\ IF is_current_epoch_validator
     THEN Push("round_manager", channels["round_manager"], Event("LocalTimeout", e, "self"))
     ELSE UNCHANGED inbox
  /\ UNCHANGED <<epoch, loop, channels, verifying, round_managers, changing, proofs,
                 pending_blocks, sync_request, network, failures>>

\* The tick of request_sync_info_interval, for a node that is no validator.
RequestSyncInfo ==
  /\ loop = "select"
  /\ ~is_current_epoch_validator
  /\ ~sync_request.inflight
  /\ sync_request' = [inflight |-> TRUE, asked |-> TRUE, answer |-> {}]
  /\ UNCHANGED <<epoch, loop, channels, verifying, inbox, round_managers, changing, proofs, timers,
                 pending_blocks, network, failures>>

\* The task of the request: the peer's sync info, or None when it fails or times out.
AnswerSyncInfo(e, from) ==
  /\ sync_request.asked
  /\ e <= network
  /\ e = NoEpoch => failures < MaxFailures
  /\ failures' = failures + (IF e = NoEpoch THEN 1 ELSE 0)
  /\ sync_request' = [sync_request EXCEPT !.asked = FALSE, !.answer = {Event("SyncInfo", e, from)}]
  /\ UNCHANGED <<epoch, loop, channels, verifying, inbox, round_managers, changing, proofs, timers,
                 pending_blocks, network>>

\* sync_info_rx.next() and advance_block_sync.
AdvanceBlockSync ==
  /\ loop = "select"
  /\ \E answer \in sync_request.answer :
       IF is_current_epoch_validator \/ answer.epoch < epoch
       THEN UNCHANGED inbox
       ELSE IF answer.epoch = epoch
            THEN Push("round_manager", channels["round_manager"], answer)
            ELSE Push("round_manager", channels["round_manager"],
                      Event("EpochChange", epoch, answer.from))
  /\ sync_request' = [inflight |-> FALSE, asked |-> FALSE, answer |-> {}]
  /\ UNCHANGED <<epoch, loop, channels, verifying, round_managers, changing, proofs, timers,
                 pending_blocks, network, failures>>

----------------------------------------------------------------------------
(* The change of the epoch, which the loop awaits: no other event is taken meanwhile. *)

\* Mutant: the epoch of the proof is not compared with the current one.
ProcessAnyEpochChangeProof(e) ==
  /\ loop = "select"
  /\ proofs[e] > 0
  /\ proofs' = [proofs EXCEPT ![e] = @ - 1]
  /\ loop' = "shutdown"
  /\ round_managers' = [round_managers EXCEPT ![epoch] = "closing"]
  /\ UNCHANGED <<epoch, channels, verifying, inbox, changing, timers, pending_blocks, sync_request,
                 network, failures>>

\* check_epoch for an EpochChangeProof, which the filter accepts from the node itself only:
\* initiate_new_epoch begins to shut down, and asks the round manager to stop.
ProcessEpochChangeProof(e) ==
  /\ loop = "select"
  /\ proofs[e] > 0
  /\ proofs' = [proofs EXCEPT ![e] = @ - 1]
  /\ IF e = epoch
     THEN /\ loop' = "shutdown"
          /\ round_managers' = [round_managers EXCEPT ![e] = "closing"]
     ELSE UNCHANGED <<loop, round_managers>>
  /\ UNCHANGED <<epoch, channels, verifying, inbox, changing, timers, pending_blocks, sync_request,
                 network, failures>>

\* Mutant: the epoch manager does not wait for the acknowledgement.
ShutdownWithoutWaiting ==
  /\ loop = "shutdown"
  /\ round_managers[epoch] = "closing"
  /\ channels' = [c \in Channels |->
       IF c \in {"round_manager", "block_retrieval", "batch_retrieval", "rand_manager"}
       THEN NoEpoch ELSE channels[c]]
  /\ pending_blocks' = {}
  /\ loop' = "sync_to"
  /\ UNCHANGED <<epoch, verifying, inbox, round_managers, changing, proofs, timers, sync_request,
                 network, failures>>

\* The round manager acknowledges between two events; its queues go with it. Then the rest of
\* shutdown_current_processor, which leaves the senders of buffered proposals, of quorum store
\* messages and of sync info requests as they are, and the reset of the pending blocks.
ShutdownCurrentProcessor ==
  /\ loop = "shutdown"
  /\ round_managers[epoch] = "closing"
  /\ round_managers' = [round_managers EXCEPT ![epoch] = "stopped"]
  /\ inbox' = {i \in inbox : i.owner # epoch}
  /\ channels' = [c \in Channels |->
       IF c \in {"round_manager", "block_retrieval", "batch_retrieval", "rand_manager"}
       THEN NoEpoch ELSE channels[c]]
  /\ pending_blocks' = {}
  /\ loop' = "sync_to"
  /\ UNCHANGED <<epoch, verifying, changing, proofs, timers, sync_request, network, failures>>

\* init_payload_provider: the quorum store of the new epoch, if it is enabled.
QuorumStoreTx(e) == IF QuorumStoreEnabled THEN e ELSE NoEpoch

\* start_round_manager, with the tasks that answer block, sync info and batch requests.
StartRoundManager(e) ==
  /\ channels' = [c \in Channels |-> IF c = "quorum_store" THEN QuorumStoreTx(e) ELSE e]
  /\ round_managers' = [round_managers EXCEPT ![e] = "running"]

\* After sync_to and the notification of the new configuration: start_new_epoch, which ends with
\* the start of the new processors.
StartNewEpoch ==
  /\ loop = "sync_to"
  /\ epoch' = epoch + 1
  /\ StartRoundManager(epoch + 1)
  /\ loop' = "select"
  /\ UNCHANGED <<verifying, inbox, changing, proofs, timers, pending_blocks, sync_request, network,
                 failures>>

----------------------------------------------------------------------------
(* The round managers. *)

\* An event is handled, all but EpochChange without an effect that this module shows.
HandleEvent(item) ==
  /\ item \in inbox
  /\ round_managers[item.owner] = "running"
  /\ item.event.kind # "EpochChange" \/ changing[item.owner]
  /\ inbox' = inbox \ {item}
  /\ UNCHANGED <<epoch, loop, channels, verifying, round_managers, changing, proofs, timers,
                 pending_blocks, sync_request, network, failures>>

SendProof(e) ==
  /\ proofs[e] < MaxProofs
  /\ proofs' = [proofs EXCEPT ![e] = @ + 1]

\* The sync fails, or returns early and sends nothing, or reaches the end of the epoch, which
\* must have ended, and sends the proof to this node.
FastForwardSyncByEpoch(e, outcome) ==
  /\ outcome = "synced" => network > e
  /\ outcome # "synced" => failures < MaxFailures
  /\ failures' = failures + (IF outcome = "synced" THEN 0 ELSE 1)
  /\ IF outcome = "synced" THEN SendProof(e) ELSE UNCHANGED proofs

HandleEpochChange(item, outcome) ==
  /\ item \in inbox
  /\ round_managers[item.owner] = "running"
  /\ item.event.kind = "EpochChange"
  /\ ~changing[item.owner]
  /\ inbox' = inbox \ {item}
  /\ FastForwardSyncByEpoch(item.owner, outcome)
  /\ changing' = [changing EXCEPT ![item.owner] = outcome # "failed"]
  /\ UNCHANGED <<epoch, loop, channels, verifying, round_managers, timers, pending_blocks,
                 sync_request, network>>

\* The block that ends the epoch is committed here, and the proof sent to this node.
CommitEndsEpoch(e) ==
  /\ round_managers[e] \in {"running", "closing"}
  /\ e < LastEpoch
  /\ network' = IF network = e THEN e + 1 ELSE network
  /\ SendProof(e)
  /\ UNCHANGED <<epoch, loop, channels, verifying, inbox, round_managers, changing, timers,
                 pending_blocks, sync_request, failures>>

\* setup_timeout of a round manager that runs.
SetupTimeout(e) ==
  /\ round_managers[e] = "running"
  /\ e \notin timers
  /\ timers' = timers \cup {e}
  /\ UNCHANGED <<epoch, loop, channels, verifying, inbox, round_managers, changing, proofs,
                 pending_blocks, sync_request, network, failures>>

\* The other nodes end the epoch without this one.
NetworkMovesOn ==
  /\ network < LastEpoch
  /\ network' = network + 1
  /\ UNCHANGED <<epoch, loop, channels, verifying, inbox, round_managers, changing, proofs, timers,
                 pending_blocks, sync_request, failures>>

----------------------------------------------------------------------------
\* The first epoch starts before the loop does.
EmInit ==
  /\ epoch = 1
  /\ loop = "select"
  /\ channels = [c \in Channels |-> IF c = "quorum_store" THEN QuorumStoreTx(1) ELSE 1]
  /\ verifying = {}
  /\ inbox = {}
  /\ round_managers = [e \in AllEpochs |-> IF e = 1 THEN "running" ELSE "none"]
  /\ changing = [e \in AllEpochs |-> FALSE]
  /\ proofs = [e \in AllEpochs |-> 0]
  /\ timers = {}
  /\ pending_blocks = {}
  /\ sync_request = [inflight |-> FALSE, asked |-> FALSE, answer |-> {}]
  /\ network = 1
  /\ failures = 0

EmNext ==
  \/ \E kind \in Kinds, e \in AllEpochs, p \in Senders : ProcessMessage(kind, e, p)
  \/ \E task \in verifying, valid \in BOOLEAN : VerifyAndForward(task, valid)
  \/ \E kind \in AnyEpochRequests \cup {"rand_manager"}, e \in AllEpochs, p \in Senders :
       ProcessRpcRequest(kind, e, p)
  \/ \E e \in AllEpochs : ProcessLocalTimeout(e)
  \/ RequestSyncInfo
  \/ \E e \in AllEpochs \cup {NoEpoch}, p \in Senders : AnswerSyncInfo(e, p)
  \/ AdvanceBlockSync
  \/ \E e \in AllEpochs : ProcessEpochChangeProof(e)
  \/ ShutdownCurrentProcessor
  \/ StartNewEpoch
  \/ \E item \in inbox : HandleEvent(item)
  \/ \E item \in inbox, outcome \in {"failed", "returned", "synced"} : HandleEpochChange(item, outcome)
  \/ \E e \in AllEpochs : CommitEndsEpoch(e) \/ SetupTimeout(e)
  \/ NetworkMovesOn

EmSpec == EmInit /\ [][EmNext]_emVars

----------------------------------------------------------------------------
\* What a processor of an epoch finds in its queues was verified with the validators of that
\* epoch and is of that epoch, although the tasks that verify finish in any order, before or
\* after the change of the epoch. The handlers of the round manager compare rounds only.
EventsOfOwnEpoch ==
  \A i \in inbox : i.event.kind # "LocalTimeout" => i.event.epoch = i.owner

\* Two round managers never run at the same time, nor does one start before the one before it has
\* given the safety rules back; and while the loop takes events, every channel leads to the
\* processors of the current epoch.
OneProcessorAtATime ==
  /\ \A e, d \in AllEpochs :
       round_managers[e] \in {"running", "closing"} /\ round_managers[d] \in {"running", "closing"}
         => e = d
  /\ \A e \in AllEpochs : round_managers[e] = "stopped" => e < epoch \/ loop = "sync_to"
  /\ loop = "select" =>
       /\ round_managers[epoch] = "running"
       /\ \A c \in Channels \ {"quorum_store"} : channels[c] = epoch

\* A proof of the end of an epoch, however often it was sent, ends that epoch and no later one.
EpochEndsOnce ==
  [][epoch' # epoch => epoch' = epoch + 1 /\ network > epoch]_emVars
=============================================================================
