------------------------------- MODULE MCDag --------------------------------
(* The DAG for TLC. Order: two graphs of four validators and five rounds, where an anchor is   *)
(* reached by few, by all, or only by way of later anchors. The driver of one validator of     *)
(* three: Rounds, which it enters with crashes and certificates of its own; Fetch, where it    *)
(* misses parents; and Sync, where it is told of blocks far ahead. And the client through      *)
(* which blocks are executed and synced: Client, with a sync that may fail inside an epoch, and *)
(* Rushed, with a reset that does not wait.                                                    *)
EXTENDS Integers, Sequences, FiniteSets, TLC

CONSTANTS me, a, a2, none

VARIABLES
  scenario,     \* the component, and the instance of it, that this behaviour is about
  dag, nodes, start_round, stored, adding, weak, ordered, lowest_unordered_anchor_round,
  waiting, ordering, blocks, committed, restarts,
  dagDriver_nodes, dagDriver_start_round, dagDriver_stored, ledger, pending, dagDriver_ordered,
  dagDriver_committed, current_round, responsive, timers, new_rounds, entering, broadcasting,
  sent, own, fetching, fetched, memo, mode, outcome, sync, panicked, crashes,
  caller, epoch, executionClient_ordered, handle, proxy_state, rand, ready, buffer, alive,
  resetting, reset_flag, schedule_q, scheduling, scheduled, computing, persist_q, committing,
  write_mutex, latest_logical_time, notifications, executionClient_stored, handed, notified,
  returned, told, decreasing, abandoned, panics, syncs, failures, giveups

\* Each node links to all nodes of the round before, except for the links in skip.
GraphOf(skip, missing) ==
  [n \in ((1 .. 5) \X (0 .. 3)) \ missing |->
     IF n[1] = 1 THEN {} ELSE {v \in 0 .. 3 : <<n[1] - 1, v>> \notin missing /\ <<n, v>> \notin skip}]

DagOrderVars ==
  <<dag, nodes, start_round, stored, adding, weak, ordered, lowest_unordered_anchor_round,
    waiting, ordering, blocks, committed, restarts>>
DagDriverVars ==
  <<dagDriver_nodes, dagDriver_start_round, dagDriver_stored, ledger, pending,
    dagDriver_ordered, dagDriver_committed, current_round, responsive, timers, new_rounds,
    entering, broadcasting, sent, own, fetching, fetched, memo, mode, outcome, sync, panicked,
    crashes>>
ExecutionClientVars ==
  <<caller, epoch, executionClient_ordered, handle, proxy_state, rand, ready, buffer, alive,
    resetting, reset_flag, schedule_q, scheduling, scheduled, computing, persist_q, committing,
    write_mutex, latest_logical_time, notifications, executionClient_stored, handed, notified,
    returned, told, decreasing, abandoned, panics, syncs, failures, giveups>>
vars == <<scenario, DagOrderVars, DagDriverVars, ExecutionClientVars>>

\* A component that is not looked at keeps this value in its variables.
Unused == "unused"
NoDagOrder ==
  /\ dag = Unused /\ nodes = Unused /\ start_round = Unused /\ stored = Unused
  /\ adding = Unused /\ weak = Unused /\ ordered = Unused /\ lowest_unordered_anchor_round = Unused
  /\ waiting = Unused /\ ordering = Unused /\ blocks = Unused /\ committed = Unused
  /\ restarts = Unused
NoDagDriver ==
  /\ dagDriver_nodes = Unused /\ dagDriver_start_round = Unused /\ dagDriver_stored = Unused /\ ledger = Unused
  /\ pending = Unused /\ dagDriver_ordered = Unused /\ dagDriver_committed = Unused /\ current_round = Unused
  /\ responsive = Unused /\ timers = Unused /\ new_rounds = Unused /\ entering = Unused
  /\ broadcasting = Unused /\ sent = Unused /\ own = Unused /\ fetching = Unused
  /\ fetched = Unused /\ memo = Unused /\ mode = Unused /\ outcome = Unused
  /\ sync = Unused /\ panicked = Unused /\ crashes = Unused
NoExecutionClient ==
  /\ caller = Unused /\ epoch = Unused /\ executionClient_ordered = Unused /\ handle = Unused
  /\ proxy_state = Unused /\ rand = Unused /\ ready = Unused /\ buffer = Unused
  /\ alive = Unused /\ resetting = Unused /\ reset_flag = Unused /\ schedule_q = Unused
  /\ scheduling = Unused /\ scheduled = Unused /\ computing = Unused /\ persist_q = Unused
  /\ committing = Unused /\ write_mutex = Unused /\ latest_logical_time = Unused /\ notifications = Unused
  /\ executionClient_stored = Unused /\ handed = Unused /\ notified = Unused /\ returned = Unused
  /\ told = Unused /\ decreasing = Unused /\ abandoned = Unused /\ panics = Unused
  /\ syncs = Unused /\ failures = Unused /\ giveups = Unused

Order == INSTANCE DagOrder WITH
  N <- 4, Quorum <- 3, FPlusOne <- 2, MaxRound <- 5, Window <- 1,
  Graphs <- {GraphOf({<<<<2, v>>, 0>> : v \in {1, 2}}, {<<2, 3>>, <<3, 3>>, <<4, 0>>, <<5, 1>>}),
   GraphOf({<<<<2, v>>, 0>> : v \in {0, 1, 2}} \cup {<<<<3, 1>>, 3>>}, {<<3, 3>>, <<4, 0>>, <<5, 1>>})},
  Broadcast <- {<<2, 0>>, <<2, 1>>, <<2, 2>>}, MaxRestarts <- 1, MaxWaiting <- 1
Rounds == INSTANCE DagDriver WITH
  Me <- me, Peers <- {a, a2}, Quorum <- 2, MaxRound <- 2, Heard <- (1 .. 2) \X {a, a2},
  Anchors <- {}, MaxLag <- 1, Window <- 1, EpochEnd <- 9, Payloads <- {1, 2}, ChannelSize <- 1,
  MaxOwn <- 1, MaxCrashes <- 1, None <- none, nodes <- dagDriver_nodes,
  start_round <- dagDriver_start_round, stored <- dagDriver_stored,
  ordered <- dagDriver_ordered, committed <- dagDriver_committed
Fetch == INSTANCE DagDriver WITH
  Me <- me, Peers <- {a, a2}, Quorum <- 2, MaxRound <- 7,
  Heard <- {<<1, a>>, <<1, a2>>, <<2, a>>, <<4, a>>, <<7, a2>>}, Anchors <- {3}, MaxLag <- 1,
  Window <- 1, EpochEnd <- 9, Payloads <- {1}, ChannelSize <- 1, MaxOwn <- 0, MaxCrashes <- 0,
  None <- none, nodes <- dagDriver_nodes, start_round <- dagDriver_start_round,
  stored <- dagDriver_stored, ordered <- dagDriver_ordered, committed <- dagDriver_committed
Sync == INSTANCE DagDriver WITH
  Me <- me, Peers <- {a, a2}, Quorum <- 2, MaxRound <- 7,
  Heard <- ((1 .. 2) \X {a, a2}) \cup {<<3, a>>, <<4, a>>, <<5, a>>, <<7, a2>>},
  Anchors <- {1, 3}, MaxLag <- 2, Window <- 1, EpochEnd <- 6, Payloads <- {1, 2},
  ChannelSize <- 0, MaxOwn <- 0, MaxCrashes <- 1, None <- none, nodes <- dagDriver_nodes,
  start_round <- dagDriver_start_round, stored <- dagDriver_stored,
  ordered <- dagDriver_ordered, committed <- dagDriver_committed
Client == INSTANCE ExecutionClient WITH
  MaxEpoch <- 2, MaxRound <- 2, Boundary <- <<1, 1>>, RandEpochs <- {1},
  Validators <- <<<<a, a2>>, <<a2, a>>>>, Author <- [x \in (1 .. 2) \X (1 .. 2) |-> a],
  Vtxns <- [x \in (1 .. 2) \X (1 .. 2) |-> IF x[2] = 1 THEN <<"dkg", <<"rsa", "key">>>> ELSE <<>>],
  Capacity <- 1, MaxSyncs <- 1, MaxFailures <- 1, MaxGiveUps <- 0,
  ordered <- executionClient_ordered, stored <- executionClient_stored
Rushed == INSTANCE ExecutionClient WITH
  MaxEpoch <- 2, MaxRound <- 2, Boundary <- <<1, 1>>, RandEpochs <- {1},
  Validators <- <<<<a, a2>>, <<a2, a>>>>, Author <- [x \in (1 .. 2) \X (1 .. 2) |-> a],
  Vtxns <- [x \in (1 .. 2) \X (1 .. 2) |-> IF x[2] = 1 THEN <<"dkg", <<"rsa", "key">>>> ELSE <<>>],
  Capacity <- 1, MaxSyncs <- 0, MaxFailures <- 0, MaxGiveUps <- 1,
  ordered <- executionClient_ordered, stored <- executionClient_stored

----------------------------------------------------------------------------
Init ==
  \/ scenario = "Order" /\ Order!Init /\ NoDagDriver /\ NoExecutionClient
  \/ scenario = "Rounds" /\ Rounds!Init /\ NoDagOrder /\ NoExecutionClient
  \/ scenario = "Fetch" /\ Fetch!Init /\ NoDagOrder /\ NoExecutionClient
  \/ scenario = "Sync" /\ Sync!Init /\ NoDagOrder /\ NoExecutionClient
  \/ scenario = "Client" /\ Client!Init /\ NoDagOrder /\ NoDagDriver
  \/ scenario = "Rushed" /\ Rushed!Init /\ NoDagOrder /\ NoDagDriver

Next ==
  /\ UNCHANGED scenario
  /\ \/ scenario = "Order" /\ Order!Next /\ UNCHANGED <<DagDriverVars, ExecutionClientVars>>
     \/ scenario = "Rounds" /\ Rounds!Next /\ UNCHANGED <<DagOrderVars, ExecutionClientVars>>
     \/ scenario = "Fetch" /\ Fetch!Next /\ UNCHANGED <<DagOrderVars, ExecutionClientVars>>
     \/ scenario = "Sync" /\ Sync!Next /\ UNCHANGED <<DagOrderVars, ExecutionClientVars>>
     \/ scenario = "Client" /\ Client!Next /\ UNCHANGED <<DagOrderVars, DagDriverVars>>
     \/ scenario = "Rushed" /\ Rushed!Next /\ UNCHANGED <<DagOrderVars, DagDriverVars>>

Spec == Init /\ [][Next]_vars

----------------------------------------------------------------------------
\* Whatever reaches a validator, in which order, and whenever it crashes and prunes, it orders the
\* anchors that everyone orders who has the whole graph, one after the other, and with each the
\* nodes of its history in the window that no anchor before it had, each once. So any two
\* validators order the same blocks (the property that test_order_rule_safety tests).
OrderAgrees == scenario = "Order" => Order!OrderAgrees

\* A node of this validator links to a quorum of the round before it, and once the nodes of a round
\* are a quorum something is under way that brings the next round: no order of nodes, timers, late
\* events, fetches, syncs and crashes leaves the validator behind in its round (enter_new_round,
\* check_new_round).
DriverKeepsUp ==
  /\ scenario = "Rounds" => Rounds!NodesAreComplete /\ Rounds!NextRoundIsUnderWay
  /\ scenario = "Fetch" => Fetch!NodesAreComplete /\ Fetch!NextRoundIsUnderWay
  /\ scenario = "Sync" => Sync!NodesAreComplete /\ Sync!NextRoundIsUnderWay

\* Tasks of a phase use what the proxy has of the epoch, after they waited, while epochs end and
\* syncs reset the managers: no task finds the state gone or another epoch's, the blocks of a commit
\* follow what is stored, state sync is told of each in order, and the logical time by which a sync
\* decides that it has nothing to do is that of what is stored (ExecutionProxyClient,
\* ExecutionProxy). What a reset did not wait for is excepted, and a sync that failed.
ClientCorrect ==
  /\ scenario = "Client" =>
       /\ Client!StateOfOwnEpoch
       /\ Client!CommitsFollow
       /\ Client!NotifiedInOrder
       /\ Client!TimeIsStored
  /\ scenario = "Rushed" =>
       /\ Rushed!StateOfOwnEpoch
       /\ Rushed!CommitsFollow
       /\ Rushed!NotifiedInOrder
       /\ Rushed!TimeIsStored

\* A validator never broadcasts two nodes for one round, nor goes back to a round, whatever it had in
\* mind when it crashed and whatever state it goes on with after a sync that succeeded or failed: two
\* nodes of one round would split the votes (save_pending_node, DagDriver::new).
NoTwoNodes ==
  [][/\ scenario = "Rounds" => Rounds!NoTwoNodes
     /\ scenario = "Fetch" => Fetch!NoTwoNodes
     /\ scenario = "Sync" => Sync!NoTwoNodes]_vars
=============================================================================
