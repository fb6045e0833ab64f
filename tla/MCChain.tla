------------------------------ MODULE MCChain -------------------------------
(* The chain of blocks, who proposes them and who follows it, for TLC: in each behaviour one   *)
(* component, as `scenario` says. A chain 0 <- 1 <- 2 <- 3 <- 4 with a gap between the rounds  *)
(* of 2 and 3, so that the certificate of 2 commits 1 and the one of 4 commits 3 and 2, and a  *)
(* proposal 5 on 1; three candidates for leader, the first without voting power; an observer  *)
(* of a chain of two epochs with two publishers; and two observers among three nodes.         *)
EXTENDS LeaderReputation, Integers, Sequences, FiniteSets, TLC

CONSTANTS n1, n2, n3, p1, p2, none

VARIABLES
  scenario,     \* the component, and the instance of it, that this behaviour is about
  tree, db, exec, task, up, crashes, syncs,
  epoch, root, payloads, pending, ordered, decided, sync_handle, consensusObserver_task,
  notifications, loop, subscription, consensusObserver_exec, decisions, base, state, reconfig,
  callbacks, callback, sent, failures,
  active, subscribers, calling, inbox, messages, connected, disconnects, timeouts

Symmetry == Permutations({n1, n2})

\* The last block of the leaders' chain ends the epoch.
LeaderRounds == [b \in 0 .. 4 |-> <<9, 1, 2, 4, 5>>[b + 1]]
Good == [ok |-> 3, failed |-> 0]
Bad == [ok |-> 1, failed |-> 2]
New == [ok |-> 0, failed |-> 0]
Performances ==
  [b \in 0 .. 4 |-> << <<New, New, New>>, <<New, Good, New>>, <<New, Good, Bad>>,
                      <<New, Bad, Good>>, <<New, New>> >>[b + 1]]

ObserverBatches == p1 :> << <<1, 2>>, <<3, 3>>, <<4, 4>> >> @@ p2 :> << <<1, 1>>, <<2, 2>>, <<3, 4>> >>

BlockStoreVars == <<tree, db, exec, task, up, crashes, syncs>>
ConsensusObserverVars ==
  <<epoch, root, payloads, pending, ordered, decided, sync_handle, consensusObserver_task,
    notifications, loop, subscription, consensusObserver_exec, decisions, base, state,
    reconfig, callbacks, callback, sent, failures>>
ObserverSubscriptionsVars ==
  <<active, subscribers, calling, inbox, messages, connected, disconnects, timeouts>>
mcvars == <<scenario, BlockStoreVars, vars, ConsensusObserverVars, ObserverSubscriptionsVars>>

\* A component that is not looked at stays in its initial state or keeps this value in its
\* variables.
Unused == "unused"
NoBlockStore ==
  /\ tree = Unused /\ db = Unused /\ exec = Unused /\ task = Unused
  /\ up = Unused /\ crashes = Unused /\ syncs = Unused
NoConsensusObserver ==
  /\ epoch = Unused /\ root = Unused /\ payloads = Unused /\ pending = Unused
  /\ ordered = Unused /\ decided = Unused /\ sync_handle = Unused /\ consensusObserver_task = Unused
  /\ notifications = Unused /\ loop = Unused /\ subscription = Unused /\ consensusObserver_exec = Unused
  /\ decisions = Unused /\ base = Unused /\ state = Unused /\ reconfig = Unused
  /\ callbacks = Unused /\ callback = Unused /\ sent = Unused /\ failures = Unused
NoObserverSubscriptions ==
  /\ active = Unused /\ subscribers = Unused /\ calling = Unused /\ inbox = Unused
  /\ messages = Unused /\ connected = Unused /\ disconnects = Unused /\ timeouts = Unused

Store == INSTANCE BlockStore WITH
  Blocks <- 0 .. 5, Parent <- <<0, 1, 2, 3, 1>>,
  Round <- [b \in 0 .. 5 |-> <<0, 1, 2, 4, 5, 6>>[b + 1]], Certified <- {1, 2, 3, 4},
  Ledger <- {1, 3}, MaxPruned <- 3, MaxCrashes <- 2, MaxSyncs <- 2
LeadersNodes == {n1, n2}
LeadersEndsEpoch == {4}
LeadersRounds == {3, 6}
LeadersPowers == <<0, 2, 1>>
LeadersLost == {1}
LeadersSeed == [p \in (0 .. 4) \X {3, 6} |-> 7 * p[1] + 5 * p[2]]
Observer == INSTANCE ConsensusObserver WITH
  Peers <- {p1, p2}, NoPeer <- none, Height <- 4,
  EpochOf <- [b \in 0 .. 4 |-> <<1, 1, 1, 2, 2>>[b + 1]],
  Round <- [b \in 0 .. 4 |-> <<0, 1, 3, 1, 2>>[b + 1]], Batches <- ObserverBatches,
  QuorumStoreEnabled <- TRUE, MaxNumPendingBlocks <- 2, MaxSyncFailures <- 1,
  task <- consensusObserver_task, exec <- consensusObserver_exec
Subscriptions == INSTANCE ObserverSubscriptions WITH
  Nodes <- {n1, n2, n3}, Observers <- {n1, n2}, NoNode <- none, ChannelSize <- 1,
  MaxDisconnects <- 1, MaxTimeouts <- 1

----------------------------------------------------------------------------
MCInit ==
  \/ scenario = "Store" /\ Store!Init /\ Init /\ NoConsensusObserver /\ NoObserverSubscriptions
  \/ scenario = "Leaders" /\ Init /\ NoBlockStore /\ NoConsensusObserver /\ NoObserverSubscriptions
  \/ scenario = "Observer" /\ Observer!Init /\ NoBlockStore /\ Init /\ NoObserverSubscriptions
  \/ scenario = "Subscriptions" /\ Subscriptions!Init /\ NoBlockStore /\ Init /\ NoConsensusObserver

MCNext ==
  /\ UNCHANGED scenario
  /\ \/ scenario = "Store" /\ Store!Next /\ UNCHANGED <<vars, ConsensusObserverVars, ObserverSubscriptionsVars>>
     \/ scenario = "Leaders" /\ Next /\ UNCHANGED <<BlockStoreVars, ConsensusObserverVars, ObserverSubscriptionsVars>>
     \/ scenario = "Observer" /\ Observer!Next /\ UNCHANGED <<BlockStoreVars, vars, ObserverSubscriptionsVars>>
     \/ scenario = "Subscriptions" /\ Subscriptions!Next /\ UNCHANGED <<BlockStoreVars, vars, ConsensusObserverVars>>

MCSpec == MCInit /\ [][MCNext]_mcvars

----------------------------------------------------------------------------
\* The roots of the block tree are in it and in order, whichever callbacks of before a rebuild come
\* after it; execution gets every block of the ordered chain once and after its parent, across
\* restarts and syncs; and after a crash anywhere recovery finds the block that execution
\* committed and its certificate (commit_callback, send_for_execution, save_tree, start). And the
\* elected leader has voting power, whatever the caches hold (choose_index, get_weights).
ChainCorrect ==
  /\ scenario = "Store" =>
       /\ Store!TypeOK
       /\ Store!RootsExist
       /\ Store!ExecutionGetsChain
       /\ Store!Restartable
  /\ scenario = "Leaders" => TypeOK /\ LeaderHasStake

\* Execution gets the blocks of the chain in order and each after its parent, nothing while state
\* sync runs, and the end of a state sync is always noticed (ConsensusObserver); and two observers
\* never feed each other, whatever requests cross, are late or lost (ObserverSubscriptions).
ObserverCorrect ==
  /\ scenario = "Observer" =>
       /\ Observer!TypeOK
       /\ Observer!ExecutionGetsChain
       /\ Observer!NothingExecutesDuringSync
       /\ Observer!SyncIsNotified
  /\ scenario = "Subscriptions" => Subscriptions!TypeOK /\ Subscriptions!NoMutualFollowing

\* check_progress: "If we're in state sync mode, we should wait for state sync to complete", for
\* which the root is taken as its target (ConsensusObserver).
WaitsForSyncOnly == scenario = "Observer" => Observer!WaitsForSyncOnly
=============================================================================
