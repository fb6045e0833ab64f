------------------------------ MODULE DagDriver ------------------------------
(***************************************************************************)
(* One validator of the DAG: how it moves from round to round and          *)
(* broadcasts its own nodes (dag_driver.rs, round_state.rs), what its      *)
(* handler does with the certified nodes of the others (dag_handler.rs),   *)
(* how missing parents are fetched (dag_fetcher.rs), how it falls back on  *)
(* state sync (dag_state_sync.rs) and how it starts, again after a crash   *)
(* or a sync (bootstrap.rs).                                               *)
(*                                                                         *)
(* Votes are in DagBroadcast and the order is in DagOrder: here a node     *)
(* that is broadcast may get its certificate, and anchors up to the last   *)
(* round but one may be ordered and committed.  The others form quorums    *)
(* without this validator, and link to one another's nodes.                *)
(***************************************************************************)
EXTENDS Integers, Sequences, SequencesExt, FiniteSets, FiniteSetsExt

CONSTANTS
  Me, Peers,
  Quorum,       \* 2f + 1; validators have equal power
  MaxRound,     \* bound: the last round of the others
  Heard,        \* bound: the nodes of the others whose messages are not lost
  Anchors,      \* the rounds whose anchor can be ordered here
  MaxLag,       \* bound: how far the ledger info of a message is behind its node
  Window,       \* dag_ordering_causal_history_window
  EpochEnd,     \* the round of the ledger info that ends the epoch
  Payloads,     \* what pull_payload may return
  ChannelSize,  \* of the requests to the fetch service
  MaxOwn,       \* bound: certificates of our own nodes
  MaxCrashes,   \* bound
  None

VARIABLES
  nodes, start_round,       \* the DAG store
  stored, ledger, pending,  \* the database: certified nodes, latest ledger info, pending node
  ordered, committed,       \* the highest ordered anchor, and the round of the ledger info provider
  current_round, responsive, timers, new_rounds,  \* RoundState and its channel of events
  entering,                 \* where enter_new_round is
  broadcasting,             \* rb_handles: the nodes whose broadcast is not aborted
  sent,                     \* history: the node that was broadcast last
  own,                      \* round -> links of our certified nodes
  fetching, fetched, memo,  \* the fetch service: requests, answers, and inflight_requests that failed
  mode, outcome, sync,      \* the bootstrapper's mode, and what it syncs to
  panicked, crashes

store    == <<nodes, start_round>>
database == <<stored, ledger, pending>>
progress == <<ordered, committed>>
rounds   == <<current_round, responsive, timers, new_rounds>>
mine     == <<broadcasting, sent, own>>
fetches  == <<fetching, fetched, memo>>
modes    == <<mode, outcome, sync>>
vars == <<store, database, progress, rounds, entering, mine, fetches, modes, panicked, crashes>>

Authors == Peers \cup {Me}
Certified == ((1 .. MaxRound) \X Peers) \cup {<<r, Me>> : r \in DOMAIN own}
Delivered == Heard \cup {<<r, Me>> : r \in DOMAIN own}
Parents(n) ==
  IF n[1] = 1 THEN {}
  ELSE {<<n[1] - 1, a>> : a \in IF n[2] = Me THEN own[n[1]] ELSE Peers}

Minus(r, d) == IF r > d THEN r - d ELSE 0       \* saturating_sub
Running(m) == mode = m /\ panicked = None

----------------------------------------------------------------------------
(* The DAG store. *)

LinksOf(set, r) == {a \in Authors : <<r, a>> \in set}
HasStrongLinks(set, r) == Cardinality(LinksOf(set, r)) >= Quorum
HighestRound(set, start) == Max({n[1] : n \in set} \cup {start})

\* Mutant: the highest round is taken before its nodes are a quorum.
HighestRoundOfAny(set, start) == HighestRound(set, start)

\* The highest round, or the one before if the highest has no quorum yet.
HighestStrongLinksRound(set, start) ==
  LET highest == HighestRound(set, start)
  IN IF HasStrongLinks(set, highest) THEN highest ELSE highest - 1

IsEmpty(set, start) == set = {} /\ start > 1

LowestIncompleteRound ==
  LET full == {r \in 1 .. MaxRound : LinksOf(nodes, r) = Authors}
      known == {n[1] : n \in nodes}
  IN IF known \ full # {} THEN Min(known \ full)
     ELSE IF nodes = {} THEN start_round ELSE HighestRound(nodes, start_round) + 1

\* add_node for each node of `more`, from the lowest round up: the store `set` with the nodes
\* whose parents are there and that are not ahead of the rest. At the lowest round nobody asks.
AddAll(set, start, more) ==
  LET upTo[r \in 0 .. MaxRound + 1] ==
        IF r = 0 THEN set
        ELSE LET below == upTo[r - 1]
             IN below \cup {n \in more : /\ n[1] = r
                                         /\ r >= start
                                         /\ r <= HighestRound(below, start) + 1
                                         /\ r > start => Parents(n) \subseteq below}
  IN upTo[MaxRound + 1]

\* The nodes of rounds `first` and above that links from `targets` lead to.
Reachable(targets, first) ==
  LET down[r \in 0 .. MaxRound + 1] ==
        IF r > MaxRound THEN {n \in targets : n[1] >= r}
        ELSE LET above == down[r + 1]
             IN above \cup {n \in targets : n[1] = r}
                      \cup UNION {Parents(n) : n \in {m \in above : m[1] = r + 1}}
  IN {n \in down[0] : n[1] >= first}

----------------------------------------------------------------------------
(* The round state. *)

\* An event for the round that is the last in the channel already would do nothing.
Push(r) == IF new_rounds # <<>> /\ Last(new_rounds) = r THEN new_rounds ELSE Append(new_rounds, r)

\* AdaptiveResponsive: at once with the nodes of all, when there is no reason to back off, and
\* else when the timer is over, which is set once a round.
ResponsiveCheck(r, all) ==
  \/ /\ responsive = "Sent"
     /\ UNCHANGED <<responsive, timers, new_rounds>>
  \/ /\ responsive # "Sent"
     /\ all
     /\ new_rounds' = Push(r)
     /\ responsive' = "Sent"
     /\ timers' = IF responsive = "Scheduled" THEN timers \ {r} ELSE timers
  \/ /\ responsive = "Initial"
     /\ timers' = timers \cup {r}
     /\ responsive' = "Scheduled"
     /\ UNCHANGED new_rounds
  \/ /\ responsive = "Scheduled"
     /\ UNCHANGED <<responsive, timers, new_rounds>>

\* check_new_round, with what the store is now.
CheckNewRound(set) ==
  LET links == HighestStrongLinksRound(set, start_round)
  IN /\ UNCHANGED current_round
     /\ \/ /\ current_round < links
           /\ new_rounds' = Push(links + 1)
           /\ UNCHANGED <<responsive, timers>>
        \/ /\ current_round = links
           /\ ResponsiveCheck(links + 1, LinksOf(set, links) = Authors)
        \/ /\ current_round > links
           /\ UNCHANGED <<responsive, timers, new_rounds>>

\* The wait is over. A timer of an earlier round was not aborted when the round changed.
TimerFires(r) ==
  /\ Running("Active")
  /\ r \in timers
  /\ timers' = timers \ {r}
  /\ new_rounds' = Push(r)
  /\ UNCHANGED <<store, database, progress, current_round, responsive, entering, mine, fetches,
                 modes, panicked, crashes>>

----------------------------------------------------------------------------
(* Entering a round. *)

\* The task of the new-round events, and set_current_round.
SetCurrentRound ==
  /\ Running("Active")
  /\ entering = None
  /\ new_rounds # <<>>
  /\ new_rounds' = Tail(new_rounds)
  /\ LET r == Head(new_rounds)
     IN IF current_round < r
        THEN /\ current_round' = r
             /\ responsive' = "Initial"
             /\ entering' = [step |-> "links", node |-> [round |-> r, links |-> {}, payload |-> 0]]
        ELSE UNCHANGED <<current_round, responsive, entering>>
  /\ UNCHANGED <<store, database, progress, timers, mine, fetches, modes, panicked, crashes>>

\* The strong links for the new node, unless the DAG has moved on.
ReadStrongLinks ==
  /\ Running("Active")
  /\ entering # None
  /\ entering.step = "links"
  /\ LET r == entering.node.round
     IN IF r <= HighestStrongLinksRound(nodes, start_round)
        THEN entering' = None /\ UNCHANGED panicked
        ELSE IF HasStrongLinks(nodes, r - 1) \/ r = 1
        THEN /\ entering' = [entering EXCEPT !.step = "payload",
                               !.node.links = IF r = 1 THEN {} ELSE LinksOf(nodes, r - 1)]
             /\ UNCHANGED panicked
        ELSE panicked' = "links" /\ UNCHANGED entering
  /\ UNCHANGED <<store, database, progress, rounds, mine, fetches, modes, crashes>>

\* Mutant: the node is saved once it has been broadcast.
SaveNothing(node) == UNCHANGED pending

\* save_pending_node.
SavePendingNode(node) == pending' = node

\* The payload is there: the node is made and saved.
MakeNode(p) ==
  /\ Running("Active")
  /\ entering # None
  /\ entering.step = "payload"
  /\ LET node == [entering.node EXCEPT !.payload = p]
     IN /\ SavePendingNode(node)
        /\ entering' = [step |-> "broadcast", node |-> node]
  /\ UNCHANGED <<store, stored, ledger, progress, rounds, mine, fetches, modes, panicked, crashes>>

\* rb_handles has place for `Window` broadcasts; the oldest is aborted.
BroadcastNode ==
  /\ Running("Active")
  /\ entering # None
  /\ entering.step = "broadcast"
  /\ LET all == Append(broadcasting, entering.node)
     IN broadcasting' = IF Len(all) > Window THEN Tail(all) ELSE all
  /\ sent' = entering.node
  /\ entering' = None
  /\ UNCHANGED <<store, database, progress, rounds, own, fetches, modes, panicked, crashes>>

\* A quorum has voted for a node that is being broadcast.
NodeIsCertified(node) ==
  /\ node \in ToSet(broadcasting)
  /\ node.round \notin DOMAIN own
  /\ Cardinality(DOMAIN own) < MaxOwn
  /\ own' = [r \in DOMAIN own \cup {node.round} |-> IF r = node.round THEN node.links ELSE own[r]]
  /\ UNCHANGED <<store, database, progress, rounds, entering, broadcasting, sent, fetches, modes,
                 panicked, crashes>>

----------------------------------------------------------------------------
(* Certified nodes. *)

\* DagDriver::process: a node whose parents are missing goes to the fetch service.
Process(n, requests) ==
  \/ /\ n \in nodes \/ n[1] < start_round
     /\ fetching' = requests
     /\ UNCHANGED <<nodes, stored, rounds>>
  \/ /\ n \notin nodes /\ n[1] >= start_round
     /\ ~ (Parents(n) \subseteq nodes)
     /\ fetching' = IF Cardinality(requests) < ChannelSize THEN requests \cup {n} ELSE requests
     /\ UNCHANGED <<nodes, stored, rounds>>
  \/ /\ n \notin nodes /\ n[1] >= start_round
     /\ Parents(n) \subseteq nodes
     /\ fetching' = requests
     /\ IF n \in AddAll(nodes, start_round, {n})
        THEN /\ nodes' = nodes \cup {n}
             /\ stored' = stored \cup {n}
             /\ CheckNewRound(nodes')
        ELSE UNCHANGED <<nodes, stored, rounds>>

\* need_sync_for_ledger_info.
NeedSync(li) ==
  /\ li > committed
  /\ \/ IsEmpty(nodes, start_round)
     \/ HighestRound(nodes, start_round) + 1 + Window < li
     \/ committed + 2 * Window < li

\* process_verified_message: the commit proof for the pipeline lets CommitCallback happen, which
\* may happen at any time here.
CertifiedNodeMsg(n, li) ==
  /\ Running("Active")
  /\ IF NeedSync(li)
     THEN /\ outcome = None
          /\ outcome' = [round |-> n[1], li |-> li]
          /\ UNCHANGED <<nodes, stored, rounds, fetching>>
     ELSE Process(n, fetching) /\ UNCHANGED outcome
  /\ UNCHANGED <<start_round, ledger, pending, progress, entering, mine, fetched, memo, mode, sync,
                 panicked, crashes>>

\* The order rule: process_new_node and process_all.
OrderAnchor(r) ==
  /\ r > ordered
  /\ r < HighestRound(nodes, start_round)
  /\ mode \in {"Active", "Sync"}
  /\ ordered' = r
  /\ UNCHANGED <<store, database, committed, rounds, entering, mine, fetches, modes, panicked, crashes>>

\* The callback of a committed block: the ledger info provider, and commit_callback of the store.
CommitCallback(r) ==
  /\ mode \in {"Active", "Sync"}
  /\ r > committed
  /\ r <= ordered
  /\ committed' = r
  /\ ledger' = Max({ledger, r})
  /\ LET low == Minus(r, 3 * Window)
     IN IF low > start_round
        THEN /\ start_round' = low
             /\ nodes' = {n \in nodes : n[1] >= low}
             /\ stored' = stored \ {n \in nodes : n[1] < low}
        ELSE UNCHANGED <<store, stored>>
  /\ UNCHANGED <<pending, ordered, rounds, entering, mine, fetches, modes, panicked, crashes>>

----------------------------------------------------------------------------
(* The fetch service. *)

\* What the service remembers a request by: its target round, and what is there of that round.
RequestKey(n) == <<n[1] - 1, LinksOf(nodes, n[1] - 1)>>

\* The bitmask of a request starts where the DAG is incomplete, at most a window below the target;
\* a target below that is an empty range of rounds from high to low, which panics.
FirstRound(n) == Max({Minus(n[1] - 1, Window), LowestIncompleteRound, start_round})

\* A request is answered: from memory, by the peers, or not at all.
Fetch(n, ok) ==
  /\ Running("Active")
  /\ n \in fetching
  /\ fetching' = fetching \ {n}
  /\ \/ /\ n[1] < LowestIncompleteRound
        /\ UNCHANGED <<nodes, stored, fetched, memo, panicked>>
     \/ /\ n[1] >= LowestIncompleteRound
        /\ Parents(n) \subseteq nodes
        /\ fetched' = fetched \cup {n}
        /\ UNCHANGED <<nodes, stored, memo, panicked>>
     \/ /\ n[1] >= LowestIncompleteRound
        /\ ~ (Parents(n) \subseteq nodes)
        /\ FirstRound(n) > n[1] - 1
        /\ panicked' = "bitmask"
        /\ UNCHANGED <<nodes, stored, fetched, memo>>
     \/ /\ n[1] >= LowestIncompleteRound
        /\ ~ (Parents(n) \subseteq nodes)
        /\ FirstRound(n) <= n[1] - 1
        /\ UNCHANGED panicked
        /\ IF RequestKey(n) \in memo
           THEN UNCHANGED <<nodes, stored, fetched, memo>>
           ELSE LET got == AddAll(nodes, start_round, Reachable(Parents(n), FirstRound(n)))
                    done == ok /\ Parents(n) \subseteq got
                IN /\ nodes' = IF ok THEN got ELSE nodes
                   /\ stored' = IF ok THEN stored \cup got ELSE stored
                   /\ fetched' = IF done THEN fetched \cup {n} ELSE fetched
                   /\ memo' = IF done THEN memo ELSE memo \cup {RequestKey(n)}
  /\ UNCHANGED <<start_round, ledger, pending, progress, rounds, entering, mine, modes, crashes>>

\* The waiter of the fetched nodes: process, and fetch_callback when that succeeds.
CertifiedNodeFetched(n) ==
  /\ Running("Active")
  /\ n \in fetched
  /\ fetched' = fetched \ {n}
  /\ IF n \in nodes
     THEN CheckNewRound(nodes) /\ UNCHANGED <<nodes, stored, fetching>>
     ELSE Process(n, fetching)
  /\ UNCHANGED <<start_round, ledger, pending, progress, entering, mine, memo, modes, panicked, crashes>>

----------------------------------------------------------------------------
(* Start, state sync, and crashes. *)

\* The pending node is the one of the round that is entered.
ResumesPending(round) == pending # None /\ pending.round = round

\* bootstrap_components: a new driver, with a store of `set`, resumes the broadcast of the pending
\* node or enters the next round.
NewDriver(set, start) ==
  LET next == HighestStrongLinksRound(set, start) + 1
  IN /\ responsive' = "Initial" /\ timers' = {} /\ new_rounds' = <<>>
     /\ entering' = None /\ fetching' = {} /\ fetched' = {} /\ memo' = {}
     /\ UNCHANGED own
     /\ \/ /\ ResumesPending(next)
           /\ current_round' = next
           /\ broadcasting' = <<pending>>
           /\ sent' = pending
           /\ UNCHANGED <<pending, panicked>>
        \/ /\ ~ ResumesPending(next)
           /\ IsEmpty(set, start)
           /\ current_round' = 0
           /\ broadcasting' = <<>>
           /\ UNCHANGED <<sent, pending, panicked>>
        \/ /\ ~ ResumesPending(next)
           /\ ~ IsEmpty(set, start)
           /\ current_round' = next
           /\ IF next > 1 /\ ~ HasStrongLinks(set, next - 1)
              THEN panicked' = "links" /\ broadcasting' = <<>> /\ UNCHANGED <<sent, pending>>
              ELSE \E p \in Payloads :
                     LET node == [round |-> next, links |-> LinksOf(set, next - 1), payload |-> p]
                     IN /\ pending' = node
                        /\ broadcasting' = <<node>>
                        /\ sent' = node
                        /\ UNCHANGED panicked

\* full_bootstrap: the store of what the database has, from a window below the ledger info on;
\* what does not fit is deleted.
FullBootstrap ==
  LET low == Max({1, Minus(ledger, Window)})
      loaded == AddAll({}, low, stored)
  IN /\ nodes' = loaded
     /\ start_round' = low
     /\ stored' = loaded
     /\ committed' = ledger
     /\ ordered' = ledger
     /\ NewDriver(loaded, low)
     /\ mode' = "Active" /\ outcome' = None /\ sync' = None

Start ==
  /\ mode = "Down"
  /\ FullBootstrap
  /\ UNCHANGED <<ledger, crashes>>

\* build_request, which asserts what the check of the message found: `ordered` or `committed` may
\* have moved since, and a message that cancels a sync was not checked for it.
BuildRequest(message) ==
  IF ordered < message.li \/ committed + Window < message.li
  THEN /\ sync' = [round |-> message.round, li |-> message.li, step |-> "fetch"]
       /\ UNCHANGED panicked
  ELSE panicked' = "assert" /\ UNCHANGED sync

\* The handler returns: the new-round task and the fetch service are aborted.
EnterSyncMode ==
  /\ Running("Active")
  /\ outcome # None
  /\ outcome' = None
  /\ entering' = None
  /\ new_rounds' = <<>> /\ fetching' = {} /\ fetched' = {}
  /\ IF outcome.li = EpochEnd
     THEN mode' = "Ended" /\ UNCHANGED <<sync, panicked>>
     ELSE mode' = "Sync" /\ BuildRequest(outcome)
  /\ UNCHANGED <<store, database, progress, current_round, responsive, timers, mine, memo, crashes>>

\* A task of the handler that was not done goes on with the old store.
LateNode(n) ==
  /\ Running("Sync")
  /\ n \notin nodes /\ n[1] >= start_round
  /\ Parents(n) \subseteq nodes
  /\ n \in AddAll(nodes, start_round, {n})
  /\ nodes' = nodes \cup {n}
  /\ stored' = stored \cup {n}
  /\ UNCHANGED <<start_round, ledger, pending, progress, rounds, entering, mine, fetches, modes,
                 panicked, crashes>>

\* sync_dag_to: the nodes from a window below the ledger info up to the target, into an empty
\* store that writes to the same database.
SyncFetch(n) ==
  /\ Running("Sync")
  /\ sync.step = "fetch"
  /\ n[1] = sync.round
  /\ LET low == Minus(sync.li, Window)
     IN stored' = stored \cup AddAll({}, low, Reachable({n}, low))
  /\ sync' = [sync EXCEPT !.step = "execute"]
  /\ UNCHANGED <<store, ledger, pending, progress, rounds, entering, mine, fetches, mode, outcome,
                 panicked, crashes>>

\* sync_to, and the start with what was fetched.
SyncSucceeds ==
  /\ Running("Sync")
  /\ sync.step = "execute"
  /\ ledger' = Max({ledger, sync.li})
  /\ sync' = [sync EXCEPT !.step = "done"]
  /\ UNCHANGED <<store, stored, pending, progress, rounds, entering, mine, fetches, mode, outcome,
                 panicked, crashes>>

SyncDone ==
  /\ Running("Sync")
  /\ sync.step = "done"
  /\ FullBootstrap
  /\ UNCHANGED <<ledger, crashes>>

\* The fetch or sync_to fails: on with the store as it is.
SyncFails ==
  /\ Running("Sync")
  /\ sync.step \in {"fetch", "execute"}
  /\ NewDriver(nodes, start_round)
  /\ mode' = "Active" /\ sync' = None
  /\ UNCHANGED <<store, stored, ledger, progress, outcome, crashes>>

\* A node far ahead cancels the sync, which was not heard of yet.
SyncCancelled(n, li) ==
  /\ Running("Sync")
  /\ sync.step \in {"fetch", "execute"}
  /\ n[1] > sync.round + 2 * Window
  /\ BuildRequest([round |-> n[1], li |-> li])
  /\ UNCHANGED <<store, database, progress, rounds, entering, mine, fetches, mode, outcome, crashes>>

Crash ==
  /\ mode \in {"Active", "Sync"}
  /\ crashes < MaxCrashes
  /\ crashes' = crashes + 1
  /\ mode' = "Down" /\ outcome' = None /\ sync' = None /\ panicked' = None
  /\ nodes' = {} /\ start_round' = 1 /\ ordered' = 0 /\ committed' = 0
  /\ current_round' = 0 /\ responsive' = "Initial" /\ timers' = {} /\ new_rounds' = <<>>
  /\ entering' = None /\ broadcasting' = <<>> /\ fetching' = {} /\ fetched' = {} /\ memo' = {}
  /\ UNCHANGED <<database, sent, own>>

----------------------------------------------------------------------------
Init ==
  /\ nodes = {} /\ start_round = 1 /\ ordered = 0 /\ committed = 0
  /\ stored = {} /\ ledger = 0 /\ pending = None
  /\ current_round = 0 /\ responsive = "Initial" /\ timers = {} /\ new_rounds = <<>>
  /\ entering = None /\ broadcasting = <<>> /\ sent = None /\ own = [r \in {} |-> {}]
  /\ fetching = {} /\ fetched = {} /\ memo = {}
  /\ mode = "Down" /\ outcome = None /\ sync = None
  /\ panicked = None /\ crashes = 0

\* The ledger infos that may come with a node.
LedgerInfos(n) == {0} \cup {r \in Anchors \cup {EpochEnd} : r < n[1] /\ r + MaxLag >= n[1]}

Next ==
  \/ \E r \in 1 .. MaxRound + 1 : TimerFires(r)
  \/ SetCurrentRound
  \/ ReadStrongLinks
  \/ \E p \in Payloads : MakeNode(p)
  \/ BroadcastNode
  \/ \E node \in ToSet(broadcasting) : NodeIsCertified(node)
  \/ \E n \in Delivered : \E li \in LedgerInfos(n) : CertifiedNodeMsg(n, li) \/ SyncCancelled(n, li)
  \/ \E n \in Certified : CertifiedNodeFetched(n) \/ SyncFetch(n)
  \/ \E n \in Delivered : LateNode(n)
  \/ \E n \in Certified, ok \in BOOLEAN : Fetch(n, ok)
  \/ \E r \in Anchors : OrderAnchor(r) \/ CommitCallback(r)
  \/ EnterSyncMode \/ SyncSucceeds \/ SyncDone \/ SyncFails
  \/ Start
  \/ Crash

Spec == Init /\ [][Next]_vars

----------------------------------------------------------------------------
\* This validator never broadcasts two nodes for one round, nor goes back to a round, whatever it
\* had in mind when it crashed, and whatever state it goes on with after a sync that succeeded or
\* failed: two nodes of one round would split the votes, and neither would be certified
\* (save_pending_node, DagDriver::new).
NoTwoNodes == sent # None /\ sent' # sent => sent'.round > sent.round

\* A node links to a quorum of the round before it, as the others require (Node::verify), and
\* the assertion "Only expect empty strong links for round 1" holds whenever a round is entered.
NodesAreComplete ==
  /\ panicked # "links"
  /\ sent # None => IF sent.round = 1 THEN sent.links = {} ELSE Cardinality(sent.links) >= Quorum

\* Once the nodes of a round are a quorum an event brings the next round, or a timer does, or the
\* round is being entered: no order of nodes, timers, late events and early returns leaves the
\* validator behind in a round with nothing under way (check_new_round, enter_new_round).
NextRoundIsUnderWay ==
  Running("Active") /\ outcome = None /\ ~ IsEmpty(nodes, start_round) =>
    LET links == HighestStrongLinksRound(nodes, start_round)
    IN \/ current_round > links
       \/ links + 1 \in timers \cup ToSet(new_rounds)
       \/ fetched # {}
=============================================================================
