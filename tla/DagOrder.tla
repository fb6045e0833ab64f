------------------------------ MODULE DagOrder ------------------------------
(***************************************************************************)
(* How one validator turns its DAG into an order of nodes: the store of    *)
(* certified nodes (dag_store.rs), the order rule (order_rule.rs), the     *)
(* notifier that makes a block of what is ordered (adapter.rs), and the    *)
(* start from the database (bootstrap.rs).                                 *)
(*                                                                         *)
(* Certificates are unique, so the nodes of all validators are one graph,  *)
(* `dag`; they reach this validator in any order that has parents first.   *)
(* Validators have equal voting power, and the anchors of the rounds are   *)
(* given: RoundRobin, or what reputation makes of an equal history.  On a  *)
(* restart the committed anchors are known, as with LeaderReputation.      *)
(***************************************************************************)
EXTENDS Integers, Sequences, SequencesExt, FiniteSets, FiniteSetsExt

CONSTANTS
  N,            \* validators, 0 .. N - 1
  Quorum,       \* 2f + 1
  FPlusOne,     \* f + 1
  MaxRound,     \* bound: the last round of the graph
  Window,       \* dag_ordering_causal_history_window
  Graphs,       \* the graphs to look at: node -> the authors of its parents
  Broadcast,    \* bound: the nodes whose broadcast this validator votes for
  MaxRestarts,  \* bound
  MaxWaiting    \* bound: nodes being added or waiting for the order rule at a time

VARIABLES
  dag,          \* one of Graphs
  nodes,        \* nodes_by_round: the nodes that are in the store
  start_round,
  stored,       \* the nodes in the database
  adding,       \* nodes that were validated and are not yet in the store
  weak,         \* nodes whose broadcast this validator voted for: their links are weak votes
  ordered,      \* the nodes that are marked as ordered
  lowest_unordered_anchor_round,
  waiting,      \* the rounds of new nodes that the order rule has not looked at
  ordering,     \* where check_ordering_between is, NotOrdering when the order rule is free
  blocks,       \* what send_ordered_nodes has sent: the round of the anchor, and the nodes
  committed,    \* the round of the latest ledger info
  restarts

vars == <<dag, nodes, start_round, stored, adding, weak, ordered,
                  lowest_unordered_anchor_round, waiting, ordering, blocks, committed, restarts>>

Authors == 0 .. N - 1
NotOrdering == [start |-> 0, round |-> 0, anchor |-> 0]

get_anchor(r) == (r \div 2) % N
AnchorOf(r) == <<r, get_anchor(r)>>
SameParity(r, s) == r % 2 = s % 2

Parents(n) == {<<n[1] - 1, a>> : a \in dag[n]}
highest_round == Max({n[1] : n \in nodes} \cup {start_round})

\* add_validated_node and a vote count for the parents of a node above the lowest round.
Voters(set, n) == {v \in set : v[1] > start_round /\ n \in Parents(v)}

\* check_votes_for_node: a quorum of broadcast nodes, or f + 1 certified ones, that link to it.
HasVotes(n) ==
  \/ n \in ordered
  \/ Cardinality(Voters(weak, n)) >= Quorum
  \/ Cardinality(Voters(nodes, n)) >= FPlusOne

\* reachable and reachable_mut: the unordered nodes below `from`, itself included, that links
\* through unordered nodes lead to, down to round `until`.
Reachable(from, until, unordered) ==
  LET reach[r \in 1 .. from[1]] ==
        IF r = from[1] THEN {from} \cap unordered
        ELSE LET above == reach[r + 1]
             IN above \cup {n \in unordered : n[1] = r /\ \E m \in above : n \in Parents(m)}
  IN {n \in reach[1] : n[1] >= until}

Unordered == nodes \ ordered

----------------------------------------------------------------------------
(* The order rule.  It has a lock of its own, and takes the lock of the store at each step. *)

\* find_first_anchor_with_enough_votes.
AnchorsWithVotes(start, round) ==
  {r \in start .. round - 1 : SameParity(r, start) /\ AnchorOf(r) \in nodes /\ HasVotes(AnchorOf(r))}

\* Mutant: the anchor with enough votes is ordered before the anchors that it reaches.
DirectAnchorFirst(direct) == direct

\* find_first_anchor_to_order: the anchor before it that it reaches, the one before that, ...
FirstAnchorToOrder(direct) ==
  LET earlier(r) ==
        {s \in lowest_unordered_anchor_round .. r - 1 :
           SameParity(s, direct) /\
           AnchorOf(s) \in Reachable(AnchorOf(r), lowest_unordered_anchor_round, Unordered)}
      first[r \in 1 .. direct] == IF earlier(r) = {} THEN r ELSE first[Max(earlier(r))]
  IN first[direct]

\* process_new_node takes the lock: a node of an anchor round, or below, triggers nothing.
ProcessNewNode(r) ==
  /\ r \in waiting
  /\ ordering = NotOrdering
  /\ waiting' = waiting \ {r}
  /\ ordering' =
       IF r <= lowest_unordered_anchor_round \/ SameParity(r, lowest_unordered_anchor_round)
       THEN NotOrdering
       ELSE [start |-> r - 1, round |-> r, anchor |-> 0]
  /\ UNCHANGED <<dag, nodes, start_round, stored, adding, weak, ordered,
                 lowest_unordered_anchor_round, blocks, committed, restarts>>

\* One turn of check_ordering_between, up to the anchor that is ordered next.
FindAnchor ==
  /\ ordering # NotOrdering
  /\ ordering.anchor = 0
  /\ LET direct == AnchorsWithVotes(ordering.start, ordering.round)
     IN ordering' = IF direct = {} THEN NotOrdering
                    ELSE [ordering EXCEPT !.anchor = FirstAnchorToOrder(Min(direct))]
  /\ UNCHANGED <<dag, nodes, start_round, stored, adding, weak, ordered,
                 lowest_unordered_anchor_round, waiting, blocks, committed, restarts>>

\* The nodes of a block: rounds go up, the authors of a round go down.
BlockOf(set) ==
  LET key(n) == n[1] * N + (N - 1 - n[2])
  IN [i \in 1 .. Cardinality(set) |->
        CHOOSE n \in set : Cardinality({m \in set : key(m) < key(n)}) = i - 1]

Floor(r) == IF r > Window THEN r - Window ELSE 0

\* finalize_order and send_ordered_nodes.
FinalizeOrder ==
  /\ ordering.anchor # 0
  /\ LET anchor == ordering.anchor
         new == Reachable(AnchorOf(anchor), Floor(anchor), Unordered)
     IN /\ ordered' = ordered \cup new
        /\ blocks' = Append(blocks, [anchor |-> anchor, nodes |-> BlockOf(new)])
        /\ lowest_unordered_anchor_round' = anchor + 1
        /\ ordering' = IF anchor + 1 > ordering.round THEN NotOrdering
                       ELSE [ordering EXCEPT !.start = anchor + 1, !.anchor = 0]
  /\ UNCHANGED <<dag, nodes, start_round, stored, adding, weak, waiting, committed, restarts>>

----------------------------------------------------------------------------
(* The store. *)

\* validate_new_node.
Valid(n) ==
  /\ n[1] >= start_round
  /\ n[1] <= highest_round + 1
  /\ n[1] > start_round => Parents(n) \subseteq nodes
  /\ n \notin nodes

\* add_node up to the database: the lock of the store is released before the node is in.
ValidateAndSave(n) ==
  /\ Cardinality(adding) + Cardinality(waiting) < MaxWaiting
  /\ n \notin adding
  /\ Valid(n)
  /\ stored' = stored \cup {n}
  /\ adding' = adding \cup {n}
  /\ UNCHANGED <<dag, nodes, start_round, weak, ordered, lowest_unordered_anchor_round, waiting,
                 ordering, blocks, committed, restarts>>

\* add_validated_node, unless the round was pruned meanwhile; then the order rule is told.
AddNode(n) ==
  /\ n \in adding
  /\ adding' = adding \ {n}
  /\ IF n[1] >= start_round
     THEN nodes' = nodes \cup {n} /\ waiting' = waiting \cup {n[1]}
     ELSE UNCHANGED <<nodes, waiting>>
  /\ UNCHANGED <<dag, start_round, stored, weak, ordered, lowest_unordered_anchor_round, ordering,
                 blocks, committed, restarts>>

\* The broadcast of a node is voted for, once, when its parents are there.
VoteForNode(n) ==
  /\ n \in Broadcast
  /\ Cardinality(adding) + Cardinality(waiting) < MaxWaiting
  /\ n \notin weak \cup nodes
  /\ n[1] >= start_round
  /\ Parents(n) \subseteq nodes
  /\ weak' = weak \cup {n}
  /\ waiting' = waiting \cup {n[1]}
  /\ UNCHANGED <<dag, nodes, start_round, stored, adding, ordered, lowest_unordered_anchor_round,
                 ordering, blocks, committed, restarts>>

\* The callback of a block that is committed: commit_callback and prune.
CommitCallback(r) ==
  /\ r > committed
  /\ \E i \in DOMAIN blocks : blocks[i].anchor = r
  /\ committed' = r
  /\ LET low == IF r > 3 * Window THEN r - 3 * Window ELSE 0
         pruned == {n \in nodes : n[1] < low}
     IN IF low > start_round
        THEN /\ start_round' = low
             /\ nodes' = nodes \ pruned
             /\ stored' = stored \ pruned
        ELSE UNCHANGED <<start_round, nodes, stored>>
  /\ UNCHANGED <<dag, adding, weak, ordered, lowest_unordered_anchor_round, waiting, ordering,
                 blocks, restarts>>

\* A crash, and bootstrap_dag_store: the store has the nodes of the database from `low` on that
\* have their parents, the ones that committed anchors reach are ordered, and everything above is
\* looked at again. Execution goes on from the committed block as well.
Restart ==
  /\ restarts < MaxRestarts
  /\ restarts' = restarts + 1
  /\ LET low == Max({1, Floor(committed)})
         loaded[r \in low - 1 .. MaxRound] ==
           IF r < low THEN {}
           ELSE LET below == loaded[r - 1]
                IN below \cup {n \in stored : n[1] = r /\ (r = low \/ Parents(n) \subseteq below)}
         old == SelectSeq(blocks, LAMBDA b : b.anchor <= committed)
         anchors == {AnchorOf(old[i].anchor) : i \in DOMAIN old} \cap loaded[MaxRound]
         reached == UNION {Reachable(n, low, loaded[MaxRound]) : n \in anchors}
     IN /\ nodes' = loaded[MaxRound]
        /\ stored' = loaded[MaxRound]
        /\ start_round' = low
        /\ ordered' = reached
        /\ blocks' = old
        /\ ordering' = [start |-> committed + 1,
                        round |-> Max({n[1] : n \in loaded[MaxRound]} \cup {low}), anchor |-> 0]
  /\ lowest_unordered_anchor_round' = committed + 1
  /\ adding' = {} /\ weak' = {} /\ waiting' = {}
  /\ UNCHANGED <<dag, committed>>

----------------------------------------------------------------------------
Init ==
  /\ dag \in Graphs
  /\ nodes = {} /\ stored = {} /\ adding = {} /\ weak = {} /\ ordered = {} /\ waiting = {}
  /\ start_round = 1
  /\ lowest_unordered_anchor_round = 1
  /\ ordering = NotOrdering
  /\ blocks = <<>>
  /\ committed = 0
  /\ restarts = 0

Next ==
  \/ \E n \in DOMAIN dag : ValidateAndSave(n) \/ AddNode(n) \/ VoteForNode(n)
  \/ \E r \in 1 .. MaxRound : ProcessNewNode(r) \/ CommitCallback(r)
  \/ FindAnchor
  \/ FinalizeOrder
  \/ Restart

Spec == Init /\ [][Next]_vars

----------------------------------------------------------------------------
(* The order of the whole graph. *)

Children(n) == {m \in DOMAIN dag : n \in Parents(m)}
Below(n) ==
  LET reach[r \in 1 .. n[1]] ==
        IF r = n[1] THEN {n}
        ELSE LET above == reach[r + 1]
             IN above \cup {m \in DOMAIN dag : m[1] = r /\ \E k \in above : m \in Parents(k)}
  IN reach[1]

\* The first anchor from round `low` on, of its parity, that has f + 1 links; and the anchors
\* below it that each reach the one before.
FirstOfWhole(low) ==
  LET anchors == {r \in low .. MaxRound : SameParity(r, low) /\ AnchorOf(r) \in DOMAIN dag}
      direct == {r \in anchors : Cardinality(Children(AnchorOf(r))) >= FPlusOne}
      before(r) == {s \in anchors : s < r /\ AnchorOf(s) \in Below(AnchorOf(r))}
      first[r \in 1 .. MaxRound] == IF before(r) = {} THEN r ELSE first[Max(before(r))]
  IN IF direct = {} THEN 0 ELSE first[Min(direct)]

WholeAnchors ==
  LET from[low \in 1 .. MaxRound + 1] ==
        LET anchor == FirstOfWhole(low)
        IN IF low > MaxRound \/ anchor = 0 THEN <<>> ELSE <<anchor>> \o from[anchor + 1]
  IN from[1]

\* Whatever reaches this validator, in which order, and whenever it crashes and prunes, it orders
\* the anchors that everyone orders who has the whole graph, one after the other, and with each
\* the nodes of its history in the window that no anchor before it had, each once. So any two
\* validators order the same blocks (the property that test_order_rule_safety tests).
OrderAgrees ==
  blocks # <<>> =>
    LET anchors == WholeAnchors
        reached(k) == {n \in Below(AnchorOf(anchors[k])) : n[1] >= Floor(anchors[k])}
    IN /\ Len(blocks) <= Len(anchors)
       /\ \A i \in DOMAIN blocks :
            /\ blocks[i].anchor = anchors[i]
            /\ ToSet(blocks[i].nodes) = reached(i) \ UNION {reached(k) : k \in 1 .. i - 1}
            /\ Cardinality(ToSet(blocks[i].nodes)) = Len(blocks[i].nodes)
=============================================================================
