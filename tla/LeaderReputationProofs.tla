------------------------ MODULE LeaderReputationProofs ------------------------
(***************************************************************************)
(* Validators that know the same ledger infos up to the target round elect *)
(* the same leader after the hard fork, for every chain, every voting      *)
(* powers and performance counters, every window and every pattern of      *)
(* commits and elections on each of them.                                  *)
(*                                                                         *)
(* The inductive invariant is CachesMatch: whatever a node has cached is   *)
(* what it would compute again from the anchor.  What choose_index returns *)
(* does not matter for this, only that it is a function of weights and     *)
(* seed.                                                                   *)
(***************************************************************************)
EXTENDS LeaderReputation, TLAPS

Functions == /\ lis = [n \in Nodes |-> lis[n]]
             /\ elections = [n \in Nodes |-> elections[n]]
             /\ anchored = [n \in Nodes |-> anchored[n]]

\* The weights at a block are the cached ones or those that are read at it.
LEMMA WeightsFollowBlock ==
  ASSUME CachesMatch, NEW n \in Nodes, NEW b, is_consensus_alpha_active(b)
  PROVE  AnchoredWeights(n, b) = WeightsAt(b)
  BY DEF CachesMatch, AnchoredWeights, is_consensus_alpha_active

\* Without the cache of elections, the anchor determines the leader.
LEMMA ComputeFollowsAnchor ==
  ASSUME CachesMatch, NEW n \in Nodes, NEW r \in Rounds, is_consensus_alpha_active(Anchor(n, r))
  PROVE  Compute(n, r) = ElectedAt(Anchor(n, r), r)
  BY WeightsFollowBlock DEF Compute, Weights, ElectedAt

\* With it, too.
LEMMA LeaderFollowsAnchor ==
  ASSUME CachesMatch, NEW n \in Nodes, NEW r \in Rounds, is_consensus_alpha_active(Anchor(n, r))
  PROVE  Leader(n, r) = ElectedAt(Anchor(n, r), r)
<1>1. CASE IsCached(n, r)
  <2>. DEFINE e == CHOOSE x \in Cached(n, r) : TRUE
  <2>1. e \in Cached(n, r)
    BY <1>1 DEF IsCached
  <2>2. e \in elections[n] /\ e.round = r /\ e.version = Anchor(n, r)
    BY <2>1 DEF Cached, CacheKey
  <2>3. e.leader = ElectedAt(Anchor(n, r), r)
    BY <2>2 DEF CachesMatch
  <2>. QED  BY <1>1, <2>3 DEF Leader
<1>2. CASE ~IsCached(n, r)
  BY <1>2, ComputeFollowsAnchor DEF Leader
<1>. QED  BY <1>1, <1>2

\* The anchor depends on the ledger infos up to the target round only.
LEMMA AnchorFollowsKnown ==
  ASSUME CachesMatch, NEW n \in Nodes, NEW m \in Nodes, NEW r \in Rounds, Known(n, r) = Known(m, r)
  PROVE  Anchor(n, r) = Anchor(m, r)
<1>. DEFINE Usable(k) == {b \in lis[k] : b = 0 \/ (b \notin EndsEpoch /\ RoundOf[b] <= TargetRound(r))}
<1>1. \A k \in {n, m} : Usable(k) = {0} \cup {b \in Known(k, r) : b \notin EndsEpoch}
  BY DEF CachesMatch, Known
<1>2. Usable(n) = Usable(m)
  BY <1>1
<1>. HIDE DEF Usable
<1>3. \A k \in {n, m} : Anchor(k, r) = IF Usable(k) = {} THEN None ELSE Max(Usable(k))
  BY DEF Anchor, get_reputation_anchor, Usable
<1>. QED  BY <1>2, <1>3

LEMMA CachesInit == Init => Functions /\ CachesMatch
  BY DEF Init, Functions, CachesMatch

LEMMA PersistKeeps ==
  ASSUME Functions, CachesMatch, NEW n \in Nodes, NEW b \in 1 .. Last, Persist(n, b)
  PROVE  Functions' /\ CachesMatch'
<1>1. lis' = [lis EXCEPT ![n] = @ \cup {b}] /\ elections' = elections /\ anchored' = anchored
  BY DEF Persist
<1>2. Functions'
  BY <1>1 DEF Functions
<1>3. \A k \in Nodes : 0 \in lis'[k]
  BY <1>1 DEF Functions, CachesMatch
<1>4. CachesMatch'
  BY <1>1, <1>3 DEF CachesMatch, WeightsAt, ElectedAt, CanFetch, get_fallback_weights, is_consensus_alpha_active
<1>. QED  BY <1>2, <1>4

LEMMA ElectKeeps ==
  ASSUME Functions, CachesMatch, NEW n \in Nodes, NEW r \in Rounds, Elect(n, r)
  PROVE  Functions' /\ CachesMatch'
<1>. DEFINE a == Anchor(n, r)
            kept == {e \in elections[n] : r > Window => e.round >= r - Window}
            new == [round |-> r, version |-> a, leader |-> Compute(n, r)]
<1>1. lis' = lis
  BY DEF Elect
<1>2. \/ elections' = elections
      \/ elections' = [elections EXCEPT ![n] = kept]
      \/ elections' = [elections EXCEPT ![n] = kept \cup {new}]
  BY DEF Elect, CacheKey, Functions
<1>3. \/ anchored' = anchored
      \/ /\ is_consensus_alpha_active(a)
         /\ anchored' = [anchored EXCEPT ![n] = [block |-> a, weights |-> AnchoredWeights(n, a)]]
  BY DEF Elect, Functions
<1>4. Functions'
  <2>1. elections' = [k \in Nodes |-> elections'[k]]
    BY <1>2 DEF Functions
  <2>2. anchored' = [k \in Nodes |-> anchored'[k]]
    BY <1>3 DEF Functions
  <2>. QED  BY <1>1, <2>1, <2>2 DEF Functions
<1>5. \A k \in Nodes : anchored'[k].block # None => anchored'[k].weights = WeightsAt(anchored'[k].block)
  <2>1. CASE anchored' = anchored
    BY <2>1 DEF CachesMatch
  <2>2. CASE /\ is_consensus_alpha_active(a)
             /\ anchored' = [anchored EXCEPT ![n] = [block |-> a, weights |-> AnchoredWeights(n, a)]]
    <3>1. AnchoredWeights(n, a) = WeightsAt(a)
      BY <2>2, WeightsFollowBlock
    <3>. HIDE DEF a
    <3>2. anchored'[n] = [block |-> a, weights |-> WeightsAt(a)]
      BY <2>2, <3>1 DEF Functions
    <3>3. \A k \in Nodes \ {n} : anchored'[k] = anchored[k]
      BY <2>2 DEF Functions
    <3>. QED  BY <3>2, <3>3 DEF CachesMatch
  <2>. QED  BY <1>3, <2>1, <2>2
<1>6. \A k \in Nodes : \A e \in elections'[k] : e \in elections[k] \/ (k = n /\ e = new)
  <2>. HIDE DEF new
  <2>. QED  BY <1>2 DEF Functions
<1>7. is_consensus_alpha_active(new.version) => new.leader = ElectedAt(new.version, new.round)
  BY ComputeFollowsAnchor
<1>8. \A k \in Nodes : \A e \in elections'[k] :
        is_consensus_alpha_active(e.version) => e.leader = ElectedAt(e.version, e.round)
  <2>. HIDE DEF new
  <2>. QED  BY <1>6, <1>7 DEF CachesMatch
<1>9. CachesMatch'
  BY <1>1, <1>5, <1>8 DEF CachesMatch, WeightsAt, ElectedAt, CanFetch, get_fallback_weights, is_consensus_alpha_active
<1>. QED  BY <1>4, <1>9

\* The caches of weights and of elections never hold anything but what the anchor's block
\* determines (get_weights_at_block, get_or_compute_entry).
THEOREM CachesStayCoherent == Spec => []CachesMatch
<1>1. Functions /\ CachesMatch /\ [Next]_vars => Functions' /\ CachesMatch'
  <2>. SUFFICES ASSUME Functions, CachesMatch, [Next]_vars PROVE Functions' /\ CachesMatch'
    OBVIOUS
  <2>1. CASE UNCHANGED vars
    BY <2>1 DEF vars, Functions, CachesMatch, WeightsAt, ElectedAt, CanFetch, get_fallback_weights, is_consensus_alpha_active
  <2>2. CASE Next
    BY <2>2, PersistKeeps, ElectKeeps DEF Next
  <2>. QED  BY <2>1, <2>2
<1>. QED  BY CachesInit, <1>1, PTL DEF Spec

\* Validators that know the same ledger infos up to the target round elect the same leader of the
\* round (get_valid_proposer).
THEOREM SameKnowledgeSameLeader == Spec => []LeadersAgree
<1>1. CachesMatch => LeadersAgree
  <2>. SUFFICES ASSUME CachesMatch, NEW n \in Nodes, NEW m \in Nodes, NEW r \in Rounds,
                       Known(n, r) = Known(m, r), is_consensus_alpha_active(Anchor(n, r))
                PROVE  Leader(n, r) = Leader(m, r)
    BY DEF LeadersAgree
  <2>1. Anchor(n, r) = Anchor(m, r)
    BY AnchorFollowsKnown
  <2>. QED  BY <2>1, LeaderFollowsAnchor
<1>. QED  BY <1>1, CachesStayCoherent, PTL
=============================================================================
