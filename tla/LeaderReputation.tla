-------------------------- MODULE LeaderReputation --------------------------
(***************************************************************************)
(* Leader election by reputation (liveness/leader_reputation.rs,           *)
(* cached_proposer_election.rs, proposer_election.rs, and                  *)
(* ConsensusDB::get_reputation_anchor).  Every validator elects the leader *)
(* of a round from its own database: from the ledger info of a block that  *)
(* is Exclude rounds old, the anchor, come the seed and the performance    *)
(* counters, which are read from the state after that block.  Validators   *)
(* persist blocks at their own pace, and cache what they computed.         *)
(*                                                                         *)
(* The committed chain of the epoch is constant; block 0 is the last of    *)
(* the epoch before.  A block number stands for the block's hash and       *)
(* timestamp.  The history of Aptos' NewBlockEvents is not used: the       *)
(* epoch manager always sets the anchor backend.                           *)
(***************************************************************************)
EXTENDS Integers, Sequences, FiniteSets, FiniteSetsExt

CONSTANTS
  Nodes,
  Last,              \* the last block
  RoundOf,           \* block -> round; block 0 belongs to the epoch before
  EndsEpoch,         \* the blocks whose state belongs to the next epoch
  Rounds,            \* the rounds that leaders are asked for
  Exclude,           \* leader_reputation_exclude_round
  Powers,            \* <<voting power of each candidate>>
  Performance,       \* block -> <<[ok, failed] of each candidate>>
  Lost,              \* the blocks whose performance counters cannot be read
  Threshold,         \* failure_threshold_percent
  Active, Inactive, Failed,    \* the weights
  Seed,              \* <<hash, round>> -> the number that is drawn
  AlphaBlock,        \* the first block with a timestamp after the hard fork
  Window,            \* of the cache of elections
  RefreshCalls       \* LEGACY_PERFORMANCE_CACHE_REFRESH_CALLS

VARIABLES
  committed,   \* the last block that a node has persisted
  lis,         \* the blocks that a node has a ledger info of
  elections,   \* recent_elections: a set of [round, version, leader]
  anchored,    \* anchored_cached_weights: [block, weights]
  legacy       \* legacy_cached_weights: [count, weights]

vars == <<committed, lis, elections, anchored, legacy>>

None == -1
Candidates == DOMAIN Powers

----------------------------------------------------------------------------
(* The anchor                                                              *)

\* The newest ledger info of the epoch that is not newer than the target, or else the one that
\* ended the epoch before.  The ledger info that ends the epoch is passed over.
get_reputation_anchor(n, target) ==
  LET S == {b \in lis[n] : b = 0 \/ (b \notin EndsEpoch /\ RoundOf[b] <= target)} IN
  IF S = {} THEN None ELSE Max(S)

TargetRound(r) == IF r > Exclude THEN r - Exclude ELSE 0

Anchor(n, r) == get_reputation_anchor(n, TargetRound(r))

is_consensus_alpha_active(anchor) == anchor # None /\ anchor >= AlphaBlock

----------------------------------------------------------------------------
(* Weights                                                                 *)

WeightOf(p) ==
  LET total == p.ok + p.failed IN
  CASE total > 0 /\ p.failed * 100 > total * Threshold -> Failed
    [] total > 0 /\ p.failed * 100 <= total * Threshold -> Active
    [] total = 0 -> Inactive

get_fallback_weights == [i \in Candidates |-> Active]

CanFetch(b) == b \notin Lost /\ Len(Performance[b]) = Len(Powers)

\* fetch_and_compute_weights, and the fallback if that fails.
WeightsAt(b) ==
  IF CanFetch(b) THEN [i \in Candidates |-> WeightOf(Performance[b][i])] ELSE get_fallback_weights

\* Mutant: the cache is not keyed by the block.
AnchoredWeightsAnyBlock(n, b) == IF anchored[n].block # None THEN anchored[n].weights ELSE WeightsAt(b)

\* get_weights_at_block, with its cache.
AnchoredWeights(n, b) == IF anchored[n].block = b THEN anchored[n].weights ELSE WeightsAt(b)

NeedRefresh(n) == legacy[n].weights = <<>> \/ legacy[n].count % RefreshCalls = 0

\* get_legacy_weights: from the latest state of the node.
LegacyWeights(n) == IF NeedRefresh(n) THEN WeightsAt(committed[n]) ELSE legacy[n].weights

----------------------------------------------------------------------------
(* The choice                                                              *)

Cumulative(ws, i) == FoldSet(LAMBDA j, sum : sum + ws[j], 0, 1 .. i)

choose_index(ws, seed) ==
  LET drawn == seed % Cumulative(ws, Len(ws)) IN
  Min({i \in DOMAIN ws : Cumulative(ws, i) > drawn})

StakeWeights(ws) == [i \in Candidates |-> ws[i] * Powers[i]]

Weights(n, r) ==
  LET a == Anchor(n, r) IN
  IF is_consensus_alpha_active(a) THEN AnchoredWeights(n, a) ELSE LegacyWeights(n)

\* get_valid_proposer, without the cache of elections.  The hash is zero before the hard fork.
Compute(n, r) ==
  LET a == Anchor(n, r)
      hash == IF is_consensus_alpha_active(a) THEN a ELSE 0
  IN choose_index(StakeWeights(Weights(n, r)), Seed[<<hash, r>>])

----------------------------------------------------------------------------
(* The cache of elections                                                  *)

\* Mutant: the key is the round.
CacheKeyRound(n, r) == IF Anchor(n, r) = None THEN None ELSE 0

\* cache_key, beside the round.
CacheKey(n, r) == Anchor(n, r)

Cached(n, r) == {e \in elections[n] : e.round = r /\ e.version = CacheKey(n, r)}

IsCached(n, r) == CacheKey(n, r) # None /\ Cached(n, r) # {}

\* What get_valid_proposer returns now.
Leader(n, r) ==
  IF IsCached(n, r) THEN (CHOOSE e \in Cached(n, r) : TRUE).leader ELSE Compute(n, r)

Init ==
  /\ committed = [n \in Nodes |-> 0]
  /\ lis = [n \in Nodes |-> {0}]
  /\ elections = [n \in Nodes |-> {}]
  /\ anchored = [n \in Nodes |-> [block |-> None, weights |-> <<>>]]
  /\ legacy = [n \in Nodes |-> [count |-> 0, weights |-> <<>>]]

\* A commit with a proof for its last block: the buffer manager joins the batches before one that
\* has its proof first.
Persist(n, b) ==
  /\ b > committed[n]
  /\ committed' = [committed EXCEPT ![n] = b]
  /\ lis' = [lis EXCEPT ![n] = @ \cup {b}]
  /\ UNCHANGED <<elections, anchored, legacy>>

\* get_or_compute_entry: entries of before the window are dropped, with a key or without a hit.
Elect(n, r) ==
  LET kept == {e \in elections[n] : r > Window => e.round >= r - Window}
      a == Anchor(n, r)
  IN
  /\ UNCHANGED <<committed, lis>>
  /\ IF CacheKey(n, r) = None THEN UNCHANGED elections
     ELSE elections' = [elections EXCEPT ![n] =
            IF IsCached(n, r) THEN kept
            ELSE kept \cup {[round |-> r, version |-> CacheKey(n, r), leader |-> Compute(n, r)]}]
  /\ IF IsCached(n, r) THEN UNCHANGED <<anchored, legacy>>
     ELSE IF is_consensus_alpha_active(a)
     THEN /\ anchored' = [anchored EXCEPT ![n] = IF CanFetch(a) THEN [block |-> a, weights |-> AnchoredWeights(n, a)] ELSE @]
          /\ UNCHANGED legacy
     ELSE /\ legacy' = [legacy EXCEPT ![n] = [count |-> (@.count + 1) % RefreshCalls, weights |-> LegacyWeights(n)]]
          /\ UNCHANGED anchored

Next ==
  \/ \E n \in Nodes, b \in 1 .. Last : Persist(n, b)
  \/ \E n \in Nodes, r \in Rounds : Elect(n, r)

Spec == Init /\ [][Next]_vars

----------------------------------------------------------------------------
(* Properties *)

TypeOK ==
  /\ committed \in [Nodes -> 0 .. Last]
  /\ \A n \in Nodes :
       /\ lis[n] \subseteq 0 .. committed[n]
       /\ elections[n] \subseteq [round : Rounds, version : 0 .. Last, leader : Candidates]
       /\ anchored[n].block \in {None} \cup 1 .. Last

\* What a node knows of the blocks that the leader of the round may depend on.  Nodes that have
\* committed the same blocks need not agree on it: only the last block of a commit has a ledger
\* info.
Known(n, r) == {b \in lis[n] : RoundOf[b] <= TargetRound(r)}

\* The leader of a round that a block determines, if it is the anchor after the hard fork.
ElectedAt(b, r) == choose_index(StakeWeights(WeightsAt(b)), Seed[<<b, r>>])

\* Both caches hold what would be computed now: the weights are those of the block they are kept
\* for, and an election after the hard fork is determined by its round and its version
\* (anchored_cached_weights, recent_elections).  The ledger info of before the epoch stays.
CachesMatch ==
  \A n \in Nodes :
    /\ 0 \in lis[n]
    /\ anchored[n].block # None => anchored[n].weights = WeightsAt(anchored[n].block)
    /\ \A e \in elections[n] :
         is_consensus_alpha_active(e.version) => e.leader = ElectedAt(e.version, e.round)

\* After the hard fork, two validators that have the same ledger infos up to the target round elect
\* the same leader, whatever else each has committed, elected and cached before ("from the EVM
\* state at a consensus-agreed block height").
LeadersAgree ==
  \A n, m \in Nodes, r \in Rounds :
    Known(n, r) = Known(m, r) /\ is_consensus_alpha_active(Anchor(n, r)) => Leader(n, r) = Leader(m, r)

\* A candidate without weight or voting power is not elected; the others can be.
LeaderHasStake == \A n \in Nodes, r \in Rounds : Powers[Leader(n, r)] > 0
=============================================================================
