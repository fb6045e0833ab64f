--------------------------- MODULE BlockRetrieval ---------------------------
(***************************************************************************)
(* How a node that has fallen behind fetches the blocks it misses: the     *)
(* BlockRetriever of block_storage/sync_manager.rs asks one peer after the *)
(* other for a chunk of a chain, and goes on with the parent of the last   *)
(* block, until the target is there.  A peer answers                       *)
(* (process_block_retrieval) from its block tree and its database, which   *)
(* grow and are pruned between two requests.                               *)
(*                                                                         *)
(* All blocks are of one epoch and one chain: block i has parent i - 1, and *)
(* block 0 is the genesis block of the epoch, with round 0.  The           *)
(* certificate of a block commits its parent if their rounds are           *)
(* consecutive.  Peers are honest: what a response must pass in            *)
(* BlockRetrievalResponse::verify holds of their answers, but a request    *)
(* may fail or time out.                                                   *)
(***************************************************************************)
EXTENDS Integers, Sequences, SequencesExt, FiniteSets, FiniteSetsExt

CONSTANTS
  Rounds,              \* the rounds of the blocks 1 .. Len(Rounds), which increase
  LedgerInfoBlocks,    \* the blocks that were the last of a batch when they were committed
  InitialStores,       \* bound: what a peer may have at the start
  PeersOfCert,         \* the voters of the certificate, or the available peers
  PreferredPeer,
  MaxBlocksToRequest,  \* max_blocks_to_request
  NumRetries           \* NUM_RETRIES

VARIABLES
  stores,     \* peer -> the blocks it has, the highest with a QC, and the highest with a ledger info
  retrieval,  \* the arguments, the progress and the result of the retrieval
  chunk       \* retrieve_block_for_id_chunk: the peers left, the retries, the requests in flight

vars == <<stores, retrieval, chunk>>

Chain == DOMAIN Rounds
RoundOf(b) == IF b = 0 THEN 0 ELSE Rounds[b]
AllPeers == PeersOfCert \cup {PreferredPeer}
NoTarget == -1
EndOfEpoch == Len(Rounds) + 1      \* block_id zero: start at the end of the epoch

\* commit_info of the certificate of block b.
CommittedBy(b) == IF RoundOf(b) = RoundOf(b - 1) + 1 THEN b - 1 ELSE NoTarget

----------------------------------------------------------------------------
(* The peer. *)

Has(p, b)   == b >= stores[p].low /\ b <= stores[p].high
HasQC(p, b) == b >= stores[p].low /\ b <= stores[p].certified

\* The last block of the epoch has the highest ledger info; its certificate is found by what it
\* commits, and the block of that certificate comes first.
LastOfEpoch == Max(LedgerInfoBlocks)
KnowsEnd(p) == stores[p].ledger >= LastOfEpoch /\ HasQC(p, LastOfEpoch + 1)
StartOfAnswer(id) == IF id = EndOfEpoch THEN LastOfEpoch + 1 ELSE id

\* Why the walk from `from` over at most n blocks stops, and where: at the target, at the child
\* of the genesis block, at a block that is not there, or after n blocks.
StopsAt(p, from, n, target) ==
  LET stop(b) == b = from - n + 1 \/ b = target \/ b = 1 \/ ~HasQC(p, b - 1)
  IN Max({b \in Chain : b <= from /\ stop(b)})

WalkParents(p, from, n, target) ==
  IF ~Has(p, from) THEN [status |-> "NotEnoughBlocks", blocks |-> <<>>]
  ELSE IF ~HasQC(p, from) THEN [status |-> "QuorumCertNotFound", blocks |-> <<>>]
  ELSE LET last == StopsAt(p, from, n, target)
       IN [status |-> IF last = target \/ last = 1 THEN "SucceededWithTarget"
                      ELSE IF last = from - n + 1 THEN "Succeeded"
                      ELSE "NotEnoughBlocks",
           blocks |-> [i \in 1 .. from - last + 1 |-> from - i + 1]]

\* The ledger infos of the blocks that the certificates of this answer commit, and of the ones
\* between them, from the highest down.
LedgerInfosFor(p, blocks) ==
  LET ids == ToSet(blocks)
      committed == {CommittedBy(b) : b \in ids} \cap ids
      known(b) == b <= stores[p].ledger /\ b >= Min(committed) /\ b <= Max(committed)
  IN IF committed = {} THEN <<>>
     ELSE SelectSeq(blocks, LAMBDA b : b \in LedgerInfoBlocks /\ known(b))

\* process_block_retrieval.
Answer(p, id, n, target) ==
  LET walk == WalkParents(p, StartOfAnswer(id), n, target)
  IN [status |-> walk.status, blocks |-> walk.blocks, ledger_infos |-> LedgerInfosFor(p, walk.blocks)]

----------------------------------------------------------------------------
(* The retriever. *)

NewChunk == [peers |-> PeersOfCert, retry |-> 0, inflight |-> {}]

BatchSize ==
  IF MaxBlocksToRequest < retrieval.num_blocks - Len(retrieval.blocks)
  THEN MaxBlocksToRequest
  ELSE retrieval.num_blocks - Len(retrieval.blocks)

\* pick_peer and pick_peers for one peer: first the preferred one, unless the list is empty, then
\* any that is left.
PickPeers ==
  IF chunk.retry >= NumRetries \/ chunk.peers = {} THEN {}
  ELSE IF chunk.retry = 0 THEN {PreferredPeer}
  ELSE chunk.peers

\* interval.tick(): ask one more peer, or give up when nobody is left to ask or to wait for.
Tick ==
  /\ retrieval.state = "running"
  /\ \/ \E p \in PickPeers :
          /\ chunk' = [peers |-> chunk.peers \ {p}, retry |-> chunk.retry + 1,
                       inflight |-> chunk.inflight \cup {p}]
          /\ UNCHANGED retrieval
     \/ /\ PickPeers = {}
        /\ chunk.inflight = {}
        /\ retrieval' = [retrieval EXCEPT !.state = "failed"]
        /\ UNCHANGED chunk
     \/ /\ PickPeers = {}
        /\ chunk.inflight # {}
        /\ chunk.retry < NumRetries
        /\ chunk' = [chunk EXCEPT !.retry = @ + 1]
        /\ UNCHANGED retrieval
  /\ UNCHANGED stores

\* An answer comes in, and ends the chunk whatever its status. The rest of the requests are
\* dropped. A chunk that succeeds is appended, and the next one starts at the parent of its last
\* block; the target or the first block of the epoch ends the retrieval.
Receive(p) ==
  /\ retrieval.state = "running"
  /\ p \in chunk.inflight
  /\ retrieval.next = EndOfEpoch => KnowsEnd(p)
  /\ LET answer == Answer(p, retrieval.next, BatchSize, retrieval.target)
         blocks == retrieval.blocks \o answer.blocks
         lis == retrieval.ledger_infos \o answer.ledger_infos
         state == IF answer.status \notin {"Succeeded", "SucceededWithTarget"} THEN "failed"
                  ELSE IF \/ answer.status = "SucceededWithTarget"
                          \/ Len(blocks) >= retrieval.num_blocks
                       THEN "done"
                  ELSE "running"
     IN retrieval' =
          IF state = "failed" THEN [retrieval EXCEPT !.state = "failed"]
          ELSE [retrieval EXCEPT !.state = state, !.blocks = blocks, !.ledger_infos = lis,
                                 !.next = blocks[Len(blocks)] - 1]
  /\ chunk' = NewChunk
  /\ UNCHANGED stores

\* A request fails or times out. A peer that cannot find the end of the epoch sends no answer.
RequestFails(p) ==
  /\ retrieval.state = "running"
  /\ p \in chunk.inflight
  /\ chunk' = [chunk EXCEPT !.inflight = @ \ {p}]
  /\ UNCHANGED <<stores, retrieval>>

----------------------------------------------------------------------------
(* The peers meanwhile: a block is inserted, certified, committed or pruned. *)
Insert(p) ==
  /\ stores[p].high < Len(Rounds)
  /\ stores' = [stores EXCEPT ![p].high = @ + 1, ![p].certified = stores[p].high]
  /\ UNCHANGED <<retrieval, chunk>>

Certify(p) ==
  /\ stores[p].certified < stores[p].high
  /\ stores' = [stores EXCEPT ![p].certified = @ + 1]
  /\ UNCHANGED <<retrieval, chunk>>

CommitUpTo(p, b) ==
  /\ b \in LedgerInfoBlocks
  /\ b > stores[p].ledger
  /\ \E c \in Chain : c <= stores[p].certified /\ CommittedBy(c) >= b
  /\ stores' = [stores EXCEPT ![p].ledger = b]
  /\ UNCHANGED <<retrieval, chunk>>

Prune(p) ==
  /\ stores[p].low < stores[p].ledger
  /\ stores' = [stores EXCEPT ![p].low = @ + 1]
  /\ UNCHANGED <<retrieval, chunk>>

----------------------------------------------------------------------------
\* Mutant: the block of the commit cert itself is not counted.
InRangeShort(from, target) ==
  [next |-> from, target |-> target, num_blocks |-> RoundOf(from) - RoundOf(target)]

\* fast_forward_sync to the certificate of block `from` asks for as many blocks as there are
\* rounds above the commit cert; fast_forward_sync_by_epoch asks without a limit.
InRange(from, target) ==
  [next |-> from, target |-> target, num_blocks |-> RoundOf(from) - RoundOf(target) + 1]
ByEpoch(target) == [next |-> EndOfEpoch, target |-> target, num_blocks |-> RoundOf(Len(Rounds)) + 2]

Requests ==
  {InRange(from, target) : <<from, target>> \in {r \in Chain \X Chain : r[2] < r[1]}}
    \cup {ByEpoch(target) : target \in Chain}

Init ==
  /\ stores \in [AllPeers -> InitialStores]
  /\ \E r \in Requests :
       retrieval = [from |-> r.next, next |-> r.next, target |-> r.target,
                    num_blocks |-> r.num_blocks, blocks |-> <<>>, ledger_infos |-> <<>>,
                    state |-> IF PeersOfCert = {} THEN "failed" ELSE "running"]
  /\ chunk = NewChunk

Next ==
  \/ Tick
  \/ \E p \in AllPeers :
       \/ Receive(p) \/ RequestFails(p)
       \/ Insert(p) \/ Certify(p) \/ Prune(p)
       \/ \E b \in LedgerInfoBlocks : CommitUpTo(p, b)

Spec == Init /\ [][Next]_vars

----------------------------------------------------------------------------
\* The blocks of a retrieval are one chain without a gap or a repetition, from the block that was
\* asked for, although each chunk may come from another peer and the peers prune between them;
\* and one that succeeds has reached its target, so that the blocks connect to the root of the
\* tree: the number of rounds, which bounds the request, is never too small.
RetrievedIsChain ==
  LET blocks == retrieval.blocks
  IN /\ \A i \in 1 .. Len(blocks) - 1 : blocks[i + 1] = blocks[i] - 1
     /\ Len(blocks) > 0 =>
          blocks[1] = (IF retrieval.from = EndOfEpoch THEN Max(LedgerInfoBlocks) + 1 ELSE retrieval.from)
     /\ retrieval.state = "done" => blocks[Len(blocks)] = retrieval.target

\* The ledger infos come from the highest down over all chunks, so that the last one after the
\* caller reverses them is the highest; and for each, a certificate that commits its block, or a
\* later one, is among the certificates that came with it. Otherwise the node would start the
\* recovery with an epoch change that it cannot commit.
LedgerInfosRecoverable ==
  LET lis == retrieval.ledger_infos
  IN /\ \A i \in 1 .. Len(lis) - 1 : lis[i + 1] < lis[i]
     /\ \A i \in 1 .. Len(lis) :
          \E k \in 1 .. Len(retrieval.blocks) : CommittedBy(retrieval.blocks[k]) >= lis[i]
=============================================================================
