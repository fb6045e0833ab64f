----------------------------- MODULE CommitVotes -----------------------------
(***************************************************************************)
(* How the buffer manager of one validator collects commit votes: votes    *)
(* and decisions come before their block was ordered, executed or signed,  *)
(* are kept until it is, and make it leave the buffer for the persisting   *)
(* phase (pipeline/buffer_manager.rs, buffer_item.rs,                      *)
(* commit_reliable_broadcast.rs).  ExecutionPipeline models the execution  *)
(* of the same items; here a block is executed some time after it came.    *)
(*                                                                         *)
(* A batch has one block, and a round stands for it.  The commit info of a *)
(* vote is "ok" if it is the one our own execution gives, "bad" if not;    *)
(* before the execution the two look the same.  The reliable broadcast of  *)
(* the others repeats a vote until it is acknowledged, and 30 s later      *)
(* again; once a round is decided they stop, and a SyncInfo brings the     *)
(* decision (sync_to_highest_commit_cert).                                 *)
(***************************************************************************)
EXTENDS Integers, Sequences, FiniteSets, SequencesExt, FiniteSetsExt

CONSTANTS
  Honest, Byzantine, Self, Quorum,
  OtherBlocks,       \* ids of blocks that are not ordered here; Byzantine votes name them
  Window,            \* max_pending_rounds_in_commit_vote_cache
  MaxIds,            \* MAX_CACHED_BLOCK_IDS_PER_AUTHOR_PER_COMMIT_VOTE_ROUND
  MaxPending,        \* MAX_PENDING_COMMIT_PROOFS
  MaxBacklog,        \* MAX_BACKLOG
  MaxRound, MaxResets, MaxFailures   \* bounds: rounds, resets, failures of the persisting phase

VARIABLES
  buffer,                  \* the items, oldest first: [round, st, sigs, proof]
  next_round,              \* the first round that is still in block_rx
  signing_root,            \* a round, or 0
  signing,                 \* requests to the signing phase
  commit_vote_cache,       \* [round, id, author, kind]
  pending_commit_proofs,   \* rounds
  highest_committed_round, latest_round,
  persisting,              \* the requests to the persisting phase: [round, sigs], sigs = Decision if not ours
  persisted,               \* its responses
  votes,                   \* validator -> round -> how far the broadcast of its vote to us is
  decided,                 \* the highest round with a commit proof anywhere
  root,                    \* the target of the last reset
  resets, failed

store == <<buffer, next_round, signing_root, signing, commit_vote_cache, pending_commit_proofs,
           highest_committed_round, latest_round, persisting, persisted, root, resets, failed>>
vars == <<store, votes, decided>>

Rounds == 1 .. MaxRound
Voters == Honest \cup Byzantine \cup {Self}
Own == "block"
Decision == {"decision"}

Init ==
  /\ buffer = <<>> /\ next_round = 1
  /\ signing_root = 0 /\ signing = {}
  /\ commit_vote_cache = {} /\ pending_commit_proofs = {}
  /\ highest_committed_round = 0 /\ latest_round = 0
  /\ persisting = <<>> /\ persisted = <<>>
  /\ votes = [v \in Voters |-> [r \in Rounds |-> IF v \in Honest THEN "sending" ELSE "none"]]
  /\ decided = 0
  /\ root = 0 /\ resets = 0 /\ failed = {}

----------------------------------------------------------------------------
(* BufferItem                                                              *)

NewOrdered(r, sigs) == [round |-> r, st |-> "Ordered", sigs |-> sigs, proof |-> FALSE]
IndexOf(buf, r) == {i \in DOMAIN buf : buf[i].round = r}

\* Each author has one signature in an item, the last.
AddSignature(item, a, kind) ==
  [item EXCEPT !.sigs = {s \in @ : s.author # a} \cup {[author |-> a, kind |-> kind]}]

\* add_signature_if_matched: an ordered item takes any commit info of its block.
Matches(item, kind) == item.st = "Ordered" \/ kind = "ok"

VerifySignatures(sigs) == {s \in sigs : s.kind = "ok"}

HasQuorum(sigs) == Cardinality({s.author : s \in sigs}) >= Quorum

\* advance_to_executed_or_aggregated.
Executed(item) ==
  LET sigs == VerifySignatures(item.sigs) IN
  CASE item.proof -> [item EXCEPT !.st = "Aggregated", !.sigs = Decision]
    [] ~item.proof /\ HasQuorum(sigs) -> [item EXCEPT !.st = "Aggregated", !.sigs = sigs]
    [] ~item.proof /\ ~HasQuorum(sigs) -> [item EXCEPT !.st = "Executed", !.sigs = sigs]

\* try_advance_to_aggregated.
TryAggregate(item) ==
  IF item.st # "Ordered" /\ HasQuorum(item.sigs) THEN [item EXCEPT !.st = "Aggregated"] ELSE item

\* try_advance_to_aggregated_with_ledger_info.
AggregateWithDecision(item) ==
  IF item.st = "Ordered" THEN [item EXCEPT !.proof = TRUE]
  ELSE [item EXCEPT !.st = "Aggregated", !.sigs = Decision]

----------------------------------------------------------------------------
(* The caches                                                              *)

\* drain_cached_commit_votes takes these out.
CachedVotes(r) == {v \in commit_vote_cache : v.round = r /\ v.id = Own}

InWindow(r) == highest_committed_round < r /\ r < highest_committed_round + Window

\* can_cache_commit_vote_for_block, in the cache cut to the window.
CanCache(r, id, a) ==
  LET ofRound == {v \in commit_vote_cache : v.round = r /\ InWindow(v.round)} IN
    \/ \E v \in ofRound : v.id = id
    \/ Cardinality({v.id : v \in {u \in ofRound : u.author = a}}) < MaxIds

\* cache_commit_vote: whether it is acknowledged, and the cache afterwards.
Acks(r, id, a) == r <= highest_committed_round \/ (InWindow(r) /\ CanCache(r, id, a))

CacheCommitVote(r, id, a, kind) ==
  LET kept == {v \in commit_vote_cache : InWindow(v.round)} IN
  IF InWindow(r) /\ CanCache(r, id, a)
  THEN {v \in kept : ~(v.round = r /\ v.id = id /\ v.author = a)} \cup {[round |-> r, id |-> id, author |-> a, kind |-> kind]}
  ELSE kept

\* try_add_pending_commit_proof.
AddPending(r) ==
  CASE r <= highest_committed_round -> pending_commit_proofs
    [] r > highest_committed_round /\ Cardinality(pending_commit_proofs) < MaxPending ->
         pending_commit_proofs \cup {r}
    [] r > highest_committed_round /\ Cardinality(pending_commit_proofs) >= MaxPending ->
         IF r <= Min(pending_commit_proofs) THEN pending_commit_proofs
         ELSE (pending_commit_proofs \ {Min(pending_commit_proofs)}) \cup {r}

\* drain_pending_commit_proof_till: the highest of those it drops is applied if it is for this
\* block.
AppliesPending(r) == r \in pending_commit_proofs

----------------------------------------------------------------------------
(* Advancing                                                               *)

\* advance_signing_root: the first executed item from the root on, or from the head.
FirstExecuted(buf, from) ==
  LET found == {buf[i].round : i \in {j \in DOMAIN buf : buf[j].st = "Executed" /\ buf[j].round >= from}} IN
  IF found = {} THEN 0 ELSE Min(found)

AdvanceSigningRoot(buf, from) ==
  LET r == FirstExecuted(buf, from) IN
  /\ signing_root' = r
  /\ signing' = IF r = 0 THEN signing ELSE signing \cup {r}

\* advance_head, the signing root.
RootAfterHead(r) == IF signing_root <= r THEN 0 ELSE signing_root

\* advance_head: the items up to the aggregated one leave the buffer, our broadcasts of their
\* votes end, and the blocks go to the persisting phase.
Leaves(r, item) ==
  /\ persisting' = Append(persisting, [round |-> r, sigs |-> item.sigs])
  /\ decided' = Max({decided, r})

\* An item has changed: an aggregated one leaves at once, and then the signing root moves on.
SetItem(i, item) ==
  IF item.st = "Aggregated"
  THEN /\ buffer' = SubSeq(buffer, i + 1, Len(buffer))
       /\ Leaves(item.round, item)
       /\ IF RootAfterHead(item.round) = 0 THEN AdvanceSigningRoot(buffer', 0)
          ELSE signing_root' = RootAfterHead(item.round) /\ UNCHANGED signing
  ELSE /\ buffer' = [buffer EXCEPT ![i] = item]
       /\ UNCHANGED <<persisting, decided, signing_root, signing>>

----------------------------------------------------------------------------
(* The events of the main loop                                             *)

NeedBackpressure == highest_committed_round + MaxBacklog < latest_round

EarlySignatures(r) == {[author |-> v.author, kind |-> v.kind] : v \in CachedVotes(r)}

\* process_ordered_blocks.
ProcessOrderedBlocks ==
  /\ next_round <= MaxRound
  /\ ~NeedBackpressure
  /\ latest_round' = next_round
  /\ buffer' = Append(buffer, NewOrdered(next_round, EarlySignatures(next_round)))
  /\ commit_vote_cache' = commit_vote_cache \ CachedVotes(next_round)
  /\ next_round' = next_round + 1
  /\ UNCHANGED <<signing_root, signing, pending_commit_proofs, highest_committed_round, persisting,
                 persisted, root, resets, failed, votes, decided>>

\* process_execution_response, of the first item that is not executed; the loop advances the
\* signing root if there is none.
ProcessExecutionResponse(i) ==
  LET executed == Executed(buffer[i])
      r == buffer[i].round
      item == IF executed.st # "Aggregated" /\ AppliesPending(r) THEN AggregateWithDecision(executed) ELSE executed
  IN
  /\ buffer[i].st = "Ordered"
  /\ \A j \in 1 .. i - 1 : buffer[j].st # "Ordered"
  /\ pending_commit_proofs' = {p \in pending_commit_proofs : p > r}
  /\ IF item.st = "Aggregated" THEN SetItem(i, item)
     ELSE /\ buffer' = [buffer EXCEPT ![i] = item]
          /\ UNCHANGED <<persisting, decided>>
          /\ IF signing_root = 0 THEN AdvanceSigningRoot(buffer', 0) ELSE UNCHANGED <<signing_root, signing>>
  /\ UNCHANGED <<next_round, commit_vote_cache, highest_committed_round, latest_round, persisted, root,
                 resets, failed, votes>>

\* process_signing_response: a signed vote is broadcast, also to ourselves.
ProcessSigningResponse(r, ok) ==
  /\ r \in signing
  /\ LET found == {i \in IndexOf(buffer, r) : ok /\ signing_root > 0 /\ r >= signing_root /\ buffer[i].st = "Executed"}
         buf == [i \in DOMAIN buffer |-> IF i \in found THEN [buffer[i] EXCEPT !.st = "Signed"] ELSE buffer[i]]
         next == FirstExecuted(buf, signing_root)
     IN /\ buffer' = buf
        /\ votes' = IF found # {} THEN [votes EXCEPT ![Self][r] = "sending"] ELSE votes
        /\ signing_root' = next
        /\ signing' = (signing \ {r}) \cup (IF next = 0 THEN {} ELSE {next})
  /\ UNCHANGED <<next_round, commit_vote_cache, pending_commit_proofs, highest_committed_round,
                 latest_round, persisting, persisted, root, resets, failed, decided>>

\* process_commit_message of a vote for an item of the buffer: the cached votes go in first.
VoteForItem(i, a, kind) ==
  LET item == FoldSet(LAMBDA v, it : IF Matches(it, v.kind) THEN AddSignature(it, v.author, v.kind) ELSE it,
                      buffer[i], CachedVotes(buffer[i].round))
  IN SetItem(i, IF Matches(item, kind) THEN TryAggregate(AddSignature(item, a, kind)) ELSE item)

\* A vote arrives; id names the block of its round here, or another.
CommitVote(a, r, id, kind) ==
  LET found == IF id = Own THEN IndexOf(buffer, r) ELSE {}
      acked == IF found # {} THEN \E i \in found : Matches(buffer[i], kind) ELSE Acks(r, id, a)
  IN
  /\ votes' = IF acked /\ a \notin Byzantine THEN [votes EXCEPT ![a][r] = "acked"] ELSE votes
  /\ \/ \E i \in found :
          /\ commit_vote_cache' = commit_vote_cache \ CachedVotes(r)
          /\ VoteForItem(i, a, kind)
     \/ /\ found = {}
        /\ commit_vote_cache' = CacheCommitVote(r, id, a, kind)
        /\ UNCHANGED <<buffer, persisting, decided, signing_root, signing>>
  /\ UNCHANGED <<next_round, pending_commit_proofs, highest_committed_round, latest_round, persisted,
                 root, resets, failed>>

HonestVote(a, r) == votes[a][r] = "sending" /\ CommitVote(a, r, Own, "ok")

\* process_commit_message of a decision, which a SyncInfo with a newer commit certificate sends.
CommitDecision(r) ==
  /\ r <= decided
  /\ r > highest_committed_round
  /\ \/ \E i \in IndexOf(buffer, r) : SetItem(i, AggregateWithDecision(buffer[i])) /\ UNCHANGED pending_commit_proofs
     \/ /\ IndexOf(buffer, r) = {}
        /\ pending_commit_proofs' = AddPending(r)
        /\ UNCHANGED <<buffer, persisting, decided, signing_root, signing>>
  /\ UNCHANGED <<next_round, commit_vote_cache, highest_committed_round, latest_round, persisted, root,
                 resets, failed, votes>>

\* The persisting phase answers; one of its requests may fail.
Persist(ok) ==
  /\ persisting # <<>>
  /\ ~ok => Cardinality(failed) < MaxFailures
  /\ persisting' = Tail(persisting)
  /\ persisted' = IF ok THEN Append(persisted, Head(persisting).round) ELSE persisted
  /\ failed' = IF ok THEN failed ELSE failed \cup {Head(persisting).round}
  /\ UNCHANGED <<buffer, next_round, signing_root, signing, commit_vote_cache, pending_commit_proofs,
                 highest_committed_round, latest_round, root, resets, votes, decided>>

ProcessPersisted ==
  /\ persisted # <<>>
  /\ persisted' = Tail(persisted)
  /\ commit_vote_cache' = {v \in commit_vote_cache : v.round > Head(persisted)}
  /\ highest_committed_round' = Head(persisted)
  /\ UNCHANGED <<buffer, next_round, signing_root, signing, pending_commit_proofs, latest_round,
                 persisting, root, resets, failed, votes, decided>>

\* process_reset_request, for a sync to a decided round: the request that is being processed is
\* waited for and the others dropped; the rounds after the target will be ordered again, and the
\* others will repeat the votes that they think we have.
ProcessResetRequest(target) ==
  /\ resets < MaxResets
  /\ highest_committed_round < target /\ target <= decided
  /\ highest_committed_round' = target /\ latest_round' = target
  /\ buffer' = <<>> /\ signing_root' = 0
  /\ signing' \in SUBSET signing
  /\ commit_vote_cache' = {} /\ pending_commit_proofs' = {}
  /\ persisting' = <<>>
  /\ persisted' \in {persisted, IF persisting = <<>> THEN persisted ELSE Append(persisted, Head(persisting).round)}
  /\ next_round' = target + 1
  /\ votes' = [v \in Voters |-> [r \in Rounds |->
                 IF v = Self THEN "none" ELSE IF votes[v][r] = "acked" THEN "sending" ELSE votes[v][r]]]
  /\ root' = target
  /\ resets' = resets + 1
  /\ UNCHANGED <<decided, failed>>

----------------------------------------------------------------------------
(* The others                                                              *)

\* rebroadcast_commit_votes_if_needed: acknowledged votes are sent again after 30 s while the
\* round is not committed there; when it is, the broadcast ends.  The same for ourselves.
Rebroadcast(a, r) ==
  /\ a = Self => \E i \in IndexOf(buffer, r) : buffer[i].st = "Signed"
  /\ votes[a][r] = "acked"
  /\ votes' = [votes EXCEPT ![a][r] = "sending"]
  /\ UNCHANGED <<store, decided>>

StopBroadcast(a) ==
  /\ \E r \in 1 .. decided : votes[a][r] \in {"sending", "acked"}
  /\ votes' = [votes EXCEPT ![a] = [r \in Rounds |-> IF r <= decided /\ @[r] # "none" THEN "stopped" ELSE @[r]]]
  /\ UNCHANGED <<store, decided>>

\* The others commit the next round: with our vote, or with a Byzantine one.
OthersDecide ==
  /\ decided < MaxRound
  /\ LET ours == IF votes[Self][decided + 1] = "none" THEN {} ELSE {Self} IN
     Cardinality(Honest \cup ours \cup Byzantine) >= Quorum
  /\ decided' = decided + 1
  /\ UNCHANGED <<store, votes>>

OthersDecideWithUs == Cardinality(Honest \cup {Self}) >= Quorum /\ decided < MaxRound /\ votes[Self][decided + 1] # "none" /\ OthersDecide

Next ==
  \/ ProcessOrderedBlocks
  \/ \E i \in DOMAIN buffer : ProcessExecutionResponse(i)
  \/ \E r \in signing, ok \in BOOLEAN : ProcessSigningResponse(r, ok)
  \/ \E a \in Honest \cup {Self}, r \in Rounds : HonestVote(a, r)
  \/ \E a \in Byzantine, r \in Rounds, kind \in {"ok", "bad"} : CommitVote(a, r, Own, kind)
  \/ \E a \in Byzantine, r \in Rounds, id \in OtherBlocks : CommitVote(a, r, id, "bad")
  \/ \E r \in Rounds : CommitDecision(r)
  \/ \E ok \in BOOLEAN : Persist(ok)
  \/ ProcessPersisted
  \/ \E target \in Rounds : ProcessResetRequest(target)
  \/ \E a \in Honest \cup {Self}, r \in Rounds : Rebroadcast(a, r)
  \/ \E a \in Honest \cup {Self} : StopBroadcast(a)
  \/ OthersDecide

Spec == Init /\ [][Next]_vars

\* The phases answer, votes are repeated, and a SyncInfo keeps bringing the highest decision; a
\* Byzantine vote, a reset and a failure need not happen, and signing succeeds in the end.
FairSpec ==
  /\ Spec
  /\ WF_vars(ProcessOrderedBlocks)
  /\ WF_vars(\E i \in DOMAIN buffer : ProcessExecutionResponse(i))
  /\ \A r \in Rounds : WF_vars(ProcessSigningResponse(r, TRUE))
  /\ \A a \in Honest \cup {Self}, r \in Rounds : WF_vars(HonestVote(a, r)) /\ WF_vars(Rebroadcast(a, r))
  /\ WF_vars(decided > 0 /\ CommitDecision(decided))
  /\ WF_vars(Persist(TRUE))
  /\ WF_vars(ProcessPersisted)
  /\ WF_vars(OthersDecideWithUs)

----------------------------------------------------------------------------
(* Properties *)

TypeOK ==
  /\ \A i \in DOMAIN buffer : buffer[i].st \in {"Ordered", "Executed", "Signed"} /\ buffer[i].round \in Rounds
  /\ signing_root \in 0 .. MaxRound /\ signing \subseteq Rounds
  /\ commit_vote_cache \subseteq [round : Rounds, id : {Own} \cup OtherBlocks, author : Voters, kind : {"ok", "bad"}]
  /\ pending_commit_proofs \subseteq Rounds /\ Cardinality(pending_commit_proofs) <= MaxPending
  /\ decided \in 0 .. MaxRound

\* A block is committed with a decision of the others or with a quorum of signatures of the
\* commit info that our execution gave, whichever of the votes came before the execution and
\* could not be checked (add_signature_if_matched, verify_signatures).
CommittedWithQuorum ==
  \A p \in ToSet(persisting) : p.sigs = Decision \/ (HasQuorum(p.sigs) /\ \A s \in p.sigs : s.kind = "ok")

\* A vote that was acknowledged is in the item of its round, in the cache, or no longer needed:
\* its sender has stopped to send it (process_commit_message, drain_cached_commit_votes).
AckedVoteIsKept ==
  \A a \in Honest, r \in Rounds :
    votes[a][r] = "acked" =>
      \/ r <= Max({highest_committed_round, root} \cup ToSet(persisted) \cup {p.round : p \in ToSet(persisting)})
      \/ \E i \in DOMAIN buffer : buffer[i].round = r /\ [author |-> a, kind |-> "ok"] \in buffer[i].sigs
      \/ [round |-> r, id |-> Own, author |-> a, kind |-> "ok"] \in commit_vote_cache

\* The signing root is an executed item of the buffer: from a root that left, no later item
\* would ever be signed (advance_head, advance_signing_root).
SigningRootInBuffer ==
  signing_root # 0 => \E i \in DOMAIN buffer : buffer[i].round = signing_root

\* Every round is committed in the end, with back pressure after MaxBacklog rounds, with at most
\* one failure of the persisting phase, and whichever votes were refused before the others
\* committed and stopped sending theirs.  (A failure of the last round stays.)
AllCommitted == highest_committed_round = MaxRound \/ root = MaxRound \/ MaxRound \in failed
=============================================================================
