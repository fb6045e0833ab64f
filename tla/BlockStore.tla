----------------------------- MODULE BlockStore -----------------------------
(***************************************************************************)
(* The block store of one validator: the tree of blocks with its ordered   *)
(* and its commit root, what is kept in the consensus database, and the    *)
(* operations by which the round manager adds blocks and certificates,     *)
(* catches up with the others and recovers after a restart                 *)
(* (block_storage/block_tree.rs, block_store.rs, sync_manager.rs,          *)
(* persistent_liveness_storage.rs, consensusdb/mod.rs).                    *)
(*                                                                         *)
(* The blocks of one epoch and their parents are constants; the others     *)
(* have them all.  A quorum certificate is named by the block it           *)
(* certifies.  The round manager's task is a list of steps, one for each   *)
(* stretch between two awaits: the execution pipeline commits in between.  *)
(* Left out: randomness, order votes (the configuration reader disables    *)
(* them), the end of the epoch, and nodes that are not validators.         *)
(***************************************************************************)
EXTENDS Integers, Sequences, FiniteSets, SequencesExt, FiniteSetsExt

CONSTANTS
  Blocks,        \* ids, 0 is the genesis block and a parent has a smaller id
  Parent, Round, \* id -> id, id -> round
  Certified,     \* the blocks with a quorum certificate, one chain
  Ledger,        \* the blocks that the others have a ledger info of
  MaxPruned,     \* max_pruned_blocks_in_mem
  MaxCrashes, MaxSyncs   \* bounds: restarts, and calls of add_certs

VARIABLES
  tree,    \* [blocks, qcs, ordered, commit, hqc, hoc, hcc, pruned]
  db,      \* the consensus database: [blocks, qcs, numbered, ledger]
  exec,    \* the pipeline: [executed, sent, callbacks]
  task,    \* what the round manager has still to do
  up,      \* whether the node runs
  crashes, syncs

vars == <<tree, db, exec, task, up, crashes, syncs>>

Genesis == 0

AncestorsOf[b \in Blocks] == IF b = Genesis THEN {b} ELSE {b} \cup AncestorsOf[Parent[b]]

\* The commit info of the certificate of c: its parent, if the rounds are consecutive.
Commits(c) == IF c # Genesis /\ Round[c] = Round[Parent[c]] + 1 THEN Parent[c] ELSE Genesis

ByRound(S) == SetToSortSeq(S, LAMBDA a, b : Round[a] < Round[b])

----------------------------------------------------------------------------
(* BlockTree                                                               *)

\* The certificate that commits the root, or a placeholder, is there (find_root_by_block_number).
NewTree(root) ==
  [blocks |-> {root}, qcs |-> {root}, ordered |-> root, commit |-> root,
   hqc |-> root, hoc |-> root, hcc |-> root, pruned |-> <<>>]

\* insert_block: the parent has to be there, unless it is the genesis block.
CanInsertBlock(t, b) == b \in t.blocks \/ Parent[b] \in t.blocks \/ Parent[b] = Genesis
InsertBlock(t, b) == [t EXCEPT !.blocks = @ \cup {b}]

InsertQuorumCert(t, c) ==
  [t EXCEPT !.qcs = @ \cup {c},
            !.hqc = IF Round[c] > Round[@] THEN c ELSE @,
            !.hoc = IF Round[@] < Round[Commits(c)] THEN Commits(c) ELSE @]

InsertOrderedCert(t, b) == [t EXCEPT !.hoc = IF Round[b] > Round[@] THEN b ELSE @]

\* path_from_root_to_block, <<>> if there is none.
PathFromOrderedRoot(t, b) ==
  LET path == {a \in AncestorsOf[b] : Round[a] > Round[t.ordered]} IN
  IF t.ordered \in AncestorsOf[b] /\ path \subseteq t.blocks THEN ByRound(path) ELSE <<>>

\* Mutant: every request is taken for a newer one.
BlocksToPruneAlways(t, next) ==
  IF next = t.commit \/ next \notin t.blocks THEN {}
  ELSE {b \in t.blocks : t.commit \in AncestorsOf[b] /\ ~({t.commit, next} \subseteq AncestorsOf[b] /\ next # t.commit
                                                           /\ t.commit \in AncestorsOf[next])}

\* find_blocks_to_prune: everything under the commit root that is not under the next one.
BlocksToPrune(t, next) ==
  IF next = t.commit \/ next \notin t.blocks \/ Round[next] <= Round[t.commit] THEN {}
  ELSE {b \in t.blocks : t.commit \in AncestorsOf[b] /\ ~({t.commit, next} \subseteq AncestorsOf[b] /\ next # t.commit
                                                           /\ t.commit \in AncestorsOf[next])}

\* process_pruned_blocks: the last MaxPruned of them stay in memory.
ProcessPruned(t, S) ==
  LET all == t.pruned \o ByRound(S)
      n == IF Len(all) > MaxPruned THEN Len(all) - MaxPruned ELSE 0
      gone == ToSet(SubSeq(all, 1, n))
  IN [t EXCEPT !.pruned = SubSeq(all, n + 1, Len(all)), !.blocks = @ \ gone, !.qcs = @ \ gone]

UpdateHighestCommitCert(t, b) == IF Round[b] > Round[t.hcc] THEN [t EXCEPT !.hcc = b, !.commit = b] ELSE t

\* Mutant: without the look at the commit root.
CommitCallbackAlways(t, b) ==
  LET next == [t EXCEPT !.hcc = b, !.commit = b] IN
  [ProcessPruned(next, BlocksToPruneAlways(t, b)) EXCEPT !.commit = b]

CommitCallback(t, b) ==
  IF Round[b] <= Round[t.commit] THEN t
  ELSE UpdateHighestCommitCert(ProcessPruned(t, BlocksToPrune(t, b)), b)

----------------------------------------------------------------------------
(* The consensus database                                                  *)

EmptyDb == [blocks |-> {}, qcs |-> {}, numbered |-> {Genesis}, ledger |-> {}]

SaveTree(d, bs, cs, ns) ==
  [d EXCEPT !.blocks = @ \cup bs, !.qcs = @ \cup cs, !.numbered = @ \cup ns]

LatestLedgerInfo(d) == IF d.ledger = {} THEN Genesis ELSE Max(d.ledger)

\* get_data and find_root_by_block_number: the blocks from the one on that execution has last
\* committed; the genesis block and its certificate are made from the ledger info.
HasRoot(d, executed) ==
  executed = Genesis \/ (executed \in d.blocks \cap d.numbered /\ executed \in d.qcs)

\* BlockStore::build: the saved blocks whose ancestors are there, in the order of their rounds,
\* and the certificates.
Build(d, root) ==
  LET below(b) == {a \in AncestorsOf[b] : Round[a] > Round[root]}
      bs == {b \in d.blocks : Round[b] > Round[root] /\ below(b) \subseteq d.blocks
                              /\ (root \in AncestorsOf[b] \/ Parent[Min(below(b))] = Genesis)}
      t == [NewTree(root) EXCEPT !.blocks = @ \cup bs]
  IN FoldSeq(LAMBDA c, u : InsertQuorumCert(u, c), t,
             ByRound({c \in d.qcs : c \in t.blocks /\ Round[c] >= Round[root]}))

----------------------------------------------------------------------------
(* The steps of the task                                                   *)

Init ==
  /\ tree = NewTree(Genesis)
  /\ db = EmptyDb
  /\ exec = [executed |-> Genesis, sent |-> <<>>, callbacks |-> <<>>]
  /\ task = <<>> /\ up = TRUE
  /\ crashes = 0 /\ syncs = 0

Op(name, b) == [op |-> name, b |-> b]

\* need_fetch_for_quorum_cert.
NeedFetch(t, c) ==
  CASE Round[c] < Round[t.ordered] -> "QCRoundBeforeRoot"
    [] Round[c] >= Round[t.ordered] /\ c \in t.qcs -> "QCAlreadyExist"
    [] Round[c] >= Round[t.ordered] /\ c \notin t.qcs /\ c \in t.blocks -> "QCBlockExist"
    [] Round[c] >= Round[t.ordered] /\ c \notin t.qcs /\ c \notin t.blocks -> "NeedFetch"

\* fetch_quorum_cert: the missing ancestors, from the oldest on; each brings its parent's
\* certificate.  A block of before the ordered root ends it, and what came before stays.
Fetched(t, c) ==
  {a \in AncestorsOf[c] \ {Genesis} : \A x \in AncestorsOf[c] : Round[x] >= Round[a] => x \notin t.blocks}

FetchFails(t, c) ==
  LET first == Min(Fetched(t, c)) IN
  Fetched(t, c) # {} /\ (~CanInsertBlock(t, first) \/ Round[first] <= Round[t.ordered])

WithFetched(t, c) ==
  LET bs == Fetched(t, c)
      certs == {Parent[b] : b \in bs} \cup {c}
  IN FoldSeq(LAMBDA x, u : InsertQuorumCert(u, x), [t EXCEPT !.blocks = @ \cup bs], ByRound(certs))

\* send_for_execution, not in recovery: which blocks of the path are sent, each with those
\* before it that no certificate commits.
Sends(t, b) ==
  LET path == PathFromOrderedRoot(t, b)
      ends(i) == i = Len(path) \/ (path[i + 1] \in t.qcs /\ Commits(path[i + 1]) = path[i])
  IN SelectSeq([i \in DOMAIN path |-> [b |-> path[i], sent |-> ends(i)]], LAMBDA x : x.sent)

SendOps(t, b) ==
  LET s == Sends(t, b) IN
  FlattenSeq([i \in DOMAIN s |-> <<Op("finalize_order", s[i].b), Op("update_ordered_root", s[i].b)>>])

\* init_block_number, for the whole path.
Numbered(t, b) == ToSet(PathFromOrderedRoot(t, b))

\* send_for_execution fails for a block that is not in the tree or not after the ordered root.
SendFails(t, b) == b \notin t.blocks \/ Round[b] <= Round[t.ordered]

StartSend(t, d, b, rest) ==
  IF SendFails(t, b)
  THEN task' = <<>> /\ tree' = t /\ db' = d
  ELSE /\ task' = SendOps(t, b) \o rest
       /\ tree' = t
       /\ db' = SaveTree(d, {}, {}, Numbered(t, b))

\* insert_quorum_cert.
StepInsertQuorumCert(c, rest) ==
  LET kind == NeedFetch(tree, c)
      t == CASE kind = "NeedFetch" -> WithFetched(tree, c)
             [] kind = "QCBlockExist" -> InsertQuorumCert(tree, c)
             [] kind \in {"QCRoundBeforeRoot", "QCAlreadyExist"} -> tree
      d == IF t = tree /\ kind # "QCBlockExist" THEN db
           ELSE SaveTree(db, IF kind = "NeedFetch" THEN Fetched(tree, c) ELSE {},
                         IF kind = "NeedFetch" THEN {Parent[b] : b \in Fetched(tree, c)} \cup {c} ELSE {c}, {})
  IN
  /\ UNCHANGED exec
  /\ \/ /\ kind = "NeedFetch"          \* no peer answers, or a block is refused
        /\ task' = <<>> /\ UNCHANGED <<tree, db>>
     \/ /\ kind = "NeedFetch" => ~FetchFails(tree, c)
        /\ IF kind # "QCAlreadyExist" /\ Round[t.ordered] < Round[Commits(c)]
           THEN StartSend(t, d, Commits(c), rest)
           ELSE task' = rest /\ tree' = t /\ db' = d

\* finalize_order of the path up to b; without a path, the block is passed over.
StepFinalizeOrder(b, rest) ==
  LET path == PathFromOrderedRoot(tree, b) IN
  /\ exec' = IF path = <<>> THEN exec ELSE [exec EXCEPT !.sent = Append(@, path)]
  /\ task' = IF path = <<>> THEN Tail(rest) ELSE rest
  /\ UNCHANGED <<tree, db>>

\* update_ordered_root and insert_ordered_cert.
StepUpdateOrderedRoot(b, rest) ==
  /\ tree' = [InsertOrderedCert(tree, b) EXCEPT !.ordered = b]
  /\ task' = rest
  /\ UNCHANGED <<db, exec>>

\* replay_ordered_path_if_needed.
StepReplay(rest) ==
  /\ IF Round[tree.ordered] < Round[tree.hoc] THEN StartSend(tree, db, tree.hoc, rest)
     ELSE task' = rest /\ UNCHANGED <<tree, db>>
  /\ UNCHANGED exec

\* sync_to_highest_commit_cert: a decision for a block that is being executed goes to the buffer
\* manager (CommitVotes); if the block is missing, the others are asked for it and for what is
\* between.
StepSyncToCommitCert(c, rest) ==
  LET li == Commits(c) IN
  /\ task' = IF Round[tree.ordered] < Round[li] /\ li \notin tree.blocks /\ Round[tree.hcc] < Round[li]
             THEN <<[op |-> "fast_forward_sync", b |-> c, target |-> tree.hcc]>> \o rest
             ELSE rest
  /\ UNCHANGED <<tree, db, exec>>

\* sync_to_highest_quorum_cert, from the newer of the two commit certificates.
StepSyncToQuorumCert(c, hcc, rest) ==
  LET from == IF Round[tree.hcc] > Round[hcc] THEN tree.hcc ELSE hcc IN
  /\ task' = IF Round[tree.ordered] < Round[c] /\ c \notin tree.blocks
             THEN <<[op |-> "fast_forward_sync", b |-> c, target |-> from]>> \o rest
             ELSE rest
  /\ UNCHANGED <<tree, db, exec>>

\* The blocks of a retrieval: from the certified one to the target, which a peer finds on its way
\* to the genesis block.
Retrieved(c, target) == {a \in AncestorsOf[c] : Round[a] >= Round[target]} \ {Genesis}

\* process_block_retrieval: the ledger infos of the blocks that the certificates of the answer
\* commit; a peer has those up to a round.
LedgerInfos(bs, upto) == {Commits(c) : c \in bs} \cap bs \cap Ledger \cap {b \in Blocks : Round[b] <= upto}

\* fast_forward_sync, up to the ledger infos: nothing else happens if the peer had none.
StepFastForward(c, target, rest) ==
  \/ /\ task' = <<>> /\ UNCHANGED <<tree, db, exec>>
  \/ \E upto \in {Round[b] : b \in Ledger \cup {Genesis}} :
       LET bs == Retrieved(c, target)
           lis == LedgerInfos(bs, upto)
       IN /\ db' = SaveTree(db, bs, bs, {b \in bs : Round[b] <= Round[Commits(c)]})
          /\ task' = IF lis = {} THEN rest
                     ELSE <<[op |-> "put_ledger_infos", lis |-> lis], [op |-> "reset"], [op |-> "rebuild"]>> \o rest
          /\ UNCHANGED <<tree, exec>>

StepPutLedgerInfos(lis, rest) ==
  /\ db' = [db EXCEPT !.ledger = @ \cup lis]
  /\ task' = rest
  /\ UNCHANGED <<tree, exec>>

\* execution_client.reset: what is not being persisted is dropped, what is gets done; the
\* callbacks of before stay in their channel.
StepReset(rest) ==
  /\ \/ exec' = [exec EXCEPT !.sent = <<>>]
     \/ /\ exec.sent # <<>>
        /\ exec' = [executed |-> Last(Head(exec.sent)), sent |-> <<>>,
                    callbacks |-> Append(exec.callbacks, Head(exec.sent))]
  /\ task' = rest
  /\ UNCHANGED <<tree, db>>

\* recover_blocks: the certificates that commit something after the commit root and up to the
\* last ledger info, in the order of what they commit.
Recoverable(t, d) ==
  LET cs == {c \in t.qcs : Round[Commits(c)] > Round[t.commit] /\ Round[Commits(c)] <= Round[LatestLedgerInfo(d)]} IN
  [i \in 1 .. Cardinality(cs) |-> Op("recover", ByRound({Commits(c) : c \in cs})[i])]

\* rebuild, from the data that start finds.
StepRebuild(rest) ==
  /\ HasRoot(db, exec.executed)
  /\ tree' = Build(db, exec.executed)
  /\ task' = Recoverable(tree', db) \o rest
  /\ UNCHANGED <<db, exec>>

\* send_for_execution in recovery: the blocks go to execution directly, if there is a ledger info
\* for the last; the loop ends at the first error.
StepRecover(b, rest) ==
  LET path == PathFromOrderedRoot(tree, b) IN
  CASE Round[b] <= Round[tree.commit] -> task' = rest /\ UNCHANGED <<tree, db, exec>>
    [] Round[b] > Round[tree.commit] /\ SendFails(tree, b) ->
         task' = SelectSeq(rest, LAMBDA o : o.op # "recover") /\ UNCHANGED <<tree, db, exec>>
    [] Round[b] > Round[tree.commit] /\ ~SendFails(tree, b) /\ (path = <<>> \/ b \notin db.ledger) ->
         /\ db' = SaveTree(db, {}, {}, Numbered(tree, b))
         /\ task' = rest /\ UNCHANGED <<tree, exec>>
    [] Round[b] > Round[tree.commit] /\ ~SendFails(tree, b) /\ path # <<>> /\ b \in db.ledger ->
         /\ exec' = [exec EXCEPT !.executed = b]
         /\ db' = SaveTree(db, {}, {}, Numbered(tree, b))
         /\ tree' = [InsertOrderedCert(CommitCallback(tree, b), b) EXCEPT !.ordered = b]
         /\ task' = rest

Step ==
  /\ up /\ task # <<>>
  /\ LET o == Head(task)
         rest == Tail(task)
     IN \/ o.op = "insert_quorum_cert" /\ StepInsertQuorumCert(o.b, rest)
        \/ o.op = "finalize_order" /\ StepFinalizeOrder(o.b, rest)
        \/ o.op = "update_ordered_root" /\ StepUpdateOrderedRoot(o.b, rest)
        \/ o.op = "replay" /\ StepReplay(rest)
        \/ o.op = "sync_to_commit_cert" /\ StepSyncToCommitCert(o.b, rest)
        \/ o.op = "sync_to_quorum_cert" /\ StepSyncToQuorumCert(o.b, o.hcc, rest)
        \/ o.op = "fast_forward_sync" /\ StepFastForward(o.b, o.target, rest)
        \/ o.op = "put_ledger_infos" /\ StepPutLedgerInfos(o.lis, rest)
        \/ o.op = "reset" /\ StepReset(rest)
        \/ o.op = "rebuild" /\ StepRebuild(rest)
        \/ o.op = "recover" /\ StepRecover(o.b, rest)
  /\ UNCHANGED <<up, crashes, syncs>>

----------------------------------------------------------------------------
(* The round manager's calls                                               *)

\* insert_block of a proposal, whose sync info brought the certificate of its parent before; it
\* is saved before the tree may refuse it.
Proposal(b) ==
  /\ up /\ task = <<>>
  /\ b \notin tree.blocks /\ Parent[b] \in tree.qcs
  /\ Round[tree.ordered] < Round[b]
  /\ db' = SaveTree(db, {b}, {}, {})
  /\ tree' = IF CanInsertBlock(tree, b) THEN InsertBlock(tree, b) ELSE tree
  /\ UNCHANGED <<exec, task, up, crashes, syncs>>

\* A quorum certificate from the votes.
NewQuorumCert(c) ==
  /\ up /\ task = <<>>
  /\ c \in tree.blocks \ tree.qcs
  /\ task' = <<Op("insert_quorum_cert", c)>>
  /\ UNCHANGED <<tree, db, exec, up, crashes, syncs>>

\* add_certs of a SyncInfo with the certificates of c and of cc, which commits what the others
\* have a ledger info of.  (The ordered certificate that is inserted in between is our own.)
AddCerts(c, cc) ==
  /\ up /\ task = <<>>
  /\ syncs < MaxSyncs
  /\ cc \in AncestorsOf[c] /\ Commits(cc) \in Ledger
  /\ Round[c] > Round[tree.hqc] \/ Round[Commits(cc)] > Round[tree.hcc]
  /\ task' = <<Op("sync_to_commit_cert", cc), [op |-> "sync_to_quorum_cert", b |-> c, hcc |-> Commits(cc)],
               Op("insert_quorum_cert", c), [op |-> "replay"]>>
  /\ syncs' = syncs + 1
  /\ UNCHANGED <<tree, db, exec, up, crashes>>

----------------------------------------------------------------------------
(* The pipeline, and restarts                                              *)

\* The first batch is persisted by execution, and then its ledger info; the callback is queued.
Persisted ==
  /\ up /\ exec.sent # <<>>
  /\ exec' = [executed |-> Last(Head(exec.sent)), sent |-> Tail(exec.sent),
              callbacks |-> Append(exec.callbacks, Head(exec.sent))]
  /\ \/ db' = [db EXCEPT !.ledger = @ \cup {Last(Head(exec.sent))}] /\ UNCHANGED <<tree, task, up, crashes, syncs>>
     \/ /\ crashes < MaxCrashes      \* a crash before the ledger info is written
        /\ crashes' = crashes + 1 /\ up' = FALSE /\ task' = <<>>
        /\ UNCHANGED <<tree, db, syncs>>

Callback ==
  /\ up /\ exec.callbacks # <<>>
  /\ tree' = CommitCallback(tree, Last(Head(exec.callbacks)))
  /\ exec' = [exec EXCEPT !.callbacks = Tail(@)]
  /\ UNCHANGED <<db, task, up, crashes, syncs>>

Crash ==
  /\ up /\ crashes < MaxCrashes
  /\ up' = FALSE /\ crashes' = crashes + 1
  /\ task' = <<>>
  /\ UNCHANGED <<tree, db, exec, syncs>>

\* async_new, with the data that start finds.
Restart ==
  /\ ~up
  /\ HasRoot(db, exec.executed)
  /\ up' = TRUE
  /\ exec' = [exec EXCEPT !.sent = <<>>, !.callbacks = <<>>]
  /\ tree' = Build(db, exec.executed)
  /\ task' = Recoverable(tree', db) \o <<[op |-> "replay"]>>
  /\ UNCHANGED <<db, crashes, syncs>>

Next ==
  \/ Step
  \/ \E b \in Blocks \ {Genesis} : Proposal(b)
  \/ \E c \in Certified : NewQuorumCert(c)
  \/ \E c \in Certified, cc \in Certified : AddCerts(c, cc)
  \/ Persisted
  \/ Callback
  \/ Crash
  \/ Restart

Spec == Init /\ [][Next]_vars

----------------------------------------------------------------------------
(* Properties *)

TypeOK ==
  /\ tree.blocks \subseteq Blocks /\ tree.qcs \subseteq tree.blocks
  /\ {tree.ordered, tree.commit, tree.hqc, tree.hoc, tree.hcc} \subseteq Blocks
  /\ Len(tree.pruned) <= MaxPruned
  /\ db.blocks \subseteq Blocks /\ db.ledger \subseteq Blocks
  /\ exec.executed \in Blocks

\* What the code unwraps is there: the roots and the highest certified block are in the tree, also
\* after a stale callback, which would prune from the present commit root on, and the ordered root has the number that its children are counted from ("Root must exist",
\* "Highest cerfified block must exist", init_block_number).
RootsExist ==
  /\ {tree.ordered, tree.commit, tree.hqc} \subseteq tree.blocks
  /\ {tree.commit, tree.hqc} \cap ToSet(tree.pruned) = {}
  /\ tree.ordered \in db.numbered

\* The batches that execution was given continue what it has committed, without a gap, a
\* repetition or another branch, through resets, recoveries and restarts.
ExecutionGetsChain ==
  up => LET all == FlattenSeq(exec.sent) IN
        \A i \in DOMAIN all : Parent[all[i]] = IF i = 1 THEN exec.executed ELSE all[i - 1]

\* A node that crashes can start again: what execution has committed is in the database, with its
\* number and its certificate ("We guarantee that the block corresponding to the storage's latest
\* ledger info always exists"; start panics otherwise).
Restartable == HasRoot(db, exec.executed)
=============================================================================
