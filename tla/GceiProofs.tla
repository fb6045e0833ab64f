----------------------------- MODULE GceiProofs -----------------------------
(***************************************************************************)
(* Proofs about a whole node (Gcei), for every number of epochs, blocks,   *)
(* batches, timeouts and resets.                                           *)
(*                                                                         *)
(*   GceiInv    RethInv of BufferProofs and what consensus knows: the      *)
(*              batches follow the root, a future works behind the end of  *)
(*              the epoch before its own, recovery walks the blocks above  *)
(*              the root, the last block of an epoch, once certified, is on*)
(*              disk or in a request that will see it there, and the two   *)
(*              sides agree on the epoch except while one is being ended.  *)
(*              ExtendsExecuted, EpochChangeOrdered and the refinement of  *)
(*              ExecutionLog follow.                                       *)
(*   AnswerInv  what a future answered is what reth computed for its       *)
(*              blocks, and a certified batch says the same.               *)
(*              AnswersMatch follows.                                      *)
(*   UpInv      every executed block was ordered by consensus and keeps    *)
(*              its result until it is delivered; while nothing was reset, *)
(*              what is sent to be committed was executed and not          *)
(*              committed before.  NodeStaysUp follows.                    *)
(*                                                                         *)
(* Each is proved step by step from the ones above it.                     *)
(***************************************************************************)
EXTENDS BufferProofs

----------------------------------------------------------------------------
(* The inductive invariant: consensus *)

Items      == [lo : Numbers, hi : Numbers, info : CommitInfos \cup {None}]
Tasks      == [epoch : Epochs, lo : Numbers, hi : Numbers, next : Numbers,
               pc : {"set", "get", "failed", "done"}, reconfig : BOOLEAN, res : ComputeResults \cup {None}]
Requests   == [lo : Numbers, hi : Numbers, ends : Numbers \cup {None}]
Recoveries == [lo : Numbers, next : Numbers, hi : Numbers,
               pc : {"set", "get", "commit", "wait", "failed"}, waits : SUBSET Keys]

PipelineTypeInv ==
  /\ phase \in {"boot", "run", "resetting", "recover", "ending"}
  /\ epoch \in Epochs \ {0} /\ root \in Numbers /\ resets \in Nat /\ retries \in Nat
  /\ items \in Seq(Items) /\ tasks \in Seq(Tasks) /\ orphans \subseteq Tasks
  /\ persist_q \in [Epochs -> Seq(Requests)]
  /\ persisting \in [Epochs -> PersistingRequests \cup {None}]
  /\ phase = "recover" => recovery \in Recoveries

\* Until EpochManager::start corrects it, the buffer manager's epoch may be an old one; nothing
\* is ordered before that.
BootInv ==
  /\ phase # "boot" /\ current_epoch < exec_epoch => Reported < Height \/ epoch_change_info # None
  /\ phase = "boot" =>
       /\ NoChange /\ pipe = <<>> /\ Reported = Height /\ epoch = exec_epoch
       /\ tasks = <<>> /\ orphans = {} /\ retries = 0
       /\ \A e \in Epochs : persist_q[e] = <<>> /\ persisting[e] = None
       /\ \A e \in Epochs, n \in Numbers : blocks[<<e, n>>] # None =>
            blocks[<<e, n>>].st = "Historical" /\ n = Height /\ (e < exec_epoch => n <= boundary[e])

\* Batches follow the root, in order and without overlap.
QueueInv ==
  /\ Base(epoch) <= root
  /\ \A i \in 1 .. Len(items) : root < items[i].lo /\ items[i].lo <= items[i].hi
  /\ \A i, j \in 1 .. Len(items) : i < j => items[i].hi < items[j].lo
  /\ phase # "run" => items = <<>>

TaskOK(t) ==
  /\ 1 <= t.epoch /\ t.epoch <= epoch
  /\ Base(t.epoch) < t.lo /\ t.lo <= t.next /\ t.next <= t.hi
  /\ t.pc = "done" => t.res \in ComputeResults

TaskInv ==
  /\ \A i \in 1 .. Len(tasks) : TaskOK(tasks[i]) /\ tasks[i].epoch = epoch
  /\ \A t \in orphans : TaskOK(t)
  /\ phase = "ending" => tasks = <<>> /\ retries = 0
  /\ \A e \in Epochs, n \in Numbers : blocks[<<e, n>>] # None => e <= epoch

RecoverInv ==
  phase = "recover" => /\ root < recovery.lo /\ recovery.lo <= recovery.next
                       /\ recovery.next <= recovery.hi /\ recovery.hi <= boundary[epoch]

\* The epoch-change proof names the last block, which is on disk.
ProofInv ==
  /\ proof # None => proof = boundary[epoch] /\ proof <= persisted
  /\ phase = "ending" => proof # None

LastOf(e) == <<e, boundary[e]>>
Covers(r, e) == r.lo <= boundary[e] /\ boundary[e] <= r.hi
Waits(e, keys) == LastOf(e) \in keys /\ Is(LastOf(e), "Committed")

\* The last block of the epoch was handed to set_commit_blocks: it is on disk, or the request that
\* committed it still waits for it.
InHand(e) ==
  boundary[e] <= persisted \/ (persisting[e] # None /\ Waits(e, persisting[e].waits))

RequestInv(e) ==
  /\ e > epoch \/ e = 0 => persist_q[e] = <<>> /\ persisting[e] = None
  /\ \A i \in 1 .. Len(persist_q[e]) :
       /\ persist_q[e][i].lo <= persist_q[e][i].hi
       /\ e = epoch => persist_q[e][i].hi <= root
       /\ Covers(persist_q[e][i], e) => ~Is(LastOf(e), "Committed")
       /\ persist_q[e][i].ends # None =>
            /\ persist_q[e][i].ends = boundary[e]
            /\ InHand(e) \/ \E j \in 1 .. i : Covers(persist_q[e][j], e)
  /\ \A i, j \in 1 .. Len(persist_q[e]) : i < j => persist_q[e][i].hi < persist_q[e][j].lo
  /\ persisting[e] # None /\ persisting[e].ends # None => persisting[e].ends = boundary[e] /\ InHand(e)

RootInv ==
  /\ root >= boundary[epoch] =>
       InHand(epoch) \/ \E j \in 1 .. Len(persist_q[epoch]) : Covers(persist_q[epoch][j], epoch)
  /\ root < boundary[epoch] /\ Is(LastOf(epoch), "Committed") =>
       phase = "recover" /\ recovery.pc = "wait" /\ recovery.next = boundary[epoch]
  /\ phase = "recover" /\ recovery.pc = "wait" /\ recovery.next = boundary[epoch] =>
       boundary[epoch] <= persisted \/ Waits(epoch, recovery.waits)

PersistInv == (\A e \in Epochs : RequestInv(e)) /\ RootInv

EpochInv ==
  resets = 0 /\ phase # "boot" => current_epoch = IF phase = "ending" THEN epoch + 1 ELSE epoch

GceiInv ==
  /\ RethInv /\ PipelineTypeInv /\ BootInv /\ QueueInv /\ TaskInv /\ RecoverInv /\ ProofInv
  /\ Running => PersistInv
  /\ EpochInv

----------------------------------------------------------------------------
(* Consensus: the initial states and what a step leaves alone *)

LEMMA EpochFacts ==
  ASSUME PipelineTypeInv, boundary \in Boundaries
  PROVE  /\ epoch \in Epochs /\ epoch \in Nat /\ epoch >= 1 /\ root \in Numbers /\ root \in Nat
         /\ boundary[epoch] \in Nat /\ boundary[epoch] >= 1
  BY BoundaryFacts, NumberFacts DEF PipelineTypeInv

LEMMA GceiInit == Init => GceiInv
  <1>. SUFFICES ASSUME Init PROVE GceiInv
    OBVIOUS
  <1>1. PICK s \in Starts :
          /\ s.epoch <= MaxEpoch
          /\ s.epoch = 1 => s.number < boundary[1]
          /\ s.epoch = 2 => s.number = boundary[1]
          /\ InitBuffer(s.number, s.id_epoch, Id(s.id_epoch, s.number), s.db_epoch)
          /\ InitReth(s.number, s.epoch)
          /\ InitPipeline(s.number, s.epoch)
    BY DEF Init
  <1>2. /\ s.number \in {0, 1} /\ s.epoch \in {1, 2} /\ s.id_epoch = s.number
        /\ (s.epoch = 2 => s.number = 1)
    BY DEF Starts
  <1>3. /\ s.number \in Numbers /\ s.epoch \in Epochs \ {0} /\ boundary \in Boundaries
        /\ s.epoch \in Epochs /\ s.id_epoch \in Epochs
    <2>1. s.epoch <= MaxEpoch
      BY <1>1
    <2>. QED  BY <1>2, <2>1, NumberFacts DEF Init
  <1>4. RethInv
    BY RethInit
  <1>5. /\ phase = "boot" /\ epoch = s.epoch /\ root = s.number /\ items = <<>> /\ tasks = <<>>
        /\ retries = 0 /\ orphans = {} /\ persist_q = [x \in Epochs |-> <<>>]
        /\ persisting = [x \in Epochs |-> None] /\ proof = None /\ resets = 0
    BY <1>1 DEF InitPipeline
  <1>6. PipelineTypeInv
    <2>1. items \in Seq(Items) /\ tasks \in Seq(Tasks)
      BY <1>5
    <2>2. persist_q \in [Epochs -> Seq(Requests)]
      BY <1>5
    <2>. QED  BY <1>3, <1>5, <2>1, <2>2 DEF PipelineTypeInv
  <1>7. /\ Height = s.number /\ Reported = Height /\ pipe = <<>> /\ exec_epoch = s.epoch
    <2>1. executed = [n \in 1 .. s.number |-> Id(1, n)] /\ s.number \in Nat
      BY <1>1, <1>2 DEF InitReth
    <2>2. Len(executed) = s.number
      BY <2>1
    <2>3. results = <<>> /\ vote = None /\ pipe = <<>> /\ exec_epoch = s.epoch
      BY <1>1 DEF InitReth
    <2>. QED  BY <2>1, <2>2, <2>3 DEF Height, Reported
  <1>8. \A e \in Epochs, n \in Numbers : blocks[<<e, n>>] =
          IF e = s.id_epoch /\ n = s.number THEN Historical(<<e, n>>) ELSE None
    BY <1>1, <1>3, KeyFacts DEF InitBuffer, Id
  <1>9. s.number < boundary[s.epoch] /\ boundary[s.epoch] \in Nat /\ boundary[1] >= 1
        /\ (s.epoch = 2 => boundary[1] = s.number) /\ boundary[0] = 1
    <2>1. boundary[1] \in Nat /\ boundary[1] >= 1 /\ boundary[s.epoch] \in Nat /\ 1 \in Epochs /\ boundary[0] = 1
      BY <1>3, BoundaryFacts, NumberFacts DEF Boundaries
    <2>2. CASE s.epoch = 1
      BY <1>1, <2>1, <2>2
    <2>3. CASE s.epoch = 2
      <3>1. boundary[1] = s.number /\ s.number <= MaxBlock
        BY <1>1, <1>3, <2>3, NumberFacts
      <3>. QED  BY <1>3, <2>1, <2>3, <3>1, BoundaryFacts
    <2>. QED  BY <1>2, <2>2, <2>3
  <1>10. BootInv
    <2>1. NoChange
      BY <1>1 DEF InitBuffer, NoChange
    <2>2. ASSUME NEW e \in Epochs, NEW n \in Numbers, blocks[<<e, n>>] # None
          PROVE  blocks[<<e, n>>].st = "Historical" /\ n = Height /\ (e < exec_epoch => n <= boundary[e])
      <3>1. e = s.number /\ n = s.number /\ blocks[<<e, n>>] = Historical(<<e, n>>)
        BY <1>2, <1>8, <2>2
      <3>2. n <= boundary[e]
        BY <3>1, <1>2, <1>9
      <3>. QED  BY <3>1, <3>2, <1>7 DEF Historical
    <2>3. \A e \in Epochs : persist_q[e] = <<>> /\ persisting[e] = None
      BY <1>5
    <2>. QED  BY <1>5, <1>7, <2>1, <2>2, <2>3 DEF BootInv
  <1>11. QueueInv
    <2>1. Base(epoch) <= root
      BY <1>2, <1>5, <1>9 DEF Base
    <2>. QED  BY <1>5, <2>1 DEF QueueInv
  <1>12. TaskInv /\ RecoverInv /\ ProofInv /\ EpochInv
    <2>1. \A e \in Epochs, n \in Numbers : blocks[<<e, n>>] # None => e <= epoch
      BY <1>2, <1>5, <1>8
    <2>. QED  BY <1>5, <2>1 DEF TaskInv, RecoverInv, ProofInv, EpochInv
  <1>13. PersistInv
    <2>1. \A e \in Epochs : persist_q[e] = <<>> /\ persisting[e] = None /\ Len(persist_q[e]) = 0
      BY <1>5
    <2>2. \A e \in Epochs : RequestInv(e)
      BY <2>1 DEF RequestInv
    <2>3. ~Is(LastOf(epoch), "Committed")
      <3>1. SUFFICES ASSUME boundary[epoch] \in Numbers, blocks[<<epoch, boundary[epoch]>>] # None
                     PROVE blocks[<<epoch, boundary[epoch]>>].st # "Committed"
        BY KeyFacts DEF LastOf, Is, Present
      <3>2. blocks[<<epoch, boundary[epoch]>>] = Historical(<<epoch, boundary[epoch]>>)
        BY <1>3, <1>5, <1>8, <3>1
      <3>. QED  BY <3>2 DEF Historical
    <2>4. RootInv
      BY <2>3, <1>2, <1>5, <1>9 DEF RootInv
    <2>. QED  BY <2>2, <2>4 DEF PersistInv
  <1>. QED  BY <1>4, <1>6, <1>10, <1>11, <1>12, <1>13 DEF GceiInv

\* Once started, the buffer manager's epoch is behind reth's only until release_inflight_blocks.
LEMMA NotEarly == ASSUME BootInv, phase # "boot" PROVE ~Early
  <1>. SUFFICES ASSUME Early PROVE FALSE
    OBVIOUS
  <1>1. Idle /\ current_epoch < exec_epoch
    BY DEF Early
  <1>2. Reported = Height /\ epoch_change_info = None /\ Reported < Height
    BY <1>1 DEF BootInv, Idle, NoChange
  <1>. QED  BY <1>2 DEF Height

LEMMA PersistFrame ==
  ASSUME PersistInv, LastKept, persisted \in Nat, persisted' \in Nat, persisted' >= persisted,
         boundary \in Boundaries, PipelineTypeInv,
         UNCHANGED <<boundary, persist_q, persisting, epoch, root, phase, recovery>>
  PROVE  PersistInv'
  <1>1. \A e \in Epochs : boundary[e] \in Nat
    BY BoundaryFacts
  <1>2. ASSUME NEW e \in Epochs PROVE InHand(e) => InHand(e)'
    <2>1. boundary[e] <= persisted => boundary[e] <= persisted'
      BY <1>1
    <2>2. ASSUME persisting[e] # None, Waits(e, persisting[e].waits)
          PROVE  InHand(e)'
      <3>1. Is(<<e, boundary[e]>>, "Committed") /\ <<e, boundary[e]>> \in persisting[e].waits
        BY <2>2 DEF Waits, LastOf
      <3>2. Is(<<e, boundary[e]>>, "Committed")' \/ boundary[e] <= persisted
        BY <3>1 DEF LastKept
      <3>. QED  BY <2>1, <2>2, <3>1, <3>2 DEF InHand, Waits, LastOf
    <2>. QED  BY <2>1, <2>2 DEF InHand
  <1>3. ASSUME NEW e \in Epochs PROVE Is(LastOf(e), "Committed")' => Is(LastOf(e), "Committed")
    BY DEF LastKept, LastOf
  <1>4. ASSUME NEW e \in Epochs PROVE RequestInv(e)'
    <2>1. RequestInv(e)
      BY DEF PersistInv
    <2>2. \A r : Covers(r, e)' <=> Covers(r, e)
      BY DEF Covers
    <2>. QED  BY <1>2, <1>3, <2>1, <2>2 DEF RequestInv, Covers
  <1>5. RootInv'
    <2>1. RootInv /\ epoch \in Epochs
      BY DEF PersistInv, PipelineTypeInv
    <2>2. Waits(epoch, recovery.waits) => Waits(epoch, recovery.waits)' \/ boundary[epoch] <= persisted
      BY <2>1 DEF Waits, LastOf, LastKept
    <2>3. boundary[epoch] <= persisted => boundary[epoch] <= persisted'
      BY <1>1, <2>1
    <2>4. Is(LastOf(epoch), "Committed")' => Is(LastOf(epoch), "Committed")
      BY <1>3, <2>1
    <2>5. InHand(epoch) => InHand(epoch)'
      BY <1>2, <2>1
    <2>. QED  BY <2>1, <2>2, <2>3, <2>4, <2>5 DEF RootInv, Covers
  <1>. QED  BY <1>4, <1>5 DEF PersistInv

----------------------------------------------------------------------------
(* reth's steps *)

\* What reth may change of what consensus relies on.
LEMMA RethFrame ==
  ASSUME GceiInv, UNCHANGED <<pipelineVars, boundary, current_epoch>>, RethInv', BootInv', LastKept,
         persisted' >= persisted,
         \A d \in Epochs, m \in Numbers : blocks'[<<d, m>>] # None => blocks[<<d, m>>] # None
  PROVE  GceiInv'
  <1>u. UNCHANGED <<phase, epoch, root, items, execution_root, tasks, retries, orphans, end_seen, persist_q,
                    persisting, recovery, proof, panics, timeouts, resets, boundary, current_epoch>>
    BY DEF pipelineVars, queueVars
  <1>. USE <1>u
  <1>1. persisted \in Nat /\ persisted' \in Nat /\ boundary \in Boundaries
    BY NumberFacts DEF GceiInv, RethInv, TypeInv
  <1>2. PipelineTypeInv'
    BY DEF GceiInv, PipelineTypeInv
  <1>3. QueueInv' /\ RecoverInv' /\ EpochInv'
    BY DEF GceiInv, QueueInv, RecoverInv, EpochInv, Base
  <1>4. TaskInv'
    <2>1. \A t : TaskOK(t)' <=> TaskOK(t)
      BY DEF TaskOK, Base
    <2>. QED  BY <2>1 DEF GceiInv, TaskInv, TaskOK, Base
  <1>5. ProofInv'
    <2>1. epoch \in Epochs /\ boundary[epoch] \in Nat
      BY <1>1, EpochFacts DEF GceiInv
    <2>. QED  BY <1>1, <2>1 DEF GceiInv, ProofInv
  <1>6. Running' => PersistInv'
    BY <1>1, PersistFrame DEF GceiInv, Running
  <1>. QED  BY <1>2, <1>3, <1>4, <1>5, <1>6 DEF GceiInv

\* A step of reth that leaves the map alone.
LEMMA QuietStep ==
  ASSUME GceiInv, UNCHANGED <<pipelineVars, boundary, current_epoch, blocks>>, RethInv', persisted' >= persisted,
         UNCHANGED <<executed, results, vote, exec_epoch, epoch_change_info, pipe>>, NoChange => NoChange'
  PROVE  GceiInv'
  <1>1. LastKept /\ \A d \in Epochs, m \in Numbers : blocks'[<<d, m>>] # None => blocks[<<d, m>>] # None
    BY DEF LastKept, Is, Present
  <1>2. BootInv'
    <2>1. Reported' = Reported /\ Height' = Height
      BY ReportedFrame
    <2>2. UNCHANGED <<phase, epoch, tasks, orphans, retries, persist_q, persisting>>
      BY DEF pipelineVars, queueVars
    <2>. QED  BY <2>1, <2>2 DEF GceiInv, BootInv
  <1>. QED  BY <1>1, <1>2, RethFrame

\* In the boot phase reth has nothing to do but start.
LEMMA BootFacts ==
  ASSUME GceiInv, phase = "boot"
  PROVE  /\ pipe = <<>> /\ results = <<>> /\ vote = None
         /\ \A e \in Epochs, n \in Numbers, st \in {"Ordered", "Computed", "Committed"} : ~Is(<<e, n>>, st)
  <1>1. TypeInv /\ BootInv
    BY DEF GceiInv, RethInv
  <1>2. Reported = Height /\ pipe = <<>>
    BY <1>1 DEF BootInv
  <1>3. Len(results) = 0 /\ vote = None
    <2>1. Len(results) \in Nat /\ Height \in Nat
      BY <1>1, Counts
    <2>. QED  BY <1>2, <2>1 DEF Reported
  <1>4. results = <<>>
    BY <1>1, <1>3 DEF TypeInv
  <1>. QED  BY <1>1, <1>2, <1>3, <1>4 DEF BootInv, Is, Present

LEMMA RethSteps == ASSUME GceiInv, RethNext, UNCHANGED pipelineVars PROVE GceiInv'
  <1>0. RethInv /\ TypeInv /\ StageInv /\ BlockInv /\ BootInv
    BY DEF GceiInv, RethInv
  <1>p. persisted \in Nat /\ persisted >= persisted
    BY <1>0, Counts
  <1>q. UNCHANGED <<phase, epoch, tasks, orphans, retries, persist_q, persisting>>
    BY DEF pipelineVars, queueVars
  <1>1. CASE StartExecution
    BY <1>1, <1>0, <1>p, StartExecutionStep, QuietStep DEF StartExecution, bufferVars, pipeVars, NoChange
  <1>2. CASE NoticeEpochChange
    BY <1>2, <1>0, <1>p, NoticeEpochChangeStep, QuietStep DEF NoticeEpochChange, bufferVars, pipeVars, NoChange
  <1>3. CASE Consume
    BY <1>3, <1>0, <1>p, ConsumeStep, QuietStep DEF Consume, ConsumeEpochChange, pipeVars, NoChange
  <1>4. CASE SwapEpoch
    BY <1>4, <1>0, <1>p, SwapEpochStep, QuietStep DEF SwapEpoch, bufferVars, pipeVars, NoChange
  <1>5. CASE LoadCommitEpoch
    BY <1>5, <1>0, <1>p, LoadCommitEpochStep, QuietStep DEF LoadCommitEpoch, bufferVars, pipeVars, NoChange
  <1>6. CASE CommitTimeout
    BY <1>6, <1>0, <1>p, CommitTimeoutStep, QuietStep DEF CommitTimeout, bufferVars, pipeVars, NoChange
  <1>7. CASE CommitSetState
    BY <1>7, <1>0, <1>p, CommitSetStateStep, QuietStep DEF CommitSetState, SetState, pipeVars, NoChange
  <1>8. CASE NotifyPersisted
    BY <1>8, <1>0, <1>p, NotifyPersistedStep, QuietStep DEF NotifyPersisted, bufferVars, pipeVars, NoChange
  <1>9. CASE PersistBlock
    <2>1. persisted' >= persisted
      BY <1>9, <1>p DEF PersistBlock
    <2>. QED  BY <1>9, <1>0, <2>1, PersistBlockStep, QuietStep DEF PersistBlock, bufferVars, NoChange
  <1>10. CASE FetchOrdered
    <2>1. phase # "boot"
      <3>. SUFFICES ASSUME phase = "boot" PROVE FALSE
        OBVIOUS
      <3>1. PICK n \in OrderedRun(start_ordered_block, reth_epoch) : TRUE
        BY <1>10 DEF FetchOrdered
      <3>2. n \in Numbers /\ n >= start_ordered_block /\ \A m \in start_ordered_block .. n : Is(<<reth_epoch, m>>, "Ordered")
        BY <3>1 DEF OrderedRun, RunFrom
      <3>3. n \in start_ordered_block .. n /\ reth_epoch \in Epochs
        BY <1>0, <3>2, Counts, NumberFacts DEF TypeInv
      <3>. QED  BY <3>2, <3>3, BootFacts
    <2>2. RethInv'
      BY <1>0, <1>10, <2>1, NotEarly, FetchOrderedStep
    <2>u. UNCHANGED <<boundary, current_epoch, blocks, persisted, executed, results, vote, exec_epoch, epoch_change_info>>
      BY <1>10 DEF FetchOrdered, bufferVars
    <2>3. BootInv'
      BY <1>0, <1>q, <2>1, <2>u, ReportedFrame DEF BootInv
    <2>4. LastKept /\ \A d \in Epochs, m \in Numbers : blocks'[<<d, m>>] # None => blocks[<<d, m>>] # None
      BY <2>u DEF LastKept, Is, Present
    <2>. QED  BY <1>p, <2>u, <2>2, <2>3, <2>4, RethFrame
  <1>11. CASE ReceiveResult
    <2>1. phase # "boot"
      BY <1>11, BootFacts DEF ReceiveResult
    <2>2. RethInv'
      BY <1>0, <1>11, ReceiveResultStep
    <2>u. UNCHANGED <<boundary, current_epoch, blocks, persisted, executed, exec_epoch, epoch_change_info>>
      BY <1>11 DEF ReceiveResult, bufferVars
    <2>3. Reported' = Reported /\ Height' = Height
      <3>1. vote = None /\ vote' # None
        <4>1. Head(results) \in RethResults /\ reth_epoch \in Epochs
          BY <1>0, <1>11 DEF ReceiveResult, TypeInv
        <4>2. vote' \in Votes
          BY <1>11, <4>1 DEF ReceiveResult, Votes, RethResults
        <4>. QED  BY <1>11, <4>2, VoteNoneAssumption DEF ReceiveResult
      <3>2. Len(results') = Len(results) - 1 /\ Len(results) \in Nat
        BY <1>0, <1>11 DEF ReceiveResult, TypeInv
      <3>3. Height \in Nat
        BY <1>0, Counts
      <3>. QED  BY <2>u, <3>1, <3>2, <3>3 DEF Reported, Height
    <2>4. BootInv'
      BY <1>0, <1>q, <2>1, <2>u, <2>3 DEF BootInv
    <2>5. LastKept /\ \A d \in Epochs, m \in Numbers : blocks'[<<d, m>>] # None => blocks[<<d, m>>] # None
      BY <2>u DEF LastKept, Is, Present
    <2>. QED  BY <1>p, <2>u, <2>2, <2>4, <2>5, RethFrame
  <1>12. CASE ReportResult
    <2>1. phase # "boot"
      BY <1>12, BootFacts DEF ReportResult
    <2>u. UNCHANGED <<boundary, current_epoch, persisted, executed, exec_epoch>>
      BY <1>12 DEF ReportResult, SetComputeRes, pipeVars, bufferVars
    <2>2. BootInv'
      BY <1>0, <1>q, <1>12, <2>1, <2>u, ReportResultStep DEF BootInv
    <2>. QED  BY <1>0, <1>p, <1>12, <2>u, <2>2, ReportResultStep, RethFrame
  <1>13. CASE FetchCommitted
    <2>1. phase # "boot"
      <3>. SUFFICES ASSUME phase = "boot" PROVE FALSE
        OBVIOUS
      <3>1. PICK n \in CommittedRun(start_commit_num, commit_epoch) : TRUE
        BY <1>13 DEF FetchCommitted
      <3>2. n \in Numbers /\ n >= start_commit_num /\ \A m \in start_commit_num .. n : Is(<<commit_epoch, m>>, "Committed")
        BY <3>1 DEF CommittedRun, RunFrom
      <3>3. start_commit_num \in Nat
        BY <1>0, Counts DEF RethInv, CommitInv
      <3>4. n \in start_commit_num .. n /\ commit_epoch \in Epochs
        BY <1>0, <3>2, <3>3, NumberFacts DEF TypeInv
      <3>. QED  BY <3>2, <3>4, BootFacts
    <2>u. UNCHANGED <<boundary, current_epoch, persisted, executed, exec_epoch, results, vote, epoch_change_info>>
      BY <1>13 DEF FetchCommitted, GetCommittedBlocks
    <2>2. BootInv'
      BY <1>0, <1>q, <2>1, <2>u, ReportedFrame DEF BootInv
    <2>3. RethInv' /\ \A e \in Epochs, n \in Numbers :
              \/ blocks'[<<e, n>>] = blocks[<<e, n>>]
              \/ /\ blocks[<<e, n>>] # None /\ blocks[<<e, n>>].st = "Committed"
                 /\ blocks'[<<e, n>>] = Committed(blocks[<<e, n>>].id, blocks[<<e, n>>].res, FALSE)
      BY <1>0, <1>13, FetchCommittedStep
    <2>4. \A d \in Epochs, m \in Numbers : blocks'[<<d, m>>] # None => blocks[<<d, m>>] # None
      BY <2>3
    <2>5. LastKept
      <3>. SUFFICES ASSUME NEW e \in Epochs
                    PROVE  /\ Is(<<e, boundary[e]>>, "Committed") => Is(<<e, boundary[e]>>, "Committed")'
                           /\ Is(<<e, boundary[e]>>, "Committed")' => Is(<<e, boundary[e]>>, "Committed")
        BY DEF LastKept
      <3>1. ASSUME Is(<<e, boundary[e]>>, "Committed") PROVE Is(<<e, boundary[e]>>, "Committed")'
        <4>1. boundary[e] \in Numbers /\ <<e, boundary[e]>> \in Keys /\ blocks[<<e, boundary[e]>>] # None
              /\ blocks[<<e, boundary[e]>>].st = "Committed"
          BY <3>1, KeyFacts DEF Is, Present
        <4>2. CASE blocks'[<<e, boundary[e]>>] = blocks[<<e, boundary[e]>>]
          BY <4>1, <4>2, <2>u DEF Is, Present
        <4>3. CASE blocks'[<<e, boundary[e]>>] = Committed(blocks[<<e, boundary[e]>>].id, blocks[<<e, boundary[e]>>].res, FALSE)
          <5>1. StateOK(e, boundary[e])
            BY <1>0, <4>1 DEF BlockInv
          <5>2. blocks[<<e, boundary[e]>>].id \in Keys
            BY <4>1, <5>1 DEF StateOK
          <5>3. blocks[<<e, boundary[e]>>].res \in ComputeResults
            BY <1>0, <4>1, LastExecuted, ResultFacts DEF Present
          <5>4. blocks'[<<e, boundary[e]>>] # None
            BY <4>3, <5>2, <5>3, StateFacts
          <5>5. blocks'[<<e, boundary[e]>>].st = "Committed"
            BY <4>3 DEF Committed
          <5>. QED  BY <4>1, <5>4, <5>5, <2>u DEF Is, Present
        <4>. QED  BY <2>3, <4>1, <4>2, <4>3
      <3>2. ASSUME Is(<<e, boundary[e]>>, "Committed")' PROVE Is(<<e, boundary[e]>>, "Committed")
        <4>1. boundary[e] \in Numbers /\ <<e, boundary[e]>> \in Keys /\ blocks'[<<e, boundary[e]>>] # None
              /\ blocks'[<<e, boundary[e]>>].st = "Committed"
          BY <3>2, <2>u, KeyFacts DEF Is, Present
        <4>. QED  BY <2>3, <4>1 DEF Is, Present
      <3>. QED  BY <3>1, <3>2
    <2>. QED  BY <1>p, <2>u, <2>2, <2>3, <2>4, <2>5, RethFrame
  <1>14. CASE ExecuteBlock
    <2>1. phase # "boot"
      BY <1>14, BootFacts DEF ExecuteBlock
    <2>2. RethInv'
      BY <1>0, <1>14, ExecuteBlockStep
    <2>u. UNCHANGED <<boundary, current_epoch, blocks, persisted, vote>>
      BY <1>14 DEF ExecuteBlock, bufferVars
    <2>3. Reported' < Height'
      <3>1. Height' \in Nat /\ Len(results') = Len(results) + 1 /\ Len(results) \in Nat
        <4>1. TypeInv'
          BY <2>2 DEF RethInv
        <4>2. Height' \in Nat /\ Len(results)' \in Nat
          BY <4>1 DEF TypeInv, Height
        <4>3. PICK r : results' = Append(results, r)
          BY <1>14 DEF ExecuteBlock
        <4>4. results \in Seq(RethResults) /\ results' \in Seq(RethResults)
          BY <1>0, <4>1 DEF TypeInv
        <4>5. Len(results') = Len(results) + 1
          BY <4>3, <4>4
        <4>. QED  BY <4>2, <4>4, <4>5
      <3>. QED  BY <3>1 DEF Reported, Height
    <2>4. BootInv'
      BY <1>q, <2>1, <2>3 DEF BootInv
    <2>5. LastKept /\ \A d \in Epochs, m \in Numbers : blocks'[<<d, m>>] # None => blocks[<<d, m>>] # None
      BY <2>u DEF LastKept, Is, Present
    <2>. QED  BY <1>p, <2>u, <2>2, <2>4, <2>5, RethFrame
  <1>15. CASE DiscardStaleBlock
    <2>1. phase # "boot"
      BY <1>15, BootFacts DEF DiscardStaleBlock
    <2>2. RethInv'
      BY <1>0, <1>15, DiscardStaleBlockStep
    <2>u. UNCHANGED <<boundary, current_epoch, blocks, persisted, executed, results, vote, exec_epoch, epoch_change_info>>
      BY <1>15 DEF DiscardStaleBlock, bufferVars
    <2>3. BootInv'
      BY <1>0, <1>q, <2>1, <2>u, ReportedFrame DEF BootInv
    <2>4. LastKept /\ \A d \in Epochs, m \in Numbers : blocks'[<<d, m>>] # None => blocks[<<d, m>>] # None
      BY <2>u DEF LastKept, Is, Present
    <2>. QED  BY <1>p, <2>u, <2>2, <2>3, <2>4, RethFrame
  <1>. QED
    BY <1>1, <1>2, <1>3, <1>4, <1>5, <1>6, <1>7, <1>8, <1>9, <1>10, <1>11, <1>12, <1>13, <1>14, <1>15 DEF RethNext

\* Cleanup drops blocks below the finalized one only.
LEMMA CleanupKeeps == ASSUME GceiInv, Cleanup PROVE GceiInv'
  <1>0. RethInv /\ TypeInv /\ BootInv /\ latest_finalized <= persisted
    BY DEF GceiInv, RethInv, CommitInv
  <1>1. RethInv'
    BY <1>0, CleanupStep
  <1>u. UNCHANGED <<pipelineVars, boundary, current_epoch, persisted, executed, results, vote, exec_epoch,
                    epoch_change_info, pipe>>
    BY DEF Cleanup, RemoveCommittedBlocks, rethVars, pipeVars
  <1>2. \A d \in Epochs, m \in Numbers :
          blocks'[<<d, m>>] = IF m >= latest_finalized THEN blocks[<<d, m>>] ELSE None
    BY KeyFacts DEF Cleanup, RemoveCommittedBlocks
  <1>3. \A d \in Epochs, m \in Numbers : blocks'[<<d, m>>] # None => blocks'[<<d, m>>] = blocks[<<d, m>>]
    BY <1>2
  <1>4. BootInv'
    <2>1. Reported' = Reported /\ Height' = Height
      BY <1>u, ReportedFrame
    <2>2. UNCHANGED <<phase, epoch, tasks, orphans, retries, persist_q, persisting>>
      BY <1>u DEF pipelineVars, queueVars
    <2>3. NoChange => NoChange'
      BY DEF Cleanup, RemoveCommittedBlocks, NoChange
    <2>. QED  BY <1>0, <1>u, <1>3, <2>1, <2>2, <2>3 DEF BootInv
  <1>5. LastKept
    <2>. SUFFICES ASSUME NEW e \in Epochs
                  PROVE  /\ Is(<<e, boundary[e]>>, "Committed") =>
                              Is(<<e, boundary[e]>>, "Committed")' \/ boundary[e] <= persisted
                         /\ Is(<<e, boundary[e]>>, "Committed")' => Is(<<e, boundary[e]>>, "Committed")
      BY DEF LastKept
    <2>1. CASE boundary[e] \in Numbers
      <3>1. boundary[e] \in Nat /\ latest_finalized \in Nat /\ persisted \in Nat
        BY <1>0, <2>1, Counts, NumberFacts
      <3>2. CASE boundary[e] >= latest_finalized
        <4>1. blocks'[<<e, boundary[e]>>] = blocks[<<e, boundary[e]>>]
          BY <1>2, <2>1, <3>2
        <4>. QED  BY <4>1, <1>u DEF Is, Present
      <3>3. CASE ~(boundary[e] >= latest_finalized)
        <4>1. blocks'[<<e, boundary[e]>>] = None /\ boundary[e] <= persisted
          BY <1>0, <1>2, <2>1, <3>1, <3>3
        <4>. QED  BY <4>1, <1>u DEF Is, Present
      <3>. QED  BY <3>2, <3>3
    <2>2. CASE boundary[e] \notin Numbers
      BY <2>2, <1>u, KeyFacts DEF Is, Present
    <2>. QED  BY <2>1, <2>2
  <1>6. persisted' >= persisted
    BY <1>0, <1>u, Counts
  <1>. QED  BY <1>1, <1>u, <1>3, <1>4, <1>5, <1>6, RethFrame

----------------------------------------------------------------------------
(* Consensus' steps: ordering and execution *)

LEMMA BootKept ==
  ASSUME BootInv, phase # "boot", phase' # "boot",
         UNCHANGED <<current_epoch, exec_epoch, executed, results, vote, epoch_change_info>>
  PROVE  BootInv'
  BY ReportedFrame DEF BootInv

\* The pieces of the invariant a step of the queue of tasks may disturb.
LEMMA QueueFrame ==
  ASSUME GceiInv, RethInv', LastKept, BootInv', PipelineTypeInv', QueueInv', TaskInv',
         UNCHANGED <<persisted, boundary, current_epoch, phase, epoch, root, persist_q, persisting, recovery,
                     proof, resets>>,
         Running
  PROVE  GceiInv'
  <1>1. persisted \in Nat /\ persisted' \in Nat /\ boundary \in Boundaries /\ persisted' >= persisted
    <2>1. persisted \in Nat /\ boundary \in Boundaries
      BY NumberFacts DEF GceiInv, RethInv, TypeInv
    <2>. QED  BY <2>1
  <1>2. PersistInv'
    BY <1>1, PersistFrame DEF GceiInv
  <1>3. RecoverInv' /\ ProofInv' /\ EpochInv'
    BY DEF GceiInv, RecoverInv, ProofInv, EpochInv
  <1>. QED  BY <1>2, <1>3 DEF GceiInv

LEMMA NewTask ==
  ASSUME PipelineTypeInv, boundary \in Boundaries, QueueInv, NEW lo \in Numbers, NEW hi \in Numbers,
         root < lo, lo <= hi
  PROVE  Task(lo, hi) \in Tasks /\ TaskOK(Task(lo, hi)) /\ Task(lo, hi).epoch = epoch
  <1>1. epoch \in Epochs /\ epoch \in Nat /\ epoch >= 1 /\ root \in Nat /\ Base(epoch) <= root
    BY EpochFacts DEF QueueInv
  <1>2. Base(epoch) \in Nat
    <2>1. CASE epoch = 1
      BY <2>1 DEF Base
    <2>2. CASE epoch # 1
      BY <1>1, <2>2, BoundaryFacts, NumberFacts DEF Base
    <2>. QED  BY <2>1, <2>2
  <1>3. Task(lo, hi) \in Tasks
    BY <1>1 DEF Task, Tasks
  <1>4. TaskOK(Task(lo, hi))
    <2>1. lo \in Nat /\ hi \in Nat
      BY NumberFacts
    <2>. QED  BY <1>1, <1>2, <2>1 DEF TaskOK, Task
  <1>. QED  BY <1>3, <1>4 DEF Task

\* The batches end where consensus goes on ordering.
LEMMA LastOrderedFacts ==
  ASSUME PipelineTypeInv, QueueInv
  PROVE  /\ LastOrdered \in Numbers /\ root <= LastOrdered
         /\ \A i \in 1 .. Len(items) : items[i].hi <= LastOrdered
  <1>1. root \in Nat /\ root \in Numbers /\ items \in Seq(Items)
    BY NumberFacts DEF PipelineTypeInv
  <1>2. CASE items = <<>>
    BY <1>1, <1>2 DEF LastOrdered
  <1>3. CASE items # <<>>
    <2>1. Len(items) \in Nat /\ Len(items) \in 1 .. Len(items) /\ LastOrdered = items[Len(items)].hi
      BY <1>1, <1>3 DEF LastOrdered, Last
    <2>2. \A i \in 1 .. Len(items) : items[i].lo \in Nat /\ items[i].hi \in Nat /\ items[i].hi \in Numbers
      <3>1. \A i \in 1 .. Len(items) : items[i] \in Items
        BY <1>1
      <3>. QED  BY <3>1, NumberFacts DEF Items
    <2>3. ASSUME NEW i \in 1 .. Len(items) PROVE items[i].hi <= items[Len(items)].hi
      <3>1. CASE i = Len(items)
        BY <2>2, <3>1
      <3>2. CASE i < Len(items)
        <4>1. items[i].hi < items[Len(items)].lo /\ items[Len(items)].lo <= items[Len(items)].hi
          BY <2>1, <3>2 DEF QueueInv
        <4>. QED  BY <2>1, <2>2, <4>1
      <3>. QED  BY <2>1, <3>1, <3>2
    <2>4. root < items[Len(items)].lo /\ items[Len(items)].lo <= items[Len(items)].hi
      BY <2>1 DEF QueueInv
    <2>. QED  BY <1>1, <2>1, <2>2, <2>3, <2>4
  <1>. QED  BY <1>2, <1>3

LEMMA OrderBatchStep == ASSUME GceiInv, Running, OrderBatch PROVE GceiInv'
  <1>0. RethInv /\ TypeInv /\ BootInv /\ PipelineTypeInv /\ QueueInv /\ TaskInv /\ boundary \in Boundaries
    BY DEF GceiInv, RethInv, TypeInv
  <1>1. PICK hi \in LastOrdered + 1 .. LastOrdered + MaxBatch :
          /\ hi <= MaxBlock
          /\ items' = Append(items, [lo |-> LastOrdered + 1, hi |-> hi, info |-> None])
          /\ tasks' = Append(tasks, Task(LastOrdered + 1, hi))
    BY DEF OrderBatch
  <1>u. /\ UNCHANGED <<bufferVars, rethVars, phase, epoch, root, retries, orphans, end_seen, persist_q,
                       persisting, recovery, proof, panics, timeouts, resets>>
        /\ phase = "run"
    BY DEF OrderBatch
  <1>v. UNCHANGED <<current_epoch, exec_epoch, executed, results, vote, epoch_change_info, blocks, persisted,
                    boundary>>
    BY <1>u DEF bufferVars, rethVars, pipeVars
  <1>2. RethInv' /\ LastKept
    BY <1>0, <1>u, UnchangedStep
  <1>3. BootInv'
    BY <1>0, <1>u, <1>v, BootKept
  <1>4. PICK lo \in Numbers : /\ lo = LastOrdered + 1 /\ hi \in Numbers /\ lo <= hi /\ root < lo /\ lo \in Nat
                              /\ \A i \in 1 .. Len(items) : items[i].hi < lo
    <2>1. LastOrdered \in Nat /\ LastOrdered <= MaxBlock /\ root \in Nat /\ root <= LastOrdered
      BY <1>0, LastOrderedFacts, EpochFacts, NumberFacts
    <2>2. MaxBatch \in Nat /\ hi \in Nat /\ hi <= MaxBlock /\ LastOrdered + 1 <= hi
      BY <1>1, <2>1, PipelineAssumption
    <2>3. LastOrdered + 1 \in Numbers /\ hi \in Numbers
      BY <2>1, <2>2, NumberFacts
    <2>4. \A i \in 1 .. Len(items) : items[i].hi \in Nat
      <3>1. \A i \in 1 .. Len(items) : items[i] \in Items
        BY <1>0 DEF PipelineTypeInv
      <3>. QED  BY <3>1, NumberFacts DEF Items
    <2>. QED  BY <1>0, <2>1, <2>2, <2>3, <2>4, LastOrderedFacts
  <1>5. Task(lo, hi) \in Tasks /\ TaskOK(Task(lo, hi)) /\ Task(lo, hi).epoch = epoch
    BY <1>0, <1>4, NewTask
  <1>. DEFINE item == [lo |-> lo, hi |-> hi, info |-> None]
  <1>6. item \in Items /\ item.lo = lo /\ item.hi = hi
    BY <1>4 DEF Items
  <1>7. items' = Append(items, item) /\ tasks' = Append(tasks, Task(lo, hi))
    BY <1>1, <1>4
  <1>. HIDE DEF item
  <1>8. /\ items \in Seq(Items) /\ tasks \in Seq(Tasks)
        /\ items' \in Seq(Items) /\ tasks' \in Seq(Tasks) /\ Len(items) \in Nat /\ Len(tasks) \in Nat
        /\ Len(items') = Len(items) + 1 /\ Len(tasks') = Len(tasks) + 1
        /\ \A i \in 1 .. Len(items) : items'[i] = items[i]
        /\ \A i \in 1 .. Len(tasks) : tasks'[i] = tasks[i]
        /\ items'[Len(items) + 1] = item /\ tasks'[Len(tasks) + 1] = Task(lo, hi)
    BY <1>0, <1>5, <1>6, <1>7 DEF PipelineTypeInv
  <1>9. PipelineTypeInv'
    BY <1>0, <1>u, <1>8 DEF PipelineTypeInv
  <1>10. QueueInv'
    <2>1. ASSUME NEW i \in 1 .. Len(items') PROVE root < items'[i].lo /\ items'[i].lo <= items'[i].hi
      <3>1. CASE i \in 1 .. Len(items)
        BY <1>0, <1>8, <3>1 DEF QueueInv
      <3>2. CASE i = Len(items) + 1
        BY <1>4, <1>6, <1>8, <3>2
      <3>. QED  BY <1>8, <3>1, <3>2
    <2>2. ASSUME NEW i \in 1 .. Len(items'), NEW j \in 1 .. Len(items'), i < j PROVE items'[i].hi < items'[j].lo
      <3>1. i \in 1 .. Len(items) /\ items'[i] = items[i]
        BY <1>8, <2>2
      <3>2. CASE j \in 1 .. Len(items)
        BY <1>0, <1>8, <2>2, <3>1, <3>2 DEF QueueInv
      <3>3. CASE j = Len(items) + 1
        BY <1>4, <1>6, <1>8, <3>1, <3>3
      <3>. QED  BY <1>8, <3>2, <3>3
    <2>3. Base(epoch)' <= root'
      BY <1>0, <1>u, <1>v DEF QueueInv, Base
    <2>. QED  BY <1>u, <2>1, <2>2, <2>3 DEF QueueInv
  <1>11. TaskInv'
    <2>1. \A t : TaskOK(t)' <=> TaskOK(t)
      BY <1>u, <1>v DEF TaskOK, Base
    <2>2. ASSUME NEW i \in 1 .. Len(tasks') PROVE TaskOK(tasks'[i]) /\ tasks'[i].epoch = epoch
      <3>1. CASE i \in 1 .. Len(tasks)
        BY <1>0, <1>8, <3>1 DEF TaskInv
      <3>2. CASE i = Len(tasks) + 1
        BY <1>5, <1>8, <3>2
      <3>. QED  BY <1>8, <3>1, <3>2
    <2>3. \A i \in 1 .. Len(tasks') : TaskOK(tasks[i])' /\ tasks'[i].epoch = epoch'
      BY <1>u, <1>v, <2>2 DEF TaskOK, Base
    <2>4. \A t \in orphans' : TaskOK(t)'
      BY <1>0, <1>u, <2>1 DEF TaskInv
    <2>. QED  BY <1>0, <1>u, <1>v, <2>3, <2>4 DEF TaskInv
  <1>. QED  BY <1>u, <1>v, <1>2, <1>3, <1>9, <1>10, <1>11, QueueFrame

\* A step that moves tasks only.
LEMMA TasksStep ==
  ASSUME GceiInv, Running, RethInv', LastKept, phase # "boot",
         UNCHANGED <<current_epoch, exec_epoch, executed, results, vote, epoch_change_info, persisted, boundary>>,
         UNCHANGED <<phase, epoch, root, items, persist_q, persisting, recovery, proof, resets>>,
         \A d \in Epochs, m \in Numbers : blocks'[<<d, m>>] # None => blocks[<<d, m>>] # None \/ d <= epoch,
         tasks' \in Seq(Tasks), retries' \in Nat, orphans' \subseteq Tasks,
         \A i \in 1 .. Len(tasks') : TaskOK(tasks'[i]) /\ tasks'[i].epoch = epoch,
         \A t \in orphans' : TaskOK(t),
         phase = "ending" => tasks' = <<>> /\ retries' = 0
  PROVE  GceiInv'
  <1>0. RethInv /\ TypeInv /\ BootInv /\ PipelineTypeInv /\ QueueInv /\ TaskInv /\ boundary \in Boundaries
    BY DEF GceiInv, RethInv, TypeInv
  <1>1. BootInv'
    BY <1>0, BootKept
  <1>2. PipelineTypeInv'
    BY <1>0 DEF PipelineTypeInv
  <1>3. QueueInv'
    BY <1>0 DEF QueueInv, Base
  <1>4. TaskInv'
    <2>1. \A t : TaskOK(t)' <=> TaskOK(t)
      BY DEF TaskOK, Base
    <2>2. \A i \in 1 .. Len(tasks') : TaskOK(tasks[i])' /\ tasks'[i].epoch = epoch'
      BY DEF TaskOK, Base
    <2>3. \A d \in Epochs, m \in Numbers : blocks'[<<d, m>>] # None => d <= epoch'
      BY <1>0 DEF TaskInv
    <2>. QED  BY <2>1, <2>2, <2>3 DEF TaskInv
  <1>. QED  BY <1>1, <1>2, <1>3, <1>4, QueueFrame

LEMMA QuietTasksStep ==
  ASSUME GceiInv, Running, phase # "boot", UNCHANGED <<bufferVars, rethVars>>,
         UNCHANGED <<phase, epoch, root, items, orphans, persist_q, persisting, recovery, proof, resets>>,
         tasks' \in Seq(Tasks), retries' \in Nat,
         \A i \in 1 .. Len(tasks') : TaskOK(tasks'[i]) /\ tasks'[i].epoch = epoch,
         phase = "ending" => tasks' = <<>> /\ retries' = 0
  PROVE  GceiInv'
  <1>0. RethInv /\ TypeInv /\ PipelineTypeInv /\ TaskInv
    BY DEF GceiInv, RethInv
  <1>1. RethInv' /\ LastKept
    BY <1>0, UnchangedStep
  <1>2. UNCHANGED <<current_epoch, exec_epoch, executed, results, vote, epoch_change_info, persisted, boundary, blocks>>
    BY DEF bufferVars, rethVars, pipeVars
  <1>3. orphans' \subseteq Tasks /\ \A t \in orphans' : TaskOK(t)
    BY <1>0 DEF PipelineTypeInv, TaskInv
  <1>. QED  BY <1>1, <1>2, <1>3, TasksStep

\* There are tasks in a running phase only.
LEMMA TasksRunning == ASSUME GceiInv, tasks # <<>> PROVE phase # "boot" /\ phase # "ending"
  BY DEF GceiInv, BootInv, TaskInv

LEMMA TaskTimeoutStep == ASSUME GceiInv, Running, TaskTimeout PROVE GceiInv'
  <1>0. tasks \in Seq(Tasks) /\ retries \in Nat /\ TaskInv
    BY DEF GceiInv, PipelineTypeInv
  <1>1. PICK i \in DOMAIN tasks : tasks[i].pc = "get" /\ tasks' = [tasks EXCEPT ![i].pc = "failed"]
    BY DEF TaskTimeout
  <1>u. UNCHANGED <<bufferVars, rethVars, phase, epoch, root, items, retries, orphans,
                    persist_q, persisting, recovery, proof, resets>>
    BY DEF TaskTimeout
  <1>2. DOMAIN tasks = 1 .. Len(tasks) /\ Len(tasks) \in Nat /\ tasks[i] \in Tasks /\ tasks # <<>>
    BY <1>0, <1>1
  <1>. DEFINE t == [tasks[i] EXCEPT !.pc = "failed"]
  <1>3. t \in Tasks /\ TaskOK(t) /\ t.epoch = epoch
    <2>1. TaskOK(tasks[i]) /\ tasks[i].epoch = epoch
      BY <1>0, <1>2 DEF TaskInv
    <2>2. t \in Tasks /\ t.epoch = tasks[i].epoch /\ t.lo = tasks[i].lo /\ t.hi = tasks[i].hi
          /\ t.next = tasks[i].next /\ t.pc = "failed"
      BY <1>2 DEF Tasks
    <2>. QED  BY <2>1, <2>2 DEF TaskOK
  <1>4. tasks' = [tasks EXCEPT ![i] = t]
    BY <1>1
  <1>. HIDE DEF t
  <1>5. tasks' \in Seq(Tasks) /\ Len(tasks') = Len(tasks) /\ tasks'[i] = t
        /\ \A j \in 1 .. Len(tasks) : j # i => tasks'[j] = tasks[j]
    BY <1>0, <1>2, <1>3, <1>4
  <1>6. \A j \in 1 .. Len(tasks') : TaskOK(tasks'[j]) /\ tasks'[j].epoch = epoch
    BY <1>0, <1>3, <1>5 DEF TaskInv
  <1>. QED  BY <1>0, <1>u, <1>2, <1>5, <1>6, TasksRunning, QuietTasksStep

LEMMA ProcessExecutionFailureStep == ASSUME GceiInv, Running, ProcessExecutionFailure PROVE GceiInv'
  <1>0. tasks \in Seq(Tasks) /\ retries \in Nat /\ TaskInv
    BY DEF GceiInv, PipelineTypeInv
  <1>1. tasks # <<>> /\ tasks' = Tail(tasks) /\ retries' \in {retries, retries + 1}
    BY DEF ProcessExecutionFailure
  <1>u. UNCHANGED <<bufferVars, rethVars, phase, epoch, root, items, orphans,
                    persist_q, persisting, recovery, proof, resets>>
    BY DEF ProcessExecutionFailure
  <1>2. tasks' \in Seq(Tasks) /\ Len(tasks) \in Nat /\ Len(tasks') = Len(tasks) - 1
        /\ \A i \in 1 .. Len(tasks') : tasks'[i] = tasks[i + 1] /\ i + 1 \in 1 .. Len(tasks)
    BY <1>0, <1>1
  <1>3. \A i \in 1 .. Len(tasks') : TaskOK(tasks'[i]) /\ tasks'[i].epoch = epoch
    BY <1>0, <1>2 DEF TaskInv
  <1>4. retries' \in Nat
    BY <1>0, <1>1
  <1>. QED  BY <1>u, <1>1, <1>2, <1>3, <1>4, TasksRunning, QuietTasksStep

LEMMA RetryScheduleStep == ASSUME GceiInv, Running, RetrySchedule PROVE GceiInv'
  <1>0. /\ tasks \in Seq(Tasks) /\ items \in Seq(Items) /\ retries \in Nat /\ TaskInv /\ QueueInv
        /\ PipelineTypeInv /\ boundary \in Boundaries /\ BootInv
    BY DEF GceiInv, PipelineTypeInv, RethInv, TypeInv
  <1>u. /\ UNCHANGED <<bufferVars, rethVars, phase, epoch, root, items, orphans,
                       persist_q, persisting, recovery, proof, resets>>
        /\ retries > 0 /\ retries' = retries - 1
    BY DEF RetrySchedule
  <1>1. PICK first \in 1 .. Len(items) + 1 :
          tasks' = tasks \o [j \in 1 .. Len(items) + 1 - first |->
                               Task(items[first + j - 1].lo, items[first + j - 1].hi)]
    BY DEF RetrySchedule
  <1>2. PICK size \in Nat : size = Len(items) + 1 - first
    <2>1. Len(items) \in Nat
      BY <1>0
    <2>2. first \in Nat /\ first <= Len(items) + 1
      BY <2>1
    <2>. QED  BY <2>1, <2>2
  <1>. DEFINE again == [j \in 1 .. size |-> Task(items[first + j - 1].lo, items[first + j - 1].hi)]
  <1>3. ASSUME NEW j \in 1 .. size
        PROVE  again[j] \in Tasks /\ TaskOK(again[j]) /\ again[j].epoch = epoch
    <2>1. PICK i \in 1 .. Len(items) : i = first + j - 1
      BY <1>0, <1>1, <1>2
    <2>2. items[i] \in Items /\ root < items[i].lo /\ items[i].lo <= items[i].hi
      BY <1>0 DEF QueueInv
    <2>3. items[i].lo \in Numbers /\ items[i].hi \in Numbers
      BY <2>2 DEF Items
    <2>4. again[j] = Task(items[i].lo, items[i].hi)
      BY <2>1
    <2>. QED  BY <1>0, <2>2, <2>3, <2>4, NewTask
  <1>4. again \in Seq(Tasks) /\ Len(again) = size
    <2>1. again = [j \in 1 .. size |-> again[j]] /\ \A j \in 1 .. size : again[j] \in Tasks
      BY <1>3
    <2>. HIDE DEF again
    <2>. QED  BY <1>2, <2>1
  <1>5. tasks' = tasks \o again
    BY <1>1, <1>2
  <1>6. \A j \in 1 .. size : TaskOK(again[j]) /\ again[j].epoch = epoch
    BY <1>3
  <1>. HIDE DEF again
  <1>7. /\ tasks' \in Seq(Tasks) /\ Len(tasks') = Len(tasks) + size /\ Len(tasks) \in Nat
        /\ \A i \in 1 .. Len(tasks) : tasks'[i] = tasks[i]
        /\ \A i \in Len(tasks) + 1 .. Len(tasks') : i - Len(tasks) \in 1 .. size /\ tasks'[i] = again[i - Len(tasks)]
    BY <1>0, <1>4, <1>5, Joined
  <1>8. ASSUME NEW i \in 1 .. Len(tasks') PROVE TaskOK(tasks'[i]) /\ tasks'[i].epoch = epoch
    <2>1. CASE i \in 1 .. Len(tasks)
      BY <1>0, <1>7, <2>1 DEF TaskInv
    <2>2. CASE i \in Len(tasks) + 1 .. Len(tasks')
      BY <1>6, <1>7, <2>2
    <2>. QED  BY <1>7, <2>1, <2>2
  <1>9. phase # "boot" /\ phase # "ending" /\ retries' \in Nat
    BY <1>0, <1>u DEF BootInv, TaskInv
  <1>. QED  BY <1>u, <1>7, <1>8, <1>9, QuietTasksStep

----------------------------------------------------------------------------
(* Consensus' steps: what execution answers *)

LEMMA ResType ==
  ASSUME TypeInv, BlockInv, NEW e \in Epochs, NEW n \in Numbers,
         blocks[<<e, n>>] # None, blocks[<<e, n>>].st \in {"Computed", "Committed"}
  PROVE  blocks[<<e, n>>].res \in ComputeResults /\ e >= 1 /\ n >= 1
  <1>1. PlaceOK(e, n) /\ StateOK(e, n)
    BY DEF BlockInv
  <1>2. Answered(e, n)
    BY <1>1 DEF StateOK
  <1>3. n \in Nat /\ e \in Nat /\ Height \in Nat
    BY Counts, NumberFacts
  <1>4. n >= 1
    BY <1>2, <1>3 DEF Answered
  <1>5. e >= 1
    BY <1>1, <1>3, <1>4 DEF PlaceOK
  <1>6. NewEpoch(e, n) \in Epochs \cup {None} /\ exec_epoch \in Epochs
    BY <1>5, BoundaryFacts, NumberFacts DEF NewEpoch, TypeInv
  <1>. QED  BY <1>2, <1>4, <1>5, <1>6, ResultFacts DEF Answered

LEMMA AnswerFacts ==
  ASSUME TypeInv, StageInv, BlockInv, NEW e \in Epochs, NEW n \in Numbers
  PROVE  LET a == ExecutedRes(e, n, Id(e, n))
         IN a.kind \in {"ok", "wait", "err"} /\ (a.kind = "ok" => a.res \in ComputeResults)
  <1>. DEFINE a == ExecutedRes(e, n, Id(e, n))
  <1>1. CASE Is(<<e, n>>, "Ordered")
    <2>1. CASE IsSuffixBlock(n)
      <3>1. epoch_change_info.epoch_state = exec_epoch /\ exec_epoch \in Epochs
        BY <2>1, SuffixFacts DEF TypeInv
      <3>2. a = [kind |-> "ok", res |-> Dummy(epoch_change_info.epoch_state)]
        BY <1>1, <2>1 DEF ExecutedRes
      <3>. QED  BY <3>1, <3>2, ResultFacts
    <2>2. CASE ~IsSuffixBlock(n)
      <3>1. a = [kind |-> "wait"]
        BY <1>1, <2>2 DEF ExecutedRes
      <3>. QED  BY <3>1
    <2>. QED  BY <2>1, <2>2
  <1>2. CASE Is(<<e, n>>, "Computed") \/ Is(<<e, n>>, "Committed")
    <2>1. blocks[<<e, n>>] # None /\ blocks[<<e, n>>].st \in {"Computed", "Committed"}
      BY <1>2 DEF Is, Present
    <2>2. blocks[<<e, n>>].res \in ComputeResults
      BY <2>1, ResType
    <2>3. a = IF blocks[<<e, n>>].id = Id(e, n) THEN [kind |-> "ok", res |-> blocks[<<e, n>>].res]
                                                ELSE [kind |-> "err"]
      BY <1>2, <2>1 DEF ExecutedRes, Is, Present
    <2>. QED  BY <2>2, <2>3
  <1>3. CASE ~Is(<<e, n>>, "Ordered") /\ ~(Is(<<e, n>>, "Computed") \/ Is(<<e, n>>, "Committed"))
    <2>1. a = [kind |-> "ok", res |-> Dummy(None)] \/ a = [kind |-> "err"]
      BY <1>3 DEF ExecutedRes
    <2>2. Dummy(None) \in ComputeResults
      BY ResultFacts
    <2>. QED  BY <2>1, <2>2
  <1>. QED  BY <1>1, <1>2, <1>3

LEMMA TaskSteps ==
  ASSUME TypeInv, StageInv, BlockInv, NEW t \in Tasks, TaskOK(t)
  PROVE  /\ SetOrderedStep(t) \in Tasks /\ TaskOK(SetOrderedStep(t)) /\ SetOrderedStep(t).epoch = t.epoch
         /\ t.pc = "get" /\ Answer(t).kind # "wait" =>
              GetExecutedStep(t) \in Tasks /\ TaskOK(GetExecutedStep(t)) /\ GetExecutedStep(t).epoch = t.epoch
  <1>0. /\ t.epoch \in Epochs /\ t.next \in Numbers /\ t.hi \in Numbers /\ t.next \in Nat /\ t.hi \in Nat
        /\ t.lo \in Nat /\ t.hi <= MaxBlock
    <2>1. t.epoch \in Epochs /\ t.next \in Numbers /\ t.hi \in Numbers /\ t.lo \in Numbers
      BY DEF Tasks
    <2>. QED  BY <2>1, NumberFacts
  <1>1. SetOrderedStep(t) \in Tasks /\ TaskOK(SetOrderedStep(t)) /\ SetOrderedStep(t).epoch = t.epoch
    <2>1. SetOrderedStep(t) = [t EXCEPT !.pc = "failed"] \/ SetOrderedStep(t) = [t EXCEPT !.pc = "get"]
      BY DEF SetOrderedStep
    <2>. QED  BY <2>1 DEF Tasks, TaskOK
  <1>2. ASSUME t.pc = "get", Answer(t).kind # "wait"
        PROVE  GetExecutedStep(t) \in Tasks /\ TaskOK(GetExecutedStep(t)) /\ GetExecutedStep(t).epoch = t.epoch
    <2>1. CASE Answer(t).kind = "err"
      <3>1. GetExecutedStep(t) = [t EXCEPT !.pc = "failed"]
        BY <2>1 DEF GetExecutedStep
      <3>. QED  BY <3>1 DEF Tasks, TaskOK
    <2>2. CASE Answer(t).kind # "err"
      <3>1. PICK r \in ComputeResults : r = Answer(t).res
        BY <1>0, <1>2, <2>2, AnswerFacts DEF Answer
      <3>2. PICK b \in BOOLEAN : b = (t.reconfig \/ r.epoch_state # None)
        OBVIOUS
      <3>3. CASE t.next < t.hi
        <4>1. GetExecutedStep(t) = [t EXCEPT !.reconfig = b, !.pc = "set", !.next = t.next + 1]
          BY <2>2, <3>1, <3>2, <3>3 DEF GetExecutedStep, Tasks
        <4>2. t.next + 1 \in Numbers
          BY <1>0, <3>3, NumberFacts
        <4>3. GetExecutedStep(t) \in Tasks
          BY <3>2, <4>1, <4>2 DEF Tasks
        <4>4. /\ GetExecutedStep(t).epoch = t.epoch /\ GetExecutedStep(t).lo = t.lo
              /\ GetExecutedStep(t).hi = t.hi /\ GetExecutedStep(t).next = t.next + 1
              /\ GetExecutedStep(t).pc = "set"
          BY <4>1 DEF Tasks
        <4>5. TaskOK(GetExecutedStep(t))
          BY <1>0, <3>3, <4>4 DEF TaskOK
        <4>. QED  BY <4>3, <4>4, <4>5
      <3>4. CASE ~(t.next < t.hi)
        <4>1. GetExecutedStep(t) = [t EXCEPT !.reconfig = b, !.pc = "done", !.res = r]
          BY <2>2, <3>1, <3>2, <3>4 DEF GetExecutedStep, Tasks
        <4>2. GetExecutedStep(t) \in Tasks
          BY <3>1, <3>2, <4>1 DEF Tasks
        <4>3. /\ GetExecutedStep(t).epoch = t.epoch /\ GetExecutedStep(t).lo = t.lo
              /\ GetExecutedStep(t).hi = t.hi /\ GetExecutedStep(t).next = t.next
              /\ GetExecutedStep(t).res = r
          BY <4>1 DEF Tasks
        <4>4. TaskOK(GetExecutedStep(t))
          BY <3>1, <4>3 DEF TaskOK
        <4>. QED  BY <4>2, <4>3, <4>4
      <3>. QED  BY <3>3, <3>4
    <2>. QED  BY <2>1, <2>2
  <1>. QED  BY <1>1, <1>2

\* A future's call of set_ordered_blocks or get_executed_res.
LEMMA TaskCall ==
  ASSUME GceiInv, phase # "boot", UNCHANGED rethVars, NEW t \in Tasks, TaskOK(t),
         TaskSetOrdered(t) \/ TaskGetExecuted(t)
  PROVE  /\ RethInv' /\ LastKept
         /\ UNCHANGED <<current_epoch, exec_epoch, executed, results, vote, epoch_change_info, persisted, boundary>>
         /\ \A d \in Epochs, m \in Numbers : blocks'[<<d, m>>] # None => blocks[<<d, m>>] # None \/ d <= epoch
  <1>0. RethInv /\ ~Early /\ boundary \in Boundaries
    BY NotEarly DEF GceiInv, RethInv, TypeInv
  <1>1. /\ t.epoch \in Epochs /\ t.next \in Numbers /\ t.epoch >= 1 /\ t.epoch <= epoch /\ t.next > Base(t.epoch)
    <2>1. t.epoch \in Epochs /\ t.next \in Numbers /\ t.lo \in Numbers
      BY DEF Tasks
    <2>2. t.epoch \in Nat /\ t.next \in Nat /\ t.lo \in Nat
      BY <2>1, NumberFacts
    <2>3. Base(t.epoch) \in Nat
      <3>1. CASE t.epoch = 1
        BY <3>1 DEF Base
      <3>2. CASE t.epoch # 1
        <4>1. t.epoch - 1 \in Epochs
          BY <2>1, <2>2, <3>2, NumberFacts DEF TaskOK
        <4>. QED  BY <1>0, <3>2, <4>1, BoundaryFacts DEF Base
      <3>. QED  BY <3>1, <3>2
    <2>. QED  BY <2>1, <2>2, <2>3 DEF TaskOK
  <1>2. UNCHANGED <<exec_epoch, executed, results, vote, persisted, boundary>>
    BY DEF rethVars, pipeVars
  <1>3. CASE TaskSetOrdered(t)
    <2>1. SetOrderedBlocks(t.epoch, t.next, Id(t.epoch, t.next), ParentId(t.epoch, t.next))
      BY <1>3 DEF TaskSetOrdered
    <2>2. UNCHANGED <<current_epoch, epoch_change_info>>
      BY <2>1 DEF SetOrderedBlocks
    <2>. QED  BY <1>0, <1>1, <1>2, <2>1, <2>2, SetOrderedKeeps
  <1>4. CASE TaskGetExecuted(t)
    <2>1. GetExecutedRes(t.epoch, t.next, Id(t.epoch, t.next))
      BY <1>4 DEF TaskGetExecuted
    <2>2. UNCHANGED <<current_epoch, epoch_change_info>>
      BY <2>1 DEF GetExecutedRes
    <2>. QED  BY <1>0, <1>1, <1>2, <2>1, <2>2, GetExecutedKeeps
  <1>. QED  BY <1>3, <1>4

LEMMA ScheduledTaskStep == ASSUME GceiInv, Running, ScheduledTask PROVE GceiInv'
  <1>0. /\ tasks \in Seq(Tasks) /\ retries \in Nat /\ orphans \subseteq Tasks /\ TaskInv
        /\ TypeInv /\ StageInv /\ BlockInv
    BY DEF GceiInv, PipelineTypeInv, RethInv
  <1>u. UNCHANGED <<rethVars, phase, epoch, root, items, retries, orphans, persist_q, persisting, recovery, proof, resets>>
    BY DEF ScheduledTask
  <1>1. PICK i \in DOMAIN tasks :
          \/ TaskSetOrdered(tasks[i]) /\ tasks' = [tasks EXCEPT ![i] = SetOrderedStep(@)]
          \/ TaskGetExecuted(tasks[i]) /\ tasks' = [tasks EXCEPT ![i] = GetExecutedStep(@)]
    BY DEF ScheduledTask
  <1>2. /\ DOMAIN tasks = 1 .. Len(tasks) /\ Len(tasks) \in Nat /\ tasks[i] \in Tasks /\ tasks # <<>>
        /\ TaskOK(tasks[i]) /\ tasks[i].epoch = epoch
    BY <1>0, <1>1 DEF TaskInv
  <1>3. PICK t \in Tasks : TaskOK(t) /\ t.epoch = epoch /\ tasks' = [tasks EXCEPT ![i] = t]
    <2>1. CASE TaskSetOrdered(tasks[i]) /\ tasks' = [tasks EXCEPT ![i] = SetOrderedStep(@)]
      BY <1>0, <1>2, <2>1, TaskSteps
    <2>2. CASE TaskGetExecuted(tasks[i]) /\ tasks' = [tasks EXCEPT ![i] = GetExecutedStep(@)]
      BY <1>0, <1>2, <2>2, TaskSteps DEF TaskGetExecuted
    <2>. QED  BY <1>1, <2>1, <2>2
  <1>4. tasks' \in Seq(Tasks) /\ Len(tasks') = Len(tasks) /\ tasks'[i] = t
        /\ \A j \in 1 .. Len(tasks) : j # i => tasks'[j] = tasks[j]
    BY <1>0, <1>2, <1>3
  <1>5. \A j \in 1 .. Len(tasks') : TaskOK(tasks'[j]) /\ tasks'[j].epoch = epoch
    BY <1>0, <1>3, <1>4 DEF TaskInv
  <1>6. phase # "boot" /\ phase # "ending"
    BY <1>2, TasksRunning
  <1>7. /\ RethInv' /\ LastKept
        /\ UNCHANGED <<current_epoch, exec_epoch, executed, results, vote, epoch_change_info, persisted, boundary>>
        /\ \A d \in Epochs, m \in Numbers : blocks'[<<d, m>>] # None => blocks[<<d, m>>] # None \/ d <= epoch
    BY <1>1, <1>2, <1>6, <1>u, TaskCall
  <1>8. orphans' \subseteq Tasks /\ \A x \in orphans' : TaskOK(x)
    BY <1>0, <1>u DEF TaskInv
  <1>. QED  BY <1>0, <1>u, <1>4, <1>5, <1>6, <1>7, <1>8, TasksStep

LEMMA OrphanTaskStep == ASSUME GceiInv, Running, OrphanTask PROVE GceiInv'
  <1>0. /\ tasks \in Seq(Tasks) /\ retries \in Nat /\ orphans \subseteq Tasks /\ TaskInv
        /\ TypeInv /\ StageInv /\ BlockInv
    BY DEF GceiInv, PipelineTypeInv, RethInv
  <1>u. UNCHANGED <<rethVars, phase, epoch, root, items, tasks, retries, persist_q, persisting, recovery, proof, resets>>
    BY DEF OrphanTask, queueVars
  <1>1. PICK t \in orphans :
          \/ /\ TaskSetOrdered(t)
             /\ orphans' = (orphans \ {t}) \cup {x \in {SetOrderedStep(t)} : x.pc # "failed"}
          \/ /\ TaskGetExecuted(t)
             /\ orphans' = (orphans \ {t}) \cup {x \in {GetExecutedStep(t)} : x.pc \notin {"failed", "done"}}
    BY DEF OrphanTask
  <1>2. t \in Tasks /\ TaskOK(t)
    BY <1>0 DEF TaskInv
  <1>3. orphans' \subseteq Tasks /\ \A x \in orphans' : TaskOK(x)
    <2>1. CASE TaskSetOrdered(t) /\ orphans' = (orphans \ {t}) \cup {x \in {SetOrderedStep(t)} : x.pc # "failed"}
      BY <1>0, <1>2, <2>1, TaskSteps DEF TaskInv
    <2>2. CASE /\ TaskGetExecuted(t)
               /\ orphans' = (orphans \ {t}) \cup {x \in {GetExecutedStep(t)} : x.pc \notin {"failed", "done"}}
      BY <1>0, <1>2, <2>2, TaskSteps DEF TaskInv, TaskGetExecuted
    <2>. QED  BY <1>1, <2>1, <2>2
  <1>4. phase # "boot"
    BY <1>1 DEF GceiInv, BootInv
  <1>5. /\ RethInv' /\ LastKept
        /\ UNCHANGED <<current_epoch, exec_epoch, executed, results, vote, epoch_change_info, persisted, boundary>>
        /\ \A d \in Epochs, m \in Numbers : blocks'[<<d, m>>] # None => blocks[<<d, m>>] # None \/ d <= epoch
    BY <1>1, <1>2, <1>4, <1>u, TaskCall
  <1>6. \A i \in 1 .. Len(tasks') : TaskOK(tasks'[i]) /\ tasks'[i].epoch = epoch
    BY <1>0, <1>u DEF TaskInv
  <1>7. phase = "ending" => tasks' = <<>> /\ retries' = 0
    BY <1>0, <1>u DEF TaskInv
  <1>. QED  BY <1>0, <1>u, <1>3, <1>4, <1>5, <1>6, <1>7, TasksStep

LEMMA BaseFacts ==
  ASSUME boundary \in Boundaries, NEW e \in Epochs, e >= 1
  PROVE  Base(e) \in Nat
  <1>1. CASE e = 1
    BY <1>1 DEF Base
  <1>2. CASE e # 1
    <2>1. e - 1 \in Epochs
      BY <1>2, NumberFacts
    <2>. QED  BY <1>2, <2>1, BoundaryFacts DEF Base
  <1>. QED  BY <1>1, <1>2

\* The requests of an epoch whose queue a step leaves alone.
LEMMA RequestFrame ==
  ASSUME NEW e \in Epochs, RequestInv(e), persist_q'[e] = persist_q[e], persisting'[e] = persisting[e],
         UNCHANGED boundary, persist_q[e] \in Seq(Requests), root \in Nat, root' \in Nat,
         e > epoch' => e > epoch,
         e = epoch' => persist_q[e] = <<>> \/ (e = epoch /\ root <= root'),
         InHand(e) => InHand(e)',
         Is(LastOf(e), "Committed")' => Is(LastOf(e), "Committed")
  PROVE  RequestInv(e)'
  <1>1. \A i \in 1 .. Len(persist_q[e]) : persist_q[e][i].hi \in Nat
    <2>1. \A i \in 1 .. Len(persist_q[e]) : persist_q[e][i] \in Requests
      OBVIOUS
    <2>. QED  BY <2>1, NumberFacts DEF Requests
  <1>2. e > epoch' \/ e = 0 => persist_q'[e] = <<>> /\ persisting'[e] = None
    BY DEF RequestInv
  <1>3. ASSUME NEW i \in 1 .. Len(persist_q'[e])
        PROVE  /\ persist_q'[e][i].lo <= persist_q'[e][i].hi
               /\ e = epoch' => persist_q'[e][i].hi <= root'
               /\ Covers(persist_q[e][i], e)' => ~Is(LastOf(e), "Committed")'
               /\ persist_q'[e][i].ends # None =>
                    /\ persist_q'[e][i].ends = boundary'[e]
                    /\ InHand(e)' \/ \E j \in 1 .. i : Covers(persist_q[e][j], e)'
    <2>1. i \in 1 .. Len(persist_q[e]) /\ persist_q[e] # <<>>
      OBVIOUS
    <2>2. e = epoch' => persist_q[e][i].hi <= root'
      BY <1>1, <2>1 DEF RequestInv
    <2>. QED  BY <2>1, <2>2 DEF RequestInv, Covers
  <1>4. \A i, j \in 1 .. Len(persist_q'[e]) : i < j => persist_q'[e][i].hi < persist_q'[e][j].lo
    BY DEF RequestInv
  <1>5. persisting'[e] # None /\ persisting'[e].ends # None => persisting'[e].ends = boundary'[e] /\ InHand(e)'
    BY DEF RequestInv
  <1>. QED  BY <1>2, <1>3, <1>4, <1>5 DEF RequestInv


LEMMA ProcessExecutionResponseStep == ASSUME GceiInv, Running, ProcessExecutionResponse PROVE GceiInv'
  <1>0. /\ RethInv /\ TypeInv /\ StageInv /\ BootInv /\ PipelineTypeInv /\ QueueInv /\ TaskInv
        /\ tasks \in Seq(Tasks) /\ items \in Seq(Items) /\ Height <= MaxBlock
    BY DEF GceiInv, RethInv, PipelineTypeInv, ExecInv
  <1>u. UNCHANGED <<bufferVars, rethVars, phase, epoch, root, retries, orphans, persist_q, persisting,
                    recovery, proof, resets>>
    BY DEF ProcessExecutionResponse
  <1>v. UNCHANGED <<current_epoch, exec_epoch, executed, results, vote, epoch_change_info, blocks, persisted, boundary>>
    BY <1>u DEF bufferVars, rethVars, pipeVars
  <1>1. /\ tasks # <<>> /\ Head(tasks).pc = "done" /\ tasks' = Tail(tasks)
        /\ items' = [i \in DOMAIN items |->
             IF i \in Found(Head(tasks)) THEN [items[i] EXCEPT !.info = CommitInfo(Head(tasks))] ELSE items[i]]
    BY DEF ProcessExecutionResponse
  <1>2. PICK t \in Tasks : t = Head(tasks) /\ TaskOK(t)
    <2>1. Head(tasks) = tasks[1] /\ 1 \in 1 .. Len(tasks) /\ tasks[1] \in Tasks
      BY <1>0, <1>1
    <2>. QED  BY <1>0, <2>1 DEF TaskInv
  <1>3. CommitInfo(t) \in CommitInfos
    <2>1. t.res \in ComputeResults /\ t.hi \in Numbers
      BY <1>1, <1>2 DEF TaskOK, Tasks
    <2>2. EpochChangeBlockInfo(t.hi, t.epoch) \in Numbers \cup {None}
      <3>1. epoch_change_info # None => epoch_change_info.number = Height
        BY <1>0, SuffixFacts
      <3>2. Height \in Numbers
        BY <1>0, Counts, NumberFacts
      <3>. QED  BY <3>1, <3>2 DEF EpochChangeBlockInfo, IsSuffixBlock
    <2>3. EpochBlockInfo(t) \in Numbers \cup {None}
      BY <2>1, <2>2 DEF EpochBlockInfo
    <2>. QED  BY <2>1, <2>3 DEF CommitInfo, CommitInfos
  <1>4. /\ items' = [i \in 1 .. Len(items) |-> items'[i]]
        /\ \A i \in 1 .. Len(items) : items'[i] = items[i] \/ items'[i] = [items[i] EXCEPT !.info = CommitInfo(t)]
    <2>1. DOMAIN items = 1 .. Len(items)
      BY <1>0
    <2>. QED  BY <1>1, <1>2, <2>1
  <1>5. \A i \in 1 .. Len(items) : items'[i] \in Items /\ items'[i].lo = items[i].lo /\ items'[i].hi = items[i].hi
    <2>. SUFFICES ASSUME NEW i \in 1 .. Len(items)
                  PROVE  items'[i] \in Items /\ items'[i].lo = items[i].lo /\ items'[i].hi = items[i].hi
      OBVIOUS
    <2>1. items[i] \in Items
      BY <1>0
    <2>2. CASE items'[i] = [items[i] EXCEPT !.info = CommitInfo(t)]
      BY <1>3, <2>1, <2>2 DEF Items
    <2>. QED  BY <1>4, <2>1, <2>2
  <1>6. items' \in Seq(Items) /\ Len(items') = Len(items)
    <2>1. Len(items) \in Nat
      BY <1>0
    <2>. QED  BY <1>4, <1>5, <2>1
  <1>7. tasks' \in Seq(Tasks) /\ Len(tasks) \in Nat /\ Len(tasks') = Len(tasks) - 1
        /\ \A i \in 1 .. Len(tasks') : tasks'[i] = tasks[i + 1] /\ i + 1 \in 1 .. Len(tasks)
    BY <1>0, <1>1
  <1>8. PipelineTypeInv'
    BY <1>0, <1>u, <1>6, <1>7 DEF PipelineTypeInv
  <1>9. QueueInv'
    <2>1. Base(epoch)' <= root'
      BY <1>0, <1>u, <1>v DEF QueueInv, Base
    <2>2. \A i \in 1 .. Len(items') : root < items'[i].lo /\ items'[i].lo <= items'[i].hi
      BY <1>0, <1>5, <1>6 DEF QueueInv
    <2>3. \A i, j \in 1 .. Len(items') : i < j => items'[i].hi < items'[j].lo
      BY <1>0, <1>5, <1>6 DEF QueueInv
    <2>4. phase # "run" => items' = <<>>
      <3>1. phase # "run" => Len(items) = 0
        BY <1>0 DEF QueueInv
      <3>2. Len(items') = 0 => items' = <<>>
        BY <1>6
      <3>. QED  BY <1>6, <3>1, <3>2
    <2>. QED  BY <1>u, <2>1, <2>2, <2>3, <2>4 DEF QueueInv
  <1>10. phase # "boot" /\ phase # "ending"
    BY <1>1, TasksRunning
  <1>11. TaskInv'
    <2>1. \A x : TaskOK(x)' <=> TaskOK(x)
      BY <1>u, <1>v DEF TaskOK, Base
    <2>2. \A i \in 1 .. Len(tasks') : TaskOK(tasks'[i]) /\ tasks'[i].epoch = epoch
      BY <1>0, <1>7 DEF TaskInv
    <2>3. \A i \in 1 .. Len(tasks') : TaskOK(tasks[i])' /\ tasks'[i].epoch = epoch'
      BY <1>u, <1>v, <2>2 DEF TaskOK, Base
    <2>. QED  BY <1>0, <1>u, <1>v, <1>10, <2>1, <2>3 DEF TaskInv
  <1>12. RethInv' /\ LastKept
    BY <1>0, <1>u, UnchangedStep
  <1>13. BootInv'
    BY <1>0, <1>u, <1>v, <1>10, BootKept
  <1>. QED  BY <1>u, <1>v, <1>8, <1>9, <1>11, <1>12, <1>13, QueueFrame

----------------------------------------------------------------------------
(* Consensus' steps: certified batches *)

\* advance_head: the request that ends the epoch comes with, or behind, the one that holds its
\* last block.
LEMMA AdvanceHeadStep == ASSUME GceiInv, Running, AdvanceHead PROVE GceiInv'
  <1>0. /\ RethInv /\ TypeInv /\ BootInv /\ PipelineTypeInv /\ QueueInv /\ TaskInv /\ PersistInv
        /\ items \in Seq(Items) /\ boundary \in Boundaries /\ RecoverInv /\ ProofInv /\ EpochInv
    BY DEF GceiInv, RethInv, PipelineTypeInv, TypeInv
  <1>u. UNCHANGED <<bufferVars, rethVars, phase, epoch, tasks, retries, orphans, end_seen, persisting,
                    recovery, proof, panics, timeouts, resets>>
    BY DEF AdvanceHead
  <1>v. UNCHANGED <<current_epoch, exec_epoch, executed, results, vote, epoch_change_info, blocks, persisted, boundary>>
    BY <1>u DEF bufferVars, rethVars, pipeVars
  <1>1. PICK i \in DOMAIN items :
          /\ items[i].info # None /\ items[i].info = QuorumCommitInfo(epoch, items[i].hi)
          /\ persist_q' = [persist_q EXCEPT ![epoch] =
               Append(@, [lo |-> root + 1, hi |-> items[i].hi, ends |-> items[i].info.ends])]
          /\ root' = items[i].hi
          /\ items' = SubSeq(items, i + 1, Len(items))
    BY DEF AdvanceHead
  <1>2. /\ i \in 1 .. Len(items) /\ Len(items) \in Nat /\ items[i] \in Items
        /\ items[i].hi \in Numbers /\ items[i].hi \in Nat /\ items[i].lo \in Nat
        /\ root < items[i].lo /\ items[i].lo <= items[i].hi /\ phase = "run" /\ items[i].hi <= MaxBlock
    <2>1. i \in 1 .. Len(items) /\ Len(items) \in Nat /\ items[i] \in Items /\ items # <<>>
      BY <1>0, <1>1
    <2>. QED  BY <1>0, <2>1, NumberFacts DEF QueueInv, Items
  <1>3. /\ epoch \in Epochs /\ epoch \in Nat /\ root \in Nat /\ root < items[i].hi /\ root + 1 \in Numbers
        /\ boundary[epoch] \in Nat /\ root < root' /\ root' \in Nat
    <2>1. epoch \in Epochs /\ epoch \in Nat /\ root \in Nat /\ boundary[epoch] \in Nat
      BY <1>0, EpochFacts
    <2>2. root < items[i].hi /\ root + 1 <= MaxBlock
      BY <1>2, <2>1, NumberFacts
    <2>. QED  BY SMTT(30), <1>1, <1>2, <2>1, <2>2, NumberFacts
  <1>4. PICK ends \in Numbers \cup {None} :
          /\ ends = items[i].info.ends
          /\ ends # None => ends = boundary[epoch] /\ boundary[epoch] <= items[i].hi
    <2>1. QuorumCommitInfo(epoch, items[i].hi).ends \in Numbers \cup {None}
          /\ (QuorumCommitInfo(epoch, items[i].hi).ends # None =>
                 QuorumCommitInfo(epoch, items[i].hi).ends = boundary[epoch] /\ boundary[epoch] <= items[i].hi)
      <3>1. CASE items[i].hi < boundary[epoch]
        BY <3>1 DEF QuorumCommitInfo
      <3>2. CASE items[i].hi = boundary[epoch]
        BY <1>2, <3>2 DEF QuorumCommitInfo
      <3>3. CASE items[i].hi > boundary[epoch]
        <4>1. boundary[epoch] \in Numbers
          BY <1>2, <1>3, <3>3, NumberFacts
        <4>. QED  BY <1>2, <1>3, <3>3, <4>1 DEF QuorumCommitInfo
      <3>. QED  BY <1>2, <1>3, <3>1, <3>2, <3>3
    <2>. QED  BY <1>1, <2>1
  <1>. DEFINE req == [lo |-> root + 1, hi |-> items[i].hi, ends |-> ends]
  <1>5. req \in Requests /\ req.lo = root + 1 /\ req.hi = items[i].hi /\ req.ends = ends
    BY <1>2, <1>3 DEF Requests
  <1>6. persist_q' = [persist_q EXCEPT ![epoch] = Append(@, req)]
    BY <1>1, <1>4
  <1>. HIDE DEF req
  <1>7. /\ persist_q \in [Epochs -> Seq(Requests)] /\ persist_q' \in [Epochs -> Seq(Requests)]
        /\ persist_q'[epoch] = Append(persist_q[epoch], req)
        /\ \A e \in Epochs : e # epoch => persist_q'[e] = persist_q[e]
    BY <1>0, <1>3, <1>5, <1>6 DEF PipelineTypeInv
  <1>8. /\ Len(persist_q[epoch]) \in Nat /\ Len(persist_q'[epoch]) = Len(persist_q[epoch]) + 1
        /\ \A j \in 1 .. Len(persist_q[epoch]) :
             persist_q'[epoch][j] = persist_q[epoch][j] /\ persist_q[epoch][j] \in Requests
        /\ persist_q'[epoch][Len(persist_q[epoch]) + 1] = req
    <2>1. persist_q[epoch] \in Seq(Requests)
      BY <1>3, <1>7
    <2>. QED  BY <1>5, <1>7, <2>1
  <1>9. /\ items' \in Seq(Items) /\ Len(items') = Len(items) - i
        /\ \A j \in 1 .. Len(items') : items'[j] = items[i + j] /\ i + j \in 1 .. Len(items)
    BY SMTT(30), <1>0, <1>1, <1>2
  <1>10. PipelineTypeInv'
    BY <1>0, <1>u, <1>1, <1>2, <1>7, <1>9 DEF PipelineTypeInv
  <1>11. QueueInv'
    <2>1. Base(epoch)' <= root'
      <3>1. Base(epoch) <= root /\ Base(epoch)' = Base(epoch)
        BY <1>0, <1>u, <1>v DEF QueueInv, Base
      <3>2. Base(epoch) \in Nat
        BY <1>0, EpochFacts, BaseFacts
      <3>. QED  BY <1>3, <3>1, <3>2
    <2>2. ASSUME NEW j \in 1 .. Len(items') PROVE root' < items'[j].lo /\ items'[j].lo <= items'[j].hi
      <3>1. PICK k \in 1 .. Len(items) : k = i + j /\ items'[j] = items[k]
        BY <1>9
      <3>2. i < k
        BY <1>2, <3>1
      <3>. QED  BY <1>0, <1>1, <1>2, <3>1, <3>2 DEF QueueInv
    <2>3. ASSUME NEW j \in 1 .. Len(items'), NEW k \in 1 .. Len(items'), j < k PROVE items'[j].hi < items'[k].lo
      <3>1. i + j \in 1 .. Len(items) /\ i + k \in 1 .. Len(items) /\ i + j < i + k
            /\ items'[j] = items[i + j] /\ items'[k] = items[i + k]
        BY <1>2, <1>9, <2>3
      <3>. QED  BY <1>0, <3>1 DEF QueueInv
    <2>. QED  BY <1>2, <1>u, <2>1, <2>2, <2>3 DEF QueueInv
  <1>12. TaskInv'
    <2>1. \A x : TaskOK(x)' <=> TaskOK(x)
      BY <1>u, <1>v DEF TaskOK, Base
    <2>2. \A j \in 1 .. Len(tasks) : TaskOK(tasks[j])' <=> TaskOK(tasks[j])
      BY <1>u, <1>v DEF TaskOK, Base
    <2>. QED  BY <1>0, <1>u, <1>v, <2>1, <2>2 DEF TaskInv
  <1>13. ~(root < boundary[epoch] /\ Is(LastOf(epoch), "Committed"))
    BY <1>0, <1>2 DEF PersistInv, RootInv
  <1>14. boundary[epoch] <= items[i].hi =>
           \/ InHand(epoch) \/ \E j \in 1 .. Len(persist_q[epoch]) : Covers(persist_q[epoch][j], epoch)
           \/ Covers(req, epoch)
    <2>1. CASE root >= boundary[epoch]
      BY <1>0, <2>1 DEF PersistInv, RootInv
    <2>2. CASE ~(root >= boundary[epoch])
      BY <1>2, <1>3, <1>5, <2>2 DEF Covers
    <2>. QED  BY <2>1, <2>2
  <1>15. \A e \in Epochs : /\ LastOf(e)' = LastOf(e) /\ (InHand(e)' <=> InHand(e))
                           /\ (Is(LastOf(e), "Committed")' <=> Is(LastOf(e), "Committed"))
                           /\ \A r : Covers(r, e)' <=> Covers(r, e)
    BY <1>u, <1>v DEF LastOf, InHand, Waits, Is, Present, Covers
  <1>16. ASSUME NEW e \in Epochs, e # epoch PROVE RequestInv(e)'
    <2>1. RequestInv(e)
      BY <1>0 DEF PersistInv
    <2>2. persist_q'[e] = persist_q[e] /\ persisting'[e] = persisting[e] /\ persist_q[e] \in Seq(Requests)
          /\ e # epoch' /\ (e > epoch' => e > epoch)
      BY <1>7, <1>16, <1>u
    <2>. QED  BY <1>3, <1>15, <1>v, <2>1, <2>2, RequestFrame
  <1>17. RequestInv(epoch)
    BY <1>0, <1>3 DEF PersistInv
  <1>18. ASSUME NEW j \in 1 .. Len(persist_q'[epoch])
         PROVE  /\ persist_q'[epoch][j].lo <= persist_q'[epoch][j].hi
                /\ persist_q'[epoch][j].hi <= root'
                /\ Covers(persist_q'[epoch][j], epoch) => ~Is(LastOf(epoch), "Committed")
                /\ persist_q'[epoch][j].ends # None =>
                     /\ persist_q'[epoch][j].ends = boundary[epoch]
                     /\ InHand(epoch) \/ \E k \in 1 .. j : Covers(persist_q'[epoch][k], epoch)
    <2>1. CASE j \in 1 .. Len(persist_q[epoch])
      <3>1. persist_q'[epoch][j] = persist_q[epoch][j] /\ persist_q[epoch][j].hi \in Nat
        BY <1>8, <2>1, NumberFacts DEF Requests
      <3>2. persist_q[epoch][j].hi <= root'
        BY <1>3, <1>17, <2>1, <3>1 DEF RequestInv
      <3>3. \A k \in 1 .. j : k \in 1 .. Len(persist_q[epoch]) /\ persist_q'[epoch][k] = persist_q[epoch][k]
        BY <1>8, <2>1
      <3>. QED  BY <1>17, <2>1, <3>1, <3>2, <3>3 DEF RequestInv
    <2>2. CASE j = Len(persist_q[epoch]) + 1
      <3>1. persist_q'[epoch][j] = req
        BY <1>8, <2>2
      <3>2. req.lo <= req.hi /\ req.hi <= root'
        BY <1>1, <1>2, <1>3, <1>5
      <3>3. Covers(req, epoch) => ~Is(LastOf(epoch), "Committed")
        BY <1>3, <1>5, <1>13 DEF Covers
      <3>4. ASSUME ends # None
            PROVE  /\ ends = boundary[epoch]
                   /\ InHand(epoch) \/ \E k \in 1 .. j : Covers(persist_q'[epoch][k], epoch)
        <4>1. CASE \E k \in 1 .. Len(persist_q[epoch]) : Covers(persist_q[epoch][k], epoch)
          <5>1. PICK k \in 1 .. Len(persist_q[epoch]) : Covers(persist_q[epoch][k], epoch)
            BY <4>1
          <5>2. k \in 1 .. j /\ persist_q'[epoch][k] = persist_q[epoch][k]
            BY <1>8, <2>2
          <5>. QED  BY <1>4, <3>4, <5>1, <5>2
        <4>2. CASE Covers(req, epoch)
          <5>1. j \in 1 .. j
            BY <1>8, <2>2
          <5>. QED  BY <1>4, <3>1, <3>4, <4>2, <5>1
        <4>. QED  BY <1>4, <1>14, <3>4, <4>1, <4>2
      <3>. QED  BY <1>5, <3>1, <3>2, <3>3, <3>4
    <2>. QED  BY <1>8, <2>1, <2>2
  <1>19. ASSUME NEW j \in 1 .. Len(persist_q'[epoch]), NEW k \in 1 .. Len(persist_q'[epoch]), j < k
         PROVE  persist_q'[epoch][j].hi < persist_q'[epoch][k].lo
    <2>1. j \in 1 .. Len(persist_q[epoch]) /\ persist_q'[epoch][j] = persist_q[epoch][j]
      BY <1>8, <1>19
    <2>2. CASE k \in 1 .. Len(persist_q[epoch])
      BY <1>8, <1>17, <1>19, <2>1, <2>2 DEF RequestInv
    <2>3. CASE k = Len(persist_q[epoch]) + 1
      <3>1. persist_q[epoch][j].hi <= root /\ persist_q[epoch][j].hi \in Nat
        BY <1>8, <1>17, <2>1, NumberFacts DEF RequestInv, Requests
      <3>2. persist_q'[epoch][k].lo = root + 1
        BY <1>5, <1>8, <2>3
      <3>. QED  BY <1>3, <2>1, <3>1, <3>2
    <2>. QED  BY <1>8, <2>2, <2>3
  <1>20. ASSUME NEW e \in Epochs, e = epoch PROVE RequestInv(e)'
    <2>1. persisting[epoch] # None /\ persisting[epoch].ends # None =>
            persisting[epoch].ends = boundary[epoch] /\ InHand(epoch)
      BY <1>17 DEF RequestInv
    <2>2. ~(epoch > epoch) /\ epoch # 0
      BY <1>0, <1>3, EpochFacts
    <2>. QED  BY <1>3, <1>15, <1>18, <1>19, <1>20, <1>u, <1>v, <2>1, <2>2 DEF RequestInv, Covers
  <1>21. RootInv'
    <2>1. root' >= boundary[epoch] =>
            InHand(epoch) \/ \E j \in 1 .. Len(persist_q'[epoch]) : Covers(persist_q'[epoch][j], epoch)
      <3>. SUFFICES ASSUME root' >= boundary[epoch], ~InHand(epoch)
                    PROVE  \E j \in 1 .. Len(persist_q'[epoch]) : Covers(persist_q'[epoch][j], epoch)
        OBVIOUS
      <3>0. boundary[epoch] <= items[i].hi
        BY <1>1, <1>2, <1>3
      <3>1. CASE \E k \in 1 .. Len(persist_q[epoch]) : Covers(persist_q[epoch][k], epoch)
        <4>1. PICK k \in 1 .. Len(persist_q[epoch]) : Covers(persist_q[epoch][k], epoch)
          BY <3>1
        <4>2. k \in 1 .. Len(persist_q'[epoch]) /\ persist_q'[epoch][k] = persist_q[epoch][k]
          BY <1>8
        <4>. QED  BY <4>1, <4>2
      <3>2. CASE Covers(req, epoch)
        <4>1. Len(persist_q[epoch]) + 1 \in 1 .. Len(persist_q'[epoch])
          BY <1>8
        <4>. QED  BY <1>8, <3>2, <4>1
      <3>. QED  BY <1>14, <3>0, <3>1, <3>2
    <2>2. ~(root' < boundary[epoch] /\ Is(LastOf(epoch), "Committed"))
      BY <1>3, <1>13
    <2>. QED  BY <1>2, <1>3, <1>15, <1>u, <1>v, <2>1, <2>2 DEF RootInv, Covers
  <1>22. PersistInv'
    <2>1. \A e \in Epochs : RequestInv(e)'
      BY <1>16, <1>20
    <2>. QED  BY <1>21, <2>1 DEF PersistInv
  <1>23. RethInv' /\ LastKept
    BY <1>0, <1>u, UnchangedStep
  <1>24. BootInv' /\ RecoverInv' /\ ProofInv' /\ EpochInv'
    BY <1>0, <1>u, <1>v, <1>2, BootKept DEF RecoverInv, ProofInv, EpochInv
  <1>. QED  BY <1>10, <1>11, <1>12, <1>22, <1>23, <1>24 DEF GceiInv

----------------------------------------------------------------------------
(* Consensus' steps: the notifiers come back, the next epoch, recovery *)

LEMMA InHandKept ==
  ASSUME LastKept, persisted \in Nat, boundary \in Boundaries, UNCHANGED <<boundary, persisting, persisted>>
  PROVE  \A e \in Epochs : /\ InHand(e) => InHand(e)'
                           /\ Is(LastOf(e), "Committed")' => Is(LastOf(e), "Committed")
  <1>. SUFFICES ASSUME NEW e \in Epochs
                PROVE  /\ InHand(e) => InHand(e)'
                       /\ Is(LastOf(e), "Committed")' => Is(LastOf(e), "Committed")
    OBVIOUS
  <1>1. Is(LastOf(e), "Committed")' => Is(LastOf(e), "Committed")
    BY DEF LastKept, LastOf
  <1>2. Is(LastOf(e), "Committed") => Is(LastOf(e), "Committed")' \/ boundary[e] <= persisted
    BY DEF LastKept, LastOf
  <1>. QED  BY <1>1, <1>2 DEF InHand, Waits, LastOf

\* A notifier that came back was sent to once its block was on disk.
LEMMA SentWhenPersisted ==
  ASSUME NotifyInv, NEW e \in Epochs, NEW keys, \A k \in keys : ~SenderAlive(k), Waits(e, keys)
  PROVE  boundary[e] <= persisted
  BY DEF NotifyInv, Waits, LastOf

LEMMA PersistingDoneStep ==
  ASSUME GceiInv, Running, NEW e \in Epochs, PersistingDone(e) PROVE GceiInv'
  <1>0. /\ RethInv /\ TypeInv /\ BootInv /\ PipelineTypeInv /\ QueueInv /\ TaskInv /\ PersistInv
        /\ boundary \in Boundaries /\ RecoverInv /\ ProofInv /\ EpochInv /\ NotifyInv
    BY DEF GceiInv, RethInv, TypeInv
  <1>u. UNCHANGED <<bufferVars, rethVars, phase, epoch, root, queueVars, orphans, end_seen, persist_q,
                    recovery, panics, timeouts, resets>>
    BY DEF PersistingDone
  <1>v. UNCHANGED <<current_epoch, exec_epoch, executed, results, vote, epoch_change_info, blocks, persisted,
                    boundary, items, tasks, retries>>
    BY <1>u DEF bufferVars, rethVars, pipeVars, queueVars
  <1>1. /\ persisting[e] # None /\ \A k \in persisting[e].waits : ~SenderAlive(k)
        /\ proof' = IF persisting[e].ends # None /\ e = epoch THEN persisting[e].ends ELSE proof
        /\ persisting' = [persisting EXCEPT ![e] = None]
    BY DEF PersistingDone
  <1>2. InHand(e) => boundary[e] <= persisted
    BY <1>0, <1>1, SentWhenPersisted DEF InHand
  <1>3. RethInv' /\ LastKept
    BY <1>0, <1>u, UnchangedStep
  <1>4. persisting' \in [Epochs -> PersistingRequests \cup {None}] /\ persisting'[e] = None
        /\ \A d \in Epochs : d # e => persisting'[d] = persisting[d]
    BY <1>0, <1>1 DEF PipelineTypeInv
  <1>5. PipelineTypeInv' /\ QueueInv' /\ RecoverInv' /\ EpochInv'
    BY <1>0, <1>u, <1>v, <1>4 DEF PipelineTypeInv, QueueInv, RecoverInv, EpochInv, Base
  <1>6. phase # "boot"
    BY <1>0, <1>1 DEF BootInv
  <1>7. BootInv'
    BY <1>0, <1>u, <1>v, <1>6, BootKept
  <1>8. TaskInv'
    <2>1. \A x : TaskOK(x)' <=> TaskOK(x)
      BY <1>u, <1>v DEF TaskOK, Base
    <2>2. \A j \in 1 .. Len(tasks) : TaskOK(tasks[j])' <=> TaskOK(tasks[j])
      BY <1>u, <1>v DEF TaskOK, Base
    <2>. QED  BY <1>0, <1>u, <1>v, <2>1, <2>2 DEF TaskInv
  <1>9. ProofInv'
    <2>1. CASE persisting[e].ends # None /\ e = epoch
      <3>1. persisting[e].ends = boundary[e] /\ InHand(e)
        BY <1>0, <1>1, <2>1 DEF PersistInv, RequestInv
      <3>2. proof' = boundary[epoch] /\ proof' <= persisted
        BY <1>1, <1>2, <2>1, <3>1
      <3>3. proof' # None
        BY <1>0, <3>2, EpochFacts, NumberFacts
      <3>. QED  BY <1>u, <1>v, <3>2, <3>3 DEF ProofInv
    <2>2. CASE ~(persisting[e].ends # None /\ e = epoch)
      BY <1>0, <1>1, <1>u, <1>v, <2>2 DEF ProofInv
    <2>. QED  BY <2>1, <2>2
  <1>10. \A d \in Epochs : InHand(d) => InHand(d)'
    BY <1>2, <1>4, <1>v DEF InHand, Waits, LastOf, Is, Present
  <1>11. \A d \in Epochs : Is(LastOf(d), "Committed")' <=> Is(LastOf(d), "Committed")
    BY <1>v DEF LastOf, Is, Present
  <1>12. ASSUME NEW d \in Epochs PROVE RequestInv(d)'
    <2>1. RequestInv(d)
      BY <1>0 DEF PersistInv
    <2>2. persist_q'[d] = persist_q[d] /\ persist_q[d] \in Seq(Requests) /\ root \in Nat /\ epoch \in Nat
      BY <1>0, <1>u, EpochFacts DEF PipelineTypeInv
    <2>3. CASE d # e
      <3>1. persisting'[d] = persisting[d]
        BY <1>4, <2>3
      <3>. QED  BY <1>10, <1>11, <1>u, <1>v, <2>1, <2>2, <3>1, RequestFrame
    <2>4. CASE d = e
      BY <1>4, <1>10, <1>11, <1>u, <1>v, <2>1, <2>2, <2>4 DEF RequestInv, Covers
    <2>. QED  BY <2>3, <2>4
  <1>13. RootInv'
    <2>1. RootInv /\ epoch \in Epochs
      BY <1>0 DEF PersistInv, PipelineTypeInv
    <2>2. (InHand(epoch) => InHand(epoch)') /\ (Is(LastOf(epoch), "Committed")' => Is(LastOf(epoch), "Committed"))
      BY <1>10, <1>11, <1>u, <2>1 DEF InHand, Waits, LastOf
    <2>3. Waits(epoch, recovery.waits) => Waits(epoch, recovery.waits)'
      BY <1>u, <1>v DEF Waits, LastOf, Is, Present
    <2>. QED  BY <1>u, <1>v, <2>1, <2>2, <2>3 DEF RootInv, Covers
  <1>. QED  BY <1>3, <1>5, <1>7, <1>8, <1>9, <1>12, <1>13 DEF GceiInv, PersistInv

LEMMA StartNewEpochStep == ASSUME GceiInv, Running, StartNewEpoch PROVE GceiInv'
  <1>0. /\ RethInv /\ TypeInv /\ BootInv /\ PipelineTypeInv /\ QueueInv /\ TaskInv /\ PersistInv
        /\ boundary \in Boundaries /\ RecoverInv /\ ProofInv /\ EpochInv
    BY DEF GceiInv, RethInv, TypeInv
  <1>u. /\ UNCHANGED <<bufferVars, rethVars, queueVars, orphans, persist_q, persisting, recovery,
                       panics, timeouts, resets>>
        /\ phase = "ending" /\ phase' = "run" /\ epoch' = epoch + 1 /\ root' = proof /\ proof' = None
    BY DEF StartNewEpoch
  <1>v. UNCHANGED <<current_epoch, exec_epoch, executed, results, vote, epoch_change_info, blocks, persisted,
                    boundary, items, tasks, retries>>
    BY <1>u DEF bufferVars, rethVars, pipeVars, queueVars
  <1>1. /\ proof = boundary[epoch] /\ proof <= persisted /\ tasks = <<>> /\ retries = 0 /\ items = <<>>
    BY <1>0, <1>u DEF ProofInv, TaskInv, QueueInv
  <1>2. /\ epoch \in Epochs /\ epoch \in Nat /\ epoch >= 1 /\ root \in Nat /\ persisted \in Numbers
        /\ persisted <= MaxBlock /\ boundary[epoch] \in Nat /\ persisted \in Nat
    BY <1>0, EpochFacts, NumberFacts DEF TypeInv
  <1>3. /\ epoch + 1 \in Epochs /\ boundary[epoch] < boundary[epoch + 1] /\ boundary[epoch] \in Numbers
        /\ boundary[epoch + 1] \in Nat
    <2>1. boundary[epoch] <= MaxBlock
      BY <1>1, <1>2, NumberFacts
    <2>. QED  BY <1>0, <1>2, <2>1, BoundaryFacts, NumberFacts
  <1>4. RethInv' /\ LastKept
    BY <1>0, <1>u, UnchangedStep
  <1>5. PipelineTypeInv'
    <2>1. epoch' \in Epochs \ {0} /\ root' \in Numbers
      BY <1>1, <1>2, <1>3, <1>u
    <2>. QED  BY <1>0, <1>u, <1>v, <2>1 DEF PipelineTypeInv
  <1>6. BootInv'
    BY <1>0, <1>u, <1>v, BootKept
  <1>7. QueueInv'
    <2>1. Base(epoch)' <= root'
      BY <1>1, <1>2, <1>u, <1>v DEF Base
    <2>2. items' = <<>> /\ Len(items') = 0
      BY <1>1, <1>v
    <2>. QED  BY <2>1, <2>2 DEF QueueInv
  <1>8. TaskInv'
    <2>1. \A t \in orphans : TaskOK(t)'
      <3>. SUFFICES ASSUME NEW t \in orphans PROVE TaskOK(t)'
        OBVIOUS
      <3>1. TaskOK(t) /\ t.epoch \in Nat
        BY <1>0, NumberFacts DEF TaskInv, PipelineTypeInv, Tasks
      <3>. QED  BY <1>2, <1>u, <1>v, <3>1 DEF TaskOK, Base
    <2>2. tasks' = <<>> /\ Len(tasks') = 0
      BY <1>1, <1>v
    <2>3. \A d \in Epochs, n \in Numbers : blocks'[<<d, n>>] # None => d <= epoch'
      <3>1. \A d \in Epochs, n \in Numbers : blocks[<<d, n>>] # None => d <= epoch /\ d \in Nat
        BY <1>0, NumberFacts DEF TaskInv
      <3>. QED  BY <1>2, <1>u, <1>v, <3>1
    <2>. QED  BY <1>u, <2>1, <2>2, <2>3 DEF TaskInv
  <1>9. RecoverInv' /\ ProofInv'
    BY <1>u DEF RecoverInv, ProofInv
  <1>10. EpochInv'
    BY <1>0, <1>u, <1>v DEF EpochInv
  <1>11. ASSUME NEW e \in Epochs PROVE RequestInv(e)'
    <2>1. RequestInv(e) /\ e \in Nat
      BY <1>0, NumberFacts DEF PersistInv
    <2>2. persist_q'[e] = persist_q[e] /\ persist_q[e] \in Seq(Requests) /\ persisting'[e] = persisting[e]
          /\ root' \in Nat
      BY <1>0, <1>1, <1>2, <1>u DEF PipelineTypeInv
    <2>3. (e > epoch' => e > epoch) /\ (e = epoch' => persist_q[e] = <<>>)
      BY <1>2, <1>u, <2>1 DEF RequestInv
    <2>4. InHand(e) => InHand(e)'
      BY <1>u, <1>v DEF InHand, Waits, LastOf, Is, Present
    <2>5. Is(LastOf(e), "Committed")' => Is(LastOf(e), "Committed")
      BY <1>v DEF LastOf, Is, Present
    <2>. QED  BY <1>2, <1>v, <2>1, <2>2, <2>3, <2>4, <2>5, RequestFrame
  <1>12. RootInv'
    <2>1. ~Is(LastOf(epoch), "Committed")'
      <3>1. blocks[<<epoch + 1, boundary[epoch + 1]>>] # None /\ boundary[epoch + 1] \in Numbers => epoch + 1 <= epoch
        BY <1>0, <1>3 DEF TaskInv
      <3>2. ~(blocks[<<epoch + 1, boundary[epoch + 1]>>] # None /\ boundary[epoch + 1] \in Numbers)
        BY <1>2, <3>1
      <3>. QED  BY <1>u, <1>v, <3>2, KeyFacts DEF LastOf, Is, Present
    <2>2. ~(root' >= boundary'[epoch'])
      BY <1>1, <1>2, <1>3, <1>u, <1>v
    <2>. QED  BY <1>u, <2>1, <2>2 DEF RootInv
  <1>. QED  BY <1>4, <1>5, <1>6, <1>7, <1>8, <1>9, <1>10, <1>11, <1>12 DEF GceiInv, PersistInv

\* A step of the recovery that is not the last one.
LEMMA RecoverFrame ==
  ASSUME GceiInv, Running, RethInv', LastKept, phase \in {"resetting", "recover"}, phase' \in {"run", "recover"},
         UNCHANGED <<current_epoch, exec_epoch, executed, results, vote, epoch_change_info, persisted, boundary>>,
         UNCHANGED <<epoch, root, items, tasks, retries, orphans, persist_q, persisting, proof, resets>>,
         \A d \in Epochs, m \in Numbers : blocks'[<<d, m>>] # None => blocks[<<d, m>>] # None \/ d <= epoch,
         phase' = "recover" => recovery' \in Recoveries, RecoverInv',
         root < boundary[epoch] => ~Is(LastOf(epoch), "Committed"),
         ~(phase' = "recover" /\ recovery'.pc = "wait")
  PROVE  GceiInv'
  <1>0. /\ RethInv /\ TypeInv /\ BootInv /\ PipelineTypeInv /\ QueueInv /\ TaskInv /\ PersistInv
        /\ boundary \in Boundaries /\ ProofInv /\ EpochInv
    BY DEF GceiInv, RethInv, TypeInv
  <1>1. BootInv'
    BY <1>0, BootKept
  <1>2. PipelineTypeInv'
    BY <1>0 DEF PipelineTypeInv
  <1>3. QueueInv'
    <2>1. items = <<>> /\ Len(items) = 0
      BY <1>0 DEF QueueInv
    <2>. QED  BY <1>0, <2>1 DEF QueueInv, Base
  <1>4. TaskInv'
    <2>1. \A t : TaskOK(t)' <=> TaskOK(t)
      BY DEF TaskOK, Base
    <2>2. \A i \in 1 .. Len(tasks) : TaskOK(tasks[i])' <=> TaskOK(tasks[i])
      BY DEF TaskOK, Base
    <2>3. \A d \in Epochs, m \in Numbers : blocks'[<<d, m>>] # None => d <= epoch'
      BY <1>0 DEF TaskInv
    <2>. QED  BY <1>0, <2>1, <2>2, <2>3 DEF TaskInv
  <1>5. ProofInv' /\ EpochInv'
    BY <1>0 DEF ProofInv, EpochInv
  <1>6. /\ \A e \in Epochs : /\ InHand(e) => InHand(e)'
                             /\ Is(LastOf(e), "Committed")' => Is(LastOf(e), "Committed")
        /\ epoch \in Epochs /\ epoch \in Nat /\ root \in Nat
    <2>1. persisted \in Nat
      BY <1>0, Counts
    <2>. QED  BY <1>0, <2>1, InHandKept, EpochFacts
  <1>7. ASSUME NEW e \in Epochs PROVE RequestInv(e)'
    <2>1. RequestInv(e) /\ persist_q[e] \in Seq(Requests)
      BY <1>0 DEF PersistInv, PipelineTypeInv
    <2>. QED  BY <1>6, <2>1, RequestFrame
  <1>8. RootInv'
    <2>1. RootInv
      BY <1>0 DEF PersistInv
    <2>2. ~(root' < boundary'[epoch'] /\ Is(LastOf(epoch), "Committed")')
      BY <1>6 DEF LastKept, LastOf
    <2>3. InHand(epoch) => InHand(epoch)'
      BY <1>6 DEF InHand, Waits, LastOf
    <2>. QED  BY <2>1, <2>2, <2>3 DEF RootInv, Covers
  <1>. QED  BY <1>1, <1>2, <1>3, <1>4, <1>5, <1>7, <1>8 DEF GceiInv, PersistInv

LEMMA RecoverFacts ==
  ASSUME GceiInv, phase = "recover"
  PROVE  /\ recovery \in Recoveries /\ recovery.lo \in Nat /\ recovery.next \in Nat /\ recovery.hi \in Nat
         /\ recovery.next \in Numbers /\ recovery.hi \in Numbers
         /\ root < recovery.lo /\ recovery.lo <= recovery.next
         /\ recovery.next <= recovery.hi /\ recovery.hi <= boundary[epoch]
         /\ epoch \in Epochs /\ epoch >= 1 /\ root \in Nat /\ Base(epoch) < recovery.next
         /\ boundary[epoch] \in Nat
  <1>0. PipelineTypeInv /\ RecoverInv /\ QueueInv /\ boundary \in Boundaries
    BY DEF GceiInv, RethInv, TypeInv
  <1>1. recovery \in Recoveries
    BY <1>0 DEF PipelineTypeInv
  <1>2. recovery.lo \in Nat /\ recovery.next \in Nat /\ recovery.hi \in Nat
        /\ recovery.next \in Numbers /\ recovery.hi \in Numbers
    BY <1>1, NumberFacts DEF Recoveries
  <1>3. epoch \in Epochs /\ epoch >= 1 /\ root \in Nat /\ Base(epoch) \in Nat /\ boundary[epoch] \in Nat
    BY <1>0, EpochFacts, BaseFacts
  <1>. QED  BY <1>0, <1>1, <1>2, <1>3 DEF RecoverInv, QueueInv

\* Before the recovery waits for it, the last block is committed by requests behind the root only.
LEMMA NotYetCommitted ==
  ASSUME GceiInv, Running, phase = "recover" => recovery.pc # "wait"
  PROVE  root < boundary[epoch] => ~Is(LastOf(epoch), "Committed")
  BY DEF GceiInv, PersistInv, RootInv

LEMMA StartRecoveryStep == ASSUME GceiInv, Running, StartRecovery PROVE GceiInv'
  <1>0. RethInv /\ PipelineTypeInv /\ boundary \in Boundaries
    BY DEF GceiInv, RethInv, TypeInv
  <1>u. /\ UNCHANGED <<bufferVars, rethVars, epoch, root, queueVars, orphans, end_seen, persist_q,
                       persisting, proof, panics, timeouts, resets>>
        /\ phase = "resetting" /\ phase' = "recover"
    BY DEF StartRecovery
  <1>v. UNCHANGED <<current_epoch, exec_epoch, executed, results, vote, epoch_change_info, blocks, persisted,
                    boundary, items, tasks, retries>>
    BY <1>u DEF bufferVars, rethVars, pipeVars, queueVars
  <1>1. PICK hi \in root + 1 .. MaxBlock :
          /\ hi <= boundary[epoch]
          /\ recovery' = [lo |-> root + 1, next |-> root + 1, hi |-> hi, pc |-> "set", waits |-> {}]
    BY DEF StartRecovery
  <1>2. root \in Nat /\ hi \in Numbers /\ root + 1 \in Numbers /\ root + 1 <= hi
    <2>1. root \in Nat
      BY <1>0, EpochFacts
    <2>2. hi \in Nat /\ hi <= MaxBlock /\ root + 1 <= hi
      BY <2>1, NumberFacts
    <2>. QED  BY <2>1, <2>2, NumberFacts
  <1>3. recovery' \in Recoveries /\ RecoverInv' /\ recovery'.pc # "wait"
    BY <1>1, <1>2, <1>u, <1>v DEF Recoveries, RecoverInv
  <1>4. RethInv' /\ LastKept
    BY <1>0, <1>u, UnchangedStep
  <1>5. root < boundary[epoch] => ~Is(LastOf(epoch), "Committed")
    BY <1>u, NotYetCommitted
  <1>. QED  BY <1>u, <1>v, <1>3, <1>4, <1>5, RecoverFrame

LEMMA SkipRecoveryStep == ASSUME GceiInv, Running, SkipRecovery PROVE GceiInv'
  <1>u. /\ UNCHANGED <<bufferVars, rethVars, epoch, root, queueVars, orphans, end_seen, persist_q,
                       persisting, proof, panics, timeouts, resets>>
        /\ phase = "resetting" /\ phase' = "run"
    BY DEF SkipRecovery
  <1>v. UNCHANGED <<current_epoch, exec_epoch, executed, results, vote, epoch_change_info, blocks, persisted,
                    boundary, items, tasks, retries>>
    BY <1>u DEF bufferVars, rethVars, pipeVars, queueVars
  <1>1. RethInv' /\ LastKept
    BY <1>u, UnchangedStep DEF GceiInv
  <1>2. root < boundary[epoch] => ~Is(LastOf(epoch), "Committed")
    BY <1>u, NotYetCommitted
  <1>3. RecoverInv'
    BY <1>u DEF RecoverInv
  <1>. QED  BY <1>u, <1>v, <1>1, <1>2, <1>3, RecoverFrame

LEMMA RecoverFailedStep == ASSUME GceiInv, Running, RecoverFailed PROVE GceiInv'
  <1>u. /\ UNCHANGED <<bufferVars, rethVars, epoch, root, queueVars, orphans, end_seen, persist_q,
                       persisting, proof, panics, timeouts, resets>>
        /\ phase = "recover" /\ phase' = "run" /\ recovery.pc = "failed"
    BY DEF RecoverFailed
  <1>v. UNCHANGED <<current_epoch, exec_epoch, executed, results, vote, epoch_change_info, blocks, persisted,
                    boundary, items, tasks, retries>>
    BY <1>u DEF bufferVars, rethVars, pipeVars, queueVars
  <1>1. RethInv' /\ LastKept
    BY <1>u, UnchangedStep DEF GceiInv
  <1>2. root < boundary[epoch] => ~Is(LastOf(epoch), "Committed")
    BY <1>u, NotYetCommitted
  <1>3. RecoverInv'
    BY <1>u DEF RecoverInv
  <1>. QED  BY <1>u, <1>v, <1>1, <1>2, <1>3, RecoverFrame

LEMMA RecoverTimeoutStep == ASSUME GceiInv, Running, RecoverTimeout PROVE GceiInv'
  <1>u. /\ UNCHANGED <<bufferVars, rethVars, phase, epoch, root, queueVars, orphans, end_seen, persist_q,
                       persisting, proof, panics, resets>>
        /\ phase = "recover" /\ recovery.pc = "get" /\ recovery' = [recovery EXCEPT !.pc = "failed"]
    BY DEF RecoverTimeout
  <1>v. UNCHANGED <<current_epoch, exec_epoch, executed, results, vote, epoch_change_info, blocks, persisted,
                    boundary, items, tasks, retries>>
    BY <1>u DEF bufferVars, rethVars, pipeVars, queueVars
  <1>1. RethInv' /\ LastKept
    BY <1>u, UnchangedStep DEF GceiInv
  <1>2. root < boundary[epoch] => ~Is(LastOf(epoch), "Committed")
    BY <1>u, NotYetCommitted
  <1>3. recovery' \in Recoveries /\ recovery'.pc = "failed" /\ recovery'.lo = recovery.lo
        /\ recovery'.next = recovery.next /\ recovery'.hi = recovery.hi
    BY <1>u, RecoverFacts DEF Recoveries
  <1>4. RecoverInv'
    BY <1>3, <1>u, <1>v DEF GceiInv, RecoverInv
  <1>. QED  BY <1>u, <1>v, <1>1, <1>2, <1>3, <1>4, RecoverFrame

LEMMA RecoverSetOrderedStep == ASSUME GceiInv, Running, RecoverSetOrdered PROVE GceiInv'
  <1>u. /\ UNCHANGED <<rethVars, phase, epoch, root, queueVars, orphans, end_seen, persist_q,
                       persisting, proof, panics, timeouts, resets>>
        /\ phase = "recover" /\ recovery.pc = "set"
        /\ SetOrderedBlocks(epoch, recovery.next, Id(epoch, recovery.next), ParentId(epoch, recovery.next))
        /\ recovery' = [recovery EXCEPT !.pc = IF SetOrderedFails(epoch) THEN "failed" ELSE "get"]
    BY DEF RecoverSetOrdered
  <1>v. UNCHANGED <<current_epoch, exec_epoch, executed, results, vote, epoch_change_info, persisted,
                    boundary, items, tasks, retries>>
    BY <1>u DEF SetOrderedBlocks, rethVars, pipeVars, queueVars
  <1>1. /\ RethInv' /\ LastKept
        /\ \A d \in Epochs, m \in Numbers : blocks'[<<d, m>>] # None => blocks[<<d, m>>] # None \/ d = epoch
    <2>1. RethInv /\ ~Early
      BY <1>u, NotEarly DEF GceiInv
    <2>. QED  BY <1>u, <2>1, RecoverFacts, SetOrderedKeeps
  <1>2. root < boundary[epoch] => ~Is(LastOf(epoch), "Committed")
    BY <1>u, NotYetCommitted
  <1>3. recovery' \in Recoveries /\ recovery'.pc # "wait" /\ recovery'.lo = recovery.lo
        /\ recovery'.next = recovery.next /\ recovery'.hi = recovery.hi
    BY <1>u, RecoverFacts DEF Recoveries
  <1>4. RecoverInv'
    BY <1>3, <1>u, <1>v DEF GceiInv, RecoverInv
  <1>5. \A d \in Epochs, m \in Numbers : blocks'[<<d, m>>] # None => blocks[<<d, m>>] # None \/ d <= epoch
    BY <1>1, NumberFacts
  <1>. QED  BY <1>u, <1>v, <1>1, <1>2, <1>3, <1>4, <1>5, RecoverFrame

LEMMA RecoverGetExecutedStep == ASSUME GceiInv, Running, RecoverGetExecuted PROVE GceiInv'
  <1>u. /\ UNCHANGED <<rethVars, phase, epoch, root, queueVars, orphans, end_seen, persist_q,
                       persisting, proof, timeouts, resets>>
        /\ phase = "recover" /\ recovery.pc = "get"
        /\ GetExecutedRes(epoch, recovery.next, Id(epoch, recovery.next))
    BY DEF RecoverGetExecuted
  <1>v. UNCHANGED <<current_epoch, exec_epoch, executed, results, vote, epoch_change_info, persisted,
                    boundary, items, tasks, retries>>
    BY <1>u DEF GetExecutedRes, rethVars, pipeVars, queueVars
  <1>1. PICK hashed \in BOOLEAN :
          /\ recovery.next = recovery.hi => hashed
          /\ \/ recovery' = [recovery EXCEPT !.pc = "failed"]
             \/ hashed /\ recovery' = [recovery EXCEPT !.pc = "commit"]
             \/ ~hashed /\ recovery' = [recovery EXCEPT !.pc = "set", !.next = @ + 1]
    BY DEF RecoverGetExecuted
  <1>2. /\ RethInv' /\ LastKept
        /\ \A d \in Epochs, m \in Numbers : blocks'[<<d, m>>] # None => blocks[<<d, m>>] # None
    BY <1>u, RecoverFacts, GetExecutedKeeps DEF GceiInv
  <1>3. root < boundary[epoch] => ~Is(LastOf(epoch), "Committed")
    BY <1>u, NotYetCommitted
  <1>4. /\ recovery' \in Recoveries /\ recovery'.pc # "wait" /\ recovery'.lo = recovery.lo /\ recovery'.hi = recovery.hi
        /\ recovery'.next = recovery.next \/ (recovery.next < recovery.hi /\ recovery'.next = recovery.next + 1)
    <2>0. recovery \in Recoveries /\ recovery.next \in Nat /\ recovery.hi \in Nat /\ recovery.next <= recovery.hi
          /\ recovery.hi \in Numbers
      BY <1>u, RecoverFacts
    <2>1. CASE recovery' = [recovery EXCEPT !.pc = "failed"] \/ recovery' = [recovery EXCEPT !.pc = "commit"]
      BY <2>0, <2>1 DEF Recoveries
    <2>2. CASE ~hashed /\ recovery' = [recovery EXCEPT !.pc = "set", !.next = @ + 1]
      <3>1. recovery.next < recovery.hi
        BY <1>1, <2>0, <2>2
      <3>2. recovery.next + 1 \in Numbers
        BY <2>0, <3>1, NumberFacts
      <3>. QED  BY <2>0, <2>2, <3>1, <3>2 DEF Recoveries
    <2>. QED  BY <1>1, <2>1, <2>2
  <1>5. RecoverInv'
    <2>1. recovery'.lo <= recovery'.next /\ recovery'.next <= recovery'.hi /\ root < recovery'.lo
          /\ recovery'.hi <= boundary[epoch]
      BY <1>4, <1>u, RecoverFacts
    <2>. QED  BY <2>1, <1>u, <1>v DEF RecoverInv
  <1>. QED  BY <1>u, <1>v, <1>2, <1>3, <1>4, <1>5, RecoverFrame

\* After the last block the root moves; a block that ends the epoch is on disk by then.
LEMMA RecoverNextStep == ASSUME GceiInv, Running, RecoverNext PROVE GceiInv'
  <1>0. /\ RethInv /\ TypeInv /\ BootInv /\ PipelineTypeInv /\ QueueInv /\ TaskInv /\ PersistInv
        /\ boundary \in Boundaries /\ RecoverInv /\ ProofInv /\ EpochInv /\ NotifyInv /\ RootInv
    BY DEF GceiInv, RethInv, TypeInv, PersistInv
  <1>u. /\ UNCHANGED <<bufferVars, rethVars, epoch, queueVars, orphans, end_seen, persist_q, persisting,
                       panics, timeouts, resets>>
        /\ phase = "recover" /\ recovery.pc = "wait" /\ \A k \in recovery.waits : ~SenderAlive(k)
    BY DEF RecoverNext
  <1>v. UNCHANGED <<current_epoch, exec_epoch, executed, results, vote, epoch_change_info, blocks, persisted,
                    boundary, items, tasks, retries>>
    BY <1>u DEF bufferVars, rethVars, pipeVars, queueVars
  <1>1. RethInv' /\ LastKept
    BY <1>0, <1>u, UnchangedStep
  <1>f. /\ recovery \in Recoveries /\ recovery.lo \in Nat /\ recovery.next \in Nat /\ recovery.hi \in Nat
        /\ recovery.hi \in Numbers /\ root < recovery.lo /\ recovery.lo <= recovery.next
        /\ recovery.next <= recovery.hi /\ recovery.hi <= boundary[epoch]
        /\ epoch \in Epochs /\ root \in Nat /\ boundary[epoch] \in Nat
    BY <1>u, RecoverFacts
  <1>2. CASE recovery.next < recovery.hi
    <2>1. /\ recovery' = [recovery EXCEPT !.pc = "set", !.next = @ + 1, !.lo = recovery.next + 1, !.waits = {}]
          /\ UNCHANGED <<phase, root, proof>>
      BY <1>2 DEF RecoverNext
    <2>2. recovery.next + 1 \in Numbers
      BY <1>2, <1>f, NumberFacts
    <2>3. recovery' \in Recoveries /\ recovery'.pc = "set" /\ recovery'.lo = recovery.next + 1
          /\ recovery'.next = recovery.next + 1 /\ recovery'.hi = recovery.hi
      BY <1>f, <2>1, <2>2 DEF Recoveries
    <2>4. RecoverInv'
      BY <1>2, <1>f, <1>u, <1>v, <2>1, <2>3 DEF RecoverInv
    <2>5. root < boundary[epoch] => ~Is(LastOf(epoch), "Committed")
      BY <1>0, <1>2, <1>f DEF RootInv
    <2>. QED  BY <1>u, <1>v, <1>1, <2>1, <2>3, <2>4, <2>5, RecoverFrame
  <1>3. CASE ~(recovery.next < recovery.hi)
    <2>1. /\ recovery' = None /\ phase' = "run" /\ root' = recovery.hi
          /\ proof' = IF recovery.hi = boundary[epoch] THEN recovery.hi ELSE proof
      BY <1>3 DEF RecoverNext
    <2>2. recovery.next = recovery.hi /\ root < root' /\ root' \in Numbers /\ root' \in Nat
      BY <1>3, <1>f, <2>1
    <2>3. recovery.hi = boundary[epoch] => boundary[epoch] <= persisted
      <3>. SUFFICES ASSUME recovery.hi = boundary[epoch] PROVE boundary[epoch] <= persisted
        OBVIOUS
      <3>1. boundary[epoch] <= persisted \/ Waits(epoch, recovery.waits)
        BY <1>0, <1>u, <2>2 DEF RootInv
      <3>. QED  BY <1>0, <1>f, <1>u, <3>1, SentWhenPersisted
    <2>4. PipelineTypeInv'
      BY <1>0, <1>u, <1>v, <2>1, <2>2 DEF PipelineTypeInv
    <2>5. BootInv'
      BY <1>0, <1>u, <1>v, <2>1, BootKept
    <2>6. QueueInv'
      <3>1. Base(epoch)' <= root'
        <4>1. Base(epoch)' = Base(epoch) /\ Base(epoch) <= root
          BY <1>0, <1>u, <1>v DEF Base, QueueInv
        <4>2. Base(epoch) \in Nat
          BY <1>0, EpochFacts, BaseFacts
        <4>. QED  BY <1>f, <2>2, <4>1, <4>2
      <3>2. items' = <<>> /\ Len(items') = 0
        BY <1>0, <1>u, <1>v DEF QueueInv
      <3>. QED  BY <3>1, <3>2 DEF QueueInv
    <2>7. TaskInv'
      <3>1. \A t : TaskOK(t)' <=> TaskOK(t)
        BY <1>u, <1>v DEF TaskOK, Base
      <3>2. \A i \in 1 .. Len(tasks) : TaskOK(tasks[i])' <=> TaskOK(tasks[i])
        BY <1>u, <1>v DEF TaskOK, Base
      <3>. QED  BY <1>0, <1>u, <1>v, <2>1, <3>1, <3>2 DEF TaskInv
    <2>8. RecoverInv' /\ EpochInv'
      BY <1>0, <1>u, <1>v, <2>1 DEF RecoverInv, EpochInv
    <2>9. ProofInv'
      BY <1>0, <1>u, <1>v, <2>1, <2>3 DEF ProofInv
    <2>10. ASSUME NEW e \in Epochs PROVE RequestInv(e)'
      <3>1. RequestInv(e) /\ persist_q[e] \in Seq(Requests)
        BY <1>0 DEF PersistInv, PipelineTypeInv
      <3>2. InHand(e) => InHand(e)'
        BY <1>u, <1>v DEF InHand, Waits, LastOf, Is, Present
      <3>3. Is(LastOf(e), "Committed")' => Is(LastOf(e), "Committed")
        BY <1>v DEF LastOf, Is, Present
      <3>. QED  BY <1>f, <1>u, <1>v, <2>2, <3>1, <3>2, <3>3, RequestFrame
    <2>11. RootInv'
      <3>1. root' >= boundary'[epoch'] => InHand(epoch)'
        BY <1>f, <1>u, <1>v, <2>1, <2>3 DEF InHand
      <3>2. ~(root' < boundary[epoch] /\ Is(LastOf(epoch), "Committed"))
        BY <1>0, <1>f, <2>1, <2>2 DEF RootInv
      <3>3. Is(LastOf(epoch), "Committed")' => Is(LastOf(epoch), "Committed")
        BY <1>u, <1>v DEF LastOf, Is, Present
      <3>. QED  BY <1>u, <1>v, <2>1, <3>1, <3>2, <3>3 DEF RootInv
    <2>. QED  BY <1>1, <2>4, <2>5, <2>6, <2>7, <2>8, <2>9, <2>10, <2>11 DEF GceiInv, PersistInv
  <1>. QED  BY <1>2, <1>3

----------------------------------------------------------------------------
(* Consensus' steps: commits *)

\* A commit that set_commit_blocks accepts puts the epoch's last block in hand.
LEMMA CommitInHand ==
  ASSUME RethInv, UNCHANGED rethVars, NEW e \in Epochs, e >= 1, NEW nums, nums \subseteq Nat, SetCommitBlocks(e, nums),
         ~SetCommitFails(e, nums), boundary[e] \in nums, ~Is(LastOf(e), "Committed")
  PROVE  boundary[e] <= persisted \/ (Is(LastOf(e), "Committed")' /\ LastOf(e) \in CommitNotifiers(e, nums))
  <1>0. /\ TypeInv /\ StageInv /\ BlockInv /\ ExecInv /\ FoundInv /\ CommitInv /\ boundary \in Boundaries
        /\ UNCHANGED boundary
    BY DEF RethInv, TypeInv, rethVars, pipeVars
  <1>1. ~CommitRejects(e, boundary[e], Id(e, boundary[e]))
    BY DEF SetCommitFails
  <1>2. /\ persisted \in Nat /\ latest_finalized \in Nat /\ boundary[e] \in Nat /\ e \in Nat /\ Height \in Nat
        /\ current_epoch \in Nat /\ exec_epoch \in Nat /\ boundary[e] >= 1 /\ latest_finalized <= persisted
    BY <1>0, Counts, BoundaryFacts, NumberFacts DEF CommitInv
  <1>3. CASE Present(<<e, boundary[e]>>)
    <2>1. boundary[e] \in Numbers /\ blocks[<<e, boundary[e]>>] # None
      BY <1>3, KeyFacts DEF Present
    <2>2. StateOK(e, boundary[e])
      BY <1>0, <2>1 DEF BlockInv
    <2>3. blocks[<<e, boundary[e]>>].st \in {"Computed", "Historical"}
      BY <1>1, <1>3, <2>2 DEF StateOK, CommitRejects, Is, LastOf
    <2>4. CASE blocks[<<e, boundary[e]>>].st = "Historical"
      BY <2>2, <2>4 DEF StateOK
    <2>5. CASE blocks[<<e, boundary[e]>>].st = "Computed"
      <3>1. Is(<<e, boundary[e]>>, "Computed")
        BY <1>3, <2>5 DEF Is
      <3>2. Is(<<e, boundary[e]>>, "Committed")' /\ <<e, boundary[e]>> \in CommitNotifiers(e, nums)
        BY <3>1, SetCommitStep
      <3>. QED  BY <1>0, <3>2 DEF LastOf
    <2>. QED  BY <2>3, <2>4, <2>5
  <1>4. CASE ~Present(<<e, boundary[e]>>)
    <2>1. IsStaleCommit(e, boundary[e])
      BY <1>1, <1>4 DEF CommitRejects
    <2>2. CASE e < current_epoch
      <3>1. e \in 1 .. exec_epoch - 1
        BY <1>0, <1>2, <2>2, StageFacts
      <3>2. boundary[e] <= Height /\ executed[boundary[e]] = <<e, boundary[e]>>
        BY <1>0, <3>1 DEF ExecInv
      <3>3. boundary[e] \in 1 .. Height /\ boundary[e] \in Numbers
        BY <1>0, <1>2, <3>2, NumberFacts DEF ExecInv
      <3>4. blocks[<<e, boundary[e]>>] = None
        BY <1>4, <3>3, KeyFacts DEF Present
      <3>5. ~(boundary[e] >= latest_finalized)
        BY <1>0, <3>2, <3>3, <3>4 DEF FoundInv
      <3>. QED  BY <1>2, <3>5
    <2>3. CASE e = current_epoch /\ IsSuffixBlock(boundary[e])
      <3>1. Pending /\ boundary[e] > Height
        BY <1>0, <2>3, SuffixFacts
      <3>2. Height = boundary[e]
        BY <1>2, <2>3, <3>1 DEF Pending, AtEnd
      <3>. QED  BY <1>2, <3>1, <3>2
    <2>. QED  BY <2>1, <2>2, <2>3 DEF IsStaleCommit
  <1>. QED  BY <1>3, <1>4

LEMMA CommitLedgerStep ==
  ASSUME GceiInv, Running, NEW e \in Epochs, CommitLedger(e) PROVE GceiInv'
  <1>0. /\ RethInv /\ TypeInv /\ BootInv /\ PipelineTypeInv /\ QueueInv /\ TaskInv /\ PersistInv
        /\ boundary \in Boundaries /\ RecoverInv /\ ProofInv /\ EpochInv
        /\ persist_q \in [Epochs -> Seq(Requests)] /\ epoch \in Epochs /\ root \in Nat /\ epoch \in Nat
    BY EpochFacts DEF GceiInv, RethInv, TypeInv, PipelineTypeInv
  <1>u. UNCHANGED <<rethVars, phase, epoch, root, queueVars, orphans, end_seen, recovery, proof, timeouts, resets>>
    BY DEF CommitLedger
  <1>1. persisting[e] = None /\ persist_q[e] # <<>> /\ persist_q[e] \in Seq(Requests)
    BY <1>0 DEF CommitLedger
  <1>2. PICK req \in Requests : req = Head(persist_q[e]) /\ req = persist_q[e][1]
    BY <1>1
  <1>. DEFINE nums == req.lo .. req.hi
  <1>3. /\ SetCommitBlocks(e, nums)
        /\ persisting' = [persisting EXCEPT ![e] = [ends |-> req.ends, waits |-> CommitNotifiers(e, nums)]]
        /\ panics' = IF SetCommitFails(e, nums) THEN panics \cup {"failed to commit blocks"} ELSE panics
        /\ persist_q' = [persist_q EXCEPT ![e] = Tail(@)]
    BY <1>2 DEF CommitLedger
  <1>v. UNCHANGED <<current_epoch, exec_epoch, executed, results, vote, epoch_change_info, persisted,
                    boundary, items, tasks, retries>>
    BY <1>3, <1>u DEF SetCommitBlocks, rethVars, pipeVars, queueVars
  <1>4. /\ req.lo \in Nat /\ req.hi \in Nat /\ req.ends \in Numbers \cup {None} /\ nums \subseteq Nat
    BY <1>2, NumberFacts DEF Requests
  <1>5. /\ RequestInv(e) /\ 1 \in 1 .. Len(persist_q[e]) /\ Len(persist_q[e]) \in Nat
    BY <1>0, <1>1 DEF PersistInv
  <1>6. e >= 1 /\ e \in Nat /\ e <= epoch
    <2>1. ~(e > epoch) /\ e # 0
      BY <1>1, <1>5 DEF RequestInv
    <2>. QED  BY <1>0, <2>1, NumberFacts
  <1>. HIDE DEF nums
  <1>7. /\ RethInv'
        /\ \A d \in Epochs, m \in Numbers : blocks'[<<d, m>>] # None <=> blocks[<<d, m>>] # None
        /\ \A d \in Epochs : Is(LastOf(d), "Committed") => Is(LastOf(d), "Committed")'
        /\ \A d \in Epochs : Is(LastOf(d), "Committed")' =>
             Is(LastOf(d), "Committed") \/ (d = e /\ boundary[d] \in nums)
    BY <1>0, <1>3, <1>4, <1>u, SetCommitStep DEF LastOf
  <1>8. /\ CommitNotifiers(e, nums) \subseteq Keys
        /\ [ends |-> req.ends, waits |-> CommitNotifiers(e, nums)] \in PersistingRequests
    <2>1. CommitNotifiers(e, nums) \subseteq Keys
      BY DEF CommitNotifiers, Is, Present
    <2>. QED  BY <1>4, <2>1 DEF PersistingRequests
  <1>9. /\ persisting' \in [Epochs -> PersistingRequests \cup {None}]
        /\ persisting'[e].ends = req.ends /\ persisting'[e].waits = CommitNotifiers(e, nums) /\ persisting'[e] # None
        /\ \A d \in Epochs : d # e => persisting'[d] = persisting[d]
    <2>. DEFINE p == [ends |-> req.ends, waits |-> CommitNotifiers(e, nums)]
    <2>1. p \in PersistingRequests /\ p # None /\ p.ends = req.ends /\ p.waits = CommitNotifiers(e, nums)
      BY <1>8, PipelineNoneAssumption
    <2>2. persisting' = [persisting EXCEPT ![e] = p]
      BY <1>3
    <2>. HIDE DEF p
    <2>. QED  BY <1>0, <2>1, <2>2 DEF PipelineTypeInv
  <1>10. /\ persist_q' \in [Epochs -> Seq(Requests)] /\ persist_q'[e] = Tail(persist_q[e])
         /\ \A d \in Epochs : d # e => persist_q'[d] = persist_q[d]
    <2>1. Tail(persist_q[e]) \in Seq(Requests)
      BY <1>1
    <2>. QED  BY <1>0, <1>3, <2>1
  <1>11. /\ Len(persist_q'[e]) = Len(persist_q[e]) - 1
         /\ \A i \in 1 .. Len(persist_q'[e]) : /\ persist_q'[e][i] = persist_q[e][i + 1]
                                               /\ i + 1 \in 1 .. Len(persist_q[e])
    BY <1>1, <1>10
  <1>12. PipelineTypeInv' /\ QueueInv' /\ RecoverInv' /\ EpochInv' /\ ProofInv'
    BY <1>0, <1>u, <1>v, <1>9, <1>10 DEF PipelineTypeInv, QueueInv, RecoverInv, EpochInv, ProofInv, Base
  <1>13. phase # "boot"
    BY <1>0, <1>1 DEF BootInv
  <1>14. BootInv'
    BY <1>0, <1>u, <1>v, <1>13, BootKept
  <1>15. TaskInv'
    <2>1. \A x : TaskOK(x)' <=> TaskOK(x)
      BY <1>u, <1>v DEF TaskOK, Base
    <2>2. \A j \in 1 .. Len(tasks) : TaskOK(tasks[j])' <=> TaskOK(tasks[j])
      BY <1>u, <1>v DEF TaskOK, Base
    <2>. QED  BY <1>0, <1>u, <1>v, <1>7, <2>1, <2>2 DEF TaskInv
  <1>16. ASSUME Running' PROVE PersistInv'
    <2>1. ~SetCommitFails(e, nums)
      BY <1>3, <1>16 DEF Running
    <2>n. boundary[e] \in Nat /\ persisted \in Nat
      BY <1>0, BoundaryFacts, Counts
    <2>2. Covers(req, e) => boundary[e] \in nums /\ InHand(e)'
      <3>. SUFFICES ASSUME Covers(req, e) PROVE boundary[e] \in nums /\ InHand(e)'
        OBVIOUS
      <3>1. boundary[e] \in nums
        BY <1>4, <2>n DEF Covers, nums
      <3>2. ~Is(LastOf(e), "Committed")
        BY <1>2, <1>5 DEF RequestInv
      <3>3. boundary[e] <= persisted \/ (Is(LastOf(e), "Committed")' /\ LastOf(e) \in CommitNotifiers(e, nums))
        BY <1>0, <1>3, <1>4, <1>6, <1>u, <2>1, <3>1, <3>2, CommitInHand
      <3>. QED  BY <1>9, <1>v, <3>1, <3>3 DEF InHand, Waits, LastOf
    <2>3. boundary[e] \in nums => Covers(req, e)
      BY <1>4, <2>n DEF Covers, nums
    <2>4. ASSUME NEW d \in Epochs PROVE InHand(d) => InHand(d)'
      <3>1. CASE d = e
        BY <1>1, <1>v, <3>1 DEF InHand
      <3>2. CASE d # e
        BY <1>7, <1>9, <1>v, <3>2 DEF InHand, Waits, LastOf
      <3>. QED  BY <3>1, <3>2
    <2>5. ASSUME NEW d \in Epochs, d # e PROVE RequestInv(d)'
      <3>1. RequestInv(d) /\ persist_q[d] \in Seq(Requests)
        BY <1>0 DEF PersistInv
      <3>2. Is(LastOf(d), "Committed")' => Is(LastOf(d), "Committed")
        BY <1>7, <2>5
      <3>. QED  BY <1>0, <1>9, <1>10, <1>u, <1>v, <2>4, <2>5, <3>1, <3>2, RequestFrame
    <2>6. ASSUME NEW i \in 1 .. Len(persist_q[e])
          PROVE  persist_q[e][i].ends # None =>
                   /\ persist_q[e][i].ends = boundary[e]
                   /\ InHand(e)' \/ \E j \in 2 .. i : Covers(persist_q[e][j], e)
      <3>. SUFFICES ASSUME persist_q[e][i].ends # None
                    PROVE  /\ persist_q[e][i].ends = boundary[e]
                           /\ InHand(e)' \/ \E j \in 2 .. i : Covers(persist_q[e][j], e)
        OBVIOUS
      <3>1. persist_q[e][i].ends = boundary[e] /\ (InHand(e) \/ \E j \in 1 .. i : Covers(persist_q[e][j], e))
        BY <1>5 DEF RequestInv
      <3>2. CASE InHand(e)
        BY <2>4, <3>1, <3>2
      <3>3. CASE \E j \in 1 .. i : Covers(persist_q[e][j], e)
        <4>1. PICK j \in 1 .. i : Covers(persist_q[e][j], e)
          BY <3>3
        <4>2. CASE j = 1
          BY <1>2, <2>2, <3>1, <4>1, <4>2
        <4>3. CASE j # 1
          <5>1. j \in 2 .. i
            BY <4>3
          <5>. QED  BY <3>1, <4>1, <5>1
        <4>. QED  BY <4>2, <4>3
      <3>. QED  BY <3>1, <3>2, <3>3
    <2>7. RequestInv(e)'
      <3>1. ASSUME NEW i \in 1 .. Len(persist_q'[e])
            PROVE  /\ persist_q'[e][i].lo <= persist_q'[e][i].hi
                   /\ e = epoch' => persist_q'[e][i].hi <= root'
                   /\ Covers(persist_q[e][i], e)' => ~Is(LastOf(e), "Committed")'
                   /\ persist_q'[e][i].ends # None =>
                        /\ persist_q'[e][i].ends = boundary'[e]
                        /\ InHand(e)' \/ \E j \in 1 .. i : Covers(persist_q[e][j], e)'
        <4>1. PICK k \in 1 .. Len(persist_q[e]) : k = i + 1 /\ persist_q'[e][i] = persist_q[e][k] /\ 1 < k
          BY <1>11
        <4>2. /\ persist_q[e][k].lo <= persist_q[e][k].hi /\ (e = epoch => persist_q[e][k].hi <= root)
              /\ req.hi < persist_q[e][k].lo
          BY <1>2, <1>5, <4>1 DEF RequestInv
        <4>3. persist_q[e][k].lo \in Nat
          <5>1. persist_q[e][k] \in Requests
            BY <1>1
          <5>. QED  BY <5>1, NumberFacts DEF Requests
        <4>4. Covers(persist_q[e][k], e) => ~Is(LastOf(e), "Committed")'
          <5>. SUFFICES ASSUME Covers(persist_q[e][k], e), Is(LastOf(e), "Committed")' PROVE FALSE
            OBVIOUS
          <5>1. ~Is(LastOf(e), "Committed")
            BY <1>5 DEF RequestInv
          <5>2. boundary[e] \in nums
            BY <1>7, <5>1
          <5>3. boundary[e] <= req.hi /\ persist_q[e][k].lo <= boundary[e]
            BY <2>3, <5>2 DEF Covers
          <5>. QED  BY <1>4, <2>n, <4>2, <4>3, <5>3
        <4>5. ASSUME NEW j \in 2 .. k, Covers(persist_q[e][j], e) PROVE \E x \in 1 .. i : Covers(persist_q[e][x], e)'
          <5>1. j - 1 \in 1 .. i /\ j - 1 \in 1 .. Len(persist_q'[e]) /\ persist_q'[e][j - 1] = persist_q[e][j]
            BY SMTT(30), <1>11, <4>1, <4>5
          <5>2. PICK x \in 1 .. i : persist_q'[e][x] = persist_q[e][j]
            BY <5>1
          <5>. QED  BY <1>v, <4>5, <5>2 DEF Covers
        <4>6. persist_q[e][k].ends # None =>
                   /\ persist_q[e][k].ends = boundary[e]
                   /\ InHand(e)' \/ \E j \in 2 .. k : Covers(persist_q[e][j], e)
          BY <2>6
        <4>7. Covers(persist_q[e][i], e)' => Covers(persist_q[e][k], e)
          BY <1>v, <4>1 DEF Covers
        <4>. QED  BY <1>u, <1>v, <4>1, <4>2, <4>4, <4>5, <4>6, <4>7
      <3>2. ASSUME NEW i \in 1 .. Len(persist_q'[e]), NEW j \in 1 .. Len(persist_q'[e]), i < j
            PROVE  persist_q'[e][i].hi < persist_q'[e][j].lo
        <4>1. /\ i + 1 \in 1 .. Len(persist_q[e]) /\ j + 1 \in 1 .. Len(persist_q[e]) /\ i + 1 < j + 1
              /\ persist_q'[e][i] = persist_q[e][i + 1] /\ persist_q'[e][j] = persist_q[e][j + 1]
          BY <1>11, <3>2
        <4>. QED  BY <1>5, <4>1 DEF RequestInv
      <3>3. persisting'[e].ends # None => persisting'[e].ends = boundary'[e] /\ InHand(e)'
        <4>1. ~\E j \in 2 .. 1 : Covers(persist_q[e][j], e)
          OBVIOUS
        <4>. QED  BY <1>2, <1>5, <1>9, <1>v, <2>6, <4>1
      <3>4. ~(e > epoch' \/ e = 0)
        BY <1>0, <1>6, <1>u
      <3>. QED  BY <3>1, <3>2, <3>3, <3>4 DEF RequestInv
    <2>8. \A d \in Epochs : RequestInv(d)'
      BY <2>5, <2>7
    <2>9. RootInv'
      <3>0. RootInv /\ RequestInv(epoch)
        BY <1>0 DEF PersistInv
      <3>1. ASSUME root >= boundary[epoch]
            PROVE  InHand(epoch)' \/ \E j \in 1 .. Len(persist_q'[epoch']) : Covers(persist_q[epoch][j], epoch)'
        <4>1. InHand(epoch) \/ \E j \in 1 .. Len(persist_q[epoch]) : Covers(persist_q[epoch][j], epoch)
          BY <3>0, <3>1 DEF RootInv
        <4>2. CASE InHand(epoch)
          <5>1. PICK d \in Epochs : d = epoch
            BY <1>0
          <5>2. InHand(d)'
            BY <2>4, <4>2, <5>1
          <5>. QED  BY <1>u, <5>1, <5>2 DEF InHand, Waits, LastOf
        <4>3. CASE \E j \in 1 .. Len(persist_q[epoch]) : Covers(persist_q[epoch][j], epoch)
          <5>1. PICK j \in 1 .. Len(persist_q[epoch]) : Covers(persist_q[epoch][j], epoch)
            BY <4>3
          <5>2. CASE epoch # e
            BY <1>0, <1>10, <1>u, <1>v, <5>1, <5>2 DEF Covers
          <5>3. CASE epoch = e /\ j = 1
            BY <1>2, <1>u, <2>2, <5>1, <5>3 DEF InHand, Waits, LastOf
          <5>4. CASE epoch = e /\ j # 1
            <6>1. j - 1 \in 1 .. Len(persist_q'[e]) /\ persist_q'[e][j - 1] = persist_q[e][j]
              BY <1>5, <1>11, <5>4
            <6>2. PICK x \in 1 .. Len(persist_q'[e]) : persist_q'[e][x] = persist_q[e][j]
              BY <6>1
            <6>. QED  BY <1>u, <1>v, <5>1, <5>4, <6>2 DEF Covers
          <5>. QED  BY <5>2, <5>3, <5>4
        <4>. QED  BY <4>1, <4>2, <4>3
      <3>2. root < boundary[epoch] /\ Is(LastOf(epoch), "Committed")' => Is(LastOf(epoch), "Committed")
        <4>. SUFFICES ASSUME root < boundary[epoch], Is(LastOf(epoch), "Committed")', ~Is(LastOf(epoch), "Committed") PROVE FALSE
          OBVIOUS
        <4>1. PICK d \in Epochs : d = epoch
          BY <1>0
        <4>2. Is(LastOf(d), "Committed")' /\ ~Is(LastOf(d), "Committed")
          BY <1>u, <4>1 DEF LastOf
        <4>3. d = e /\ boundary[d] \in nums
          BY <1>7, <4>2
        <4>4. boundary[e] <= req.hi /\ req.hi <= root
          BY <1>2, <1>5, <2>3, <4>1, <4>3 DEF RequestInv, Covers
        <4>. QED  BY <1>0, <1>4, <2>n, <4>1, <4>3, <4>4
      <3>3. Waits(epoch, recovery.waits) => Waits(epoch, recovery.waits)'
        <4>1. PICK d \in Epochs : d = epoch
          BY <1>0
        <4>2. Is(LastOf(d), "Committed") => Is(LastOf(d), "Committed")'
          BY <1>7
        <4>. QED  BY <1>u, <1>v, <4>1, <4>2 DEF Waits, LastOf
      <3>. QED  BY <1>u, <1>v, <3>0, <3>1, <3>2, <3>3 DEF RootInv
    <2>. QED  BY <2>8, <2>9 DEF PersistInv
  <1>. QED  BY <1>7, <1>12, <1>14, <1>15, <1>16 DEF GceiInv

\* recover_blocks never commits the epoch's last block in a call that fails: it is the last of
\* its call.
LEMMA RecoverCommitStep == ASSUME GceiInv, Running, RecoverCommit PROVE GceiInv'
  <1>0. /\ RethInv /\ TypeInv /\ BootInv /\ PipelineTypeInv /\ QueueInv /\ TaskInv /\ PersistInv
        /\ boundary \in Boundaries /\ ProofInv /\ EpochInv
    BY DEF GceiInv, RethInv, TypeInv
  <1>. DEFINE nums == recovery.lo .. recovery.next
  <1>u. /\ UNCHANGED <<rethVars, phase, epoch, root, queueVars, orphans, end_seen, persist_q,
                       persisting, proof, panics, timeouts, resets>>
        /\ phase = "recover" /\ recovery.pc = "commit" /\ SetCommitBlocks(epoch, nums)
        /\ recovery' = IF SetCommitFails(epoch, nums) THEN [recovery EXCEPT !.pc = "failed"]
                       ELSE [recovery EXCEPT !.pc = "wait", !.waits = CommitNotifiers(epoch, nums)]
    BY DEF RecoverCommit
  <1>v. UNCHANGED <<current_epoch, exec_epoch, executed, results, vote, epoch_change_info, persisted,
                    boundary, items, tasks, retries>>
    BY <1>u DEF SetCommitBlocks, rethVars, pipeVars, queueVars
  <1>f. /\ recovery \in Recoveries /\ recovery.lo \in Nat /\ recovery.next \in Nat /\ recovery.hi \in Nat
        /\ root < recovery.lo /\ recovery.lo <= recovery.next
        /\ recovery.next <= recovery.hi /\ recovery.hi <= boundary[epoch]
        /\ epoch \in Epochs /\ epoch >= 1 /\ root \in Nat /\ boundary[epoch] \in Nat
    BY <1>u, RecoverFacts
  <1>1. nums \subseteq Nat /\ \A m \in nums : m <= boundary[epoch] /\ m > root
    BY <1>f
  <1>2. /\ boundary[epoch] \in nums => recovery.next = boundary[epoch]
        /\ recovery.next = boundary[epoch] => boundary[epoch] \in nums
    BY <1>f
  <1>. HIDE DEF nums
  <1>3. /\ RethInv'
        /\ \A d \in Epochs, m \in Numbers : blocks'[<<d, m>>] # None <=> blocks[<<d, m>>] # None
        /\ \A d \in Epochs : Is(LastOf(d), "Committed") => Is(LastOf(d), "Committed")'
        /\ \A d \in Epochs : Is(LastOf(d), "Committed")' =>
             \/ Is(LastOf(d), "Committed")
             \/ /\ d = epoch /\ boundary[d] \in nums
                /\ \A m \in nums : m <= boundary[d] => ~CommitRejects(epoch, m, Id(epoch, m))
    BY <1>0, <1>1, <1>f, <1>u, SetCommitStep DEF LastOf
  <1>4. root < boundary[epoch] => ~Is(LastOf(epoch), "Committed")
    BY <1>u, NotYetCommitted
  <1>5. CASE SetCommitFails(epoch, nums)
    <2>1. LastKept
      <3>1. ASSUME NEW d \in Epochs, Is(LastOf(d), "Committed")' PROVE Is(LastOf(d), "Committed")
        BY <1>1, <1>3, <1>5, <3>1 DEF SetCommitFails
      <3>. QED  BY <1>3, <3>1 DEF LastKept, LastOf
    <2>2. recovery' = [recovery EXCEPT !.pc = "failed"]
      BY <1>5, <1>u
    <2>3. recovery' \in Recoveries /\ recovery'.pc = "failed" /\ recovery'.lo = recovery.lo
          /\ recovery'.next = recovery.next /\ recovery'.hi = recovery.hi
      BY <1>f, <2>2 DEF Recoveries
    <2>4. RecoverInv'
      BY <1>f, <1>u, <1>v, <2>3 DEF RecoverInv
    <2>5. \A d \in Epochs, m \in Numbers : blocks'[<<d, m>>] # None => blocks[<<d, m>>] # None \/ d <= epoch
      BY <1>3
    <2>. QED  BY <1>3, <1>4, <1>u, <1>v, <2>1, <2>3, <2>4, <2>5, RecoverFrame
  <1>6. CASE ~SetCommitFails(epoch, nums)
    <2>1. recovery' = [recovery EXCEPT !.pc = "wait", !.waits = CommitNotifiers(epoch, nums)]
      BY <1>6, <1>u
    <2>2. CommitNotifiers(epoch, nums) \subseteq Keys
      BY DEF CommitNotifiers, Is, Present
    <2>3. recovery' \in Recoveries /\ recovery'.pc = "wait" /\ recovery'.lo = recovery.lo
          /\ recovery'.next = recovery.next /\ recovery'.hi = recovery.hi
          /\ recovery'.waits = CommitNotifiers(epoch, nums)
      BY <1>f, <2>1, <2>2 DEF Recoveries
    <2>4. PipelineTypeInv' /\ QueueInv' /\ EpochInv' /\ ProofInv'
      BY <1>0, <1>u, <1>v, <2>3 DEF PipelineTypeInv, QueueInv, EpochInv, ProofInv, Base
    <2>5. RecoverInv'
      BY <1>f, <1>u, <1>v, <2>3 DEF RecoverInv
    <2>6. BootInv'
      BY <1>0, <1>u, <1>v, BootKept
    <2>7. TaskInv'
      <3>1. \A x : TaskOK(x)' <=> TaskOK(x)
        BY <1>u, <1>v DEF TaskOK, Base
      <3>2. \A j \in 1 .. Len(tasks) : TaskOK(tasks[j])' <=> TaskOK(tasks[j])
        BY <1>u, <1>v DEF TaskOK, Base
      <3>. QED  BY <1>0, <1>3, <1>u, <1>v, <3>1, <3>2 DEF TaskInv
    <2>8. \A d \in Epochs : InHand(d) => InHand(d)'
      BY <1>3, <1>u, <1>v DEF InHand, Waits, LastOf
    <2>9. ASSUME NEW d \in Epochs PROVE RequestInv(d)'
      <3>1. RequestInv(d) /\ persist_q[d] \in Seq(Requests)
        BY <1>0 DEF PersistInv, PipelineTypeInv
      <3>2. CASE Is(LastOf(d), "Committed")' => Is(LastOf(d), "Committed")
        <4>1. epoch' = epoch /\ root' = root /\ persist_q'[d] = persist_q[d] /\ persisting'[d] = persisting[d]
              /\ root <= root /\ boundary' = boundary
          BY <1>f, <1>u, <1>v
        <4>. QED  BY <1>f, <2>8, <3>1, <3>2, <4>1, RequestFrame
      <3>3. CASE d = epoch /\ boundary[d] \in nums
        <4>1. \A i \in 1 .. Len(persist_q[d]) : ~Covers(persist_q[d][i], d)
          <5>. SUFFICES ASSUME NEW i \in 1 .. Len(persist_q[d]), Covers(persist_q[d][i], d) PROVE FALSE
            OBVIOUS
          <5>1. boundary[d] <= persist_q[d][i].hi /\ persist_q[d][i].hi <= root /\ root < boundary[d]
            BY <1>1, <3>1, <3>3 DEF RequestInv, Covers
          <5>2. persist_q[d][i].hi \in Nat
            <6>1. persist_q[d][i] \in Requests
              BY <3>1
            <6>. QED  BY <6>1, NumberFacts DEF Requests
          <5>. QED  BY <1>f, <3>3, <5>1, <5>2
        <4>2. InHand(d) => InHand(d)'
          BY <2>8
        <4>. QED  BY <1>u, <1>v, <3>1, <4>1, <4>2 DEF RequestInv, Covers
      <3>. QED  BY <1>3, <3>2, <3>3
    <2>10. RootInv'
      <3>0. RootInv
        BY <1>0 DEF PersistInv
      <3>1. InHand(epoch) => InHand(epoch)'
        <4>1. PICK d \in Epochs : d = epoch
          BY <1>f
        <4>2. InHand(d) => InHand(d)'
          BY <2>8
        <4>. QED  BY <1>u, <4>1, <4>2 DEF InHand, Waits, LastOf
      <3>2. ASSUME root < boundary[epoch], Is(LastOf(epoch), "Committed")' PROVE recovery.next = boundary[epoch]
        <4>1. PICK d \in Epochs : d = epoch
          BY <1>f
        <4>2. Is(LastOf(d), "Committed")' /\ ~Is(LastOf(d), "Committed")
          BY <1>4, <1>u, <3>2, <4>1 DEF LastOf
        <4>. QED  BY <1>2, <1>3, <4>1, <4>2
      <3>3. ASSUME recovery.next = boundary[epoch]
            PROVE  boundary[epoch] <= persisted \/ Waits(epoch, recovery.waits)'
        <4>1. PICK d \in Epochs : d = epoch
          BY <1>f
        <4>2. root < boundary[d] /\ ~Is(LastOf(d), "Committed") /\ boundary[d] \in nums /\ d >= 1
          BY <1>2, <1>4, <1>f, <3>3, <4>1
        <4>3. SetCommitBlocks(d, nums) /\ ~SetCommitFails(d, nums)
          BY <1>6, <1>u, <4>1
        <4>4. boundary[d] <= persisted \/ (Is(LastOf(d), "Committed")' /\ LastOf(d) \in CommitNotifiers(d, nums))
          BY <1>0, <1>1, <1>u, <4>2, <4>3, CommitInHand
        <4>. QED  BY <1>u, <1>v, <2>3, <4>1, <4>4 DEF Waits, LastOf
      <3>. QED  BY <1>u, <1>v, <2>3, <3>0, <3>1, <3>2, <3>3 DEF RootInv, Covers
    <2>. QED  BY <1>3, <2>4, <2>5, <2>6, <2>7, <2>9, <2>10 DEF GceiInv, PersistInv
  <1>. QED  BY <1>5, <1>6

----------------------------------------------------------------------------
(* Consensus' steps: resets and the start *)

LEMMA ReleaseEpoch ==
  ASSUME RethInv, ReleaseInflightBlocks
  PROVE  UNCHANGED bufferVars \/ current_epoch' = exec_epoch
  <1>1. CASE PendingEpochChange
    <2>1. Pending \/ Released
      BY <1>1 DEF RethInv, StageInv, Reading, Reporting, Following, Booting, Early, Idle, NoChange, PendingEpochChange
    <2>2. exec_epoch # None
      BY NumberFacts DEF RethInv, TypeInv
    <2>. QED  BY <1>1, <2>1, <2>2 DEF ReleaseInflightBlocks, Pending, Released
  <1>2. CASE ~PendingEpochChange
    BY <1>2 DEF ReleaseInflightBlocks
  <1>. QED  BY <1>1, <1>2

\* BufferManager::reset
LEMMA ResetFrame ==
  ASSUME GceiInv, Running, UNCHANGED rethVars, ReleaseInflightBlocks, items' = <<>>,
         phase = "run", phase' \in {"ending", "resetting"}, phase' = "ending" => proof # None,
         UNCHANGED <<epoch, root, persist_q, persisting, proof, panics>>,
         PipelineTypeInv', EpochInv',
         orphans' \subseteq Tasks, \A t \in orphans' : TaskOK(t),
         tasks' = tasks \/ tasks' = <<>>, phase' = "ending" => tasks' = <<>> /\ retries' = 0
  PROVE  GceiInv'
  <1>0. /\ RethInv /\ TypeInv /\ BootInv /\ PipelineTypeInv /\ QueueInv /\ TaskInv /\ PersistInv
        /\ boundary \in Boundaries /\ ProofInv
    BY DEF GceiInv, RethInv, TypeInv
  <1>u. UNCHANGED <<exec_epoch, executed, results, vote, persisted, boundary>>
    BY DEF rethVars, pipeVars
  <1>1. /\ RethInv' /\ LastKept
        /\ \A d \in Epochs, m \in Numbers : blocks'[<<d, m>>] # None => blocks[<<d, m>>] # None
    BY <1>0, ReleaseStep
  <1>2. BootInv'
    <2>1. CASE UNCHANGED bufferVars
      BY <1>0, <1>u, <2>1, BootKept DEF bufferVars
    <2>2. CASE current_epoch' = exec_epoch
      <3>1. ~(current_epoch' < exec_epoch')
        BY <1>0, <1>u, <2>2, Counts
      <3>. QED  BY <3>1 DEF BootInv
    <2>. QED  BY <1>0, <2>1, <2>2, ReleaseEpoch
  <1>3. QueueInv'
    <2>1. Base(epoch)' <= root'
      BY <1>0, <1>u DEF QueueInv, Base
    <2>2. Len(items') = 0
      OBVIOUS
    <2>. QED  BY <2>1, <2>2 DEF QueueInv
  <1>4. TaskInv'
    <2>1. \A x : TaskOK(x)' <=> TaskOK(x)
      BY <1>u DEF TaskOK, Base
    <2>2. \A j \in 1 .. Len(tasks') : TaskOK(tasks[j])' /\ tasks'[j].epoch = epoch'
      <3>1. CASE tasks' = <<>>
        BY <3>1
      <3>2. CASE tasks' = tasks
        BY <1>0, <1>u, <3>2 DEF TaskInv, TaskOK, Base
      <3>. QED  BY <3>1, <3>2
    <2>3. \A d \in Epochs, m \in Numbers : blocks'[<<d, m>>] # None => d <= epoch'
      BY <1>0, <1>1 DEF TaskInv
    <2>. QED  BY <2>1, <2>2, <2>3 DEF TaskInv
  <1>5. RecoverInv' /\ ProofInv'
    BY <1>0, <1>u DEF RecoverInv, ProofInv
  <1>6. /\ \A e \in Epochs : /\ InHand(e) => InHand(e)'
                             /\ Is(LastOf(e), "Committed")' => Is(LastOf(e), "Committed")
        /\ epoch \in Epochs /\ epoch \in Nat /\ root \in Nat
    <2>1. persisted \in Nat
      BY <1>0, Counts
    <2>. QED  BY <1>0, <1>1, <1>u, <2>1, InHandKept, EpochFacts
  <1>7. ASSUME NEW e \in Epochs PROVE RequestInv(e)'
    <2>1. RequestInv(e) /\ persist_q[e] \in Seq(Requests)
      BY <1>0 DEF PersistInv, PipelineTypeInv
    <2>. QED  BY <1>6, <1>u, <2>1, RequestFrame
  <1>8. RootInv'
    <2>1. RootInv
      BY <1>0 DEF PersistInv
    <2>2. ~(root' < boundary'[epoch'] /\ Is(LastOf(epoch), "Committed")')
      BY <1>1, <1>6, <1>u, <2>1 DEF LastKept, LastOf, RootInv
    <2>3. InHand(epoch) => InHand(epoch)'
      BY <1>6 DEF InHand, Waits, LastOf
    <2>. QED  BY <1>u, <2>1, <2>2, <2>3 DEF RootInv, Covers
  <1>. QED  BY <1>1, <1>2, <1>3, <1>4, <1>5, <1>7, <1>8 DEF GceiInv, PersistInv

\* The release of a normal epoch change finds the reconfiguration reported and moves one epoch on.
LEMMA EndEpochStep == ASSUME GceiInv, Running, EndEpoch PROVE GceiInv'
  <1>0. /\ RethInv /\ TypeInv /\ StageInv /\ BootInv /\ PipelineTypeInv /\ TaskInv /\ ExecInv /\ CommitInv
        /\ boundary \in Boundaries /\ ProofInv /\ EpochInv
    BY DEF GceiInv, RethInv, TypeInv
  <1>u. /\ UNCHANGED <<rethVars, epoch, root, end_seen, persist_q, persisting, recovery, proof,
                       panics, timeouts, resets>>
        /\ phase = "run" /\ proof # None /\ ReleaseInflightBlocks /\ items' = <<>>
        /\ tasks' = <<>> /\ retries' = 0 /\ phase' = "ending"
    BY DEF EndEpoch, Reset
  <1>1. orphans' \subseteq orphans \cup Range(tasks)
    BY DEF EndEpoch
  <1>2. orphans' \subseteq Tasks /\ \A t \in orphans' : TaskOK(t)
    <2>1. ASSUME NEW t \in Range(tasks) PROVE t \in Tasks /\ TaskOK(t)
      <3>1. tasks \in Seq(Tasks)
        BY <1>0 DEF PipelineTypeInv
      <3>2. PICK i \in DOMAIN tasks : t = tasks[i]
        BY DEF Range
      <3>3. i \in 1 .. Len(tasks) /\ tasks[i] \in Tasks
        BY <3>1, <3>2
      <3>. QED  BY <1>0, <3>2, <3>3 DEF TaskInv
    <2>. QED  BY <1>0, <1>1, <2>1 DEF PipelineTypeInv, TaskInv
  <1>3. PipelineTypeInv'
    <2>1. items' \in Seq(Items) /\ tasks' \in Seq(Tasks)
      BY <1>u
    <2>. QED  BY <1>0, <1>2, <1>u, <2>1 DEF PipelineTypeInv
  <1>4. EpochInv'
    <2>. SUFFICES ASSUME resets = 0 PROVE current_epoch' = epoch + 1
      BY <1>u DEF EpochInv
    <2>1. current_epoch = epoch
      BY <1>0, <1>u DEF EpochInv
    <2>2. proof = boundary[epoch] /\ boundary[epoch] <= persisted
      BY <1>0, <1>u DEF ProofInv
    <2>3. /\ Height \in Nat /\ Reported \in Int /\ persisted \in Nat /\ Len(delivered) \in Nat
          /\ current_epoch \in Nat /\ exec_epoch \in Nat /\ boundary[epoch] \in Nat /\ Reported <= Height
      BY <1>0, Counts, EpochFacts
    <2>4. boundary[epoch] <= Reported /\ boundary[epoch] <= Height
      BY <1>0, <2>2, <2>3 DEF CommitInv
    <2>5. exec_epoch # epoch
      BY <1>0, <2>3, <2>4 DEF ExecInv
    <2>6. current_epoch < exec_epoch
      BY <1>0, <2>1, <2>3, <2>5, StageFacts
    <2>7. ~Early
      BY <1>0, <1>u, NotEarly
    <2>8. ~Reporting
      <3>. SUFFICES ASSUME Reporting PROVE FALSE
        OBVIOUS
      <3>1. exec_epoch - 1 = epoch /\ Height = boundary[exec_epoch - 1] /\ Reported < Height
        BY <2>1, <2>3 DEF Reporting, AtEnd
      <3>. QED  BY <2>3, <2>4, <3>1
    <2>9. Pending
      BY <1>0, <2>3, <2>6, <2>7, <2>8 DEF StageInv, Reading, Released, Following, Booting
    <2>10. exec_epoch = epoch + 1
      BY <2>1, <2>3, <2>9 DEF Pending, AtEnd
    <2>. QED  BY <1>0, <1>u, <2>9, <2>10, ReleaseStep
  <1>. QED  BY <1>u, <1>2, <1>3, <1>4, ResetFrame

LEMMA FastForwardSyncStep == ASSUME GceiInv, Running, FastForwardSync PROVE GceiInv'
  <1>0. PipelineTypeInv /\ TaskInv
    BY DEF GceiInv
  <1>u. /\ UNCHANGED <<rethVars, epoch, root, tasks, retries, orphans, end_seen, persist_q, persisting, recovery,
                       proof, panics, timeouts>>
        /\ phase = "run" /\ ReleaseInflightBlocks /\ items' = <<>> /\ phase' = "resetting" /\ resets' = resets + 1
    BY DEF FastForwardSync, Reset
  <1>1. resets \in Nat /\ resets' \in Nat /\ resets' # 0
    BY <1>0, <1>u DEF PipelineTypeInv
  <1>2. PipelineTypeInv'
    <2>1. items' \in Seq(Items)
      BY <1>u
    <2>. QED  BY <1>0, <1>1, <1>u, <2>1 DEF PipelineTypeInv
  <1>3. EpochInv'
    BY <1>1 DEF EpochInv
  <1>4. orphans' \subseteq Tasks /\ \A t \in orphans' : TaskOK(t)
    BY <1>0, <1>u DEF PipelineTypeInv, TaskInv
  <1>. QED  BY <1>u, <1>2, <1>3, <1>4, ResetFrame

\* EpochManager::start corrects the buffer manager's epoch before anything is ordered.
LEMMA StartEpochManagerStep == ASSUME GceiInv, Running, StartEpochManager PROVE GceiInv'
  <1>0. /\ RethInv /\ TypeInv /\ StageInv /\ BlockInv /\ BootInv /\ PipelineTypeInv /\ QueueInv /\ TaskInv
        /\ PersistInv /\ boundary \in Boundaries /\ ProofInv
    BY DEF GceiInv, RethInv, TypeInv
  <1>u. /\ UNCHANGED <<rethVars, epoch, root, queueVars, orphans, end_seen, persist_q, persisting,
                       recovery, proof, panics, timeouts, resets>>
        /\ phase = "boot" /\ phase' = "run" /\ current_epoch' = epoch
        /\ UNCHANGED <<blocks, latest_commit, latest_finalized, next_epoch,
                       epoch_change_number, epoch_change_info, epoch_change_ready>>
    BY DEF StartEpochManager, InitEpoch
  <1>v. UNCHANGED <<reth_epoch, start_ordered_block, exec_pc, consumed, vote, start_commit_num, commit_pc,
                    commit_epoch, notifiers, down, pipe, executed, exec_epoch, results, delivered, persisted,
                    boundary, items, execution_root, tasks, retries>>
    BY <1>u DEF rethVars, execVars, commitVars, pipeVars, queueVars
  <1>1. NoChange /\ Reported = Height /\ epoch = exec_epoch
    BY <1>0, <1>u DEF BootInv
  <1>c. /\ current_epoch \in Nat /\ exec_epoch \in Nat /\ Height \in Nat /\ exec_epoch \in Epochs
        /\ persisted \in Nat /\ persisted >= persisted /\ latest_finalized \in Nat
        /\ current_epoch <= exec_epoch
        /\ Reported' = Reported /\ Height' = Height
    <2>1. exec_epoch \in Epochs /\ current_epoch <= exec_epoch
      BY <1>0, StageFacts DEF TypeInv
    <2>2. Reported' = Reported /\ Height' = Height
      BY <1>v, ReportedFrame
    <2>3. persisted \in Nat
      BY <1>0, Counts
    <2>. QED  BY <1>0, <2>1, <2>2, <2>3, Counts
  <1>2. RethInv'
    <2>1. CASE ~Early
      <3>1. current_epoch = exec_epoch
        <4>1. Reading \/ Following \/ Booting
          BY <1>0, <1>1, <1>c, <2>1, NumberFacts DEF StageInv, Reporting, Pending, Released, NoChange, TypeInv
        <4>. QED  BY <4>1 DEF Reading, Following, Booting
      <3>2. UNCHANGED bufferVars
        BY <1>1, <1>u, <3>1 DEF bufferVars
      <3>. QED  BY <1>0, <1>u, <3>2, UnchangedStep
    <2>2. CASE Early
      <3>1. TypeInv'
        BY <1>0, <1>1, <1>c, <1>u, <1>v DEF TypeInv
      <3>2. StageInv'
        BY <1>1, <1>c, <1>u, <1>v, <2>2 DEF StageInv, Booting, Early, Idle, NoChange
      <3>3. BlockInv'
        <4>. SUFFICES ASSUME NEW e \in Epochs, NEW n \in Numbers, blocks[<<e, n>>] # None
                      PROVE  PlaceOK(e, n)' /\ StateOK(e, n)'
          BY <1>u DEF BlockInv
        <4>1. PlaceOK(e, n) /\ StateOK(e, n) /\ n = Height /\ (e < exec_epoch => n <= boundary[e]) /\ e \in Nat
              /\ n \in Nat
          BY <1>0, <1>u, NumberFacts DEF BlockInv, BootInv
        <4>2. PlaceOK(e, n)'
          <5>1. e <= current_epoch /\ IF e = 0 THEN n = 0 ELSE n > Base(e)
            BY <4>1 DEF PlaceOK
          <5>2. Base(e)' = Base(e)
            BY <1>v DEF Base
          <5>. QED  BY <1>1, <1>c, <1>u, <1>v, <4>1, <5>1, <5>2 DEF PlaceOK
        <4>3. Answered(e, n) => Answered(e, n)'
          BY <1>c, <1>u, <1>v DEF Answered, NewEpoch
        <4>4. ParentOf(n)' = ParentOf(n)
          BY <1>c, <1>v DEF ParentOf, ExecutedId
        <4>. QED  BY <1>c, <1>u, <1>v, <4>1, <4>2, <4>3, <4>4 DEF StateOK
      <3>4. ExecInv' /\ FoundInv' /\ ResultInv' /\ UnreportedInv' /\ PipeInv' /\ CommitInv' /\ NotifyInv'
        <4>1. latest_finalized' \in Nat /\ latest_finalized' >= latest_finalized
          BY <1>c, <1>u
        <4>. QED  BY <1>0, <1>c, <1>u, <1>v, <4>1, ExecFrame, FoundFrame, ResultFrame, UnreportedFrame, PipeFrame,
                    CommitFrame, NotifyFrame DEF RethInv
      <3>. QED  BY <3>1, <3>2, <3>3, <3>4 DEF RethInv
    <2>. QED  BY <2>1, <2>2
  <1>3. LastKept
    BY <1>u, <1>v DEF LastKept, Is, Present
  <1>4. PipelineTypeInv'
    BY <1>0, <1>u, <1>v DEF PipelineTypeInv
  <1>5. BootInv'
    BY <1>1, <1>c, <1>u, <1>v DEF BootInv
  <1>6. QueueInv'
    <2>1. items = <<>> /\ Len(items) = 0
      BY <1>0, <1>u DEF QueueInv
    <2>. QED  BY <1>0, <1>u, <1>v, <2>1 DEF QueueInv, Base
  <1>7. TaskInv'
    <2>1. \A x : TaskOK(x)' <=> TaskOK(x)
      BY <1>u, <1>v DEF TaskOK, Base
    <2>2. \A j \in 1 .. Len(tasks) : TaskOK(tasks[j])' <=> TaskOK(tasks[j])
      BY <1>u, <1>v DEF TaskOK, Base
    <2>. QED  BY <1>0, <1>u, <1>v, <2>1, <2>2 DEF TaskInv
  <1>8. RecoverInv' /\ ProofInv' /\ EpochInv'
    BY <1>0, <1>u, <1>v DEF RecoverInv, ProofInv, EpochInv
  <1>9. /\ \A e \in Epochs : /\ InHand(e) => InHand(e)'
                             /\ Is(LastOf(e), "Committed")' => Is(LastOf(e), "Committed")
        /\ epoch \in Epochs /\ epoch \in Nat /\ root \in Nat
    BY <1>0, <1>3, <1>c, <1>u, <1>v, InHandKept, EpochFacts
  <1>10. ASSUME NEW e \in Epochs PROVE RequestInv(e)'
    <2>1. RequestInv(e) /\ persist_q[e] \in Seq(Requests)
      BY <1>0 DEF PersistInv, PipelineTypeInv
    <2>. QED  BY <1>9, <1>u, <1>v, <2>1, RequestFrame
  <1>11. RootInv'
    <2>1. RootInv
      BY <1>0 DEF PersistInv
    <2>2. ~(root' < boundary'[epoch'] /\ Is(LastOf(epoch), "Committed")')
      BY <1>3, <1>9, <1>u, <1>v, <2>1 DEF LastKept, LastOf, RootInv
    <2>3. InHand(epoch) => InHand(epoch)'
      BY <1>9, <1>u DEF InHand, Waits, LastOf
    <2>. QED  BY <1>u, <1>v, <2>1, <2>2, <2>3 DEF RootInv, Covers
  <1>. QED  BY <1>2, <1>4, <1>5, <1>6, <1>7, <1>8, <1>10, <1>11 DEF GceiInv, PersistInv

----------------------------------------------------------------------------
(* The theorems *)

LEMMA StutterStep == ASSUME GceiInv, UNCHANGED gceiVars PROVE GceiInv'
  <1>u. UNCHANGED bufferVars /\ UNCHANGED rethVars /\ UNCHANGED pipelineVars
    BY DEF gceiVars
  <1>v. UNCHANGED <<boundary, current_epoch, blocks, executed, results, vote, exec_epoch, epoch_change_info, pipe,
                    persisted, next_epoch, epoch_change_number, epoch_change_ready>>
    BY <1>u DEF bufferVars, rethVars, pipeVars
  <1>1. RethInv /\ persisted \in Nat
    BY Counts DEF GceiInv, RethInv
  <1>2. RethInv'
    BY <1>u, <1>1, UnchangedStep
  <1>3. persisted' >= persisted /\ (NoChange => NoChange')
    BY <1>v, <1>1 DEF NoChange
  <1>. QED  BY <1>u, <1>v, <1>2, <1>3, QuietStep

LEMMA NextStep == ASSUME GceiInv, Next PROVE GceiInv'
  <1>0. Running
    BY DEF Next
  <1>1. CASE ConsensusNext
    <2>1. CASE \E e \in Epochs : CommitLedger(e) \/ PersistingDone(e)
      BY <1>0, <2>1, CommitLedgerStep, PersistingDoneStep
    <2>2. CASE \/ StartEpochManager \/ OrderBatch \/ ScheduledTask \/ OrphanTask \/ TaskTimeout
               \/ ProcessExecutionFailure \/ RetrySchedule \/ ProcessExecutionResponse \/ AdvanceHead
      BY <1>0, <2>2, StartEpochManagerStep, OrderBatchStep, ScheduledTaskStep, OrphanTaskStep, TaskTimeoutStep,
         ProcessExecutionFailureStep, RetryScheduleStep, ProcessExecutionResponseStep, AdvanceHeadStep
    <2>3. CASE EndEpoch \/ StartNewEpoch \/ FastForwardSync \/ StartRecovery \/ SkipRecovery
      BY <1>0, <2>3, EndEpochStep, StartNewEpochStep, FastForwardSyncStep, StartRecoveryStep, SkipRecoveryStep
    <2>4. CASE \/ RecoverSetOrdered \/ RecoverGetExecuted \/ RecoverTimeout \/ RecoverCommit
               \/ RecoverNext \/ RecoverFailed
      BY <1>0, <2>4, RecoverSetOrderedStep, RecoverGetExecutedStep, RecoverTimeoutStep, RecoverCommitStep,
         RecoverNextStep, RecoverFailedStep
    <2>. QED  BY <1>1, <2>1, <2>2, <2>3, <2>4 DEF ConsensusNext
  <1>2. CASE RethNext /\ UNCHANGED pipelineVars
    BY <1>2, RethSteps
  <1>3. CASE Cleanup
    BY <1>3, CleanupKeeps
  <1>. QED  BY <1>1, <1>2, <1>3 DEF Next

\* The inductive invariant holds in every reachable state.
THEOREM GceiInvariant == Spec => []GceiInv
  <1>1. GceiInv /\ [Next]_gceiVars => GceiInv'
    BY StutterStep, NextStep
  <1>. QED  BY GceiInit, <1>1, PTL DEF Spec

\* One chain reaches reth.
LEMMA HeadOfPipe ==
  ASSUME RethInv, pipe # <<>>, Head(pipe).epoch = exec_epoch
  PROVE  Head(pipe) = FreshBlock(Height + 1)
  <1>1. /\ TypeInv /\ PipeInv /\ exec_epoch \in Nat /\ Height \in Nat /\ pipe \in Seq(PipeBlocks)
        /\ start_ordered_block \in Nat
    BY NumberFacts, Counts DEF RethInv, TypeInv
  <1>2. Fresh \in Int /\ Stale \in Int /\ Len(pipe) \in Nat /\ Len(pipe) >= 1 /\ Head(pipe) = pipe[1]
        /\ 1 \in 1 .. Len(pipe)
    BY <1>1 DEF Fresh, Stale
  <1>3. Stale >= 0
    BY <1>1, <1>2 DEF PipeInv, Stale
  <1>4. ~(1 <= Stale)
    BY <1>1, <1>2 DEF PipeInv
  <1>5. Stale = 0
    BY <1>2, <1>3, <1>4
  <1>6. 1 > Stale /\ Height + 1 - Stale = Height + 1
    BY <1>1, <1>5
  <1>. QED  BY <1>1, <1>2, <1>6 DEF PipeInv

\* One chain reaches reth: the block at the head of its pipe carries the number behind the last
\* executed one and names that very block as its parent, whatever timed out, was scheduled again
\* or was reset before (the parent substitution of set_ordered_blocks, start_execution's cursor).
THEOREM OneChain == Spec => []ExtendsExecuted
  <1>1. GceiInv => ExtendsExecuted
    <2>. SUFFICES ASSUME GceiInv, pipe # <<>>, Head(pipe).epoch = exec_epoch
                  PROVE  Head(pipe).num = Len(executed) + 1 /\ Head(pipe).parent = ExecutedId(Len(executed))
      BY DEF ExtendsExecuted
    <2>1. Head(pipe) = FreshBlock(Height + 1)
      BY HeadOfPipe DEF GceiInv
    <2>. QED  BY <2>1 DEF FreshBlock, ParentOf, Height
  <1>. QED  BY GceiInvariant, <1>1, PTL

\* An epoch ends in order: the epoch-change proof is of the true boundary and is sent once that
\* block is on disk (commit_ledger and the persist notifier), and until a fast-forward sync the
\* buffer manager's epoch runs ahead of consensus only while the pipeline is being ended
\* (release_inflight_blocks).
THEOREM EpochChangeInOrder == Spec => []EpochChangeOrdered
  <1>1. GceiInv => EpochChangeOrdered
    <2>. SUFFICES ASSUME GceiInv PROVE EpochChangeOrdered
      OBVIOUS
    <2>0. /\ PipelineTypeInv /\ TypeInv /\ BootInv /\ StageInv /\ ProofInv /\ EpochInv /\ boundary \in Boundaries
      BY DEF GceiInv, RethInv, TypeInv
    <2>1. epoch \in Nat /\ current_epoch \in Nat /\ persisted \in Nat /\ boundary[epoch] \in Nat /\ exec_epoch \in Nat
      BY <2>0, EpochFacts, Counts, NumberFacts DEF TypeInv
    <2>2. EpochEndIsPersisted
      BY <2>0, <2>1 DEF ProofInv, EpochEndIsPersisted
    <2>3. current_epoch <= exec_epoch
      BY <2>0, <2>1, StageFacts, NumberFacts DEF StageInv, Reading, Reporting, Pending, Released, Following, Booting, Early, AtEnd, TypeInv
    <2>4. EpochFollowsConsensus
      <3>1. CASE phase = "boot"
        BY <3>1, <2>0, <2>1, <2>3 DEF BootInv, EpochFollowsConsensus
      <3>2. CASE phase # "boot"
        BY <3>2, <2>0, <2>1 DEF EpochInv, EpochFollowsConsensus
      <3>. QED  BY <3>1, <3>2
    <2>. QED  BY <2>2, <2>4 DEF EpochChangeOrdered
  <1>. QED  BY GceiInvariant, <1>1, PTL

----------------------------------------------------------------------------
(* The refinement *)

logVars == <<executed, delivered, persisted, exec_epoch, epoch, boundary>>

LEMMA LogInit == Init => Log!Init
  <1>. SUFFICES ASSUME Init PROVE Log!Init
    OBVIOUS
  <1>1. PICK s \in Starts : InitReth(s.number, s.epoch) /\ InitPipeline(s.number, s.epoch)
    BY DEF Init
  <1>2. s.number \in Nat
    BY DEF Starts
  <1>3. delivered = executed /\ persisted = s.number /\ exec_epoch = epoch
    BY <1>1 DEF InitReth, InitPipeline
  <1>4. Len(executed) = s.number
    BY <1>1, <1>2 DEF InitReth
  <1>. QED  BY <1>3, <1>4 DEF Log!Init

\* Of reth's steps three are steps of the log.
LEMMA LogReth ==
  ASSUME GceiInv, RethNext, UNCHANGED pipelineVars
  PROVE  Log!Next \/ UNCHANGED logVars
  <1>0. RethInv /\ TypeInv /\ UNCHANGED epoch
    BY DEF GceiInv, RethInv, pipelineVars
  <1>1. CASE ExecuteBlock
    <2>1. Head(pipe) = FreshBlock(Height + 1)
      BY <1>0, <1>1, HeadOfPipe DEF ExecuteBlock
    <2>2. exec_epoch + 1 # None
      BY <1>0, NumberFacts DEF TypeInv
    <2>3. Head(pipe).epoch = exec_epoch /\ Head(pipe).num = Len(executed) + 1 /\ Head(pipe).id = <<exec_epoch, Len(executed) + 1>>
      BY <2>1 DEF FreshBlock, Height
    <2>4. /\ executed' = Append(executed, <<exec_epoch, Len(executed) + 1>>)
          /\ exec_epoch' = IF Len(executed) + 1 = boundary[exec_epoch] THEN exec_epoch + 1 ELSE exec_epoch
          /\ UNCHANGED <<delivered, persisted, boundary>>
      BY <1>1, <2>2, <2>3 DEF ExecuteBlock
    <2>. QED  BY <1>0, <2>4 DEF Log!Next, Log!Execute
  <1>2. CASE FetchCommitted
    <2>1. /\ RethInv' /\ UNCHANGED <<executed, persisted, exec_epoch>>
          /\ Len(delivered) + 1 <= Len(delivered') /\ Len(delivered') <= Height
      BY <1>0, <1>2, FetchCommittedStep
    <2>2. UNCHANGED boundary
      BY <1>2 DEF FetchCommitted
    <2>3. /\ delivered \in Seq(Keys) /\ executed \in Seq(Keys) /\ delivered' \in Seq(Keys)
          /\ \A n \in 1 .. Len(delivered') : delivered'[n] = executed[n]
      BY <1>0, <2>1 DEF RethInv, TypeInv, CommitInv
    <2>4. delivered' = SubSeq(executed, 1, Len(delivered'))
      BY <2>1, <2>3 DEF Height
    <2>5. Len(delivered') \in Len(delivered) + 1 .. Len(executed)
      BY <2>1, <2>3 DEF Height
    <2>. QED  BY <1>0, <2>1, <2>2, <2>4, <2>5 DEF Log!Next, Log!Deliver
  <1>3. CASE PersistBlock
    BY <1>0, <1>3 DEF PersistBlock, Log!Next, Log!Persist
  <1>4. CASE StartExecution \/ FetchOrdered \/ NoticeEpochChange \/ Consume \/ SwapEpoch
    BY <1>0, <1>4 DEF StartExecution, FetchOrdered, NoticeEpochChange, Consume, SwapEpoch, pipeVars, logVars
  <1>5. CASE ReceiveResult \/ ReportResult \/ LoadCommitEpoch \/ CommitTimeout
    BY <1>0, <1>5 DEF ReceiveResult, ReportResult, LoadCommitEpoch, CommitTimeout, pipeVars, logVars
  <1>6. CASE CommitSetState \/ NotifyPersisted \/ DiscardStaleBlock
    BY <1>0, <1>6 DEF CommitSetState, NotifyPersisted, DiscardStaleBlock, pipeVars, logVars
  <1>. QED  BY <1>1, <1>2, <1>3, <1>4, <1>5, <1>6 DEF RethNext

\* Of consensus' steps one is: the next epoch starts, its predecessor's last block being on disk.
LEMMA LogConsensus ==
  ASSUME GceiInv, ConsensusNext
  PROVE  Log!Next \/ UNCHANGED logVars
  <1>1. CASE StartNewEpoch
    <2>1. persisted >= boundary[epoch]
      <3>1. TypeInv /\ PipelineTypeInv /\ boundary \in Boundaries /\ ProofInv
        BY DEF GceiInv, RethInv, TypeInv
      <3>2. persisted \in Nat /\ boundary[epoch] \in Nat
        BY <3>1, EpochFacts, Counts
      <3>. QED  BY <1>1, <3>1, <3>2 DEF StartNewEpoch, ProofInv
    <2>2. epoch' = epoch + 1 /\ UNCHANGED <<executed, delivered, persisted, exec_epoch, boundary>>
      BY <1>1 DEF StartNewEpoch, rethVars, pipeVars
    <2>. QED  BY <2>1, <2>2 DEF Log!Next, Log!EnterEpoch
  <1>2. CASE ~StartNewEpoch
    <2>1. UNCHANGED <<rethVars, epoch>>
      <3>1. CASE \E e \in Epochs : CommitLedger(e) \/ PersistingDone(e)
        BY <3>1 DEF CommitLedger, PersistingDone
      <3>2. CASE StartEpochManager \/ OrderBatch \/ ScheduledTask \/ OrphanTask \/ TaskTimeout
        BY <3>2 DEF StartEpochManager, OrderBatch, ScheduledTask, OrphanTask, TaskTimeout
      <3>3. CASE ProcessExecutionFailure \/ RetrySchedule \/ ProcessExecutionResponse \/ AdvanceHead
        BY <3>3 DEF ProcessExecutionFailure, RetrySchedule, ProcessExecutionResponse, AdvanceHead
      <3>4. CASE EndEpoch \/ FastForwardSync \/ StartRecovery \/ SkipRecovery
        BY <3>4 DEF EndEpoch, FastForwardSync, StartRecovery, SkipRecovery
      <3>5. CASE RecoverSetOrdered \/ RecoverGetExecuted \/ RecoverTimeout
        BY <3>5 DEF RecoverSetOrdered, RecoverGetExecuted, RecoverTimeout
      <3>6. CASE RecoverCommit \/ RecoverNext \/ RecoverFailed
        BY <3>6 DEF RecoverCommit, RecoverNext, RecoverFailed
      <3>. QED  BY <1>2, <3>1, <3>2, <3>3, <3>4, <3>5, <3>6 DEF ConsensusNext
    <2>. QED  BY <2>1 DEF rethVars, pipeVars, logVars
  <1>. QED  BY <1>1, <1>2

LEMMA LogStep ==
  ASSUME GceiInv, [Next]_gceiVars
  PROVE  [Log!Next]_(Log!vars)
  <1>1. UNCHANGED logVars => UNCHANGED Log!vars
    BY DEF logVars, Log!vars
  <1>2. CASE UNCHANGED gceiVars
    BY <1>1, <1>2 DEF gceiVars, rethVars, pipeVars, pipelineVars, logVars
  <1>3. CASE Cleanup
    BY <1>1, <1>3 DEF Cleanup, rethVars, pipeVars, pipelineVars, logVars
  <1>. QED  BY <1>1, <1>2, <1>3, LogReth, LogConsensus DEF Next

\* A node implements the execution log: each step of reth's three tasks, of the consensus pipeline
\* or of a recovery executes one block, tells the next prefix to be committed, puts more of it on
\* disk, moves to the next epoch with its last block on disk, or leaves all of that alone.
THEOREM NodeImplementsLog == Spec => ImplementsExecutionLog
  BY LogInit, LogStep, GceiInvariant, PTL DEF Spec, ImplementsExecutionLog, Log!Spec

----------------------------------------------------------------------------
(* Commit votes *)

\* What execution answered for the last block of a batch is what every validator answers, and the
\* boundary of the epoch is still at hand for a batch behind it.
AnswerOK(t) ==
  /\ t.res = QuorumCommitInfo(epoch, t.hi).res
  /\ t.hi > boundary[epoch] => epoch_change_info # None

CursorInv == end_seen \in BOOLEAN /\ execution_root \in Numbers \cup {None}

\* Until a fast-forward sync: executed batches carry what the others sign, and every future works
\* on a batch that is in the buffer as it was scheduled, or no longer in it.
VoteInv ==
  /\ phase \notin {"resetting", "recover"}
  /\ \A i \in 1 .. Len(items) : items[i].info # None => items[i].info = QuorumCommitInfo(epoch, items[i].hi)
  /\ \A j \in 1 .. Len(tasks) : tasks[j].hi <= LastOrdered
  /\ \A j \in 1 .. Len(tasks), i \in 1 .. Len(items) : items[i].hi = tasks[j].hi => items[i].lo = tasks[j].lo
  /\ \A j \in 1 .. Len(tasks) : tasks[j].pc = "done" => AnswerOK(tasks[j])
  /\ "zip_eq" \notin panics

AnswerInv == CursorInv /\ (resets = 0 => VoteInv)

LEMMA AnswerInit == Init => AnswerInv
  <1>. SUFFICES ASSUME Init PROVE AnswerInv
    OBVIOUS
  <1>1. /\ phase = "boot" /\ items = <<>> /\ tasks = <<>> /\ execution_root = None /\ end_seen = FALSE
        /\ panics = {}
    BY DEF Init, InitPipeline
  <1>2. Len(items) = 0 /\ Len(tasks) = 0
    BY <1>1
  <1>3. 1 .. Len(items) = {} /\ 1 .. Len(tasks) = {}
    BY <1>2
  <1>4. VoteInv
    BY <1>1, <1>3 DEF VoteInv
  <1>. QED  BY <1>1, <1>4 DEF AnswerInv, CursorInv

LEMMA MinOfIndices ==
  ASSUME NEW S \in SUBSET Nat, S # {}
  PROVE  Min(S) \in S
  <1>1. PICK x \in S : \A y \in S : ~(<<y, x>> \in OpToRel(<, Nat))
    BY NatLessThanWellFounded, WFMin, Zenon
  <1>2. \A y \in S : ~(y < x)
    BY <1>1 DEF OpToRel
  <1>3. \A y \in S : x <= y
    BY <1>2
  <1>. QED  BY <1>3 DEF Min

LEMMA FirstOrderedType ==
  ASSUME NEW buffer \in Seq(Items), NEW cursor
  PROVE  FirstOrdered(buffer, cursor) \in Numbers \cup {None}
  <1>. DEFINE candidates == {i \in DOMAIN buffer : buffer[i].info = None /\ (cursor = None \/ buffer[i].hi >= cursor)}
  <1>1. FirstOrdered(buffer, cursor) = IF candidates = {} THEN None ELSE buffer[Min(candidates)].hi
    BY DEF FirstOrdered
  <1>2. candidates \in SUBSET Nat /\ \A i \in candidates : buffer[i] \in Items
    OBVIOUS
  <1>. HIDE DEF candidates
  <1>3. CASE candidates = {}
    BY <1>1, <1>3
  <1>4. CASE candidates # {}
    <2>1. PICK i \in candidates : i = Min(candidates)
      BY <1>2, <1>4, MinOfIndices
    <2>2. FirstOrdered(buffer, cursor) = buffer[i].hi
      BY <1>1, <1>4, <2>1
    <2>. QED  BY <1>2, <2>2 DEF Items
  <1>. QED  BY <1>3, <1>4

\* A step that leaves the queue alone.
LEMMA AnswerFrame ==
  ASSUME AnswerInv, UNCHANGED <<epoch, root, items, execution_root, tasks, end_seen, resets, boundary>>,
         phase' = phase \/ phase' = "run",
         epoch_change_info # None => epoch_change_info' # None,
         "zip_eq" \in panics' => "zip_eq" \in panics
  PROVE  AnswerInv'
  <1>1. LastOrdered' = LastOrdered
    BY DEF LastOrdered
  <1>2. \A e, n : QuorumCommitInfo(e, n)' = QuorumCommitInfo(e, n)
    BY DEF QuorumCommitInfo
  <1>3. \A j \in 1 .. Len(tasks) : QuorumCommitInfo(epoch, tasks[j].hi)' = QuorumCommitInfo(epoch, tasks[j].hi)
    BY DEF QuorumCommitInfo
  <1>4. \A i \in 1 .. Len(items) : QuorumCommitInfo(epoch, items[i].hi)' = QuorumCommitInfo(epoch, items[i].hi)
    BY DEF QuorumCommitInfo
  <1>5. \A j \in 1 .. Len(tasks) : AnswerOK(tasks[j]) => AnswerOK(tasks[j])'
    BY <1>3 DEF AnswerOK
  <1>6. VoteInv => VoteInv'
    BY <1>1, <1>4, <1>5 DEF VoteInv
  <1>. QED  BY <1>6 DEF AnswerInv, CursorInv

\* A step that moves the futures of the batches only.
LEMMA AnswerTasks ==
  ASSUME AnswerInv, UNCHANGED <<phase, epoch, root, items, end_seen, resets, boundary, epoch_change_info, panics>>,
         execution_root' \in Numbers \cup {None},
         resets = 0 => \A j \in 1 .. Len(tasks') :
           /\ tasks'[j].hi <= LastOrdered
           /\ \A i \in 1 .. Len(items) : items[i].hi = tasks'[j].hi => items[i].lo = tasks'[j].lo
           /\ tasks'[j].pc = "done" => AnswerOK(tasks'[j])
  PROVE  AnswerInv'
  <1>1. LastOrdered' = LastOrdered
    BY DEF LastOrdered
  <1>3. \A t : AnswerOK(t) => AnswerOK(t)'
    BY DEF AnswerOK, QuorumCommitInfo
  <1>4. \A i \in 1 .. Len(items) : QuorumCommitInfo(epoch, items[i].hi)' = QuorumCommitInfo(epoch, items[i].hi)
    BY DEF QuorumCommitInfo
  <1>5. \A j \in 1 .. Len(tasks') : AnswerOK(tasks'[j]) => AnswerOK(tasks[j])'
    BY DEF AnswerOK, QuorumCommitInfo
  <1>6. resets = 0 => VoteInv'
    <2>. SUFFICES ASSUME resets = 0 PROVE VoteInv'
      OBVIOUS
    <2>1. VoteInv
      BY DEF AnswerInv
    <2>. QED  BY <1>1, <1>4, <1>5, <2>1 DEF VoteInv
  <1>. QED  BY <1>6 DEF AnswerInv, CursorInv

\* What get_executed_res answers in the running epoch is what every validator answers.
LEMMA AnswerTruth ==
  ASSUME GceiInv, current_epoch = epoch, NEW n \in Numbers, ExecutedRes(epoch, n, Id(epoch, n)).kind = "ok"
  PROVE  /\ ExecutedRes(epoch, n, Id(epoch, n)).res = QuorumCommitInfo(epoch, n).res
         /\ n > boundary[epoch] => epoch_change_info # None
  <1>0. /\ TypeInv /\ StageInv /\ BlockInv /\ ExecInv /\ PipelineTypeInv /\ boundary \in Boundaries
    BY DEF GceiInv, RethInv, TypeInv
  <1>1. /\ epoch \in Epochs /\ epoch \in Nat /\ boundary[epoch] \in Nat /\ n \in Nat /\ Height \in Nat
        /\ exec_epoch \in Nat /\ exec_epoch >= 1 /\ Reported \in Int /\ Reported <= Height
    BY <1>0, EpochFacts, Counts, NumberFacts
  <1>2. epoch_change_info # None => exec_epoch - 1 = epoch /\ Height = boundary[epoch] /\ exec_epoch = epoch + 1
    <2>. SUFFICES ASSUME epoch_change_info # None
                  PROVE  exec_epoch - 1 = epoch /\ Height = boundary[epoch] /\ exec_epoch = epoch + 1
      OBVIOUS
    <2>1. Pending
      BY <1>0, StageFacts
    <2>2. Height = boundary[exec_epoch - 1] /\ reth_epoch = exec_epoch - 1 /\ current_epoch = reth_epoch
      BY <2>1 DEF Pending, AtEnd
    <2>. QED  BY <1>1, <2>2
  <1>3. CASE Is(<<epoch, n>>, "Ordered")
    <2>1. IsSuffixBlock(n)
      <3>. SUFFICES ASSUME ~IsSuffixBlock(n) PROVE FALSE
        OBVIOUS
      <3>1. ExecutedRes(epoch, n, Id(epoch, n)) = [kind |-> "wait"]
        BY <1>3 DEF ExecutedRes
      <3>. QED  BY <3>1
    <2>2. epoch_change_info # None /\ n > Height /\ epoch_change_info.epoch_state = exec_epoch
      BY <1>0, <2>1, SuffixFacts
    <2>3. ExecutedRes(epoch, n, Id(epoch, n)).res = Dummy(epoch + 1)
      BY <1>2, <1>3, <2>1, <2>2 DEF ExecutedRes
    <2>4. QuorumCommitInfo(epoch, n).res = Dummy(epoch + 1)
      BY <1>1, <1>2, <2>2 DEF QuorumCommitInfo
    <2>. QED  BY <2>2, <2>3, <2>4
  <1>4. CASE Is(<<epoch, n>>, "Computed") \/ Is(<<epoch, n>>, "Committed")
    <2>1. blocks[<<epoch, n>>] # None /\ blocks[<<epoch, n>>].st \in {"Computed", "Committed"}
      BY <1>4 DEF Is, Present
    <2>2. Answered(epoch, n) /\ blocks[<<epoch, n>>].id = <<epoch, n>>
      BY <1>0, <1>1, <2>1 DEF BlockInv, StateOK
    <2>3. ExecutedRes(epoch, n, Id(epoch, n)).res = blocks[<<epoch, n>>].res
      <3>1. ~Is(<<epoch, n>>, "Ordered")
        BY <2>1 DEF Is, Present
      <3>. QED  BY <1>4, <2>2, <3>1 DEF ExecutedRes, Id
    <2>4. CASE 1 <= n /\ n <= Reported /\ executed[n] = <<epoch, n>> /\ blocks[<<epoch, n>>].res = Executed(NewEpoch(epoch, n))
      <3>1. n <= boundary[epoch]
        <4>1. n \in 1 .. Height
          BY <1>1, <2>4
        <4>2. PICK e \in 1 .. exec_epoch : executed[n] = <<e, n>> /\ n <= boundary[e]
          BY <1>0, <4>1 DEF ExecInv
        <4>3. e = epoch
          BY <2>4, <4>2
        <4>. QED  BY <4>2, <4>3
      <3>2. QuorumCommitInfo(epoch, n).res = Executed(NewEpoch(epoch, n))
        <4>1. CASE n < boundary[epoch]
          BY <1>1, <4>1 DEF QuorumCommitInfo, NewEpoch
        <4>2. CASE n = boundary[epoch]
          BY <1>1, <4>2 DEF QuorumCommitInfo, NewEpoch
        <4>. QED  BY <1>1, <3>1, <4>1, <4>2
      <3>. QED  BY <1>1, <2>3, <2>4, <3>1, <3>2
    <2>5. CASE epoch_change_info # None /\ epoch = exec_epoch - 1 /\ n > Height /\ blocks[<<epoch, n>>].res = Dummy(exec_epoch)
      <3>1. QuorumCommitInfo(epoch, n).res = Dummy(epoch + 1)
        BY <1>1, <1>2, <2>5 DEF QuorumCommitInfo
      <3>. QED  BY <1>2, <2>3, <2>5, <3>1
    <2>. QED  BY <2>2, <2>4, <2>5 DEF Answered
  <1>5. CASE ~Is(<<epoch, n>>, "Ordered") /\ ~(Is(<<epoch, n>>, "Computed") \/ Is(<<epoch, n>>, "Committed"))
    <2>1. ~(epoch < current_epoch)
      BY <1>1
    <2>2. ExecutedRes(epoch, n, Id(epoch, n)) = [kind |-> "err"]
      BY <1>5, <2>1 DEF ExecutedRes
    <2>. QED  BY <2>2
  <1>. QED  BY <1>3, <1>4, <1>5

\* The steps of a future, and what they leave of it.
LEMMA TaskAnswers ==
  ASSUME GceiInv, resets = 0, NEW i \in 1 .. Len(tasks)
  PROVE  /\ SetOrderedStep(tasks[i]).lo = tasks[i].lo /\ SetOrderedStep(tasks[i]).hi = tasks[i].hi
         /\ SetOrderedStep(tasks[i]).pc # "done"
         /\ tasks[i].pc = "get" /\ Answer(tasks[i]).kind # "wait" =>
              /\ GetExecutedStep(tasks[i]).lo = tasks[i].lo /\ GetExecutedStep(tasks[i]).hi = tasks[i].hi
              /\ GetExecutedStep(tasks[i]).pc = "done" => AnswerOK(GetExecutedStep(tasks[i]))
  <1>0. /\ TypeInv /\ StageInv /\ BlockInv /\ PipelineTypeInv /\ TaskInv /\ EpochInv
        /\ tasks \in Seq(Tasks) /\ boundary \in Boundaries
    BY DEF GceiInv, RethInv, TypeInv, PipelineTypeInv
  <1>1. tasks # <<>> /\ tasks[i] \in Tasks /\ TaskOK(tasks[i]) /\ tasks[i].epoch = epoch
    BY <1>0 DEF TaskInv
  <1>2. PICK t \in Tasks : t = tasks[i] /\ TaskOK(t) /\ t.epoch = epoch
    BY <1>1
  <1>3. current_epoch = epoch
    BY <1>0, <1>1, TasksRunning DEF EpochInv
  <1>4. SetOrderedStep(t).lo = t.lo /\ SetOrderedStep(t).hi = t.hi /\ SetOrderedStep(t).pc # "done"
    <2>1. SetOrderedStep(t) = [t EXCEPT !.pc = "failed"] \/ SetOrderedStep(t) = [t EXCEPT !.pc = "get"]
      BY DEF SetOrderedStep
    <2>. QED  BY <2>1 DEF Tasks
  <1>5. ASSUME t.pc = "get", Answer(t).kind # "wait"
        PROVE  /\ GetExecutedStep(t).lo = t.lo /\ GetExecutedStep(t).hi = t.hi
               /\ GetExecutedStep(t).pc = "done" => AnswerOK(GetExecutedStep(t))
    <2>0. t.epoch \in Epochs /\ t.next \in Numbers /\ t.hi \in Numbers /\ t.next \in Nat /\ t.hi \in Nat /\ t.next <= t.hi
      <3>1. t.epoch \in Epochs /\ t.next \in Numbers /\ t.hi \in Numbers
        BY DEF Tasks
      <3>. QED  BY <1>2, <3>1, NumberFacts DEF TaskOK
    <2>1. CASE Answer(t).kind = "err"
      <3>1. GetExecutedStep(t) = [t EXCEPT !.pc = "failed"]
        BY <2>1 DEF GetExecutedStep
      <3>. QED  BY <3>1 DEF Tasks
    <2>2. CASE Answer(t).kind # "err"
      <3>1. Answer(t).kind = "ok" /\ Answer(t) = ExecutedRes(epoch, t.next, Id(epoch, t.next))
        BY <1>0, <1>2, <1>5, <2>0, <2>2, AnswerFacts DEF Answer
      <3>2. PICK r \in ComputeResults : r = Answer(t).res
        BY <1>0, <1>2, <2>0, <3>1, AnswerFacts DEF Answer
      <3>3. PICK b \in BOOLEAN : b = (t.reconfig \/ r.epoch_state # None)
        OBVIOUS
      <3>4. CASE t.next < t.hi
        <4>1. GetExecutedStep(t) = [t EXCEPT !.reconfig = b, !.pc = "set", !.next = t.next + 1]
          BY <2>2, <3>2, <3>3, <3>4 DEF GetExecutedStep, Tasks
        <4>. QED  BY <4>1 DEF Tasks
      <3>5. CASE ~(t.next < t.hi)
        <4>1. GetExecutedStep(t) = [t EXCEPT !.reconfig = b, !.pc = "done", !.res = r]
          BY <2>2, <3>2, <3>3, <3>5 DEF GetExecutedStep, Tasks
        <4>2. GetExecutedStep(t).lo = t.lo /\ GetExecutedStep(t).hi = t.hi /\ GetExecutedStep(t).res = r
          BY <4>1 DEF Tasks
        <4>3. t.next = t.hi
          BY <2>0, <3>5
        <4>4. r = QuorumCommitInfo(epoch, t.hi).res /\ (t.hi > boundary[epoch] => epoch_change_info # None)
          BY <1>3, <2>0, <3>1, <3>2, <4>3, AnswerTruth
        <4>. QED  BY <4>2, <4>4 DEF AnswerOK
      <3>. QED  BY <3>4, <3>5
    <2>. QED  BY <2>1, <2>2
  <1>. QED  BY <1>2, <1>4, <1>5

\* ScheduledTask and TaskTimeout replace one future.
LEMMA AnswerOneTask ==
  ASSUME GceiInv, AnswerInv, NEW i \in 1 .. Len(tasks), NEW t, tasks' = [tasks EXCEPT ![i] = t],
         t.lo = tasks[i].lo, t.hi = tasks[i].hi, resets = 0 /\ t.pc = "done" => AnswerOK(t),
         UNCHANGED <<phase, epoch, root, items, execution_root, end_seen, resets, boundary, epoch_change_info, panics>>
  PROVE  AnswerInv'
  <1>1. tasks \in Seq(Tasks)
    BY DEF GceiInv, PipelineTypeInv
  <1>2. Len(tasks') = Len(tasks) /\ tasks'[i] = t /\ \A j \in 1 .. Len(tasks) : j # i => tasks'[j] = tasks[j]
    BY <1>1
  <1>3. ASSUME resets = 0, NEW j \in 1 .. Len(tasks')
        PROVE  /\ tasks'[j].hi <= LastOrdered
               /\ \A k \in 1 .. Len(items) : items[k].hi = tasks'[j].hi => items[k].lo = tasks'[j].lo
               /\ tasks'[j].pc = "done" => AnswerOK(tasks'[j])
    <2>1. VoteInv
      BY <1>3 DEF AnswerInv
    <2>2. tasks'[j].hi = tasks[j].hi /\ tasks'[j].lo = tasks[j].lo /\ j \in 1 .. Len(tasks)
      BY <1>2
    <2>3. tasks'[j].pc = "done" => AnswerOK(tasks'[j])
      <3>1. CASE j = i
        BY <1>2, <1>3, <3>1
      <3>2. CASE j # i
        BY <1>2, <2>1, <2>2, <3>2 DEF VoteInv
      <3>. QED  BY <3>1, <3>2
    <2>. QED  BY <2>1, <2>2, <2>3 DEF VoteInv
  <1>4. execution_root' \in Numbers \cup {None}
    BY DEF AnswerInv, CursorInv
  <1>. QED  BY <1>3, <1>4, AnswerTasks

LEMMA ScheduledTaskAnswer == ASSUME GceiInv, AnswerInv, ScheduledTask PROVE AnswerInv'
  <1>u. UNCHANGED <<rethVars, phase, epoch, root, items, execution_root, end_seen, resets, panics>>
    BY DEF ScheduledTask
  <1>1. PICK i \in DOMAIN tasks :
          \/ TaskSetOrdered(tasks[i]) /\ tasks' = [tasks EXCEPT ![i] = SetOrderedStep(@)]
          \/ TaskGetExecuted(tasks[i]) /\ tasks' = [tasks EXCEPT ![i] = GetExecutedStep(@)]
    BY DEF ScheduledTask
  <1>2. i \in 1 .. Len(tasks) /\ tasks[i] \in Tasks
    BY DEF GceiInv, PipelineTypeInv
  <1>3. UNCHANGED <<boundary, epoch_change_info>>
    BY <1>u, <1>1 DEF rethVars, pipeVars, TaskSetOrdered, TaskGetExecuted, SetOrderedBlocks, GetExecutedRes
  <1>4. TypeInv /\ StageInv /\ BlockInv /\ TaskOK(tasks[i])
    BY <1>2 DEF GceiInv, RethInv, TaskInv
  <1>5. CASE TaskSetOrdered(tasks[i]) /\ tasks' = [tasks EXCEPT ![i] = SetOrderedStep(@)]
    <2>1. PICK t : t = SetOrderedStep(tasks[i])
      OBVIOUS
    <2>2. t.lo = tasks[i].lo /\ t.hi = tasks[i].hi /\ t.pc # "done"
      <3>1. t = [tasks[i] EXCEPT !.pc = "failed"] \/ t = [tasks[i] EXCEPT !.pc = "get"]
        BY <2>1 DEF SetOrderedStep
      <3>. QED  BY <1>2, <3>1 DEF Tasks
    <2>3. tasks' = [tasks EXCEPT ![i] = t]
      BY <1>5, <2>1
    <2>. QED  BY <1>u, <1>2, <1>3, <2>2, <2>3, AnswerOneTask
  <1>6. CASE TaskGetExecuted(tasks[i]) /\ tasks' = [tasks EXCEPT ![i] = GetExecutedStep(@)]
    <2>1. PICK t : t = GetExecutedStep(tasks[i])
      OBVIOUS
    <2>2. tasks' = [tasks EXCEPT ![i] = t] /\ tasks[i].pc = "get" /\ Answer(tasks[i]).kind # "wait"
      BY <1>6, <2>1 DEF TaskGetExecuted
    <2>3. CASE resets = 0
      <3>1. t.lo = tasks[i].lo /\ t.hi = tasks[i].hi /\ (t.pc = "done" => AnswerOK(t))
        BY <1>2, <2>1, <2>2, <2>3, TaskAnswers
      <3>. QED  BY <1>u, <1>2, <1>3, <2>2, <3>1, AnswerOneTask
    <2>4. CASE resets # 0
      BY <1>u, <2>4 DEF AnswerInv, CursorInv
    <2>. QED  BY <2>3, <2>4
  <1>. QED  BY <1>1, <1>5, <1>6

LEMMA TaskTimeoutAnswer == ASSUME GceiInv, AnswerInv, TaskTimeout PROVE AnswerInv'
  <1>u. UNCHANGED <<bufferVars, rethVars, phase, epoch, root, items, execution_root, end_seen, resets, panics>>
    BY DEF TaskTimeout
  <1>1. PICK i \in DOMAIN tasks : tasks' = [tasks EXCEPT ![i].pc = "failed"]
    BY DEF TaskTimeout
  <1>2. i \in 1 .. Len(tasks) /\ tasks[i] \in Tasks
    BY DEF GceiInv, PipelineTypeInv
  <1>3. PICK t : t = [tasks[i] EXCEPT !.pc = "failed"]
    OBVIOUS
  <1>4. tasks' = [tasks EXCEPT ![i] = t]
    BY <1>1, <1>3
  <1>5. t.lo = tasks[i].lo /\ t.hi = tasks[i].hi /\ t.pc # "done"
    BY <1>2, <1>3 DEF Tasks
  <1>6. UNCHANGED <<boundary, epoch_change_info>>
    BY <1>u DEF bufferVars, rethVars, pipeVars
  <1>. QED  BY <1>u, <1>2, <1>4, <1>5, <1>6, AnswerOneTask

LEMMA ProcessExecutionFailureAnswer == ASSUME GceiInv, AnswerInv, ProcessExecutionFailure PROVE AnswerInv'
  <1>0. tasks \in Seq(Tasks) /\ items \in Seq(Items)
    BY DEF GceiInv, PipelineTypeInv
  <1>u. UNCHANGED <<bufferVars, rethVars, phase, epoch, root, items, end_seen, resets, panics>>
    BY DEF ProcessExecutionFailure
  <1>v. UNCHANGED <<boundary, epoch_change_info>>
    BY <1>u DEF bufferVars, rethVars, pipeVars
  <1>1. tasks # <<>> /\ tasks' = Tail(tasks) /\ execution_root' = FirstOrdered(items, execution_root)
    BY DEF ProcessExecutionFailure
  <1>2. \A i \in 1 .. Len(tasks') : tasks'[i] = tasks[i + 1] /\ i + 1 \in 1 .. Len(tasks)
    BY <1>0, <1>1
  <1>3. execution_root' \in Numbers \cup {None}
    BY <1>0, <1>1, FirstOrderedType
  <1>4. ASSUME resets = 0, NEW j \in 1 .. Len(tasks')
        PROVE  /\ tasks'[j].hi <= LastOrdered
               /\ \A i \in 1 .. Len(items) : items[i].hi = tasks'[j].hi => items[i].lo = tasks'[j].lo
               /\ tasks'[j].pc = "done" => AnswerOK(tasks'[j])
    <2>1. VoteInv
      BY <1>4 DEF AnswerInv
    <2>2. PICK k \in 1 .. Len(tasks) : tasks'[j] = tasks[k]
      BY <1>2
    <2>. QED  BY <2>1, <2>2 DEF VoteInv
  <1>. QED  BY <1>u, <1>v, <1>3, <1>4, AnswerTasks

\* retry_schedule_phase schedules the batches as they are.
LEMMA RetryScheduleAnswer == ASSUME GceiInv, AnswerInv, RetrySchedule PROVE AnswerInv'
  <1>0. /\ tasks \in Seq(Tasks) /\ items \in Seq(Items) /\ QueueInv /\ PipelineTypeInv /\ boundary \in Boundaries
    BY DEF GceiInv, PipelineTypeInv, RethInv, TypeInv
  <1>u. UNCHANGED <<bufferVars, rethVars, phase, epoch, root, items, execution_root, end_seen, resets, panics>>
    BY DEF RetrySchedule
  <1>v. UNCHANGED <<boundary, epoch_change_info>>
    BY <1>u DEF bufferVars, rethVars, pipeVars
  <1>1. PICK first \in 1 .. Len(items) + 1 :
          tasks' = tasks \o [j \in 1 .. Len(items) + 1 - first |->
                               Task(items[first + j - 1].lo, items[first + j - 1].hi)]
    BY DEF RetrySchedule
  <1>2. PICK size \in Nat : size = Len(items) + 1 - first
    <2>1. Len(items) \in Nat
      BY <1>0
    <2>2. first \in Nat /\ first <= Len(items) + 1
      BY <2>1
    <2>. QED  BY <2>1, <2>2
  <1>. DEFINE again == [j \in 1 .. size |-> Task(items[first + j - 1].lo, items[first + j - 1].hi)]
  <1>3. ASSUME NEW j \in 1 .. size
        PROVE  /\ again[j] \in Tasks
               /\ \E i \in 1 .. Len(items) : again[j].lo = items[i].lo /\ again[j].hi = items[i].hi
               /\ again[j].pc = "set"
    <2>1. PICK i \in 1 .. Len(items) : i = first + j - 1
      BY <1>0, <1>1, <1>2
    <2>2. items[i] \in Items /\ root < items[i].lo /\ items[i].lo <= items[i].hi
      BY <1>0 DEF QueueInv
    <2>3. items[i].lo \in Numbers /\ items[i].hi \in Numbers
      BY <2>2 DEF Items
    <2>4. again[j] = Task(items[i].lo, items[i].hi)
      BY <2>1
    <2>5. again[j].lo = items[i].lo /\ again[j].hi = items[i].hi /\ again[j].pc = "set"
      BY <2>4 DEF Task
    <2>. QED  BY <1>0, <2>2, <2>3, <2>4, <2>5, NewTask
  <1>4. again \in Seq(Tasks) /\ Len(again) = size
    <2>1. again = [j \in 1 .. size |-> again[j]] /\ \A j \in 1 .. size : again[j] \in Tasks
      BY <1>3
    <2>. HIDE DEF again
    <2>. QED  BY <1>2, <2>1
  <1>5. tasks' = tasks \o again
    BY <1>1, <1>2
  <1>. HIDE DEF again
  <1>6. /\ Len(tasks') = Len(tasks) + size /\ Len(tasks) \in Nat
        /\ \A i \in 1 .. Len(tasks) : tasks'[i] = tasks[i]
        /\ \A i \in Len(tasks) + 1 .. Len(tasks') : i - Len(tasks) \in 1 .. size /\ tasks'[i] = again[i - Len(tasks)]
    BY <1>0, <1>4, <1>5, Joined
  <1>7. \A i, k \in 1 .. Len(items) : items[i].hi = items[k].hi => items[i].lo = items[k].lo
    <2>. SUFFICES ASSUME NEW i \in 1 .. Len(items), NEW k \in 1 .. Len(items), items[i].hi = items[k].hi
                  PROVE  i = k
      OBVIOUS
    <2>1. /\ Len(items) \in Nat /\ items[i].hi \in Nat /\ items[k].hi \in Nat /\ items[i].lo \in Nat /\ items[k].lo \in Nat
      <3>1. items[i] \in Items /\ items[k] \in Items /\ Len(items) \in Nat
        BY <1>0
      <3>. QED  BY <3>1, NumberFacts DEF Items
    <2>2. items[i].lo <= items[i].hi /\ items[k].lo <= items[k].hi
      BY <1>0 DEF QueueInv
    <2>3. ~(i < k) /\ ~(k < i)
      BY <1>0, <2>1, <2>2 DEF QueueInv
    <2>. QED  BY <2>3
  <1>8. ASSUME resets = 0, NEW j \in 1 .. Len(tasks')
        PROVE  /\ tasks'[j].hi <= LastOrdered
               /\ \A i \in 1 .. Len(items) : items[i].hi = tasks'[j].hi => items[i].lo = tasks'[j].lo
               /\ tasks'[j].pc = "done" => AnswerOK(tasks'[j])
    <2>1. VoteInv
      BY <1>8 DEF AnswerInv
    <2>2. CASE j \in 1 .. Len(tasks)
      BY <1>6, <2>1, <2>2 DEF VoteInv
    <2>3. CASE j \in Len(tasks) + 1 .. Len(tasks')
      <3>1. PICK i \in 1 .. Len(items) : tasks'[j].lo = items[i].lo /\ tasks'[j].hi = items[i].hi
        BY <1>3, <1>6, <2>3
      <3>2. tasks'[j].pc = "set"
        BY <1>3, <1>6, <2>3
      <3>3. items[i].hi <= LastOrdered
        BY <1>0, LastOrderedFacts
      <3>. QED  BY <1>7, <3>1, <3>2, <3>3
    <2>. QED  BY <1>6, <2>2, <2>3
  <1>9. execution_root' \in Numbers \cup {None}
    BY <1>u DEF AnswerInv, CursorInv
  <1>. QED  BY <1>u, <1>v, <1>8, <1>9, AnswerTasks

\* A step of the buffer inside an epoch.
LEMMA VoteQueue ==
  ASSUME UNCHANGED <<epoch, boundary, epoch_change_info>>, phase' \notin {"resetting", "recover"},
         \A i \in 1 .. Len(items') : items'[i].info # None => items'[i].info = QuorumCommitInfo(epoch, items'[i].hi),
         \A j \in 1 .. Len(tasks') : tasks'[j].hi <= LastOrdered',
         \A j \in 1 .. Len(tasks'), i \in 1 .. Len(items') : items'[i].hi = tasks'[j].hi => items'[i].lo = tasks'[j].lo,
         \A j \in 1 .. Len(tasks') : tasks'[j].pc = "done" => AnswerOK(tasks'[j]),
         "zip_eq" \notin panics'
  PROVE  VoteInv'
  <1>1. \A i \in 1 .. Len(items') : QuorumCommitInfo(epoch, items[i].hi)' = QuorumCommitInfo(epoch, items'[i].hi)
    BY DEF QuorumCommitInfo
  <1>2. \A j \in 1 .. Len(tasks') : AnswerOK(tasks'[j]) => AnswerOK(tasks[j])'
    BY DEF AnswerOK, QuorumCommitInfo
  <1>. QED  BY <1>1, <1>2 DEF VoteInv

LEMMA OrderBatchAnswer == ASSUME GceiInv, AnswerInv, OrderBatch PROVE AnswerInv'
  <1>0. /\ tasks \in Seq(Tasks) /\ items \in Seq(Items) /\ QueueInv /\ PipelineTypeInv
        /\ execution_root \in Numbers \cup {None}
    BY DEF GceiInv, PipelineTypeInv, AnswerInv, CursorInv
  <1>1. PICK hi \in LastOrdered + 1 .. LastOrdered + MaxBatch :
          /\ hi <= MaxBlock
          /\ items' = Append(items, [lo |-> LastOrdered + 1, hi |-> hi, info |-> None])
          /\ tasks' = Append(tasks, Task(LastOrdered + 1, hi))
    BY DEF OrderBatch
  <1>u. /\ UNCHANGED <<bufferVars, rethVars, phase, epoch, root, end_seen, panics, resets>>
        /\ phase = "run" /\ execution_root' = AdvanceRootIfNone(items', execution_root)
    BY DEF OrderBatch
  <1>v. UNCHANGED <<boundary, epoch_change_info>>
    BY <1>u DEF bufferVars, rethVars, pipeVars
  <1>2. PICK lo \in Numbers : lo = LastOrdered + 1 /\ hi \in Numbers /\ lo \in Nat /\ hi \in Nat /\ lo <= hi
                              /\ LastOrdered \in Nat
    <2>1. LastOrdered \in Nat /\ LastOrdered <= MaxBlock
      BY <1>0, LastOrderedFacts, NumberFacts
    <2>2. MaxBatch \in Nat /\ hi \in Nat /\ hi <= MaxBlock /\ LastOrdered + 1 <= hi
      BY <1>1, <2>1, PipelineAssumption
    <2>. QED  BY <2>1, <2>2, NumberFacts
  <1>3. PICK item \in Items : item = [lo |-> lo, hi |-> hi, info |-> None]
    BY <1>2 DEF Items
  <1>4. PICK t \in Tasks : t = Task(lo, hi)
    BY <1>0, <1>2, EpochFacts DEF Task, Tasks, PipelineTypeInv
  <1>5. item.lo = lo /\ item.hi = hi /\ item.info = None /\ t.lo = lo /\ t.hi = hi /\ t.pc = "set"
    BY <1>3, <1>4 DEF Task
  <1>6. items' = Append(items, item) /\ tasks' = Append(tasks, t)
    BY <1>1, <1>2, <1>3, <1>4
  <1>7. /\ items' \in Seq(Items) /\ Len(items) \in Nat /\ Len(tasks) \in Nat
        /\ Len(items') = Len(items) + 1 /\ Len(tasks') = Len(tasks) + 1
        /\ \A i \in 1 .. Len(items) : items'[i] = items[i] /\ items[i] \in Items
        /\ \A j \in 1 .. Len(tasks) : tasks'[j] = tasks[j] /\ tasks[j] \in Tasks
        /\ items'[Len(items) + 1] = item /\ tasks'[Len(tasks) + 1] = t
    BY <1>0, <1>6
  <1>8. CursorInv'
    <2>1. execution_root' \in Numbers \cup {None}
      BY <1>0, <1>u, <1>7, FirstOrderedType DEF AdvanceRootIfNone
    <2>. QED  BY <1>u, <2>1 DEF AnswerInv, CursorInv
  <1>9. ASSUME resets = 0 PROVE VoteInv'
    <2>0. VoteInv
      BY <1>9 DEF AnswerInv
    <2>1. LastOrdered' = hi
      BY <1>5, <1>7 DEF LastOrdered, Last
    <2>2. \A i \in 1 .. Len(items) : items[i].hi \in Nat /\ items[i].hi <= LastOrdered
      <3>1. \A i \in 1 .. Len(items) : items[i].hi \in Numbers
        BY <1>7 DEF Items
      <3>. QED  BY <1>0, <3>1, LastOrderedFacts, NumberFacts
    <2>3. \A j \in 1 .. Len(tasks) : tasks[j].hi \in Nat /\ tasks[j].hi <= LastOrdered
      <3>1. \A j \in 1 .. Len(tasks) : tasks[j].hi \in Numbers
        BY <1>7 DEF Tasks
      <3>. QED  BY <2>0, <3>1, NumberFacts DEF VoteInv
    <2>4. \A i \in 1 .. Len(items') : items'[i].info # None => items'[i].info = QuorumCommitInfo(epoch, items'[i].hi)
      <3>. SUFFICES ASSUME NEW i \in 1 .. Len(items'), items'[i].info # None
                    PROVE  items'[i].info = QuorumCommitInfo(epoch, items'[i].hi)
        OBVIOUS
      <3>1. i \in 1 .. Len(items)
        BY <1>5, <1>7
      <3>. QED  BY <1>7, <2>0, <3>1 DEF VoteInv
    <2>5. \A j \in 1 .. Len(tasks') : tasks'[j].hi <= LastOrdered'
      <3>. SUFFICES ASSUME NEW j \in 1 .. Len(tasks') PROVE tasks'[j].hi <= hi
        BY <2>1
      <3>1. CASE j \in 1 .. Len(tasks)
        BY <1>2, <1>7, <2>3, <3>1
      <3>2. CASE j = Len(tasks) + 1
        BY <1>2, <1>5, <1>7, <3>2
      <3>. QED  BY <1>7, <3>1, <3>2
    <2>6. ASSUME NEW j \in 1 .. Len(tasks'), NEW i \in 1 .. Len(items'), items'[i].hi = tasks'[j].hi
          PROVE  items'[i].lo = tasks'[j].lo
      <3>1. CASE j \in 1 .. Len(tasks) /\ i \in 1 .. Len(items)
        BY <1>7, <2>0, <2>6, <3>1 DEF VoteInv
      <3>2. CASE j \in 1 .. Len(tasks) /\ i = Len(items) + 1
        <4>1. tasks[j].hi = hi
          BY <1>5, <1>7, <2>6, <3>2
        <4>. QED  BY <1>2, <2>3, <3>2, <4>1
      <3>3. CASE j = Len(tasks) + 1 /\ i \in 1 .. Len(items)
        <4>1. items[i].hi = hi
          BY <1>5, <1>7, <2>6, <3>3
        <4>. QED  BY <1>2, <2>2, <3>3, <4>1
      <3>4. CASE j = Len(tasks) + 1 /\ i = Len(items) + 1
        BY <1>5, <1>7, <3>4
      <3>. QED  BY <1>7, <3>1, <3>2, <3>3, <3>4
    <2>7. \A j \in 1 .. Len(tasks') : tasks'[j].pc = "done" => AnswerOK(tasks'[j])
      <3>. SUFFICES ASSUME NEW j \in 1 .. Len(tasks'), tasks'[j].pc = "done" PROVE AnswerOK(tasks'[j])
        OBVIOUS
      <3>1. j \in 1 .. Len(tasks)
        BY <1>5, <1>7
      <3>. QED  BY <1>7, <2>0, <3>1 DEF VoteInv
    <2>8. "zip_eq" \notin panics' /\ phase' \notin {"resetting", "recover"}
      BY <1>u, <2>0 DEF VoteInv
    <2>. QED  BY <1>u, <1>v, <2>4, <2>5, <2>6, <2>7, <2>8, VoteQueue
  <1>. QED  BY <1>u, <1>8, <1>9 DEF AnswerInv

\* process_execution_response: the commit info of an answered batch.
LEMMA AnsweredInfo ==
  ASSUME GceiInv, current_epoch = epoch, NEW t \in Tasks, TaskOK(t), t.epoch = epoch, AnswerOK(t)
  PROVE  CommitInfo(t) = QuorumCommitInfo(epoch, t.hi)
  <1>0. /\ TypeInv /\ StageInv /\ PipelineTypeInv /\ boundary \in Boundaries
    BY DEF GceiInv, RethInv, TypeInv
  <1>1. /\ epoch \in Epochs /\ epoch \in Nat /\ boundary[epoch] \in Nat /\ t.hi \in Nat /\ Height \in Nat /\ exec_epoch \in Nat
    <2>1. t.hi \in Numbers
      BY DEF Tasks
    <2>. QED  BY <1>0, <2>1, EpochFacts, Counts, NumberFacts
  <1>2. epoch_change_info # None => epoch_change_info.number = boundary[epoch]
    <2>. SUFFICES ASSUME epoch_change_info # None PROVE epoch_change_info.number = boundary[epoch]
      OBVIOUS
    <2>1. Pending /\ epoch_change_info.number = Height
      BY <1>0, SuffixFacts
    <2>2. Height = boundary[exec_epoch - 1] /\ reth_epoch = exec_epoch - 1 /\ current_epoch = reth_epoch
      BY <2>1 DEF Pending, AtEnd
    <2>. QED  BY <1>1, <2>1, <2>2
  <1>3. None \notin Int /\ epoch + 1 # None /\ boundary[epoch] # None
    BY <1>1, NumberFacts
  <1>4. CASE t.hi < boundary[epoch]
    <2>1. t.res = Executed(None) /\ t.res.epoch_state = None
      BY <1>4 DEF AnswerOK, QuorumCommitInfo, Executed
    <2>2. EpochChangeBlockInfo(t.hi, t.epoch) = None
      BY <1>1, <1>2, <1>4 DEF EpochChangeBlockInfo, IsSuffixBlock
    <2>3. EpochBlockInfo(t) = None
      BY <2>1, <2>2 DEF EpochBlockInfo
    <2>. QED  BY <1>4, <2>1, <2>3 DEF CommitInfo, QuorumCommitInfo
  <1>5. CASE t.hi = boundary[epoch]
    <2>1. t.res = Executed(epoch + 1) /\ t.res.epoch_state = epoch + 1
      BY <1>1, <1>5 DEF AnswerOK, QuorumCommitInfo, Executed
    <2>2. EpochChangeBlockInfo(t.hi, t.epoch) = None
      BY <1>1, <1>2, <1>5 DEF EpochChangeBlockInfo, IsSuffixBlock
    <2>3. EpochBlockInfo(t) = t.hi
      BY <1>3, <2>1, <2>2 DEF EpochBlockInfo
    <2>. QED  BY <1>1, <1>5, <2>1, <2>3 DEF CommitInfo, QuorumCommitInfo
  <1>6. CASE t.hi > boundary[epoch]
    <2>1. t.res = Dummy(epoch + 1) /\ epoch_change_info # None
      BY <1>1, <1>6 DEF AnswerOK, QuorumCommitInfo
    <2>2. EpochChangeBlockInfo(t.hi, t.epoch) = boundary[epoch]
      BY <1>2, <1>6, <2>1 DEF EpochChangeBlockInfo, IsSuffixBlock
    <2>3. EpochBlockInfo(t) = boundary[epoch]
      BY <1>3, <2>2 DEF EpochBlockInfo
    <2>. QED  BY <1>1, <1>6, <2>1, <2>3 DEF CommitInfo, QuorumCommitInfo
  <1>. QED  BY <1>1, <1>4, <1>5, <1>6

LEMMA ProcessExecutionResponseAnswer ==
  ASSUME GceiInv, GceiInv', AnswerInv, ProcessExecutionResponse PROVE AnswerInv'
  <1>0. /\ tasks \in Seq(Tasks) /\ items \in Seq(Items) /\ items' \in Seq(Items) /\ TaskInv /\ EpochInv
        /\ end_seen \in BOOLEAN
    BY DEF GceiInv, PipelineTypeInv, AnswerInv, CursorInv
  <1>u. /\ UNCHANGED <<bufferVars, rethVars, phase, epoch, root, resets>>
        /\ execution_root' = FirstOrdered(items', execution_root)
    BY DEF ProcessExecutionResponse
  <1>v. UNCHANGED <<boundary, epoch_change_info>>
    BY <1>u DEF bufferVars, rethVars, pipeVars
  <1>1. /\ tasks # <<>> /\ Head(tasks).pc = "done" /\ tasks' = Tail(tasks)
        /\ items' = [i \in DOMAIN items |->
             IF i \in Found(Head(tasks)) THEN [items[i] EXCEPT !.info = CommitInfo(Head(tasks))] ELSE items[i]]
        /\ end_seen' = (end_seen \/ (Found(Head(tasks)) # {} /\ Head(tasks).reconfig))
        /\ panics' = panics \cup UNION {ExecutedPanics(items[i], Head(tasks), end_seen') : i \in Found(Head(tasks))}
    BY DEF ProcessExecutionResponse
  <1>2. PICK t \in Tasks : t = Head(tasks) /\ TaskOK(t) /\ t.epoch = epoch /\ t = tasks[1] /\ 1 \in 1 .. Len(tasks)
    <2>1. Head(tasks) = tasks[1] /\ 1 \in 1 .. Len(tasks) /\ tasks[1] \in Tasks
      BY <1>0, <1>1
    <2>. QED  BY <1>0, <2>1 DEF TaskInv
  <1>3. /\ DOMAIN items = 1 .. Len(items) /\ Len(items) \in Nat /\ Len(items') = Len(items)
        /\ \A i \in 1 .. Len(items) : items[i] \in Items
        /\ \A i \in 1 .. Len(items) :
             items'[i] = IF i \in Found(t) THEN [items[i] EXCEPT !.info = CommitInfo(t)] ELSE items[i]
    <2>1. DOMAIN items = 1 .. Len(items) /\ Len(items) \in Nat /\ \A i \in 1 .. Len(items) : items[i] \in Items
      BY <1>0
    <2>2. /\ items' = [i \in 1 .. Len(items) |-> items'[i]]
          /\ \A i \in 1 .. Len(items) :
               items'[i] = IF i \in Found(t) THEN [items[i] EXCEPT !.info = CommitInfo(t)] ELSE items[i]
      BY <1>1, <1>2, <2>1
    <2>3. Len(items') = Len(items)
      BY <1>0, <2>1, <2>2
    <2>. QED  BY <2>1, <2>2, <2>3
  <1>4. \A i \in 1 .. Len(items) :
          /\ items'[i].lo = items[i].lo /\ items'[i].hi = items[i].hi
          /\ items'[i].info = IF i \in Found(t) THEN CommitInfo(t) ELSE items[i].info
    <2>. SUFFICES ASSUME NEW i \in 1 .. Len(items)
                  PROVE  /\ items'[i].lo = items[i].lo /\ items'[i].hi = items[i].hi
                         /\ items'[i].info = IF i \in Found(t) THEN CommitInfo(t) ELSE items[i].info
      OBVIOUS
    <2>1. items[i] \in Items
      BY <1>3
    <2>. QED  BY <1>3, <2>1 DEF Items
  <1>5. \A j \in 1 .. Len(tasks') : tasks'[j] = tasks[j + 1] /\ j + 1 \in 1 .. Len(tasks)
    BY <1>0, <1>1
  <1>6. CursorInv'
    <2>1. execution_root' \in Numbers \cup {None}
      BY <1>0, <1>u, FirstOrderedType
    <2>2. end_seen' \in BOOLEAN
      BY <1>1
    <2>. QED  BY <2>1, <2>2 DEF CursorInv
  <1>7. ASSUME resets = 0 PROVE VoteInv'
    <2>0. VoteInv
      BY <1>7 DEF AnswerInv
    <2>1. current_epoch = epoch
      BY <1>0, <1>1, <1>7, TasksRunning DEF EpochInv
    <2>2. AnswerOK(t)
      BY <1>1, <1>2, <2>0 DEF VoteInv
    <2>3. CommitInfo(t) = QuorumCommitInfo(epoch, t.hi)
      BY <1>2, <2>1, <2>2, AnsweredInfo
    <2>4. \A i \in 1 .. Len(items') : items'[i].info # None => items'[i].info = QuorumCommitInfo(epoch, items'[i].hi)
      <3>. SUFFICES ASSUME NEW i \in 1 .. Len(items), items'[i].info # None
                    PROVE  items'[i].info = QuorumCommitInfo(epoch, items[i].hi)
        BY <1>3, <1>4
      <3>1. CASE i \in Found(t)
        BY <1>4, <2>3, <3>1 DEF Found
      <3>2. CASE i \notin Found(t)
        BY <1>4, <2>0, <3>2 DEF VoteInv
      <3>. QED  BY <3>1, <3>2
    <2>5. LastOrdered' = LastOrdered
      <3>1. CASE items = <<>>
        BY <1>0, <1>3, <1>u, <3>1 DEF LastOrdered
      <3>2. CASE items # <<>>
        <4>1. Len(items) \in 1 .. Len(items) /\ items' # <<>>
          BY <1>0, <1>3, <3>2
        <4>. QED  BY <1>3, <1>4, <3>2, <4>1 DEF LastOrdered, Last
      <3>. QED  BY <3>1, <3>2
    <2>6. \A j \in 1 .. Len(tasks') : tasks'[j].hi <= LastOrdered'
      BY <1>5, <2>0, <2>5 DEF VoteInv
    <2>7. \A j \in 1 .. Len(tasks'), i \in 1 .. Len(items') : items'[i].hi = tasks'[j].hi => items'[i].lo = tasks'[j].lo
      BY <1>3, <1>4, <1>5, <2>0 DEF VoteInv
    <2>8. \A j \in 1 .. Len(tasks') : tasks'[j].pc = "done" => AnswerOK(tasks'[j])
      BY <1>5, <2>0 DEF VoteInv
    <2>9. "zip_eq" \notin panics'
      <3>. SUFFICES ASSUME NEW i \in Found(t), "zip_eq" \in ExecutedPanics(items[i], t, end_seen') PROVE FALSE
        BY <1>1, <1>2, <2>0 DEF VoteInv
      <3>1. items[i].lo # t.lo
        BY DEF ExecutedPanics
      <3>2. i \in 1 .. Len(items) /\ items[i].hi = t.hi
        BY <1>3 DEF Found
      <3>. QED  BY <1>2, <2>0, <3>1, <3>2 DEF VoteInv
    <2>10. phase' \notin {"resetting", "recover"}
      BY <1>u, <2>0 DEF VoteInv
    <2>. QED  BY <1>u, <1>v, <2>4, <2>6, <2>7, <2>8, <2>9, <2>10, VoteQueue
  <1>. QED  BY <1>u, <1>6, <1>7 DEF AnswerInv

LEMMA AdvanceHeadAnswer == ASSUME GceiInv, GceiInv', AnswerInv, AdvanceHead PROVE AnswerInv'
  <1>0. /\ items \in Seq(Items) /\ items' \in Seq(Items) /\ tasks \in Seq(Tasks)
    BY DEF GceiInv, PipelineTypeInv
  <1>u. UNCHANGED <<bufferVars, rethVars, phase, epoch, tasks, end_seen, panics, resets>>
    BY DEF AdvanceHead
  <1>v. UNCHANGED <<boundary, epoch_change_info>>
    BY <1>u DEF bufferVars, rethVars, pipeVars
  <1>1. PICK i \in DOMAIN items :
          /\ root' = items[i].hi
          /\ items' = SubSeq(items, i + 1, Len(items))
          /\ execution_root' = AdvanceRootIfNone(items',
               IF execution_root # None /\ execution_root > items[i].hi THEN execution_root ELSE None)
    BY DEF AdvanceHead
  <1>2. /\ i \in 1 .. Len(items) /\ Len(items) \in Nat /\ Len(items') = Len(items) - i
        /\ \A j \in 1 .. Len(items') : items'[j] = items[i + j] /\ i + j \in 1 .. Len(items)
    BY <1>0, <1>1
  <1>3. LastOrdered' = LastOrdered
    <2>0. items # <<>> /\ LastOrdered = items[Len(items)].hi
      BY <1>0, <1>2 DEF LastOrdered, Last
    <2>1. CASE i = Len(items)
      <3>1. items' = <<>>
        BY <1>0, <1>2, <2>1
      <3>. QED  BY <1>1, <2>0, <2>1, <3>1 DEF LastOrdered
    <2>2. CASE i # Len(items)
      <3>0. Len(items') \in Nat /\ Len(items') >= 1 /\ i + Len(items') = Len(items)
        <4>1. PICK a, b \in Nat : a = i /\ b = Len(items) /\ a < b
          BY <1>2, <2>2
        <4>2. Len(items') = b - a
          BY <1>2, <4>1
        <4>. QED  BY <4>1, <4>2
      <3>1. items' # <<>> /\ Len(items') \in 1 .. Len(items') /\ i + Len(items') = Len(items)
        BY <3>0
      <3>. QED  BY <1>2, <2>0, <3>1 DEF LastOrdered, Last
    <2>. QED  BY <2>1, <2>2
  <1>4. CursorInv'
    <2>0. PICK cursor : /\ cursor = None \/ cursor = execution_root
                        /\ execution_root' = IF cursor = None THEN FirstOrdered(items', None) ELSE cursor
      BY <1>1 DEF AdvanceRootIfNone
    <2>1. execution_root' \in Numbers \cup {None}
      BY <1>0, <2>0, FirstOrderedType DEF AnswerInv, CursorInv
    <2>. QED  BY <1>u, <2>1 DEF AnswerInv, CursorInv
  <1>5. ASSUME resets = 0 PROVE VoteInv'
    <2>0. VoteInv
      BY <1>5 DEF AnswerInv
    <2>1. \A j \in 1 .. Len(items') : items'[j].info # None => items'[j].info = QuorumCommitInfo(epoch, items'[j].hi)
      BY <1>2, <2>0 DEF VoteInv
    <2>2. \A k \in 1 .. Len(tasks') : tasks'[k].hi <= LastOrdered' /\ (tasks'[k].pc = "done" => AnswerOK(tasks'[k]))
      BY <1>u, <1>3, <2>0 DEF VoteInv
    <2>3. ASSUME NEW k \in 1 .. Len(tasks'), NEW j \in 1 .. Len(items'), items'[j].hi = tasks'[k].hi
          PROVE  items'[j].lo = tasks'[k].lo
      <3>1. PICK x \in 1 .. Len(items) : items'[j] = items[x]
        BY <1>2
      <3>2. k \in 1 .. Len(tasks) /\ tasks'[k] = tasks[k]
        BY <1>u
      <3>. QED  BY <2>0, <2>3, <3>1, <3>2 DEF VoteInv
    <2>4. "zip_eq" \notin panics' /\ phase' \notin {"resetting", "recover"}
      BY <1>u, <2>0 DEF VoteInv
    <2>. QED  BY <1>u, <1>v, <2>1, <2>2, <2>3, <2>4, VoteQueue
  <1>. QED  BY <1>u, <1>4, <1>5 DEF AnswerInv

\* An empty buffer: the epoch ends, and the next one starts.
LEMMA EmptyAnswer ==
  ASSUME items' = <<>>, tasks' = <<>>, CursorInv', phase' \notin {"resetting", "recover"},
         resets = 0 => "zip_eq" \notin panics', UNCHANGED resets
  PROVE  AnswerInv'
  <1>1. Len(items') = 0 /\ Len(tasks') = 0
    OBVIOUS
  <1>2. 1 .. Len(items') = {} /\ 1 .. Len(tasks') = {}
    BY <1>1
  <1>3. resets = 0 => VoteInv'
    BY <1>2 DEF VoteInv
  <1>. QED  BY <1>3 DEF AnswerInv

LEMMA EpochAnswer == ASSUME GceiInv, AnswerInv, EndEpoch \/ StartNewEpoch PROVE AnswerInv'
  <1>1. CASE EndEpoch
    <2>1. /\ items' = <<>> /\ tasks' = <<>> /\ execution_root' = None /\ phase' = "ending"
          /\ UNCHANGED <<end_seen, panics, resets>>
      BY <1>1 DEF EndEpoch, Reset
    <2>. QED  BY <2>1, EmptyAnswer DEF AnswerInv, CursorInv, VoteInv
  <1>2. CASE StartNewEpoch
    <2>1. phase = "ending" /\ phase' = "run" /\ end_seen' = FALSE /\ UNCHANGED <<items, execution_root, tasks, panics, resets>>
      BY <1>2 DEF StartNewEpoch, queueVars
    <2>2. items = <<>> /\ tasks = <<>>
      BY <2>1 DEF GceiInv, QueueInv, TaskInv
    <2>. QED  BY <2>1, <2>2, EmptyAnswer DEF AnswerInv, CursorInv, VoteInv
  <1>. QED  BY <1>1, <1>2

\* A fast-forward sync, and what follows it.
LEMMA RecoveryAnswer ==
  ASSUME GceiInv, AnswerInv,
         \/ FastForwardSync \/ StartRecovery \/ SkipRecovery \/ RecoverSetOrdered \/ RecoverGetExecuted
         \/ RecoverTimeout \/ RecoverCommit \/ RecoverNext \/ RecoverFailed
  PROVE  AnswerInv'
  <1>1. CASE FastForwardSync
    <2>1. execution_root' = None /\ resets' = resets + 1 /\ UNCHANGED end_seen
      BY <1>1 DEF FastForwardSync, Reset
    <2>2. resets' # 0
      BY <2>1 DEF GceiInv, PipelineTypeInv
    <2>. QED  BY <2>1, <2>2 DEF AnswerInv, CursorInv
  <1>2. CASE StartRecovery \/ SkipRecovery \/ RecoverSetOrdered \/ RecoverGetExecuted
    <2>1. UNCHANGED <<execution_root, end_seen, resets>> /\ phase \in {"resetting", "recover"}
      BY <1>2 DEF StartRecovery, SkipRecovery, RecoverSetOrdered, RecoverGetExecuted, queueVars
    <2>. QED  BY <2>1 DEF AnswerInv, CursorInv, VoteInv
  <1>3. CASE RecoverTimeout \/ RecoverCommit \/ RecoverNext \/ RecoverFailed
    <2>1. UNCHANGED <<execution_root, end_seen, resets>> /\ phase \in {"resetting", "recover"}
      BY <1>3 DEF RecoverTimeout, RecoverCommit, RecoverNext, RecoverFailed, queueVars
    <2>. QED  BY <2>1 DEF AnswerInv, CursorInv, VoteInv
  <1>. QED  BY <1>1, <1>2, <1>3

\* The steps that leave the queue of batches alone.
LEMMA RethAnswer ==
  ASSUME GceiInv, AnswerInv, RethNext, UNCHANGED pipelineVars PROVE AnswerInv'
  <1>1. UNCHANGED <<phase, epoch, root, items, execution_root, tasks, end_seen, resets, panics>>
    BY DEF pipelineVars, queueVars
  <1>2. UNCHANGED boundary /\ (epoch_change_info # None => epoch_change_info' # None)
    <2>1. CASE ReportResult
      <3>1. UNCHANGED boundary
        BY <2>1 DEF ReportResult, pipeVars
      <3>2. CASE UNCHANGED bufferVars
        BY <3>1, <3>2 DEF bufferVars
      <3>3. CASE SetComputeRes(vote.epoch, vote.num, vote.id, vote.new_epoch)
        <4>1. vote # None /\ TypeInv /\ StageInv /\ ResultInv
          BY <2>1 DEF ReportResult, GceiInv, RethInv
        <4>2. epoch_change_info = None
          <5>. SUFFICES ASSUME epoch_change_info # None PROVE FALSE
            OBVIOUS
          <5>1. Reported = Height
            BY <4>1, StageFacts DEF Pending
          <5>2. Len(results) \in Nat /\ Height \in Nat
            BY <4>1, Counts
          <5>. QED  BY <4>1, <5>1, <5>2 DEF Reported
        <4>. QED  BY <3>1, <4>2
      <3>. QED  BY <2>1, <3>2, <3>3 DEF ReportResult
    <2>2. CASE StartExecution \/ FetchOrdered \/ NoticeEpochChange \/ SwapEpoch
      BY <2>2 DEF StartExecution, FetchOrdered, NoticeEpochChange, SwapEpoch, bufferVars, pipeVars
    <2>3. CASE Consume \/ CommitSetState \/ FetchCommitted
      BY <2>3 DEF Consume, ConsumeEpochChange, CommitSetState, SetState, FetchCommitted, GetCommittedBlocks, pipeVars
    <2>4. CASE ReceiveResult \/ LoadCommitEpoch \/ CommitTimeout \/ NotifyPersisted
      BY <2>4 DEF ReceiveResult, LoadCommitEpoch, CommitTimeout, NotifyPersisted, bufferVars, pipeVars
    <2>5. CASE ExecuteBlock \/ DiscardStaleBlock \/ PersistBlock
      BY <2>5 DEF ExecuteBlock, DiscardStaleBlock, PersistBlock, bufferVars
    <2>. QED  BY <2>1, <2>2, <2>3, <2>4, <2>5 DEF RethNext
  <1>. QED  BY <1>1, <1>2, AnswerFrame

LEMMA CleanupAnswer == ASSUME AnswerInv, Cleanup PROVE AnswerInv'
  <1>1. UNCHANGED <<boundary, epoch_change_info, phase, epoch, root, items, execution_root, tasks, end_seen, resets, panics>>
    BY DEF Cleanup, RemoveCommittedBlocks, rethVars, pipeVars, pipelineVars, queueVars
  <1>. QED  BY <1>1, AnswerFrame

LEMMA QuietAnswer ==
  ASSUME AnswerInv, \/ StartEpochManager \/ OrphanTask \/ \E e \in Epochs : CommitLedger(e) \/ PersistingDone(e)
  PROVE  AnswerInv'
  <1>1. CASE StartEpochManager
    <2>1. UNCHANGED <<boundary, epoch_change_info, epoch, root, items, execution_root, tasks, end_seen, resets, panics>>
          /\ phase' = "run"
      BY <1>1 DEF StartEpochManager, InitEpoch, rethVars, pipeVars, queueVars
    <2>. QED  BY <2>1, AnswerFrame
  <1>2. CASE OrphanTask
    <2>1. UNCHANGED <<rethVars, phase, epoch, root, queueVars, end_seen, panics, resets>>
      BY <1>2 DEF OrphanTask
    <2>2. UNCHANGED epoch_change_info
      BY <1>2 DEF OrphanTask, TaskSetOrdered, TaskGetExecuted, SetOrderedBlocks, GetExecutedRes
    <2>3. UNCHANGED <<boundary, items, execution_root, tasks>>
      BY <2>1 DEF rethVars, pipeVars, queueVars
    <2>. QED  BY <2>1, <2>2, <2>3, AnswerFrame
  <1>3. ASSUME NEW e \in Epochs, CommitLedger(e) PROVE AnswerInv'
    <2>1. UNCHANGED <<rethVars, phase, epoch, root, queueVars, end_seen, resets>>
          /\ UNCHANGED epoch_change_info
          /\ panics' \in {panics, panics \cup {"failed to commit blocks"}}
      BY <1>3 DEF CommitLedger, SetCommitBlocks
    <2>2. UNCHANGED <<boundary, items, execution_root, tasks>>
      BY <2>1 DEF rethVars, pipeVars, queueVars
    <2>. QED  BY <2>1, <2>2, AnswerFrame
  <1>4. ASSUME NEW e \in Epochs, PersistingDone(e) PROVE AnswerInv'
    <2>1. UNCHANGED <<bufferVars, rethVars, phase, epoch, root, queueVars, end_seen, resets, panics>>
      BY <1>4 DEF PersistingDone
    <2>2. UNCHANGED <<boundary, items, execution_root, tasks, epoch_change_info>>
      BY <2>1 DEF bufferVars, rethVars, pipeVars, queueVars
    <2>. QED  BY <2>1, <2>2, AnswerFrame
  <1>. QED  BY <1>1, <1>2, <1>3, <1>4

LEMMA AnswerStep == ASSUME GceiInv, GceiInv', AnswerInv, [Next]_gceiVars PROVE AnswerInv'
  <1>1. CASE ConsensusNext
    <2>1. CASE \/ StartEpochManager \/ OrphanTask \/ \E e \in Epochs : CommitLedger(e) \/ PersistingDone(e)
      BY <2>1, QuietAnswer
    <2>2. CASE OrderBatch \/ ScheduledTask \/ TaskTimeout \/ ProcessExecutionFailure
      BY <2>2, OrderBatchAnswer, ScheduledTaskAnswer, TaskTimeoutAnswer, ProcessExecutionFailureAnswer
    <2>3. CASE RetrySchedule \/ ProcessExecutionResponse \/ AdvanceHead
      BY <2>3, RetryScheduleAnswer, ProcessExecutionResponseAnswer, AdvanceHeadAnswer
    <2>4. CASE EndEpoch \/ StartNewEpoch
      BY <2>4, EpochAnswer
    <2>5. CASE \/ FastForwardSync \/ StartRecovery \/ SkipRecovery \/ RecoverSetOrdered \/ RecoverGetExecuted
               \/ RecoverTimeout \/ RecoverCommit \/ RecoverNext \/ RecoverFailed
      BY <2>5, RecoveryAnswer
    <2>. QED  BY <1>1, <2>1, <2>2, <2>3, <2>4, <2>5 DEF ConsensusNext
  <1>2. CASE RethNext /\ UNCHANGED pipelineVars
    BY <1>2, RethAnswer
  <1>3. CASE Cleanup
    BY <1>3, CleanupAnswer
  <1>4. CASE UNCHANGED gceiVars
    <2>1. UNCHANGED <<boundary, epoch_change_info, phase, epoch, root, items, execution_root, tasks, end_seen, resets, panics>>
      BY <1>4 DEF gceiVars, bufferVars, rethVars, pipeVars, pipelineVars, queueVars
    <2>. QED  BY <2>1, AnswerFrame
  <1>. QED  BY <1>1, <1>2, <1>3, <1>4 DEF Next

LEMMA TypesOK == ASSUME GceiInv, AnswerInv PROVE TypeOK
  <1>0. /\ TypeInv /\ StageInv /\ BlockInv /\ ExecInv /\ CommitInv /\ PipelineTypeInv /\ QueueInv /\ ProofInv
        /\ CursorInv /\ boundary \in Boundaries
    BY DEF GceiInv, RethInv, TypeInv, AnswerInv
  <1>1. ASSUME NEW k \in Keys, Present(k)
        PROVE  /\ blocks[k].id \in Keys
               /\ blocks[k].st \in {"Ordered", "Computed", "Committed", "Historical"}
               /\ blocks[k].st \in {"Computed", "Committed"} => blocks[k].res.epoch_state \in Epochs \cup {None}
    <2>1. PICK e \in Epochs, n \in Numbers : k = <<e, n>>
      BY KeyFacts
    <2>2. blocks[<<e, n>>] # None
      BY <1>1, <2>1 DEF Present
    <2>3. StateOK(e, n)
      BY <1>0, <2>2 DEF BlockInv
    <2>4. blocks[<<e, n>>].st \in {"Computed", "Committed"} => blocks[<<e, n>>].res \in ComputeResults
      BY <1>0, <2>2, ResType
    <2>. QED  BY <2>1, <2>3, <2>4, KeyFacts DEF StateOK, ComputeResults
  <1>2. /\ Height \in Nat /\ Height <= MaxBlock /\ Height \in Numbers /\ Len(delivered) \in Nat /\ Len(delivered) <= Height
        /\ 0 \in Numbers
    <2>1. Height \in Nat /\ Len(delivered) \in Nat /\ Reported \in Int /\ Reported <= Height
      BY <1>0, Counts
    <2>2. Height <= MaxBlock /\ Len(delivered) <= Reported
      BY <1>0 DEF ExecInv, CommitInv
    <2>. QED  BY <2>1, <2>2, NumberFacts
  <1>3. start_commit_num \in 1 .. MaxBlock + 1
    BY <1>0, <1>2, NumberFacts DEF CommitInv
  <1>4. /\ epoch_change_number \in Numbers /\ next_epoch \in Epochs \cup {None} /\ epoch_change_ready \in BOOLEAN
        /\ exec_pc \in {"init", "fetch", "consume", "swap"}
    <2>1. exec_epoch \in Epochs
      BY <1>0 DEF TypeInv
    <2>. QED  BY <1>0, <1>2, <2>1 DEF StageInv, Reading, Reporting, Pending, Released, Following, Booting, Early, Idle,
              NoChange
  <1>5. \A i \in DOMAIN items : items[i].lo <= items[i].hi /\ items[i].hi \in Numbers
    <2>1. items \in Seq(Items)
      BY <1>0 DEF PipelineTypeInv
    <2>2. DOMAIN items = 1 .. Len(items) /\ \A i \in 1 .. Len(items) : items[i] \in Items
      BY <2>1
    <2>. QED  BY <1>0, <2>2 DEF QueueInv, Items
  <1>6. proof \in Numbers \cup {None}
    <2>1. CASE proof # None
      <3>1. proof = boundary[epoch] /\ proof <= persisted /\ boundary[epoch] \in Nat /\ persisted \in Nat
            /\ persisted <= MaxBlock
        BY <1>0, <2>1, EpochFacts, Counts, NumberFacts DEF ProofInv, TypeInv
      <3>. QED  BY <3>1, NumberFacts
    <2>. QED  BY <2>1
  <1>7. {latest_commit, latest_finalized, epoch_change_number, persisted, root} \subseteq Numbers
    BY <1>0, <1>4 DEF TypeInv, PipelineTypeInv
  <1>8. {current_epoch, reth_epoch, exec_epoch, commit_epoch, epoch} \subseteq Epochs
    BY <1>0 DEF TypeInv, PipelineTypeInv
  <1>9. /\ down \in BOOLEAN /\ start_ordered_block \in 1 .. MaxBlock + 1
        /\ commit_pc \in {"load", "fetch", "set_state", "notify"} /\ notifiers \subseteq Keys
        /\ phase \in {"boot", "run", "resetting", "recover", "ending"}
        /\ execution_root \in Numbers \cup {None} /\ end_seen \in BOOLEAN
    BY <1>0 DEF TypeInv, PipelineTypeInv, CursorInv
  <1>. QED  BY <1>1, <1>3, <1>4, <1>5, <1>6, <1>7, <1>8, <1>9 DEF TypeOK

\* What execution answers is what the others sign: until a fast-forward sync an executed batch
\* carries the commit info of the quorum (process_execution_response, get_executed_res), and a
\* response is of the blocks of the batch that it reaches (the zip_eq).
THEOREM AnswersCorrect == Spec => []AnswersMatch
  <1>1. GceiInv /\ GceiInv' /\ AnswerInv /\ [Next]_gceiVars => AnswerInv'
    BY AnswerStep
  <1>2. GceiInv /\ AnswerInv => AnswersMatch
    <2>. SUFFICES ASSUME GceiInv, AnswerInv PROVE AnswersMatch
      OBVIOUS
    <2>1. DOMAIN items = 1 .. Len(items)
      BY DEF GceiInv, PipelineTypeInv
    <2>2. CommitVotesAgree /\ ResponsesMatchBatches
      BY <2>1 DEF AnswerInv, VoteInv, CommitVotesAgree, ResponsesMatchBatches
    <2>. QED  BY <2>2, TypesOK DEF AnswersMatch
  <1>. QED  BY AnswerInit, GceiInvariant, <1>1, <1>2, PTL DEF Spec

----------------------------------------------------------------------------
(* What is sent to be committed *)

\* Every executed block was ordered by consensus, in its epoch's range.
ChainOK(n) ==
  \E e \in 1 .. exec_epoch : e <= epoch /\ executed[n] = <<e, n>> /\ Base(e) < n /\ n <= boundary[e]

ChainInv == \A n \in 1 .. Height : ChainOK(n)

\* A reported block keeps its result until it is delivered.
ComputedInv ==
  \A n \in 1 .. Height : Len(delivered) < n /\ n <= Reported => blocks[executed[n]].st # "Ordered"

\* A batch that ends in block hi was executed, up to the epoch's last block.
Done(hi) == hi <= Reported \/ boundary[epoch] <= Reported

\* A queued request is of executed blocks nobody committed before.
SentOK(e) ==
  \A i \in 1 .. Len(persist_q[e]) :
    /\ \A n \in Numbers : Is(<<e, n>>, "Committed") => n < persist_q[e][i].lo
    /\ \A n \in persist_q[e][i].lo .. persist_q[e][i].hi : n <= boundary[e] =>
         n <= Reported /\ Len(delivered) < n /\ executed[n] = <<e, n>>

SentInv ==
  /\ Len(delivered) <= root
  /\ \A i \in 1 .. Len(items) : items[i].info # None => Done(items[i].hi)
  /\ \A j \in 1 .. Len(tasks) : tasks[j].pc = "done" => Done(tasks[j].hi)
  /\ \A n \in Numbers : Is(<<epoch, n>>, "Committed") => n <= root
  /\ \A e \in Epochs : SentOK(e)

UpInv == ChainInv /\ ComputedInv /\ (resets = 0 => SentInv)

\* What a step does to the map: no block is ordered again, and no block is committed.
BlocksKept ==
  \A e \in Epochs, n \in Numbers :
    \/ blocks'[<<e, n>>] = blocks[<<e, n>>] \/ blocks'[<<e, n>>] = None \/ blocks[<<e, n>>] = None
    \/ blocks'[<<e, n>>].st # "Ordered"

NoCommit == \A e \in Epochs, n \in Numbers : Is(<<e, n>>, "Committed")' => Is(<<e, n>>, "Committed")

\* The last blocks of the epochs executed so far are in order.
LEMMA BoundaryMonotone ==
  ASSUME GceiInv, NEW d \in Epochs, NEW e \in Epochs, 1 <= d, d <= e, e < exec_epoch
  PROVE  boundary[d] <= boundary[e]
  <1>0. TypeInv /\ ExecInv /\ boundary \in Boundaries
    BY DEF GceiInv, RethInv, TypeInv
  <1>1. /\ d \in Nat /\ e \in Nat /\ exec_epoch \in Nat /\ exec_epoch <= MaxEpoch /\ Height \in Nat /\ MaxBlock \in Nat
        /\ Height <= MaxBlock
    <2>1. exec_epoch \in Epochs /\ Height <= MaxBlock
      BY <1>0 DEF TypeInv, ExecInv
    <2>. QED  BY <1>0, <2>1, Counts, NumberFacts
  <1>2. \A x \in d .. e : x \in Epochs /\ x \in Nat /\ boundary[x] \in Nat /\ boundary[x] <= Height
    <2>. SUFFICES ASSUME NEW x \in d .. e
                  PROVE  x \in Epochs /\ x \in Nat /\ boundary[x] \in Nat /\ boundary[x] <= Height
      OBVIOUS
    <2>1. x \in 1 .. exec_epoch - 1 /\ x \in Epochs /\ x \in Nat
      BY <1>1, NumberFacts
    <2>. QED  BY <1>0, <2>1, BoundaryFacts DEF ExecInv
  <1>. SUFFICES ASSUME ~(boundary[d] <= boundary[e]) PROVE FALSE
    OBVIOUS
  <1>. DEFINE S == {x \in d .. e : boundary[x] < boundary[d]}
  <1>3. d \in d .. e /\ e \in d .. e
    BY <1>1
  <1>4. S \subseteq Nat /\ e \in S
    BY <1>1, <1>2, <1>3
  <1>5. PICK x \in S : \A y \in S : ~(<<y, x>> \in OpToRel(<, Nat))
    BY <1>4, NatLessThanWellFounded, WFMin, Zenon
  <1>6. \A y \in S : ~(y < x)
    BY <1>4, <1>5 DEF OpToRel
  <1>7. x \in d .. e /\ boundary[x] < boundary[d] /\ x # d
    BY <1>2, <1>3
  <1>8. PICK y \in d .. e : y = x - 1
    BY <1>1, <1>7
  <1>9. y \notin S
    BY <1>1, <1>6, <1>7, <1>8
  <1>10. boundary[d] <= boundary[y]
    BY <1>2, <1>3, <1>8, <1>9
  <1>11. boundary[y] < boundary[x]
    <2>1. y \in Epochs /\ y >= 1 /\ boundary[y] <= MaxBlock /\ y + 1 = x
      BY <1>1, <1>2, <1>7, <1>8
    <2>. QED  BY <1>0, <2>1, BoundaryFacts
  <1>. QED  BY <1>2, <1>3, <1>7, <1>8, <1>10, <1>11

\* A block in the range of epoch e that was executed is the epoch's own block.
LEMMA OneEpoch ==
  ASSUME GceiInv, ChainInv, NEW e \in Epochs, 1 <= e, e <= exec_epoch, NEW n \in 1 .. Height,
         Base(e) < n, n <= boundary[e]
  PROVE  executed[n] = <<e, n>>
  <1>0. TypeInv /\ boundary \in Boundaries
    BY DEF GceiInv, RethInv, TypeInv
  <1>1. PICK d \in 1 .. exec_epoch : executed[n] = <<d, n>> /\ Base(d) < n /\ n <= boundary[d]
    BY DEF ChainInv, ChainOK
  <1>2. /\ exec_epoch \in Nat /\ exec_epoch <= MaxEpoch /\ e \in Nat /\ n \in Nat /\ d \in Nat /\ d >= 1
        /\ d \in Epochs /\ Height \in Nat
    <2>1. exec_epoch \in Epochs
      BY <1>0 DEF TypeInv
    <2>2. exec_epoch \in Nat /\ exec_epoch <= MaxEpoch /\ Height \in Nat /\ MaxEpoch \in Nat /\ e \in Nat
      BY <1>0, <2>1, Counts, NumberFacts
    <2>3. d \in Nat /\ d >= 1 /\ d <= MaxEpoch /\ n \in Nat
      BY <2>2
    <2>. QED  BY <2>2, <2>3, NumberFacts
  <1>3. boundary[d] \in Nat /\ boundary[e] \in Nat
    BY <1>0, <1>2, BoundaryFacts
  <1>4. ~(d < e)
    <2>. SUFFICES ASSUME d < e PROVE FALSE
      OBVIOUS
    <2>1. PICK x \in Epochs : x = e - 1
      BY <1>2, NumberFacts
    <2>2. boundary[d] <= boundary[x]
      BY <1>2, <2>1, BoundaryMonotone
    <2>3. Base(e) = boundary[x] /\ boundary[x] \in Nat
      BY <1>0, <1>2, <2>1, BoundaryFacts DEF Base
    <2>. QED  BY <1>1, <1>2, <1>3, <2>2, <2>3
  <1>5. ~(e < d)
    <2>. SUFFICES ASSUME e < d PROVE FALSE
      OBVIOUS
    <2>1. PICK x \in Epochs : x = d - 1
      BY <1>2, NumberFacts
    <2>2. boundary[e] <= boundary[x]
      BY <1>2, <2>1, BoundaryMonotone
    <2>3. Base(d) = boundary[x] /\ boundary[x] \in Nat
      BY <1>0, <1>2, <2>1, BoundaryFacts DEF Base
    <2>. QED  BY <1>1, <1>2, <1>3, <2>2, <2>3
  <1>. QED  BY <1>1, <1>2, <1>4, <1>5

\* Without a fast-forward sync consensus is never ahead of reth.
LEMMA ConsensusBehind ==
  ASSUME GceiInv, resets = 0
  PROVE  epoch <= exec_epoch /\ (phase = "ending" => epoch < exec_epoch)
  <1>0. TypeInv /\ StageInv /\ BootInv /\ EpochInv /\ PipelineTypeInv /\ boundary \in Boundaries
    BY DEF GceiInv, RethInv, TypeInv
  <1>1. current_epoch <= exec_epoch /\ current_epoch \in Nat /\ exec_epoch \in Nat /\ epoch \in Nat
    BY <1>0, StageFacts, Counts, EpochFacts
  <1>. QED  BY <1>0, <1>1 DEF BootInv, EpochInv

\* A block that is not finalized was ordered by consensus: it is in the map.
LEMMA FreshChain ==
  ASSUME GceiInv, NEW n \in 1 .. Height, n >= latest_finalized
  PROVE  ChainOK(n)
  <1>0. TypeInv /\ BlockInv /\ ExecInv /\ FoundInv /\ TaskInv
    BY DEF GceiInv, RethInv
  <1>1. PICK e \in 1 .. exec_epoch : executed[n] = <<e, n>> /\ n <= boundary[e]
    BY <1>0 DEF ExecInv
  <1>2. e \in Epochs /\ n \in Numbers /\ e # 0
    <2>1. exec_epoch \in Epochs /\ Height <= MaxBlock
      BY <1>0 DEF TypeInv, ExecInv
    <2>2. exec_epoch \in Nat /\ exec_epoch <= MaxEpoch /\ Height \in Nat /\ MaxEpoch \in Nat /\ MaxBlock \in Nat
      BY <1>0, <2>1, Counts, NumberFacts
    <2>3. e \in Nat /\ e >= 1 /\ e <= MaxEpoch /\ n \in Nat /\ n <= MaxBlock
      BY <2>1, <2>2
    <2>. QED  BY <2>3, NumberFacts
  <1>3. blocks[<<e, n>>] # None
    BY <1>0, <1>1 DEF FoundInv
  <1>4. PlaceOK(e, n) /\ e <= epoch
    BY <1>0, <1>2, <1>3 DEF BlockInv, TaskInv
  <1>. QED  BY <1>1, <1>2, <1>4 DEF ChainOK, PlaceOK

LEMMA FreshChains == GceiInv => \A n \in 1 .. Height : n >= latest_finalized => ChainOK(n)
  BY FreshChain

LEMMA FreshChainsNext == GceiInv' => (\A n \in 1 .. Height : n >= latest_finalized => ChainOK(n))'
  BY FreshChains, PTL

LEMMA UpInit == Init => UpInv
  <1>. SUFFICES ASSUME Init PROVE UpInv
    OBVIOUS
  <1>0. GceiInv
    BY GceiInit
  <1>1. PICK s \in Starts :
          /\ InitBuffer(s.number, s.id_epoch, Id(s.id_epoch, s.number), s.db_epoch)
          /\ InitReth(s.number, s.epoch) /\ InitPipeline(s.number, s.epoch)
    BY DEF Init
  <1>2. s.number \in {0, 1}
    BY DEF Starts
  <1>3. Height = s.number /\ Len(delivered) = s.number
    <2>1. executed = [n \in 1 .. s.number |-> Id(1, n)] /\ delivered = executed /\ s.number \in Nat
      BY <1>1, <1>2 DEF InitReth
    <2>2. Len(executed) = s.number
      BY <2>1
    <2>. QED  BY <2>1, <2>2 DEF Height
  <1>4. /\ latest_finalized = s.number /\ root = s.number /\ items = <<>> /\ tasks = <<>> /\ phase = "boot"
        /\ persist_q = [x \in Epochs |-> <<>>]
    BY <1>1 DEF InitBuffer, InitPipeline
  <1>5. ChainInv
    <2>1. \A n \in 1 .. Height : n >= latest_finalized
      BY <1>2, <1>3, <1>4
    <2>. QED  BY <1>0, <2>1, FreshChain DEF ChainInv
  <1>6. ComputedInv
    BY <1>2, <1>3 DEF ComputedInv
  <1>7. SentInv
    <2>1. Len(items) = 0 /\ Len(tasks) = 0 /\ \A e \in Epochs : Len(persist_q[e]) = 0
      BY <1>4
    <2>2. 1 .. Len(items) = {} /\ 1 .. Len(tasks) = {} /\ \A e \in Epochs : 1 .. Len(persist_q[e]) = {}
      BY <2>1
    <2>3. epoch \in Epochs
      BY <1>0 DEF GceiInv, PipelineTypeInv
    <2>4. \A n \in Numbers : ~Is(<<epoch, n>>, "Committed")
      BY <1>0, <1>4, <2>3, BootFacts
    <2>5. Len(delivered) <= root
      BY <1>2, <1>3, <1>4
    <2>. QED  BY <2>2, <2>4, <2>5 DEF SentInv, SentOK
  <1>. QED  BY <1>5, <1>6, <1>7 DEF UpInv

\* Blocks that were executed stay executed, under their number.
LEMMA ChainFrame ==
  ASSUME GceiInv, GceiInv', ChainInv, UNCHANGED <<executed, boundary, exec_epoch>>, epoch <= epoch'
  PROVE  ChainInv'
  <1>. SUFFICES ASSUME NEW n \in 1 .. Height PROVE ChainOK(n)'
    BY DEF ChainInv, Height
  <1>1. PICK e \in 1 .. exec_epoch : e <= epoch /\ executed[n] = <<e, n>> /\ Base(e) < n /\ n <= boundary[e]
    BY DEF ChainInv, ChainOK
  <1>2. epoch \in Nat /\ epoch' \in Nat /\ exec_epoch \in Nat
    <2>1. epoch \in Epochs /\ epoch' \in Epochs /\ exec_epoch \in Epochs
      BY DEF GceiInv, PipelineTypeInv, RethInv, TypeInv
    <2>. QED  BY <2>1, NumberFacts
  <1>3. e <= epoch' /\ Base(e)' = Base(e)
    BY <1>1, <1>2 DEF Base
  <1>. QED  BY <1>1, <1>3 DEF ChainOK, Base

\* A result that was reported is not lost.
LEMMA ComputedFrame ==
  ASSUME GceiInv, GceiInv', ComputedInv, BlocksKept, Reported' = Reported, Len(delivered) <= Len(delivered'),
         \A n \in 1 .. Height : executed'[n] = executed[n]
  PROVE  ComputedInv'
  <1>. SUFFICES ASSUME NEW n \in 1 .. Height', Len(delivered') < n, n <= Reported'
                PROVE  blocks'[executed'[n]].st # "Ordered"
    BY DEF ComputedInv
  <1>0. TypeInv /\ ExecInv /\ FoundInv /\ CommitInv
    BY DEF GceiInv, RethInv
  <1>a. TypeInv' /\ ExecInv' /\ FoundInv' /\ CommitInv'
    BY DEF GceiInv, RethInv
  <1>1. /\ Height \in Nat /\ Reported \in Int /\ Reported <= Height /\ Len(delivered) \in Nat /\ exec_epoch \in Nat
        /\ latest_finalized <= Len(delivered) /\ Height \in Numbers /\ exec_epoch \in Epochs
    <2>1. /\ latest_finalized <= persisted /\ persisted <= Len(delivered) /\ Height <= MaxBlock /\ exec_epoch \in Epochs
      BY <1>0 DEF CommitInv, ExecInv, TypeInv
    <2>. QED  BY SMTT(30), <1>0, <2>1, Counts, NumberFacts
  <1>2. /\ Len(delivered') \in Nat /\ latest_finalized' <= Len(delivered') /\ latest_finalized' \in Nat
    <2>1. /\ latest_finalized' <= persisted' /\ persisted' <= Len(delivered') /\ latest_finalized' \in Numbers
          /\ persisted' \in Numbers /\ delivered' \in Seq(Keys)
      BY <1>a DEF CommitInv, TypeInv
    <2>. QED  BY <2>1, NumberFacts
  <1>3. n \in Nat /\ n <= Reported /\ Len(delivered) < n /\ n \in 1 .. Height /\ n \in Numbers
    <2>1. n \in Nat /\ n >= 1
      BY DEF Height
    <2>2. n <= Reported /\ Len(delivered) < n
      BY <1>1, <1>2, <2>1
    <2>3. n <= Height /\ Height <= MaxBlock
      BY <1>1, <2>1, <2>2, NumberFacts
    <2>. QED  BY <1>1, <2>1, <2>2, <2>3, NumberFacts
  <1>4. PICK e \in 1 .. exec_epoch : executed[n] = <<e, n>>
    BY <1>0, <1>3 DEF ExecInv
  <1>5. e \in Epochs
    BY <1>1, NumberFacts
  <1>6. blocks[<<e, n>>] # None /\ blocks[<<e, n>>].st # "Ordered"
    <2>1. n >= latest_finalized
      <3>1. latest_finalized \in Nat
        BY <1>0, Counts
      <3>. QED  BY <1>1, <1>3, <3>1
    <2>. QED  BY <1>0, <1>3, <1>4, <2>1 DEF FoundInv, ComputedInv
  <1>7. blocks'[<<e, n>>] # None
    <2>1. n >= latest_finalized' /\ executed'[n] = <<e, n>>
      BY <1>2, <1>3, <1>4
    <2>. QED  BY <1>a, <2>1 DEF FoundInv
  <1>8. blocks'[<<e, n>>].st # "Ordered"
    BY <1>3, <1>5, <1>6, <1>7 DEF BlocksKept
  <1>. QED  BY <1>3, <1>4, <1>8

\* What was sent stays in order while nothing is sent, committed or delivered.
LEMMA SentFrame ==
  ASSUME GceiInv, GceiInv', SentInv, NoCommit, UNCHANGED <<epoch, boundary, persist_q>>,
         Reported <= Reported', root <= root', Len(delivered') <= root',
         \A n \in 1 .. Height : executed'[n] = executed[n],
         \A i \in 1 .. Len(items') : items'[i].info # None => Done(items'[i].hi),
         \A j \in 1 .. Len(tasks') : tasks'[j].pc = "done" => Done(tasks'[j].hi),
         \A e \in Epochs : \A i \in 1 .. Len(persist_q[e]) : \A n \in persist_q[e][i].lo .. persist_q[e][i].hi :
           n <= boundary[e] => Len(delivered') < n
  PROVE  SentInv'
  <1>0. /\ TypeInv /\ PipelineTypeInv /\ boundary \in Boundaries /\ CommitInv
        /\ TypeInv' /\ PipelineTypeInv'
    BY DEF GceiInv, RethInv, TypeInv
  <1>1. /\ Reported \in Int /\ Reported' \in Int /\ root \in Nat /\ root' \in Nat /\ epoch \in Epochs
        /\ boundary[epoch] \in Nat /\ Reported <= Height /\ Height \in Nat
    <2>1. executed' \in Seq(Keys) /\ results' \in Seq(RethResults) /\ root' \in Numbers
      BY <1>0 DEF TypeInv, PipelineTypeInv
    <2>2. Reported' \in Int
      BY <2>1 DEF Reported, Height
    <2>. QED  BY <1>0, <2>1, <2>2, Counts, EpochFacts, NumberFacts
  <1>2. ASSUME NEW hi \in Numbers, Done(hi) PROVE Done(hi)'
    <2>1. hi \in Nat
      BY NumberFacts
    <2>. QED  BY <1>1, <1>2, <2>1 DEF Done
  <1>3. \A i \in 1 .. Len(items') : items'[i].info # None => Done(items[i].hi)'
    <2>. SUFFICES ASSUME NEW i \in 1 .. Len(items'), items'[i].info # None PROVE Done(items[i].hi)'
      OBVIOUS
    <2>1. items' \in Seq(Items)
      BY <1>0 DEF PipelineTypeInv
    <2>2. items'[i].hi \in Numbers
      <3>1. items'[i] \in Items
        BY <2>1
      <3>. QED  BY <3>1 DEF Items
    <2>3. PICK hi \in Numbers : hi = items'[i].hi /\ Done(hi)
      BY <2>2
    <2>. QED  BY <1>2, <2>3 DEF Done
  <1>4. \A j \in 1 .. Len(tasks') : tasks'[j].pc = "done" => Done(tasks[j].hi)'
    <2>. SUFFICES ASSUME NEW j \in 1 .. Len(tasks'), tasks'[j].pc = "done" PROVE Done(tasks[j].hi)'
      OBVIOUS
    <2>1. tasks' \in Seq(Tasks)
      BY <1>0 DEF PipelineTypeInv
    <2>2. tasks'[j].hi \in Numbers
      <3>1. tasks'[j] \in Tasks
        BY <2>1
      <3>. QED  BY <3>1 DEF Tasks
    <2>3. PICK hi \in Numbers : hi = tasks'[j].hi /\ Done(hi)
      BY <2>2
    <2>. QED  BY <1>2, <2>3 DEF Done
  <1>5. \A n \in Numbers : Is(<<epoch, n>>, "Committed")' => n <= root'
    <2>. SUFFICES ASSUME NEW n \in Numbers, Is(<<epoch, n>>, "Committed")' PROVE n <= root'
      OBVIOUS
    <2>1. Is(<<epoch, n>>, "Committed")
      BY <1>1 DEF NoCommit, Is, Present
    <2>2. n <= root /\ n \in Nat
      BY <2>1, NumberFacts DEF SentInv
    <2>. QED  BY <1>1, <2>2
  <1>6. ASSUME NEW e \in Epochs PROVE SentOK(e)'
    <2>. SUFFICES ASSUME NEW i \in 1 .. Len(persist_q[e])
                  PROVE  /\ \A n \in Numbers : Is(<<e, n>>, "Committed")' => n < persist_q[e][i].lo
                         /\ \A n \in persist_q[e][i].lo .. persist_q[e][i].hi : n <= boundary[e] =>
                              n <= Reported' /\ Len(delivered') < n /\ executed'[n] = <<e, n>>
      BY DEF SentOK, Is, Present
    <2>0. SentOK(e)
      BY DEF SentInv
    <2>1. \A n \in Numbers : Is(<<e, n>>, "Committed")' => n < persist_q[e][i].lo
      BY <2>0 DEF SentOK, NoCommit
    <2>2. ASSUME NEW n \in persist_q[e][i].lo .. persist_q[e][i].hi, n <= boundary[e]
          PROVE  n <= Reported' /\ Len(delivered') < n /\ executed'[n] = <<e, n>>
      <3>1. n <= Reported /\ Len(delivered) < n /\ executed[n] = <<e, n>>
        BY <2>0, <2>2 DEF SentOK
      <3>2. n \in Int /\ Len(delivered) \in Nat
        <4>1. persist_q[e] \in Seq(Requests)
          BY <1>0 DEF PipelineTypeInv
        <4>2. persist_q[e][i].lo \in Numbers /\ persist_q[e][i].hi \in Numbers
          <5>1. persist_q[e][i] \in Requests
            BY <4>1
          <5>. QED  BY <5>1 DEF Requests
        <4>. QED  BY <1>0, <4>2, Counts, NumberFacts
      <3>3. n \in 1 .. Height /\ n <= Reported'
        BY <1>1, <3>1, <3>2
      <3>. QED  BY <2>2, <3>1, <3>3
    <2>. QED  BY <2>1, <2>2
  <1>. QED  BY <1>3, <1>4, <1>5, <1>6 DEF SentInv

\* A step that only moves the map.
LEMMA UpFrame ==
  ASSUME GceiInv, GceiInv', UpInv, BlocksKept, NoCommit,
         UNCHANGED <<executed, results, vote, boundary, exec_epoch, delivered, epoch, persist_q, root, resets>>,
         resets = 0 => /\ \A i \in 1 .. Len(items') : items'[i].info # None => Done(items'[i].hi)
                       /\ \A j \in 1 .. Len(tasks') : tasks'[j].pc = "done" => Done(tasks'[j].hi)
  PROVE  UpInv'
  <1>0. TypeInv /\ PipelineTypeInv /\ boundary \in Boundaries
    BY DEF GceiInv, RethInv, TypeInv
  <1>1. /\ Reported' = Reported /\ Reported <= Reported' /\ root <= root' /\ Len(delivered) <= Len(delivered')
        /\ epoch <= epoch'
    BY <1>0, Counts, EpochFacts, ReportedFrame
  <1>2. ChainInv' /\ ComputedInv'
    BY <1>1, ChainFrame, ComputedFrame DEF UpInv
  <1>3. ASSUME resets = 0 PROVE SentInv'
    <2>1. SentInv
      BY <1>3 DEF UpInv
    <2>2. Len(delivered') <= root' /\ \A n \in 1 .. Height : executed'[n] = executed[n]
      BY <2>1 DEF SentInv
    <2>3. \A e \in Epochs : \A i \in 1 .. Len(persist_q[e]) : \A n \in persist_q[e][i].lo .. persist_q[e][i].hi :
            n <= boundary[e] => Len(delivered') < n
      BY <2>1 DEF SentInv, SentOK
    <2>. QED  BY <1>1, <1>3, <2>1, <2>2, <2>3, SentFrame
  <1>. QED  BY <1>2, <1>3 DEF UpInv

\* The same, with the batches and futures as they were.
LEMMA UpQuiet ==
  ASSUME GceiInv, GceiInv', UpInv, BlocksKept, NoCommit,
         UNCHANGED <<executed, results, vote, boundary, exec_epoch, delivered, epoch, persist_q, root, resets, items, tasks>>
  PROVE  UpInv'
  <1>1. resets = 0 => /\ \A i \in 1 .. Len(items') : items'[i].info # None => Done(items'[i].hi)
                      /\ \A j \in 1 .. Len(tasks') : tasks'[j].pc = "done" => Done(tasks'[j].hi)
    BY DEF UpInv, SentInv
  <1>. QED  BY <1>1, UpFrame

LEMMA SameBlocks == ASSUME UNCHANGED blocks PROVE BlocksKept /\ NoCommit
  BY DEF BlocksKept, NoCommit, Is, Present

\* A future's calls.
LEMMA CallKeeps ==
  ASSUME TypeInv, NEW e \in Epochs, NEW n \in Numbers, NEW id, NEW p,
         SetOrderedBlocks(e, n, id, p) \/ GetExecutedRes(e, n, id)
  PROVE  BlocksKept /\ NoCommit
  <1>0. blocks = [k \in Keys |-> blocks[k]]
    BY DEF TypeInv
  <1>1. CASE blocks' = blocks
    BY <1>1, SameBlocks
  <1>2. ASSUME NEW b, blocks' = [blocks EXCEPT ![<<e, n>>] = b], b.st # "Committed",
               blocks[<<e, n>>] = None \/ b.st # "Ordered"
        PROVE  BlocksKept /\ NoCommit
    <2>1. \A d \in Epochs, m \in Numbers : blocks'[<<d, m>>] = IF <<d, m>> = <<e, n>> THEN b ELSE blocks[<<d, m>>]
      BY <1>0, <1>2, KeyFacts
    <2>2. BlocksKept
      BY <1>2, <2>1 DEF BlocksKept
    <2>3. NoCommit
      <3>. SUFFICES ASSUME NEW d \in Epochs, NEW m \in Numbers, Is(<<d, m>>, "Committed")'
                    PROVE  Is(<<d, m>>, "Committed")
        BY DEF NoCommit
      <3>1. blocks'[<<d, m>>] # None /\ blocks'[<<d, m>>].st = "Committed"
        BY DEF Is, Present
      <3>2. blocks'[<<d, m>>] = blocks[<<d, m>>]
        BY <1>2, <2>1, <3>1
      <3>. QED  BY <3>1, <3>2, KeyFacts DEF Is, Present
    <2>. QED  BY <2>2, <2>3
  <1>3. CASE SetOrderedBlocks(e, n, id, p)
    <2>1. PICK b : b = Ordered(id, ActualParent(e, n, p))
      OBVIOUS
    <2>2. b.st = "Ordered"
      BY <2>1 DEF Ordered
    <2>3. blocks' = blocks \/ (~Present(<<e, n>>) /\ blocks' = [blocks EXCEPT ![<<e, n>>] = b])
      BY <1>3, <2>1 DEF SetOrderedBlocks
    <2>. QED  BY <1>1, <1>2, <2>2, <2>3, KeyFacts DEF Present
  <1>4. CASE GetExecutedRes(e, n, id)
    <2>1. PICK b : b = Computed(id, Dummy(epoch_change_info.epoch_state))
      OBVIOUS
    <2>2. b.st = "Computed"
      BY <2>1 DEF Computed
    <2>3. blocks' = blocks \/ blocks' = [blocks EXCEPT ![<<e, n>>] = b]
      BY <1>4, <2>1 DEF GetExecutedRes
    <2>. QED  BY <1>1, <1>2, <2>2, <2>3
  <1>. QED  BY <1>3, <1>4

\* release_inflight_blocks and remove_committed_blocks only remove.
LEMMA RemovalKeeps ==
  ASSUME TypeInv, \A e \in Epochs, n \in Numbers : blocks'[<<e, n>>] = blocks[<<e, n>>] \/ blocks'[<<e, n>>] = None
  PROVE  BlocksKept /\ NoCommit
  <1>1. BlocksKept
    BY DEF BlocksKept
  <1>2. NoCommit
    BY KeyFacts DEF NoCommit, Is, Present
  <1>. QED  BY <1>1, <1>2

----------------------------------------------------------------------------
(* What is sent to be committed: reth's steps *)

LEMMA UpReth ==
  ASSUME GceiInv, GceiInv', UpInv, NoCommit, ChainInv', ComputedInv', Reported <= Reported',
         \A n \in 1 .. Height : executed'[n] = executed[n], UNCHANGED <<pipelineVars, boundary, delivered>>
  PROVE  UpInv'
  <1>u. UNCHANGED <<epoch, root, items, tasks, persist_q, resets>>
    BY DEF pipelineVars, queueVars
  <1>1. ASSUME resets = 0 PROVE SentInv'
    <2>0. SentInv
      BY <1>1 DEF UpInv
    <2>1. /\ Len(delivered') <= root'
          /\ \A i \in 1 .. Len(items') : items'[i].info # None => Done(items'[i].hi)
          /\ \A j \in 1 .. Len(tasks') : tasks'[j].pc = "done" => Done(tasks'[j].hi)
      BY <1>u, <2>0 DEF SentInv
    <2>2. \A e \in Epochs : \A i \in 1 .. Len(persist_q[e]) : \A n \in persist_q[e][i].lo .. persist_q[e][i].hi :
            n <= boundary[e] => Len(delivered') < n
      BY <2>0 DEF SentInv, SentOK
    <2>3. root <= root'
      <3>1. root \in Numbers
        BY DEF GceiInv, PipelineTypeInv
      <3>. QED  BY <1>u, <3>1, NumberFacts
    <2>. QED  BY <1>u, <2>0, <2>1, <2>2, <2>3, SentFrame
  <1>. QED  BY <1>u, <1>1 DEF UpInv

LEMMA ReceiveResultUp ==
  ASSUME GceiInv, GceiInv', UpInv, ReceiveResult, UNCHANGED pipelineVars PROVE UpInv'
  <1>0. TypeInv
    BY DEF GceiInv, RethInv
  <1>u. UNCHANGED <<boundary, blocks, executed, exec_epoch, delivered>>
    BY DEF ReceiveResult, bufferVars
  <1>1. Reported' = Reported
    <2>1. vote = None /\ vote' # None
      <3>1. Head(results) \in RethResults /\ reth_epoch \in Epochs
        BY <1>0 DEF ReceiveResult, TypeInv
      <3>2. vote' \in Votes
        BY <3>1 DEF ReceiveResult, Votes, RethResults
      <3>. QED  BY <3>2, VoteNoneAssumption DEF ReceiveResult
    <2>2. Len(results') = Len(results) - 1 /\ Len(results) \in Nat
      BY <1>0 DEF ReceiveResult, TypeInv
    <2>3. Height \in Nat
      BY <1>0, Counts
    <2>. QED  BY <1>u, <2>1, <2>2, <2>3 DEF Reported, Height
  <1>2. BlocksKept /\ NoCommit
    BY <1>u, SameBlocks
  <1>3. Reported <= Reported' /\ Len(delivered) <= Len(delivered') /\ epoch <= epoch'
    <2>1. UNCHANGED epoch /\ epoch \in Epochs
      BY DEF pipelineVars, GceiInv, PipelineTypeInv
    <2>. QED  BY <1>0, <1>1, <1>u, <2>1, Counts, NumberFacts
  <1>4. ChainInv' /\ ComputedInv'
    BY <1>u, <1>1, <1>2, <1>3, ChainFrame, ComputedFrame DEF UpInv
  <1>. QED  BY <1>u, <1>2, <1>3, <1>4, UpReth

LEMMA ReportResultUp ==
  ASSUME GceiInv, GceiInv', UpInv, ReportResult, UNCHANGED pipelineVars PROVE UpInv'
  <1>0. RethInv /\ TypeInv /\ ExecInv
    BY DEF GceiInv, RethInv
  <1>u. UNCHANGED <<boundary, executed, exec_epoch, delivered>>
    BY DEF ReportResult, pipeVars
  <1>1. /\ \A d \in Epochs, m \in Numbers : blocks'[<<d, m>>] # None => blocks[<<d, m>>] # None
        /\ \A d \in Epochs, m \in Numbers : blocks[<<d, m>>] # None =>
             blocks'[<<d, m>>] = blocks[<<d, m>>] \/ blocks'[<<d, m>>].st = "Computed"
        /\ Reported' = Reported + 1 /\ Reported' \in 1 .. Height /\ blocks'[executed[Reported']].st = "Computed"
    BY <1>0, ReportResultStep
  <1>2. NoCommit
    <2>. SUFFICES ASSUME NEW d \in Epochs, NEW m \in Numbers, Is(<<d, m>>, "Committed")' PROVE Is(<<d, m>>, "Committed")
      BY DEF NoCommit
    <2>1. blocks'[<<d, m>>] # None /\ blocks'[<<d, m>>].st = "Committed"
      BY DEF Is, Present
    <2>. QED  BY <1>1, <2>1, KeyFacts DEF Is, Present
  <1>3. Reported <= Reported' /\ Reported \in Int /\ Height \in Nat /\ epoch <= epoch'
    <2>1. UNCHANGED epoch /\ epoch \in Epochs
      BY DEF pipelineVars, GceiInv, PipelineTypeInv
    <2>. QED  BY <1>0, <1>1, <2>1, Counts, NumberFacts
  <1>4. ComputedInv'
    <2>. SUFFICES ASSUME NEW n \in 1 .. Height, Len(delivered) < n, n <= Reported'
                  PROVE  blocks'[executed[n]].st # "Ordered"
      BY <1>u DEF ComputedInv, Height
    <2>1. CASE n = Reported'
      BY <1>1, <2>1
    <2>2. CASE n # Reported'
      <3>1. n <= Reported
        BY <1>1, <1>3, <2>2
      <3>2. blocks[executed[n]].st # "Ordered"
        BY <3>1 DEF UpInv, ComputedInv
      <3>3. PICK e \in 1 .. exec_epoch : executed[n] = <<e, n>>
        BY <1>0 DEF ExecInv
      <3>4. e \in Epochs /\ n \in Numbers
        <4>1. exec_epoch \in Epochs /\ Height <= MaxBlock
          BY <1>0 DEF TypeInv, ExecInv
        <4>2. exec_epoch \in Nat /\ exec_epoch <= MaxEpoch /\ MaxEpoch \in Nat /\ MaxBlock \in Nat
          BY <4>1, NumberFacts
        <4>3. e \in Nat /\ e <= MaxEpoch /\ n \in Nat /\ n <= MaxBlock
          BY <1>3, <4>1, <4>2
        <4>. QED  BY <4>3, NumberFacts
      <3>5. blocks[<<e, n>>] # None
        <4>1. FoundInv /\ CommitInv
          BY <1>0 DEF RethInv
        <4>2. latest_finalized <= persisted /\ persisted <= Len(delivered)
          BY <4>1 DEF CommitInv
        <4>3. n >= latest_finalized
          BY <1>0, <4>2, Counts
        <4>. QED  BY <3>3, <4>1, <4>3 DEF FoundInv
      <3>. QED  BY <1>1, <3>2, <3>3, <3>4, <3>5
    <2>. QED  BY <2>1, <2>2
  <1>5. ChainInv'
    BY <1>u, <1>3, ChainFrame DEF UpInv
  <1>. QED  BY <1>u, <1>2, <1>3, <1>4, <1>5, UpReth

LEMMA ExecuteBlockUp ==
  ASSUME GceiInv, GceiInv', UpInv, ExecuteBlock, UNCHANGED pipelineVars PROVE UpInv'
  <1>0. RethInv /\ TypeInv /\ ExecInv /\ CommitInv
    BY DEF GceiInv, RethInv
  <1>u. UNCHANGED <<boundary, blocks, delivered, vote, latest_finalized>>
    BY DEF ExecuteBlock, bufferVars
  <1>1. PICK id, r : executed' = Append(executed, id) /\ results' = Append(results, r)
    BY DEF ExecuteBlock
  <1>2. /\ Height' = Height + 1 /\ Height \in Nat /\ \A n \in 1 .. Height : executed'[n] = executed[n]
    <2>1. executed \in Seq(Keys)
      BY <1>0 DEF TypeInv
    <2>. QED  BY <1>1, <2>1 DEF Height
  <1>3. Reported' = Reported /\ Reported <= Reported'
    <2>1. results \in Seq(RethResults) /\ Reported \in Int
      BY <1>0, Counts DEF TypeInv
    <2>2. Len(results') = Len(results) + 1 /\ Len(results) \in Nat
      BY <1>1, <2>1
    <2>. QED  BY <1>u, <1>2, <2>1, <2>2 DEF Reported
  <1>4. exec_epoch <= exec_epoch' /\ exec_epoch \in Nat /\ exec_epoch' \in Nat
    <2>1. Head(pipe).epoch = exec_epoch
      BY DEF ExecuteBlock
    <2>2. exec_epoch' = exec_epoch \/ exec_epoch' = exec_epoch + 1
      BY <2>1 DEF ExecuteBlock
    <2>. QED  BY <1>0, <2>2, Counts
  <1>5. BlocksKept /\ NoCommit
    BY <1>u, SameBlocks
  <1>6. Len(delivered) <= Len(delivered') /\ UNCHANGED epoch
    BY <1>0, <1>u, Counts DEF pipelineVars
  <1>7. ComputedInv'
    BY <1>2, <1>3, <1>5, <1>6, ComputedFrame DEF UpInv
  <1>8. ChainInv'
    <2>. SUFFICES ASSUME NEW n \in 1 .. Height + 1 PROVE ChainOK(n)'
      BY <1>2 DEF ChainInv
    <2>1. CASE n \in 1 .. Height
      <3>1. PICK e \in 1 .. exec_epoch : e <= epoch /\ executed[n] = <<e, n>> /\ Base(e) < n /\ n <= boundary[e]
        BY <2>1 DEF UpInv, ChainInv, ChainOK
      <3>2. e \in 1 .. exec_epoch'
        BY <1>4
      <3>. QED  BY <1>u, <1>2, <1>6, <2>1, <3>1, <3>2 DEF ChainOK, Base
    <2>2. CASE n = Height + 1
      <3>1. latest_finalized <= persisted /\ persisted <= Len(delivered) /\ Len(delivered) <= Reported
        BY <1>0 DEF CommitInv
      <3>2. n >= latest_finalized' /\ n \in 1 .. Height'
        BY <1>0, <1>u, <1>2, <2>2, <3>1, Counts
      <3>. QED  BY <3>2, FreshChainsNext
    <2>. QED  BY <1>2, <2>1, <2>2
  <1>. QED  BY <1>u, <1>2, <1>3, <1>5, <1>7, <1>8, UpReth

\* get_committed_blocks hands out what was sent, up to the root.
LEMMA FetchCommittedUp ==
  ASSUME GceiInv, GceiInv', UpInv, FetchCommitted, UNCHANGED pipelineVars PROVE UpInv'
  <1>0. /\ RethInv /\ TypeInv /\ BlockInv /\ ExecInv /\ CommitInv /\ PipelineTypeInv /\ TaskInv /\ QueueInv
        /\ boundary \in Boundaries
    BY DEF GceiInv, RethInv, TypeInv
  <1>u. UNCHANGED <<boundary, executed, exec_epoch, results, vote, epoch, root, items, tasks, persist_q, resets>>
    BY DEF FetchCommitted, pipelineVars, queueVars
  <1>1. /\ Len(delivered) + 1 <= Len(delivered') /\ Len(delivered') <= Height
        /\ \A e \in Epochs, n \in Numbers :
             \/ blocks'[<<e, n>>] = blocks[<<e, n>>]
             \/ /\ blocks[<<e, n>>] # None /\ blocks[<<e, n>>].st = "Committed"
                /\ blocks'[<<e, n>>] = Committed(blocks[<<e, n>>].id, blocks[<<e, n>>].res, FALSE)
    BY <1>0, FetchCommittedStep
  <1>2. PICK d \in Epochs : \A m \in Len(delivered) + 1 .. Len(delivered') :
          Is(<<d, m>>, "Committed") /\ executed[m] = <<d, m>>
    <2>1. \E e \in Epochs : \A m \in Len(delivered) + 1 .. Len(delivered') :
            Is(<<e, m>>, "Committed") /\ executed[m] = <<e, m>>
      BY <1>0, FetchCommittedStep
    <2>. QED  BY <2>1
  <1>c. /\ Height \in Nat /\ Len(delivered) \in Nat /\ Len(delivered') \in Nat /\ Reported' = Reported /\ Reported \in Int
        /\ Len(delivered) <= Len(delivered') /\ epoch \in Nat /\ root \in Nat /\ d \in Nat /\ epoch \in Epochs
        /\ epoch >= 1
    <2>1. delivered' \in Seq(Keys)
      BY DEF GceiInv, RethInv, TypeInv
    <2>2. Len(delivered') \in Nat
      BY <2>1
    <2>. QED  BY <1>0, <1>1, <1>u, <2>2, Counts, EpochFacts, ReportedFrame, NumberFacts
  <1>3. BlocksKept /\ NoCommit
    <2>1. BlocksKept
      <3>. SUFFICES ASSUME NEW e \in Epochs, NEW n \in Numbers
                    PROVE  blocks'[<<e, n>>] = blocks[<<e, n>>] \/ blocks'[<<e, n>>].st # "Ordered"
        BY DEF BlocksKept
      <3>1. PICK id, r : \/ blocks'[<<e, n>>] = blocks[<<e, n>>]
                         \/ blocks'[<<e, n>>] = Committed(id, r, FALSE)
        BY <1>1
      <3>. QED  BY <3>1 DEF Committed
    <2>2. NoCommit
      <3>. SUFFICES ASSUME NEW e \in Epochs, NEW n \in Numbers, Is(<<e, n>>, "Committed")' PROVE Is(<<e, n>>, "Committed")
        BY DEF NoCommit
      <3>1. blocks'[<<e, n>>] # None /\ blocks'[<<e, n>>].st = "Committed"
        BY DEF Is, Present
      <3>. QED  BY <1>1, <3>1, KeyFacts DEF Is, Present
    <2>. QED  BY <2>1, <2>2
  <1>4. ChainInv' /\ ComputedInv'
    <2>1. epoch <= epoch'
      BY <1>u, <1>c
    <2>. QED  BY <1>u, <1>c, <1>3, <2>1, ChainFrame, ComputedFrame DEF UpInv
  <1>5. ASSUME resets = 0 PROVE SentInv'
    <2>0. SentInv
      BY <1>5 DEF UpInv
    <2>1. PICK last \in Len(delivered) + 1 .. Len(delivered') : last = Len(delivered')
      BY <1>1, <1>c
    <2>2. Is(<<d, last>>, "Committed") /\ executed[last] = <<d, last>>
      BY <1>2
    <2>3. blocks[<<d, last>>] # None /\ last \in Numbers /\ last \in 1 .. Height /\ last \in Nat
      BY <1>1, <1>c, <2>1, <2>2, KeyFacts DEF Is, Present, Keys
    <2>4. d <= epoch
      BY <1>0, <2>3 DEF TaskInv
    <2>5. last <= root
      <3>1. CASE d = epoch
        BY <2>0, <2>2, <2>3, <3>1 DEF SentInv
      <3>2. CASE d # epoch
        <4>1. last <= boundary[d] /\ d >= 1
          <5>1. PICK e \in 1 .. exec_epoch : executed[last] = <<e, last>> /\ last <= boundary[e]
            BY <1>0, <2>3 DEF ExecInv
          <5>2. e = d
            BY <2>2, <5>1
          <5>. QED  BY <5>1, <5>2
        <4>2. PICK x \in Epochs : x = epoch - 1
          BY <1>c, NumberFacts
        <4>3. d <= x /\ x < exec_epoch
          <5>1. epoch <= exec_epoch /\ exec_epoch \in Nat
            BY <1>0, <1>5, ConsensusBehind, Counts
          <5>. QED  BY <1>c, <2>4, <3>2, <4>2, <5>1
        <4>4. boundary[d] <= boundary[x]
          BY <4>1, <4>3, BoundaryMonotone
        <4>5. Base(epoch) = boundary[x]
          BY <1>c, <2>4, <3>2, <4>1, <4>2 DEF Base
        <4>6. boundary[x] <= root /\ boundary[d] \in Nat /\ boundary[x] \in Nat
          BY <1>0, <4>2, <4>5, BoundaryFacts DEF QueueInv
        <4>. QED  BY <1>c, <2>3, <4>1, <4>4, <4>6
      <3>. QED  BY <3>1, <3>2
    <2>6. ASSUME NEW e \in Epochs, NEW i \in 1 .. Len(persist_q[e]), NEW n \in persist_q[e][i].lo .. persist_q[e][i].hi,
                 n <= boundary[e]
          PROVE  Len(delivered') < n
      <3>0. n \in Nat /\ n \in Numbers /\ persist_q[e][i].lo \in Nat /\ persist_q[e][i].lo <= n
        <4>1. persist_q[e] \in Seq(Requests)
          BY <1>0 DEF PipelineTypeInv
        <4>2. persist_q[e][i] \in Requests
          BY <4>1
        <4>3. persist_q[e][i].lo \in Numbers /\ persist_q[e][i].hi \in Numbers
          BY <4>2 DEF Requests
        <4>4. persist_q[e][i].lo \in Nat /\ persist_q[e][i].hi \in Nat /\ persist_q[e][i].hi <= MaxBlock /\ MaxBlock \in Nat
          BY <4>3, NumberFacts
        <4>5. n \in Nat /\ n <= MaxBlock /\ persist_q[e][i].lo <= n
          BY <4>4
        <4>. QED  BY <4>4, <4>5, NumberFacts
      <3>1. Len(delivered) < n /\ executed[n] = <<e, n>>
        BY <2>0, <2>6 DEF SentInv, SentOK
      <3>. SUFFICES ASSUME n <= Len(delivered') PROVE FALSE
        BY <1>c, <3>0
      <3>2. n \in Len(delivered) + 1 .. Len(delivered')
        BY <1>c, <3>0, <3>1
      <3>3. Is(<<d, n>>, "Committed") /\ d = e
        BY <1>2, <3>1, <3>2
      <3>4. n < persist_q[e][i].lo
        BY <2>0, <3>0, <3>3 DEF SentInv, SentOK
      <3>. QED  BY <3>0, <3>4
    <2>7. /\ \A i \in 1 .. Len(items') : items'[i].info # None => Done(items'[i].hi)
          /\ \A j \in 1 .. Len(tasks') : tasks'[j].pc = "done" => Done(tasks'[j].hi)
      BY <1>u, <2>0 DEF SentInv
    <2>8. Reported <= Reported' /\ root <= root' /\ Len(delivered') <= root'
      BY <1>u, <1>c, <2>1, <2>5
    <2>. QED  BY <1>u, <1>3, <2>0, <2>6, <2>7, <2>8, SentFrame
  <1>. QED  BY <1>u, <1>4, <1>5 DEF UpInv

LEMMA RethUp == ASSUME GceiInv, GceiInv', UpInv, RethNext, UNCHANGED pipelineVars PROVE UpInv'
  <1>u. UNCHANGED <<epoch, root, items, tasks, persist_q, resets>>
    BY DEF pipelineVars, queueVars
  <1>1. CASE UNCHANGED <<executed, results, vote, boundary, exec_epoch, delivered, blocks>>
    BY <1>u, <1>1, SameBlocks, UpQuiet
  <1>2. CASE StartExecution \/ FetchOrdered \/ NoticeEpochChange \/ SwapEpoch
    BY <1>1, <1>2 DEF StartExecution, FetchOrdered, NoticeEpochChange, SwapEpoch, bufferVars, pipeVars
  <1>3. CASE Consume \/ CommitSetState
    BY <1>1, <1>3 DEF Consume, ConsumeEpochChange, CommitSetState, SetState, pipeVars
  <1>4. CASE LoadCommitEpoch \/ CommitTimeout \/ NotifyPersisted
    BY <1>1, <1>4 DEF LoadCommitEpoch, CommitTimeout, NotifyPersisted, bufferVars, pipeVars
  <1>5. CASE DiscardStaleBlock \/ PersistBlock
    BY <1>1, <1>5 DEF DiscardStaleBlock, PersistBlock, bufferVars
  <1>6. CASE ReceiveResult \/ ReportResult \/ FetchCommitted \/ ExecuteBlock
    BY <1>6, ReceiveResultUp, ReportResultUp, FetchCommittedUp, ExecuteBlockUp
  <1>. QED  BY <1>2, <1>3, <1>4, <1>5, <1>6 DEF RethNext

LEMMA CleanupUp == ASSUME GceiInv, GceiInv', UpInv, Cleanup PROVE UpInv'
  <1>u. /\ UNCHANGED <<executed, results, vote, boundary, exec_epoch, delivered>>
        /\ UNCHANGED <<epoch, root, items, tasks, persist_q, resets>>
    BY DEF Cleanup, rethVars, pipeVars, pipelineVars, queueVars
  <1>1. \A e \in Epochs, n \in Numbers : blocks'[<<e, n>>] = blocks[<<e, n>>] \/ blocks'[<<e, n>>] = None
    BY KeyFacts DEF Cleanup, RemoveCommittedBlocks
  <1>2. BlocksKept /\ NoCommit
    BY <1>1, RemovalKeeps DEF GceiInv, RethInv
  <1>. QED  BY <1>u, <1>2, UpQuiet

----------------------------------------------------------------------------
(* Consensus' steps: futures and batches *)

\* A block get_executed_res answers for was executed, or the epoch's last block was.
LEMMA DoneAnswer ==
  ASSUME GceiInv, current_epoch = epoch, NEW n \in Numbers, ExecutedRes(epoch, n, Id(epoch, n)).kind = "ok"
  PROVE  Done(n)
  <1>0. /\ TypeInv /\ StageInv /\ BlockInv /\ PipelineTypeInv /\ boundary \in Boundaries
    BY DEF GceiInv, RethInv, TypeInv
  <1>1. /\ epoch \in Epochs /\ epoch \in Nat /\ boundary[epoch] \in Nat /\ n \in Nat /\ Height \in Nat
        /\ exec_epoch \in Nat /\ Reported \in Int
    BY <1>0, EpochFacts, Counts, NumberFacts
  <1>2. ASSUME epoch_change_info # None PROVE Done(n)
    <2>1. Pending
      BY <1>0, <1>2, StageFacts
    <2>2. Height = boundary[exec_epoch - 1] /\ exec_epoch - 1 = epoch /\ Reported = Height
      BY <2>1 DEF Pending, AtEnd
    <2>. QED  BY <1>1, <2>2 DEF Done
  <1>3. CASE Is(<<epoch, n>>, "Ordered")
    <2>1. IsSuffixBlock(n)
      <3>. SUFFICES ASSUME ~IsSuffixBlock(n) PROVE FALSE
        OBVIOUS
      <3>1. ExecutedRes(epoch, n, Id(epoch, n)) = [kind |-> "wait"]
        BY <1>3 DEF ExecutedRes
      <3>. QED  BY <3>1
    <2>. QED  BY <1>2, <2>1 DEF IsSuffixBlock
  <1>4. CASE Is(<<epoch, n>>, "Computed") \/ Is(<<epoch, n>>, "Committed")
    <2>1. blocks[<<epoch, n>>] # None /\ blocks[<<epoch, n>>].st \in {"Computed", "Committed"}
      BY <1>4 DEF Is, Present
    <2>2. Answered(epoch, n)
      BY <1>0, <1>1, <2>1 DEF BlockInv, StateOK
    <2>3. n <= Reported \/ epoch_change_info # None
      BY <2>2 DEF Answered
    <2>. QED  BY <1>2, <2>3 DEF Done
  <1>5. CASE ~Is(<<epoch, n>>, "Ordered") /\ ~(Is(<<epoch, n>>, "Computed") \/ Is(<<epoch, n>>, "Committed"))
    <2>1. ~(epoch < current_epoch)
      BY <1>1
    <2>2. ExecutedRes(epoch, n, Id(epoch, n)) = [kind |-> "err"]
      BY <1>5, <2>1 DEF ExecutedRes
    <2>. QED  BY <2>2
  <1>. QED  BY <1>3, <1>4, <1>5

LEMMA TaskDone ==
  ASSUME GceiInv, resets = 0, NEW i \in 1 .. Len(tasks), tasks[i].pc = "get", Answer(tasks[i]).kind # "wait",
         GetExecutedStep(tasks[i]).pc = "done"
  PROVE  Done(GetExecutedStep(tasks[i]).hi)
  <1>0. /\ TypeInv /\ StageInv /\ BlockInv /\ PipelineTypeInv /\ TaskInv /\ EpochInv
        /\ tasks \in Seq(Tasks) /\ boundary \in Boundaries
    BY DEF GceiInv, RethInv, TypeInv, PipelineTypeInv
  <1>1. tasks # <<>> /\ tasks[i] \in Tasks /\ TaskOK(tasks[i]) /\ tasks[i].epoch = epoch
    BY <1>0 DEF TaskInv
  <1>2. PICK t \in Tasks : t = tasks[i] /\ TaskOK(t) /\ t.epoch = epoch
    BY <1>1
  <1>3. current_epoch = epoch
    BY <1>0, <1>1, TasksRunning DEF EpochInv
  <1>4. t.epoch \in Epochs /\ t.next \in Numbers /\ t.hi \in Numbers /\ t.next \in Nat /\ t.hi \in Nat /\ t.next <= t.hi
    <2>1. t.epoch \in Epochs /\ t.next \in Numbers /\ t.hi \in Numbers
      BY DEF Tasks
    <2>. QED  BY <1>2, <2>1, NumberFacts DEF TaskOK
  <1>5. Answer(t).kind # "err"
    <2>. SUFFICES ASSUME Answer(t).kind = "err" PROVE FALSE
      OBVIOUS
    <2>1. GetExecutedStep(t) = [t EXCEPT !.pc = "failed"]
      BY DEF GetExecutedStep
    <2>2. GetExecutedStep(t).pc = "failed"
      BY <2>1 DEF Tasks
    <2>. QED  BY <1>2, <2>2
  <1>6. Answer(t).kind = "ok" /\ Answer(t) = ExecutedRes(epoch, t.next, Id(epoch, t.next))
    BY <1>0, <1>2, <1>4, <1>5, AnswerFacts DEF Answer
  <1>7. PICK r : r = Answer(t).res
    OBVIOUS
  <1>8. PICK b : b = (t.reconfig \/ r.epoch_state # None)
    OBVIOUS
  <1>9. ~(t.next < t.hi)
    <2>. SUFFICES ASSUME t.next < t.hi PROVE FALSE
      OBVIOUS
    <2>1. GetExecutedStep(t) = [t EXCEPT !.reconfig = b, !.pc = "set", !.next = t.next + 1]
      BY <1>5, <1>7, <1>8 DEF GetExecutedStep, Tasks
    <2>2. GetExecutedStep(t).pc = "set"
      BY <2>1 DEF Tasks
    <2>. QED  BY <1>2, <2>2
  <1>10. GetExecutedStep(t) = [t EXCEPT !.reconfig = b, !.pc = "done", !.res = r]
    BY <1>5, <1>7, <1>8, <1>9 DEF GetExecutedStep, Tasks
  <1>11. GetExecutedStep(t).hi = t.hi /\ t.next = t.hi
    <2>1. GetExecutedStep(t).hi = t.hi
      BY <1>10 DEF Tasks
    <2>. QED  BY <1>4, <1>9, <2>1
  <1>12. Done(t.next)
    BY <1>3, <1>4, <1>6, DoneAnswer
  <1>. QED  BY <1>2, <1>11, <1>12

LEMMA QuietUp ==
  ASSUME GceiInv, GceiInv', UpInv, StartEpochManager \/ OrphanTask \/ \E e \in Epochs : PersistingDone(e)
  PROVE  UpInv'
  <1>1. CASE StartEpochManager
    <2>1. /\ UNCHANGED <<executed, results, vote, boundary, exec_epoch, delivered, blocks>>
          /\ UNCHANGED <<epoch, root, items, tasks, persist_q, resets>>
      BY <1>1 DEF StartEpochManager, InitEpoch, rethVars, pipeVars, queueVars
    <2>. QED  BY <2>1, SameBlocks, UpQuiet
  <1>2. CASE OrphanTask
    <2>1. /\ UNCHANGED <<executed, results, vote, boundary, exec_epoch, delivered>>
          /\ UNCHANGED <<epoch, root, items, tasks, persist_q, resets>>
      BY <1>2 DEF OrphanTask, rethVars, pipeVars, queueVars
    <2>2. PICK t \in orphans : TaskSetOrdered(t) \/ TaskGetExecuted(t)
      BY <1>2 DEF OrphanTask
    <2>3. t \in Tasks
      BY DEF GceiInv, PipelineTypeInv
    <2>4. TypeInv /\ t.epoch \in Epochs /\ t.next \in Numbers
      BY <2>3 DEF GceiInv, RethInv, Tasks
    <2>5. PICK id, p : SetOrderedBlocks(t.epoch, t.next, id, p) \/ GetExecutedRes(t.epoch, t.next, id)
      BY <2>2 DEF TaskSetOrdered, TaskGetExecuted
    <2>6. BlocksKept /\ NoCommit
      BY <2>4, <2>5, CallKeeps
    <2>. QED  BY <2>1, <2>6, UpQuiet
  <1>3. CASE \E e \in Epochs : PersistingDone(e)
    <2>1. /\ UNCHANGED <<executed, results, vote, boundary, exec_epoch, delivered, blocks>>
          /\ UNCHANGED <<epoch, root, items, tasks, persist_q, resets>>
      BY <1>3 DEF PersistingDone, bufferVars, rethVars, pipeVars, queueVars
    <2>. QED  BY <2>1, SameBlocks, UpQuiet
  <1>. QED  BY <1>1, <1>2, <1>3

LEMMA ScheduledTaskUp == ASSUME GceiInv, GceiInv', UpInv, ScheduledTask PROVE UpInv'
  <1>u. /\ UNCHANGED <<executed, results, vote, boundary, exec_epoch, delivered>>
        /\ UNCHANGED <<epoch, root, items, persist_q, resets>>
    BY DEF ScheduledTask, rethVars, pipeVars
  <1>1. PICK i \in DOMAIN tasks :
          \/ TaskSetOrdered(tasks[i]) /\ tasks' = [tasks EXCEPT ![i] = SetOrderedStep(@)]
          \/ TaskGetExecuted(tasks[i]) /\ tasks' = [tasks EXCEPT ![i] = GetExecutedStep(@)]
    BY DEF ScheduledTask
  <1>2. i \in 1 .. Len(tasks) /\ tasks[i] \in Tasks /\ tasks \in Seq(Tasks)
    BY DEF GceiInv, PipelineTypeInv
  <1>3. BlocksKept /\ NoCommit
    <2>1. TypeInv /\ tasks[i].epoch \in Epochs /\ tasks[i].next \in Numbers
      BY <1>2 DEF GceiInv, RethInv, Tasks
    <2>2. PICK id, p : SetOrderedBlocks(tasks[i].epoch, tasks[i].next, id, p) \/ GetExecutedRes(tasks[i].epoch, tasks[i].next, id)
      BY <1>1 DEF TaskSetOrdered, TaskGetExecuted
    <2>. QED  BY <2>1, <2>2, CallKeeps
  <1>4. ASSUME resets = 0
        PROVE  /\ \A k \in 1 .. Len(items') : items'[k].info # None => Done(items'[k].hi)
               /\ \A j \in 1 .. Len(tasks') : tasks'[j].pc = "done" => Done(tasks'[j].hi)
    <2>0. SentInv
      BY <1>4 DEF UpInv
    <2>1. PICK t : /\ tasks' = [tasks EXCEPT ![i] = t]
                   /\ t.pc = "done" => Done(t.hi)
      <3>1. CASE TaskSetOrdered(tasks[i]) /\ tasks' = [tasks EXCEPT ![i] = SetOrderedStep(@)]
        <4>1. SetOrderedStep(tasks[i]).pc # "done"
          BY <1>2, <1>4, TaskAnswers
        <4>. QED  BY <3>1, <4>1
      <3>2. CASE TaskGetExecuted(tasks[i]) /\ tasks' = [tasks EXCEPT ![i] = GetExecutedStep(@)]
        <4>1. GetExecutedStep(tasks[i]).pc = "done" => Done(GetExecutedStep(tasks[i]).hi)
          BY <1>2, <1>4, <3>2, TaskDone DEF TaskGetExecuted
        <4>. QED  BY <3>2, <4>1
      <3>. QED  BY <1>1, <3>1, <3>2
    <2>2. Len(tasks') = Len(tasks) /\ tasks'[i] = t /\ \A j \in 1 .. Len(tasks) : j # i => tasks'[j] = tasks[j]
      BY <1>2, <2>1
    <2>3. ASSUME NEW j \in 1 .. Len(tasks'), tasks'[j].pc = "done" PROVE Done(tasks'[j].hi)
      <3>1. CASE j = i
        BY <2>1, <2>2, <2>3, <3>1
      <3>2. CASE j # i
        BY <2>0, <2>2, <2>3, <3>2 DEF SentInv
      <3>. QED  BY <3>1, <3>2
    <2>4. \A k \in 1 .. Len(items') : items'[k].info # None => Done(items'[k].hi)
      BY <1>u, <2>0 DEF SentInv
    <2>. QED  BY <2>3, <2>4
  <1>. QED  BY <1>u, <1>3, <1>4, UpFrame

LEMMA TaskTimeoutUp == ASSUME GceiInv, GceiInv', UpInv, TaskTimeout PROVE UpInv'
  <1>u. /\ UNCHANGED <<executed, results, vote, boundary, exec_epoch, delivered, blocks>>
        /\ UNCHANGED <<epoch, root, items, persist_q, resets>>
    BY DEF TaskTimeout, bufferVars, rethVars, pipeVars
  <1>1. PICK i \in DOMAIN tasks : tasks' = [tasks EXCEPT ![i].pc = "failed"]
    BY DEF TaskTimeout
  <1>2. i \in 1 .. Len(tasks) /\ tasks[i] \in Tasks /\ tasks \in Seq(Tasks)
    BY DEF GceiInv, PipelineTypeInv
  <1>3. PICK t : t = [tasks[i] EXCEPT !.pc = "failed"]
    OBVIOUS
  <1>4. tasks' = [tasks EXCEPT ![i] = t] /\ t.pc = "failed"
    <2>1. t.pc = "failed"
      BY <1>2, <1>3 DEF Tasks
    <2>. QED  BY <1>1, <1>3, <2>1
  <1>5. Len(tasks') = Len(tasks) /\ tasks'[i] = t /\ \A j \in 1 .. Len(tasks) : j # i => tasks'[j] = tasks[j]
    BY <1>2, <1>4
  <1>6. ASSUME resets = 0
        PROVE  /\ \A k \in 1 .. Len(items') : items'[k].info # None => Done(items'[k].hi)
               /\ \A j \in 1 .. Len(tasks') : tasks'[j].pc = "done" => Done(tasks'[j].hi)
    <2>0. SentInv
      BY <1>6 DEF UpInv
    <2>1. ASSUME NEW j \in 1 .. Len(tasks'), tasks'[j].pc = "done" PROVE Done(tasks'[j].hi)
      <3>1. j # i
        BY <1>4, <1>5, <2>1
      <3>. QED  BY <1>5, <2>0, <2>1, <3>1 DEF SentInv
    <2>2. \A k \in 1 .. Len(items') : items'[k].info # None => Done(items'[k].hi)
      BY <1>u, <2>0 DEF SentInv
    <2>. QED  BY <2>1, <2>2
  <1>. QED  BY <1>u, <1>6, SameBlocks, UpFrame

LEMMA ProcessExecutionFailureUp == ASSUME GceiInv, GceiInv', UpInv, ProcessExecutionFailure PROVE UpInv'
  <1>0. tasks \in Seq(Tasks)
    BY DEF GceiInv, PipelineTypeInv
  <1>u. /\ UNCHANGED <<executed, results, vote, boundary, exec_epoch, delivered, blocks>>
        /\ UNCHANGED <<epoch, root, items, persist_q, resets>>
    BY DEF ProcessExecutionFailure, bufferVars, rethVars, pipeVars
  <1>1. tasks # <<>> /\ tasks' = Tail(tasks)
    BY DEF ProcessExecutionFailure
  <1>2. \A j \in 1 .. Len(tasks') : tasks'[j] = tasks[j + 1] /\ j + 1 \in 1 .. Len(tasks)
    BY <1>0, <1>1
  <1>3. resets = 0 => /\ \A k \in 1 .. Len(items') : items'[k].info # None => Done(items'[k].hi)
                      /\ \A j \in 1 .. Len(tasks') : tasks'[j].pc = "done" => Done(tasks'[j].hi)
    BY <1>u, <1>2 DEF UpInv, SentInv
  <1>. QED  BY <1>u, <1>3, SameBlocks, UpFrame

LEMMA RetryScheduleUp == ASSUME GceiInv, GceiInv', UpInv, RetrySchedule PROVE UpInv'
  <1>0. tasks \in Seq(Tasks) /\ tasks' \in Seq(Tasks) /\ items \in Seq(Items)
    BY DEF GceiInv, PipelineTypeInv
  <1>u. /\ UNCHANGED <<executed, results, vote, boundary, exec_epoch, delivered, blocks>>
        /\ UNCHANGED <<epoch, root, items, persist_q, resets>>
    BY DEF RetrySchedule, bufferVars, rethVars, pipeVars
  <1>1. PICK first \in 1 .. Len(items) + 1 :
          tasks' = tasks \o [j \in 1 .. Len(items) + 1 - first |->
                               Task(items[first + j - 1].lo, items[first + j - 1].hi)]
    BY DEF RetrySchedule
  <1>2. PICK size \in Nat : size = Len(items) + 1 - first
    <2>1. Len(items) \in Nat
      BY <1>0
    <2>2. first \in Nat /\ first <= Len(items) + 1
      BY <2>1
    <2>. QED  BY <2>1, <2>2
  <1>3. PICK again : again = [j \in 1 .. size |-> Task(items[first + j - 1].lo, items[first + j - 1].hi)]
    OBVIOUS
  <1>4. PICK S : again \in Seq(S) /\ tasks \in Seq(S) /\ Len(again) = size /\ \A j \in 1 .. size : again[j].pc = "set"
    <2>1. \A j \in 1 .. size : again[j].pc = "set"
      BY <1>3 DEF Task
    <2>2. again = [j \in 1 .. size |-> again[j]]
      BY <1>3
    <2>3. PICK S : S = Tasks \cup {again[j] : j \in 1 .. size}
      OBVIOUS
    <2>4. \A j \in 1 .. size : again[j] \in S
      BY <2>3
    <2>5. again \in Seq(S) /\ Len(again) = size
      BY <1>2, <2>2, <2>4
    <2>6. tasks \in Seq(S)
      <3>1. \A i \in 1 .. Len(tasks) : tasks[i] \in S
        BY <1>0, <2>3
      <3>. QED  BY <1>0, <3>1
    <2>. QED  BY <2>1, <2>5, <2>6
  <1>5. tasks' = tasks \o again
    BY <1>1, <1>2, <1>3
  <1>6. /\ Len(tasks') = Len(tasks) + size /\ Len(tasks) \in Nat
        /\ \A i \in 1 .. Len(tasks) : tasks'[i] = tasks[i]
        /\ \A i \in Len(tasks) + 1 .. Len(tasks') : i - Len(tasks) \in 1 .. size /\ tasks'[i] = again[i - Len(tasks)]
    BY <1>0, <1>4, <1>5, Joined
  <1>7. ASSUME resets = 0
        PROVE  /\ \A k \in 1 .. Len(items') : items'[k].info # None => Done(items'[k].hi)
               /\ \A j \in 1 .. Len(tasks') : tasks'[j].pc = "done" => Done(tasks'[j].hi)
    <2>0. SentInv
      BY <1>7 DEF UpInv
    <2>1. ASSUME NEW j \in 1 .. Len(tasks'), tasks'[j].pc = "done" PROVE Done(tasks'[j].hi)
      <3>1. j \in 1 .. Len(tasks)
        BY <1>4, <1>6, <2>1
      <3>. QED  BY <1>6, <2>0, <2>1, <3>1 DEF SentInv
    <2>2. \A k \in 1 .. Len(items') : items'[k].info # None => Done(items'[k].hi)
      BY <1>u, <2>0 DEF SentInv
    <2>. QED  BY <2>1, <2>2
  <1>. QED  BY <1>u, <1>7, SameBlocks, UpFrame

LEMMA OrderBatchUp == ASSUME GceiInv, GceiInv', UpInv, OrderBatch PROVE UpInv'
  <1>0. tasks \in Seq(Tasks) /\ items \in Seq(Items)
    BY DEF GceiInv, PipelineTypeInv
  <1>u. /\ UNCHANGED <<executed, results, vote, boundary, exec_epoch, delivered, blocks>>
        /\ UNCHANGED <<epoch, root, persist_q, resets>>
    BY DEF OrderBatch, bufferVars, rethVars, pipeVars
  <1>1. PICK item, t : items' = Append(items, item) /\ tasks' = Append(tasks, t) /\ item.info = None /\ t.pc = "set"
    <2>1. PICK hi : /\ items' = Append(items, [lo |-> LastOrdered + 1, hi |-> hi, info |-> None])
                    /\ tasks' = Append(tasks, Task(LastOrdered + 1, hi))
      BY DEF OrderBatch
    <2>2. [lo |-> LastOrdered + 1, hi |-> hi, info |-> None].info = None /\ Task(LastOrdered + 1, hi).pc = "set"
      BY DEF Task
    <2>. QED  BY <2>1, <2>2
  <1>2. /\ Len(items) \in Nat /\ Len(tasks) \in Nat /\ Len(items') = Len(items) + 1 /\ Len(tasks') = Len(tasks) + 1
        /\ \A k \in 1 .. Len(items) : items'[k] = items[k]
        /\ \A j \in 1 .. Len(tasks) : tasks'[j] = tasks[j]
        /\ items'[Len(items) + 1] = item /\ tasks'[Len(tasks) + 1] = t
    BY <1>0, <1>1
  <1>3. ASSUME resets = 0
        PROVE  /\ \A k \in 1 .. Len(items') : items'[k].info # None => Done(items'[k].hi)
               /\ \A j \in 1 .. Len(tasks') : tasks'[j].pc = "done" => Done(tasks'[j].hi)
    <2>0. SentInv
      BY <1>3 DEF UpInv
    <2>1. ASSUME NEW j \in 1 .. Len(tasks'), tasks'[j].pc = "done" PROVE Done(tasks'[j].hi)
      <3>1. j \in 1 .. Len(tasks)
        BY <1>1, <1>2, <2>1
      <3>. QED  BY <1>2, <2>0, <2>1, <3>1 DEF SentInv
    <2>2. ASSUME NEW k \in 1 .. Len(items'), items'[k].info # None PROVE Done(items'[k].hi)
      <3>1. k \in 1 .. Len(items)
        BY <1>1, <1>2, <2>2
      <3>. QED  BY <1>2, <2>0, <2>2, <3>1 DEF SentInv
    <2>. QED  BY <2>1, <2>2
  <1>. QED  BY <1>u, <1>3, SameBlocks, UpFrame

LEMMA ProcessExecutionResponseUp == ASSUME GceiInv, GceiInv', UpInv, ProcessExecutionResponse PROVE UpInv'
  <1>0. tasks \in Seq(Tasks) /\ items \in Seq(Items) /\ items' \in Seq(Items)
    BY DEF GceiInv, PipelineTypeInv
  <1>u. /\ UNCHANGED <<executed, results, vote, boundary, exec_epoch, delivered, blocks>>
        /\ UNCHANGED <<epoch, root, persist_q, resets>>
    BY DEF ProcessExecutionResponse, bufferVars, rethVars, pipeVars
  <1>1. /\ tasks # <<>> /\ Head(tasks).pc = "done" /\ tasks' = Tail(tasks)
        /\ items' = [i \in DOMAIN items |->
             IF i \in Found(Head(tasks)) THEN [items[i] EXCEPT !.info = CommitInfo(Head(tasks))] ELSE items[i]]
    BY DEF ProcessExecutionResponse
  <1>2. PICK t \in Tasks : t = Head(tasks) /\ t = tasks[1] /\ 1 \in 1 .. Len(tasks)
    BY <1>0, <1>1
  <1>3. /\ DOMAIN items = 1 .. Len(items) /\ Len(items) \in Nat /\ Len(items') = Len(items)
        /\ \A i \in 1 .. Len(items) : items[i] \in Items
        /\ \A i \in 1 .. Len(items) :
             items'[i] = IF i \in Found(t) THEN [items[i] EXCEPT !.info = CommitInfo(t)] ELSE items[i]
    <2>1. DOMAIN items = 1 .. Len(items) /\ Len(items) \in Nat /\ \A i \in 1 .. Len(items) : items[i] \in Items
      BY <1>0
    <2>2. /\ items' = [i \in 1 .. Len(items) |-> items'[i]]
          /\ \A i \in 1 .. Len(items) :
               items'[i] = IF i \in Found(t) THEN [items[i] EXCEPT !.info = CommitInfo(t)] ELSE items[i]
      BY <1>1, <1>2, <2>1
    <2>3. Len(items') = Len(items)
      BY <1>0, <2>1, <2>2
    <2>. QED  BY <2>1, <2>2, <2>3
  <1>4. \A j \in 1 .. Len(tasks') : tasks'[j] = tasks[j + 1] /\ j + 1 \in 1 .. Len(tasks)
    BY <1>0, <1>1
  <1>5. ASSUME resets = 0
        PROVE  /\ \A k \in 1 .. Len(items') : items'[k].info # None => Done(items'[k].hi)
               /\ \A j \in 1 .. Len(tasks') : tasks'[j].pc = "done" => Done(tasks'[j].hi)
    <2>0. SentInv
      BY <1>5 DEF UpInv
    <2>1. \A j \in 1 .. Len(tasks') : tasks'[j].pc = "done" => Done(tasks'[j].hi)
      BY <1>4, <2>0 DEF SentInv
    <2>2. Done(t.hi)
      BY <1>1, <1>2, <2>0 DEF SentInv
    <2>3. ASSUME NEW k \in 1 .. Len(items'), items'[k].info # None PROVE Done(items'[k].hi)
      <3>0. k \in 1 .. Len(items) /\ items[k] \in Items
        BY <1>3
      <3>1. CASE k \in Found(t)
        <4>1. items'[k].hi = items[k].hi /\ items[k].hi = t.hi
          BY <1>3, <3>0, <3>1 DEF Found, Items
        <4>. QED  BY <2>2, <4>1
      <3>2. CASE k \notin Found(t)
        BY <1>3, <2>0, <2>3, <3>0, <3>2 DEF SentInv
      <3>. QED  BY <3>1, <3>2
    <2>. QED  BY <2>1, <2>3
  <1>. QED  BY <1>u, <1>5, SameBlocks, UpFrame

LEMMA EndEpochUp == ASSUME GceiInv, GceiInv', UpInv, EndEpoch PROVE UpInv'
  <1>u. /\ UNCHANGED <<executed, results, vote, boundary, exec_epoch, delivered>>
        /\ UNCHANGED <<epoch, root, persist_q, resets>>
    BY DEF EndEpoch, rethVars, pipeVars
  <1>1. items' = <<>> /\ tasks' = <<>> /\ ReleaseInflightBlocks
    BY DEF EndEpoch, Reset
  <1>2. \A e \in Epochs, n \in Numbers : blocks'[<<e, n>>] = blocks[<<e, n>>] \/ blocks'[<<e, n>>] = None
    <2>1. UNCHANGED blocks \/ blocks' = [k \in Keys |-> IF k[2] <= epoch_change_number THEN blocks[k] ELSE None]
      BY <1>1 DEF ReleaseInflightBlocks, bufferVars
    <2>2. CASE UNCHANGED blocks
      BY <2>2
    <2>3. CASE blocks' = [k \in Keys |-> IF k[2] <= epoch_change_number THEN blocks[k] ELSE None]
      BY <2>3, KeyFacts
    <2>. QED  BY <2>1, <2>2, <2>3
  <1>3. BlocksKept /\ NoCommit
    BY <1>2, RemovalKeeps DEF GceiInv, RethInv
  <1>4. Len(items') = 0 /\ Len(tasks') = 0
    BY <1>1
  <1>5. 1 .. Len(items') = {} /\ 1 .. Len(tasks') = {}
    BY <1>4
  <1>. QED  BY <1>u, <1>3, <1>5, UpFrame

----------------------------------------------------------------------------
(* Consensus' steps: commits and epochs *)

\* What a step that leaves reth alone keeps of the executed blocks.
LEMMA ChainKept ==
  ASSUME GceiInv, GceiInv', UpInv, BlocksKept, UNCHANGED <<executed, results, vote, boundary, exec_epoch, delivered>>,
         epoch <= epoch'
  PROVE  /\ ChainInv' /\ ComputedInv' /\ Reported' = Reported /\ Reported \in Int /\ Height \in Nat /\ Reported <= Height
         /\ Len(delivered) \in Nat
  <1>0. TypeInv
    BY DEF GceiInv, RethInv
  <1>1. /\ Reported' = Reported /\ Reported \in Int /\ Height \in Nat /\ Reported <= Height /\ Len(delivered) \in Nat
        /\ Len(delivered) <= Len(delivered')
    BY <1>0, Counts, ReportedFrame DEF GceiInv, RethInv
  <1>2. ChainInv' /\ ComputedInv'
    BY <1>1, ChainFrame, ComputedFrame DEF UpInv
  <1>. QED  BY <1>1, <1>2

LEMMA AdvanceHeadUp == ASSUME GceiInv, GceiInv', UpInv, AdvanceHead PROVE UpInv'
  <1>0. /\ TypeInv /\ PipelineTypeInv /\ QueueInv /\ items \in Seq(Items) /\ boundary \in Boundaries
        /\ persist_q \in [Epochs -> Seq(Requests)]
    BY DEF GceiInv, RethInv, PipelineTypeInv, TypeInv
  <1>u. /\ UNCHANGED <<executed, results, vote, boundary, exec_epoch, delivered, blocks>>
        /\ UNCHANGED <<epoch, tasks, resets>>
    BY DEF AdvanceHead, bufferVars, rethVars, pipeVars
  <1>i. PICK i \in DOMAIN items :
          /\ items[i].info # None
          /\ persist_q' = [persist_q EXCEPT ![epoch] =
               Append(@, [lo |-> root + 1, hi |-> items[i].hi, ends |-> items[i].info.ends])]
          /\ root' = items[i].hi
          /\ items' = SubSeq(items, i + 1, Len(items))
    BY DEF AdvanceHead
  <1>q. PICK req : req = [lo |-> root + 1, hi |-> items[i].hi, ends |-> items[i].info.ends]
    OBVIOUS
  <1>1. /\ items[i].info # None /\ req.lo = root + 1 /\ req.hi = items[i].hi
        /\ persist_q' = [persist_q EXCEPT ![epoch] = Append(@, req)]
        /\ root' = items[i].hi
        /\ items' = SubSeq(items, i + 1, Len(items))
    <2>1. req.lo = root + 1 /\ req.hi = items[i].hi
      BY <1>q
    <2>. QED  BY <1>i, <1>q, <2>1
  <1>2. /\ i \in 1 .. Len(items) /\ items[i].hi \in Nat /\ root < items[i].hi
        /\ epoch \in Epochs /\ epoch \in Nat /\ epoch >= 1 /\ root \in Nat /\ boundary[epoch] \in Nat
    <2>1. i \in 1 .. Len(items) /\ items[i] \in Items /\ items # <<>>
      BY <1>0, <1>1
    <2>2. items[i].hi \in Numbers /\ items[i].lo \in Numbers /\ root < items[i].lo /\ items[i].lo <= items[i].hi
      BY <1>0, <2>1 DEF QueueInv, Items
    <2>3. items[i].hi \in Nat /\ items[i].lo \in Nat
      BY <2>2, NumberFacts
    <2>4. epoch \in Epochs /\ epoch \in Nat /\ epoch >= 1 /\ root \in Nat /\ boundary[epoch] \in Nat
      BY <1>0, EpochFacts
    <2>. QED  BY <2>1, <2>2, <2>3, <2>4
  <1>3. \A j \in 1 .. Len(items') : items'[j] = items[i + j] /\ i + j \in 1 .. Len(items)
    <2>1. items \in Seq(Items) /\ i \in 1 .. Len(items) /\ items' = SubSeq(items, i + 1, Len(items))
      BY <1>0, <1>1, <1>2
    <2>. QED  BY <2>1
  <1>4. /\ persist_q'[epoch] = Append(persist_q[epoch], req) /\ persist_q[epoch] \in Seq(Requests)
        /\ \A e \in Epochs : e # epoch => persist_q'[e] = persist_q[e]
    BY <1>0, <1>1, <1>2
  <1>5. /\ Len(persist_q[epoch]) \in Nat /\ Len(persist_q'[epoch]) = Len(persist_q[epoch]) + 1
        /\ \A j \in 1 .. Len(persist_q[epoch]) : persist_q'[epoch][j] = persist_q[epoch][j]
        /\ persist_q'[epoch][Len(persist_q[epoch]) + 1] = req
    BY <1>4
  <1>6. /\ ChainInv' /\ ComputedInv' /\ Reported' = Reported /\ Reported \in Int /\ Height \in Nat /\ Reported <= Height
        /\ Len(delivered) \in Nat
    <2>1. epoch <= epoch' /\ BlocksKept
      BY <1>u, <1>2, SameBlocks
    <2>. QED  BY <1>u, <2>1, ChainKept
  <1>7. ASSUME resets = 0 PROVE SentInv'
    <2>0. SentInv
      BY <1>7 DEF UpInv
    <2>1. Len(delivered') <= root'
      BY <1>u, <1>1, <1>2, <1>6, <2>0 DEF SentInv
    <2>2. \A j \in 1 .. Len(items') : items'[j].info # None => Done(items[j].hi)'
      <3>1. \A j \in 1 .. Len(items') : items'[j].info # None => Done(items'[j].hi)
        BY <1>3, <2>0 DEF SentInv
      <3>. QED  BY <1>u, <1>6, <3>1 DEF Done
    <2>3. \A j \in 1 .. Len(tasks') : tasks'[j].pc = "done" => Done(tasks[j].hi)'
      BY <1>u, <1>6, <2>0 DEF SentInv, Done
    <2>4. \A n \in Numbers : Is(<<epoch, n>>, "Committed")' => n <= root'
      <3>. SUFFICES ASSUME NEW n \in Numbers, Is(<<epoch, n>>, "Committed")' PROVE n <= root'
        OBVIOUS
      <3>1. n <= root /\ n \in Nat
        BY <1>u, <2>0, NumberFacts DEF SentInv, Is, Present
      <3>. QED  BY <1>1, <1>2, <3>1
    <2>5. ASSUME NEW e \in Epochs, e # epoch PROVE SentOK(e)'
      <3>1. SentOK(e) /\ persist_q'[e] = persist_q[e]
        BY <1>4, <2>0, <2>5 DEF SentInv
      <3>. QED  BY <1>u, <1>6, <3>1 DEF SentOK, Is, Present
    <2>6. ASSUME NEW k \in 1 .. Len(persist_q'[epoch])
          PROVE  /\ \A n \in Numbers : Is(<<epoch, n>>, "Committed") => n < persist_q'[epoch][k].lo
                 /\ \A n \in persist_q'[epoch][k].lo .. persist_q'[epoch][k].hi : n <= boundary[epoch] =>
                      n <= Reported /\ Len(delivered) < n /\ executed[n] = <<epoch, n>>
      <3>1. CASE k \in 1 .. Len(persist_q[epoch])
        BY <1>2, <1>5, <2>0, <3>1 DEF SentInv, SentOK
      <3>2. CASE k = Len(persist_q[epoch]) + 1
        <4>0. persist_q'[epoch][k].lo = root + 1 /\ persist_q'[epoch][k].hi = items[i].hi
          BY <1>1, <1>5, <3>2
        <4>1. ASSUME NEW n \in Numbers, Is(<<epoch, n>>, "Committed") PROVE n < root + 1
          <5>1. n <= root /\ n \in Nat
            BY <2>0, <4>1, NumberFacts DEF SentInv
          <5>. QED  BY <1>2, <5>1
        <4>2. ASSUME NEW n \in root + 1 .. items[i].hi, n <= boundary[epoch]
              PROVE  n <= Reported /\ Len(delivered) < n /\ executed[n] = <<epoch, n>>
          <5>0. n \in Nat /\ root < n /\ n <= items[i].hi
            BY <1>2
          <5>1. Done(items[i].hi) /\ Len(delivered) <= root
            BY <1>1, <1>2, <2>0 DEF SentInv
          <5>2. n <= Reported
            BY <1>2, <1>6, <4>2, <5>0, <5>1 DEF Done
          <5>3. Len(delivered) < n
            BY <1>2, <1>6, <5>0, <5>1
          <5>4. n \in 1 .. Height
            BY <1>2, <1>6, <5>0, <5>2
          <5>5. Base(epoch) < n
            <6>1. Base(epoch) \in Nat /\ Base(epoch) <= root
              BY <1>0, <1>2, BaseFacts DEF QueueInv
            <6>. QED  BY <1>2, <5>0, <6>1
          <5>6. executed[n] = <<epoch, n>>
            <6>1. epoch <= exec_epoch
              BY <1>7, ConsensusBehind
            <6>. QED  BY <1>2, <4>2, <5>4, <5>5, <6>1, OneEpoch DEF UpInv
          <5>. QED  BY <5>2, <5>3, <5>6
        <4>. QED  BY <4>0, <4>1, <4>2
      <3>. QED  BY <1>5, <3>1, <3>2
    <2>7. ASSUME NEW e \in Epochs, e = epoch PROVE SentOK(e)'
      <3>. SUFFICES ASSUME NEW k \in 1 .. Len(persist_q'[e])
                    PROVE  /\ \A n \in Numbers : Is(<<e, n>>, "Committed")' => n < persist_q'[e][k].lo
                           /\ \A n \in persist_q'[e][k].lo .. persist_q'[e][k].hi : n <= boundary'[e] =>
                                n <= Reported' /\ Len(delivered') < n /\ executed'[n] = <<e, n>>
        BY DEF SentOK
      <3>. QED  BY <1>u, <1>6, <2>6, <2>7 DEF Is, Present
    <2>. QED  BY <2>1, <2>2, <2>3, <2>4, <2>5, <2>7 DEF SentInv
  <1>. QED  BY <1>u, <1>6, <1>7 DEF UpInv

\* commit_ledger commits the blocks of one request.
LEMMA CommitBlocks ==
  ASSUME TypeInv, NEW e \in Epochs, NEW nums, SetCommitBlocks(e, nums)
  PROVE  /\ BlocksKept
         /\ \A d \in Epochs, n \in Numbers : Is(<<d, n>>, "Committed")' => Is(<<d, n>>, "Committed") \/ (d = e /\ n \in nums)
  <1>1. \A d \in Epochs, n \in Numbers :
          \/ blocks'[<<d, n>>] = blocks[<<d, n>>]
          \/ d = e /\ n \in nums /\ \E id, r, p : blocks'[<<d, n>>] = Committed(id, r, p)
    <2>. SUFFICES ASSUME NEW d \in Epochs, NEW n \in Numbers
                  PROVE  \/ blocks'[<<d, n>>] = blocks[<<d, n>>]
                         \/ d = e /\ n \in nums /\ \E id, r, p : blocks'[<<d, n>>] = Committed(id, r, p)
      OBVIOUS
    <2>1. PICK done \in SUBSET nums :
            blocks' = [k \in Keys |-> IF k[1] = e /\ k[2] \in done /\ Is(k, "Computed")
                                      THEN Committed(blocks[k].id, blocks[k].res, NeedsNotifier(k)) ELSE blocks[k]]
      BY DEF SetCommitBlocks
    <2>2. blocks'[<<d, n>>] = IF d = e /\ n \in done /\ Is(<<d, n>>, "Computed")
                              THEN Committed(blocks[<<d, n>>].id, blocks[<<d, n>>].res, NeedsNotifier(<<d, n>>))
                              ELSE blocks[<<d, n>>]
      BY <2>1, KeyFacts
    <2>. QED  BY <2>1, <2>2
  <1>2. BlocksKept
    <2>. SUFFICES ASSUME NEW d \in Epochs, NEW n \in Numbers
                  PROVE  blocks'[<<d, n>>] = blocks[<<d, n>>] \/ blocks'[<<d, n>>].st # "Ordered"
      BY DEF BlocksKept
    <2>1. PICK id, r, p : blocks'[<<d, n>>] = blocks[<<d, n>>] \/ blocks'[<<d, n>>] = Committed(id, r, p)
      BY <1>1
    <2>. QED  BY <2>1 DEF Committed
  <1>3. ASSUME NEW d \in Epochs, NEW n \in Numbers, Is(<<d, n>>, "Committed")', ~(d = e /\ n \in nums)
        PROVE  Is(<<d, n>>, "Committed")
    <2>1. blocks'[<<d, n>>] = blocks[<<d, n>>]
      BY <1>1, <1>3
    <2>. QED  BY <1>3, <2>1 DEF Is, Present
  <1>. QED  BY <1>2, <1>3

LEMMA CommitLedgerUp ==
  ASSUME GceiInv, GceiInv', UpInv, Running, NEW e \in Epochs, CommitLedger(e) PROVE UpInv'
  <1>0. /\ TypeInv /\ PipelineTypeInv /\ PersistInv /\ boundary \in Boundaries /\ RequestInv(e)
        /\ persist_q \in [Epochs -> Seq(Requests)] /\ epoch \in Epochs /\ root \in Nat /\ epoch \in Nat
    BY EpochFacts DEF GceiInv, RethInv, TypeInv, PipelineTypeInv, PersistInv
  <1>u. /\ UNCHANGED <<executed, results, vote, boundary, exec_epoch, delivered>>
        /\ UNCHANGED <<epoch, root, items, tasks, resets>>
    BY DEF CommitLedger, rethVars, pipeVars, queueVars
  <1>1. persist_q[e] # <<>> /\ persist_q[e] \in Seq(Requests)
    BY <1>0 DEF CommitLedger
  <1>2. PICK req \in Requests : req = Head(persist_q[e]) /\ req = persist_q[e][1]
    BY <1>1
  <1>3. SetCommitBlocks(e, req.lo .. req.hi) /\ persist_q' = [persist_q EXCEPT ![e] = Tail(@)]
    BY <1>2 DEF CommitLedger
  <1>4. req.lo \in Nat /\ req.hi \in Nat /\ (e = epoch => req.hi <= root) /\ 1 \in 1 .. Len(persist_q[e])
    <2>1. 1 \in 1 .. Len(persist_q[e])
      BY <1>1
    <2>2. req.lo \in Numbers /\ req.hi \in Numbers
      BY DEF Requests
    <2>. QED  BY <1>0, <1>2, <2>1, <2>2, NumberFacts DEF RequestInv
  <1>5. /\ persist_q'[e] = Tail(persist_q[e]) /\ \A d \in Epochs : d # e => persist_q'[d] = persist_q[d]
    BY <1>0, <1>3
  <1>6. \A i \in 1 .. Len(persist_q'[e]) : persist_q'[e][i] = persist_q[e][i + 1] /\ i + 1 \in 1 .. Len(persist_q[e])
    BY <1>1, <1>5
  <1>7. /\ BlocksKept
        /\ \A d \in Epochs, n \in Numbers :
             Is(<<d, n>>, "Committed")' => Is(<<d, n>>, "Committed") \/ (d = e /\ n \in req.lo .. req.hi)
    BY <1>0, <1>3, CommitBlocks
  <1>8. /\ ChainInv' /\ ComputedInv' /\ Reported' = Reported /\ Reported \in Int /\ Height \in Nat /\ Reported <= Height
        /\ Len(delivered) \in Nat
    <2>1. epoch <= epoch'
      BY <1>u, <1>0
    <2>. QED  BY <1>u, <1>7, <2>1, ChainKept
  <1>9. ASSUME resets = 0 PROVE SentInv'
    <2>0. SentInv
      BY <1>9 DEF UpInv
    <2>1. Len(delivered') <= root'
      BY <1>u, <2>0 DEF SentInv
    <2>2. \A j \in 1 .. Len(items') : items'[j].info # None => Done(items[j].hi)'
      BY <1>u, <1>8, <2>0 DEF SentInv, Done
    <2>3. \A j \in 1 .. Len(tasks') : tasks'[j].pc = "done" => Done(tasks[j].hi)'
      BY <1>u, <1>8, <2>0 DEF SentInv, Done
    <2>4. ASSUME NEW n \in Numbers, Is(<<epoch, n>>, "Committed")' PROVE n <= root'
      <3>0. n \in Nat
        BY NumberFacts
      <3>1. PICK d \in Epochs : d = epoch /\ d = epoch'
        BY <1>0, <1>u
      <3>2. Is(<<d, n>>, "Committed")'
        BY <2>4, <3>1 DEF Is, Present
      <3>3. CASE Is(<<d, n>>, "Committed")
        BY <1>u, <2>0, <3>1, <3>3 DEF SentInv
      <3>4. CASE d = e /\ n \in req.lo .. req.hi
        BY <1>0, <1>4, <1>u, <3>0, <3>1, <3>4
      <3>. QED  BY <1>7, <3>2, <3>3, <3>4
    <2>5. ASSUME NEW d \in Epochs, d # e PROVE SentOK(d)'
      <3>. SUFFICES ASSUME NEW k \in 1 .. Len(persist_q[d])
                    PROVE  /\ \A n \in Numbers : Is(<<d, n>>, "Committed")' => n < persist_q[d][k].lo
                           /\ \A n \in persist_q[d][k].lo .. persist_q[d][k].hi : n <= boundary[d] =>
                                n <= Reported /\ Len(delivered) < n /\ executed[n] = <<d, n>>
        BY <1>u, <1>5, <1>8, <2>5 DEF SentOK
      <3>1. SentOK(d)
        BY <2>0 DEF SentInv
      <3>2. \A n \in Numbers : Is(<<d, n>>, "Committed")' => Is(<<d, n>>, "Committed")
        BY <1>7, <2>5
      <3>. QED  BY <3>1, <3>2 DEF SentOK
    <2>6. SentOK(e)'
      <3>. SUFFICES ASSUME NEW k \in 1 .. Len(persist_q'[e])
                    PROVE  /\ \A n \in Numbers : Is(<<e, n>>, "Committed")' => n < persist_q'[e][k].lo
                           /\ \A n \in persist_q'[e][k].lo .. persist_q'[e][k].hi : n <= boundary[e] =>
                                n <= Reported /\ Len(delivered) < n /\ executed[n] = <<e, n>>
        BY <1>u, <1>8 DEF SentOK
      <3>0. PICK x \in 1 .. Len(persist_q[e]) : persist_q'[e][k] = persist_q[e][x] /\ 1 < x
        <4>1. k \in Nat /\ 1 < k + 1
          OBVIOUS
        <4>. QED  BY <1>6, <4>1
      <3>1. SentOK(e)
        BY <2>0 DEF SentInv
      <3>2. req.hi < persist_q[e][x].lo /\ persist_q[e][x].lo \in Nat
        <4>1. req.hi < persist_q[e][x].lo
          BY <1>0, <1>2, <1>4, <3>0 DEF RequestInv
        <4>2. persist_q[e][x] \in Requests
          BY <1>1
        <4>3. persist_q[e][x].lo \in Numbers
          BY <4>2 DEF Requests
        <4>. QED  BY <4>1, <4>3, NumberFacts
      <3>3. ASSUME NEW n \in Numbers, Is(<<e, n>>, "Committed")' PROVE n < persist_q[e][x].lo
        <4>1. CASE Is(<<e, n>>, "Committed")
          BY <3>1, <4>1 DEF SentOK
        <4>2. CASE n \in req.lo .. req.hi
          BY <1>4, <3>2, <4>2
        <4>. QED  BY <1>7, <3>3, <4>1, <4>2
      <3>. QED  BY <3>0, <3>1, <3>3 DEF SentOK
    <2>. QED  BY <2>1, <2>2, <2>3, <2>4, <2>5, <2>6 DEF SentInv
  <1>. QED  BY <1>u, <1>8, <1>9 DEF UpInv

LEMMA StartNewEpochUp == ASSUME GceiInv, GceiInv', UpInv, StartNewEpoch PROVE UpInv'
  <1>0. /\ TypeInv /\ PipelineTypeInv /\ QueueInv /\ TaskInv /\ ProofInv /\ CommitInv /\ boundary \in Boundaries
    BY DEF GceiInv, RethInv, PipelineTypeInv, TypeInv
  <1>u. /\ UNCHANGED <<executed, results, vote, boundary, exec_epoch, delivered, blocks>>
        /\ UNCHANGED <<items, tasks, persist_q, resets>>
    BY DEF StartNewEpoch, bufferVars, rethVars, pipeVars, queueVars
  <1>1. phase = "ending" /\ epoch' = epoch + 1 /\ root' = proof
    BY DEF StartNewEpoch
  <1>2. /\ epoch \in Epochs /\ epoch \in Nat /\ epoch >= 1 /\ boundary[epoch] \in Nat /\ epoch' \in Epochs
    BY <1>0, EpochFacts DEF GceiInv, PipelineTypeInv
  <1>3. items = <<>> /\ tasks = <<>> /\ root' = boundary[epoch]
    BY <1>0, <1>1 DEF QueueInv, TaskInv, ProofInv
  <1>4. /\ ChainInv' /\ ComputedInv' /\ Reported' = Reported /\ Reported \in Int /\ Height \in Nat /\ Reported <= Height
        /\ Len(delivered) \in Nat
    <2>1. epoch <= epoch' /\ BlocksKept
      BY <1>u, <1>1, <1>2, SameBlocks
    <2>. QED  BY <1>u, <2>1, ChainKept
  <1>5. ASSUME resets = 0 PROVE SentInv'
    <2>0. SentInv
      BY <1>5 DEF UpInv
    <2>1. Len(delivered) <= boundary[epoch]
      <3>1. CASE Height = 0
        BY <1>0, <1>2, <1>4, <3>1 DEF CommitInv
      <3>2. CASE Height # 0
        <4>1. PICK n \in 1 .. Height : n = Height
          BY <1>4, <3>2
        <4>2. PICK d \in 1 .. exec_epoch : d <= epoch /\ n <= boundary[d]
          BY DEF UpInv, ChainInv, ChainOK
        <4>3. epoch < exec_epoch /\ exec_epoch \in Nat
          BY <1>0, <1>1, <1>5, ConsensusBehind, Counts
        <4>4. d \in Epochs /\ 1 <= d
          <5>1. d \in Nat /\ 1 <= d /\ epoch <= MaxEpoch /\ MaxEpoch \in Nat
            BY <1>2, <4>3, NumberFacts
          <5>. QED  BY <1>2, <4>2, <5>1, NumberFacts
        <4>5. boundary[d] <= boundary[epoch] /\ boundary[d] \in Nat
          BY <1>0, <1>2, <4>2, <4>3, <4>4, BoundaryMonotone, BoundaryFacts
        <4>6. Len(delivered) <= Reported
          BY <1>0 DEF CommitInv
        <4>. QED  BY <1>2, <1>4, <4>1, <4>2, <4>5, <4>6
      <3>. QED  BY <3>1, <3>2
    <2>2. Len(items') = 0 /\ Len(tasks') = 0
      BY <1>u, <1>3
    <2>3. 1 .. Len(items') = {} /\ 1 .. Len(tasks') = {}
      BY <2>2
    <2>4. \A n \in Numbers : ~Is(<<epoch, n>>, "Committed")'
      <3>. SUFFICES ASSUME NEW n \in Numbers, Is(<<epoch, n>>, "Committed")' PROVE FALSE
        OBVIOUS
      <3>1. blocks[<<epoch', n>>] # None
        BY <1>u DEF Is, Present
      <3>2. epoch' <= epoch
        BY <1>0, <1>2, <3>1 DEF TaskInv
      <3>. QED  BY <1>1, <1>2, <3>2
    <2>5. ASSUME NEW e \in Epochs PROVE SentOK(e)'
      <3>1. SentOK(e)
        BY <2>0 DEF SentInv
      <3>. QED  BY <1>u, <1>4, <3>1 DEF SentOK, Is, Present
    <2>6. Len(delivered') <= root'
      BY <1>u, <1>3, <2>1
    <2>. QED  BY <2>3, <2>4, <2>5, <2>6 DEF SentInv
  <1>. QED  BY <1>u, <1>4, <1>5 DEF UpInv

\* A fast-forward sync, and what follows it.
LEMMA RecoveryUp ==
  ASSUME GceiInv, GceiInv', AnswerInv, UpInv,
         \/ FastForwardSync \/ StartRecovery \/ SkipRecovery \/ RecoverSetOrdered \/ RecoverGetExecuted
         \/ RecoverTimeout \/ RecoverCommit \/ RecoverNext \/ RecoverFailed
  PROVE  UpInv'
  <1>0. TypeInv /\ PipelineTypeInv /\ boundary \in Boundaries /\ epoch \in Epochs /\ epoch \in Nat
    BY EpochFacts DEF GceiInv, RethInv, TypeInv
  <1>1. ASSUME BlocksKept, UNCHANGED rethVars, UNCHANGED epoch, resets' # 0 PROVE UpInv'
    <2>1. UNCHANGED <<executed, results, vote, boundary, exec_epoch, delivered>> /\ epoch <= epoch'
      BY <1>0, <1>1 DEF rethVars, pipeVars
    <2>. QED  BY <1>1, <2>1, ChainKept DEF UpInv
  <1>2. CASE FastForwardSync
    <2>1. ReleaseInflightBlocks /\ resets' = resets + 1 /\ UNCHANGED <<rethVars, epoch>>
      BY <1>2 DEF FastForwardSync, Reset
    <2>2. resets' # 0
      BY <1>0, <2>1 DEF PipelineTypeInv
    <2>3. \A e \in Epochs, n \in Numbers : blocks'[<<e, n>>] = blocks[<<e, n>>] \/ blocks'[<<e, n>>] = None
      <3>1. UNCHANGED blocks \/ blocks' = [k \in Keys |-> IF k[2] <= epoch_change_number THEN blocks[k] ELSE None]
        BY <2>1 DEF ReleaseInflightBlocks, bufferVars
      <3>2. CASE UNCHANGED blocks
        BY <3>2
      <3>3. CASE blocks' = [k \in Keys |-> IF k[2] <= epoch_change_number THEN blocks[k] ELSE None]
        BY <3>3, KeyFacts
      <3>. QED  BY <3>1, <3>2, <3>3
    <2>. QED  BY <1>0, <1>1, <2>1, <2>2, <2>3, RemovalKeeps
  <1>3. ASSUME phase \in {"resetting", "recover"} PROVE resets # 0
    BY <1>3 DEF AnswerInv, VoteInv
  <1>4. CASE StartRecovery \/ SkipRecovery \/ RecoverTimeout \/ RecoverNext \/ RecoverFailed
    <2>1. UNCHANGED <<bufferVars, rethVars, epoch, resets>> /\ phase \in {"resetting", "recover"}
      BY <1>4 DEF StartRecovery, SkipRecovery, RecoverTimeout, RecoverNext, RecoverFailed
    <2>2. UNCHANGED blocks
      BY <2>1 DEF bufferVars
    <2>. QED  BY <1>1, <1>3, <2>1, <2>2, SameBlocks
  <1>5. CASE RecoverSetOrdered \/ RecoverGetExecuted
    <2>1. /\ UNCHANGED <<rethVars, epoch, resets>> /\ phase = "recover"
          /\ \E id, p : SetOrderedBlocks(epoch, recovery.next, id, p) \/ GetExecutedRes(epoch, recovery.next, id)
      BY <1>5 DEF RecoverSetOrdered, RecoverGetExecuted
    <2>2. recovery.next \in Numbers
      <3>1. recovery \in Recoveries
        BY <1>0, <2>1 DEF PipelineTypeInv
      <3>. QED  BY <3>1 DEF Recoveries
    <2>3. BlocksKept
      BY <1>0, <2>1, <2>2, CallKeeps
    <2>. QED  BY <1>1, <1>3, <2>1, <2>3
  <1>6. CASE RecoverCommit
    <2>1. /\ UNCHANGED <<rethVars, epoch, resets>> /\ phase = "recover"
          /\ SetCommitBlocks(epoch, recovery.lo .. recovery.next)
      BY <1>6 DEF RecoverCommit
    <2>2. BlocksKept
      BY <1>0, <2>1, CommitBlocks
    <2>. QED  BY <1>1, <1>3, <2>1, <2>2
  <1>. QED  BY <1>2, <1>4, <1>5, <1>6

LEMMA UpStep == ASSUME GceiInv, GceiInv', AnswerInv, UpInv, [Next]_gceiVars PROVE UpInv'
  <1>1. CASE ConsensusNext /\ Running
    <2>1. CASE StartEpochManager \/ OrphanTask \/ \E e \in Epochs : PersistingDone(e)
      BY <2>1, QuietUp
    <2>2. CASE OrderBatch \/ ScheduledTask \/ TaskTimeout \/ ProcessExecutionFailure
      BY <2>2, OrderBatchUp, ScheduledTaskUp, TaskTimeoutUp, ProcessExecutionFailureUp
    <2>3. CASE RetrySchedule \/ ProcessExecutionResponse \/ AdvanceHead
      BY <2>3, RetryScheduleUp, ProcessExecutionResponseUp, AdvanceHeadUp
    <2>4. CASE (\E e \in Epochs : CommitLedger(e)) \/ EndEpoch \/ StartNewEpoch
      BY <1>1, <2>4, CommitLedgerUp, EndEpochUp, StartNewEpochUp
    <2>5. CASE \/ FastForwardSync \/ StartRecovery \/ SkipRecovery \/ RecoverSetOrdered \/ RecoverGetExecuted
               \/ RecoverTimeout \/ RecoverCommit \/ RecoverNext \/ RecoverFailed
      BY <2>5, RecoveryUp
    <2>. QED  BY <1>1, <2>1, <2>2, <2>3, <2>4, <2>5 DEF ConsensusNext
  <1>2. CASE RethNext /\ UNCHANGED pipelineVars
    BY <1>2, RethUp
  <1>3. CASE Cleanup
    BY <1>3, CleanupUp
  <1>4. CASE UNCHANGED gceiVars
    <2>1. /\ UNCHANGED <<executed, results, vote, boundary, exec_epoch, delivered, blocks>>
          /\ UNCHANGED <<epoch, root, items, tasks, persist_q, resets>>
      BY <1>4 DEF gceiVars, bufferVars, rethVars, pipeVars, pipelineVars, queueVars
    <2>. QED  BY <2>1, SameBlocks, UpQuiet
  <1>. QED  BY <1>1, <1>2, <1>3, <1>4 DEF Next

\* What is at the head of a persisting queue is computed.
LEMMA SentIsComputed == ASSUME GceiInv, UpInv PROVE NodeStaysUp
  <1>0. /\ TypeInv /\ BlockInv /\ ExecInv /\ FoundInv /\ CommitInv /\ PipelineTypeInv /\ boundary \in Boundaries
        /\ persist_q \in [Epochs -> Seq(Requests)]
    BY DEF GceiInv, RethInv, TypeInv, PipelineTypeInv
  <1>1. ~down
    BY <1>0 DEF TypeInv
  <1>2. ASSUME resets = 0, NEW e \in Epochs, persist_q[e] # <<>>,
               NEW n \in Head(persist_q[e]).lo .. Head(persist_q[e]).hi, n <= boundary[e]
        PROVE  ~CommitRejects(e, n, Id(e, n))
    <2>0. PICK req \in Requests : req = Head(persist_q[e]) /\ req = persist_q[e][1] /\ 1 \in 1 .. Len(persist_q[e])
      <3>1. persist_q[e] \in Seq(Requests)
        BY <1>0
      <3>. QED  BY <1>2, <3>1
    <2>1. n <= Reported /\ Len(delivered) < n /\ executed[n] = <<e, n>>
      BY <1>2, <2>0 DEF UpInv, SentInv, SentOK
    <2>2. n \in Nat /\ n \in Numbers
      <3>1. req.lo \in Numbers /\ req.hi \in Numbers
        BY DEF Requests
      <3>2. req.lo \in Nat /\ req.hi \in Nat /\ req.hi <= MaxBlock /\ MaxBlock \in Nat
        BY <3>1, NumberFacts
      <3>3. n \in Nat /\ n <= MaxBlock
        BY <2>0, <3>2
      <3>. QED  BY <3>3, NumberFacts
    <2>3. n \in 1 .. Height /\ n >= latest_finalized
      <3>1. /\ Reported \in Int /\ Reported <= Height /\ Height \in Nat /\ Len(delivered) \in Nat
            /\ latest_finalized \in Nat /\ persisted \in Nat
        BY <1>0, Counts
      <3>2. latest_finalized <= persisted /\ persisted <= Len(delivered)
        BY <1>0 DEF CommitInv
      <3>. QED  BY <2>1, <2>2, <3>1, <3>2
    <2>4. blocks[<<e, n>>] # None
      BY <1>0, <2>1, <2>3 DEF FoundInv
    <2>5. blocks[<<e, n>>].st # "Ordered"
      BY <2>1, <2>3 DEF UpInv, ComputedInv
    <2>6. blocks[<<e, n>>].id = <<e, n>>
      BY <1>0, <2>2, <2>4 DEF BlockInv, StateOK
    <2>7. Present(<<e, n>>)
      BY <2>2, <2>4, KeyFacts DEF Present
    <2>. QED  BY <2>5, <2>6, <2>7 DEF CommitRejects, Is, Id
  <1>. QED  BY <1>1, <1>2 DEF NodeStaysUp

\* The node stays up: none of start_execution, start_commit_vote and start_commit ends with an
\* error, and until a fast-forward sync set_commit_blocks accepts what the persisting phase commits
\* up to the epoch's last block, so that ExecutionProxy::commit does not panic.
THEOREM NodeUp == Spec => []NodeStaysUp
  <1>1. GceiInv /\ GceiInv' /\ AnswerInv /\ [Next]_gceiVars => AnswerInv'
    BY AnswerStep
  <1>2. GceiInv /\ GceiInv' /\ AnswerInv /\ UpInv /\ [Next]_gceiVars => UpInv'
    BY UpStep
  <1>3. GceiInv /\ UpInv => NodeStaysUp
    BY SentIsComputed
  <1>. QED  BY AnswerInit, UpInit, GceiInvariant, <1>1, <1>2, <1>3, PTL DEF Spec
=============================================================================
