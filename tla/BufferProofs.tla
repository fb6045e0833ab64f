---------------------------- MODULE BufferProofs ----------------------------
(***************************************************************************)
(* The half of the proofs about Gcei that concerns the execution client    *)
(* and the block buffer manager: RethInv, and what it takes to keep it.    *)
(*                                                                         *)
(* RethInv says in which stage of an epoch the node is (executing, last    *)
(* block executed, change reported, change released, change consumed),     *)
(* what the map of the buffer manager holds in each (which numbers are     *)
(* there, under which epoch, in which state), what start_execution,        *)
(* start_commit_vote and start_commit have in hand, and which notifiers    *)
(* are still waited on.  It is inductive only with the facts about         *)
(* consensus in GceiProofs: the lemmas of the second half of this module   *)
(* say what set_ordered_blocks, get_executed_res and set_commit_blocks do  *)
(* to the map when they are called as those facts say.                     *)
(***************************************************************************)
EXTENDS Gcei, WellFoundedInduction, TLAPS

----------------------------------------------------------------------------
(* The inductive invariant: reth and the buffer manager *)

Parents     == Keys \cup (Epochs \X {"genesis"})
PipeBlocks  == [epoch : Epochs, num : Numbers, id : Keys, parent : Parents]
RethResults == [num : Numbers, id : Keys, new_epoch : Epochs \cup {None}]

Height == Len(executed)

\* How many results set_compute_res was given.
Reported == Height - Len(results) - (IF vote = None THEN 0 ELSE 1)

\* The last block before epoch e, and what block n of epoch e reconfigures to.
Base(e) == IF e = 1 THEN 0 ELSE boundary[e - 1]
NewEpoch(e, n) == IF boundary[e] = n THEN e + 1 ELSE None

TypeInv ==
  /\ boundary \in Boundaries
  /\ blocks = [k \in Keys |-> blocks[k]]
  /\ latest_commit \in Numbers /\ latest_finalized \in Numbers /\ persisted \in Numbers
  /\ current_epoch \in Epochs /\ reth_epoch \in Epochs /\ exec_epoch \in Epochs \ {0}
  /\ commit_epoch \in Epochs
  /\ start_ordered_block \in 1 .. MaxBlock + 1
  /\ commit_pc \in {"load", "fetch", "set_state", "notify"}
  /\ notifiers \subseteq Keys
  /\ pipe \in Seq(PipeBlocks) /\ executed \in Seq(Keys)
  /\ results \in Seq(RethResults) /\ delivered \in Seq(Keys)
  /\ down = FALSE

\* The stages of an epoch.  reth reads and executes the epoch's blocks; the last one is executed
\* and not yet reported; it is reported, and consensus has not yet released the blocks behind it;
\* consensus has, and start_execution has not consumed the change; it has, and has not swapped its
\* epoch.  Before the first epoch start_execution may have read the epoch of the database.
NoChange ==
  /\ next_epoch = None /\ epoch_change_number = 0 /\ epoch_change_info = None
  /\ epoch_change_ready = FALSE

AtEnd ==
  /\ exec_epoch >= 2 /\ Height = boundary[exec_epoch - 1]
  /\ reth_epoch = exec_epoch - 1

Reading ==
  reth_epoch = exec_epoch /\ current_epoch = exec_epoch /\ NoChange /\ exec_pc = "fetch"

Reporting ==
  AtEnd /\ current_epoch = reth_epoch /\ NoChange /\ exec_pc = "fetch" /\ Reported < Height

Pending ==
  /\ AtEnd /\ current_epoch = reth_epoch /\ exec_pc = "fetch" /\ Reported = Height
  /\ next_epoch = exec_epoch /\ epoch_change_number = Height /\ epoch_change_ready = FALSE
  /\ epoch_change_info = [number |-> Height, epoch_state |-> exec_epoch]

Released ==
  /\ AtEnd /\ current_epoch = exec_epoch /\ exec_pc \in {"fetch", "consume"} /\ Reported = Height
  /\ next_epoch = None /\ epoch_change_number = Height /\ epoch_change_ready = TRUE
  /\ epoch_change_info = None

Following ==
  /\ AtEnd /\ current_epoch = exec_epoch /\ exec_pc = "swap" /\ Reported = Height /\ NoChange
  /\ consumed = [epoch |-> exec_epoch, num |-> Height]

Idle ==
  /\ reth_epoch < exec_epoch /\ NoChange /\ pipe = <<>> /\ Reported = Height
  /\ Len(delivered) = Height /\ latest_commit = Height /\ start_ordered_block = Height + 1

Booting ==
  /\ Idle /\ current_epoch = exec_epoch
  /\ exec_pc \in {"init", "fetch", "consume", "swap"}
  /\ exec_pc = "swap" => consumed = [epoch |-> exec_epoch, num |-> Height]

Early ==
  /\ Idle /\ current_epoch < exec_epoch
  /\ exec_pc = "init" \/ (exec_pc = "fetch" /\ reth_epoch = current_epoch)

StageInv == Reading \/ Reporting \/ Pending \/ Released \/ Following \/ Booting \/ Early

\* A computed block is the block reth executed under its number, with its result, or a suffix
\* block with the dummy result.
Answered(e, n) ==
  \/ /\ 1 <= n /\ n <= Reported /\ executed[n] = <<e, n>>
     /\ blocks[<<e, n>>].res = Executed(NewEpoch(e, n))
  \/ /\ epoch_change_info # None /\ e = exec_epoch - 1 /\ n > Height
     /\ blocks[<<e, n>>].res = Dummy(exec_epoch)

\* The parent reth expects of block n, which it has not executed yet.
ParentOf(n) == IF n = Height + 1 THEN ExecutedId(Height) ELSE <<exec_epoch, n - 1>>

\* Where a block may be: up to the buffer manager's epoch, of an earlier epoch only up to the
\* epoch's last block, and behind the epoch before.
PlaceOK(e, n) ==
  /\ e <= current_epoch
  /\ e < current_epoch => n <= Height /\ n <= boundary[e]
  /\ IF e = 0 THEN n = 0 ELSE n > Base(e)

StateOK(e, n) ==
  /\ blocks[<<e, n>>].id = <<e, n>>
  /\ blocks[<<e, n>>].st \in {"Ordered", "Computed", "Committed", "Historical"}
  /\ blocks[<<e, n>>].st = "Historical" => n <= persisted
  /\ blocks[<<e, n>>].st \in {"Computed", "Committed"} => Answered(e, n)
  /\ blocks[<<e, n>>].st = "Ordered" => blocks[<<e, n>>].parent \in Parents
  /\ blocks[<<e, n>>].st = "Ordered" /\ e = exec_epoch /\ n > Height =>
       blocks[<<e, n>>].parent = ParentOf(n)

BlockInv ==
  \A e \in Epochs, n \in Numbers : blocks[<<e, n>>] # None => PlaceOK(e, n) /\ StateOK(e, n)

\* One chain is executed; what is not yet finalized of it is in the map.
ExecInv ==
  /\ Base(exec_epoch) <= Height /\ Height < boundary[exec_epoch] /\ Height <= MaxBlock
  /\ \A e \in 1 .. exec_epoch - 1 :
       boundary[e] <= Height /\ executed[boundary[e]] = <<e, boundary[e]>>
  /\ \A n \in 1 .. Height : n > Base(exec_epoch) => executed[n] = <<exec_epoch, n>>
  /\ \A n \in 1 .. Height : \E e \in 1 .. exec_epoch : executed[n] = <<e, n>> /\ n <= boundary[e]

FoundInv ==
  \A n \in 1 .. Height : n >= latest_finalized => blocks[executed[n]] # None

\* Results reach start_commit_vote in order and find their block ordered.
ResultInv ==
  /\ 0 <= Reported
  /\ vote # None =>
       vote = [num |-> Reported + 1, id |-> <<reth_epoch, Reported + 1>>,
               new_epoch |-> NewEpoch(reth_epoch, Reported + 1), epoch |-> reth_epoch]
  /\ \A i \in 1 .. Len(results) :
       results[i] = [num |-> Height - Len(results) + i,
                     id |-> <<reth_epoch, Height - Len(results) + i>>,
                     new_epoch |-> NewEpoch(reth_epoch, Height - Len(results) + i)]

UnreportedInv ==
  \A n \in 1 .. Height : n > Reported =>
    executed[n] = <<reth_epoch, n>> /\ blocks[<<reth_epoch, n>>] # None
                                    /\ blocks[<<reth_epoch, n>>].st = "Ordered"

\* The pipe holds blocks of ended epochs, then the next blocks of this one.
Fresh == IF reth_epoch = exec_epoch THEN start_ordered_block - 1 - Height ELSE 0
Stale == Len(pipe) - Fresh

FreshBlock(n) ==
  [epoch |-> exec_epoch, num |-> n, id |-> <<exec_epoch, n>>, parent |-> ParentOf(n)]

PipeInv ==
  /\ 0 <= Fresh /\ Fresh <= Len(pipe)
  /\ \A i \in 1 .. Len(pipe) :
       /\ i > Stale => pipe[i] = FreshBlock(Height + i - Stale)
       /\ i <= Stale => pipe[i].epoch < exec_epoch
  /\ \A n \in Numbers : Height < n /\ n <= Height + Fresh =>
       blocks[<<exec_epoch, n>>] # None /\ blocks[<<exec_epoch, n>>].st = "Ordered"

CommitInv ==
  /\ Len(delivered) <= Reported
  /\ \A n \in 1 .. Len(delivered) : delivered[n] = executed[n]
  /\ start_commit_num = Len(delivered) + 1
  /\ persisted <= Len(delivered) /\ latest_finalized <= persisted
  /\ commit_pc \in {"load", "fetch"} => notifiers = {}

\* The committer of an epoch's last block is told when it is on disk, and not before.
NotifyInv ==
  \A e \in Epochs : Is(<<e, boundary[e]>>, "Committed") =>
    SenderAlive(<<e, boundary[e]>>) \/ boundary[e] <= persisted

RethInv ==
  /\ TypeInv /\ StageInv /\ BlockInv /\ ExecInv /\ FoundInv /\ ResultInv /\ UnreportedInv
  /\ PipeInv /\ CommitInv /\ NotifyInv

\* Only a commit commits the last block of an epoch; only its removal from the map ends that.
LastKept ==
  \A e \in Epochs :
    /\ Is(<<e, boundary[e]>>, "Committed") =>
         Is(<<e, boundary[e]>>, "Committed")' \/ boundary[e] <= persisted
    /\ Is(<<e, boundary[e]>>, "Committed")' => Is(<<e, boundary[e]>>, "Committed")

----------------------------------------------------------------------------
(* Facts about ids, blocks and boundaries *)

LEMMA KeyFacts ==
  /\ \A e \in Epochs, n \in Numbers : <<e, n>> \in Keys /\ <<e, n>>[1] = e /\ <<e, n>>[2] = n
  /\ \A k \in Keys : k = <<k[1], k[2]>> /\ k[1] \in Epochs /\ k[2] \in Numbers
  BY DEF Keys

LEMMA NumberFacts ==
  /\ MaxEpoch \in Nat /\ MaxEpoch >= 1 /\ MaxBlock \in Nat /\ MaxBlock >= 1
  /\ \A n : n \in Numbers <=> n \in Nat /\ n <= MaxBlock
  /\ \A e : e \in Epochs <=> e \in Nat /\ e <= MaxEpoch
  /\ None \notin Int /\ None \notin Numbers /\ None \notin Epochs
  BY BufferAssumption, BufferNoneAssumption DEF Numbers, Epochs

LEMMA BoundaryFacts ==
  ASSUME boundary \in Boundaries
  PROVE  /\ \A e \in Epochs : boundary[e] \in Nat /\ boundary[e] >= 1 /\ boundary[e] <= MaxBlock + 1
         /\ boundary[MaxEpoch] = MaxBlock + 1
         /\ \A e \in Epochs : e >= 1 /\ boundary[e] <= MaxBlock =>
              e + 1 \in Epochs /\ boundary[e] < boundary[e + 1]
  <1>1. /\ boundary \in [Epochs -> 1 .. MaxBlock + 1] /\ boundary[MaxEpoch] = MaxBlock + 1
        /\ \A e \in 1 .. MaxEpoch - 1 : boundary[e] < boundary[e + 1] \/ boundary[e] = MaxBlock + 1
    BY DEF Boundaries
  <1>2. \A e \in Epochs : boundary[e] \in Nat /\ boundary[e] >= 1 /\ boundary[e] <= MaxBlock + 1
    BY <1>1, NumberFacts
  <1>3. ASSUME NEW e \in Epochs, e >= 1, boundary[e] <= MaxBlock
        PROVE  e + 1 \in Epochs /\ boundary[e] < boundary[e + 1]
    <2>1. e # MaxEpoch
      BY <1>1, <1>2, <1>3, NumberFacts
    <2>2. e \in 1 .. MaxEpoch - 1 /\ e + 1 \in Epochs
      BY <1>3, <2>1, NumberFacts
    <2>. QED  BY <1>1, <1>2, <1>3, <2>2, NumberFacts
  <1>. QED  BY <1>1, <1>2, <1>3

LEMMA StateFacts ==
  ASSUME NEW id \in Keys
  PROVE  /\ \A p \in Keys : Ordered(id, p) # None
         /\ \A e \in Epochs : Ordered(id, EpochGenesis(e)) # None
         /\ \A r \in ComputeResults : Computed(id, r) # None
         /\ \A r \in ComputeResults, p \in BOOLEAN : Committed(id, r, p) # None
         /\ Historical(id) # None
  BY BufferNoneAssumption DEF Ordered, Computed, Committed, Historical, BlockStates, EpochGenesis

LEMMA ResultFacts ==
  /\ \A x \in Epochs \cup {None} : Executed(x) \in ComputeResults /\ Dummy(x) \in ComputeResults
  /\ \A x, y : Executed(x) # Dummy(y)
  BY DEF Executed, Dummy, ComputeResults

----------------------------------------------------------------------------
(* The initial states *)

LEMMA RethInit == Init => RethInv
  <1>. SUFFICES ASSUME Init PROVE RethInv
    OBVIOUS
  <1>1. PICK s \in Starts :
          /\ s.epoch <= MaxEpoch
          /\ s.epoch = 1 => s.number < boundary[1]
          /\ s.epoch = 2 => s.number = boundary[1]
          /\ InitBuffer(s.number, s.id_epoch, Id(s.id_epoch, s.number), s.db_epoch)
          /\ InitReth(s.number, s.epoch)
          /\ InitPipeline(s.number, s.epoch)
    BY DEF Init
  <1>2. /\ s.number \in Numbers /\ s.epoch \in Epochs /\ s.id_epoch \in Epochs /\ s.db_epoch \in Epochs
        /\ s.epoch >= 1 /\ s.db_epoch <= s.epoch /\ s.id_epoch <= s.epoch
        /\ s.id_epoch = s.db_epoch /\ s.number >= 0
        /\ s.id_epoch = s.number
        /\ s.epoch = 1 \/ (s.epoch = 2 /\ s.number = 1)
        /\ s.id_epoch <= 1
    <2>1. s.number \in {0, 1} /\ s.epoch \in {1, 2} /\ s.id_epoch = s.number /\ s.db_epoch = s.number
          /\ (s.epoch = 2 => s.number = 1)
      BY DEF Starts
    <2>2. s.epoch <= MaxEpoch
      BY <1>1
    <2>. QED  BY <2>1, <2>2, NumberFacts
  <1>3. /\ executed = [n \in 1 .. s.number |-> <<1, n>>] /\ delivered = executed
        /\ executed \in Seq(Keys) /\ Height = s.number
    <2>1. \A n \in 1 .. s.number : <<1, n>> \in Keys
      BY <1>2, NumberFacts, KeyFacts
    <2>2. executed = [n \in 1 .. s.number |-> <<1, n>>] /\ delivered = executed
      BY <1>1 DEF InitReth, Id
    <2>3. s.number \in Nat
      BY <1>2, NumberFacts
    <2>. QED  BY <2>1, <2>2, <2>3 DEF Height
  <1>4. boundary \in Boundaries
    BY DEF Init
  <1>5. /\ results = <<>> /\ vote = None /\ Len(results) = 0 /\ Reported = Height /\ Len(pipe) = 0
        /\ pipe = <<>>
    BY <1>1, <1>3, <1>2, NumberFacts DEF InitReth, Reported
  <1>6. \A e \in Epochs, n \in Numbers : blocks[<<e, n>>] =
          IF e = s.id_epoch /\ n = s.number THEN Historical(<<e, n>>) ELSE None
    BY <1>1, <1>2, KeyFacts DEF InitBuffer, Id
  <1>7. TypeInv
    BY <1>1, <1>2, <1>3, <1>4, <1>5, NumberFacts, KeyFacts DEF TypeInv, InitBuffer, InitReth
  <1>8. StageInv
    <2>1. Idle /\ exec_pc = "init" /\ current_epoch = s.db_epoch /\ exec_epoch = s.epoch
      BY <1>1, <1>2, <1>3, <1>5, NumberFacts DEF Idle, InitBuffer, InitReth, NoChange
    <2>. QED  BY <2>1, <1>2, NumberFacts DEF StageInv, Booting, Early
  <1>9. BlockInv
    <2>. SUFFICES ASSUME NEW e \in Epochs, NEW n \in Numbers, blocks[<<e, n>>] # None
                  PROVE  PlaceOK(e, n) /\ StateOK(e, n)
      BY DEF BlockInv
    <2>1. e = s.id_epoch /\ n = s.number /\ blocks[<<e, n>>] = Historical(<<e, n>>)
      BY <1>6
    <2>2. PlaceOK(e, n)
      BY <2>1, <1>1, <1>2, <1>4, BoundaryFacts, NumberFacts DEF PlaceOK, InitBuffer, Base
    <2>3. StateOK(e, n)
      BY <2>1, <1>1, <1>2, <1>3, NumberFacts DEF StateOK, Historical, InitReth
    <2>. QED  BY <2>2, <2>3
  <1>10. ExecInv
    <2>1. \A n \in 1 .. Height : n = 1 /\ executed[n] = <<1, n>> /\ boundary[1] >= n
      BY <1>2, <1>3, <1>4, BoundaryFacts, NumberFacts
    <2>2. exec_epoch = s.epoch /\ Height = s.number /\ boundary[1] \in Nat
      BY <1>1, <1>3, <1>4, BoundaryFacts, NumberFacts DEF InitReth
    <2>3. CASE s.epoch = 1
      <3>1. Base(exec_epoch) = 0 /\ 1 .. exec_epoch - 1 = {}
        BY <2>2, <2>3 DEF Base
      <3>2. Height < boundary[exec_epoch] /\ Height <= MaxBlock /\ Height >= 0
        BY <1>1, <1>2, <2>2, <2>3, NumberFacts
      <3>. QED  BY <2>1, <2>2, <2>3, <3>1, <3>2 DEF ExecInv
    <2>4. CASE s.epoch = 2
      <3>1. Base(exec_epoch) = 1 /\ boundary[1] = 1 /\ Height = 1 /\ \A e \in 1 .. exec_epoch - 1 : e = 1
        BY <1>1, <1>2, <2>2, <2>4 DEF Base
      <3>2. Height < boundary[exec_epoch] /\ Height <= MaxBlock
        BY <3>1, <1>2, <1>4, <2>2, <2>4, BoundaryFacts, NumberFacts
      <3>3. executed[1] = <<1, 1>> /\ 1 \in 1 .. exec_epoch
        BY <2>1, <2>2, <2>4, <3>1
      <3>. QED  BY <2>1, <2>2, <2>4, <3>1, <3>2, <3>3 DEF ExecInv
    <2>. QED  BY <2>3, <2>4, <1>2
  <1>11. FoundInv
    <2>. SUFFICES ASSUME NEW n \in 1 .. Height, n >= latest_finalized PROVE blocks[executed[n]] # None
      BY DEF FoundInv
    <2>1. n = 1 /\ s.number = 1 /\ s.id_epoch = 1 /\ executed[n] = <<1, 1>>
      BY <1>2, <1>3, NumberFacts
    <2>. QED  BY <2>1, <1>6, <1>2, StateFacts, KeyFacts, NumberFacts
  <1>12. ResultInv /\ UnreportedInv
    BY <1>5, <1>2, <1>3, NumberFacts DEF ResultInv, UnreportedInv
  <1>13. PipeInv
    BY <1>1, <1>2, <1>3, <1>5, NumberFacts DEF PipeInv, Fresh, Stale, InitReth
  <1>14. CommitInv
    BY <1>1, <1>2, <1>3, <1>5, NumberFacts DEF CommitInv, InitReth, InitBuffer
  <1>15. NotifyInv
    <2>. SUFFICES ASSUME NEW e \in Epochs, Is(<<e, boundary[e]>>, "Committed") PROVE FALSE
      BY DEF NotifyInv
    <2>1. boundary[e] \in Numbers /\ blocks[<<e, boundary[e]>>] # None
          /\ blocks[<<e, boundary[e]>>].st = "Committed"
      BY KeyFacts DEF Is, Present
    <2>2. blocks[<<e, boundary[e]>>] = Historical(<<e, boundary[e]>>)
      BY <2>1, <1>6
    <2>. QED  BY <2>1, <2>2 DEF Historical
  <1>. QED  BY <1>7, <1>8, <1>9, <1>10, <1>11, <1>12, <1>13, <1>14, <1>15 DEF RethInv

----------------------------------------------------------------------------
(* What a step leaves alone *)

LEMMA Counts ==
  ASSUME TypeInv
  PROVE  /\ Height \in Nat /\ Len(results) \in Nat /\ Len(pipe) \in Nat /\ Len(delivered) \in Nat
         /\ Reported \in Int /\ Reported <= Height
         /\ current_epoch \in Nat /\ reth_epoch \in Nat /\ exec_epoch \in Nat /\ exec_epoch >= 1
         /\ start_ordered_block \in Nat /\ persisted \in Nat /\ latest_finalized \in Nat
         /\ latest_commit \in Nat
  BY NumberFacts DEF TypeInv, Height, Reported

LEMMA StageFacts ==
  ASSUME TypeInv, StageInv
  PROVE  /\ reth_epoch <= current_epoch \/ exec_pc = "init"
         /\ current_epoch <= exec_epoch /\ reth_epoch <= exec_epoch
         /\ exec_pc \in {"init", "fetch", "consume", "swap"}
         /\ epoch_change_info = None \/ Pending
  BY Counts DEF StageInv, Reading, Reporting, Pending, Released, Following, Booting, Early, Idle, AtEnd,
     NoChange

LEMMA SuffixFacts ==
  ASSUME TypeInv, StageInv
  PROVE  /\ epoch_change_info # None =>
              Pending /\ epoch_change_info.number = Height /\ epoch_change_info.epoch_state = exec_epoch
         /\ \A n : IsSuffixBlock(n) <=> epoch_change_info # None /\ n > Height
  <1>1. epoch_change_info # None =>
          Pending /\ epoch_change_info = [number |-> Height, epoch_state |-> exec_epoch]
    BY StageFacts DEF Pending
  <1>2. epoch_change_info # None => epoch_change_info.number = Height /\ epoch_change_info.epoch_state = exec_epoch
    BY <1>1
  <1>. QED  BY <1>1, <1>2 DEF IsSuffixBlock

LEMMA ReportedFrame ==
  ASSUME UNCHANGED <<executed, results, vote>> PROVE Reported' = Reported /\ Height' = Height
  BY DEF Reported, Height

LEMMA StageFrame ==
  ASSUME StageInv, Reported' = Reported,
         UNCHANGED <<exec_epoch, executed, boundary, reth_epoch, current_epoch, next_epoch,
                     epoch_change_number, epoch_change_info, epoch_change_ready, exec_pc, consumed, pipe, delivered, latest_commit, start_ordered_block>>
  PROVE  StageInv'
  BY DEF StageInv, Reading, Reporting, Pending, Released, Following, Booting, Early, Idle, AtEnd,
     NoChange, Height

LEMMA BlockFrame ==
  ASSUME BlockInv, TypeInv, persisted' \in Nat, persisted' >= persisted,
         Reported' = Reported,
         UNCHANGED <<blocks, current_epoch, boundary, executed, epoch_change_info, exec_epoch>>
  PROVE  BlockInv'
  <1>. SUFFICES ASSUME NEW e \in Epochs, NEW n \in Numbers, blocks[<<e, n>>] # None
                PROVE  PlaceOK(e, n)' /\ StateOK(e, n)'
    BY DEF BlockInv
  <1>1. PlaceOK(e, n) /\ StateOK(e, n)
    BY DEF BlockInv
  <1>2. PlaceOK(e, n)'
    BY <1>1 DEF PlaceOK, Height, Base
  <1>3. StateOK(e, n)'
    <2>1. (Answered(e, n) => Answered(e, n)') /\ ParentOf(n)' = ParentOf(n) /\ Height' = Height
      BY DEF Answered, ParentOf, ExecutedId, NewEpoch, Height
    <2>2. n <= persisted => n <= persisted'
      <3>1. n \in Nat /\ persisted \in Nat /\ persisted' \in Nat
        BY Counts, NumberFacts
      <3>. QED  BY <3>1
    <2>. QED  BY <1>1, <2>1, <2>2 DEF StateOK
  <1>. QED  BY <1>2, <1>3

LEMMA ExecFrame ==
  ASSUME ExecInv, UNCHANGED <<boundary, exec_epoch, executed>> PROVE ExecInv'
  BY DEF ExecInv, Height, Base

LEMMA FoundFrame ==
  ASSUME FoundInv, TypeInv, latest_finalized' \in Nat, latest_finalized' >= latest_finalized,
         UNCHANGED <<blocks, executed>>
  PROVE  FoundInv'
  BY Counts DEF FoundInv, Height

LEMMA ResultFrame ==
  ASSUME ResultInv, UNCHANGED <<executed, results, vote, reth_epoch, boundary>> PROVE ResultInv'
  BY DEF ResultInv, Height, Reported, NewEpoch

LEMMA UnreportedFrame ==
  ASSUME UnreportedInv, Reported' = Reported, UNCHANGED <<executed, reth_epoch, blocks>>
  PROVE  UnreportedInv'
  BY DEF UnreportedInv, Height

LEMMA PipeFrame ==
  ASSUME PipeInv, UNCHANGED <<reth_epoch, exec_epoch, start_ordered_block, executed, pipe, blocks>>
  PROVE  PipeInv'
  BY DEF PipeInv, Fresh, Stale, Height, FreshBlock, ParentOf, ExecutedId

LEMMA CommitFrame ==
  ASSUME CommitInv, Reported' = Reported,
         UNCHANGED <<delivered, executed, start_commit_num, persisted, latest_finalized, commit_pc, notifiers>>
  PROVE  CommitInv'
  BY DEF CommitInv

LEMMA NotifyFrame ==
  ASSUME NotifyInv, TypeInv, persisted' \in Nat, persisted' >= persisted,
         UNCHANGED <<blocks, boundary, notifiers>>
  PROVE  NotifyInv'
  <1>. SUFFICES ASSUME NEW e \in Epochs, Is(<<e, boundary[e]>>, "Committed")
                PROVE  SenderAlive(<<e, boundary[e]>>)' \/ boundary[e] <= persisted'
    BY DEF NotifyInv, Is, Present
  <1>1. SenderAlive(<<e, boundary[e]>>) \/ boundary[e] <= persisted
    BY DEF NotifyInv
  <1>2. boundary[e] \in Nat /\ persisted \in Nat
    BY Counts, BoundaryFacts DEF TypeInv
  <1>. QED  BY <1>1, <1>2 DEF SenderAlive, Is, Present

----------------------------------------------------------------------------
(* start_execution *)

LEMMA StartExecutionStep == ASSUME RethInv, StartExecution PROVE RethInv'
  <1>. USE DEF StartExecution, bufferVars, commitVars, pipeVars
  <1>1. TypeInv'
    BY DEF RethInv, TypeInv
  <1>2. Booting \/ Early
    BY DEF RethInv, StageInv, Reading, Reporting, Pending, Released, Following
  <1>3. StageInv'
    BY <1>2, Counts, StageFacts DEF RethInv, StageInv, Booting, Early, Idle, Reading, NoChange, Height, Reported
  <1>4. BlockInv' /\ ExecInv' /\ FoundInv'
    BY BlockFrame, ExecFrame, FoundFrame, ReportedFrame, Counts DEF RethInv
  <1>5. ResultInv' /\ UnreportedInv'
    <2>1. Len(results) = 0 /\ vote = None /\ Reported = Height
      BY <1>2, Counts DEF RethInv, Booting, Early, Idle, Reported, Height
    <2>. QED  BY <2>1, Counts DEF RethInv, ResultInv, UnreportedInv, Height, Reported
  <1>6. PipeInv'
    BY <1>2, Counts DEF RethInv, PipeInv, Booting, Early, Idle, Fresh, Stale, Height
  <1>7. CommitInv' /\ NotifyInv'
    BY CommitFrame, NotifyFrame, ReportedFrame, Counts DEF RethInv
  <1>. QED  BY <1>1, <1>3, <1>4, <1>5, <1>6, <1>7 DEF RethInv

LEMMA NoticeEpochChangeStep == ASSUME RethInv, NoticeEpochChange PROVE RethInv'
  <1>. USE DEF NoticeEpochChange, bufferVars, commitVars, pipeVars
  <1>1. TypeInv'
    BY DEF RethInv, TypeInv
  <1>2. Released \/ Booting
    BY DEF RethInv, StageInv, Reading, Reporting, Pending, Following, Early, Idle, NoChange, GetOrderedFails
  <1>3. StageInv'
    BY <1>2, ReportedFrame DEF StageInv, Released, Booting, Idle, AtEnd, NoChange
  <1>4. BlockInv' /\ ExecInv' /\ FoundInv' /\ ResultInv' /\ UnreportedInv' /\ PipeInv' /\ CommitInv' /\ NotifyInv'
    BY BlockFrame, ExecFrame, FoundFrame, ResultFrame, UnreportedFrame, PipeFrame, CommitFrame, NotifyFrame,
       ReportedFrame, Counts DEF RethInv
  <1>. QED  BY <1>1, <1>3, <1>4 DEF RethInv

LEMMA ConsumeStep == ASSUME RethInv, Consume PROVE RethInv'
  <1>. USE DEF Consume, ConsumeEpochChange, commitVars, pipeVars
  <1>1. TypeInv'
    BY DEF RethInv, TypeInv
  <1>2. Released \/ Booting
    BY DEF RethInv, StageInv, Reading, Reporting, Pending, Following, Early
  <1>3. StageInv'
    <2>1. ConsumedEpoch = exec_epoch /\ ConsumedNumber = Height
      <3>1. CASE Released
        <4>1. Height \in Nat /\ Height # 0
          BY SMTT(30), <3>1, BoundaryFacts, Counts, NumberFacts DEF RethInv, TypeInv, Released, AtEnd
        <4>. QED  BY <3>1, <4>1 DEF Released, ConsumedEpoch, ConsumedNumber
      <3>2. CASE Booting
        BY <3>2 DEF Booting, Idle, NoChange, ConsumedEpoch, ConsumedNumber
      <3>. QED  BY <1>2, <3>1, <3>2
    <2>. QED
      BY <1>2, <2>1, ReportedFrame DEF StageInv, Released, Following, Booting, Idle, AtEnd, NoChange, Height
  <1>4. BlockInv' /\ ExecInv' /\ FoundInv' /\ ResultInv' /\ UnreportedInv' /\ PipeInv' /\ CommitInv' /\ NotifyInv'
    BY BlockFrame, ExecFrame, FoundFrame, ResultFrame, UnreportedFrame, PipeFrame, CommitFrame, NotifyFrame,
       ReportedFrame, Counts DEF RethInv
  <1>. QED  BY <1>1, <1>3, <1>4 DEF RethInv

LEMMA SwapEpochStep == ASSUME RethInv, SwapEpoch PROVE RethInv'
  <1>. USE DEF SwapEpoch, bufferVars, commitVars, pipeVars
  <1>1. Following \/ Booting
    BY DEF RethInv, StageInv, Reading, Reporting, Pending, Released, Early
  <1>2. /\ consumed = [epoch |-> exec_epoch, num |-> Height] /\ Reported = Height /\ NoChange
        /\ current_epoch = exec_epoch /\ reth_epoch # exec_epoch /\ reth_epoch' = exec_epoch
        /\ start_ordered_block' = Height + 1
    BY <1>1, Counts DEF RethInv, Following, Booting, Idle, AtEnd
  <1>3. TypeInv'
    <2>1. Height <= MaxBlock /\ Height \in Nat
      BY Counts DEF RethInv, ExecInv
    <2>2. Height + 1 \in 1 .. MaxBlock + 1
      BY <2>1, BufferAssumption
    <2>3. exec_epoch \in Epochs
      BY DEF RethInv, TypeInv
    <2>. QED  BY <1>2, <2>2, <2>3 DEF RethInv, TypeInv
  <1>4. StageInv'
    BY <1>2 DEF StageInv, Reading, NoChange
  <1>5. BlockInv' /\ ExecInv' /\ FoundInv' /\ CommitInv' /\ NotifyInv'
    BY BlockFrame, ExecFrame, FoundFrame, CommitFrame, NotifyFrame, ReportedFrame, Counts DEF RethInv
  <1>6. ResultInv' /\ UnreportedInv'
    <2>1. Len(results) = 0 /\ vote = None
      BY <1>2, Counts DEF RethInv, Reported
    <2>. QED  BY <1>2, <2>1, Counts DEF RethInv, ResultInv, UnreportedInv, Height, Reported
  <1>7. PipeInv'
    <2>1. Fresh = 0 /\ Fresh' = 0 /\ Stale = Len(pipe) /\ Stale' = Len(pipe)
      BY <1>2, Counts DEF RethInv, Fresh, Stale, Height
    <2>. QED  BY <2>1, Counts, NumberFacts DEF RethInv, PipeInv, Height
  <1>. QED  BY <1>3, <1>4, <1>5, <1>6, <1>7 DEF RethInv

----------------------------------------------------------------------------
(* start_commit and the disk *)

LEMMA LoadCommitEpochStep == ASSUME RethInv, LoadCommitEpoch PROVE RethInv'
  <1>. USE DEF LoadCommitEpoch, bufferVars, execVars, pipeVars
  <1>1. TypeInv'
    BY DEF RethInv, TypeInv
  <1>2. CommitInv'
    BY ReportedFrame DEF RethInv, CommitInv
  <1>3. StageInv' /\ BlockInv' /\ ExecInv' /\ FoundInv' /\ ResultInv' /\ UnreportedInv' /\ PipeInv' /\ NotifyInv'
    BY StageFrame, BlockFrame, ExecFrame, FoundFrame, ResultFrame, UnreportedFrame, PipeFrame, NotifyFrame,
       ReportedFrame, Counts DEF RethInv
  <1>. QED  BY <1>1, <1>2, <1>3 DEF RethInv

LEMMA CommitTimeoutStep == ASSUME RethInv, CommitTimeout PROVE RethInv'
  <1>. USE DEF CommitTimeout, bufferVars, execVars, pipeVars
  <1>0. 0 \in Epochs
    BY BufferAssumption DEF Epochs
  <1>1. TypeInv'
    BY <1>0 DEF RethInv, TypeInv
  <1>2. CommitInv'
    BY ReportedFrame DEF RethInv, CommitInv
  <1>3. StageInv' /\ BlockInv' /\ ExecInv' /\ FoundInv' /\ ResultInv' /\ UnreportedInv' /\ PipeInv' /\ NotifyInv'
    BY StageFrame, BlockFrame, ExecFrame, FoundFrame, ResultFrame, UnreportedFrame, PipeFrame, NotifyFrame,
       ReportedFrame, Counts DEF RethInv
  <1>. QED  BY <1>1, <1>2, <1>3 DEF RethInv

LEMMA CommitSetStateStep == ASSUME RethInv, CommitSetState PROVE RethInv'
  <1>. USE DEF CommitSetState, SetState, execVars, pipeVars
  <1>1. /\ latest_commit' = Len(delivered) /\ latest_finalized' = persisted
        /\ latest_commit' \in Numbers /\ latest_finalized <= persisted
    BY Counts, NumberFacts DEF RethInv, CommitInv, ExecInv
  <1>2. TypeInv'
    BY <1>1 DEF RethInv, TypeInv
  <1>3. StageInv'
    BY <1>1, ReportedFrame DEF RethInv, StageInv, Reading, Reporting, Pending, Released, Following, Booting,
       Early, Idle, AtEnd, NoChange
  <1>4. CommitInv'
    BY <1>1, ReportedFrame, Counts DEF RethInv, CommitInv
  <1>5. BlockInv' /\ ExecInv' /\ FoundInv' /\ ResultInv' /\ UnreportedInv' /\ PipeInv' /\ NotifyInv'
    BY <1>1, BlockFrame, ExecFrame, FoundFrame, ResultFrame, UnreportedFrame, PipeFrame, NotifyFrame,
       ReportedFrame, Counts DEF RethInv
  <1>. QED  BY <1>2, <1>3, <1>4, <1>5 DEF RethInv

LEMMA NotifyPersistedStep == ASSUME RethInv, NotifyPersisted PROVE RethInv'
  <1>. USE DEF NotifyPersisted, bufferVars, execVars, pipeVars
  <1>1. PICK k \in notifiers : k[2] <= persisted /\ notifiers' = notifiers \ {k}
    OBVIOUS
  <1>2. TypeInv'
    BY <1>1 DEF RethInv, TypeInv
  <1>3. CommitInv'
    BY ReportedFrame DEF RethInv, CommitInv
  <1>4. NotifyInv'
    <2>. SUFFICES ASSUME NEW e \in Epochs, Is(<<e, boundary[e]>>, "Committed")
                  PROVE  SenderAlive(<<e, boundary[e]>>)' \/ boundary[e] <= persisted
      BY DEF NotifyInv, Is, Present
    <2>1. SenderAlive(<<e, boundary[e]>>) \/ boundary[e] <= persisted
      BY DEF RethInv, NotifyInv
    <2>2. <<e, boundary[e]>> = k => boundary[e] <= persisted
      BY <1>1
    <2>. QED  BY <1>1, <2>1, <2>2 DEF SenderAlive, Is, Present
  <1>5. StageInv' /\ BlockInv' /\ ExecInv' /\ FoundInv' /\ ResultInv' /\ UnreportedInv' /\ PipeInv'
    BY StageFrame, BlockFrame, ExecFrame, FoundFrame, ResultFrame, UnreportedFrame, PipeFrame,
       ReportedFrame, Counts DEF RethInv
  <1>. QED  BY <1>2, <1>3, <1>4, <1>5 DEF RethInv

LEMMA PersistBlockStep == ASSUME RethInv, PersistBlock PROVE RethInv'
  <1>. USE DEF PersistBlock, bufferVars, execVars, commitVars
  <1>1. persisted' \in Numbers /\ persisted' >= persisted
    <2>1. Len(delivered) <= Reported /\ Height <= MaxBlock /\ TypeInv
      BY DEF RethInv, CommitInv, ExecInv
    <2>. QED  BY <2>1, Counts, NumberFacts
  <1>2. TypeInv'
    BY <1>1 DEF RethInv, TypeInv
  <1>3. CommitInv'
    BY SMTT(30), <1>1, ReportedFrame, Counts DEF RethInv, CommitInv
  <1>4. StageInv' /\ BlockInv' /\ ExecInv' /\ FoundInv' /\ ResultInv' /\ UnreportedInv' /\ PipeInv' /\ NotifyInv'
    BY <1>1, StageFrame, BlockFrame, ExecFrame, FoundFrame, ResultFrame, UnreportedFrame, PipeFrame,
       NotifyFrame, ReportedFrame, Counts, NumberFacts DEF RethInv
  <1>. QED  BY <1>2, <1>3, <1>4 DEF RethInv

----------------------------------------------------------------------------
(* Steps that change the map and nothing else of the buffer manager *)

LEMMA SameBlock ==
  ASSUME NEW e \in Epochs, NEW n \in Numbers, PlaceOK(e, n), StateOK(e, n), Reported' = Reported,
         blocks'[<<e, n>>] = blocks[<<e, n>>],
         UNCHANGED <<current_epoch, boundary, executed, epoch_change_info, exec_epoch, persisted>>
  PROVE  PlaceOK(e, n)' /\ StateOK(e, n)'
  <1>1. PlaceOK(e, n)'
    BY DEF PlaceOK, Height, Base
  <1>2. (Answered(e, n) => Answered(e, n)') /\ ParentOf(n)' = ParentOf(n) /\ Height' = Height
    BY DEF Answered, ParentOf, ExecutedId, NewEpoch, Height
  <1>. QED  BY <1>1, <1>2 DEF StateOK

\* The blocks reth still needs, and the ones the next step needs ordered, stay.
LEMMA MapStep ==
  ASSUME RethInv, UNCHANGED rethVars,
         UNCHANGED <<latest_commit, latest_finalized, current_epoch, next_epoch,
                     epoch_change_number, epoch_change_info, epoch_change_ready>>,
         blocks' = [k \in Keys |-> blocks'[k]],
         \A e \in Epochs, n \in Numbers : blocks'[<<e, n>>] # None =>
           PlaceOK(e, n)' /\ StateOK(e, n)',
         \A e \in Epochs, n \in Numbers : blocks[<<e, n>>] # None /\ n >= latest_finalized =>
           blocks'[<<e, n>>] # None,
         \A e \in Epochs, n \in Numbers :
           blocks[<<e, n>>] # None /\ blocks[<<e, n>>].st = "Ordered" /\ n >= latest_finalized
             /\ (epoch_change_info = None \/ n <= Height) =>
           blocks'[<<e, n>>] # None /\ blocks'[<<e, n>>].st = "Ordered",
         NotifyInv'
  PROVE  RethInv'
  <1>. USE DEF rethVars, execVars, commitVars, pipeVars
  <1>1. TypeInv'
    BY DEF RethInv, TypeInv
  <1>2. Reported' = Reported /\ Height' = Height
    BY ReportedFrame
  <1>3. StageInv' /\ ExecInv' /\ ResultInv' /\ CommitInv'
    BY <1>2, StageFrame, ExecFrame, ResultFrame, CommitFrame DEF RethInv
  <1>4. BlockInv'
    BY DEF BlockInv
  <1>5. FoundInv'
    <2>. SUFFICES ASSUME NEW n \in 1 .. Height, n >= latest_finalized
                  PROVE  blocks'[executed[n]] # None
      BY <1>2 DEF FoundInv
    <2>1. PICK e \in 1 .. exec_epoch : executed[n] = <<e, n>>
      BY DEF RethInv, ExecInv
    <2>2. e \in Epochs
      <3>1. exec_epoch \in Epochs
        BY DEF RethInv, TypeInv
      <3>. QED  BY <3>1, NumberFacts
    <2>3. n \in Numbers
      <3>1. TypeInv /\ Height <= MaxBlock
        BY DEF RethInv, ExecInv
      <3>2. Height \in Nat /\ MaxBlock \in Nat
        BY <3>1, Counts, NumberFacts
      <3>. QED  BY <3>1, <3>2, NumberFacts
    <2>. QED  BY <2>1, <2>2, <2>3 DEF RethInv, FoundInv
  <1>6. UnreportedInv'
    <2>. SUFFICES ASSUME NEW n \in 1 .. Height, n > Reported
                  PROVE  executed[n] = <<reth_epoch, n>> /\ blocks'[<<reth_epoch, n>>] # None
                           /\ blocks'[<<reth_epoch, n>>].st = "Ordered"
      BY <1>2 DEF UnreportedInv
    <2>1. n \in Numbers /\ n <= Height
      BY SMTT(30), Counts, NumberFacts DEF RethInv, ExecInv
    <2>2. n >= latest_finalized
      <3>1. latest_finalized <= persisted /\ persisted <= Len(delivered) /\ Len(delivered) <= Reported
        BY DEF RethInv, CommitInv
      <3>. QED  BY <3>1, Counts DEF RethInv
    <2>3. reth_epoch \in Epochs
      BY DEF RethInv, TypeInv
    <2>. QED  BY <2>1, <2>2, <2>3 DEF RethInv, UnreportedInv
  <1>7. PipeInv'
    <2>1. /\ Fresh' = Fresh /\ Stale' = Stale /\ \A n : FreshBlock(n)' = FreshBlock(n)
          /\ exec_epoch \in Epochs
      BY DEF Fresh, Stale, Height, FreshBlock, ParentOf, ExecutedId, RethInv, TypeInv
    <2>2. ASSUME NEW n \in Numbers, Height < n, n <= Height + Fresh
          PROVE  blocks'[<<exec_epoch, n>>] # None /\ blocks'[<<exec_epoch, n>>].st = "Ordered"
      <3>1. blocks[<<exec_epoch, n>>] # None /\ blocks[<<exec_epoch, n>>].st = "Ordered"
        BY <2>2 DEF RethInv, PipeInv
      <3>2. n >= latest_finalized
        <4>1. latest_finalized <= persisted /\ persisted <= Len(delivered) /\ Len(delivered) <= Reported
          BY DEF RethInv, CommitInv
        <4>. QED  BY <4>1, <2>2, Counts, NumberFacts DEF RethInv
      <3>3. epoch_change_info = None
        <4>1. Fresh # 0
          BY <2>2, Counts, NumberFacts DEF RethInv
        <4>2. reth_epoch = exec_epoch
          BY <4>1 DEF Fresh
        <4>3. ~Pending
          BY <4>2, Counts DEF Pending, AtEnd, RethInv
        <4>. QED  BY <4>3, StageFacts DEF RethInv
      <3>. QED  BY <2>1, <3>1, <3>2, <3>3
    <2>. QED  BY <1>2, <2>1, <2>2 DEF RethInv, PipeInv
  <1>. QED  BY <1>1, <1>3, <1>4, <1>5, <1>6, <1>7 DEF RethInv

LEMMA CleanupStep == ASSUME RethInv, Cleanup PROVE RethInv'
  <1>. USE DEF Cleanup, RemoveCommittedBlocks
  <1>1. \A e \in Epochs, n \in Numbers :
          blocks'[<<e, n>>] = IF n >= latest_finalized THEN blocks[<<e, n>>] ELSE None
    BY KeyFacts
  <1>2. blocks' = [k \in Keys |-> blocks'[k]]
    OBVIOUS
  <1>3. Reported' = Reported
    BY ReportedFrame DEF rethVars, pipeVars
  <1>4. ASSUME NEW e \in Epochs, NEW n \in Numbers, blocks'[<<e, n>>] # None
        PROVE  PlaceOK(e, n)' /\ StateOK(e, n)'
    <2>1. blocks'[<<e, n>>] = blocks[<<e, n>>]
      BY <1>1, <1>4
    <2>2. PlaceOK(e, n) /\ StateOK(e, n)
      BY <1>4, <2>1 DEF RethInv, BlockInv
    <2>. QED  BY <1>3, <2>1, <2>2, SameBlock DEF rethVars, pipeVars
  <1>5. NotifyInv'
    <2>. SUFFICES ASSUME NEW e \in Epochs, Is(<<e, boundary[e]>>, "Committed")'
                  PROVE  SenderAlive(<<e, boundary[e]>>)' \/ boundary[e] <= persisted
      BY DEF NotifyInv, rethVars, pipeVars
    <2>1. boundary[e] \in Numbers /\ blocks'[<<e, boundary[e]>>] # None
      BY KeyFacts DEF Is, Present, rethVars, pipeVars
    <2>2. blocks'[<<e, boundary[e]>>] = blocks[<<e, boundary[e]>>] /\ notifiers' = notifiers
      BY <1>1, <2>1 DEF rethVars, commitVars
    <2>. QED  BY <2>2 DEF RethInv, NotifyInv, SenderAlive, Is, Present, rethVars, pipeVars
  <1>6. \A e \in Epochs, n \in Numbers : blocks[<<e, n>>] # None /\ n >= latest_finalized =>
          blocks'[<<e, n>>] = blocks[<<e, n>>]
    BY <1>1
  <1>. QED  BY <1>2, <1>4, <1>5, <1>6, MapStep

----------------------------------------------------------------------------
(* start_commit_vote, and the pipe's discarded blocks *)

LEMMA ReceiveResultStep == ASSUME RethInv, ReceiveResult PROVE RethInv'
  <1>. USE DEF ReceiveResult, bufferVars, execVars, commitVars
  <1>1. /\ Len(results) >= 1 /\ Len(results') = Len(results) - 1 /\ results' \in Seq(RethResults)
        /\ \A i \in 1 .. Len(results') : results'[i] = results[i + 1]
        /\ Head(results) = results[1] /\ Len(results) \in Nat
    BY DEF RethInv, TypeInv
  <1>2. Reported = Height - Len(results) /\ Height' = Height
    BY Counts DEF RethInv, Reported, Height
  <1>3. /\ vote' = [num |-> Reported + 1, id |-> <<reth_epoch, Reported + 1>>,
                    new_epoch |-> NewEpoch(reth_epoch, Reported + 1), epoch |-> reth_epoch]
        /\ vote' \in Votes
    <2>1. results[1] = [num |-> Height - Len(results) + 1,
                        id |-> <<reth_epoch, Height - Len(results) + 1>>,
                        new_epoch |-> NewEpoch(reth_epoch, Height - Len(results) + 1)]
      BY <1>1 DEF RethInv, ResultInv
    <2>2. results[1] \in RethResults /\ reth_epoch \in Epochs
      BY <1>1 DEF RethInv, TypeInv
    <2>3. vote' = [num |-> results[1].num, id |-> results[1].id, new_epoch |-> results[1].new_epoch, epoch |-> reth_epoch]
      BY <1>1
    <2>4. vote' \in Votes
      BY <2>2, <2>3 DEF Votes, RethResults
    <2>5. Height - Len(results) + 1 = Reported + 1
      BY <1>2
    <2>. QED  BY <2>1, <2>3, <2>4, <2>5
  <1>4. vote' # None
    BY <1>3, VoteNoneAssumption
  <1>5. Reported' = Reported
    BY <1>1, <1>2, <1>4, Counts DEF RethInv, Reported
  <1>6. TypeInv'
    BY <1>1 DEF RethInv, TypeInv
  <1>7. ResultInv'
    <2>1. 0 <= Reported'
      BY <1>5 DEF RethInv, ResultInv
    <2>2. \A n : NewEpoch(reth_epoch, n)' = NewEpoch(reth_epoch, n)
      BY DEF NewEpoch
    <2>3. ASSUME NEW i \in 1 .. Len(results')
          PROVE  results'[i] = [num |-> Height - Len(results') + i,
                                id |-> <<reth_epoch, Height - Len(results') + i>>,
                                new_epoch |-> NewEpoch(reth_epoch, Height - Len(results') + i)]
      <3>1. i + 1 \in 1 .. Len(results) /\ Height - Len(results) + (i + 1) = Height - Len(results') + i
        BY <1>1, Counts DEF RethInv
      <3>. QED  BY <1>1, <3>1 DEF RethInv, ResultInv
    <2>. QED  BY <1>2, <1>3, <1>5, <2>1, <2>2, <2>3 DEF ResultInv
  <1>8. StageInv' /\ BlockInv' /\ ExecInv' /\ FoundInv' /\ UnreportedInv' /\ PipeInv' /\ CommitInv' /\ NotifyInv'
    BY <1>5, StageFrame, BlockFrame, ExecFrame, FoundFrame, UnreportedFrame, PipeFrame, CommitFrame,
       NotifyFrame, Counts DEF RethInv
  <1>. QED  BY <1>6, <1>7, <1>8 DEF RethInv

LEMMA DiscardStaleBlockStep == ASSUME RethInv, DiscardStaleBlock PROVE RethInv'
  <1>. USE DEF DiscardStaleBlock, bufferVars, execVars, commitVars
  <1>1. /\ Len(pipe) >= 1 /\ Len(pipe') = Len(pipe) - 1 /\ pipe' \in Seq(PipeBlocks)
        /\ \A i \in 1 .. Len(pipe') : pipe'[i] = pipe[i + 1]
        /\ Head(pipe) = pipe[1] /\ Len(pipe) \in Nat
    BY DEF RethInv, TypeInv
  <1>2. Reported' = Reported /\ Height' = Height
    BY ReportedFrame
  <1>3. TypeInv'
    BY <1>1 DEF RethInv, TypeInv
  <1>4. ~Idle
    BY DEF Idle
  <1>5. StageInv'
    BY <1>2, <1>4 DEF RethInv, StageInv, Reading, Reporting, Pending, Released, Following, Booting,
       Early, AtEnd, NoChange
  <1>6. PipeInv'
    <2>1. Fresh \in Int /\ Fresh' = Fresh /\ Stale \in Int /\ Stale' = Stale - 1
      BY SMTT(30), <1>1, <1>2, Counts DEF Fresh, Stale, RethInv
    <2>2. Stale >= 1
      <3>. SUFFICES ASSUME ~(Stale >= 1) PROVE FALSE
        OBVIOUS
      <3>1. pipe[1] = FreshBlock(Height + 1 - Stale)
        BY <1>1, <2>1 DEF RethInv, PipeInv
      <3>. QED  BY <1>1, <3>1 DEF FreshBlock
    <2>3. \A n : FreshBlock(n)' = FreshBlock(n)
      BY DEF FreshBlock, ParentOf, ExecutedId, Height
    <2>4. ASSUME NEW i \in 1 .. Len(pipe')
          PROVE  /\ i > Stale' => pipe'[i] = FreshBlock(Height + i - Stale')
                 /\ i <= Stale' => pipe'[i].epoch < exec_epoch
      <3>1. i + 1 \in 1 .. Len(pipe) /\ Height + (i + 1) - Stale = Height + i - Stale'
            /\ (i > Stale' => i + 1 > Stale) /\ (i <= Stale' => i + 1 <= Stale)
        BY <1>1, <2>1, Counts DEF RethInv
      <3>. QED  BY <1>1, <3>1 DEF RethInv, PipeInv
    <2>5. Fresh' <= Len(pipe')
      BY <1>1, <2>1, <2>2 DEF Stale
    <2>. QED  BY <1>2, <2>1, <2>3, <2>4, <2>5 DEF RethInv, PipeInv
  <1>7. BlockInv' /\ ExecInv' /\ FoundInv' /\ ResultInv' /\ UnreportedInv' /\ CommitInv' /\ NotifyInv'
    BY <1>2, BlockFrame, ExecFrame, FoundFrame, ResultFrame, UnreportedFrame, CommitFrame,
       NotifyFrame, Counts DEF RethInv
  <1>. QED  BY <1>3, <1>5, <1>6, <1>7 DEF RethInv

LEMMA ExecuteBlockStep == ASSUME RethInv, ExecuteBlock PROVE RethInv'
  <1>a. /\ pipe # <<>> /\ Head(pipe).epoch = exec_epoch /\ pipe' = Tail(pipe)
        /\ executed' = Append(executed, Head(pipe).id)
        /\ LET new_epoch == IF boundary[Head(pipe).epoch] = Head(pipe).num THEN Head(pipe).epoch + 1 ELSE None
           IN /\ results' = Append(results, [num |-> Head(pipe).num, id |-> Head(pipe).id, new_epoch |-> new_epoch])
              /\ exec_epoch' = IF new_epoch = None THEN exec_epoch ELSE new_epoch
    BY DEF ExecuteBlock
  <1>u. /\ UNCHANGED <<blocks, latest_commit, latest_finalized, current_epoch, next_epoch,
                       epoch_change_number, epoch_change_info, epoch_change_ready>>
        /\ UNCHANGED <<reth_epoch, start_ordered_block, exec_pc, consumed, vote, start_commit_num,
                       commit_pc, commit_epoch, notifiers, down, delivered, persisted, boundary>>
    BY DEF ExecuteBlock, bufferVars, execVars, commitVars
  <1>. USE <1>u
  <1>0. TypeInv /\ StageInv /\ BlockInv /\ ExecInv /\ PipeInv /\ CommitInv
    BY DEF RethInv
  <1>1. /\ Len(pipe) >= 1 /\ Len(pipe') = Len(pipe) - 1 /\ pipe' \in Seq(PipeBlocks)
        /\ \A i \in 1 .. Len(pipe') : pipe'[i] = pipe[i + 1]
        /\ Head(pipe) = pipe[1] /\ Len(pipe) \in Nat /\ pipe[1] \in PipeBlocks
    BY <1>a DEF RethInv, TypeInv
  <1>2. Fresh = Len(pipe) /\ Stale = 0 /\ reth_epoch = exec_epoch
    <2>1. Fresh \in Int /\ Stale \in Int /\ Stale = Len(pipe) - Fresh /\ Fresh <= Len(pipe)
      BY SMTT(30), <1>0, <1>1, Counts DEF Fresh, Stale, PipeInv
    <2>2. ~(1 <= Stale)
      BY SMTT(30), <1>a, <1>0, <1>1, Counts DEF PipeInv
    <2>3. Fresh = Len(pipe) /\ Stale = 0
      BY <1>1, <2>1, <2>2
    <2>. QED  BY <1>1, <2>3 DEF Fresh
  <1>3. Reading
    BY <1>0, <1>2, Counts DEF StageInv, Reporting, Pending, Released, Following, Booting, Early, AtEnd, Idle
  <1>4. /\ Head(pipe) = FreshBlock(Height + 1) /\ Height + 1 \in Numbers /\ exec_epoch \in Epochs
        /\ Height \in Nat /\ exec_epoch \in Nat /\ exec_epoch >= 1
    <2>1. pipe[1] = FreshBlock(Height + 1)
      <3>1. Height \in Nat /\ 1 \in 1 .. Len(pipe) /\ 1 > Stale /\ Height + 1 - Stale = Height + 1
        BY <1>0, <1>1, <1>2, Counts
      <3>. QED  BY <1>0, <3>1 DEF PipeInv
    <2>2. pipe[1].num \in Numbers
      BY <1>1 DEF PipeBlocks
    <2>3. pipe[1].num = Height + 1
      BY <2>1 DEF FreshBlock
    <2>4. exec_epoch \in Epochs
      BY <1>0 DEF TypeInv
    <2>. QED  BY <1>0, <1>1, <2>1, <2>2, <2>3, <2>4, Counts
  <1>. DEFINE b == <<exec_epoch, Height + 1>>
  <1>5. /\ executed' = Append(executed, b) /\ executed' \in Seq(Keys) /\ Height' = Height + 1
        /\ \A n \in 1 .. Height : executed'[n] = executed[n]
        /\ executed'[Height + 1] = b
    <2>1. b \in Keys
      BY <1>4, KeyFacts
    <2>2. executed' = Append(executed, b)
      BY <1>a, <1>4 DEF FreshBlock
    <2>. QED  BY <1>0, <2>1, <2>2 DEF TypeInv, Height
  <1>n. Height \in Nat /\ exec_epoch \in Nat /\ exec_epoch >= 1 /\ Height' = Height + 1
    BY <1>4, <1>5
  <1>v. \A n \in 1 .. Height : executed'[n] = executed[n]
    BY <1>5
  <1>w. executed'[Height + 1] = <<exec_epoch, Height + 1>>
    BY <1>5
  <1>6. /\ NewEpoch(exec_epoch, Height + 1) \in Epochs \cup {None}
        /\ results' = Append(results, [num |-> Height + 1, id |-> b,
                                       new_epoch |-> NewEpoch(exec_epoch, Height + 1)])
        /\ exec_epoch' = IF boundary[exec_epoch] = Height + 1 THEN exec_epoch + 1 ELSE exec_epoch
        /\ boundary[exec_epoch] = Height + 1 =>
             exec_epoch + 1 \in Epochs /\ Height + 1 < boundary[exec_epoch + 1]
    <2>1. boundary[exec_epoch] = Height + 1 =>
            exec_epoch + 1 \in Epochs /\ Height + 1 < boundary[exec_epoch + 1]
      BY <1>0, <1>4, BoundaryFacts, NumberFacts DEF TypeInv
    <2>2. exec_epoch + 1 # None
      BY <1>4, NumberFacts
    <2>. QED  BY <1>a, <1>4, <2>1, <2>2 DEF NewEpoch, FreshBlock
  <1>7. /\ results' \in Seq(RethResults) /\ Len(results') = Len(results) + 1 /\ Len(results) \in Nat
        /\ \A i \in 1 .. Len(results) : results'[i] = results[i]
        /\ results'[Len(results) + 1] = [num |-> Height + 1, id |-> b,
                                         new_epoch |-> NewEpoch(exec_epoch, Height + 1)]
    <2>1. [num |-> Height + 1, id |-> b, new_epoch |-> NewEpoch(exec_epoch, Height + 1)] \in RethResults
      BY <1>4, <1>6, KeyFacts DEF RethResults
    <2>. QED  BY <1>0, <1>6, <2>1 DEF TypeInv
  <1>8. Reported' = Reported /\ Reported \in Int /\ Reported <= Height
    BY <1>0, <1>4, <1>5, <1>7, Counts DEF Reported
  <1>9. TypeInv'
    <2>1. exec_epoch' \in Epochs \ {0}
      BY <1>n, <1>4, <1>6
    <2>2. pipe' \in Seq(PipeBlocks) /\ executed' \in Seq(Keys) /\ results' \in Seq(RethResults)
      BY <1>1, <1>5, <1>7
    <2>. QED  BY <1>0, <2>1, <2>2 DEF TypeInv
  <1>10. \A e \in Epochs : boundary[e] \in Nat
    BY <1>0, BoundaryFacts DEF TypeInv
  <1>11. StageInv'
    <2>1. CASE boundary[exec_epoch] = Height + 1
      <3>1. Reporting'
        BY <2>1, <1>2, <1>3, <1>4, <1>5, <1>6, <1>8 DEF Reporting, AtEnd, NoChange, Reading
      <3>. QED  BY <3>1 DEF StageInv
    <2>2. CASE boundary[exec_epoch] # Height + 1
      <3>1. Reading'
        BY <2>2, <1>2, <1>3, <1>6 DEF NoChange, Reading
      <3>. QED  BY <3>1 DEF StageInv
    <2>. QED  BY <2>1, <2>2
  <1>12. ASSUME NEW n \in Numbers, n > Height + 1 PROVE ParentOf(n) = <<exec_epoch, n - 1>>
           /\ (exec_epoch' = exec_epoch => ParentOf(n)' = ParentOf(n))
    <2>1. n \in Nat /\ n # Height + 1 /\ (n = Height' + 1 => n - 1 = Height + 1 /\ Height' # 0)
      BY <1>n, <1>12, NumberFacts
    <2>2. ParentOf(n) = <<exec_epoch, n - 1>>
      BY <2>1 DEF ParentOf
    <2>3. exec_epoch' = exec_epoch => ParentOf(n)' = <<exec_epoch, n - 1>>
      BY <2>1, <1>n, <1>w DEF ParentOf, ExecutedId
    <2>. QED  BY <2>2, <2>3
  <1>13. BlockInv'
    <2>. SUFFICES ASSUME NEW e \in Epochs, NEW n \in Numbers, blocks[<<e, n>>] # None
                  PROVE  PlaceOK(e, n)' /\ StateOK(e, n)'
      BY DEF BlockInv
    <2>1. PlaceOK(e, n) /\ StateOK(e, n) /\ e \in Nat /\ n \in Nat
      BY <1>0, NumberFacts DEF BlockInv
    <2>2. PlaceOK(e, n)'
      BY <1>4, <1>5, <1>10, <2>1 DEF PlaceOK, Base
    <2>3. Answered(e, n) => Answered(e, n)'
      <3>1. epoch_change_info = None
        BY <1>3 DEF Reading, NoChange
      <3>2. 1 <= n /\ n <= Reported => n \in 1 .. Height
        BY <1>n, <1>8, <2>1
      <3>3. NewEpoch(e, n)' = NewEpoch(e, n)
        BY DEF NewEpoch
      <3>. QED  BY <1>v, <1>8, <3>1, <3>2, <3>3 DEF Answered
    <2>4. ASSUME blocks[<<e, n>>].st = "Ordered", e = exec_epoch', n > Height'
          PROVE  blocks[<<e, n>>].parent = ParentOf(n)'
      <3>1. e = exec_epoch /\ exec_epoch' = exec_epoch
        BY <1>3, <1>4, <1>6, <2>1, <2>4 DEF PlaceOK, Reading
      <3>2. n > Height + 1 /\ n > Height
        BY <1>4, <1>5, <2>1, <2>4
      <3>. QED  BY <1>12, <2>1, <2>4, <3>1, <3>2 DEF StateOK
    <2>5. StateOK(e, n)'
      BY <2>1, <2>3, <2>4 DEF StateOK
    <2>. QED  BY <2>2, <2>5
  <1>14. ExecInv'
    <2>1. Base(exec_epoch)' <= Height' /\ Height' < boundary[exec_epoch'] /\ Height' <= MaxBlock
      <3>1. /\ Base(exec_epoch) <= Height /\ Height < boundary[exec_epoch] /\ Height + 1 <= MaxBlock
            /\ Base(exec_epoch) \in Nat
        <4>1. exec_epoch # 1 => exec_epoch - 1 \in Epochs
          BY <1>4, NumberFacts
        <4>. QED  BY <1>0, <1>4, <1>10, <4>1, NumberFacts DEF ExecInv, Base
      <3>2. CASE boundary[exec_epoch] = Height + 1
        BY <1>4, <1>5, <1>6, <3>1, <3>2 DEF Base
      <3>3. CASE boundary[exec_epoch] # Height + 1
        BY <1>4, <1>5, <1>6, <1>10, <3>1, <3>3 DEF Base
      <3>. QED  BY <3>2, <3>3
    <2>2. ASSUME NEW e \in 1 .. exec_epoch' - 1
          PROVE  boundary[e] <= Height' /\ executed'[boundary[e]] = <<e, boundary[e]>>
      <3>1. CASE e = exec_epoch
        <4>1. boundary[exec_epoch] = Height + 1
          BY <1>4, <1>6, <2>2, <3>1
        <4>. QED  BY <1>n, <1>w, <3>1, <4>1
      <3>2. CASE e # exec_epoch
        <4>1. e \in 1 .. exec_epoch - 1 /\ e \in Epochs
          <5>1. e \in Nat /\ e >= 1 /\ e <= exec_epoch - 1
            BY <1>n, <1>6, <2>2, <3>2
          <5>2. exec_epoch \in Epochs
            BY <1>4
          <5>. QED  BY <1>n, <5>1, <5>2, NumberFacts
        <4>2. boundary[e] <= Height /\ executed[boundary[e]] = <<e, boundary[e]>> /\ boundary[e] >= 1
          BY <1>0, <4>1, BoundaryFacts DEF ExecInv, TypeInv
        <4>. QED  BY <1>n, <1>v, <1>10, <4>1, <4>2
      <3>. QED  BY <3>1, <3>2
    <2>3. ASSUME NEW n \in 1 .. Height', n > Base(exec_epoch)'
          PROVE  executed'[n] = <<exec_epoch', n>>
      <3>1. CASE boundary[exec_epoch] = Height + 1
        BY <1>4, <1>5, <1>6, <2>3, <3>1 DEF Base
      <3>2. CASE boundary[exec_epoch] # Height + 1
        <4>1. n = Height + 1 \/ n \in 1 .. Height
          BY <1>4, <1>5
        <4>. QED  BY <1>0, <1>5, <1>6, <2>3, <3>2, <4>1 DEF Base, ExecInv
      <3>. QED  BY <3>1, <3>2
    <2>4. ASSUME NEW n \in 1 .. Height'
          PROVE  \E e \in 1 .. exec_epoch' : executed'[n] = <<e, n>> /\ n <= boundary[e]
      <3>1. CASE n = Height + 1
        <4>1. Height < boundary[exec_epoch] /\ boundary[exec_epoch] \in Nat
          BY <1>0, <1>4, <1>10 DEF ExecInv
        <4>2. n <= boundary[exec_epoch] /\ executed'[n] = <<exec_epoch, n>> /\ exec_epoch \in 1 .. exec_epoch'
          BY <4>1, <1>n, <1>w, <1>6, <3>1
        <4>. QED  BY <4>2
      <3>2. CASE n \in 1 .. Height
        <4>1. PICK e \in 1 .. exec_epoch : executed[n] = <<e, n>> /\ n <= boundary[e]
          BY <1>0, <3>2 DEF ExecInv
        <4>2. e \in 1 .. exec_epoch'
          BY <1>n, <1>6
        <4>. QED  BY <1>v, <3>2, <4>1, <4>2
      <3>3. n = Height + 1 \/ n \in 1 .. Height
        BY <1>n
      <3>. QED  BY <3>1, <3>2, <3>3
    <2>. QED  BY <2>1, <2>2, <2>3, <2>4 DEF ExecInv
  <1>15. blocks[b] # None /\ blocks[b].st = "Ordered"
    BY <1>0, <1>1, <1>2, <1>4 DEF PipeInv
  <1>16. FoundInv'
    <2>. SUFFICES ASSUME NEW n \in 1 .. Height', n >= latest_finalized PROVE blocks[executed'[n]] # None
      BY DEF FoundInv
    <2>1. n = Height + 1 \/ n \in 1 .. Height
      BY <1>4, <1>5
    <2>. QED  BY <1>5, <1>15, <2>1 DEF RethInv, FoundInv
  <1>17. UnreportedInv'
    <2>. SUFFICES ASSUME NEW n \in 1 .. Height', n > Reported'
                  PROVE  executed'[n] = <<reth_epoch, n>> /\ blocks[<<reth_epoch, n>>] # None
                           /\ blocks[<<reth_epoch, n>>].st = "Ordered"
      BY DEF UnreportedInv
    <2>1. n = Height + 1 \/ n \in 1 .. Height
      BY <1>4, <1>5
    <2>. QED  BY <1>2, <1>5, <1>8, <1>15, <2>1 DEF RethInv, UnreportedInv
  <1>18. ResultInv'
    <2>1. \A n : NewEpoch(reth_epoch, n)' = NewEpoch(reth_epoch, n)
      BY DEF NewEpoch
    <2>2. Height' - Len(results') = Height - Len(results)
      BY <1>4, <1>5, <1>7
    <2>3. ASSUME NEW i \in 1 .. Len(results')
          PROVE  results'[i] = [num |-> Height - Len(results) + i,
                                id |-> <<reth_epoch, Height - Len(results) + i>>,
                                new_epoch |-> NewEpoch(reth_epoch, Height - Len(results) + i)]
      <3>1. CASE i \in 1 .. Len(results)
        BY <1>7, <3>1 DEF RethInv, ResultInv
      <3>2. CASE i = Len(results) + 1
        <4>1. Height - Len(results) + i = Height + 1
          BY <1>4, <1>7, <3>2
        <4>. QED  BY <1>2, <1>7, <3>2, <4>1
      <3>. QED  BY <1>7, <3>1, <3>2
    <2>. QED  BY <1>8, <2>1, <2>2, <2>3 DEF RethInv, ResultInv
  <1>19. PipeInv'
    <2>1. CASE boundary[exec_epoch] = Height + 1
      <3>1. Fresh' = 0 /\ Stale' = Len(pipe')
        BY <1>1, <1>2, <1>4, <1>6, <2>1 DEF Fresh, Stale
      <3>2. \A i \in 1 .. Len(pipe') : pipe'[i].epoch < exec_epoch'
        <4>. SUFFICES ASSUME NEW i \in 1 .. Len(pipe') PROVE pipe'[i].epoch < exec_epoch'
          OBVIOUS
        <4>1. pipe[i + 1] = FreshBlock(Height + (i + 1) - Stale)
          BY <1>0, <1>1, <1>2 DEF PipeInv
        <4>2. pipe'[i].epoch = exec_epoch
          BY <1>1, <4>1 DEF FreshBlock
        <4>3. exec_epoch' = exec_epoch + 1
          BY <1>6, <2>1
        <4>. QED  BY <1>n, <4>2, <4>3
      <3>3. 0 <= Fresh' /\ Fresh' <= Len(pipe') /\ Len(pipe') \in Nat /\ Height' \in Nat
        BY <1>1, <1>4, <1>5, <3>1
      <3>4. \A i \in 1 .. Len(pipe') : ~(i > Stale')
        BY <3>1, <3>3
      <3>5. \A n \in Numbers : ~(Height' < n /\ n <= Height' + Fresh')
        <4>1. \A n \in Numbers : n \in Nat
          BY NumberFacts
        <4>. QED  BY <3>1, <3>3, <4>1
      <3>. QED  BY <3>2, <3>3, <3>4, <3>5 DEF PipeInv
    <2>2. CASE boundary[exec_epoch] # Height + 1
      <3>1. Fresh' = Len(pipe') /\ Stale' = 0 /\ exec_epoch' = exec_epoch
        <4>1. Fresh = start_ordered_block - 1 - Height /\ exec_epoch' = exec_epoch
          BY <1>2, <1>6, <2>2 DEF Fresh
        <4>2. Fresh' = start_ordered_block - 1 - (Height + 1)
          BY <1>2, <1>5, <4>1 DEF Fresh
        <4>3. Fresh' = Len(pipe')
          <5>1. start_ordered_block \in Nat
            BY <1>0, Counts
          <5>. QED  BY <1>1, <1>2, <1>n, <4>1, <4>2, <5>1
        <4>. QED  BY <1>1, <4>1, <4>3 DEF Stale
      <3>2. ASSUME NEW i \in 1 .. Len(pipe'), NEW n, n = Height + 1 + i PROVE pipe'[i] = FreshBlock(n)'
        <4>1. pipe[i + 1] = FreshBlock(Height + (i + 1) - Stale) /\ i + 1 \in 1 .. Len(pipe)
          BY <1>0, <1>1, <1>2 DEF PipeInv
        <4>2. Height + (i + 1) - Stale = n /\ n > Height + 1
          <5>1. i \in Nat /\ i >= 1 /\ Height \in Nat /\ Stale = 0
            BY <1>1, <1>2, <1>4
          <5>. QED  BY <3>2, <5>1
        <4>3. pipe[i + 1].num \in Numbers
          <5>1. pipe[i + 1] \in PipeBlocks
            BY <1>0, <4>1 DEF TypeInv
          <5>. QED  BY <5>1 DEF PipeBlocks
        <4>4. n \in Numbers
          BY <4>1, <4>2, <4>3 DEF FreshBlock
        <4>5. ParentOf(n)' = ParentOf(n)
          <5>. HIDE DEF ParentOf
          <5>. QED  BY <1>12, <3>1, <4>2, <4>4
        <4>6. pipe'[i] = FreshBlock(n)
          BY <1>1, <4>1, <4>2
        <4>7. FreshBlock(n)' = FreshBlock(n)
          BY <3>1, <4>5 DEF FreshBlock
        <4>. QED  BY <4>6, <4>7
      <3>3. ASSUME NEW n \in Numbers, Height' < n, n <= Height' + Fresh'
            PROVE  blocks[<<exec_epoch, n>>] # None /\ blocks[<<exec_epoch, n>>].st = "Ordered"
        <4>1. Height < n /\ n <= Height + Fresh
          BY <3>1, <3>3, <1>1, <1>2, <1>4, <1>5, NumberFacts
        <4>. QED  BY <1>0, <4>1 DEF PipeInv
      <3>4. \A i \in 1 .. Len(pipe') : Height' + i - Stale' = Height + 1 + i /\ ~(i <= Stale')
        BY <1>1, <1>4, <1>5, <3>1
      <3>5. 0 <= Fresh' /\ Fresh' <= Len(pipe')
        BY <1>1, <3>1
      <3>6. ASSUME NEW i \in 1 .. Len(pipe')
            PROVE  \A n : n = Height' + i - Stale' => pipe'[i] = FreshBlock(n)'
        BY <3>2, <3>4
      <3>7. \A i \in 1 .. Len(pipe') : pipe'[i] = FreshBlock(Height + i - Stale)'
        BY <3>6 DEF FreshBlock, ParentOf
      <3>. QED  BY <3>1, <3>3, <3>4, <3>5, <3>7 DEF PipeInv
    <2>. QED  BY <2>1, <2>2
  <1>20. CommitInv'
    <2>1. \A n \in 1 .. Len(delivered) : delivered[n] = executed'[n]
      <3>1. Len(delivered) <= Height /\ Len(delivered) \in Nat
        BY <1>0, <1>8, Counts DEF CommitInv
      <3>2. \A n \in 1 .. Len(delivered) : n \in 1 .. Height
        BY <1>n, <3>1
      <3>. QED  BY <1>0, <1>v, <3>2 DEF CommitInv
    <2>. QED  BY <1>0, <1>8, <2>1 DEF CommitInv
  <1>21. NotifyInv'
    BY NotifyFrame, Counts DEF RethInv
  <1>. QED  BY <1>9, <1>11, <1>13, <1>14, <1>16, <1>17, <1>18, <1>19, <1>20, <1>21 DEF RethInv

LEMMA ReportResultStep ==
  ASSUME RethInv, ReportResult
  PROVE  /\ RethInv'
         /\ current_epoch < exec_epoch => Reported' < Height' \/ epoch_change_info' # None
         /\ LastKept
         /\ \A d \in Epochs, m \in Numbers : blocks'[<<d, m>>] # None => blocks[<<d, m>>] # None
         /\ \A d \in Epochs, m \in Numbers : blocks[<<d, m>>] # None =>
              \/ blocks'[<<d, m>>] = blocks[<<d, m>>]
              \/ blocks'[<<d, m>>] # None /\ blocks'[<<d, m>>].st = "Computed"
         /\ Reported' = Reported + 1 /\ Reported' \in 1 .. Height /\ executed[Reported'] \in Keys
         /\ blocks'[executed[Reported']] # None /\ blocks'[executed[Reported']].st = "Computed"
  <1>0. TypeInv /\ StageInv /\ BlockInv /\ ExecInv /\ ResultInv /\ UnreportedInv /\ PipeInv /\ CommitInv
    BY DEF RethInv
  <1>u. /\ UNCHANGED <<latest_commit, latest_finalized, current_epoch, epoch_change_ready>>
        /\ UNCHANGED <<reth_epoch, start_ordered_block, exec_pc, consumed, start_commit_num, commit_pc,
                       commit_epoch, notifiers, pipe, executed, exec_epoch, results, delivered,
                       persisted, boundary>>
        /\ vote # None /\ vote' = None
    BY DEF ReportResult, SetComputeRes, bufferVars, execVars, commitVars, pipeVars
  <1>. USE <1>u
  <1>c. /\ Height \in Nat /\ Height' = Height /\ Reported \in Int /\ 0 <= Reported /\ Reported < Height
        /\ Reported' = Reported + 1 /\ Len(results) \in Nat
    BY <1>0, Counts DEF Reported, ResultInv, Height
  <1>1. PICK e \in Epochs, n \in Numbers : e = reth_epoch /\ n = Reported + 1
    <2>1. Reported + 1 \in Numbers
      BY <1>0, <1>c, NumberFacts DEF ExecInv
    <2>. QED  BY <1>0, <2>1 DEF TypeInv
  <1>2. /\ executed[n] = <<e, n>> /\ blocks[<<e, n>>] # None /\ blocks[<<e, n>>].st = "Ordered"
        /\ n \in 1 .. Height /\ n > Reported
    <2>1. n \in 1 .. Height /\ n > Reported
      BY <1>1, <1>c
    <2>. QED  BY <1>0, <1>1, <2>1 DEF UnreportedInv
  <1>3. blocks[<<e, n>>].id = <<e, n>> /\ PlaceOK(e, n)
    BY <1>0, <1>2 DEF BlockInv, StateOK
  <1>4. vote = [num |-> n, id |-> <<e, n>>, new_epoch |-> NewEpoch(e, n), epoch |-> e]
    BY <1>0, <1>1 DEF ResultInv
  <1>5. ~SetComputeFails(e, n, <<e, n>>)
    BY <1>2, <1>3, KeyFacts DEF SetComputeFails, Is, Present
  <1>6. SetComputeRes(e, n, <<e, n>>, NewEpoch(e, n)) /\ down' = down
    BY <1>4, <1>5 DEF ReportResult
  <1>7. Reading \/ Reporting
    BY <1>0, <1>c DEF StageInv, Pending, Released, Following, Booting, Early, Idle
  <1>8. /\ e = current_epoch /\ epoch_change_info = None /\ NoChange /\ exec_pc = "fetch"
        /\ Reading => e = exec_epoch
        /\ Reporting => e = exec_epoch - 1 /\ Height = boundary[e] /\ exec_epoch >= 2
    BY <1>0, <1>1, <1>7, Counts DEF Reading, Reporting, AtEnd, NoChange
  <1>9. /\ blocks' = [k \in Keys |-> blocks'[k]]
        /\ blocks'[<<e, n>>] = Computed(<<e, n>>, Executed(NewEpoch(e, n)))
        /\ \A d \in Epochs, m \in Numbers : <<d, m>> # <<e, n>> =>
             blocks'[<<d, m>>] =
               IF /\ NewEpoch(e, n) # None /\ d = e /\ m > n
                  /\ blocks[<<d, m>>] # None /\ blocks[<<d, m>>].st = "Ordered"
               THEN Computed(blocks[<<d, m>>].id, Dummy(NewEpoch(e, n))) ELSE blocks[<<d, m>>]
    <2>1. blocks' = [k \in Keys |->
            IF k = <<e, n>> THEN Computed(<<e, n>>, Executed(NewEpoch(e, n)))
            ELSE IF NewEpoch(e, n) # None /\ k[1] = e /\ k[2] > n /\ Is(k, "Ordered")
            THEN Computed(blocks[k].id, Dummy(NewEpoch(e, n))) ELSE blocks[k]]
      BY <1>6 DEF SetComputeRes
    <2>. QED  BY <2>1, KeyFacts DEF Is, Present
  <1>10. TypeInv'
    BY <1>0, <1>6, <1>9 DEF TypeInv
  <1>11. \A d \in Epochs, m \in Numbers : blocks[<<d, m>>] # None => PlaceOK(d, m) /\ StateOK(d, m)
    BY <1>0 DEF BlockInv
  <1>12. boundary[e] \in Nat /\ n \in Nat
    BY <1>0, BoundaryFacts, NumberFacts DEF TypeInv
  <1>14. ExecInv' /\ CommitInv'
    BY <1>0, <1>c, ExecFrame DEF CommitInv
  <1>15. ResultInv'
    BY <1>0, <1>c DEF ResultInv, NewEpoch
  <1>16. NewEpoch(e, n) \in Epochs \cup {None} /\ (NewEpoch(e, n) # None => n = boundary[e] /\ e + 1 \in Epochs /\ NewEpoch(e, n) = e + 1)
    <2>1. e >= 1
      <3>1. n # 0
        BY <1>2
      <3>. QED  BY <3>1, <1>3, NumberFacts DEF PlaceOK
    <2>. QED  BY <2>1, <1>0, BoundaryFacts, NumberFacts DEF NewEpoch, TypeInv
  <1>17. blocks'[<<e, n>>] # None
    BY <1>9, <1>16, StateFacts, ResultFacts, KeyFacts
  <1>18. PlaceOK(e, n)' /\ StateOK(e, n)'
    <2>2. PlaceOK(e, n)'
      BY <1>3, <1>c DEF PlaceOK, Base
    <2>3. blocks'[<<e, n>>].id = <<e, n>> /\ blocks'[<<e, n>>].st = "Computed"
          /\ blocks'[<<e, n>>].res = Executed(NewEpoch(e, n))
      BY <1>9 DEF Computed
    <2>4. NewEpoch(e, n)' = NewEpoch(e, n)
      BY DEF NewEpoch
    <2>5. Answered(e, n)'
      BY <2>3, <2>4, <1>1, <1>2, <1>c DEF Answered
    <2>. QED  BY <2>2, <2>3, <2>5 DEF StateOK
  <1>19. ASSUME NEW d \in Epochs, NEW m \in Numbers, blocks[<<d, m>>] # None,
                blocks'[<<d, m>>] = blocks[<<d, m>>]
         PROVE  PlaceOK(d, m)' /\ StateOK(d, m)'
    <2>1. PlaceOK(d, m) /\ StateOK(d, m) /\ m \in Nat
      BY <1>11, <1>19, NumberFacts
    <2>2. PlaceOK(d, m)' /\ ParentOf(m)' = ParentOf(m)
      BY <2>1, <1>c DEF PlaceOK, Base, ParentOf, ExecutedId
    <2>3. NewEpoch(d, m)' = NewEpoch(d, m) /\ (m <= Reported => m <= Reported')
      BY <2>1, <1>c DEF NewEpoch
    <2>4. Answered(d, m) => Answered(d, m)'
      BY <1>19, <2>3, <1>8 DEF Answered
    <2>. QED  BY <1>19, <2>1, <2>2, <2>4, <1>c DEF StateOK
  <1>20. \A m \in 1 .. Height : \E d \in Epochs : executed[m] = <<d, m>> /\ m \in Numbers
    <2>. SUFFICES ASSUME NEW m \in 1 .. Height
                  PROVE  \E d \in Epochs : executed[m] = <<d, m>> /\ m \in Numbers
      OBVIOUS
    <2>1. PICK d \in 1 .. exec_epoch : executed[m] = <<d, m>>
      BY <1>0 DEF ExecInv
    <2>2. exec_epoch \in Epochs /\ Height <= MaxBlock
      BY <1>0 DEF TypeInv, ExecInv
    <2>3. d \in Epochs /\ m \in Numbers
      BY <2>2, <1>c, NumberFacts
    <2>. QED  BY <2>1, <2>3
  <1>21. ASSUME NEW d \in Epochs, NEW m \in Numbers, blocks[<<d, m>>] # None
         PROVE  blocks'[<<d, m>>] # None
    <2>1. blocks[<<d, m>>].id \in Keys
      BY <1>11, <1>21, KeyFacts DEF StateOK
    <2>2. CASE <<d, m>> = <<e, n>>
      BY <2>2, <1>17
    <2>3. CASE <<d, m>> # <<e, n>>
      BY <2>1, <2>3, <1>9, <1>16, <1>21, StateFacts, ResultFacts
    <2>. QED  BY <2>2, <2>3
  <1>22. FoundInv'
    BY <1>c, <1>20, <1>21 DEF FoundInv, RethInv
  <1>23. NotifyInv'
    <2>. SUFFICES ASSUME NEW d \in Epochs, Is(<<d, boundary[d]>>, "Committed")'
                  PROVE  SenderAlive(<<d, boundary[d]>>)' \/ boundary[d] <= persisted
      BY DEF NotifyInv
    <2>1. boundary[d] \in Numbers /\ blocks'[<<d, boundary[d]>>].st = "Committed"
      BY KeyFacts DEF Is, Present
    <2>2. \A id, r : Computed(id, r).st # "Committed"
      BY DEF Computed
    <2>3. blocks'[<<d, boundary[d]>>] = blocks[<<d, boundary[d]>>]
      BY <1>9, <2>1, <2>2
    <2>. QED  BY <2>3 DEF RethInv, NotifyInv, SenderAlive, Is, Present
  <1>25. \A d \in Epochs, m \in Numbers : blocks'[<<d, m>>] # None => blocks[<<d, m>>] # None
    BY <1>2, <1>9
  <1>26. ASSUME NEW d \in Epochs, NEW m \in Numbers, blocks[<<d, m>>] # None
         PROVE  blocks'[<<d, m>>] = blocks[<<d, m>>] \/
                  (blocks'[<<d, m>>] # None /\ blocks'[<<d, m>>].st = "Computed")
    <2>1. \A id, r : Computed(id, r).st = "Computed"
      BY DEF Computed
    <2>. QED  BY <1>9, <1>21, <1>26, <2>1
  <1>27. LastKept
    <2>1. ASSUME NEW d \in Epochs, Is(<<d, boundary[d]>>, "Committed") PROVE Is(<<d, boundary[d]>>, "Committed")'
      <3>1. boundary[d] \in Numbers /\ blocks[<<d, boundary[d]>>] # None /\ blocks[<<d, boundary[d]>>].st = "Committed"
        BY <2>1, KeyFacts DEF Is, Present
      <3>2. blocks'[<<d, boundary[d]>>] = blocks[<<d, boundary[d]>>]
        BY <3>1, <1>2, <1>9
      <3>. QED  BY <2>1, <3>2 DEF Is, Present
    <2>2. ASSUME NEW d \in Epochs, Is(<<d, boundary[d]>>, "Committed")' PROVE Is(<<d, boundary[d]>>, "Committed")
      <3>1. boundary[d] \in Numbers /\ blocks'[<<d, boundary[d]>>] # None /\ blocks'[<<d, boundary[d]>>].st = "Committed"
        BY <2>2, KeyFacts DEF Is, Present
      <3>2. blocks[<<d, boundary[d]>>] # None
        BY <3>1, <1>25
      <3>3. blocks'[<<d, boundary[d]>>] = blocks[<<d, boundary[d]>>]
        BY <3>1, <3>2, <1>26
      <3>. QED  BY <2>2, <3>3 DEF Is, Present
    <2>. QED  BY <2>1, <2>2 DEF LastKept
  <1>28. /\ Reported' \in 1 .. Height /\ executed[Reported'] \in Keys
         /\ blocks'[executed[Reported']] # None /\ blocks'[executed[Reported']].st = "Computed"
    <2>1. Reported' = n /\ executed[n] = <<e, n>> /\ <<e, n>> \in Keys
      BY <1>1, <1>2, <1>c, KeyFacts
    <2>2. Computed(<<e, n>>, Executed(NewEpoch(e, n))).st = "Computed"
      BY DEF Computed
    <2>. QED  BY <2>1, <2>2, <1>2, <1>9, <1>17
  <1>13. CASE NewEpoch(e, n) = None
    <2>1. boundary[e] # n
      BY <1>13, NumberFacts DEF NewEpoch
    <2>2. UNCHANGED <<next_epoch, epoch_change_number, epoch_change_info>>
      BY <1>6, <1>13 DEF SetComputeRes
    <2>3. \A d \in Epochs, m \in Numbers : <<d, m>> # <<e, n>> => blocks'[<<d, m>>] = blocks[<<d, m>>]
      BY <1>9, <1>13
    <2>4. StageInv'
      <3>1. CASE Reading
        BY <3>1, <2>2 DEF StageInv, Reading, NoChange
      <3>2. CASE Reporting
        <4>1. Reported' < Height'
          BY <3>2, <1>1, <1>8, <1>c, <2>1
        <4>. QED  BY <3>2, <4>1, <2>2, <1>c DEF StageInv, Reporting, AtEnd, NoChange
      <3>. QED  BY <1>7, <3>1, <3>2
    <2>5. BlockInv'
      <3>. SUFFICES ASSUME NEW d \in Epochs, NEW m \in Numbers, blocks'[<<d, m>>] # None
                    PROVE  PlaceOK(d, m)' /\ StateOK(d, m)'
        BY DEF BlockInv
      <3>1. CASE <<d, m>> = <<e, n>>
        BY <3>1, <1>18
      <3>2. CASE <<d, m>> # <<e, n>>
        BY <3>2, <1>19, <2>3
      <3>. QED  BY <3>1, <3>2
    <2>8. UnreportedInv'
      <3>. SUFFICES ASSUME NEW m \in 1 .. Height, m > Reported'
                    PROVE  executed[m] = <<reth_epoch, m>> /\ blocks'[<<reth_epoch, m>>] # None
                             /\ blocks'[<<reth_epoch, m>>].st = "Ordered"
        BY <1>c DEF UnreportedInv
      <3>1. m > Reported /\ m # n /\ m \in Numbers
        <4>1. Height <= MaxBlock
          BY <1>0 DEF ExecInv
        <4>. QED  BY <4>1, <1>1, <1>c, NumberFacts
      <3>2. <<reth_epoch, m>> # <<e, n>> /\ reth_epoch \in Epochs
        BY <3>1, <1>1
      <3>. QED  BY <3>1, <3>2, <2>3, <1>0 DEF UnreportedInv
    <2>9. PipeInv'
      <3>1. /\ Fresh' = Fresh /\ Stale' = Stale /\ \A m : FreshBlock(m)' = FreshBlock(m)
            /\ exec_epoch \in Epochs
        BY <1>0, <1>c DEF Fresh, Stale, FreshBlock, ParentOf, ExecutedId, TypeInv
      <3>2. ASSUME NEW m \in Numbers, Height < m
            PROVE  blocks'[<<exec_epoch, m>>] = blocks[<<exec_epoch, m>>]
        <4>1. m # n
          BY <3>2, <1>2, <1>c, NumberFacts
        <4>. QED  BY <4>1, <3>1, <2>3
      <3>. QED  BY <3>1, <3>2, <1>0, <1>c DEF PipeInv
    <2>11. current_epoch < exec_epoch => Reported' < Height'
      <3>1. Reading => current_epoch = exec_epoch
        BY DEF Reading
      <3>2. Reporting => Reported' < Height'
        BY <1>1, <1>8, <1>c, <2>1
      <3>3. exec_epoch \in Nat /\ current_epoch \in Nat
        BY <1>0, Counts
      <3>. QED  BY <1>7, <3>1, <3>2, <3>3
    <2>12. RethInv'
      BY <2>4, <2>5, <2>8, <2>9, <1>10, <1>14, <1>15, <1>22, <1>23 DEF RethInv
    <2>. QED  BY <2>11, <2>12, <1>25, <1>26, <1>27, <1>28, <1>c
  <1>24. CASE NewEpoch(e, n) # None
    <2>1. Reporting /\ n = Height /\ Reported' = Height /\ n = boundary[e] /\ NewEpoch(e, n) = exec_epoch
      <3>1. ~Reading
        BY <1>0, <1>2, <1>8, <1>16, <1>24, <1>c DEF ExecInv
      <3>2. Reporting
        BY <1>7, <3>1
      <3>3. exec_epoch \in Nat
        BY <1>0, Counts
      <3>. QED  BY <3>2, <3>3, <1>1, <1>8, <1>16, <1>24, <1>c
    <2>2. /\ next_epoch' = exec_epoch /\ epoch_change_number' = Height
          /\ epoch_change_info' = [number |-> Height, epoch_state |-> exec_epoch]
      BY <2>1, <1>6, <1>24 DEF SetComputeRes
    <2>3. StageInv'
      BY <2>1, <2>2, <1>c DEF StageInv, Reporting, Pending, AtEnd, NoChange
    <2>4. epoch_change_info' # None /\ exec_epoch \in Epochs
      <3>1. exec_epoch \in Epochs
        BY <1>0 DEF TypeInv
      <3>2. [number |-> n, epoch_state |-> exec_epoch] \in EpochChangeCaches
        BY <3>1 DEF EpochChangeCaches
      <3>. QED  BY <2>1, <2>2, <3>1, <3>2, BufferNoneAssumption
    <2>5. BlockInv'
      <3>. SUFFICES ASSUME NEW d \in Epochs, NEW m \in Numbers, blocks'[<<d, m>>] # None
                    PROVE  PlaceOK(d, m)' /\ StateOK(d, m)'
        BY DEF BlockInv
      <3>1. CASE <<d, m>> = <<e, n>>
        BY <3>1, <1>18
      <3>2. CASE <<d, m>> # <<e, n>> /\ blocks'[<<d, m>>] = blocks[<<d, m>>]
        BY <3>2, <1>19
      <3>3. CASE <<d, m>> # <<e, n>> /\ blocks'[<<d, m>>] # blocks[<<d, m>>]
        <4>1. /\ d = e /\ m > n /\ blocks[<<d, m>>] # None
              /\ blocks'[<<d, m>>] = Computed(blocks[<<d, m>>].id, Dummy(exec_epoch))
          BY <2>1, <3>3, <1>9
        <4>2. PlaceOK(d, m) /\ StateOK(d, m) /\ m \in Nat
          BY <4>1, <1>11, NumberFacts
        <4>3. PlaceOK(d, m)'
          BY <4>2, <1>c DEF PlaceOK, Base
        <4>4. blocks'[<<d, m>>].id = <<d, m>> /\ blocks'[<<d, m>>].st = "Computed"
              /\ blocks'[<<d, m>>].res = Dummy(exec_epoch)
          BY <4>1, <4>2 DEF Computed, StateOK
        <4>5. Answered(d, m)'
          BY <4>1, <4>4, <2>1, <2>4, <1>8, <1>c DEF Answered
        <4>. QED  BY <4>3, <4>4, <4>5 DEF StateOK
      <3>. QED  BY <3>1, <3>2, <3>3
    <2>6. UnreportedInv'
      BY <2>1, <1>c DEF UnreportedInv
    <2>7. PipeInv'
      <3>1. Fresh = 0 /\ Fresh' = 0 /\ Stale' = Stale /\ \A m : FreshBlock(m)' = FreshBlock(m)
        <4>1. exec_epoch \in Nat
          BY <1>0, Counts
        <4>2. reth_epoch # exec_epoch
          BY <4>1, <2>1, <1>1, <1>8
        <4>. QED  BY <4>2, <1>c DEF Fresh, Stale, FreshBlock, ParentOf, ExecutedId
      <3>. QED  BY <3>1, <1>0, <1>c, NumberFacts DEF PipeInv
    <2>8. RethInv'
      BY <2>3, <2>5, <2>6, <2>7, <1>10, <1>14, <1>15, <1>22, <1>23 DEF RethInv
    <2>. QED  BY <2>4, <2>8, <1>25, <1>26, <1>27, <1>28, <1>c
  <1>. QED  BY <1>13, <1>24

----------------------------------------------------------------------------
(* What start_execution and start_commit fetch *)

\* A set of block numbers with a member has a largest one.
LEMMA MaxOfNumbers ==
  ASSUME NEW S \in SUBSET Numbers, S # {}
  PROVE  Max(S) \in S
  <1>. DEFINE Gaps == {MaxBlock - x : x \in S}
  <1>1. Gaps \subseteq Nat /\ Gaps # {}
    BY NumberFacts
  <1>2. PICK g \in Gaps : \A y \in Gaps : ~(<<y, g>> \in OpToRel(<, Nat))
    BY <1>1, NatLessThanWellFounded, WFMin, Zenon
  <1>3. \A y \in Gaps : ~(y < g)
    BY <1>1, <1>2 DEF OpToRel
  <1>4. PICK x \in S : g = MaxBlock - x
    OBVIOUS
  <1>5. \A y \in S : x >= y
    BY <1>3, <1>4, NumberFacts
  <1>. QED  BY <1>5 DEF Max

\* The last block of a fetched run, and that it and all ahead of it are in the state asked for.
LEMMA RunFacts ==
  ASSUME NEW start \in Nat, NEW e, NEW st, NEW S, S \subseteq RunFrom(start, e, st), S # {}
  PROVE  /\ Max(S) \in S /\ Max(S) \in Numbers /\ Max(S) >= start
         /\ \A m \in start .. Max(S) : Is(<<e, m>>, st) /\ m \in Numbers
  <1>1. S \in SUBSET Numbers
    BY DEF RunFrom
  <1>2. Max(S) \in S
    BY <1>1, MaxOfNumbers
  <1>3. Max(S) \in RunFrom(start, e, st)
    BY <1>2
  <1>. HIDE DEF Max
  <1>4. Max(S) \in Numbers /\ Max(S) >= start /\ \A m \in start .. Max(S) : Is(<<e, m>>, st)
    BY <1>3 DEF RunFrom
  <1>. QED  BY <1>2, <1>4, NumberFacts

LEMMA Joined ==
  ASSUME NEW S, NEW s \in Seq(S), NEW t \in Seq(S)
  PROVE  /\ s \o t \in Seq(S) /\ Len(s \o t) = Len(s) + Len(t) /\ Len(s) \in Nat /\ Len(t) \in Nat
         /\ \A i \in 1 .. Len(s) : (s \o t)[i] = s[i]
         /\ \A i \in Len(s) + 1 .. Len(s \o t) :
              i - Len(s) \in 1 .. Len(t) /\ (s \o t)[i] = t[i - Len(s)]
  OBVIOUS

LEMMA FetchOrderedStep == ASSUME RethInv, FetchOrdered, ~Early PROVE RethInv'
  <1>0. TypeInv /\ StageInv /\ BlockInv /\ ExecInv /\ PipeInv
    BY DEF RethInv
  <1>u. /\ UNCHANGED <<blocks, latest_commit, latest_finalized, current_epoch, next_epoch,
                       epoch_change_number, epoch_change_info, epoch_change_ready>>
        /\ UNCHANGED <<reth_epoch, exec_pc, consumed, vote, start_commit_num, commit_pc, commit_epoch,
                       notifiers, down, executed, exec_epoch, results, delivered, persisted, boundary>>
    BY DEF FetchOrdered, bufferVars, commitVars
  <1>. USE <1>u
  <1>c. /\ Height \in Nat /\ Height' = Height /\ Reported' = Reported /\ start_ordered_block \in Nat
        /\ reth_epoch \in Epochs /\ exec_epoch \in Epochs /\ Len(pipe) \in Nat
        /\ exec_epoch \in Nat /\ reth_epoch \in Nat
    BY <1>0, Counts, ReportedFrame DEF TypeInv
  <1>1. PICK last : last = Max(OrderedRun(start_ordered_block, reth_epoch))
    OBVIOUS
  <1>2. /\ last \in Numbers /\ last >= start_ordered_block
        /\ \A m \in start_ordered_block .. last : Is(<<reth_epoch, m>>, "Ordered") /\ m \in Numbers
    <2>1. OrderedRun(start_ordered_block, reth_epoch) # {}
      BY DEF FetchOrdered
    <2>. QED  BY <1>1, <1>c, <2>1, RunFacts DEF OrderedRun
  <1>3. /\ start_ordered_block' = last + 1
        /\ pipe' = pipe \o [i \in 1 .. last - start_ordered_block + 1 |->
             [epoch |-> reth_epoch, num |-> start_ordered_block + i - 1,
              id |-> blocks[<<reth_epoch, start_ordered_block + i - 1>>].id,
              parent |-> blocks[<<reth_epoch, start_ordered_block + i - 1>>].parent]]
    BY <1>1 DEF FetchOrdered
  <1>s. PICK size \in Nat : size = last - start_ordered_block + 1
    BY <1>2, <1>c, NumberFacts
  <1>. DEFINE batch == [i \in 1 .. size |->
                [epoch |-> reth_epoch, num |-> start_ordered_block + i - 1,
                 id |-> blocks[<<reth_epoch, start_ordered_block + i - 1>>].id,
                 parent |-> blocks[<<reth_epoch, start_ordered_block + i - 1>>].parent]]
  <1>4. ASSUME NEW m \in start_ordered_block .. last
        PROVE  /\ blocks[<<reth_epoch, m>>] # None /\ blocks[<<reth_epoch, m>>].st = "Ordered"
               /\ blocks[<<reth_epoch, m>>].id = <<reth_epoch, m>>
               /\ blocks[<<reth_epoch, m>>].parent \in Parents
               /\ PlaceOK(reth_epoch, m) /\ StateOK(reth_epoch, m) /\ m \in Numbers
    <2>1. blocks[<<reth_epoch, m>>] # None /\ blocks[<<reth_epoch, m>>].st = "Ordered" /\ m \in Numbers
      BY <1>2 DEF Is, Present
    <2>2. PlaceOK(reth_epoch, m) /\ StateOK(reth_epoch, m)
      BY <1>0, <1>c, <2>1 DEF BlockInv
    <2>. QED  BY <2>1, <2>2 DEF StateOK
  <1>5. \A i \in 1 .. size : start_ordered_block + i - 1 \in start_ordered_block .. last
    BY <1>2, <1>s, <1>c, NumberFacts
  <1>6. batch \in Seq(PipeBlocks) /\ Len(batch) = size
    <2>1. \A i \in 1 .. size : batch[i] \in PipeBlocks
      <3>. SUFFICES ASSUME NEW i \in 1 .. size PROVE batch[i] \in PipeBlocks
        OBVIOUS
      <3>1. PICK m \in start_ordered_block .. last : m = start_ordered_block + i - 1
        BY <1>5
      <3>2. batch[i] = [epoch |-> reth_epoch, num |-> m, id |-> blocks[<<reth_epoch, m>>].id,
                        parent |-> blocks[<<reth_epoch, m>>].parent]
        BY <3>1
      <3>3. /\ reth_epoch \in Epochs /\ m \in Numbers /\ blocks[<<reth_epoch, m>>].parent \in Parents
            /\ blocks[<<reth_epoch, m>>].id = <<reth_epoch, m>>
        BY <1>c, <1>4
      <3>4. blocks[<<reth_epoch, m>>].id \in Keys
        BY <3>3, KeyFacts
      <3>. QED  BY <3>2, <3>3, <3>4 DEF PipeBlocks
    <2>2. batch = [i \in 1 .. size |-> batch[i]]
      OBVIOUS
    <2>. HIDE DEF batch
    <2>. QED  BY <1>s, <2>1, <2>2
  <1>7. /\ pipe' = pipe \o batch /\ pipe' \in Seq(PipeBlocks) /\ Len(pipe') = Len(pipe) + size
        /\ \A i \in 1 .. Len(pipe) : pipe'[i] = pipe[i]
        /\ \A i \in Len(pipe) + 1 .. Len(pipe') : i - Len(pipe) \in 1 .. size /\ pipe'[i] = batch[i - Len(pipe)]
    <2>1. pipe' = pipe \o batch
      BY <1>3, <1>s
    <2>2. pipe \in Seq(PipeBlocks)
      BY <1>0 DEF TypeInv
    <2>. HIDE DEF batch
    <2>. QED  BY <1>6, <2>1, <2>2, Joined
  <1>8. TypeInv'
    <2>1. start_ordered_block' \in 1 .. MaxBlock + 1
      BY <1>2, <1>3, NumberFacts
    <2>. QED  BY <1>0, <1>7, <2>1 DEF TypeInv
  <1>9. Reading \/ (reth_epoch < exec_epoch /\ (Reporting \/ Pending))
    <2>1. ~epoch_change_ready /\ current_epoch = reth_epoch /\ exec_pc = "fetch"
      BY DEF FetchOrdered, GetOrderedFails
    <2>. QED  BY <1>0, <1>c, <2>1 DEF StageInv, Released, Following, Booting, Reporting, Pending, AtEnd, Idle
  <1>10. StageInv'
    BY <1>9, <1>c DEF StageInv, Reading, Reporting, Pending, AtEnd, NoChange
  <1>11. PipeInv'
    <2>1. Fresh \in Int /\ Stale \in Int /\ Stale = Len(pipe) - Fresh /\ 0 <= Fresh /\ Fresh <= Len(pipe)
      BY <1>0, <1>c DEF Fresh, Stale, PipeInv
    <2>2. \A n : FreshBlock(n)' = FreshBlock(n)
      BY <1>c DEF FreshBlock, ParentOf, ExecutedId
    <2>3. CASE reth_epoch = exec_epoch
      <3>1. Fresh = start_ordered_block - 1 - Height /\ Fresh' = last - Height
        <4>1. Fresh = start_ordered_block - 1 - Height /\ Fresh' = start_ordered_block' - 1 - Height
          BY <2>3, <1>c DEF Fresh
        <4>. QED  BY <4>1, <1>2, <1>3, <1>c, NumberFacts
      <3>2. Fresh' = Fresh + size /\ Stale' = Stale /\ Height < start_ordered_block
        <4>1. Stale' = Len(pipe') - Fresh'
          BY DEF Stale
        <4>2. last \in Nat /\ Len(pipe') = Len(pipe) + size
          BY <1>2, <1>7, NumberFacts
        <4>. QED  BY <3>1, <4>1, <4>2, <2>1, <1>s, <1>c
      <3>3. ASSUME NEW i \in Len(pipe) + 1 .. Len(pipe'), NEW n, n = Height + i - Stale
            PROVE  pipe'[i] = FreshBlock(n)
        <4>1. n = start_ordered_block + (i - Len(pipe)) - 1 /\ n \in start_ordered_block .. last /\ n > Height
          <5>1. last \in Nat /\ Len(pipe') = Len(pipe) + size
            BY <1>2, <1>7, NumberFacts
          <5>. QED  BY <3>1, <3>2, <3>3, <5>1, <2>1, <1>s, <1>c
        <4>2. pipe'[i] = batch[i - Len(pipe)] /\ i - Len(pipe) \in 1 .. size
          BY <1>7
        <4>3. pipe'[i] = [epoch |-> reth_epoch, num |-> n, id |-> blocks[<<reth_epoch, n>>].id,
                          parent |-> blocks[<<reth_epoch, n>>].parent]
          BY <4>1, <4>2
        <4>4. blocks[<<reth_epoch, n>>].parent = ParentOf(n)
          BY <1>4, <2>3, <4>1 DEF StateOK
        <4>. QED  BY <1>4, <2>3, <4>1, <4>3, <4>4 DEF FreshBlock
      <3>4. ASSUME NEW i \in 1 .. Len(pipe')
            PROVE  /\ i > Stale' => pipe'[i] = FreshBlock(Height + i - Stale)
                   /\ i <= Stale' => pipe'[i].epoch < exec_epoch
        <4>1. CASE i \in 1 .. Len(pipe)
          BY <4>1, <1>0, <1>7, <3>2 DEF PipeInv
        <4>2. CASE i \in Len(pipe) + 1 .. Len(pipe')
          BY <4>2, <3>2, <3>3, <2>1, <1>c
        <4>. QED  BY <4>1, <4>2, <1>7, <1>c
      <3>5. ASSUME NEW n \in Numbers, Height < n, n <= Height + Fresh'
            PROVE  blocks[<<exec_epoch, n>>] # None /\ blocks[<<exec_epoch, n>>].st = "Ordered"
        <4>1. CASE n < start_ordered_block
          <5>1. n <= Height + Fresh
            BY <4>1, <3>1, <3>5, <1>c, NumberFacts
          <5>. QED  BY <5>1, <3>5, <1>0 DEF PipeInv
        <4>2. CASE n >= start_ordered_block
          <5>1. n \in start_ordered_block .. last
            BY <4>2, <3>1, <3>5, <1>c, <1>2, NumberFacts
          <5>. QED  BY <5>1, <2>3, <1>4
        <4>. QED  BY <4>1, <4>2, <1>c, NumberFacts
      <3>6. 0 <= Fresh' /\ Fresh' <= Len(pipe')
        BY <3>2, <2>1, <1>7, <1>c
      <3>. QED  BY <2>2, <3>2, <3>4, <3>5, <3>6, <1>c DEF PipeInv
    <2>4. CASE reth_epoch # exec_epoch
      <3>1. Fresh = 0 /\ Fresh' = 0 /\ Stale = Len(pipe) /\ Stale' = Len(pipe') /\ reth_epoch < exec_epoch
        BY <2>4, <1>7, <1>9, <1>c DEF Fresh, Stale, Reading
      <3>2. ASSUME NEW i \in 1 .. Len(pipe') PROVE pipe'[i].epoch < exec_epoch
        <4>1. CASE i \in 1 .. Len(pipe)
          BY <4>1, <1>0, <1>7, <3>1 DEF PipeInv
        <4>2. CASE i \in Len(pipe) + 1 .. Len(pipe')
          <5>1. pipe'[i] = batch[i - Len(pipe)] /\ i - Len(pipe) \in 1 .. size
            BY <4>2, <1>7
          <5>2. pipe'[i].epoch = reth_epoch
            BY <5>1
          <5>. QED  BY <5>2, <3>1
        <4>. QED  BY <4>1, <4>2, <1>7, <1>c
      <3>. QED  BY <3>1, <3>2, <1>7, <1>c, NumberFacts DEF PipeInv
    <2>. QED  BY <2>3, <2>4
  <1>12. BlockInv' /\ ExecInv' /\ FoundInv' /\ ResultInv' /\ UnreportedInv' /\ CommitInv' /\ NotifyInv'
    BY <1>c, BlockFrame, ExecFrame, FoundFrame, ResultFrame, UnreportedFrame, CommitFrame,
       NotifyFrame, Counts DEF RethInv
  <1>. QED  BY <1>8, <1>10, <1>11, <1>12 DEF RethInv

\* start_commit is handed executed blocks: get_block_id finds the last one.
LEMMA FetchCommittedStep ==
  ASSUME RethInv, FetchCommitted
  PROVE  /\ RethInv' /\ UNCHANGED <<executed, persisted, exec_epoch>>
         /\ Len(delivered) + 1 <= Len(delivered') /\ Len(delivered') <= Height
         /\ \E e \in Epochs : \A m \in Len(delivered) + 1 .. Len(delivered') :
              Is(<<e, m>>, "Committed") /\ executed[m] = <<e, m>>
         /\ blocks' = [k \in Keys |-> blocks'[k]]
         /\ \A e \in Epochs, n \in Numbers :
              \/ blocks'[<<e, n>>] = blocks[<<e, n>>]
              \/ /\ blocks[<<e, n>>] # None /\ blocks[<<e, n>>].st = "Committed"
                 /\ blocks'[<<e, n>>] = Committed(blocks[<<e, n>>].id, blocks[<<e, n>>].res, FALSE)
  <1>0. TypeInv /\ StageInv /\ BlockInv /\ ExecInv /\ PipeInv /\ CommitInv
    BY DEF RethInv
  <1>u. /\ UNCHANGED <<latest_commit, latest_finalized, current_epoch, next_epoch,
                       epoch_change_number, epoch_change_info, epoch_change_ready>>
        /\ UNCHANGED <<reth_epoch, start_ordered_block, exec_pc, consumed, vote, pipe, executed,
                       exec_epoch, results, persisted, boundary>>
        /\ commit_epoch' = 0 /\ commit_pc = "fetch"
    BY DEF FetchCommitted, GetCommittedBlocks, execVars
  <1>. USE <1>u
  <1>c. /\ Height \in Nat /\ Height' = Height /\ Reported' = Reported /\ Reported \in Int
        /\ Reported <= Height /\ Len(delivered) \in Nat /\ start_commit_num = Len(delivered) + 1
        /\ Len(delivered) <= Reported /\ commit_epoch \in Epochs /\ start_commit_num \in Nat
        /\ Height <= MaxBlock
    <2>1. start_commit_num = Len(delivered) + 1 /\ Len(delivered) <= Reported /\ Height <= MaxBlock
          /\ commit_epoch \in Epochs
      BY <1>0 DEF TypeInv, CommitInv, ExecInv
    <2>. QED  BY <1>0, <2>1, Counts, ReportedFrame
  <1>. DEFINE run == CommittedRun(start_commit_num, commit_epoch)
  <1>1. PICK last : last = Max(run)
    OBVIOUS
  <1>2. /\ last \in Numbers /\ last >= start_commit_num /\ last \in run
        /\ \A m \in start_commit_num .. last : Is(<<commit_epoch, m>>, "Committed") /\ m \in Numbers
    <2>1. run # {} /\ run \subseteq RunFrom(start_commit_num, commit_epoch, "Committed")
      BY DEF FetchCommitted, CommittedRun
    <2>. HIDE DEF run
    <2>. QED  BY <1>1, <1>c, <2>1, RunFacts
  <1>3. ~IsSuffixBlock(last)
    BY <1>2 DEF CommittedRun
  <1>4. epoch_change_info # None => last <= Height
    <2>1. epoch_change_info # None => epoch_change_info = [number |-> Height, epoch_state |-> exec_epoch]
      BY <1>0, StageFacts DEF Pending
    <2>. QED  BY <1>2, <1>3, <1>c, <2>1, NumberFacts DEF IsSuffixBlock
  <1>5. ASSUME NEW m \in start_commit_num .. last
        PROVE  /\ blocks[<<commit_epoch, m>>] # None /\ blocks[<<commit_epoch, m>>].st = "Committed"
               /\ blocks[<<commit_epoch, m>>].id = <<commit_epoch, m>>
               /\ m <= Reported /\ executed[m] = <<commit_epoch, m>> /\ m \in 1 .. Height
    <2>1. blocks[<<commit_epoch, m>>] # None /\ blocks[<<commit_epoch, m>>].st = "Committed" /\ m \in Numbers
      BY <1>2 DEF Is, Present
    <2>2. StateOK(commit_epoch, m)
      BY <1>0, <1>c, <2>1 DEF BlockInv
    <2>3. Answered(commit_epoch, m) /\ blocks[<<commit_epoch, m>>].id = <<commit_epoch, m>>
      BY <2>1, <2>2 DEF StateOK
    <2>4. ~(epoch_change_info # None /\ m > Height)
      BY <1>2, <1>4, <1>c, <2>1, NumberFacts
    <2>5. 1 <= m /\ m <= Reported /\ executed[m] = <<commit_epoch, m>>
      BY <2>3, <2>4 DEF Answered
    <2>. QED  BY <1>c, <2>1, <2>3, <2>5, NumberFacts
  <1>6. last \in start_commit_num .. last /\ last \in 1 .. Height /\ last <= Reported
    <2>1. last \in start_commit_num .. last
      BY <1>2, <1>c, NumberFacts
    <2>. QED  BY <1>5, <2>1
  <1>7. last \in DOMAIN executed /\ executed[last] = blocks[<<commit_epoch, last>>].id
    <2>1. DOMAIN executed = 1 .. Height
      BY <1>0 DEF TypeInv, Height
    <2>. QED  BY <1>5, <1>6, <2>1
  <1>8. /\ down' = FALSE
        /\ delivered' = delivered \o [i \in 1 .. last - start_commit_num + 1 |->
                          blocks[<<commit_epoch, start_commit_num + i - 1>>].id]
        /\ notifiers' = TakenNotifiers(start_commit_num, commit_epoch)
        /\ start_commit_num' = last + 1 /\ commit_pc' = "set_state"
        /\ GetCommittedBlocks(start_commit_num, commit_epoch)
    BY <1>1, <1>7 DEF FetchCommitted
  <1>s. PICK size \in Nat : size = last - start_commit_num + 1
    BY <1>2, <1>c, NumberFacts
  <1>. DEFINE batch == [i \in 1 .. size |-> blocks[<<commit_epoch, start_commit_num + i - 1>>].id]
  <1>9. \A i \in 1 .. size : /\ start_commit_num + i - 1 \in 1 .. Height
                             /\ batch[i] = executed[start_commit_num + i - 1] /\ batch[i] \in Keys
    <2>. SUFFICES ASSUME NEW i \in 1 .. size
                  PROVE  /\ start_commit_num + i - 1 \in 1 .. Height
                         /\ batch[i] = executed[start_commit_num + i - 1] /\ batch[i] \in Keys
      OBVIOUS
    <2>1. PICK m \in start_commit_num .. last : m = start_commit_num + i - 1
      <3>1. last \in Nat /\ start_commit_num \in Nat
        BY <1>2, <1>c, NumberFacts
      <3>. QED  BY <1>s, <3>1
    <2>2. m \in 1 .. Height /\ blocks[<<commit_epoch, m>>].id = executed[m] /\ executed[m] = <<commit_epoch, m>>
      BY <1>5
    <2>3. m \in Numbers
      BY <2>2, <1>c, NumberFacts
    <2>4. <<commit_epoch, m>> \in Keys
      BY <2>3, <1>c, KeyFacts
    <2>5. batch[i] = blocks[<<commit_epoch, m>>].id
      BY <2>1
    <2>. QED  BY <2>1, <2>2, <2>4, <2>5
  <1>10. batch \in Seq(Keys) /\ Len(batch) = size
    <2>1. batch = [i \in 1 .. size |-> batch[i]] /\ \A i \in 1 .. size : batch[i] \in Keys
      BY <1>9
    <2>. HIDE DEF batch
    <2>. QED  BY <1>s, <2>1
  <1>11. /\ delivered' \in Seq(Keys) /\ Len(delivered') = last
         /\ \A n \in 1 .. last : delivered'[n] = executed[n]
    <2>1. delivered' = delivered \o batch
      BY <1>8, <1>s
    <2>2. delivered \in Seq(Keys)
      BY <1>0 DEF TypeInv
    <2>3. /\ delivered' \in Seq(Keys) /\ Len(delivered') = Len(delivered) + size
          /\ \A i \in 1 .. Len(delivered) : delivered'[i] = delivered[i]
          /\ \A i \in Len(delivered) + 1 .. Len(delivered') :
               i - Len(delivered) \in 1 .. size /\ delivered'[i] = batch[i - Len(delivered)]
      <3>. HIDE DEF batch
      <3>. QED  BY <1>10, <2>1, <2>2, Joined
    <2>4. Len(delivered') = last
      BY <2>3, <1>s, <1>2, <1>c, NumberFacts
    <2>5. ASSUME NEW n \in 1 .. last PROVE delivered'[n] = executed[n]
      <3>1. CASE n \in 1 .. Len(delivered)
        BY <3>1, <2>3, <1>0 DEF CommitInv
      <3>2. CASE n \in Len(delivered) + 1 .. Len(delivered')
        <4>1. n - Len(delivered) \in 1 .. size /\ delivered'[n] = batch[n - Len(delivered)]
          BY <3>2, <2>3
        <4>2. batch[n - Len(delivered)] = executed[start_commit_num + (n - Len(delivered)) - 1]
          BY <4>1, <1>9
        <4>3. start_commit_num + (n - Len(delivered)) - 1 = n
          BY <1>c
        <4>. QED  BY <4>1, <4>2, <4>3
      <3>. QED  BY <3>1, <3>2, <2>4, <1>c
    <2>. QED  BY <2>3, <2>4, <2>5
  <1>12. /\ blocks' = [k \in Keys |-> blocks'[k]]
         /\ \A e \in Epochs, n \in Numbers :
              blocks'[<<e, n>>] = IF <<e, n>> \in TakenNotifiers(start_commit_num, commit_epoch)
                                  THEN Committed(blocks[<<e, n>>].id, blocks[<<e, n>>].res, FALSE)
                                  ELSE blocks[<<e, n>>]
    BY <1>8, KeyFacts DEF GetCommittedBlocks
  <1>13. /\ TakenNotifiers(start_commit_num, commit_epoch) \subseteq Keys
         /\ \A e \in Epochs, n \in Numbers : <<e, n>> \in TakenNotifiers(start_commit_num, commit_epoch) =>
              blocks[<<e, n>>] # None /\ blocks[<<e, n>>].st = "Committed"
    <2>1. ASSUME NEW k \in TakenNotifiers(start_commit_num, commit_epoch)
          PROVE  k \in Keys /\ blocks[k] # None /\ blocks[k].st = "Committed"
      <3>1. PICK n \in CommittedRun(start_commit_num, commit_epoch) : k = <<commit_epoch, n>>
        BY DEF TakenNotifiers
      <3>2. n \in Numbers /\ n >= start_commit_num
            /\ \A m \in start_commit_num .. n : Is(<<commit_epoch, m>>, "Committed")
        BY DEF CommittedRun, RunFrom
      <3>3. n \in start_commit_num .. n
        BY <3>2, <1>c, NumberFacts
      <3>. QED  BY <3>1, <3>2, <3>3, <1>c, KeyFacts DEF Is, Present
    <2>. QED  BY <2>1
  <1>14. TypeInv'
    <2>1. commit_epoch' \in Epochs /\ commit_pc' = "set_state" /\ notifiers' \subseteq Keys
          /\ down' = FALSE /\ delivered' \in Seq(Keys) /\ blocks' = [k \in Keys |-> blocks'[k]]
      BY <1>8, <1>11, <1>12, <1>13, NumberFacts
    <2>. QED  BY <1>0, <2>1 DEF TypeInv
  <1>15. StageInv'
    <2>1. ~Idle
      BY <1>6, <1>c, <1>2, NumberFacts DEF Idle
    <2>. QED  BY <1>0, <2>1, <1>c DEF StageInv, Reading, Reporting, Pending, Released, Following, Booting,
                Early, AtEnd, NoChange
  <1>16. ASSUME NEW e \in Epochs, NEW n \in Numbers
         PROVE  /\ blocks[<<e, n>>] # None <=> blocks'[<<e, n>>] # None
                /\ blocks[<<e, n>>] # None =>
                     /\ blocks'[<<e, n>>].id = blocks[<<e, n>>].id
                     /\ blocks'[<<e, n>>].st = blocks[<<e, n>>].st
                     /\ blocks[<<e, n>>].st = "Ordered" => blocks'[<<e, n>>] = blocks[<<e, n>>]
                     /\ blocks[<<e, n>>].st \in {"Computed", "Committed"} =>
                          blocks'[<<e, n>>].res = blocks[<<e, n>>].res
    <2>1. CASE <<e, n>> \in TakenNotifiers(start_commit_num, commit_epoch)
      <3>1. blocks[<<e, n>>] # None /\ blocks[<<e, n>>].st = "Committed"
        BY <2>1, <1>13
      <3>2. StateOK(e, n)
        BY <1>0, <3>1 DEF BlockInv
      <3>3. blocks[<<e, n>>].id \in Keys /\ blocks[<<e, n>>].res \in ComputeResults
        <4>1. Answered(e, n) /\ blocks[<<e, n>>].id = <<e, n>>
          BY <3>1, <3>2 DEF StateOK
        <4>2. NewEpoch(e, n) \in Epochs \cup {None}
          <5>1. PlaceOK(e, n)
            BY <1>0, <3>1 DEF BlockInv
          <5>2. Answered(e, n) /\ n = 0 => epoch_change_info # None /\ n > Height
            BY DEF Answered
          <5>3. n # 0
            BY <4>1, <5>2, <1>c
          <5>4. e >= 1
            BY <5>1, <5>3, NumberFacts DEF PlaceOK
          <5>. QED  BY <5>4, <1>0, BoundaryFacts, NumberFacts DEF NewEpoch, TypeInv
        <4>3. exec_epoch \in Epochs
          BY <1>0 DEF TypeInv
        <4>. QED  BY <4>1, <4>2, <4>3, KeyFacts, ResultFacts DEF Answered
      <3>4. blocks'[<<e, n>>] = Committed(blocks[<<e, n>>].id, blocks[<<e, n>>].res, FALSE)
        BY <2>1, <1>12
      <3>5. blocks'[<<e, n>>] # None
        BY <3>3, <3>4, StateFacts
      <3>. QED  BY <3>1, <3>4, <3>5 DEF Committed
    <2>2. CASE <<e, n>> \notin TakenNotifiers(start_commit_num, commit_epoch)
      BY <2>2, <1>12
    <2>. QED  BY <2>1, <2>2
  <1>17. BlockInv'
    <2>. SUFFICES ASSUME NEW e \in Epochs, NEW n \in Numbers, blocks'[<<e, n>>] # None
                  PROVE  PlaceOK(e, n)' /\ StateOK(e, n)'
      BY DEF BlockInv
    <2>1. PlaceOK(e, n) /\ StateOK(e, n) /\ blocks[<<e, n>>] # None
      BY <1>0, <1>16 DEF BlockInv
    <2>2. PlaceOK(e, n)'
      BY <2>1, <1>c DEF PlaceOK, Base
    <2>3. blocks[<<e, n>>].st \in {"Computed", "Committed"} /\ Answered(e, n) => Answered(e, n)'
      BY <1>16, <1>c, <2>1 DEF Answered, NewEpoch
    <2>4. ParentOf(n)' = ParentOf(n)
      BY <1>c DEF ParentOf, ExecutedId
    <2>5. /\ blocks'[<<e, n>>].id = blocks[<<e, n>>].id
          /\ blocks'[<<e, n>>].st = blocks[<<e, n>>].st
          /\ blocks[<<e, n>>].st = "Ordered" => blocks'[<<e, n>>] = blocks[<<e, n>>]
      BY <1>16, <2>1
    <2>. QED  BY <1>c, <2>1, <2>2, <2>3, <2>4, <2>5 DEF StateOK
  <1>18. FoundInv'
    <2>. SUFFICES ASSUME NEW n \in 1 .. Height, n >= latest_finalized PROVE blocks'[executed[n]] # None
      BY <1>c DEF FoundInv
    <2>1. PICK e \in 1 .. exec_epoch : executed[n] = <<e, n>>
      BY <1>0 DEF ExecInv
    <2>2. e \in Epochs
      <3>1. exec_epoch \in Epochs
        BY <1>0 DEF TypeInv
      <3>. QED  BY <3>1, NumberFacts
    <2>3. n \in Numbers
      BY <1>c, NumberFacts
    <2>. QED  BY <1>16, <2>1, <2>2, <2>3 DEF RethInv, FoundInv
  <1>19. UnreportedInv'
    <2>. SUFFICES ASSUME NEW n \in 1 .. Height, n > Reported
                  PROVE  executed[n] = <<reth_epoch, n>> /\ blocks'[<<reth_epoch, n>>] # None
                           /\ blocks'[<<reth_epoch, n>>].st = "Ordered"
      BY <1>c DEF UnreportedInv
    <2>1. n \in Numbers
      BY <1>c, NumberFacts
    <2>2. reth_epoch \in Epochs
      BY <1>0 DEF TypeInv
    <2>. QED  BY <1>16, <2>1, <2>2 DEF RethInv, UnreportedInv
  <1>20. PipeInv'
    <2>1. /\ Fresh' = Fresh /\ Stale' = Stale /\ \A n : FreshBlock(n)' = FreshBlock(n)
          /\ exec_epoch \in Epochs
      BY <1>0, <1>c DEF Fresh, Stale, FreshBlock, ParentOf, ExecutedId, TypeInv
    <2>. QED  BY <1>0, <1>c, <1>16, <2>1 DEF PipeInv
  <1>21. CommitInv'
    <2>1. last <= Reported /\ persisted <= last
      <3>1. /\ persisted <= Len(delivered) /\ start_commit_num = Len(delivered) + 1 /\ persisted \in Nat
            /\ Len(delivered) \in Nat
        BY <1>0, Counts DEF CommitInv
      <3>2. last \in Nat /\ last >= start_commit_num /\ last <= Reported
        BY <1>2, <1>6, NumberFacts
      <3>. QED  BY <3>1, <3>2
    <2>. QED  BY <1>0, <1>8, <1>11, <1>c, <2>1 DEF CommitInv
  <1>22. NotifyInv'
    <2>. SUFFICES ASSUME NEW e \in Epochs, Is(<<e, boundary[e]>>, "Committed")'
                  PROVE  SenderAlive(<<e, boundary[e]>>)' \/ boundary[e] <= persisted
      BY DEF NotifyInv
    <2>1. boundary[e] \in Numbers /\ blocks'[<<e, boundary[e]>>] # None
          /\ blocks'[<<e, boundary[e]>>].st = "Committed"
      BY KeyFacts DEF Is, Present
    <2>2. Is(<<e, boundary[e]>>, "Committed")
      BY <1>16, <2>1, KeyFacts DEF Is, Present
    <2>3. SenderAlive(<<e, boundary[e]>>) \/ boundary[e] <= persisted
      BY <2>2 DEF RethInv, NotifyInv
    <2>4. CASE <<e, boundary[e]>> \in TakenNotifiers(start_commit_num, commit_epoch)
      BY <2>4, <1>8 DEF SenderAlive
    <2>5. CASE <<e, boundary[e]>> \notin TakenNotifiers(start_commit_num, commit_epoch)
      <3>1. notifiers = {}
        BY <1>0 DEF CommitInv
      <3>2. blocks'[<<e, boundary[e]>>] = blocks[<<e, boundary[e]>>]
        BY <2>1, <2>5, <1>12
      <3>. QED  BY <2>3, <3>1, <3>2 DEF SenderAlive, Is, Present
    <2>. QED  BY <2>4, <2>5
  <1>23. ExecInv' /\ ResultInv'
    BY ExecFrame, ResultFrame, <1>8 DEF RethInv
  <1>24. RethInv'
    BY <1>14, <1>15, <1>17, <1>18, <1>19, <1>20, <1>21, <1>22, <1>23 DEF RethInv
  <1>25. Len(delivered) + 1 <= Len(delivered') /\ Len(delivered') <= Height
    BY <1>11, <1>6, <1>2, <1>c
  <1>26. \A e \in Epochs, n \in Numbers :
              \/ blocks'[<<e, n>>] = blocks[<<e, n>>]
              \/ /\ blocks[<<e, n>>] # None /\ blocks[<<e, n>>].st = "Committed"
                 /\ blocks'[<<e, n>>] = Committed(blocks[<<e, n>>].id, blocks[<<e, n>>].res, FALSE)
    BY <1>12, <1>13
  <1>27. \E e \in Epochs : \A m \in Len(delivered) + 1 .. Len(delivered') :
           Is(<<e, m>>, "Committed") /\ executed[m] = <<e, m>>
    <2>1. \A m \in start_commit_num .. last : Is(<<commit_epoch, m>>, "Committed") /\ executed[m] = <<commit_epoch, m>>
      BY <1>2, <1>5
    <2>2. Len(delivered) + 1 .. Len(delivered') = start_commit_num .. last
      BY <1>c, <1>11
    <2>. QED  BY <1>c, <2>1, <2>2
  <1>. QED  BY <1>12, <1>24, <1>25, <1>26, <1>27

----------------------------------------------------------------------------
(* What consensus does to the buffer manager *)

\* A committed last block was executed.
LEMMA LastExecuted ==
  ASSUME TypeInv, StageInv, BlockInv, NEW e \in Epochs, Present(<<e, boundary[e]>>),
         blocks[<<e, boundary[e]>>].st \in {"Computed", "Committed"}
  PROVE  /\ boundary[e] <= Reported /\ blocks[<<e, boundary[e]>>].res = Executed(e + 1)
         /\ boundary[e] \in Numbers /\ e + 1 \in Epochs
  <1>1. boundary[e] \in Numbers /\ blocks[<<e, boundary[e]>>] # None
    BY KeyFacts DEF Present
  <1>2. Answered(e, boundary[e]) /\ PlaceOK(e, boundary[e])
    BY <1>1 DEF BlockInv, StateOK
  <1>3. boundary[e] \in Nat /\ boundary[e] >= 1
    BY BoundaryFacts DEF TypeInv
  <1>4. ~(epoch_change_info # None /\ e = exec_epoch - 1 /\ boundary[e] > Height)
    <2>1. epoch_change_info # None => Height = boundary[exec_epoch - 1]
      BY StageFacts DEF Pending, AtEnd
    <2>. QED  BY <2>1, Counts
  <1>5. e >= 1
    BY <1>2, <1>3, NumberFacts DEF PlaceOK
  <1>6. e + 1 \in Epochs
    BY <1>1, <1>5, BoundaryFacts, NumberFacts DEF TypeInv
  <1>. QED  BY <1>1, <1>2, <1>4, <1>6 DEF Answered, NewEpoch

LEMMA UnchangedStep ==
  ASSUME RethInv, UNCHANGED <<bufferVars, rethVars>>
  PROVE  RethInv' /\ LastKept
  <1>. USE DEF bufferVars, rethVars, execVars, commitVars, pipeVars
  <1>1. TypeInv'
    BY DEF RethInv, TypeInv
  <1>2. StageInv' /\ BlockInv' /\ ExecInv' /\ FoundInv' /\ ResultInv' /\ UnreportedInv' /\ PipeInv' /\ CommitInv' /\ NotifyInv'
    BY StageFrame, BlockFrame, ExecFrame, FoundFrame, ResultFrame, UnreportedFrame, PipeFrame, CommitFrame,
       NotifyFrame, ReportedFrame, Counts DEF RethInv
  <1>3. LastKept
    BY DEF LastKept, Is, Present
  <1>. QED  BY <1>1, <1>2, <1>3 DEF RethInv

\* The parent set_ordered_blocks stores is the one reth expects, across an epoch change too.
LEMMA OrderedParent ==
  ASSUME RethInv, ~Early, NEW e \in Epochs, NEW n \in Numbers, e >= 1, n > Base(e), e = current_epoch
  PROVE  /\ ActualParent(e, n, ParentId(e, n)) \in Parents
         /\ e = exec_epoch /\ n > Height => ActualParent(e, n, ParentId(e, n)) = ParentOf(n)
  <1>0. TypeInv /\ StageInv /\ BlockInv /\ ExecInv /\ FoundInv /\ CommitInv
    BY DEF RethInv
  <1>1. /\ e \in Nat /\ n \in Nat /\ Height \in Nat /\ Base(e) \in Nat /\ n - 1 \in Numbers /\ n >= 1
        /\ e # 1 => e - 1 \in Epochs /\ boundary[e - 1] \in Nat /\ boundary[e - 1] >= 1
    <2>1. e # 1 => e - 1 \in Epochs
      BY NumberFacts
    <2>2. e # 1 => boundary[e - 1] \in Nat /\ boundary[e - 1] >= 1
      BY <1>0, <2>1, BoundaryFacts DEF TypeInv
    <2>3. Base(e) \in Nat
      BY <2>2 DEF Base
    <2>4. e \in Nat /\ n \in Nat /\ n <= MaxBlock /\ MaxBlock \in Nat
      BY NumberFacts
    <2>5. n >= 1 /\ n - 1 \in Nat /\ n - 1 <= MaxBlock
      BY <2>3, <2>4
    <2>6. n - 1 \in Numbers /\ Height \in Nat
      BY <1>0, <2>5, Counts, NumberFacts
    <2>. QED  BY <2>1, <2>2, <2>3, <2>4, <2>5, <2>6
  <1>2. \A d \in Epochs, m \in Numbers : Present(<<d, m>>) =>
          blocks[<<d, m>>].id = <<d, m>> /\ PlaceOK(d, m)
    BY <1>0 DEF BlockInv, StateOK, Present
  <1>3. ParentId(e, n) = IF n - 1 = Base(e) THEN (IF e = 1 THEN <<0, 0>> ELSE <<e, "genesis">>) ELSE <<e, n - 1>>
    BY DEF ParentId, Base, GenesisId, EpochGenesis, Id
  <1>4. ParentId(e, n) \in Parents
    <2>1. <<0, 0>> \in Keys /\ <<e, n - 1>> \in Keys /\ <<e, "genesis">> \in Epochs \X {"genesis"}
      BY <1>1, KeyFacts, NumberFacts
    <2>. QED  BY <1>3, <2>1 DEF Parents
  <1>5. ActualParent(e, n, ParentId(e, n)) \in Parents
    <2>1. Present(<<e, n - 1>>) => blocks[<<e, n - 1>>].id \in Keys
      BY <1>1, <1>2, KeyFacts
    <2>2. Present(<<e - 1, n - 1>>) => blocks[<<e - 1, n - 1>>].id \in Keys
      <3>1. e - 1 \in Epochs
        BY <1>1, NumberFacts
      <3>. QED  BY <3>1, <1>1, <1>2, KeyFacts
    <2>. QED  BY <1>4, <2>1, <2>2 DEF ActualParent, Parents
  <1>6. ASSUME e = exec_epoch, n > Height + 1
        PROVE  ActualParent(e, n, ParentId(e, n)) = <<e, n - 1>>
    <2>1. n - 1 # Base(e)
      BY <1>0, <1>1, <1>6 DEF ExecInv
    <2>2. ~Present(<<e - 1, n - 1>>)
      <3>1. e - 1 \in Epochs
        BY <1>1, NumberFacts
      <3>2. ~PlaceOK(e - 1, n - 1)
        BY <1>1, <1>6 DEF PlaceOK
      <3>. QED  BY <1>1, <1>2, <3>1, <3>2
    <2>. QED  BY <1>1, <1>2, <1>3, <2>1, <2>2 DEF ActualParent
  <1>7. ASSUME e = exec_epoch, n = Height + 1, Height = 0
        PROVE  ActualParent(e, n, ParentId(e, n)) = <<0, 0>>
    <2>1. e = 1 /\ Base(e) = 0 /\ n = 1
      <3>1. Base(e) <= 0
        BY <1>0, <1>7 DEF ExecInv
      <3>. QED  BY <3>1, <1>1, <1>7 DEF Base
    <2>2. ~Present(<<1, 0>>)
      <3>1. ~PlaceOK(1, 0)
        BY DEF PlaceOK, Base
      <3>. QED  BY <1>2, <2>1, <3>1, NumberFacts
    <2>3. Present(<<0, 0>>) => blocks[<<0, 0>>].id = <<0, 0>>
      BY <1>2, NumberFacts
    <2>4. ParentId(e, n) = <<0, 0>>
      BY <1>3, <2>1
    <2>. QED  BY <2>1, <2>2, <2>3, <2>4 DEF ActualParent
  <1>8. ASSUME e = exec_epoch, n = Height + 1, Height # 0
        PROVE  ActualParent(e, n, ParentId(e, n)) = executed[Height]
    <2>1. Height >= latest_finalized /\ Height \in 1 .. Height
      <3>1. latest_finalized <= persisted /\ persisted <= Len(delivered) /\ Len(delivered) <= Reported
        BY <1>0 DEF CommitInv
      <3>. QED  BY <3>1, <1>0, <1>1, <1>8, Counts
    <2>2. blocks[executed[Height]] # None
      BY <1>0, <2>1 DEF FoundInv
    <2>3. n - 1 = Height
      BY <1>1, <1>8
    <2>4. CASE Height > Base(e)
      <3>1. executed[Height] = <<e, Height>>
        BY <1>0, <1>8, <2>1, <2>4 DEF ExecInv
      <3>2. Present(<<e, n - 1>>)
        BY <3>1, <2>2, <2>3, <1>1, KeyFacts DEF Present
      <3>. QED  BY <3>1, <3>2, <1>1, <1>2, <2>3 DEF ActualParent
    <2>5. CASE Height = Base(e)
      <3>1. e # 1 /\ Height = boundary[e - 1] /\ e - 1 \in 1 .. exec_epoch - 1 /\ e - 1 \in Epochs
        BY <1>1, <1>8, <2>5 DEF Base
      <3>2. executed[Height] = <<e - 1, Height>>
        BY <1>0, <3>1 DEF ExecInv
      <3>3. Present(<<e - 1, n - 1>>)
        BY <3>1, <3>2, <2>2, <2>3, <1>1, KeyFacts DEF Present
      <3>4. ~Present(<<e, n - 1>>)
        <4>1. ~PlaceOK(e, n - 1)
          BY <1>1, <2>3, <2>5 DEF PlaceOK
        <4>. QED  BY <4>1, <1>1, <1>2
      <3>. QED  BY <3>1, <3>2, <3>3, <3>4, <1>1, <1>2, <2>3 DEF ActualParent
    <2>6. Base(e) <= Height
      BY <1>0, <1>8 DEF ExecInv
    <2>. QED  BY <2>4, <2>5, <2>6, <1>1
  <1>9. ASSUME e = exec_epoch, n > Height PROVE ActualParent(e, n, ParentId(e, n)) = ParentOf(n)
    <2>1. n = Height + 1 \/ n > Height + 1
      BY <1>1, <1>9
    <2>. QED  BY <1>6, <1>7, <1>8, <1>9, <2>1 DEF ParentOf, ExecutedId, GenesisId, Id
  <1>. QED  BY <1>5, <1>9

LEMMA SetOrderedKeeps ==
  ASSUME RethInv, ~Early, UNCHANGED rethVars, NEW e \in Epochs, NEW n \in Numbers, e >= 1, n > Base(e),
         SetOrderedBlocks(e, n, Id(e, n), ParentId(e, n))
  PROVE  /\ RethInv' /\ LastKept
         /\ \A d \in Epochs, m \in Numbers : blocks'[<<d, m>>] # None => blocks[<<d, m>>] # None \/ d = e
  <1>. USE DEF SetOrderedBlocks
  <1>1. CASE blocks' = blocks
    <2>1. UNCHANGED <<bufferVars, rethVars>>
      BY <1>1 DEF bufferVars
    <2>. QED  BY <1>1, <2>1, UnchangedStep
  <1>2. CASE blocks' # blocks
    <2>. DEFINE b == Ordered(<<e, n>>, ActualParent(e, n, ParentId(e, n)))
    <2>0. TypeInv /\ BlockInv
      BY DEF RethInv
    <2>1. /\ e = current_epoch /\ blocks[<<e, n>>] = None
          /\ blocks' = [blocks EXCEPT ![<<e, n>>] = b]
      <3>1. ~(e < current_epoch) /\ ~(e > current_epoch)
        BY <1>2 DEF SetOrderedFails
      <3>2. e \in Nat /\ current_epoch \in Nat
        BY <2>0, Counts, NumberFacts
      <3>3. e = current_epoch
        BY <3>1, <3>2
      <3>. QED  BY <1>2, <3>3, KeyFacts DEF Present, Id
    <2>2. /\ b.id = <<e, n>> /\ b.st = "Ordered" /\ b.parent = ActualParent(e, n, ParentId(e, n))
          /\ b.parent \in Parents
      BY <2>1, OrderedParent DEF Ordered
    <2>3. b # None
      <3>1. b.parent \in Keys \/ \E d \in Epochs : b.parent = EpochGenesis(d)
        BY <2>2 DEF Parents, EpochGenesis
      <3>2. b = Ordered(<<e, n>>, b.parent) /\ <<e, n>> \in Keys
        BY <2>2, KeyFacts
      <3>. QED  BY <3>1, <3>2, StateFacts
    <2>4. /\ blocks' = [k \in Keys |-> blocks'[k]] /\ blocks'[<<e, n>>] = b
          /\ \A d \in Epochs, m \in Numbers : <<d, m>> # <<e, n>> => blocks'[<<d, m>>] = blocks[<<d, m>>]
      <3>. HIDE DEF b
      <3>1. blocks = [k \in Keys |-> blocks[k]] /\ <<e, n>> \in Keys
        BY <2>0, KeyFacts DEF TypeInv
      <3>. QED  BY <2>1, <3>1, KeyFacts
    <2>. HIDE DEF b
    <2>5. Reported' = Reported /\ Height' = Height
      BY ReportedFrame DEF rethVars, pipeVars
    <2>6. ASSUME NEW d \in Epochs, NEW m \in Numbers, blocks'[<<d, m>>] # None
          PROVE  PlaceOK(d, m)' /\ StateOK(d, m)'
      <3>1. CASE <<d, m>> # <<e, n>>
        <4>1. blocks'[<<d, m>>] = blocks[<<d, m>>] /\ PlaceOK(d, m) /\ StateOK(d, m)
          BY <2>0, <2>4, <2>6, <3>1 DEF BlockInv
        <4>. QED  BY <4>1, <2>5, SameBlock DEF rethVars, pipeVars
      <3>2. CASE d = e /\ m = n
        <4>1. PlaceOK(d, m)'
          <5>1. UNCHANGED <<current_epoch, boundary>> /\ e \in Nat /\ current_epoch \in Nat
            BY <2>0, Counts, NumberFacts DEF rethVars, pipeVars
          <5>2. d # 0 /\ d <= current_epoch /\ ~(d < current_epoch) /\ Base(d)' = Base(d)
            BY <3>2, <2>1, <5>1 DEF Base
          <5>. QED  BY <3>2, <5>1, <5>2 DEF PlaceOK
        <4>2. ParentOf(m)' = ParentOf(m)
          BY <2>5 DEF ParentOf, ExecutedId, rethVars, pipeVars
        <4>3. e = exec_epoch /\ n > Height => b.parent = ParentOf(n)
          BY <2>1, <2>2, OrderedParent
        <4>. QED  BY <3>2, <4>1, <4>2, <4>3, <2>2, <2>4, <2>5 DEF StateOK, rethVars, pipeVars
      <3>. QED  BY <3>1, <3>2
    <2>7. NotifyInv' /\ LastKept
      <3>1. ASSUME NEW d \in Epochs, Is(<<d, boundary[d]>>, "Committed")' \/ Is(<<d, boundary[d]>>, "Committed")
            PROVE  blocks'[<<d, boundary[d]>>] = blocks[<<d, boundary[d]>>]
        <4>1. boundary[d] \in Numbers
          BY <3>1, KeyFacts DEF Is, Present, rethVars, pipeVars
        <4>2. <<d, boundary[d]>> # <<e, n>>
          BY <3>1, <2>1, <2>2, <2>4 DEF Is, Present, rethVars, pipeVars
        <4>. QED  BY <4>1, <4>2, <2>4
      <3>2. LastKept
        BY <3>1 DEF LastKept, Is, Present, rethVars, pipeVars
      <3>3. NotifyInv'
        <4>. SUFFICES ASSUME NEW d \in Epochs, Is(<<d, boundary[d]>>, "Committed")'
                      PROVE  SenderAlive(<<d, boundary[d]>>)' \/ boundary[d] <= persisted
          BY DEF NotifyInv, rethVars, pipeVars
        <4>1. blocks'[<<d, boundary[d]>>] = blocks[<<d, boundary[d]>>] /\ UNCHANGED <<notifiers, boundary>>
          BY <3>1 DEF rethVars, commitVars, pipeVars
        <4>. QED  BY <4>1 DEF RethInv, NotifyInv, SenderAlive, Is, Present
      <3>. QED  BY <3>2, <3>3
    <2>8. \A d \in Epochs, m \in Numbers : blocks[<<d, m>>] # None => blocks'[<<d, m>>] = blocks[<<d, m>>]
      BY <2>1, <2>4
    <2>9. RethInv'
      BY <2>4, <2>6, <2>7, <2>8, MapStep
    <2>. QED  BY <2>4, <2>7, <2>9
  <1>. QED  BY <1>1, <1>2

LEMMA GetExecutedKeeps ==
  ASSUME RethInv, UNCHANGED rethVars, NEW e \in Epochs, NEW n \in Numbers,
         GetExecutedRes(e, n, Id(e, n))
  PROVE  /\ RethInv' /\ LastKept
         /\ \A d \in Epochs, m \in Numbers : blocks'[<<d, m>>] # None => blocks[<<d, m>>] # None
  <1>. USE DEF GetExecutedRes
  <1>1. CASE blocks' = blocks
    <2>1. UNCHANGED <<bufferVars, rethVars>>
      BY <1>1 DEF bufferVars
    <2>. QED  BY <1>1, <2>1, UnchangedStep
  <1>2. CASE blocks' # blocks
    <2>0. TypeInv /\ BlockInv /\ StageInv
      BY DEF RethInv
    <2>1. /\ blocks[<<e, n>>] # None /\ blocks[<<e, n>>].st = "Ordered" /\ IsSuffixBlock(n)
          /\ blocks' = [blocks EXCEPT ![<<e, n>>] = Computed(<<e, n>>, Dummy(epoch_change_info.epoch_state))]
      BY <1>2 DEF Is, Present, Id
    <2>2. Pending /\ n > Height /\ epoch_change_info.epoch_state = exec_epoch /\ epoch_change_info # None
      BY <2>0, <2>1, SuffixFacts
    <2>. DEFINE b == Computed(<<e, n>>, Dummy(exec_epoch))
    <2>3. /\ b.id = <<e, n>> /\ b.st = "Computed" /\ b.res = Dummy(exec_epoch) /\ b # None
      <3>1. exec_epoch \in Epochs
        BY <2>0 DEF TypeInv
      <3>2. b # None
        BY <3>1, StateFacts, ResultFacts, KeyFacts
      <3>. QED  BY <3>2 DEF Computed
    <2>4. /\ blocks' = [k \in Keys |-> blocks'[k]] /\ blocks'[<<e, n>>] = b
          /\ \A d \in Epochs, m \in Numbers : <<d, m>> # <<e, n>> => blocks'[<<d, m>>] = blocks[<<d, m>>]
      <3>1. blocks' = [blocks EXCEPT ![<<e, n>>] = b]
        BY <2>1, <2>2
      <3>. HIDE DEF b
      <3>2. blocks = [k \in Keys |-> blocks[k]] /\ <<e, n>> \in Keys
        BY <2>0, KeyFacts DEF TypeInv
      <3>3. blocks' = [k \in Keys |-> blocks'[k]] /\ blocks'[<<e, n>>] = b
        BY <3>1, <3>2
      <3>4. ASSUME NEW d \in Epochs, NEW m \in Numbers, <<d, m>> # <<e, n>>
            PROVE  blocks'[<<d, m>>] = blocks[<<d, m>>]
        <4>1. <<d, m>> \in Keys
          BY KeyFacts
        <4>. QED  BY <3>1, <3>2, <3>4, <4>1
      <3>. QED  BY <3>3, <3>4
    <2>. HIDE DEF b
    <2>5. Reported' = Reported /\ Height' = Height
      BY ReportedFrame DEF rethVars, pipeVars
    <2>6. PlaceOK(e, n) /\ e = exec_epoch - 1
      <3>1. PlaceOK(e, n)
        BY <2>0, <2>1 DEF BlockInv
      <3>2. current_epoch = exec_epoch - 1
        BY <2>2 DEF Pending, AtEnd
      <3>3. e \in Nat /\ n \in Nat /\ Height \in Nat /\ current_epoch \in Nat
        BY <2>0, Counts, NumberFacts
      <3>4. e <= current_epoch /\ (e < current_epoch => n <= Height)
        BY <3>1 DEF PlaceOK
      <3>5. n > Height
        BY <2>2
      <3>. QED  BY <3>1, <3>2, <3>3, <3>4, <3>5
    <2>7. ASSUME NEW d \in Epochs, NEW m \in Numbers, blocks'[<<d, m>>] # None
          PROVE  PlaceOK(d, m)' /\ StateOK(d, m)'
      <3>1. CASE <<d, m>> # <<e, n>>
        <4>1. blocks'[<<d, m>>] = blocks[<<d, m>>] /\ PlaceOK(d, m) /\ StateOK(d, m)
          BY <2>0, <2>4, <2>7, <3>1 DEF BlockInv
        <4>. QED  BY <4>1, <2>5, SameBlock DEF rethVars, pipeVars
      <3>2. CASE d = e /\ m = n
        <4>1. PlaceOK(d, m)'
          BY <3>2, <2>5, <2>6 DEF PlaceOK, rethVars, pipeVars, Base
        <4>2. Answered(d, m)'
          BY <3>2, <2>2, <2>3, <2>4, <2>5, <2>6 DEF Answered, rethVars, pipeVars
        <4>. QED  BY <3>2, <4>1, <4>2, <2>3, <2>4 DEF StateOK
      <3>. QED  BY <3>1, <3>2
    <2>8. ASSUME NEW d \in Epochs, Is(<<d, boundary[d]>>, "Committed")' \/ Is(<<d, boundary[d]>>, "Committed")
          PROVE  blocks'[<<d, boundary[d]>>] = blocks[<<d, boundary[d]>>]
      <3>1. boundary[d] \in Numbers
        BY <2>8, KeyFacts DEF Is, Present, rethVars, pipeVars
      <3>2. <<d, boundary[d]>> # <<e, n>>
        BY <2>8, <2>1, <2>3, <2>4 DEF Is, Present, rethVars, pipeVars
      <3>. QED  BY <3>1, <3>2, <2>4
    <2>9. LastKept
      BY <2>8 DEF LastKept, Is, Present, rethVars, pipeVars
    <2>10. NotifyInv'
      <3>. SUFFICES ASSUME NEW d \in Epochs, Is(<<d, boundary[d]>>, "Committed")'
                    PROVE  SenderAlive(<<d, boundary[d]>>)' \/ boundary[d] <= persisted
        BY DEF NotifyInv, rethVars, pipeVars
      <3>1. blocks'[<<d, boundary[d]>>] = blocks[<<d, boundary[d]>>] /\ UNCHANGED <<notifiers, boundary>>
        BY <2>8 DEF rethVars, commitVars, pipeVars
      <3>. QED  BY <3>1 DEF RethInv, NotifyInv, SenderAlive, Is, Present
    <2>11. \A d \in Epochs, m \in Numbers : blocks[<<d, m>>] # None => blocks'[<<d, m>>] # None
      BY <2>3, <2>4
    <2>12. \A d \in Epochs, m \in Numbers :
             blocks[<<d, m>>] # None /\ (epoch_change_info = None \/ m <= Height) =>
             blocks'[<<d, m>>] = blocks[<<d, m>>]
      <3>0. n \in Nat /\ Height \in Nat /\ n > Height
        BY <2>0, <2>2, Counts, NumberFacts
      <3>1. ~(n <= Height)
        BY <3>0
      <3>. QED  BY <3>1, <2>2, <2>4
    <2>13. RethInv'
      BY <2>4, <2>7, <2>10, <2>11, <2>12, MapStep
    <2>14. \A d \in Epochs, m \in Numbers : blocks'[<<d, m>>] # None => blocks[<<d, m>>] # None
      BY <2>1, <2>4
    <2>. QED  BY <2>9, <2>13, <2>14
  <1>. QED  BY <1>1, <1>2

\* The committer of the last block gets a notifier; a block that is not in the batch is left alone.
LEMMA SetCommitStep ==
  ASSUME RethInv, UNCHANGED rethVars, NEW e \in Epochs, NEW nums, nums \subseteq Nat, SetCommitBlocks(e, nums)
  PROVE  /\ RethInv'
         /\ \A d \in Epochs, m \in Numbers : blocks'[<<d, m>>] # None <=> blocks[<<d, m>>] # None
         /\ \A d \in Epochs : Is(<<d, boundary[d]>>, "Committed") => Is(<<d, boundary[d]>>, "Committed")'
         /\ \A d \in Epochs : Is(<<d, boundary[d]>>, "Committed")' =>
              \/ Is(<<d, boundary[d]>>, "Committed")
              \/ /\ d = e /\ Is(<<d, boundary[d]>>, "Computed") /\ NeedsNotifier(<<d, boundary[d]>>)
                 /\ boundary[d] \in nums
                 /\ \A m \in nums : m <= boundary[d] => ~CommitRejects(e, m, Id(e, m))
         /\ \A d \in Epochs : d = e /\ Is(<<d, boundary[d]>>, "Computed") /\ boundary[d] \in nums
                /\ ~SetCommitFails(e, nums) =>
              Is(<<d, boundary[d]>>, "Committed")' /\ <<d, boundary[d]>> \in CommitNotifiers(e, nums)
  <1>. DEFINE done == {n \in nums : \A m \in nums : m <= n => ~CommitRejects(e, m, Id(e, m))}
  <1>0. TypeInv /\ BlockInv /\ StageInv
    BY DEF RethInv
  <1>1. /\ blocks' = [k \in Keys |-> blocks'[k]]
        /\ \A d \in Epochs, m \in Numbers :
             blocks'[<<d, m>>] =
               IF d = e /\ m \in done /\ blocks[<<d, m>>] # None /\ blocks[<<d, m>>].st = "Computed"
               THEN Committed(blocks[<<d, m>>].id, blocks[<<d, m>>].res, NeedsNotifier(<<d, m>>))
               ELSE blocks[<<d, m>>]
        /\ UNCHANGED <<latest_commit, latest_finalized, current_epoch, next_epoch,
                       epoch_change_number, epoch_change_info, epoch_change_ready>>
    BY KeyFacts DEF SetCommitBlocks, Is, Present
  <1>. HIDE DEF done
  <1>2. Reported' = Reported /\ Height' = Height /\ UNCHANGED <<notifiers, boundary, persisted, executed, exec_epoch>>
    BY ReportedFrame DEF rethVars, pipeVars, commitVars
  <1>3. ASSUME NEW d \in Epochs, NEW m \in Numbers, blocks[<<d, m>>] # None, blocks[<<d, m>>].st = "Computed"
        PROVE  Committed(blocks[<<d, m>>].id, blocks[<<d, m>>].res, NeedsNotifier(<<d, m>>)) # None
    <2>1. StateOK(d, m) /\ PlaceOK(d, m)
      BY <1>0, <1>3 DEF BlockInv
    <2>2. Answered(d, m) /\ blocks[<<d, m>>].id = <<d, m>>
      BY <1>3, <2>1 DEF StateOK
    <2>3. blocks[<<d, m>>].res \in ComputeResults
      <3>1. m = 0 => ~Answered(d, m)
        BY <1>0, Counts DEF Answered
      <3>2. d >= 1
        BY <2>1, <2>2, <3>1, NumberFacts DEF PlaceOK
      <3>3. NewEpoch(d, m) \in Epochs \cup {None} /\ exec_epoch \in Epochs
        BY <3>2, <1>0, BoundaryFacts, NumberFacts DEF NewEpoch, TypeInv
      <3>. QED  BY <2>2, <3>3, ResultFacts DEF Answered
    <2>4. NeedsNotifier(<<d, m>>) \in BOOLEAN
      BY DEF NeedsNotifier
    <2>. QED  BY <2>2, <2>3, <2>4, StateFacts, KeyFacts
  <1>4. ASSUME NEW d \in Epochs, NEW m \in Numbers
        PROVE  /\ blocks'[<<d, m>>] # None <=> blocks[<<d, m>>] # None
               /\ blocks[<<d, m>>] # None =>
                    /\ blocks'[<<d, m>>].id = blocks[<<d, m>>].id
                    /\ blocks'[<<d, m>>] = blocks[<<d, m>>] \/
                         (/\ blocks[<<d, m>>].st = "Computed" /\ blocks'[<<d, m>>].st = "Committed"
                          /\ blocks'[<<d, m>>].res = blocks[<<d, m>>].res)
    <2>1. CASE d = e /\ m \in done /\ blocks[<<d, m>>] # None /\ blocks[<<d, m>>].st = "Computed"
      <3>1. blocks'[<<d, m>>] = Committed(blocks[<<d, m>>].id, blocks[<<d, m>>].res, NeedsNotifier(<<d, m>>))
        BY <2>1, <1>1
      <3>2. blocks'[<<d, m>>] # None
        BY <2>1, <3>1, <1>3
      <3>. QED  BY <2>1, <3>1, <3>2 DEF Committed
    <2>2. CASE ~(d = e /\ m \in done /\ blocks[<<d, m>>] # None /\ blocks[<<d, m>>].st = "Computed")
      BY <2>2, <1>1
    <2>. QED  BY <2>1, <2>2
  <1>5. ASSUME NEW d \in Epochs, NEW m \in Numbers, blocks'[<<d, m>>] # None
        PROVE  PlaceOK(d, m)' /\ StateOK(d, m)'
    <2>1. blocks[<<d, m>>] # None /\ PlaceOK(d, m) /\ StateOK(d, m)
      BY <1>0, <1>4, <1>5 DEF BlockInv
    <2>2. CASE blocks'[<<d, m>>] = blocks[<<d, m>>]
      BY <2>1, <2>2, <1>1, <1>2, SameBlock
    <2>3. CASE /\ blocks[<<d, m>>].st = "Computed" /\ blocks'[<<d, m>>].st = "Committed"
               /\ blocks'[<<d, m>>].res = blocks[<<d, m>>].res
      <3>1. PlaceOK(d, m)'
        BY <2>1, <1>1, <1>2 DEF PlaceOK, Base
      <3>2. Answered(d, m)'
        BY <2>1, <2>3, <1>1, <1>2 DEF StateOK, Answered, NewEpoch
      <3>3. blocks'[<<d, m>>].id = <<d, m>>
        BY <1>4, <2>1 DEF StateOK
      <3>. QED  BY <2>3, <3>1, <3>2, <3>3 DEF StateOK
    <2>. QED  BY <1>4, <2>1, <2>2, <2>3
  <1>6. ASSUME NEW d \in Epochs, Is(<<d, boundary[d]>>, "Computed")
        PROVE  NeedsNotifier(<<d, boundary[d]>>) /\ boundary[d] \in Numbers
    <2>1. /\ boundary[d] <= Reported /\ blocks[<<d, boundary[d]>>].res = Executed(d + 1)
          /\ boundary[d] \in Numbers /\ d + 1 \in Epochs
      BY <1>0, <1>6, LastExecuted DEF Is
    <2>2. Executed(d + 1).epoch_state # None
      BY <2>1, NumberFacts DEF Executed
    <2>3. ~IsSuffixBlock(boundary[d])
      <3>1. boundary[d] \in Nat /\ boundary[d] <= Height /\ Height \in Nat
        <4>1. boundary[d] \in Nat
          BY <2>1, NumberFacts
        <4>2. Reported \in Int /\ Reported <= Height /\ Height \in Nat
          BY <1>0, Counts
        <4>. QED  BY <2>1, <4>1, <4>2
      <3>. QED  BY <1>0, <3>1, SuffixFacts
    <2>. QED  BY <2>1, <2>2, <2>3, KeyFacts DEF NeedsNotifier
  <1>7. ASSUME NEW d \in Epochs, Is(<<d, boundary[d]>>, "Committed")', ~Is(<<d, boundary[d]>>, "Committed")
        PROVE  /\ d = e /\ boundary[d] \in done /\ Is(<<d, boundary[d]>>, "Computed")
               /\ SenderAlive(<<d, boundary[d]>>)'
    <2>1. boundary[d] \in Numbers /\ blocks'[<<d, boundary[d]>>] # None
          /\ blocks'[<<d, boundary[d]>>].st = "Committed"
      BY <1>2, <1>7, KeyFacts DEF Is, Present
    <2>2. blocks[<<d, boundary[d]>>] # None /\ blocks'[<<d, boundary[d]>>] # blocks[<<d, boundary[d]>>]
      BY <1>4, <1>7, <2>1, KeyFacts DEF Is, Present
    <2>3. /\ d = e /\ boundary[d] \in done /\ Is(<<d, boundary[d]>>, "Computed")
          /\ blocks'[<<d, boundary[d]>>] = Committed(blocks[<<d, boundary[d]>>].id,
               blocks[<<d, boundary[d]>>].res, NeedsNotifier(<<d, boundary[d]>>))
      BY <1>1, <2>1, <2>2, KeyFacts DEF Is, Present
    <2>4. NeedsNotifier(<<d, boundary[d]>>)
      BY <1>6, <2>3
    <2>5. blocks'[<<d, boundary[d]>>].persist_notifier
      BY <2>3, <2>4 DEF Committed
    <2>. QED  BY <1>2, <1>7, <2>3, <2>5 DEF SenderAlive
  <1>8. ASSUME NEW d \in Epochs, Is(<<d, boundary[d]>>, "Committed")
        PROVE  blocks'[<<d, boundary[d]>>] = blocks[<<d, boundary[d]>>] /\ Is(<<d, boundary[d]>>, "Committed")'
    <2>1. boundary[d] \in Numbers /\ blocks[<<d, boundary[d]>>] # None
          /\ blocks[<<d, boundary[d]>>].st = "Committed"
      BY <1>8, KeyFacts DEF Is, Present
    <2>2. blocks'[<<d, boundary[d]>>] = blocks[<<d, boundary[d]>>]
      BY <1>4, <2>1
    <2>. QED  BY <1>2, <1>8, <2>2 DEF Is, Present
  <1>9. NotifyInv'
    <2>. SUFFICES ASSUME NEW d \in Epochs, Is(<<d, boundary[d]>>, "Committed")'
                  PROVE  SenderAlive(<<d, boundary[d]>>)' \/ boundary[d] <= persisted
      BY <1>2 DEF NotifyInv
    <2>1. CASE Is(<<d, boundary[d]>>, "Committed")
      BY <2>1, <1>2, <1>8 DEF RethInv, NotifyInv, SenderAlive, Is, Present
    <2>2. CASE ~Is(<<d, boundary[d]>>, "Committed")
      BY <2>2, <1>7
    <2>. QED  BY <2>1, <2>2
  <1>10. RethInv'
    <2>1. \A d \in Epochs, m \in Numbers : blocks[<<d, m>>] # None => blocks'[<<d, m>>] # None
      BY <1>4
    <2>2. \A d \in Epochs, m \in Numbers : blocks[<<d, m>>] # None /\ blocks[<<d, m>>].st = "Ordered" =>
            blocks'[<<d, m>>] # None /\ blocks'[<<d, m>>].st = "Ordered"
      BY <1>4
    <2>. QED  BY <1>1, <1>5, <1>9, <2>1, <2>2, MapStep
  <1>11. ASSUME NEW d \in Epochs, Is(<<d, boundary[d]>>, "Committed")', ~Is(<<d, boundary[d]>>, "Committed")
         PROVE  /\ d = e /\ Is(<<d, boundary[d]>>, "Computed") /\ NeedsNotifier(<<d, boundary[d]>>)
                /\ boundary[d] \in nums /\ \A m \in nums : m <= boundary[d] => ~CommitRejects(e, m, Id(e, m))
    BY <1>6, <1>7, <1>11 DEF done
  <1>12. ASSUME NEW d \in Epochs, d = e, Is(<<d, boundary[d]>>, "Computed"), boundary[d] \in nums, ~SetCommitFails(e, nums)
         PROVE  Is(<<d, boundary[d]>>, "Committed")' /\ <<d, boundary[d]>> \in CommitNotifiers(e, nums)
    <2>1. boundary[d] \in done
      BY <1>12 DEF done, SetCommitFails
    <2>2. boundary[d] \in Numbers /\ NeedsNotifier(<<d, boundary[d]>>)
      BY <1>6, <1>12
    <2>3. blocks'[<<d, boundary[d]>>] = Committed(blocks[<<d, boundary[d]>>].id,
               blocks[<<d, boundary[d]>>].res, NeedsNotifier(<<d, boundary[d]>>))
      BY <1>1, <1>12, <2>1, <2>2 DEF Is, Present
    <2>4. blocks'[<<d, boundary[d]>>] # None
      BY <1>4, <1>12, <2>2 DEF Is, Present
    <2>5. Is(<<d, boundary[d]>>, "Committed")'
      <3>1. blocks'[<<d, boundary[d]>>].st = "Committed"
        BY <2>3 DEF Committed
      <3>. QED  BY <1>2, <2>2, <2>4, <3>1, KeyFacts DEF Is, Present
    <2>. QED  BY <1>12, <2>2, <2>5 DEF CommitNotifiers
  <1>. QED  BY <1>4, <1>8, <1>10, <1>11, <1>12

\* release_inflight_blocks keeps every executed block and moves on to the epoch reth executes in.
LEMMA ReleaseStep ==
  ASSUME RethInv, UNCHANGED rethVars, ReleaseInflightBlocks
  PROVE  /\ RethInv' /\ LastKept
         /\ \A d \in Epochs, m \in Numbers : blocks'[<<d, m>>] # None => blocks[<<d, m>>] # None
         /\ Early' => Early
         /\ Pending => current_epoch' = exec_epoch
  <1>0. TypeInv /\ StageInv /\ BlockInv /\ ExecInv /\ FoundInv /\ ResultInv /\ PipeInv /\ CommitInv
    BY DEF RethInv
  <1>u. UNCHANGED <<reth_epoch, start_ordered_block, exec_pc, consumed, vote, start_commit_num, commit_pc,
                    commit_epoch, notifiers, down, pipe, executed, exec_epoch, results, delivered, persisted,
                    boundary>>
    BY DEF rethVars, execVars, commitVars, pipeVars
  <1>1. CASE ~PendingEpochChange
    <2>1. UNCHANGED <<bufferVars, rethVars>>
      BY <1>1 DEF ReleaseInflightBlocks
    <2>2. ~Pending
      BY <1>0, <1>1, NumberFacts DEF PendingEpochChange, Pending, TypeInv
    <2>3. Early' => Early
      BY <2>1, <1>u, ReportedFrame DEF Early, Idle, NoChange, bufferVars
    <2>. QED  BY <2>1, <2>2, <2>3, UnchangedStep DEF bufferVars
  <1>2. CASE PendingEpochChange
    <2>. USE <1>u
    <2>1. Pending \/ Released
      BY <1>0, <1>2 DEF StageInv, Reading, Reporting, Following, Booting, Early, Idle, NoChange, PendingEpochChange
    <2>2. /\ AtEnd /\ epoch_change_number = Height /\ Reported = Height /\ reth_epoch # exec_epoch
          /\ Height \in Nat /\ exec_epoch \in Nat /\ exec_epoch \in Epochs
          /\ Height' = Height /\ Reported' = Reported
      <3>1. exec_epoch \in Nat /\ Height \in Nat /\ exec_epoch \in Epochs
        BY <1>0, Counts DEF TypeInv
      <3>. QED  BY <2>1, <3>1, ReportedFrame DEF Pending, Released, AtEnd
    <2>3. /\ current_epoch' = exec_epoch /\ next_epoch' = None /\ epoch_change_info' = None
          /\ epoch_change_ready' = TRUE
          /\ UNCHANGED <<latest_commit, latest_finalized, epoch_change_number>>
      <3>1. exec_epoch # None
        BY <2>2, NumberFacts
      <3>. QED  BY <2>1, <3>1, <1>2 DEF ReleaseInflightBlocks, Pending, Released
    <2>4. /\ blocks' = [k \in Keys |-> blocks'[k]]
          /\ \A d \in Epochs, m \in Numbers :
               blocks'[<<d, m>>] = IF m <= Height THEN blocks[<<d, m>>] ELSE None
      BY <1>2, <2>2, KeyFacts DEF ReleaseInflightBlocks
    <2>5. TypeInv'
      BY <1>0, <2>2, <2>3, <2>4 DEF TypeInv
    <2>6. StageInv'
      <3>1. exec_pc \in {"fetch", "consume"}
        BY <2>1 DEF Pending, Released
      <3>. QED  BY <2>2, <2>3, <3>1 DEF StageInv, Released, AtEnd
    <2>7. BlockInv'
      <3>. SUFFICES ASSUME NEW d \in Epochs, NEW m \in Numbers, blocks'[<<d, m>>] # None
                    PROVE  PlaceOK(d, m)' /\ StateOK(d, m)'
        BY DEF BlockInv
      <3>1. m <= Height /\ blocks'[<<d, m>>] = blocks[<<d, m>>] /\ PlaceOK(d, m) /\ StateOK(d, m)
            /\ d \in Nat /\ m \in Nat
        BY <1>0, <2>4, NumberFacts DEF BlockInv
      <3>2. PlaceOK(d, m)'
        <4>1. current_epoch = exec_epoch \/ current_epoch = exec_epoch - 1
          BY <2>1 DEF Pending, Released, AtEnd
        <4>2. Height = boundary[exec_epoch - 1]
          BY <2>2 DEF AtEnd
        <4>. QED  BY <2>2, <2>3, <3>1, <4>1, <4>2 DEF PlaceOK, Base
      <3>3. Answered(d, m) => Answered(d, m)'
        BY <2>2, <3>1 DEF Answered, NewEpoch
      <3>. QED  BY <2>2, <3>1, <3>2, <3>3 DEF StateOK
    <2>8. FoundInv'
      <3>. SUFFICES ASSUME NEW n \in 1 .. Height, n >= latest_finalized PROVE blocks'[executed[n]] # None
        BY <2>2, <2>3 DEF FoundInv
      <3>1. PICK d \in 1 .. exec_epoch : executed[n] = <<d, n>>
        BY <1>0 DEF ExecInv
      <3>2. d \in Epochs
        BY <2>2, NumberFacts
      <3>3. n \in Numbers /\ n <= Height
        BY <1>0, <2>2, NumberFacts DEF ExecInv
      <3>. QED  BY <1>0, <2>4, <3>1, <3>2, <3>3 DEF FoundInv
    <2>9. UnreportedInv'
      BY <2>2 DEF UnreportedInv
    <2>10. PipeInv'
      <3>1. Fresh = 0 /\ Fresh' = 0 /\ Stale' = Stale /\ \A m : FreshBlock(m)' = FreshBlock(m)
        BY <2>2 DEF Fresh, Stale, FreshBlock, ParentOf, ExecutedId
      <3>. QED  BY <1>0, <2>2, <3>1, NumberFacts DEF PipeInv
    <2>11. ExecInv' /\ ResultInv' /\ CommitInv'
      BY <1>0, <2>2, <2>3, ExecFrame, ResultFrame, CommitFrame
    <2>12. ASSUME NEW d \in Epochs
           PROVE  Is(<<d, boundary[d]>>, "Committed") <=> Is(<<d, boundary[d]>>, "Committed")'
      <3>1. ASSUME Is(<<d, boundary[d]>>, "Committed") PROVE boundary[d] <= Height /\ boundary[d] \in Numbers
        BY <1>0, <2>2, <3>1, LastExecuted DEF Is
      <3>2. CASE boundary[d] \in Numbers
        BY <2>4, <3>1, <3>2 DEF Is, Present
      <3>3. CASE boundary[d] \notin Numbers
        BY <3>3, KeyFacts DEF Is, Present
      <3>. QED  BY <3>2, <3>3
    <2>13. NotifyInv'
      <3>. SUFFICES ASSUME NEW d \in Epochs, Is(<<d, boundary[d]>>, "Committed")'
                    PROVE  SenderAlive(<<d, boundary[d]>>)' \/ boundary[d] <= persisted
        BY DEF NotifyInv
      <3>1. boundary[d] \in Numbers /\ blocks'[<<d, boundary[d]>>] # None
        BY KeyFacts DEF Is, Present
      <3>2. blocks'[<<d, boundary[d]>>] = blocks[<<d, boundary[d]>>]
        BY <2>4, <3>1
      <3>. QED  BY <2>12, <3>2 DEF RethInv, NotifyInv, SenderAlive, Is, Present
    <2>14. LastKept
      BY <2>12 DEF LastKept
    <2>15. ~Early'
      BY <2>3, <2>2 DEF Early
    <2>16. \A d \in Epochs, m \in Numbers : blocks'[<<d, m>>] # None => blocks[<<d, m>>] # None
      BY <2>4
    <2>. QED  BY <2>3, <2>5, <2>6, <2>7, <2>8, <2>9, <2>10, <2>11, <2>13, <2>14, <2>15, <2>16 DEF RethInv
  <1>. QED  BY <1>1, <1>2
=============================================================================
