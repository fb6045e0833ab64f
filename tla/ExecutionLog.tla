---------------------------- MODULE ExecutionLog ----------------------------
(***************************************************************************)
(* What the Gravity Consensus Engine Interface promises, without the       *)
(* buffer, the tasks and the retries: one node executes one chain, is told *)
(* to commit prefixes of what it executed, persists prefixes of what it    *)
(* was told, and its consensus leaves an epoch when the epoch's last block *)
(* is on disk.                                                             *)
(***************************************************************************)
EXTENDS Integers, Sequences

VARIABLES
  log,        \* ids of the executed blocks: the epoch and the number of each
  told,       \* the prefix of them reth was told to commit
  disk,       \* how many of those are on disk
  log_epoch,  \* the epoch blocks are executed in
  epoch,      \* the epoch consensus is in
  boundary    \* the last block of each epoch

vars == <<log, told, disk, log_epoch, epoch, boundary>>

Init ==
  /\ told = log /\ disk = Len(log)
  /\ log_epoch = epoch

\* The next block; a reconfiguration block starts the next epoch of execution.
Execute ==
  LET n == Len(log) + 1 IN
  /\ log' = Append(log, <<log_epoch, n>>)
  /\ log_epoch' = IF n = boundary[log_epoch] THEN log_epoch + 1 ELSE log_epoch
  /\ UNCHANGED <<told, disk, epoch, boundary>>

Deliver ==
  /\ \E n \in Len(told) + 1 .. Len(log) : told' = SubSeq(log, 1, n)
  /\ UNCHANGED <<log, disk, log_epoch, epoch, boundary>>

Persist ==
  /\ disk < Len(told)
  /\ disk' = disk + 1
  /\ UNCHANGED <<log, told, log_epoch, epoch, boundary>>

EnterEpoch ==
  /\ disk >= boundary[epoch]
  /\ epoch' = epoch + 1
  /\ UNCHANGED <<log, told, disk, log_epoch, boundary>>

Next == Execute \/ Deliver \/ Persist \/ EnterEpoch

Spec == Init /\ [][Next]_vars
=============================================================================
