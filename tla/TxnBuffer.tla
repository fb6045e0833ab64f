------------------------------ MODULE TxnBuffer ------------------------------
(***************************************************************************)
(* The transaction buffer of the block buffer manager (push_txns,          *)
(* pop_txns) and the handshake by which its callers wait for init          *)
(* (wait_until_ready).  A batch is its gas limit and an identity; a        *)
(* waiter is a call of a method that begins with wait_until_ready.         *)
(***************************************************************************)
EXTENDS Integers, Sequences, FiniteSets, SequencesExt

CONSTANTS
  Waiters,       \* calls that wait for the buffer
  GasLimits,     \* gas limits of batches
  BlockGas,      \* the gas limits that pop_txns is called with
  BlockSizes,    \* its max_size, a number of batches
  MaxBatches     \* bound: batches that are pushed

VARIABLES
  txns,          \* the buffered batches: [id, gas]
  pushed,        \* how many were pushed
  popped,        \* the ids that pop_txns returned, in order
  last,          \* the last call of pop_txns: [before, taken, gas, size], or <<>>
  buffer_state,  \* "Uninitialized" or "Ready"
  initialised,   \* the fields that init assigns under the lock
  enabled,       \* the waiters whose Notified is enabled
  notified,      \* and those of them that notify_waiters has woken
  init_pc,       \* where init is
  pc             \* waiter -> where it is

buffer == <<txns, pushed, popped, last>>
ready == <<buffer_state, initialised, enabled, notified, init_pc, pc>>
vars == <<buffer, ready>>

Init ==
  /\ txns = <<>> /\ pushed = 0 /\ popped = <<>> /\ last = <<>>
  /\ buffer_state = "Uninitialized" /\ initialised = FALSE
  /\ enabled = {} /\ notified = {}
  /\ init_pc = "start"
  /\ pc = [w \in Waiters |-> "check"]

----------------------------------------------------------------------------
(* The transactions                                                        *)

PushTxns(gas) ==
  /\ pushed < MaxBatches
  /\ txns' = Append(txns, [id |-> pushed + 1, gas |-> gas])
  /\ pushed' = pushed + 1
  /\ UNCHANGED <<popped, last, ready>>

\* The closure of position(): what it has added up before item i, as long as it has not stopped.
GasBefore(s, i) == FoldLeft(LAMBDA sum, item : sum + item.gas, 0, SubSeq(s, 1, i - 1))

Stops(s, i, max_size, gas_limit) ==
  GasBefore(s, i) + s[i].gas > gas_limit \/ i - 1 >= max_size

\* How many items are before the first at which it stops.
SplitPoint(s, max_size, gas_limit) ==
  LET stop == {i \in DOMAIN s : Stops(s, i, max_size, gas_limit)} IN
  IF stop = {} THEN Len(s) ELSE (CHOOSE i \in stop : \A j \in stop : i <= j) - 1

\* One batch is taken if the first is over the limit.
Drained(s, max_size, gas_limit) ==
  LET split == SplitPoint(s, max_size, gas_limit) IN
  IF split = 0 /\ s # <<>> /\ max_size > 0 THEN 1 ELSE split

PopTxns(max_size, gas_limit) ==
  LET n == Drained(txns, max_size, gas_limit) IN
  /\ txns' = SubSeq(txns, n + 1, Len(txns))
  /\ popped' = popped \o [i \in 1 .. n |-> txns[i].id]
  /\ last' = [before |-> txns, taken |-> n, gas |-> gas_limit, size |-> max_size]
  /\ UNCHANGED <<pushed, ready>>

----------------------------------------------------------------------------
(* init                                                                    *)

\* The fields, under the lock (a map without the committed block was rejected before that, and
\* nothing has changed then) ...
InitFields ==
  /\ init_pc = "start"
  /\ initialised' = TRUE
  /\ init_pc' = "store"
  /\ UNCHANGED <<buffer, buffer_state, enabled, notified, pc>>

\* ... then the state ...
InitStore ==
  /\ init_pc = "store"
  /\ buffer_state' = "Ready"
  /\ init_pc' = "notify"
  /\ UNCHANGED <<buffer, initialised, enabled, notified, pc>>

\* ... and notify_waiters, which wakes those that are enabled.
InitNotify ==
  /\ init_pc = "notify"
  /\ notified' = enabled
  /\ init_pc' = "done"
  /\ UNCHANGED <<buffer, buffer_state, initialised, enabled, pc>>

----------------------------------------------------------------------------
(* wait_until_ready                                                        *)

is_ready == buffer_state # "Uninitialized"

\* The condition of the loop.
Check(w) ==
  /\ pc[w] = "check"
  /\ pc' = [pc EXCEPT ![w] = IF is_ready THEN "done" ELSE "enable"]
  /\ UNCHANGED <<buffer, buffer_state, initialised, enabled, notified, init_pc>>

Enable(w) ==
  /\ pc[w] = "enable"
  /\ enabled' = enabled \cup {w}
  /\ pc' = [pc EXCEPT ![w] = "recheck"]
  /\ UNCHANGED <<buffer, buffer_state, initialised, notified, init_pc>>

Recheck(w) ==
  /\ pc[w] = "recheck"
  /\ pc' = [pc EXCEPT ![w] = IF is_ready THEN "done" ELSE "await"]
  /\ UNCHANGED <<buffer, buffer_state, initialised, enabled, notified, init_pc>>

Await(w) ==
  /\ pc[w] = "await"
  /\ w \in notified
  /\ enabled' = enabled \ {w} /\ notified' = notified \ {w}
  /\ pc' = [pc EXCEPT ![w] = "check"]
  /\ UNCHANGED <<buffer, buffer_state, initialised, init_pc>>

Next ==
  \/ \E gas \in GasLimits : PushTxns(gas)
  \/ \E max_size \in BlockSizes, gas_limit \in BlockGas : PopTxns(max_size, gas_limit)
  \/ InitFields \/ InitStore \/ InitNotify
  \/ \E w \in Waiters : Check(w) \/ Enable(w) \/ Recheck(w) \/ Await(w)

Spec == Init /\ [][Next]_vars

\* The bootstrap initialises the manager, every call is polled, and the reader of transactions
\* comes again with room for a batch.
FairSpec ==
  /\ Spec
  /\ WF_vars(InitFields) /\ WF_vars(InitStore) /\ WF_vars(InitNotify)
  /\ \A w \in Waiters : WF_vars(Check(w) \/ Enable(w) \/ Recheck(w) \/ Await(w))
  /\ WF_vars(\E max_size \in BlockSizes \ {0}, gas_limit \in BlockGas : PopTxns(max_size, gas_limit))

----------------------------------------------------------------------------
(* Properties *)

Ids == 1 .. MaxBatches

TypeOK ==
  /\ txns \in Seq([id : Ids, gas : GasLimits])
  /\ pushed \in 0 .. MaxBatches
  /\ buffer_state \in {"Uninitialized", "Ready"} /\ initialised \in BOOLEAN
  /\ enabled \subseteq Waiters /\ notified \subseteq enabled
  /\ pc \in [Waiters -> {"check", "enable", "recheck", "await", "done"}]

\* The reference for pop_txns: the batches that are taken are a largest prefix within the limits
\* of gas and size; a first batch over the gas limit is taken alone ("GSDK-024: Fixed
\* off-by-one - account for every item's gas uniformly").
Within(s, n, max_size, gas_limit) ==
  n <= max_size /\ FoldLeft(LAMBDA sum, item : sum + item.gas, 0, SubSeq(s, 1, n)) <= gas_limit

LargestPrefix ==
  last # <<>> =>
    LET s == last.before IN
    \/ /\ Within(s, last.taken, last.size, last.gas)
       /\ \A n \in last.taken + 1 .. Len(s) : ~Within(s, n, last.size, last.gas)
       /\ last.taken = 0 => s = <<>> \/ last.size = 0
    \/ last.taken = 1 /\ s[1].gas > last.gas /\ last.size > 0

\* No batch is lost, doubled or overtaken: what was popped and what is buffered are the batches
\* in the order of push_txns.
InOrder == popped \o [i \in DOMAIN txns |-> txns[i].id] = [i \in 1 .. pushed |-> i]

\* A caller goes on only when the manager is initialised (the state is stored after the fields).
ReadyMeansInitialised == \A w \in Waiters : pc[w] = "done" => initialised
=============================================================================
