---------------------------- MODULE PayloadManager ----------------------------
(***************************************************************************)
(* How the batches of one block become its transactions                    *)
(* (QuorumStorePayloadManager in payload_manager.rs, Payload in            *)
(* consensus-types).  The parts of a payload, one or two, have a status    *)
(* that every copy of the block shares: nothing, requests for the batches, *)
(* or the data.  Whoever wants the transactions takes the status, waits    *)
(* for the answers and puts back what came of it, while others look at it: *)
(* prefetch_payload_data when the proposal is verified and when the block  *)
(* is inserted, the round manager that waits for a second until it votes,  *)
(* execution, and recovery.                                                *)
(*                                                                         *)
(* What an answer is comes from BatchStore: the batch, an error, or none   *)
(* when the epoch ended.                                                   *)
(***************************************************************************)
EXTENDS Integers, Sequences

CONSTANTS
  Payload,       \* part -> sequence of its batches: those without proof first, if there are such
  Inline,        \* sequence of the batches that the block carries itself
  Unproved,      \* the parts whose batches have no proof (opt_batches)
  ExpiredBatches, \* batches that expired before the block's timestamp
  Recovering,    \* whether the block is read from the database when the node starts
  MaxFailures,   \* bound on the answers that are errors
  MaxAttempts    \* bound on the attempts of execution

Parts == DOMAIN Payload
Batches == UNION {{Payload[p][i] : i \in DOMAIN Payload[p]} : p \in Parts}
BlockReaders == {"wait", "execute", "recover"}

VARIABLES
  status,      \* part -> [kind, data]: "none", "requested" and what, or "cached" and what
  prefetch,    \* who prefetches -> where it is: [pc, part]
  reader,      \* reader -> [pc, part, left, got, all]
  stored,      \* batches that the batch store has
  proposal,    \* the round manager: "new", "waits", "votes", "refused"
  cancelled,   \* parts whose status a wait that timed out had taken
  returned,    \* what get_transactions returned to each reader last
  failures, attempts

vars == <<status, prefetch, reader, stored, proposal, cancelled, returned, failures, attempts>>

None == [kind |-> "none", data |-> <<>>]
Requested(batches) == [kind |-> "requested", data |-> batches]
Cached(batches) == [kind |-> "cached", data |-> batches]
Idle == [pc |-> "idle", part |-> 1, left |-> <<>>, got |-> <<>>, all |-> <<>>]
NoAnswer == <<"none">>
Error == <<"error">>

\* request_transactions: batches that expired are skipped.
RequestTransactions(p) == Requested(SelectSeq(Payload[p], LAMBDA b : b \notin ExpiredBatches))

\* "Could not get all data so requested again".
RequestAgain(r) == RequestTransactions(reader[r].part)

----------------------------------------------------------------------------
(* prefetch_payload_data, part by part: the status is looked at, and set later. *)

PrefetchAt(w, pc) == prefetch[w].pc = pc
PrefetchTo(w, pc, part) == prefetch' = [prefetch EXCEPT ![w] = [pc |-> pc, part |-> part]]
NextPart(w) == IF prefetch[w].part + 1 \in Parts
               THEN PrefetchTo(w, "check", prefetch[w].part + 1) ELSE PrefetchTo(w, "done", 1)

\* The proposal is verified first; then the block is inserted, from the proposal or by a sync.
PrefetchStart(w) ==
  /\ PrefetchAt(w, "idle")
  /\ w = "verify" => ~ Recovering
  /\ w = "insert" => PrefetchAt("verify", "done")
  /\ PrefetchTo(w, "check", 1)
  /\ UNCHANGED <<status, reader, stored, proposal, cancelled, returned, failures, attempts>>

PrefetchCheck(w) ==
  /\ PrefetchAt(w, "check")
  /\ IF status[prefetch[w].part].kind # "none" THEN NextPart(w) ELSE PrefetchTo(w, "request", prefetch[w].part)
  /\ UNCHANGED <<status, reader, stored, proposal, cancelled, returned, failures, attempts>>

PrefetchRequest(w) ==
  /\ PrefetchAt(w, "request")
  /\ status' = [status EXCEPT ![prefetch[w].part] = RequestTransactions(prefetch[w].part)]
  /\ NextPart(w)
  /\ UNCHANGED <<reader, stored, proposal, cancelled, returned, failures, attempts>>

----------------------------------------------------------------------------
(* get_transactions: process_payload for each part, then the inlined batches. *)

Begin(r) == reader' = [reader EXCEPT ![r] = [Idle EXCEPT !.pc = "take"]]

Return(r, answer) ==
  /\ returned' = [returned EXCEPT ![r] = answer]
  /\ reader' = [reader EXCEPT ![r] = Idle]

\* A part is done: the next one, or all the transactions.
PartDone(r, data) ==
  LET all == reader[r].all \o data
  IN IF reader[r].part + 1 \in Parts
     THEN /\ reader' = [reader EXCEPT ![r] = [pc |-> "take", part |-> reader[r].part + 1, left |-> <<>>,
                                              got |-> <<>>, all |-> all]]
          /\ UNCHANGED returned
     ELSE Return(r, all \o Inline)

\* The status is taken. If there is none, "Payload status not initialized".
Take(r) ==
  /\ reader[r].pc = "take"
  /\ LET p == reader[r].part
     IN /\ status' = [status EXCEPT ![p] = None]
        /\ CASE status[p].kind = "none" -> Return(r, Error)
             [] status[p].kind = "cached" ->
                  /\ reader' = [reader EXCEPT ![r].pc = "put_back", ![r].got = status[p].data]
                  /\ UNCHANGED returned
             [] OTHER ->
                  /\ reader' = [reader EXCEPT ![r].pc = "await", ![r].left = status[p].data, ![r].got = <<>>]
                  /\ UNCHANGED returned
  /\ UNCHANGED <<prefetch, stored, proposal, cancelled, failures, attempts>>

\* The answer to the next request. After an error all is requested again.
AwaitBatch(r) ==
  /\ reader[r].pc = "await" /\ reader[r].left # <<>>
  /\ \/ /\ stored' = stored \cup {Head(reader[r].left)}
        /\ reader' = [reader EXCEPT ![r].got = Append(@, Head(reader[r].left)), ![r].left = Tail(@)]
        /\ UNCHANGED <<status, returned, failures>>
     \/ /\ failures < MaxFailures
        /\ failures' = failures + 1
        /\ status' = [status EXCEPT ![reader[r].part] = RequestAgain(r)]
        /\ Return(r, Error)
        /\ UNCHANGED stored
  /\ UNCHANGED <<prefetch, proposal, cancelled, attempts>>

\* The data is cached for who asks next.
PutBack(r) ==
  /\ reader[r].pc = "put_back" \/ (reader[r].pc = "await" /\ reader[r].left = <<>>)
  /\ status' = [status EXCEPT ![reader[r].part] = Cached(reader[r].got)]
  /\ PartDone(r, reader[r].got)
  /\ UNCHANGED <<prefetch, stored, proposal, cancelled, failures, attempts>>

----------------------------------------------------------------------------
(* Who reads. *)

\* A batch arrives from its author.
BatchArrives(b) ==
  /\ b \notin stored
  /\ stored' = stored \cup {b}
  /\ UNCHANGED <<status, prefetch, reader, proposal, cancelled, returned, failures, attempts>>

\* check_payload_availability: of the batches without proof, each is here.
CheckPayloadAvailability ==
  \A p \in Unproved : \A i \in DOMAIN Payload[p] : Payload[p][i] \in stored

\* process_proposal.
ProcessProposal ==
  /\ proposal = "new" /\ PrefetchAt("verify", "done")
  /\ IF CheckPayloadAvailability
     THEN proposal' = "votes" /\ UNCHANGED reader
     ELSE proposal' = "waits" /\ Begin("wait")
  /\ UNCHANGED <<status, prefetch, stored, cancelled, returned, failures, attempts>>

\* wait_for_payload returned.
Waited ==
  /\ proposal = "waits" /\ reader["wait"].pc = "idle"
  /\ proposal' = IF returned["wait"] = Error THEN "refused" ELSE "votes"
  /\ UNCHANGED <<status, prefetch, reader, stored, cancelled, returned, failures, attempts>>

\* A second has passed: get_transactions is dropped where it waits, and the status with it.
WaitTimesOut ==
  /\ proposal = "waits" /\ reader["wait"].pc = "await" /\ reader["wait"].left # <<>>
  /\ proposal' = "refused"
  /\ cancelled' = cancelled \cup {reader["wait"].part}
  /\ reader' = [reader EXCEPT !["wait"] = Idle]
  /\ UNCHANGED <<status, prefetch, stored, returned, failures, attempts>>

\* Execution of the block that was inserted, again after an error.
Execute ==
  /\ PrefetchAt("insert", "done")
  /\ reader["execute"].pc = "idle" /\ returned["execute"] \in {NoAnswer, Error}
  /\ attempts < MaxAttempts
  /\ attempts' = attempts + 1
  /\ Begin("execute")
  /\ UNCHANGED <<status, prefetch, stored, proposal, cancelled, returned, failures>>

\* send_for_execution when the node recovers: after an error it prefetches and tries again.
Recover ==
  /\ Recovering
  /\ reader["recover"].pc = "idle"
  /\ \/ /\ returned["recover"] = NoAnswer
        /\ Begin("recover")
        /\ UNCHANGED <<prefetch, returned>>
     \/ /\ returned["recover"] = Error /\ PrefetchAt("recover", "idle")
        /\ PrefetchTo("recover", "check", 1)
        /\ UNCHANGED <<reader, returned>>
     \/ /\ returned["recover"] = Error /\ PrefetchAt("recover", "done")
        /\ PrefetchTo("recover", "idle", 1)
        /\ returned' = [returned EXCEPT !["recover"] = NoAnswer]
        /\ Begin("recover")
  /\ UNCHANGED <<status, stored, proposal, cancelled, failures, attempts>>

----------------------------------------------------------------------------
Init ==
  /\ status = [p \in Parts |-> None]
  /\ prefetch = [w \in {"verify", "insert", "recover"} |-> [pc |-> "idle", part |-> 1]]
  /\ reader = [r \in BlockReaders |-> Idle]
  /\ stored = {} /\ proposal = "new" /\ cancelled = {}
  /\ returned = [r \in BlockReaders |-> NoAnswer]
  /\ failures = 0 /\ attempts = 0

Next ==
  \/ \E w \in {"verify", "insert"} : PrefetchStart(w)
  \/ \E w \in DOMAIN prefetch : PrefetchCheck(w) \/ PrefetchRequest(w)
  \/ \E r \in BlockReaders : Take(r) \/ AwaitBatch(r) \/ PutBack(r)
  \/ \E b \in Batches : BatchArrives(b)
  \/ ProcessProposal \/ Waited \/ WaitTimesOut \/ Execute \/ Recover

Spec == Init /\ [][Next]_vars

----------------------------------------------------------------------------
\* The transactions of a block that a validator gets.
Whole ==
  LET valid(p) == SelectSeq(Payload[p], LAMBDA b : b \notin ExpiredBatches)
  IN (IF Len(Payload) = 2 THEN valid(1) \o valid(2) ELSE valid(1)) \o Inline

\* Whoever gets the transactions of a block gets all of them in the block's order, and nobody gets
\* others than anybody else: whichever requests failed, were repeated or were taken by another reader
\* (process_payload, get_transactions).
TransactionsComplete ==
  \A r \in BlockReaders : returned[r] \in {NoAnswer, Error, Whole}

\* What is requested or cached of a part is lost only by a wait that timed out: otherwise there is a
\* reader who will put something back, and so the next attempt finds it.
StatusIsKept ==
  \A p \in Parts :
    status[p].kind = "none" /\ PrefetchAt("verify", "done") =>
      \/ p \in cancelled
      \/ \E r \in BlockReaders : reader[r].part = p /\ reader[r].pc \in {"await", "put_back"}

\* A validator votes for batches without proof only when it has those that have not expired.
VotesWithPayload ==
  proposal = "votes" =>
    \A p \in Unproved : \A i \in DOMAIN Payload[p] : Payload[p][i] \in stored \cup ExpiredBatches
=============================================================================
