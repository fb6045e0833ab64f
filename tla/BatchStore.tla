----------------------------- MODULE BatchStore -----------------------------
(***************************************************************************)
(* The quorum store's batch store: the cache of batches with its quotas    *)
(* and expirations, the database behind it, the tasks that persist batches *)
(* and the tasks that read them, asking other validators for what is not   *)
(* there (quorum_store/batch_store.rs, batch_requester.rs).  The tasks run *)
(* on a thread pool: each step below is one critical section, the entry    *)
(* lock of the cache or the mutex of the expirations.                      *)
(*                                                                         *)
(* A batch is its digest; its epoch is the store's.  The same payload may  *)
(* come again under a later expiration.                                    *)
(***************************************************************************)
EXTENDS Integers, FiniteSets, FiniteSetsExt

CONSTANTS
  Digests,
  Author,          \* Author[d]: who made the batch; the digest covers the author
  NumBytes,        \* NumBytes[d]
  MaxTime,         \* bound: expirations and certified times are 1 .. MaxTime
  MemoryQuota, DbQuota, BatchQuota,   \* per author
  Writers,         \* tasks that persist batches from the network or our own
  Readers,         \* tasks of get_batch
  Signers,         \* how many peers a reader may ask, at most
  RequestNumPeers, \* request_num_peers
  RetryLimit       \* retry_limit

VARIABLES
  last_certified_time,
  db_cache,        \* digest -> [exp, mode], for the digests in the cache
  peer_quota,      \* author -> [memory, db, batch]: the balances left
  expirations,     \* {<<expiration, digest>>}: the heap of TimeExpirations
  db,              \* digests of the batches in the database
  subscribers,     \* digest -> the readers waiting for it
  task,            \* task -> its program counter and what it works on
  request,         \* reader -> its BatchRequesterState
  answer,          \* reader -> what its receiver was sent
  signed,          \* digests this validator signed
  clear            \* the thread of update_certified_timestamp

vars == <<last_certified_time, db_cache, peer_quota, expirations, db, subscribers,
          task, request, answer, signed, clear>>

Times   == 1 .. MaxTime
Authors == {Author[d] : d \in Digests}
Tasks   == Writers \cup Readers

Cached(d) == d \in DOMAIN db_cache
Without(f, d) == [x \in DOMAIN f \ {d} |-> f[x]]
With(f, d, v) == [x \in DOMAIN f \cup {d} |-> IF x = d THEN v ELSE f[x]]

FullQuota   == [memory |-> MemoryQuota, db |-> DbQuota, batch |-> BatchQuota]
IdleTask    == [pc |-> "idle"]
IdleClear   == [pc |-> "idle"]
IdleRequest == [available |-> 0, next_index |-> 0, retries |-> 0, in_flight |-> 0, asked |-> {}]

Init ==
  /\ last_certified_time = 0
  /\ db_cache = [d \in {} |-> 0]
  /\ peer_quota = [a \in Authors |-> FullQuota]
  /\ expirations = {}
  /\ db = {}
  /\ subscribers = [d \in Digests |-> {}]
  /\ task = [t \in Tasks |-> IdleTask]
  /\ request = [r \in Readers |-> IdleRequest]
  /\ answer = [r \in Readers |-> "none"]
  /\ signed = {}
  /\ clear = IdleClear

----------------------------------------------------------------------------
(* QuotaManager                                                            *)

\* Whether update_quota accepts a batch: one more batch, and its bytes in the database.
QuotaAccepts(q, bytes) == q.batch > 0 /\ q.db >= bytes

StorageMode(q, bytes) ==
  IF q.memory >= bytes THEN "MemoryAndPersisted" ELSE "PersistedOnly"

UpdateQuota(q, bytes) ==
  [memory |-> IF q.memory >= bytes THEN q.memory - bytes ELSE q.memory,
   db     |-> q.db - bytes,
   batch  |-> q.batch - 1]

\* Mutant: the memory of a batch that is kept in the database only is freed too.
FreeQuotaAlwaysMemory(q, bytes, mode) ==
  [memory |-> q.memory + bytes, db |-> q.db + bytes, batch |-> q.batch + 1]

FreeQuota(q, bytes, mode) ==
  [memory |-> IF mode = "MemoryAndPersisted" THEN q.memory + bytes ELSE q.memory,
   db     |-> q.db + bytes,
   batch  |-> q.batch + 1]

----------------------------------------------------------------------------
(* Persisting a batch: save, insert_to_cache, the expiration, the database *)
(* and the notification, as steps of the task t.                           *)

At(t, pc) == task[t].pc = pc
GoTo(t, pc) == task' = [task EXCEPT ![t].pc = pc]
Finish(t) == task' = [task EXCEPT ![t] = IdleTask]

\* save: a batch that is not expired goes on to the cache.
PersistTask(d, e) == [pc |-> "insert", digest |-> d, exp |-> e]

\* batch_coordinator and batch_generator hand a batch to persist.
Persist(t, d, e) ==
  /\ At(t, "idle")
  /\ e > last_certified_time
  /\ task' = [task EXCEPT ![t] = PersistTask(d, e)]
  /\ UNCHANGED <<last_certified_time, db_cache, peer_quota, expirations, db, subscribers,
                 request, answer, signed, clear>>

\* insert_to_cache, under the lock of the digest's entry: an entry that lives as long or
\* longer is kept and the batch is signed; otherwise the author's quota decides.
InsertToCache(t) ==
  /\ At(t, "insert")
  /\ LET d == task[t].digest
         e == task[t].exp
         q == peer_quota[Author[d]]
         charged == UpdateQuota(q, NumBytes[d])
     IN  \/ /\ Cached(d) /\ db_cache[d].exp >= e
            /\ GoTo(t, "notify")
            /\ UNCHANGED <<db_cache, peer_quota>>
         \/ /\ Cached(d) => db_cache[d].exp < e
            /\ ~ QuotaAccepts(q, NumBytes[d])
            /\ Finish(t)
            /\ UNCHANGED <<db_cache, peer_quota>>
         \/ /\ Cached(d) => db_cache[d].exp < e
            /\ QuotaAccepts(q, NumBytes[d])
            /\ db_cache' = With(db_cache, d, [exp |-> e, mode |-> StorageMode(q, NumBytes[d])])
            /\ peer_quota' = [peer_quota EXCEPT ![Author[d]] =
                 IF Cached(d) THEN FreeQuota(charged, NumBytes[d], db_cache[d].mode) ELSE charged]
            /\ GoTo(t, "expiration")
  /\ UNCHANGED <<last_certified_time, expirations, db, subscribers, request, answer, signed, clear>>

\* Mutant: the item is added under the time of the last certified block.
AddExpirationNow(t) ==
  /\ At(t, "expiration")
  /\ expirations' = expirations \cup {<<last_certified_time, task[t].digest>>}
  /\ GoTo(t, "save_batch")
  /\ UNCHANGED <<last_certified_time, db_cache, peer_quota, db, subscribers, request, answer, signed, clear>>

\* The expiration is added after the entry's lock is released.
AddExpiration(t) ==
  /\ At(t, "expiration")
  /\ expirations' = expirations \cup {<<task[t].exp, task[t].digest>>}
  /\ GoTo(t, "save_batch")
  /\ UNCHANGED <<last_certified_time, db_cache, peer_quota, db, subscribers, request, answer, signed, clear>>

\* persist_inner writes the batch to the database when it is new to the cache.
SaveBatch(t) ==
  /\ At(t, "save_batch")
  /\ db' = db \cup {task[t].digest}
  /\ GoTo(t, "notify")
  /\ UNCHANGED <<last_certified_time, db_cache, peer_quota, expirations, subscribers,
                 request, answer, signed, clear>>

\* Served: every reader waiting for the digest gets the batch, and its request ends.
Served(d) == {r \in subscribers[d] : At(r, "request")}

\* The signature goes back to the author, and the subscribers get the batch.
SignAndNotify(t) ==
  /\ At(t, "notify")
  /\ LET d == task[t].digest
     IN  /\ signed' = signed \cup {d}
         /\ subscribers' = [subscribers EXCEPT ![d] = {}]
         /\ answer' = [r \in Readers |-> IF r \in Served(d) THEN "batch" ELSE answer[r]]
         /\ task' = [x \in Tasks |-> IF x = t \/ x \in Served(d) THEN IdleTask ELSE task[x]]
  /\ UNCHANGED <<last_certified_time, db_cache, peer_quota, expirations, db, request, clear>>

----------------------------------------------------------------------------
(* update_certified_timestamp                                              *)

\* fetch_max of the certified time; commits are notified in order.
UpdateCertifiedTimestamp(time) ==
  /\ clear.pc = "idle"
  /\ time >= last_certified_time
  /\ last_certified_time' = time
  /\ clear' = [pc |-> "expire", time |-> time]
  /\ UNCHANGED <<db_cache, peer_quota, expirations, db, subscribers, task, request, answer, signed>>

\* TimeExpirations::expire: every item up to the given time, each digest once.
Expired(time) == {x \in expirations : x[1] <= time}

Expire ==
  /\ clear.pc = "expire"
  /\ expirations' = expirations \ Expired(clear.time)
  /\ clear' = [pc |-> "clearing", time |-> clear.time,
               digests |-> {x[2] : x \in Expired(clear.time)}]
  /\ UNCHANGED <<last_certified_time, db_cache, peer_quota, db, subscribers, task, request, answer, signed>>

Freeing(d) == [pc |-> "free", time |-> clear.time, digests |-> clear.digests \ {d},
               digest |-> d, mode |-> db_cache[d].mode]

\* clear_expired_payload takes one expired digest: its entry is removed unless a later
\* batch of the same payload extended it.
ClearEntry(d) ==
  /\ clear.pc = "clearing" /\ d \in clear.digests /\ Cached(d)
  /\ IF db_cache[d].exp <= clear.time
       THEN /\ db_cache' = Without(db_cache, d)
            /\ subscribers' = [subscribers EXCEPT ![d] = {}]
            /\ clear' = Freeing(d)
       ELSE /\ clear' = [clear EXCEPT !.digests = @ \ {d}]
            /\ UNCHANGED <<db_cache, subscribers>>
  /\ UNCHANGED <<last_certified_time, peer_quota, expirations, db, task, request, answer, signed>>

\* unreachable!("Expired entry not in cache")
ClearMissing(d) ==
  /\ clear.pc = "clearing" /\ d \in clear.digests /\ ~ Cached(d)
  /\ clear' = [pc |-> "panicked"]
  /\ UNCHANGED <<last_certified_time, db_cache, peer_quota, expirations, db, subscribers,
                 task, request, answer, signed>>

\* free_quota, no longer holding the entry's lock.
FreeCleared ==
  /\ clear.pc = "free"
  /\ LET d == clear.digest
     IN  peer_quota' = [peer_quota EXCEPT ![Author[d]] = FreeQuota(@, NumBytes[d], clear.mode)]
  /\ clear' = [pc |-> "clearing", time |-> clear.time, digests |-> clear.digests]
  /\ UNCHANGED <<last_certified_time, db_cache, expirations, db, subscribers, task, request, answer, signed>>

ClearDone ==
  /\ clear.pc = "clearing" /\ clear.digests = {}
  /\ clear' = IdleClear
  /\ UNCHANGED <<last_certified_time, db_cache, peer_quota, expirations, db, subscribers,
                 task, request, answer, signed>>

----------------------------------------------------------------------------
(* get_batch                                                               *)

\* get_batch_from_local: from the cache, or from the database when the cache has no
\* payload or no entry.
AvailableLocally(d) ==
  (Cached(d) /\ db_cache[d].mode = "MemoryAndPersisted") \/ d \in db

\* A reader asks for a batch: answered at once, or it goes on to subscribe.
GetBatch(r, d) ==
  /\ At(r, "idle") /\ answer[r] = "none"
  /\ IF AvailableLocally(d)
       THEN answer' = [answer EXCEPT ![r] = "batch"] /\ UNCHANGED task
       ELSE task' = [task EXCEPT ![r] = [pc |-> "subscribe", digest |-> d]] /\ UNCHANGED answer
  /\ UNCHANGED <<last_certified_time, db_cache, peer_quota, expirations, db, subscribers,
                 request, signed, clear>>

Subscribe(r) ==
  /\ At(r, "subscribe")
  /\ subscribers' = [subscribers EXCEPT ![task[r].digest] = @ \cup {r}]
  /\ GoTo(r, "recheck")
  /\ UNCHANGED <<last_certified_time, db_cache, peer_quota, expirations, db, request, answer, signed, clear>>

\* Mutant: the race with a persist between the read and the subscription is not looked at.
RecheckSkipped(r) ==
  /\ At(r, "recheck")
  /\ GoTo(r, "request")
  /\ \E n \in 1 .. Signers : request' = [request EXCEPT ![r] = [IdleRequest EXCEPT !.available = n]]
  /\ UNCHANGED <<last_certified_time, db_cache, peer_quota, expirations, db, subscribers, answer, signed, clear>>

\* The rest of subscribe and the head of request_batch: if the batch has arrived in the
\* meantime every subscriber is told, this reader's receiver included; with nobody to ask
\* the answer's sender is dropped.
Recheck(r) ==
  /\ At(r, "recheck")
  /\ LET d == task[r].digest
         told == IF AvailableLocally(d) THEN Served(d) \cup {r} ELSE {}
     IN  \E n \in 0 .. Signers :
           /\ subscribers' = IF AvailableLocally(d) THEN [subscribers EXCEPT ![d] = {}] ELSE subscribers
           /\ answer' = [x \in Readers |->
                IF x = r /\ n = 0 THEN "dropped" ELSE IF x \in told THEN "batch" ELSE answer[x]]
           /\ task' = [x \in Tasks |->
                IF x \in told \/ (x = r /\ n = 0) THEN IdleTask
                ELSE IF x = r THEN [task[x] EXCEPT !.pc = "request"] ELSE task[x]]
           /\ request' = [request EXCEPT ![r] = [IdleRequest EXCEPT !.available = n]]
  /\ UNCHANGED <<last_certified_time, db_cache, peer_quota, expirations, db, signed, clear>>

\* next_request_peers: a window of RequestNumPeers peers that moves round the signers,
\* from a random start.
RequestPeers(q, next) ==
  IF q.available <= RequestNumPeers THEN 0 .. q.available - 1
  ELSE {(next + i) % q.available : i \in 0 .. RequestNumPeers - 1}

NextIndex(q, next) ==
  IF q.available <= RequestNumPeers THEN next ELSE (next + RequestNumPeers) % q.available

\* One tick of the retry interval: ask the next peers, or give up once all have answered.
Tick(r) ==
  /\ At(r, "request")
  /\ LET q == request[r]
     IN  \/ /\ q.retries < RetryLimit
            /\ \E start \in 0 .. q.available - 1 :
                 LET next == IF q.retries = 0 THEN start ELSE q.next_index
                 IN  request' = [request EXCEPT ![r] =
                       [@ EXCEPT !.retries = @ + 1,
                                 !.in_flight = @ + Cardinality(RequestPeers(q, next)),
                                 !.asked = @ \cup RequestPeers(q, next),
                                 !.next_index = NextIndex(q, next)]]
            /\ UNCHANGED <<task, answer, subscribers>>
         \/ /\ q.retries >= RetryLimit /\ q.in_flight = 0
            /\ answer' = [answer EXCEPT ![r] = "not_found"]
            /\ Finish(r)
            /\ subscribers' = [d \in Digests |-> subscribers[d] \ {r}]
            /\ UNCHANGED request
  /\ UNCHANGED <<last_certified_time, db_cache, peer_quota, expirations, db, signed, clear>>

\* A peer has the batch: the reader is answered, the batch is written to the database
\* whatever the cache will say of it, and then persisted like any other.
ResponseBatch(r, e) ==
  /\ At(r, "request") /\ request[r].in_flight > 0
  /\ LET d == task[r].digest
     IN  /\ answer' = [answer EXCEPT ![r] = "batch"]
         /\ db' = db \cup {d}
         /\ subscribers' = [subscribers EXCEPT ![d] = @ \ {r}]
         /\ task' = [task EXCEPT ![r] =
              IF e > last_certified_time THEN PersistTask(d, e) ELSE IdleTask]
  /\ request' = [request EXCEPT ![r].in_flight = @ - 1]
  /\ UNCHANGED <<last_certified_time, db_cache, peer_quota, expirations, signed, clear>>

\* A peer has not: a verified ledger info past the expiration ends the request, anything
\* else, an error of the network included, waits for the next answer.
ResponseNotFound(r) ==
  /\ At(r, "request") /\ request[r].in_flight > 0
  /\ request' = [request EXCEPT ![r].in_flight = @ - 1]
  /\ \/ UNCHANGED <<task, answer, subscribers>>
     \/ /\ answer' = [answer EXCEPT ![r] = "not_found"]
        /\ Finish(r)
        /\ subscribers' = [d \in Digests |-> subscribers[d] \ {r}]
  /\ UNCHANGED <<last_certified_time, db_cache, peer_quota, expirations, db, signed, clear>>

----------------------------------------------------------------------------
PersistStep(t) == InsertToCache(t) \/ AddExpiration(t) \/ SaveBatch(t) \/ SignAndNotify(t)

ReaderStep(r) ==
  \/ Subscribe(r) \/ Recheck(r) \/ Tick(r) \/ ResponseNotFound(r)
  \/ \E e \in Times : ResponseBatch(r, e)

ClearStep ==
  \/ Expire \/ FreeCleared \/ ClearDone
  \/ \E d \in Digests : ClearEntry(d) \/ ClearMissing(d)

Next ==
  \/ \E t \in Writers, d \in Digests, e \in Times : Persist(t, d, e)
  \/ \E t \in Tasks : PersistStep(t)
  \/ \E r \in Readers, d \in Digests : GetBatch(r, d)
  \/ \E r \in Readers : ReaderStep(r)
  \/ \E time \in Times : UpdateCertifiedTimestamp(time)
  \/ ClearStep

Spec == Init /\ [][Next]_vars

\* The runtime polls every task that can run, and every request in flight ends, with an
\* answer or with the error of its timeout.
FairSpec ==
  /\ Spec
  /\ \A t \in Tasks : WF_vars(PersistStep(t))
  /\ \A r \in Readers : WF_vars(ReaderStep(r))

----------------------------------------------------------------------------
TypeOK ==
  /\ last_certified_time \in 0 .. MaxTime
  /\ DOMAIN db_cache \subseteq Digests
  /\ \A d \in DOMAIN db_cache :
       db_cache[d] \in [exp : Times, mode : {"MemoryAndPersisted", "PersistedOnly"}]
  /\ peer_quota \in [Authors -> [memory : 0 .. MemoryQuota, db : 0 .. DbQuota, batch : 0 .. BatchQuota]]
  /\ expirations \subseteq Times \X Digests
  /\ db \subseteq Digests /\ signed \subseteq Digests
  /\ subscribers \in [Digests -> SUBSET Readers]
  /\ answer \in [Readers -> {"none", "batch", "not_found", "dropped"}]

\* The records of the tasks and of the clearing thread have the fields of their program counter.
PersistTasks ==
  [pc : {"insert", "expiration", "save_batch", "notify"}, digest : Digests, exp : Times]
ReadTasks == [pc : {"subscribe", "recheck", "request"}, digest : Digests]
TasksTyped ==
  /\ task \in [Tasks -> {IdleTask} \cup PersistTasks \cup ReadTasks]
  /\ \/ clear \in {IdleClear, [pc |-> "panicked"]}
     \/ clear \in [pc : {"expire"}, time : Times]
     \/ clear \in [pc : {"clearing"}, time : Times, digests : SUBSET Digests]
     \/ clear \in [pc : {"free"}, time : Times, digests : SUBSET Digests, digest : Digests,
                   mode : {"MemoryAndPersisted", "PersistedOnly"}]

\* The bytes and batches of an author that its quota is charged for: what is cached and
\* the one entry that was removed and is not freed yet.
ChargedBatches(a) ==
  {d \in DOMAIN db_cache : Author[d] = a}
ChargedBytes(a) ==
  MapThenSumSet(LAMBDA d : NumBytes[d], ChargedBatches(a))
FreeingBytes(a) ==
  IF clear.pc = "free" /\ Author[clear.digest] = a THEN NumBytes[clear.digest] ELSE 0

\* Quotas are conserved (free_quota's assert_quota): what an author has left is its quota
\* less what the store holds of it, whatever replaces or expires an entry concurrently.
QuotaConserved ==
  \A a \in Authors :
    /\ peer_quota[a].db + ChargedBytes(a) + FreeingBytes(a) = DbQuota
    /\ peer_quota[a].batch + Cardinality(ChargedBatches(a))
         + (IF clear.pc = "free" /\ Author[clear.digest] = a THEN 1 ELSE 0) = BatchQuota
    /\ peer_quota[a].memory
         + MapThenSumSet(LAMBDA d : NumBytes[d],
             {d \in ChargedBatches(a) : db_cache[d].mode = "MemoryAndPersisted"})
         + (IF clear.pc = "free" /\ clear.mode = "MemoryAndPersisted" THEN FreeingBytes(a) ELSE 0)
       = MemoryQuota

\* Nothing stays in the cache for ever: the expiration of every entry is in the heap, or
\* the task that put the entry there is about to add it, or the clearing thread has taken
\* it and not yet looked at the entry.
EveryEntryExpires ==
  \A d \in DOMAIN db_cache :
    \/ <<db_cache[d].exp, d>> \in expirations
    \/ \E t \in Tasks : At(t, "expiration") /\ task[t].digest = d /\ task[t].exp = db_cache[d].exp
    \/ clear.pc \in {"clearing", "free"} /\ d \in clear.digests /\ db_cache[d].exp <= clear.time
    \/ clear.pc = "panicked"

\* A signature says that the batch is stored: a signed digest is in the database, or a
\* task that put it into the cache is about to write it there.
SignedIsStored ==
  \A d \in signed :
    d \in db \/ \E t \in Tasks : task[t].pc \in {"expiration", "save_batch"} /\ task[t].digest = d

\* The two together: what is cached goes, what is signed stays.
BatchesStay == EveryEntryExpires /\ SignedIsStored

\* Why a signature can be trusted: everything that leads to one, an entry in the cache or a task
\* that is about to sign, has the batch in the database or a task on its way there.
BatchesKept ==
  \A d \in Digests :
    \/ d \in signed
    \/ Cached(d)
    \/ \E t \in Tasks : At(t, "notify") /\ task[t].digest = d
    => d \in db \/ \E t \in Tasks : task[t].pc \in {"expiration", "save_batch"} /\ task[t].digest = d

\* No notification is lost: a reader that waits for a batch which is in the cache will be
\* told by a task that is persisting it.
NoLostNotification ==
  \A r \in Readers :
    LET d == task[r].digest
    IN  At(r, "request") /\ r \in subscribers[d] /\ Cached(d) =>
          \E t \in Tasks :
            /\ task[t].pc \in {"expiration", "save_batch", "notify"}
            /\ task[t].digest = d

\* A reader gives up for lack of answers only when it has asked every signer, if its
\* retries suffice to ask each of them once.
AsksSigners ==
  \A r \in Readers :
    LET q == request[r]
    IN  At(r, "request") /\ answer'[r] = "not_found" /\ q.retries = RetryLimit
          /\ RetryLimit * RequestNumPeers >= q.available
        => q.asked = 0 .. q.available - 1
=============================================================================
