--------------------------- MODULE ServicesProofs ---------------------------
(***************************************************************************)
(* Proofs about the quorum store's batches (BatchStore) and about the      *)
(* processors of an epoch (EpochManager).                                  *)
(*                                                                         *)
(* What is cached expires and what is signed is stored, for every set of   *)
(* batches and of tasks, all quotas and all expirations, with a cleanup    *)
(* between any two steps of the tasks.  The inductive invariant is         *)
(* TasksTyped, EveryEntryExpires and BatchesKept, which follows a batch    *)
(* from the entry in the cache to the signature.  No property of the       *)
(* quotas is needed: a batch that they refuse is neither cached nor        *)
(* signed.                                                                 *)
(*                                                                         *)
(* The processors of two epochs never meet, for every number of epochs,    *)
(* senders and messages in flight: what a processor finds in its queues is *)
(* of its epoch, the round managers take turns, and an epoch ends once.    *)
(* The invariant says where the loop is, what each round manager does      *)
(* then, which epochs have ended in the network, and which channels a task *)
(* that verifies may still hold.                                           *)
(***************************************************************************)
EXTENDS BatchStore, EpochManager, TLAPS

\* A task between the entry in the cache and the database.
Storing(t) == task[t].pc \in {"expiration", "save_batch"}

LEMMA TypedInit == Init => TasksTyped
  BY DEF Init, TasksTyped, IdleTask, IdleClear

LEMMA SafeInit == Init => EveryEntryExpires /\ BatchesKept
<1>. SUFFICES ASSUME Init PROVE EveryEntryExpires /\ BatchesKept
  OBVIOUS
<1>1. DOMAIN db_cache = {} /\ signed = {}
  BY DEF Init
<1>2. \A t \in Tasks : task[t].pc = "idle"
  BY DEF Init, IdleTask
<1>. QED  BY <1>1, <1>2 DEF EveryEntryExpires, BatchesKept, Cached, At

\* What a task may hold at each program counter.
LEMMA TaskFields ==
  ASSUME TasksTyped, NEW t \in Tasks
  PROVE  /\ task[t].pc \in {"insert", "expiration", "save_batch", "notify"} => task[t] \in PersistTasks
         /\ task[t].pc \in {"subscribe", "recheck", "request"} => task[t] \in ReadTasks
  BY DEF TasksTyped, PersistTasks, ReadTasks, IdleTask

\* A task that goes on keeps its batch.
LEMMA GoToKeeps ==
  ASSUME TasksTyped, NEW t \in Tasks, task[t] \in PersistTasks,
         NEW pc \in {"insert", "expiration", "save_batch", "notify"}, GoTo(t, pc)
  PROVE  /\ task' \in [Tasks -> {IdleTask} \cup PersistTasks \cup ReadTasks]
         /\ task'[t].pc = pc /\ task'[t].digest = task[t].digest /\ task'[t].exp = task[t].exp
         /\ \A x \in Tasks \ {t} : task'[x] = task[x]
<1>1. task' = [task EXCEPT ![t] = [@ EXCEPT !.pc = pc]]
  BY DEF GoTo
<1>2. [task[t] EXCEPT !.pc = pc] \in PersistTasks
  BY DEF PersistTasks
<1>3. task'[t] = [task[t] EXCEPT !.pc = pc]
  BY <1>1 DEF TasksTyped
<1>4. task'[t].pc = pc /\ task'[t].digest = task[t].digest /\ task'[t].exp = task[t].exp
  BY <1>3 DEF PersistTasks
<1>5. \A x \in Tasks \ {t} : task'[x] = task[x]
  BY <1>1 DEF TasksTyped
<1>6. task' \in [Tasks -> {IdleTask} \cup PersistTasks \cup ReadTasks]
  BY <1>1, <1>2 DEF TasksTyped
<1>. QED  BY <1>4, <1>5, <1>6

\* Steps of tasks that are not persisting a batch, or are before and after that: they change
\* neither the cache nor the heap, and no task that stores a batch or is about to sign one.
LEMMA BystandersKeep ==
  ASSUME TasksTyped, EveryEntryExpires, BatchesKept,
         UNCHANGED <<db_cache, expirations, clear, signed>>, db \subseteq db',
         \A t \in Tasks : Storing(t) => task'[t] = task[t],
         \A t \in Tasks : task'[t].pc = "notify" => task'[t] = task[t]
  PROVE  EveryEntryExpires' /\ BatchesKept'
<1>1. EveryEntryExpires'
  <2>. SUFFICES ASSUME NEW d \in DOMAIN db_cache
                PROVE  \/ <<db_cache[d].exp, d>> \in expirations
                       \/ \E t \in Tasks : task'[t].pc = "expiration" /\ task'[t].digest = d /\ task'[t].exp = db_cache[d].exp
                       \/ clear.pc \in {"clearing", "free"} /\ d \in clear.digests /\ db_cache[d].exp <= clear.time
                       \/ clear.pc = "panicked"
    BY DEF EveryEntryExpires, At
  <2>. QED  BY DEF EveryEntryExpires, At, Storing
<1>2. BatchesKept'
  <2>. SUFFICES ASSUME NEW d \in Digests,
                       \/ d \in signed
                       \/ d \in DOMAIN db_cache
                       \/ \E t \in Tasks : task'[t].pc = "notify" /\ task'[t].digest = d
                PROVE  d \in db' \/ \E t \in Tasks : task'[t].pc \in {"expiration", "save_batch"} /\ task'[t].digest = d
    BY DEF BatchesKept, At, Cached
  <2>1. d \in db \/ \E t \in Tasks : Storing(t) /\ task[t].digest = d
    BY DEF BatchesKept, At, Cached, Storing
  <2>. QED  BY <2>1 DEF Storing
<1>. QED  BY <1>1, <1>2

----------------------------------------------------------------------------
(* Types                                                                   *)

LEMMA FinishTyped ==
  ASSUME TasksTyped, NEW t \in Tasks, Finish(t)
  PROVE  /\ task' \in [Tasks -> {IdleTask} \cup PersistTasks \cup ReadTasks]
         /\ task'[t] = IdleTask
         /\ \A x \in Tasks \ {t} : task'[x] = task[x]
  BY DEF TasksTyped, Finish

LEMMA TasksTypedNext ==
  ASSUME TasksTyped, [Next]_vars
  PROVE  task' \in [Tasks -> {IdleTask} \cup PersistTasks \cup ReadTasks]
<1>. DEFINE Typed == task' \in [Tasks -> {IdleTask} \cup PersistTasks \cup ReadTasks]
<1>0. CASE UNCHANGED task
  BY <1>0 DEF TasksTyped
<1>1. ASSUME NEW t \in Writers, NEW d \in Digests, NEW e \in Times, Persist(t, d, e) PROVE Typed
  <2>1. PersistTask(d, e) \in PersistTasks
    BY DEF PersistTask, PersistTasks
  <2>. QED  BY <1>1, <2>1 DEF Persist, TasksTyped
<1>2. ASSUME NEW t \in Tasks, InsertToCache(t) PROVE Typed
  <2>1. task[t] \in PersistTasks
    BY <1>2, TaskFields DEF InsertToCache, At
  <2>2. GoTo(t, "notify") \/ Finish(t) \/ GoTo(t, "expiration")
    BY <1>2 DEF InsertToCache
  <2>. QED  BY <2>1, <2>2, GoToKeeps, FinishTyped
<1>3. ASSUME NEW t \in Tasks, AddExpiration(t) \/ SaveBatch(t) PROVE Typed
  <2>1. task[t] \in PersistTasks
    BY <1>3, TaskFields DEF AddExpiration, SaveBatch, At
  <2>2. GoTo(t, "save_batch") \/ GoTo(t, "notify")
    BY <1>3 DEF AddExpiration, SaveBatch
  <2>. QED  BY <2>1, <2>2, GoToKeeps
<1>4. ASSUME NEW t \in Tasks, SignAndNotify(t) PROVE Typed
  <2>1. task' = [x \in Tasks |-> IF x = t \/ x \in Served(task[t].digest) THEN IdleTask ELSE task[x]]
    BY <1>4 DEF SignAndNotify
  <2>. QED  BY <2>1 DEF TasksTyped
<1>5. ASSUME NEW r \in Readers, NEW d \in Digests, GetBatch(r, d) PROVE Typed
  <2>1. [pc |-> "subscribe", digest |-> d] \in ReadTasks
    BY DEF ReadTasks
  <2>2. task' = task \/ task' = [task EXCEPT ![r] = [pc |-> "subscribe", digest |-> d]]
    BY <1>5 DEF GetBatch
  <2>. QED  BY <2>1, <2>2 DEF TasksTyped
<1>6. ASSUME NEW r \in Readers, Subscribe(r) PROVE Typed
  <2>1. task[r] \in ReadTasks
    BY <1>6, TaskFields DEF Subscribe, At, Tasks
  <2>2. [task[r] EXCEPT !.pc = "recheck"] \in ReadTasks
    BY <2>1 DEF ReadTasks
  <2>3. task' = [task EXCEPT ![r] = [task[r] EXCEPT !.pc = "recheck"]]
    BY <1>6 DEF Subscribe, GoTo
  <2>. QED  BY <2>2, <2>3 DEF TasksTyped
<1>7. ASSUME NEW r \in Readers, Recheck(r) PROVE Typed
  <2>1. task[r] \in ReadTasks
    BY <1>7, TaskFields DEF Recheck, At, Tasks
  <2>2. [task[r] EXCEPT !.pc = "request"] \in ReadTasks
    BY <2>1 DEF ReadTasks
  <2>. DEFINE told == IF AvailableLocally(task[r].digest) THEN Served(task[r].digest) \cup {r} ELSE {}
  <2>3. PICK n \in 0 .. Signers : task' = [x \in Tasks |->
                IF x \in told \/ (x = r /\ n = 0) THEN IdleTask
                ELSE IF x = r THEN [task[x] EXCEPT !.pc = "request"] ELSE task[x]]
    BY <1>7 DEF Recheck
  <2>. HIDE DEF told
  <2>4. \A x \in Tasks : task'[x] \in {IdleTask, [task[r] EXCEPT !.pc = "request"], task[x]}
    BY <2>3
  <2>. QED  BY <2>2, <2>3, <2>4 DEF TasksTyped
<1>8. ASSUME NEW r \in Readers, Tick(r) \/ ResponseNotFound(r) PROVE Typed
  <2>1. UNCHANGED task \/ Finish(r)
    BY <1>8 DEF Tick, ResponseNotFound
  <2>. QED  BY <1>0, <2>1, FinishTyped DEF Tasks
<1>9. ASSUME NEW r \in Readers, NEW e \in Times, ResponseBatch(r, e) PROVE Typed
  <2>1. task[r] \in ReadTasks
    BY <1>9, TaskFields DEF ResponseBatch, At, Tasks
  <2>2. PersistTask(task[r].digest, e) \in PersistTasks
    BY <2>1 DEF PersistTask, PersistTasks, ReadTasks
  <2>3. \/ task' = [task EXCEPT ![r] = PersistTask(task[r].digest, e)]
        \/ task' = [task EXCEPT ![r] = IdleTask]
    BY <1>9 DEF ResponseBatch
  <2>. QED  BY <2>2, <2>3 DEF TasksTyped
<1>10. CASE ClearStep
  BY <1>0, <1>10 DEF ClearStep, Expire, FreeCleared, ClearDone, ClearEntry, ClearMissing
<1>11. ASSUME NEW time \in Times, UpdateCertifiedTimestamp(time) PROVE Typed
  BY <1>0, <1>11 DEF UpdateCertifiedTimestamp
<1>12. CASE UNCHANGED vars
  BY <1>0, <1>12 DEF vars
<1>. QED
  BY <1>1, <1>2, <1>3, <1>4, <1>5, <1>6, <1>7, <1>8, <1>9, <1>10, <1>11, <1>12
     DEF Next, PersistStep, ReaderStep

\* The heap and the cache hold digests under expirations: the part of TypeOK that is needed here.
StoreTyped ==
  /\ DOMAIN db_cache \subseteq Digests
  /\ \A d \in DOMAIN db_cache :
       db_cache[d] \in [exp : Times, mode : {"MemoryAndPersisted", "PersistedOnly"}]
  /\ expirations \subseteq Times \X Digests
  /\ signed \subseteq Digests

ClearTypes ==
  \/ clear \in {IdleClear, [pc |-> "panicked"]}
  \/ clear \in [pc : {"expire"}, time : Times]
  \/ clear \in [pc : {"clearing"}, time : Times, digests : SUBSET Digests]
  \/ clear \in [pc : {"free"}, time : Times, digests : SUBSET Digests, digest : Digests,
                mode : {"MemoryAndPersisted", "PersistedOnly"}]

LEMMA ClearFields ==
  ASSUME TasksTyped
  PROVE  /\ clear.pc = "expire" => clear \in [pc : {"expire"}, time : Times]
         /\ clear.pc = "clearing" => clear \in [pc : {"clearing"}, time : Times, digests : SUBSET Digests]
         /\ clear.pc = "free" =>
              clear \in [pc : {"free"}, time : Times, digests : SUBSET Digests, digest : Digests,
                         mode : {"MemoryAndPersisted", "PersistedOnly"}]
  BY DEF TasksTyped, IdleClear

LEMMA ClearTypedNext ==
  ASSUME TasksTyped, StoreTyped, [Next]_vars
  PROVE  ClearTypes'
<1>0. CASE UNCHANGED clear
  BY <1>0 DEF TasksTyped, ClearTypes
<1>1. ASSUME NEW time \in Times, UpdateCertifiedTimestamp(time) PROVE ClearTypes'
  BY <1>1 DEF UpdateCertifiedTimestamp, ClearTypes
<1>2. CASE Expire
  <2>1. clear.time \in Times
    BY <1>2, ClearFields DEF Expire
  <2>2. {x[2] : x \in Expired(clear.time)} \subseteq Digests
    BY DEF Expired, StoreTyped
  <2>3. clear' = [pc |-> "clearing", time |-> clear.time, digests |-> {x[2] : x \in Expired(clear.time)}]
    BY <1>2 DEF Expire
  <2>. QED  BY <2>1, <2>2, <2>3 DEF ClearTypes
<1>3. ASSUME NEW d \in Digests, ClearEntry(d) PROVE ClearTypes'
  <2>1. clear \in [pc : {"clearing"}, time : Times, digests : SUBSET Digests]
    BY <1>3, ClearFields DEF ClearEntry
  <2>2. db_cache[d].mode \in {"MemoryAndPersisted", "PersistedOnly"}
    BY <1>3 DEF ClearEntry, Cached, StoreTyped
  <2>3. clear' = Freeing(d) \/ clear' = [clear EXCEPT !.digests = @ \ {d}]
    BY <1>3 DEF ClearEntry
  <2>. QED  BY <2>1, <2>2, <2>3 DEF ClearTypes, Freeing
<1>4. CASE \E d \in Digests : ClearMissing(d)
  BY <1>4 DEF ClearMissing, ClearTypes
<1>5. CASE FreeCleared
  <2>1. clear.time \in Times /\ clear.digests \in SUBSET Digests
    BY <1>5, ClearFields DEF FreeCleared
  <2>. QED  BY <1>5, <2>1 DEF FreeCleared, ClearTypes
<1>6. CASE ClearDone
  BY <1>6 DEF ClearDone, ClearTypes
<1>7. CASE UNCHANGED vars
  BY <1>0, <1>7 DEF vars
<1>8. ASSUME NEW t \in Tasks, PersistStep(t) PROVE UNCHANGED clear
  BY <1>8 DEF PersistStep, InsertToCache, AddExpiration, SaveBatch, SignAndNotify
<1>9. ASSUME NEW r \in Readers, ReaderStep(r) PROVE UNCHANGED clear
  BY <1>9 DEF ReaderStep, Subscribe, Recheck, Tick, ResponseNotFound, ResponseBatch
<1>10. ASSUME NEW t, NEW d, NEW e, Persist(t, d, e) \/ GetBatch(t, d) PROVE UNCHANGED clear
  BY <1>10 DEF Persist, GetBatch
<1>. QED
  BY <1>0, <1>1, <1>2, <1>3, <1>4, <1>5, <1>6, <1>7, <1>8, <1>9, <1>10 DEF Next, ClearStep

LEMMA StoreTypedNext ==
  ASSUME TasksTyped, StoreTyped, [Next]_vars
  PROVE  StoreTyped'
<1>0. CASE UNCHANGED <<db_cache, expirations, signed>>
  BY <1>0 DEF StoreTyped
<1>1. ASSUME NEW t \in Tasks, InsertToCache(t) PROVE StoreTyped'
  <2>. DEFINE d == task[t].digest
              new == [exp |-> task[t].exp, mode |-> StorageMode(peer_quota[Author[d]], NumBytes[d])]
  <2>1. d \in Digests /\ task[t].exp \in Times
    BY <1>1, TaskFields DEF InsertToCache, At, PersistTasks
  <2>2. new \in [exp : Times, mode : {"MemoryAndPersisted", "PersistedOnly"}]
    BY <2>1 DEF StorageMode
  <2>3. UNCHANGED <<expirations, signed>> /\ (db_cache' = db_cache \/ db_cache' = With(db_cache, d, new))
    BY <1>1 DEF InsertToCache
  <2>. HIDE DEF d, new
  <2>. QED  BY <2>1, <2>2, <2>3 DEF StoreTyped, With
<1>2. ASSUME NEW t \in Tasks, AddExpiration(t) PROVE StoreTyped'
  <2>1. <<task[t].exp, task[t].digest>> \in Times \X Digests
    BY <1>2, TaskFields DEF AddExpiration, At, PersistTasks
  <2>2. UNCHANGED <<db_cache, signed>> /\ expirations' = expirations \cup {<<task[t].exp, task[t].digest>>}
    BY <1>2 DEF AddExpiration
  <2>. QED  BY <2>1, <2>2 DEF StoreTyped
<1>3. CASE Expire
  <2>1. UNCHANGED <<db_cache, signed>> /\ expirations' \subseteq expirations
    BY <1>3 DEF Expire
  <2>. QED  BY <2>1 DEF StoreTyped
<1>4. ASSUME NEW d \in Digests, ClearEntry(d) PROVE StoreTyped'
  <2>1. UNCHANGED <<expirations, signed>> /\ (db_cache' = db_cache \/ db_cache' = Without(db_cache, d))
    BY <1>4 DEF ClearEntry
  <2>. QED  BY <2>1 DEF StoreTyped, Without
<1>5. CASE UNCHANGED vars
  BY <1>0, <1>5 DEF vars
<1>6. ASSUME NEW t \in Tasks, SaveBatch(t) PROVE UNCHANGED <<db_cache, expirations, signed>>
  BY <1>6 DEF SaveBatch
<1>10. ASSUME NEW t \in Tasks, SignAndNotify(t) PROVE StoreTyped'
  <2>1. task[t].digest \in Digests
    BY <1>10, TaskFields DEF SignAndNotify, At, PersistTasks
  <2>2. UNCHANGED <<db_cache, expirations>> /\ signed' = signed \cup {task[t].digest}
    BY <1>10 DEF SignAndNotify
  <2>. QED  BY <2>1, <2>2 DEF StoreTyped
<1>7. ASSUME NEW r \in Readers, ReaderStep(r) PROVE UNCHANGED <<db_cache, expirations, signed>>
  BY <1>7 DEF ReaderStep, Subscribe, Recheck, Tick, ResponseNotFound, ResponseBatch
<1>8. ASSUME NEW t, NEW d, NEW e, Persist(t, d, e) \/ GetBatch(t, d) PROVE UNCHANGED <<db_cache, expirations, signed>>
  BY <1>8 DEF Persist, GetBatch
<1>9. ASSUME NEW time, NEW d, UpdateCertifiedTimestamp(time) \/ FreeCleared \/ ClearDone \/ ClearMissing(d)
      PROVE  UNCHANGED <<db_cache, expirations, signed>>
  BY <1>9 DEF UpdateCertifiedTimestamp, FreeCleared, ClearDone, ClearMissing
<1>. QED
  BY <1>0, <1>1, <1>2, <1>3, <1>4, <1>5, <1>6, <1>7, <1>8, <1>9, <1>10 DEF Next, PersistStep, ClearStep

----------------------------------------------------------------------------
(* Steps of the tasks that persist batches                                 *)

\* The proof obligations, a digest at a time.
Expires(d) ==
  \/ <<db_cache[d].exp, d>> \in expirations
  \/ \E t \in Tasks : task[t].pc = "expiration" /\ task[t].digest = d /\ task[t].exp = db_cache[d].exp
  \/ clear.pc \in {"clearing", "free"} /\ d \in clear.digests /\ db_cache[d].exp <= clear.time
  \/ clear.pc = "panicked"
Stored(d) == d \in db \/ \E t \in Tasks : Storing(t) /\ task[t].digest = d
Needed(d) == d \in signed \/ Cached(d) \/ \E t \in Tasks : task[t].pc = "notify" /\ task[t].digest = d

LEMMA OneDigest ==
  /\ EveryEntryExpires <=> \A d \in DOMAIN db_cache : Expires(d)
  /\ BatchesKept <=> \A d \in Digests : Needed(d) => Stored(d)
  BY DEF EveryEntryExpires, BatchesKept, Expires, Stored, Needed, At, Storing

LEMMA OneDigestNext ==
  /\ EveryEntryExpires' <=> \A d \in DOMAIN db_cache' : Expires(d)'
  /\ BatchesKept' <=> \A d \in Digests : Needed(d)' => Stored(d)'
  BY DEF EveryEntryExpires, BatchesKept, Expires, Stored, Needed, At, Storing

LEMMA InsertKeeps ==
  ASSUME TasksTyped, StoreTyped, EveryEntryExpires, BatchesKept, NEW t \in Tasks, InsertToCache(t)
  PROVE  EveryEntryExpires' /\ BatchesKept'
<1>1. task[t] \in PersistTasks /\ task[t].pc = "insert"
  BY TaskFields DEF InsertToCache, At
<1>2. PICK d \in Digests, e \in Times : d = task[t].digest /\ e = task[t].exp
  BY <1>1 DEF PersistTasks
<1>. DEFINE new == [exp |-> e, mode |-> StorageMode(peer_quota[Author[d]], NumBytes[d])]
<1>3. UNCHANGED <<expirations, clear, signed, db>>
  BY DEF InsertToCache
<1>4. \/ Cached(d) /\ GoTo(t, "notify") /\ UNCHANGED db_cache
      \/ Finish(t) /\ UNCHANGED db_cache
      \/ db_cache' = With(db_cache, d, new) /\ GoTo(t, "expiration")
  BY <1>2 DEF InsertToCache
<1>. HIDE DEF new
<1>5. CASE Cached(d) /\ GoTo(t, "notify") /\ UNCHANGED db_cache
  <2>1. task'[t].pc = "notify" /\ task'[t].digest = d /\ \A x \in Tasks \ {t} : task'[x] = task[x]
    BY <1>1, <1>2, <1>5, GoToKeeps
  <2>2. \A c \in DOMAIN db_cache' : Expires(c)'
    BY <1>1, <1>3, <1>5, <2>1, OneDigest DEF Expires
  <2>3. \A c \in Digests : Stored(c) => Stored(c)'
    BY <1>1, <1>3, <2>1 DEF Stored, Storing
  <2>4. \A c \in Digests : Needed(c)' => Needed(c)
    BY <1>3, <1>5, <2>1 DEF Needed, Cached
  <2>. QED  BY <2>2, <2>3, <2>4, OneDigest, OneDigestNext
<1>6. CASE Finish(t) /\ UNCHANGED db_cache
  <2>1. task'[t].pc = "idle" /\ \A x \in Tasks \ {t} : task'[x] = task[x]
    BY <1>6, FinishTyped DEF IdleTask
  <2>. QED  BY <1>1, <1>3, <1>6, <2>1, BystandersKeep DEF Storing
<1>7. CASE db_cache' = With(db_cache, d, new) /\ GoTo(t, "expiration")
  <2>1. /\ task'[t].pc = "expiration" /\ task'[t].digest = d /\ task'[t].exp = e
        /\ \A x \in Tasks \ {t} : task'[x] = task[x]
    BY <1>1, <1>2, <1>7, GoToKeeps
  <2>2. /\ DOMAIN db_cache' = DOMAIN db_cache \cup {d}
        /\ db_cache'[d].exp = e
        /\ \A c \in DOMAIN db_cache \ {d} : db_cache'[c] = db_cache[c]
    BY <1>7 DEF With, new
  <2>3. \A c \in DOMAIN db_cache' : Expires(c)'
    <3>1. Expires(d)'
      BY <2>1, <2>2 DEF Expires
    <3>2. ASSUME NEW c \in DOMAIN db_cache \ {d} PROVE Expires(c)'
      <4>1. db_cache'[c] = db_cache[c] /\ Expires(c)
        BY <2>2, OneDigest
      <4>. QED  BY <1>1, <1>3, <2>1, <4>1 DEF Expires
    <3>. QED  BY <2>2, <3>1, <3>2
  <2>4. \A c \in Digests : Stored(c) => Stored(c)'
    BY <1>1, <1>3, <2>1 DEF Stored, Storing
  <2>5. Stored(d)'
    BY <2>1 DEF Stored, Storing
  <2>6. \A c \in Digests \ {d} : Needed(c)' => Needed(c)
    BY <1>3, <2>1, <2>2 DEF Needed, Cached
  <2>. QED  BY <2>3, <2>4, <2>5, <2>6, OneDigest, OneDigestNext
<1>. QED  BY <1>4, <1>5, <1>6, <1>7

LEMMA AddExpirationKeeps ==
  ASSUME TasksTyped, EveryEntryExpires, BatchesKept, NEW t \in Tasks, AddExpiration(t)
  PROVE  EveryEntryExpires' /\ BatchesKept'
<1>1. task[t] \in PersistTasks /\ task[t].pc = "expiration"
  BY TaskFields DEF AddExpiration, At
<1>2. /\ UNCHANGED <<db_cache, clear, signed, db>>
      /\ expirations' = expirations \cup {<<task[t].exp, task[t].digest>>}
  BY DEF AddExpiration
<1>3. /\ task'[t].pc = "save_batch" /\ task'[t].digest = task[t].digest
      /\ \A x \in Tasks \ {t} : task'[x] = task[x]
  BY <1>1, GoToKeeps DEF AddExpiration
<1>4. \A c \in DOMAIN db_cache : Expires(c) => Expires(c)'
  BY <1>2, <1>3 DEF Expires
<1>5. \A c \in Digests : Stored(c) => Stored(c)'
  BY <1>2, <1>3 DEF Stored, Storing
<1>6. \A c \in Digests : Needed(c)' => Needed(c)
  BY <1>2, <1>3 DEF Needed, Cached
<1>. QED  BY <1>2, <1>4, <1>5, <1>6, OneDigest, OneDigestNext

LEMMA SaveBatchKeeps ==
  ASSUME TasksTyped, EveryEntryExpires, BatchesKept, NEW t \in Tasks, SaveBatch(t)
  PROVE  EveryEntryExpires' /\ BatchesKept'
<1>1. task[t] \in PersistTasks /\ task[t].pc = "save_batch"
  BY TaskFields DEF SaveBatch, At
<1>0. PICK d \in Digests : d = task[t].digest
  BY <1>1 DEF PersistTasks
<1>2. UNCHANGED <<db_cache, clear, signed, expirations>> /\ db' = db \cup {d}
  BY <1>0 DEF SaveBatch
<1>3. /\ task'[t].pc = "notify" /\ task'[t].digest = d
      /\ \A x \in Tasks \ {t} : task'[x] = task[x]
  BY <1>0, <1>1, GoToKeeps DEF SaveBatch
<1>4. \A c \in DOMAIN db_cache : Expires(c) => Expires(c)'
  BY <1>1, <1>2, <1>3 DEF Expires
<1>5. \A c \in Digests : Stored(c) => Stored(c)'
  BY <1>0, <1>2, <1>3 DEF Stored, Storing
<1>6. \A c \in Digests \ {d} : Needed(c)' => Needed(c)
  BY <1>2, <1>3 DEF Needed, Cached
<1>7. Stored(d)'
  BY <1>2 DEF Stored
<1>. QED  BY <1>2, <1>4, <1>5, <1>6, <1>7, OneDigest, OneDigestNext

LEMMA SignKeeps ==
  ASSUME TasksTyped, EveryEntryExpires, BatchesKept, NEW t \in Tasks, SignAndNotify(t)
  PROVE  EveryEntryExpires' /\ BatchesKept'
<1>. DEFINE d == task[t].digest
<1>1. task[t].pc = "notify"
  BY DEF SignAndNotify, At
<1>2. UNCHANGED <<db_cache, clear, db, expirations>> /\ signed' = signed \cup {d}
  BY DEF SignAndNotify
<1>3. \A x \in Tasks : task'[x] = IF x = t \/ x \in Served(d) THEN IdleTask ELSE task[x]
  BY DEF SignAndNotify
<1>4. \A x \in Served(d) : task[x].pc = "request"
  BY DEF Served, At
<1>5. \A x \in Tasks : task'[x] = task[x] \/ (task[x].pc \in {"notify", "request"} /\ task'[x].pc = "idle")
  BY <1>1, <1>3, <1>4 DEF IdleTask
<1>6. \A c \in DOMAIN db_cache : Expires(c) => Expires(c)'
  BY <1>2, <1>5 DEF Expires
<1>7. \A c \in Digests : Stored(c) => Stored(c)'
  BY <1>2, <1>5 DEF Stored, Storing
<1>8. \A c \in Digests : Needed(c)' => Needed(c)
  BY <1>1, <1>2, <1>5 DEF Needed, Cached
<1>. QED  BY <1>2, <1>6, <1>7, <1>8, OneDigest, OneDigestNext

----------------------------------------------------------------------------
(* The other steps                                                         *)

LEMMA ClearKeeps ==
  ASSUME TasksTyped, EveryEntryExpires, BatchesKept, ClearStep
  PROVE  EveryEntryExpires' /\ BatchesKept'
<1>1. UNCHANGED <<db, signed, task>>
  BY DEF ClearStep, Expire, FreeCleared, ClearDone, ClearEntry, ClearMissing
<1>2. DOMAIN db_cache' \subseteq DOMAIN db_cache
  BY DEF ClearStep, Expire, FreeCleared, ClearDone, ClearEntry, ClearMissing, Without
<1>3. \A c \in Digests : (Stored(c) => Stored(c)') /\ (Needed(c)' => Needed(c))
  BY <1>1, <1>2 DEF Stored, Needed, Storing, Cached
<1>4. \A c \in DOMAIN db_cache' : Expires(c)'
  <2>. SUFFICES ASSUME NEW c \in DOMAIN db_cache' PROVE Expires(c)'
    OBVIOUS
  <2>1. Expires(c)
    BY <1>2, OneDigest
  <2>2. CASE Expire
    <3>1. clear.pc = "expire" /\ clear.time \in Times /\ UNCHANGED db_cache
      BY <2>2, ClearFields DEF Expire
    <3>2. /\ expirations' = expirations \ Expired(clear.time)
          /\ clear'.pc = "clearing" /\ clear'.time = clear.time
          /\ clear'.digests = {x[2] : x \in Expired(clear.time)}
      BY <2>2 DEF Expire
    <3>3. CASE <<db_cache[c].exp, c>> \in Expired(clear.time)
      <4>1. c \in clear'.digests
        BY <3>2, <3>3
      <4>2. db_cache[c].exp <= clear.time
        BY <3>3 DEF Expired
      <4>. QED  BY <3>1, <3>2, <4>1, <4>2 DEF Expires
    <3>4. CASE <<db_cache[c].exp, c>> \notin Expired(clear.time)
      BY <1>1, <2>1, <3>1, <3>2, <3>4 DEF Expires
    <3>. QED  BY <3>3, <3>4
  <2>3. ASSUME NEW d \in Digests, ClearEntry(d) PROVE Expires(c)'
    <3>1. clear \in [pc : {"clearing"}, time : Times, digests : SUBSET Digests] /\ UNCHANGED expirations
      BY <2>3, ClearFields DEF ClearEntry
    <3>2. CASE db_cache[d].exp <= clear.time
      <4>1. db_cache' = Without(db_cache, d) /\ clear' = Freeing(d)
        BY <2>3, <3>2 DEF ClearEntry
      <4>2. c # d /\ db_cache'[c] = db_cache[c]
        BY <4>1 DEF Without
      <4>3. clear'.pc = "free" /\ clear'.time = clear.time /\ clear'.digests = clear.digests \ {d}
        BY <4>1 DEF Freeing
      <4>. QED  BY <1>1, <2>1, <3>1, <4>2, <4>3 DEF Expires
    <3>3. CASE ~(db_cache[d].exp <= clear.time)
      <4>1. db_cache' = db_cache /\ clear' = [clear EXCEPT !.digests = @ \ {d}]
        BY <2>3, <3>3 DEF ClearEntry
      <4>2. clear'.pc = "clearing" /\ clear'.time = clear.time /\ clear'.digests = clear.digests \ {d}
        BY <3>1, <4>1
      <4>. QED  BY <1>1, <2>1, <3>1, <3>3, <4>1, <4>2 DEF Expires
    <3>. QED  BY <3>2, <3>3
  <2>4. CASE \E d \in Digests : ClearMissing(d)
    BY <2>4 DEF ClearMissing, Expires
  <2>5. CASE FreeCleared
    <3>1. UNCHANGED <<db_cache, expirations>> /\ clear.pc = "free" /\ clear'.pc = "clearing"
          /\ clear'.time = clear.time /\ clear'.digests = clear.digests
      BY <2>5 DEF FreeCleared
    <3>. QED  BY <1>1, <2>1, <3>1 DEF Expires
  <2>6. CASE ClearDone
    <3>1. UNCHANGED <<db_cache, expirations>> /\ clear.pc = "clearing" /\ clear.digests = {}
      BY <2>6 DEF ClearDone
    <3>. QED  BY <1>1, <2>1, <3>1 DEF Expires
  <2>. QED  BY <2>2, <2>3, <2>4, <2>5, <2>6 DEF ClearStep
<1>. QED  BY <1>3, <1>4, OneDigest, OneDigestNext

LEMMA CertifiedTimeKeeps ==
  ASSUME TasksTyped, EveryEntryExpires, BatchesKept, NEW time \in Times, UpdateCertifiedTimestamp(time)
  PROVE  EveryEntryExpires' /\ BatchesKept'
<1>1. UNCHANGED <<db_cache, expirations, db, signed, task>> /\ clear.pc = "idle"
  BY DEF UpdateCertifiedTimestamp
<1>2. \A c \in Digests : (Stored(c) => Stored(c)') /\ (Needed(c)' => Needed(c))
  BY <1>1 DEF Stored, Needed, Storing, Cached
<1>3. \A c \in DOMAIN db_cache : Expires(c) => Expires(c)'
  BY <1>1 DEF Expires
<1>. QED  BY <1>1, <1>2, <1>3, OneDigest, OneDigestNext

\* Tasks that begin to persist a batch, and readers.
LEMMA OtherTasksKeep ==
  ASSUME TasksTyped, EveryEntryExpires, BatchesKept,
         \/ \E t \in Writers, d \in Digests, e \in Times : Persist(t, d, e)
         \/ \E r \in Readers, d \in Digests : GetBatch(r, d)
         \/ \E r \in Readers : ReaderStep(r)
  PROVE  EveryEntryExpires' /\ BatchesKept'
<1>. DEFINE Aside(x) == task'[x] = task[x] \/ (~Storing(x) /\ task'[x].pc # "notify")
<1>1. UNCHANGED <<db_cache, expirations, clear, signed>> /\ db \subseteq db'
  BY DEF Persist, GetBatch, ReaderStep, Subscribe, Recheck, Tick, ResponseNotFound, ResponseBatch
<1>0. task = [x \in Tasks |-> task[x]] /\ Writers \subseteq Tasks /\ Readers \subseteq Tasks
  BY DEF TasksTyped, Tasks
\* It is enough to look at the task that takes the step.
<1>A. ASSUME NEW t \in Tasks, ~Storing(t), task'[t].pc # "notify",
             \A x \in Tasks \ {t} : task'[x] = task[x]
      PROVE  \A x \in Tasks : Aside(x)
  BY <1>A
<1>2. ASSUME NEW t \in Writers, NEW d \in Digests, NEW e \in Times, Persist(t, d, e)
      PROVE  \A x \in Tasks : Aside(x)
  <2>1. task[t].pc = "idle" /\ task' = [task EXCEPT ![t] = PersistTask(d, e)]
    BY <1>2 DEF Persist, At
  <2>2. PersistTask(d, e).pc = "insert"
    BY DEF PersistTask
  <2>3. task'[t].pc = "insert" /\ \A x \in Tasks \ {t} : task'[x] = task[x]
    BY <1>0, <2>1, <2>2
  <2>. QED  BY <1>0, <1>A, <2>1, <2>3 DEF Storing
<1>3. ASSUME NEW r \in Readers, NEW d \in Digests, GetBatch(r, d)
      PROVE  \A x \in Tasks : Aside(x)
  <2>1. CASE UNCHANGED task
    BY <2>1
  <2>2. CASE task' = [task EXCEPT ![r] = [pc |-> "subscribe", digest |-> d]]
    <3>1. task[r].pc = "idle"
      BY <1>3 DEF GetBatch, At
    <3>2. task'[r].pc = "subscribe" /\ \A x \in Tasks \ {r} : task'[x] = task[x]
      BY <1>0, <2>2
    <3>. QED  BY <1>0, <1>A, <3>1, <3>2 DEF Storing
  <2>. QED  BY <1>3, <2>1, <2>2 DEF GetBatch
<1>4. ASSUME NEW r \in Readers, ReaderStep(r)
      PROVE  \A x \in Tasks : Aside(x)
  <2>0. r \in Tasks
    BY DEF Tasks
  <2>1. CASE Subscribe(r)
    <3>1. task[r].pc = "subscribe" /\ task[r] \in ReadTasks
      BY <2>0, <2>1, TaskFields DEF Subscribe, At
    <3>2. task' = [task EXCEPT ![r] = [task[r] EXCEPT !.pc = "recheck"]]
      BY <2>1 DEF Subscribe, GoTo
    <3>3. [task[r] EXCEPT !.pc = "recheck"].pc = "recheck"
      BY <3>1 DEF ReadTasks
    <3>4. task'[r].pc = "recheck" /\ \A x \in Tasks \ {r} : task'[x] = task[x]
      BY <1>0, <3>2, <3>3
    <3>. QED  BY <1>0, <1>A, <3>1, <3>4 DEF Storing
  <2>2. CASE Recheck(r)
    <3>. DEFINE told == IF AvailableLocally(task[r].digest) THEN Served(task[r].digest) \cup {r} ELSE {}
    <3>1. task[r].pc = "recheck" /\ task[r] \in ReadTasks
      BY <2>0, <2>2, TaskFields DEF Recheck, At
    <3>2. PICK n \in 0 .. Signers : task' = [x \in Tasks |->
                IF x \in told \/ (x = r /\ n = 0) THEN IdleTask
                ELSE IF x = r THEN [task[x] EXCEPT !.pc = "request"] ELSE task[x]]
      BY <2>2 DEF Recheck
    <3>3. \A x \in told : x = r \/ task[x].pc = "request"
      BY DEF Served, At
    <3>. HIDE DEF told
    <3>4. [task[r] EXCEPT !.pc = "request"].pc = "request"
      BY <3>1 DEF ReadTasks
    <3>5. ASSUME NEW x \in Tasks PROVE Aside(x)
      <4>1. CASE x \in told \/ (x = r /\ n = 0)
        <5>1. task'[x].pc = "idle" /\ task[x].pc \in {"recheck", "request"}
          BY <3>1, <3>2, <3>3, <4>1 DEF IdleTask
        <5>. QED  BY <5>1 DEF Storing
      <4>2. CASE ~(x \in told \/ (x = r /\ n = 0)) /\ x = r
        <5>1. task'[x].pc = "request"
          BY <3>2, <3>4, <4>2
        <5>. QED  BY <3>1, <4>2, <5>1 DEF Storing
      <4>3. CASE ~(x \in told \/ (x = r /\ n = 0)) /\ x # r
        BY <3>2, <4>3
      <4>. QED  BY <4>1, <4>2, <4>3
    <3>. QED  BY <3>5
  <2>3. CASE Tick(r) \/ ResponseNotFound(r)
    <3>1. task[r].pc = "request" /\ (UNCHANGED task \/ Finish(r))
      BY <2>3 DEF Tick, ResponseNotFound, At
    <3>2. CASE Finish(r)
      BY <1>A, <2>0, <3>1, <3>2, FinishTyped DEF Storing, IdleTask
    <3>. QED  BY <3>1, <3>2
  <2>4. ASSUME NEW e \in Times, ResponseBatch(r, e) PROVE \A x \in Tasks : Aside(x)
    <3>1. /\ task[r].pc = "request"
          /\ \/ task' = [task EXCEPT ![r] = PersistTask(task[r].digest, e)]
             \/ task' = [task EXCEPT ![r] = IdleTask]
      BY <2>4 DEF ResponseBatch, At
    <3>2. PersistTask(task[r].digest, e).pc = "insert" /\ IdleTask.pc = "idle"
      BY DEF PersistTask, IdleTask
    <3>3. task'[r].pc \in {"insert", "idle"} /\ \A x \in Tasks \ {r} : task'[x] = task[x]
      BY <1>0, <3>1, <3>2
    <3>. QED  BY <1>A, <2>0, <3>1, <3>3 DEF Storing
  <2>. QED  BY <1>4, <2>1, <2>2, <2>3, <2>4 DEF ReaderStep
<1>5. \A x \in Tasks : Aside(x)
  BY <1>2, <1>3, <1>4
<1>. QED  BY <1>1, <1>5, BystandersKeep

----------------------------------------------------------------------------
(* The theorem                                                             *)

Safe == TasksTyped /\ StoreTyped /\ EveryEntryExpires /\ BatchesKept

LEMMA SafeNext == Safe /\ [Next]_vars => Safe'
<1>. SUFFICES ASSUME Safe, [Next]_vars PROVE Safe'
  OBVIOUS
<1>1. TasksTyped' /\ StoreTyped'
  BY TasksTypedNext, ClearTypedNext, StoreTypedNext DEF Safe, TasksTyped, ClearTypes
<1>2. CASE UNCHANGED vars
  <2>1. EveryEntryExpires' /\ BatchesKept'
    BY <1>2, BystandersKeep DEF Safe, vars
  <2>. QED  BY <1>1, <2>1 DEF Safe
<1>3. CASE Next
  <2>1. EveryEntryExpires' /\ BatchesKept'
    BY <1>3, InsertKeeps, AddExpirationKeeps, SaveBatchKeeps, SignKeeps, ClearKeeps, CertifiedTimeKeeps,
       OtherTasksKeep DEF Safe, Next, PersistStep
  <2>. QED  BY <1>1, <2>1 DEF Safe
<1>. QED  BY <1>2, <1>3

\* Every entry of the cache expires, and every batch that was signed is stored
\* (insert_to_cache, clear_expired_payload, persist_inner).
THEOREM CachedExpiresSignedStays == Spec => []BatchesStay
<1>1. Init => Safe
  BY TypedInit, SafeInit DEF Safe, StoreTyped, Init
<1>2. Safe => BatchesStay
  BY DEF Safe, StoreTyped, BatchesStay, SignedIsStored, BatchesKept
<1>. QED  BY <1>1, <1>2, SafeNext, PTL DEF Spec

----------------------------------------------------------------------------
(* EpochManager: the processors of an epoch *)

States == {"none", "running", "closing", "stopped"}

Typed ==
  /\ epoch \in AllEpochs /\ network \in AllEpochs
  /\ loop \in {"select", "shutdown", "sync_to"}
  /\ channels \in [Channels -> AllEpochs \cup {NoEpoch}]
  /\ round_managers \in [AllEpochs -> States]
  /\ proofs \in [AllEpochs -> Nat]

\* The round manager of an earlier epoch has stopped, that of a later one has not started, and
\* the current one is where the loop of the epoch manager has brought it.
ManagersFollowLoop ==
  \A e \in AllEpochs : round_managers[e] =
    IF e < epoch THEN "stopped"
    ELSE IF e > epoch THEN "none"
    ELSE IF loop = "select" THEN "running"
    ELSE IF loop = "shutdown" THEN "closing"
    ELSE "stopped"

\* An epoch that was proved to have ended, or is being left, has ended in the network.
ProvedHasEnded ==
  /\ epoch <= network
  /\ loop # "select" => epoch < network
  /\ \A e \in AllEpochs : proofs[e] > 0 => e < network

\* Until the processors are shut down, every channel is one of the current epoch.
ChannelsFollowEpoch ==
  loop # "sync_to" =>
    \A c \in Channels :
      /\ channels[c] \in {NoEpoch, epoch}
      /\ c # "quorum_store" => channels[c] = epoch

\* A task verifies a message of the epoch of the channels it holds.
TasksHoldOwnChannels ==
  \A t \in verifying :
    /\ t.event.kind \in Kinds
    /\ t.event.epoch \in AllEpochs
    /\ \A c \in Channels : t.channels[c] \in {NoEpoch, t.event.epoch}

EpochInv ==
  /\ Typed
  /\ ManagersFollowLoop
  /\ ProvedHasEnded
  /\ ChannelsFollowEpoch
  /\ TasksHoldOwnChannels
  /\ EventsOfOwnEpoch

----------------------------------------------------------------------------
\* The first epoch has its round manager, and nothing is in flight.
LEMMA EpochInvInit == EmInit => EpochInv
<1> SUFFICES ASSUME EmInit PROVE EpochInv
  OBVIOUS
<1>1. 1 \in AllEpochs /\ NoEpoch = 0
  BY EpochsAreNumbers DEF AllEpochs, NoEpoch
<1>2. Typed
  BY <1>1 DEF EmInit, Typed, States, QuorumStoreTx
<1>3. ManagersFollowLoop
  BY <1>1, EpochsAreNumbers DEF EmInit, ManagersFollowLoop, AllEpochs
<1>4. ProvedHasEnded /\ ChannelsFollowEpoch
  BY <1>1 DEF EmInit, ProvedHasEnded, ChannelsFollowEpoch, QuorumStoreTx
<1>5. TasksHoldOwnChannels /\ EventsOfOwnEpoch
  BY DEF EmInit, TasksHoldOwnChannels, EventsOfOwnEpoch
<1> QED
  BY <1>2, <1>3, <1>4, <1>5 DEF EpochInv

\* What Push adds to the queues is the event, under the epoch whose receiver it reached
\* (Push is a sender whose receiver may be gone).
LEMMA PushAdds ==
  ASSUME NEW c, NEW o, NEW v, Push(c, o, v), EventsOfOwnEpoch,
         o # NoEpoch => (v.kind # "LocalTimeout" => v.epoch = o)
  PROVE  EventsOfOwnEpoch'
<1>1. CASE Alive(o)
  <2>1. o # NoEpoch
    BY <1>1 DEF Alive
  <2>2. inbox' = inbox \cup {Item(c, o, v)}
    BY <1>1 DEF Push
  <2>3. Item(c, o, v).event = v /\ Item(c, o, v).owner = o
    BY DEF Item
  <2> QED
    BY <2>1, <2>2, <2>3 DEF EventsOfOwnEpoch
<1>2. CASE ~Alive(o)
  BY <1>2 DEF Push, EventsOfOwnEpoch
<1> QED
  BY <1>1, <1>2

\* A step that leaves the loop, the channels, the round managers and the proofs alone, and the
\* epochs, keeps what is said about them.
LEMMA LoopUnchanged ==
  ASSUME EpochInv, UNCHANGED <<epoch, loop, channels, round_managers, proofs, network>>
  PROVE  Typed' /\ ManagersFollowLoop' /\ ProvedHasEnded' /\ ChannelsFollowEpoch'
  BY DEF EpochInv, Typed, ManagersFollowLoop, ProvedHasEnded, ChannelsFollowEpoch

\* An event that process_different_epoch makes for the round manager names its own epoch.
LEMMA DifferentEpochKeeps ==
  ASSUME EpochInv, loop = "select", NEW e, NEW from, ProcessDifferentEpoch(e, from)
  PROVE  EventsOfOwnEpoch'
<1>1. CASE e > epoch
  <2>1. Push("round_manager", channels["round_manager"], Event("EpochChange", epoch, from))
    BY <1>1 DEF ProcessDifferentEpoch
  <2>2. channels["round_manager"] = epoch
    BY DEF EpochInv, ChannelsFollowEpoch, Channels
  <2>3. Event("EpochChange", epoch, from).epoch = epoch
    BY DEF Event
  <2> QED
    BY <2>1, <2>2, <2>3, PushAdds DEF EpochInv
<1>2. CASE ~(e > epoch)
  BY <1>2 DEF ProcessDifferentEpoch, EpochInv, EventsOfOwnEpoch
<1> QED
  BY <1>1, <1>2

\* Every step of the epoch manager, of a task, of a round manager or of the network keeps the
\* invariant.
LEMMA EpochInvStep == EpochInv /\ [EmNext]_emVars => EpochInv'
<1> SUFFICES ASSUME EpochInv, [EmNext]_emVars PROVE EpochInv'
  OBVIOUS
<1> USE DEF EpochInv
<1>1. ASSUME NEW kind \in Kinds, NEW e \in AllEpochs, NEW p \in Senders, ProcessMessage(kind, e, p)
      PROVE  EpochInv'
  <2>1. Typed' /\ ManagersFollowLoop' /\ ProvedHasEnded' /\ ChannelsFollowEpoch'
    BY <1>1, LoopUnchanged DEF ProcessMessage
  <2>2. CASE e # epoch
    <3>1. ProcessDifferentEpoch(e, p) /\ UNCHANGED verifying /\ loop = "select"
      BY <1>1, <2>2 DEF ProcessMessage
    <3>2. EventsOfOwnEpoch'
      BY <3>1, DifferentEpochKeeps
    <3>3. TasksHoldOwnChannels'
      BY <3>1 DEF TasksHoldOwnChannels
    <3> QED
      BY <2>1, <3>2, <3>3
  <2>3. CASE e = epoch
    <3> DEFINE check == [event |-> Event(kind, e, p), verifier |-> epoch, channels |-> channels]
    <3>1. verifying' = verifying \cup {check} /\ UNCHANGED inbox /\ loop = "select"
      BY <1>1, <2>3 DEF ProcessMessage
    <3>2. check.event.kind = kind /\ check.event.epoch = epoch /\ check.channels = channels
      BY <2>3 DEF Event
    <3> HIDE DEF check
    <3>3. TasksHoldOwnChannels'
      BY <3>1, <3>2 DEF TasksHoldOwnChannels, ChannelsFollowEpoch, Typed
    <3>4. EventsOfOwnEpoch'
      BY <3>1 DEF EventsOfOwnEpoch
    <3> QED
      BY <2>1, <3>3, <3>4
  <2> QED
    BY <2>2, <2>3
<1>2. ASSUME NEW check \in verifying, NEW valid \in BOOLEAN, VerifyAndForward(check, valid)
      PROVE  EpochInv'
  <2>1. Typed' /\ ManagersFollowLoop' /\ ProvedHasEnded' /\ ChannelsFollowEpoch'
    BY <1>2, LoopUnchanged DEF VerifyAndForward
  <2>2. TasksHoldOwnChannels'
    BY <1>2 DEF VerifyAndForward, TasksHoldOwnChannels
  <2>3. CASE valid
    <3> DEFINE channel == ChannelOf(check.event.kind)
    <3>1. Push(channel, check.channels[channel], check.event)
      BY <1>2, <2>3 DEF VerifyAndForward
    <3>2. channel \in Channels
      BY DEF ChannelOf, Channels
    <3>3. check.channels[channel] \in {NoEpoch, check.event.epoch}
      BY <3>2 DEF TasksHoldOwnChannels
    <3> QED
      BY <2>1, <2>2, <3>1, <3>3, PushAdds
  <2>4. CASE ~valid
    BY <1>2, <2>1, <2>2, <2>4 DEF VerifyAndForward, EventsOfOwnEpoch
  <2> QED
    BY <2>3, <2>4
<1>3. ASSUME NEW kind \in AnyEpochRequests \cup {"rand_manager"}, NEW e \in AllEpochs,
             NEW p \in Senders, ProcessRpcRequest(kind, e, p)
      PROVE  EpochInv'
  <2>1. Typed' /\ ManagersFollowLoop' /\ ProvedHasEnded' /\ ChannelsFollowEpoch'
    BY <1>3, LoopUnchanged DEF ProcessRpcRequest
  <2>2. TasksHoldOwnChannels' /\ loop = "select"
    BY <1>3 DEF ProcessRpcRequest, TasksHoldOwnChannels
  <2>3. CASE e # epoch
    BY <1>3, <2>1, <2>2, <2>3, DifferentEpochKeeps DEF ProcessRpcRequest
  <2>4. CASE e = epoch
    <3>1. Push(kind, channels[kind], Event(kind, e, p))
      BY <1>3, <2>4 DEF ProcessRpcRequest
    <3>2. channels[kind] = epoch
      BY <2>2 DEF ChannelsFollowEpoch, Channels, AnyEpochRequests
    <3>3. Event(kind, e, p).epoch = epoch
      BY <2>4 DEF Event
    <3> QED
      BY <2>1, <2>2, <3>1, <3>2, <3>3, PushAdds
  <2> QED
    BY <2>3, <2>4
<1>4. ASSUME NEW e \in AllEpochs, ProcessLocalTimeout(e) PROVE EpochInv'
  <2>1. Typed' /\ ManagersFollowLoop' /\ ProvedHasEnded' /\ ChannelsFollowEpoch'
    BY <1>4, LoopUnchanged DEF ProcessLocalTimeout
  <2>2. TasksHoldOwnChannels'
    BY <1>4 DEF ProcessLocalTimeout, TasksHoldOwnChannels
  <2>3. Event("LocalTimeout", e, "self").kind = "LocalTimeout"
    BY DEF Event
  <2>4. EventsOfOwnEpoch'
    <3>1. CASE is_current_epoch_validator
      BY <1>4, <2>3, <3>1, PushAdds DEF ProcessLocalTimeout
    <3>2. CASE ~is_current_epoch_validator
      BY <1>4, <3>2 DEF ProcessLocalTimeout, EventsOfOwnEpoch
    <3> QED
      BY <3>1, <3>2
  <2> QED
    BY <2>1, <2>2, <2>4
<1>5. CASE RequestSyncInfo
  BY <1>5, LoopUnchanged DEF RequestSyncInfo, TasksHoldOwnChannels, EventsOfOwnEpoch
<1>6. ASSUME NEW e \in AllEpochs \cup {NoEpoch}, NEW p \in Senders, AnswerSyncInfo(e, p)
      PROVE  EpochInv'
  BY <1>6, LoopUnchanged DEF AnswerSyncInfo, TasksHoldOwnChannels, EventsOfOwnEpoch
<1>7. CASE AdvanceBlockSync
  <2>1. Typed' /\ ManagersFollowLoop' /\ ProvedHasEnded' /\ ChannelsFollowEpoch'
    BY <1>7, LoopUnchanged DEF AdvanceBlockSync
  <2>2. TasksHoldOwnChannels' /\ loop = "select"
    BY <1>7 DEF AdvanceBlockSync, TasksHoldOwnChannels
  <2>3. channels["round_manager"] = epoch
    BY <2>2 DEF ChannelsFollowEpoch, Channels
  <2>4. EventsOfOwnEpoch'
    <3>1. PICK reply \in sync_request.answer :
            IF is_current_epoch_validator \/ reply.epoch < epoch
            THEN UNCHANGED inbox
            ELSE IF reply.epoch = epoch
                 THEN Push("round_manager", channels["round_manager"], reply)
                 ELSE Push("round_manager", channels["round_manager"],
                           Event("EpochChange", epoch, reply.from))
      BY <1>7 DEF AdvanceBlockSync
    <3>2. CASE is_current_epoch_validator \/ reply.epoch < epoch
      BY <3>1, <3>2 DEF EventsOfOwnEpoch
    <3>3. CASE ~(is_current_epoch_validator \/ reply.epoch < epoch) /\ reply.epoch = epoch
      BY <2>3, <3>1, <3>3, PushAdds
    <3>4. CASE ~(is_current_epoch_validator \/ reply.epoch < epoch) /\ reply.epoch # epoch
      <4>1. Event("EpochChange", epoch, reply.from).epoch = epoch
        BY DEF Event
      <4> QED
        BY <2>3, <3>1, <3>4, <4>1, PushAdds
    <3> QED
      BY <3>2, <3>3, <3>4
  <2> QED
    BY <2>1, <2>2, <2>4
<1>8. ASSUME NEW e \in AllEpochs, ProcessEpochChangeProof(e) PROVE EpochInv'
  <2>1. loop = "select" /\ proofs[e] > 0 /\ proofs' = [proofs EXCEPT ![e] = @ - 1]
        /\ UNCHANGED <<epoch, channels, verifying, inbox, network>>
    BY <1>8 DEF ProcessEpochChangeProof
  <2>2. e < network
    BY <2>1 DEF ProvedHasEnded
  <2>3. Typed'
    BY <1>8, <2>1 DEF ProcessEpochChangeProof, Typed, States
  <2>4. ManagersFollowLoop'
    <3>1. CASE e = epoch
      <4>1. loop' = "shutdown" /\ round_managers' = [round_managers EXCEPT ![e] = "closing"]
        BY <1>8, <3>1 DEF ProcessEpochChangeProof
      <4>2. ASSUME NEW d \in AllEpochs, d # epoch PROVE d < epoch \/ d > epoch
        BY <4>2 DEF Typed, AllEpochs
      <4>3. ~(epoch < epoch) /\ ~(epoch > epoch)
        BY DEF Typed, AllEpochs
      <4> QED
        BY <2>1, <3>1, <4>1, <4>2, <4>3 DEF Typed, ManagersFollowLoop
    <3>2. CASE e # epoch
      BY <1>8, <2>1, <3>2 DEF ProcessEpochChangeProof, ManagersFollowLoop
    <3> QED
      BY <3>1, <3>2
  <2>5. ProvedHasEnded'
    <3>1. \A d \in AllEpochs : proofs'[d] > 0 => d < network
      BY <2>1, <2>2 DEF Typed, ProvedHasEnded
    <3>2. loop' # "select" => epoch < network
      BY <1>8, <2>1, <2>2 DEF ProcessEpochChangeProof
    <3> QED
      BY <2>1, <3>1, <3>2 DEF ProvedHasEnded
  <2>6. ChannelsFollowEpoch'
    BY <2>1 DEF ChannelsFollowEpoch
  <2>7. TasksHoldOwnChannels' /\ EventsOfOwnEpoch'
    BY <2>1 DEF TasksHoldOwnChannels, EventsOfOwnEpoch
  <2> QED
    BY <2>3, <2>4, <2>5, <2>6, <2>7
<1>9. CASE ShutdownCurrentProcessor
  <2>1. Typed'
    BY <1>9 DEF ShutdownCurrentProcessor, Typed, States
  <2>2. ManagersFollowLoop'
    BY <1>9 DEF ShutdownCurrentProcessor, Typed, ManagersFollowLoop, AllEpochs
  <2>3. ProvedHasEnded' /\ ChannelsFollowEpoch'
    BY <1>9 DEF ShutdownCurrentProcessor, ProvedHasEnded, ChannelsFollowEpoch
  <2>4. TasksHoldOwnChannels' /\ EventsOfOwnEpoch'
    BY <1>9 DEF ShutdownCurrentProcessor, TasksHoldOwnChannels, EventsOfOwnEpoch
  <2> QED
    BY <2>1, <2>2, <2>3, <2>4
<1>10. CASE StartNewEpoch
  <2>1. epoch < network /\ epoch + 1 \in AllEpochs
    BY <1>10, EpochsAreNumbers DEF StartNewEpoch, ProvedHasEnded, Typed, AllEpochs
  <2>2. Typed'
    BY <1>10, <2>1 DEF StartNewEpoch, StartRoundManager, QuorumStoreTx, Typed, States
  <2>3. ManagersFollowLoop'
    BY <1>10, <2>1 DEF StartNewEpoch, StartRoundManager, Typed, ManagersFollowLoop, AllEpochs
  <2>4. ProvedHasEnded'
    BY <1>10, <2>1 DEF StartNewEpoch, Typed, ProvedHasEnded, AllEpochs
  <2>5. ChannelsFollowEpoch'
    BY <1>10 DEF StartNewEpoch, StartRoundManager, QuorumStoreTx, ChannelsFollowEpoch
  <2>6. TasksHoldOwnChannels' /\ EventsOfOwnEpoch'
    BY <1>10 DEF StartNewEpoch, TasksHoldOwnChannels, EventsOfOwnEpoch
  <2> QED
    BY <2>2, <2>3, <2>4, <2>5, <2>6
<1>11. ASSUME NEW item \in inbox, HandleEvent(item) PROVE EpochInv'
  BY <1>11, LoopUnchanged DEF HandleEvent, TasksHoldOwnChannels, EventsOfOwnEpoch
<1>12. ASSUME NEW item \in inbox, NEW outcome \in {"failed", "returned", "synced"},
              HandleEpochChange(item, outcome)
       PROVE  EpochInv'
  <2>1. TasksHoldOwnChannels' /\ EventsOfOwnEpoch'
    BY <1>12 DEF HandleEpochChange, FastForwardSyncByEpoch, TasksHoldOwnChannels, EventsOfOwnEpoch
  <2>2. UNCHANGED <<epoch, loop, channels, round_managers, network>>
    BY <1>12 DEF HandleEpochChange, FastForwardSyncByEpoch
  <2>3. CASE outcome = "synced"
    <3>1. network > item.owner /\ proofs' = [proofs EXCEPT ![item.owner] = @ + 1]
      BY <1>12, <2>3 DEF HandleEpochChange, FastForwardSyncByEpoch, SendProof
    <3>2. proofs' \in [AllEpochs -> Nat]
      <4>1. CASE item.owner \in AllEpochs
        BY <3>1, <4>1 DEF Typed
      <4>2. CASE item.owner \notin AllEpochs
        BY <3>1, <4>2 DEF Typed
      <4> QED
        BY <4>1, <4>2
    <3>4. Typed' /\ ManagersFollowLoop' /\ ChannelsFollowEpoch'
      BY <2>2, <3>2 DEF Typed, ManagersFollowLoop, ChannelsFollowEpoch
    <3>3. ProvedHasEnded'
      <4>1. ASSUME NEW d \in AllEpochs, proofs'[d] > 0 PROVE d < network
        <5>1. CASE d = item.owner
          BY <3>1, <5>1 DEF Typed, AllEpochs
        <5>2. CASE d # item.owner
          BY <3>1, <4>1, <5>2 DEF Typed, ProvedHasEnded
        <5> QED
          BY <5>1, <5>2
      <4> QED
        BY <2>2, <4>1 DEF ProvedHasEnded
    <3> QED
      BY <2>1, <3>3, <3>4
  <2>4. CASE outcome # "synced"
    BY <1>12, <2>1, <2>4, LoopUnchanged DEF HandleEpochChange, FastForwardSyncByEpoch
  <2> QED
    BY <2>3, <2>4
<1>13. ASSUME NEW e \in AllEpochs, CommitEndsEpoch(e) PROVE EpochInv'
  <2>1. e <= epoch
    BY <1>13 DEF CommitEndsEpoch, ManagersFollowLoop, Typed, AllEpochs
  <2>2. /\ e < LastEpoch
        /\ network' = IF network = e THEN e + 1 ELSE network
        /\ proofs' = [proofs EXCEPT ![e] = @ + 1]
        /\ UNCHANGED <<epoch, loop, channels, round_managers>>
    BY <1>13 DEF CommitEndsEpoch, SendProof
  <2>3. Typed'
    BY <2>2, EpochsAreNumbers DEF Typed, AllEpochs
  <2>4. ManagersFollowLoop' /\ ChannelsFollowEpoch'
    BY <2>2 DEF ManagersFollowLoop, ChannelsFollowEpoch
  <2>5. ProvedHasEnded'
    BY <2>1, <2>2 DEF Typed, ProvedHasEnded, AllEpochs
  <2>6. TasksHoldOwnChannels' /\ EventsOfOwnEpoch'
    BY <1>13 DEF CommitEndsEpoch, TasksHoldOwnChannels, EventsOfOwnEpoch
  <2> QED
    BY <2>3, <2>4, <2>5, <2>6
<1>14. ASSUME NEW e \in AllEpochs, SetupTimeout(e) PROVE EpochInv'
  BY <1>14, LoopUnchanged DEF SetupTimeout, TasksHoldOwnChannels, EventsOfOwnEpoch
<1>15. CASE NetworkMovesOn
  <2>1. network < LastEpoch /\ network' = network + 1 /\ UNCHANGED <<epoch, loop, channels, round_managers, proofs>>
    BY <1>15 DEF NetworkMovesOn
  <2>2. Typed'
    BY <2>1, EpochsAreNumbers DEF Typed, AllEpochs
  <2>3. ManagersFollowLoop' /\ ChannelsFollowEpoch'
    BY <2>1 DEF ManagersFollowLoop, ChannelsFollowEpoch
  <2>4. ProvedHasEnded'
    BY <2>1 DEF Typed, ProvedHasEnded, AllEpochs
  <2>5. TasksHoldOwnChannels' /\ EventsOfOwnEpoch'
    BY <1>15 DEF NetworkMovesOn, TasksHoldOwnChannels, EventsOfOwnEpoch
  <2> QED
    BY <2>2, <2>3, <2>4, <2>5
<1>16. CASE UNCHANGED emVars
  BY <1>16, LoopUnchanged DEF emVars, TasksHoldOwnChannels, EventsOfOwnEpoch
<1> QED
  BY <1>1, <1>2, <1>3, <1>4, <1>5, <1>6, <1>7, <1>8, <1>9, <1>10, <1>11, <1>12, <1>13, <1>14, <1>15,
     <1>16 DEF EmNext

LEMMA EpochInvHolds == EmSpec => []EpochInv
  BY EpochInvInit, EpochInvStep, PTL DEF EmSpec

----------------------------------------------------------------------------
\* Whatever is in a queue of a processor is of the processor's epoch, for every interleaving of
\* the verifying tasks with the change of the epoch (forward_event, shutdown_current_processor).
THEOREM QueuesKeepEpochsApart == EmSpec => []EventsOfOwnEpoch
<1>1. EpochInv => EventsOfOwnEpoch
  BY DEF EpochInv
<1> QED
  BY <1>1, EpochInvHolds, PTL

\* The round managers take turns, and the loop takes an event only when all its channels are those
\* of the current epoch (shutdown_current_processor, start_new_epoch).
THEOREM RoundManagersTakeTurns == EmSpec => []OneProcessorAtATime
<1>1. EpochInv => OneProcessorAtATime
  <2> SUFFICES ASSUME EpochInv PROVE OneProcessorAtATime
    OBVIOUS
  <2>1. \A e \in AllEpochs : round_managers[e] \in {"running", "closing"} => e = epoch
    BY DEF EpochInv, Typed, ManagersFollowLoop, AllEpochs
  <2>2. \A e \in AllEpochs : round_managers[e] = "stopped" => e < epoch \/ loop = "sync_to"
    BY DEF EpochInv, Typed, ManagersFollowLoop, AllEpochs
  <2>3. loop = "select" => round_managers[epoch] = "running"
    BY DEF EpochInv, Typed, ManagersFollowLoop, AllEpochs
  <2>4. loop = "select" => \A c \in Channels \ {"quorum_store"} : channels[c] = epoch
    BY DEF EpochInv, ChannelsFollowEpoch
  <2> QED
    BY <2>1, <2>2, <2>3, <2>4 DEF OneProcessorAtATime
<1> QED
  BY <1>1, EpochInvHolds, PTL

\* The epoch moves by one, and only when it has ended in the network, however many proofs of its
\* end arrive and whenever they do (check_epoch, initiate_new_epoch).
THEOREM EpochsEndInOrder == EmSpec => EpochEndsOnce
<1>1. EpochInv /\ [EmNext]_emVars => [epoch' # epoch => epoch' = epoch + 1 /\ network > epoch]_emVars
  <2> SUFFICES ASSUME EpochInv, EmNext, epoch' # epoch
               PROVE  epoch' = epoch + 1 /\ network > epoch
    OBVIOUS
  <2>1. StartNewEpoch
    BY DEF EmNext, ProcessMessage, VerifyAndForward, ProcessRpcRequest, ProcessLocalTimeout,
           RequestSyncInfo, AnswerSyncInfo, AdvanceBlockSync, ProcessEpochChangeProof,
           ShutdownCurrentProcessor, HandleEvent, HandleEpochChange, FastForwardSyncByEpoch, CommitEndsEpoch,
           SetupTimeout, NetworkMovesOn
  <2> QED
    BY <2>1 DEF StartNewEpoch, EpochInv, ProvedHasEnded, Typed, AllEpochs
<1> QED
  BY <1>1, EpochInvHolds, PTL DEF EmSpec, EpochEndsOnce
=============================================================================
