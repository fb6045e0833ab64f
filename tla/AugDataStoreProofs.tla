------------------------- MODULE AugDataStoreProofs -------------------------
(***************************************************************************)
(* One certified key per author and epoch, for every set of validators and *)
(* of keys, every number of epochs and of crashes, and every quorum system *)
(* in which two quorums share an honest validator.                         *)
(*                                                                         *)
(* The inductive invariant is TypeOK /\ KeysAreSaved /\ SignsOnce: the     *)
(* database is ahead of what a validator signs, and what is in memory in   *)
(* an epoch is what the database has of it, so that a validator that lost  *)
(* its memory cannot sign anything else.                                   *)
(***************************************************************************)
EXTENDS AugDataStore, TLAPS

LEMMA TypeInit == ASSUME KeysAreKeys PROVE Init => TypeOK
  BY DEF Init, TypeOK, KeysAreKeys, Nothing, Epochs

\* Entries that AugDataStore::new reads are entries of the epoch.
LEMMA ByAuthorTyped ==
  ASSUME NEW db \in SUBSET Entries
  PROVE  ByAuthor(db) \in [Authors -> Keys \cup {0}]
<1>. SUFFICES ASSUME NEW a \in Authors, \E d \in db : d.author = a
              PROVE  (CHOOSE d \in db : d.author = a).data \in Keys
  BY DEF ByAuthor
<1>1. (CHOOSE d \in db : d.author = a) \in db
  OBVIOUS
<1>. QED  BY <1>1 DEF Entries

LEMMA EntryTyped ==
  ASSUME NEW e \in Epochs, NEW a \in Authors, NEW d \in Keys, NEW v \in Honest
  PROVE  /\ Entry(e, a, d) \in Entries
         /\ SignatureOf(e, a, d, v) \in [epoch : Epochs, author : Authors, data : Keys, signer : Honest]
  BY DEF Entry, SignatureOf, Entries

\* add_aug_data of a value keeps the types.
LEMMA AddAugDataTyped ==
  ASSUME TypeOK, NEW v \in Honest, NEW a \in Authors, NEW d \in Keys, running[v], AddAugData(v, a, d)
  PROVE  /\ data' \in [Honest -> [Authors -> Keys \cup {0}]]
         /\ data_db' \in [Honest -> SUBSET Entries]
         /\ signatures' \subseteq [epoch : Epochs, author : Authors, data : Keys, signer : Honest]
<1>1. epoch[v] \in Epochs
  BY DEF TypeOK
<1>. DEFINE new == Entry(epoch[v], a, d)
<1>2. new \in Entries
  BY <1>1, EntryTyped
<1>3. data_db' \in {data_db, [data_db EXCEPT ![v] = @ \cup {new}]}
  BY DEF AddAugData, SaveAugData
<1>4. data_db' \in [Honest -> SUBSET Entries]
  <2>. HIDE DEF new
  <2>1. CASE data_db' = data_db
    BY <2>1 DEF TypeOK
  <2>2. CASE data_db' = [data_db EXCEPT ![v] = @ \cup {new}]
    BY <1>2, <2>2 DEF TypeOK
  <2>. QED  BY <1>3, <2>1, <2>2
<1>5. data' \in [Honest -> [Authors -> Keys \cup {0}]]
  BY DEF AddAugData, TypeOK
<1>6. signatures' \subseteq [epoch : Epochs, author : Authors, data : Keys, signer : Honest]
  BY <1>1, EntryTyped DEF AddAugData, TypeOK
<1>. QED  BY <1>4, <1>5, <1>6

LEMMA LoseMemoryTyped ==
  ASSUME TypeOK, NEW v \in Honest, LoseMemory(v)
  PROVE  /\ running' \in [Honest -> BOOLEAN]
         /\ key' \in [Honest -> Keys \cup {0}] /\ own_apk' \in [Honest -> Keys \cup {0}]
         /\ data' \in [Honest -> [Authors -> Keys \cup {0}]]
         /\ certified' \in [Honest -> [Authors -> Keys \cup {0}]]
         /\ ~running'[v] /\ key'[v] = 0
         /\ \A w \in Honest \ {v} : running'[w] = running[w] /\ key'[w] = key[w]
  BY DEF LoseMemory, TypeOK, Nothing

\* Every step keeps the type invariant.
LEMMA TypeNext ==
  ASSUME KeysAreKeys, TypeOK, [Next]_vars
  PROVE  TypeOK'
<1>0. CASE UNCHANGED vars
  BY <1>0 DEF TypeOK, vars, memory, disk
<1>1. ASSUME NEW v \in Honest, NEW e \in Epochs, NEW k \in Keys, GetRandConfig(v, e, k)
      PROVE  TypeOK'
  BY <1>1 DEF GetRandConfig, TypeOK, KeysAreKeys, Epochs
<1>2. ASSUME NEW v \in Honest, NewStore(v)
      PROVE  TypeOK'
  <2>1. OfEpoch(data_db[v], epoch[v]) \in SUBSET Entries
    BY DEF OfEpoch, TypeOK
  <2>2. OfEpoch(certified_db[v], epoch[v]) \in SUBSET Entries
    BY DEF OfEpoch, TypeOK
  <2>3. data' \in [Honest -> [Authors -> Keys \cup {0}]]
    BY <1>2, <2>1, ByAuthorTyped DEF NewStore, TypeOK
  <2>4. certified' \in [Honest -> [Authors -> Keys \cup {0}]]
    BY <1>2, <2>2, ByAuthorTyped DEF NewStore, TypeOK
  <2>5. own_apk' \in [Honest -> Keys \cup {0}]
    BY <1>2, <2>4 DEF NewStore, TypeOK
  <2>. QED  BY <1>2, <2>1, <2>2, <2>3, <2>4, <2>5 DEF NewStore, TypeOK
<1>3. ASSUME NEW v \in Honest \cap Authors, BroadcastAugData(v)
      PROVE  TypeOK'
  <2>1. PICK d \in Keys : AddAugData(v, v, d)
    <3>1. IF data[v][v] = 0 THEN key[v] \in Keys ELSE data[v][v] \in Keys
      BY <1>3 DEF BroadcastAugData, TypeOK
    <3>. QED  BY <1>3, <3>1 DEF BroadcastAugData
  <2>2. running[v]
    BY <1>3 DEF BroadcastAugData
  <2>3. own_apk' \in [Honest -> Keys \cup {0}]
    BY <1>3 DEF BroadcastAugData, TypeOK
  <2>. QED  BY <1>3, <2>1, <2>2, <2>3, AddAugDataTyped DEF BroadcastAugData, TypeOK
<1>4. ASSUME NEW v \in Honest, NEW a \in Authors, NEW d \in Keys, HandleAugData(v, a, d)
      PROVE  TypeOK'
  BY <1>4, AddAugDataTyped DEF HandleAugData, TypeOK
<1>5. ASSUME NEW v \in Honest, NEW a \in Authors, NEW d \in Keys, CrashAfterSave(v, a, d)
      PROVE  TypeOK'
  <2>1. Entry(epoch[v], a, d) \in Entries
    BY <1>5, EntryTyped DEF CrashAfterSave, TypeOK
  <2>2. data_db' \in [Honest -> SUBSET Entries]
    BY <1>5, <2>1 DEF CrashAfterSave, SaveAugData, TypeOK
  <2>. QED  BY <1>5, <2>2, LoseMemoryTyped DEF CrashAfterSave, TypeOK
<1>6. ASSUME NEW v \in Honest, NEW a \in Authors, NEW d \in Keys, AddCertifiedAugData(v, a, d)
      PROVE  TypeOK'
  <2>1. Entry(epoch[v], a, d) \in Entries
    BY <1>6, EntryTyped DEF AddCertifiedAugData, TypeOK
  <2>2. certified_db' \in [Honest -> SUBSET Entries]
    BY <1>6, <2>1 DEF AddCertifiedAugData, TypeOK
  <2>. QED  BY <1>6, <2>2 DEF AddCertifiedAugData, TypeOK
<1>7. ASSUME NEW v \in Honest, Crash(v)
      PROVE  TypeOK'
  BY <1>7, LoseMemoryTyped DEF Crash, disk, TypeOK
<1>8. ASSUME NEW v \in Honest, EndEpoch(v)
      PROVE  TypeOK'
  BY <1>8, LoseMemoryTyped DEF EndEpoch, disk, TypeOK, KeysAreKeys, Epochs
<1>. QED  BY <1>0, <1>1, <1>2, <1>3, <1>4, <1>5, <1>6, <1>7, <1>8 DEF Next

----------------------------------------------------------------------------
\* A certificate stays one when more is signed.
LEMMA CertificateStays ==
  ASSUME signatures \subseteq signatures', NEW e, NEW a, NEW d, HasCertificate(e, a, d)
  PROVE  HasCertificate(e, a, d)'
  BY DEF HasCertificate, Signers

Keeps(w) == DataIsSaved(w) /\ SignedIsSaved(w) /\ OwnKeyIsSaved(w) /\ CertifiedHasQuorum(w)

\* A validator that takes no step keeps what it has, and nobody signs for it.
LEMMA OthersKeep ==
  ASSUME TypeOK, NEW w \in Honest, Keeps(w),
         epoch'[w] = epoch[w], running'[w] = running[w], key'[w] = key[w], own_apk'[w] = own_apk[w],
         data'[w] = data[w], certified'[w] = certified[w], key_db'[w] = key_db[w],
         data_db'[w] = data_db[w], certified_db'[w] = certified_db[w],
         signatures \subseteq signatures',
         \A s \in signatures' : s.signer = w => s \in signatures
  PROVE  Keeps(w)'
<1>1. DataIsSaved(w)'
  BY DEF Keeps, DataIsSaved, Entry
<1>2. SignedIsSaved(w)'
  BY DEF Keeps, SignedIsSaved, Entry
<1>3. OwnKeyIsSaved(w)'
  BY DEF Keeps, OwnKeyIsSaved
<1>4. CertifiedHasQuorum(w)'
  BY CertificateStays DEF Keeps, CertifiedHasQuorum
<1>. QED  BY <1>1, <1>2, <1>3, <1>4 DEF Keeps

\* add_aug_data: what is signed is in the database, and nothing else of the author and epoch is.
LEMMA AddAugDataKeeps ==
  ASSUME KeysAreKeys, TypeOK, SignsOnce,
         NEW v \in Honest, NEW a \in Authors, NEW d \in Keys,
         DataIsSaved(v), SignedIsSaved(v),
         running[v], AddAugData(v, a, d), epoch'[v] = epoch[v], running'[v]
  PROVE  /\ DataIsSaved(v)' /\ SignedIsSaved(v)' /\ SignsOnce'
         /\ data_db'[v] \subseteq data_db[v] \cup {Entry(epoch[v], a, d)}
<1>. DEFINE new == Entry(epoch[v], a, d)
            sig == SignatureOf(epoch[v], a, d, v)
<1>1. new.epoch = epoch[v] /\ new.author = a /\ new.data = d
  BY DEF Entry
<1>2. sig.epoch = epoch[v] /\ sig.author = a /\ sig.data = d /\ sig.signer = v
  BY DEF SignatureOf
<1>3. data_db'[v] = data_db[v] \cup {new}
  <2>1. CASE data[v][a] = 0
    BY <2>1 DEF AddAugData, SaveAugData, TypeOK
  <2>2. CASE data[v][a] # 0
    BY <2>2 DEF AddAugData, DataIsSaved
  <2>. QED  BY <2>1, <2>2
<1>4. signatures' = signatures \cup {sig}
  BY DEF AddAugData
<1>5. data'[v] = [data[v] EXCEPT ![a] = d]
  BY DEF AddAugData, TypeOK
<1>6. data[v][a] = 0 \/ data[v][a] = d
  BY DEF AddAugData
<1>7. epoch[v] \in Int /\ \A x \in data_db[v] : x \in Entries /\ x.author \in Authors /\ x.epoch \in Int
  BY DEF TypeOK, Entries, Epochs
<1>8. \A x \in data_db[v] : x.epoch = epoch[v] /\ x.author = a => x.data = d
  BY <1>6, <1>7 DEF DataIsSaved, KeysAreKeys, Entries
<1>9. \A x \in data_db[v] : x.epoch = epoch[v] /\ x.author = a => x = new
  BY <1>7, <1>8 DEF Entry, Entries
<1>10. DataIsSaved(v)'
  <2>1. \A x \in data_db'[v] : x.epoch <= epoch[v]
    BY <1>1, <1>3, <1>7 DEF DataIsSaved
  <2>2. \A x, y \in data_db'[v] : x.epoch = y.epoch /\ x.author = y.author => x = y
    BY <1>1, <1>3, <1>9 DEF DataIsSaved
  <2>3. \A x \in data_db'[v] : x.epoch = epoch[v] => data'[v][x.author] = x.data
    BY <1>1, <1>3, <1>5, <1>7, <1>8 DEF DataIsSaved, TypeOK
  <2>4. ASSUME NEW b \in Authors, data'[v][b] # 0
        PROVE  Entry(epoch[v], b, data'[v][b]) \in data_db'[v]
    <3>1. CASE b = a
      BY <1>3, <1>5, <3>1 DEF TypeOK
    <3>2. CASE b # a
      BY <1>3, <1>5, <2>4, <3>2 DEF DataIsSaved, TypeOK
    <3>. QED  BY <3>1, <3>2
  <2>. QED  BY <2>1, <2>2, <2>3, <2>4 DEF DataIsSaved, Entry
<1>11. SignedIsSaved(v)'
  <2>. SUFFICES ASSUME NEW s \in signatures', s.signer = v
                PROVE  /\ s.epoch <= epoch[v]
                       /\ s.epoch = epoch[v] => Entry(s.epoch, s.author, s.data) \in data_db'[v]
    BY DEF SignedIsSaved, Entry
  <2>1. CASE s \in signatures
    BY <1>3, <2>1 DEF SignedIsSaved
  <2>2. CASE s = sig
    BY <1>2, <1>3, <1>7, <2>2
  <2>. QED  BY <1>4, <2>1, <2>2
<1>12. SignsOnce'
  <2>1. ASSUME NEW s \in signatures, s.signer = v, s.epoch = epoch[v], s.author = a
        PROVE  s.data = d
    <3>1. Entry(s.epoch, s.author, s.data) \in data_db[v]
      BY <2>1 DEF SignedIsSaved
    <3>. QED  BY <1>8, <2>1, <3>1 DEF Entry
  <2>. HIDE DEF sig
  <2>. QED  BY <1>2, <1>4, <2>1 DEF SignsOnce
<1>. QED  BY <1>3, <1>10, <1>11, <1>12

\* What AugDataStore::new reads of the epoch is the one entry of each author.
LEMMA ByAuthorReads ==
  ASSUME KeysAreKeys, NEW e, NEW db \in SUBSET Entries,
         \A x, y \in db : x.epoch = y.epoch /\ x.author = y.author => x = y
  PROVE  /\ \A x \in OfEpoch(db, e) : ByAuthor(OfEpoch(db, e))[x.author] = x.data
         /\ \A a \in Authors : ByAuthor(OfEpoch(db, e))[a] # 0 =>
              Entry(e, a, ByAuthor(OfEpoch(db, e))[a]) \in OfEpoch(db, e)
<1>. DEFINE of == OfEpoch(db, e)
<1>1. of \subseteq Entries /\ \A x \in of : x.epoch = e
  BY DEF OfEpoch
<1>2. ASSUME NEW x \in of
      PROVE  ByAuthor(of)[x.author] = x.data
  <2>1. x.author \in Authors
    BY <1>1 DEF Entries
  <2>2. \A y \in of : y.author = x.author => y = x
    BY <1>1 DEF OfEpoch
  <2>3. (CHOOSE y \in of : y.author = x.author) = x
    BY <2>2
  <2>. QED  BY <2>1, <2>3 DEF ByAuthor
<1>3. ASSUME NEW a \in Authors, ByAuthor(of)[a] # 0
      PROVE  Entry(e, a, ByAuthor(of)[a]) \in of
  <2>1. PICK x \in of : x.author = a
    BY <1>3 DEF ByAuthor
  <2>2. ByAuthor(of)[a] = x.data
    BY <1>2, <2>1
  <2>3. x = Entry(e, a, x.data)
    BY <1>1, <2>1 DEF Entry, Entries
  <2>. QED  BY <2>2, <2>3
<1>. QED  BY <1>2, <1>3

\* Data of an honest author with a certificate was signed by the author itself.
LEMMA CertifiedByAuthor ==
  ASSUME TypeOK, QuorumsIntersect, AuthorSigned,
         NEW e, NEW v \in Honest, NEW d, HasCertificate(e, v, d)
  PROVE  \E s \in signatures : s.signer = v /\ s.epoch = e /\ s.author = v /\ s.data = d
<1>1. PICK Q \in Quorums : Q \ Byzantine \subseteq Signers(e, v, d)
  BY DEF HasCertificate
<1>2. PICK q \in Q \ Byzantine : TRUE
  BY DEF QuorumsIntersect
<1>3. PICK s \in signatures : s.epoch = e /\ s.author = v /\ s.data = d
  BY <1>1, <1>2 DEF Signers
<1>4. SignatureOf(e, v, d, v) \in signatures
  BY <1>3 DEF AuthorSigned
<1>. QED  BY <1>4 DEF SignatureOf

\* So a validator's own certified data is its key.
LEMMA OwnCertifiedIsKey ==
  ASSUME TypeOK, QuorumsIntersect, AuthorSigned,
         NEW v \in Honest, NEW d, SignedIsSaved(v), OwnKeyIsSaved(v), key[v] # 0,
         HasCertificate(epoch[v], v, d)
  PROVE  d = key[v]
<1>1. PICK s \in signatures : s.signer = v /\ s.epoch = epoch[v] /\ s.author = v /\ s.data = d
  BY CertifiedByAuthor
<1>2. Entry(epoch[v], v, d) \in data_db[v]
  BY <1>1 DEF SignedIsSaved
<1>3. key_db[v] = [epoch |-> epoch[v], key |-> d]
  BY <1>2 DEF OwnKeyIsSaved, Entry
<1>4. key_db[v] = [epoch |-> epoch[v], key |-> key[v]]
  BY DEF OwnKeyIsSaved
<1>5. key_db[v].key = d
  BY <1>3
<1>6. key_db[v].key = key[v]
  BY <1>4
<1>. QED  BY <1>5, <1>6

\* After a crash or at the end of an epoch nothing is left in memory that has to be right.
LEMMA LoseMemoryKeeps ==
  ASSUME TypeOK, NEW v \in Honest, Keeps(v), LoseMemory(v), signatures' = signatures,
         key_db' = key_db, data_db' = data_db, certified_db' = certified_db,
         \/ epoch'[v] = epoch[v]
         \/ epoch'[v] = epoch[v] + 1
  PROVE  Keeps(v)'
<1>1. ~running'[v] /\ key'[v] = 0 /\ own_apk'[v] = 0
  BY DEF LoseMemory, TypeOK
<1>2. epoch[v] \in Int /\ \A x \in data_db[v] : x.epoch \in Int
  BY DEF TypeOK, Entries, Epochs
<1>3. \A s \in signatures : s.epoch \in Int
  BY DEF TypeOK, Epochs
<1>4. DataIsSaved(v)'
  BY <1>1, <1>2 DEF Keeps, DataIsSaved
<1>5. SignedIsSaved(v)'
  BY <1>2, <1>3 DEF Keeps, SignedIsSaved, Entry
<1>6. OwnKeyIsSaved(v)'
  BY <1>1, <1>2 DEF Keeps, OwnKeyIsSaved, DataIsSaved
<1>7. CertifiedHasQuorum(v)'
  BY <1>1, CertificateStays DEF Keeps, CertifiedHasQuorum
<1>. QED  BY <1>4, <1>5, <1>6, <1>7 DEF Keeps

----------------------------------------------------------------------------
IInv == TypeOK /\ KeysAreSaved /\ SignsOnce

\* What the step of v leaves to be shown: what v keeps, and what is signed.
LEMMA OneStep ==
  ASSUME TypeOK, KeysAreSaved, NEW v \in Honest,
         \A w \in Honest \ {v} :
           /\ epoch'[w] = epoch[w] /\ running'[w] = running[w] /\ key'[w] = key[w]
           /\ own_apk'[w] = own_apk[w] /\ data'[w] = data[w] /\ certified'[w] = certified[w]
           /\ key_db'[w] = key_db[w] /\ data_db'[w] = data_db[w] /\ certified_db'[w] = certified_db[w],
         signatures \subseteq signatures',
         \A s \in signatures' : s \in signatures \/ s.signer = v,
         Keeps(v)', AuthorSigned'
  PROVE  KeysAreSaved'
<1>1. ASSUME NEW w \in Honest \ {v} PROVE Keeps(w)'
  <2>1. Keeps(w)
    BY DEF Keeps, KeysAreSaved
  <2>. QED  BY <2>1, OthersKeep
<1>. QED  BY <1>1 DEF Keeps, KeysAreSaved

LEMMA InvNext ==
  ASSUME KeysAreKeys, QuorumsIntersect, IInv, [Next]_vars
  PROVE  KeysAreSaved' /\ SignsOnce'
<1>. TypeOK /\ KeysAreSaved /\ SignsOnce /\ AuthorSigned
  BY DEF IInv, KeysAreSaved
<1>. ASSUME NEW v \in Honest PROVE Keeps(v)
  BY DEF IInv, KeysAreSaved, Keeps
<1>0. CASE UNCHANGED vars
  BY <1>0 DEF vars, memory, disk, KeysAreSaved, DataIsSaved, SignedIsSaved, OwnKeyIsSaved,
     CertifiedHasQuorum, HasCertificate, Signers, AuthorSigned, SignsOnce
<1>1. ASSUME NEW v \in Honest, NEW e \in Epochs, NEW k \in Keys, GetRandConfig(v, e, k)
      PROVE  KeysAreSaved' /\ SignsOnce'
  <2>1. /\ ~running[v] /\ ~running'[v] /\ key'[v] = k /\ k # 0 /\ epoch'[v] = e
        /\ key_db'[v] = [epoch |-> e, key |-> k]
        /\ e >= epoch[v] /\ e \in Int /\ epoch[v] \in Int
        /\ own_apk' = own_apk /\ data_db' = data_db /\ certified_db' = certified_db
        /\ signatures' = signatures
        /\ key[v] = 0
    BY <1>1 DEF GetRandConfig, TypeOK, KeysAreKeys, Epochs
  <2>2. \A x \in data_db[v] : x.epoch \in Int
    BY DEF TypeOK, Entries, Epochs
  <2>3. \A s \in signatures : s.epoch \in Int
    BY DEF TypeOK, Epochs
  <2>4. DataIsSaved(v)'
    BY <2>1, <2>2 DEF Keeps, DataIsSaved
  <2>5. SignedIsSaved(v)'
    BY <2>1, <2>3 DEF Keeps, SignedIsSaved, Entry
  <2>6. OwnKeyIsSaved(v)'
    <3>1. own_apk[v] = 0
      BY <2>1 DEF Keeps, OwnKeyIsSaved
    <3>2. ASSUME NEW x \in data_db[v], x.author = v, x.epoch = e
          PROVE  k = x.data
      <4>1. x.epoch = epoch[v]
        BY <2>1, <2>2, <3>2 DEF Keeps, DataIsSaved
      <4>2. key_db[v] = [epoch |-> e, key |-> x.data]
        BY <3>2, <4>1 DEF Keeps, OwnKeyIsSaved
      <4>3. key_db[v].epoch = e /\ key_db[v].key = x.data
        BY <4>2
      <4>. QED  BY <1>1, <4>3 DEF GetRandConfig, KeyOfEpoch
    <3>. QED  BY <2>1, <3>1, <3>2 DEF OwnKeyIsSaved
  <2>7. CertifiedHasQuorum(v)'
    BY <2>1, CertificateStays DEF Keeps, CertifiedHasQuorum
  <2>8. AuthorSigned' /\ SignsOnce'
    BY <2>1 DEF AuthorSigned, SignsOnce
  <2>9. KeysAreSaved'
    BY <1>1, <2>4, <2>5, <2>6, <2>7, <2>8, OneStep DEF GetRandConfig, TypeOK, Keeps
  <2>. QED  BY <2>8, <2>9
<1>2. ASSUME NEW v \in Honest, NewStore(v)
      PROVE  KeysAreSaved' /\ SignsOnce'
  <2>1. /\ running'[v] /\ key[v] # 0 /\ key' = key /\ epoch' = epoch /\ key_db' = key_db
        /\ data_db'[v] = OfEpoch(data_db[v], epoch[v])
        /\ certified_db'[v] = OfEpoch(certified_db[v], epoch[v])
        /\ data'[v] = ByAuthor(OfEpoch(data_db[v], epoch[v]))
        /\ certified'[v] = ByAuthor(OfEpoch(certified_db[v], epoch[v]))
        /\ own_apk'[v] = (IF v \in Authors THEN certified'[v][v] ELSE 0)
        /\ signatures' = signatures
    BY <1>2 DEF NewStore, TypeOK
  <2>2. data_db[v] \in SUBSET Entries /\ certified_db[v] \in SUBSET Entries
    BY DEF TypeOK
  <2>3. /\ \A x \in data_db'[v] : x \in data_db[v] /\ x.epoch = epoch[v]
        /\ \A x \in data_db[v] : x.epoch = epoch[v] => x \in data_db'[v]
        /\ \A x \in certified_db'[v] : x \in certified_db[v] /\ x.epoch = epoch[v]
    BY <2>1 DEF OfEpoch
  <2>4. DataIsSaved(v)'
    <3>1. \A x, y \in data_db[v] : x.epoch = y.epoch /\ x.author = y.author => x = y
      BY DEF Keeps, DataIsSaved
    <3>2. /\ \A x \in data_db'[v] : data'[v][x.author] = x.data
          /\ \A a \in Authors : data'[v][a] # 0 => Entry(epoch[v], a, data'[v][a]) \in data_db'[v]
      BY <2>1, <2>2, <3>1, ByAuthorReads
    <3>. QED  BY <2>1, <2>3, <3>1, <3>2 DEF Keeps, DataIsSaved, Entry
  <2>5. SignedIsSaved(v)'
    BY <2>1, <2>3 DEF Keeps, SignedIsSaved, Entry
  <2>6. CertifiedHasQuorum(v)'
    <3>1. ASSUME NEW a \in Authors, certified'[v][a] # 0
          PROVE  HasCertificate(epoch[v], a, certified'[v][a])
      <4>1. PICK x \in certified_db'[v] : x.author = a
        BY <2>1, <3>1 DEF ByAuthor
      <4>2. (CHOOSE y \in certified_db'[v] : y.author = a) \in certified_db'[v]
            /\ (CHOOSE y \in certified_db'[v] : y.author = a).author = a
        BY <4>1
      <4>3. certified'[v][a] = (CHOOSE y \in certified_db'[v] : y.author = a).data
        BY <2>1, <4>1 DEF ByAuthor
      <4>. QED  BY <2>3, <4>2, <4>3 DEF Keeps, CertifiedHasQuorum
    <3>. QED  BY <2>1, <2>3, <3>1, CertificateStays DEF Keeps, CertifiedHasQuorum
  <2>7. OwnKeyIsSaved(v)'
    <3>1. own_apk'[v] \in {0, key[v]}
      <4>1. CASE v \in Authors /\ certified'[v][v] # 0
        <5>1. HasCertificate(epoch[v], v, certified'[v][v])
          BY <2>1, <2>6, <4>1 DEF CertifiedHasQuorum, HasCertificate, Signers
        <5>2. certified'[v][v] = key[v]
          BY <2>1, <5>1, OwnCertifiedIsKey DEF Keeps
        <5>. QED  BY <2>1, <4>1, <5>2
      <4>2. CASE ~(v \in Authors /\ certified'[v][v] # 0)
        BY <2>1, <4>2
      <4>. QED  BY <4>1, <4>2
    <3>. QED  BY <2>1, <2>3, <3>1 DEF Keeps, OwnKeyIsSaved
  <2>8. AuthorSigned' /\ SignsOnce'
    BY <2>1 DEF AuthorSigned, SignsOnce
  <2>9. KeysAreSaved'
    BY <1>2, <2>4, <2>5, <2>6, <2>7, <2>8, OneStep DEF NewStore, TypeOK, Keeps
  <2>. QED  BY <2>8, <2>9
<1>3. ASSUME NEW v \in Honest \cap Authors, BroadcastAugData(v)
      PROVE  KeysAreSaved' /\ SignsOnce'
  <2>. DEFINE d == IF data[v][v] = 0 THEN key[v] ELSE data[v][v]
  <2>1. d \in Keys /\ AddAugData(v, v, d) /\ running[v] /\ running' = running /\ epoch' = epoch
    BY <1>3 DEF BroadcastAugData, TypeOK
  <2>2. d = key[v] /\ key[v] # 0
    <3>1. CASE data[v][v] # 0
      <4>1. Entry(epoch[v], v, data[v][v]) \in data_db[v]
        BY <2>1, <3>1 DEF Keeps, DataIsSaved
      <4>2. key_db[v] = [epoch |-> epoch[v], key |-> data[v][v]]
        BY <4>1 DEF Keeps, OwnKeyIsSaved, Entry
      <4>3. key_db[v] = [epoch |-> epoch[v], key |-> key[v]] /\ key[v] # 0
        BY <2>1 DEF Keeps, OwnKeyIsSaved, TypeOK
      <4>4. key_db[v].key = data[v][v]
        BY <4>2
      <4>5. key_db[v].key = key[v]
        BY <4>3
      <4>. QED  BY <3>1, <4>3, <4>4, <4>5
    <3>2. CASE data[v][v] = 0
      BY <2>1, <3>2 DEF TypeOK
    <3>. QED  BY <3>1, <3>2
  <2>. HIDE DEF d
  <2>3. /\ DataIsSaved(v)' /\ SignedIsSaved(v)' /\ SignsOnce'
        /\ data_db'[v] \subseteq data_db[v] \cup {Entry(epoch[v], v, d)}
    BY <2>1, AddAugDataKeeps DEF Keeps
  <2>4. signatures' = signatures \cup {SignatureOf(epoch[v], v, d, v)}
    BY <2>1 DEF AddAugData
  <2>5. OwnKeyIsSaved(v)'
    <3>1. key' = key /\ key_db' = key_db /\ own_apk'[v] \in {own_apk[v], key[v]}
      BY <1>3 DEF BroadcastAugData, TypeOK
    <3>2. key_db[v] = [epoch |-> epoch[v], key |-> key[v]]
      BY <2>2 DEF Keeps, OwnKeyIsSaved
    <3>. QED  BY <2>1, <2>2, <2>3, <3>1, <3>2 DEF Keeps, OwnKeyIsSaved, Entry
  <2>6. CertifiedHasQuorum(v)'
    BY <1>3, <2>4, CertificateStays DEF Keeps, CertifiedHasQuorum, BroadcastAugData
  <2>7. AuthorSigned'
    BY <2>4 DEF AuthorSigned, SignatureOf
  <2>8. \A s \in signatures' : s \in signatures \/ s.signer = v
    BY <2>4 DEF SignatureOf
  <2>9. Keeps(v)'
    BY <2>3, <2>5, <2>6 DEF Keeps
  <2>10. KeysAreSaved'
    BY <1>3, <2>4, <2>7, <2>8, <2>9, OneStep DEF BroadcastAugData, AddAugData, SaveAugData, TypeOK
  <2>. QED  BY <2>3, <2>10
<1>4. ASSUME NEW v \in Honest, NEW a \in Authors, NEW d \in Keys, HandleAugData(v, a, d)
      PROVE  KeysAreSaved' /\ SignsOnce'
  <2>1. AddAugData(v, a, d) /\ running[v] /\ running' = running /\ epoch' = epoch /\ a # v
    BY <1>4 DEF HandleAugData
  <2>2. /\ DataIsSaved(v)' /\ SignedIsSaved(v)' /\ SignsOnce'
        /\ data_db'[v] \subseteq data_db[v] \cup {Entry(epoch[v], a, d)}
    BY <2>1, AddAugDataKeeps DEF Keeps
  <2>3. signatures' = signatures \cup {SignatureOf(epoch[v], a, d, v)}
    BY <2>1 DEF AddAugData
  <2>4. OwnKeyIsSaved(v)'
    BY <1>4, <2>1, <2>2 DEF Keeps, OwnKeyIsSaved, Entry, HandleAugData
  <2>5. CertifiedHasQuorum(v)'
    BY <1>4, <2>3, CertificateStays DEF Keeps, CertifiedHasQuorum, HandleAugData
  <2>6. AuthorSigned'
    BY <1>4, <2>3 DEF AuthorSigned, SignatureOf, HandleAugData, Honest
  <2>7. \A s \in signatures' : s \in signatures \/ s.signer = v
    BY <2>3 DEF SignatureOf
  <2>8. Keeps(v)'
    BY <2>2, <2>4, <2>5 DEF Keeps
  <2>9. KeysAreSaved'
    BY <1>4, <2>3, <2>6, <2>7, <2>8, OneStep DEF HandleAugData, AddAugData, SaveAugData, TypeOK
  <2>. QED  BY <2>2, <2>9
<1>5. ASSUME NEW v \in Honest, NEW a \in Authors, NEW d \in Keys, CrashAfterSave(v, a, d)
      PROVE  KeysAreSaved' /\ SignsOnce'
  <2>. DEFINE new == Entry(epoch[v], a, d)
  <2>1. /\ running[v] /\ data[v][a] = 0 /\ data_db'[v] = data_db[v] \cup {new}
        /\ ~running'[v] /\ key'[v] = 0 /\ own_apk'[v] = 0 /\ epoch' = epoch
        /\ key_db' = key_db /\ certified_db' = certified_db /\ signatures' = signatures
    BY <1>5 DEF CrashAfterSave, SaveAugData, LoseMemory, TypeOK
  <2>2. new.epoch = epoch[v] /\ new.author = a /\ new.data = d
    BY DEF Entry
  <2>3. epoch[v] \in Int /\ \A x \in data_db[v] : x.author = a => x.epoch # epoch[v]
    BY <2>1 DEF Keeps, DataIsSaved, KeysAreKeys, TypeOK, Entries, Epochs
  <2>. HIDE DEF new
  <2>4. DataIsSaved(v)'
    BY <2>1, <2>2, <2>3 DEF Keeps, DataIsSaved
  <2>5. SignedIsSaved(v)'
    BY <2>1 DEF Keeps, SignedIsSaved, Entry
  <2>6. OwnKeyIsSaved(v)'
    <3>1. ASSUME a = v PROVE d = key[v]
      <4>1. CASE SignatureOf(epoch[v], a, d, a) \in signatures
        <5>1. PICK s \in signatures : s.epoch = epoch[v] /\ s.author = a /\ s.data = d /\ s.signer = v
          BY <3>1, <4>1 DEF SignatureOf
        <5>2. Entry(epoch[v], a, d) \in data_db[v]
          BY <5>1 DEF Keeps, SignedIsSaved
        <5>. QED  BY <2>3, <5>2 DEF Entry
      <4>2. CASE SignatureOf(epoch[v], a, d, a) \notin signatures
        BY <1>5, <3>1, <4>2 DEF CrashAfterSave, Honest
      <4>. QED  BY <4>1, <4>2
    <3>2. key_db[v] = [epoch |-> epoch[v], key |-> key[v]]
      BY <2>1 DEF Keeps, OwnKeyIsSaved, TypeOK
    <3>. QED  BY <2>1, <2>2, <3>1, <3>2 DEF Keeps, OwnKeyIsSaved
  <2>7. CertifiedHasQuorum(v)'
    BY <2>1, CertificateStays DEF Keeps, CertifiedHasQuorum
  <2>8. AuthorSigned' /\ SignsOnce'
    BY <2>1 DEF AuthorSigned, SignsOnce
  <2>9. Keeps(v)'
    BY <2>4, <2>5, <2>6, <2>7 DEF Keeps
  <2>10. KeysAreSaved'
    BY <1>5, <2>8, <2>9, OneStep DEF CrashAfterSave, SaveAugData, LoseMemory, TypeOK
  <2>. QED  BY <2>8, <2>10
<1>6. ASSUME NEW v \in Honest, NEW a \in Authors, NEW d \in Keys, AddCertifiedAugData(v, a, d)
      PROVE  KeysAreSaved' /\ SignsOnce'
  <2>1. /\ running[v] /\ running' = running /\ HasCertificate(epoch[v], a, d)
        /\ certified_db'[v] = certified_db[v] \cup {Entry(epoch[v], a, d)}
        /\ certified'[v] = [certified[v] EXCEPT ![a] = d]
        /\ key' = key /\ epoch' = epoch /\ key_db' = key_db /\ data_db' = data_db /\ data' = data
        /\ signatures' = signatures
    BY <1>6 DEF AddCertifiedAugData, TypeOK
  <2>2. DataIsSaved(v)' /\ SignedIsSaved(v)'
    BY <2>1 DEF Keeps, DataIsSaved, SignedIsSaved, Entry
  <2>3. CertifiedHasQuorum(v)'
    <3>1. \A x \in certified_db'[v] : HasCertificate(x.epoch, x.author, x.data)
      BY <2>1 DEF Keeps, CertifiedHasQuorum, Entry
    <3>2. \A b \in Authors : certified'[v][b] # 0 => HasCertificate(epoch[v], b, certified'[v][b])
      BY <2>1 DEF Keeps, CertifiedHasQuorum, TypeOK
    <3>. QED  BY <2>1, <3>1, <3>2, CertificateStays DEF CertifiedHasQuorum
  <2>4. OwnKeyIsSaved(v)'
    <3>1. a = v => d = key[v]
      BY <2>1, OwnCertifiedIsKey DEF Keeps, TypeOK
    <3>2. own_apk'[v] \in {0, key[v]}
      BY <1>6, <3>1 DEF AddCertifiedAugData, Keeps, OwnKeyIsSaved, TypeOK
    <3>. QED  BY <2>1, <3>2 DEF Keeps, OwnKeyIsSaved
  <2>5. AuthorSigned' /\ SignsOnce'
    BY <2>1 DEF AuthorSigned, SignsOnce
  <2>6. Keeps(v)'
    BY <2>2, <2>3, <2>4 DEF Keeps
  <2>7. KeysAreSaved'
    BY <1>6, <2>5, <2>6, OneStep DEF AddCertifiedAugData, TypeOK
  <2>. QED  BY <2>5, <2>7
<1>7. ASSUME NEW v \in Honest, Crash(v) \/ EndEpoch(v)
      PROVE  KeysAreSaved' /\ SignsOnce'
  <2>1. /\ LoseMemory(v) /\ signatures' = signatures
        /\ key_db' = key_db /\ data_db' = data_db /\ certified_db' = certified_db
        /\ epoch'[v] = epoch[v] \/ epoch'[v] = epoch[v] + 1
        /\ \A w \in Honest \ {v} : epoch'[w] = epoch[w]
    BY <1>7 DEF Crash, EndEpoch, disk, TypeOK
  <2>2. AuthorSigned' /\ SignsOnce'
    BY <2>1 DEF AuthorSigned, SignsOnce
  <2>3. Keeps(v)'
    BY <2>1, LoseMemoryKeeps
  <2>4. KeysAreSaved'
    BY <2>1, <2>2, <2>3, OneStep DEF LoseMemory, TypeOK
  <2>. QED  BY <2>2, <2>4
<1>. QED  BY <1>0, <1>1, <1>2, <1>3, <1>4, <1>5, <1>6, <1>7 DEF Next

\* The database is ahead of what a validator signs, whenever it crashes.
THEOREM KeysStaySaved ==
  ASSUME KeysAreKeys, QuorumsIntersect
  PROVE  Spec => [](TypeOK /\ KeysAreSaved /\ SignsOnce)
<1>1. Init => IInv
  <2>. SUFFICES ASSUME Init PROVE IInv
    OBVIOUS
  <2>1. TypeOK
    BY TypeInit
  <2>2. SignsOnce /\ AuthorSigned
    BY DEF Init, SignsOnce, AuthorSigned
  <2>3. ASSUME NEW v \in Honest
        PROVE  DataIsSaved(v) /\ SignedIsSaved(v) /\ OwnKeyIsSaved(v) /\ CertifiedHasQuorum(v)
    BY DEF Init, DataIsSaved, SignedIsSaved, OwnKeyIsSaved, CertifiedHasQuorum
  <2>. QED  BY <2>1, <2>2, <2>3 DEF IInv, KeysAreSaved
<1>2. IInv /\ [Next]_vars => IInv'
  BY TypeNext, InvNext DEF IInv
<1>. QED  BY <1>1, <1>2, PTL DEF Spec, IInv

\* Two certificates of an author and epoch have an honest signer in common.
LEMMA CertificatesAgree ==
  ASSUME TypeOK, QuorumsIntersect, SignsOnce, NEW e, NEW a, NEW c, NEW d,
         HasCertificate(e, a, c), HasCertificate(e, a, d)
  PROVE  c = d
<1>1. PICK Q \in Quorums : Q \ Byzantine \subseteq Signers(e, a, c)
  BY DEF HasCertificate
<1>2. PICK R \in Quorums : R \ Byzantine \subseteq Signers(e, a, d)
  BY DEF HasCertificate
<1>3. PICK v : v \in (Q \cap R) \ Byzantine
  BY DEF QuorumsIntersect
<1>4. PICK s \in signatures : s.epoch = e /\ s.author = a /\ s.data = c /\ s.signer = v
  BY <1>1, <1>3 DEF Signers
<1>5. PICK t \in signatures : t.epoch = e /\ t.author = a /\ t.data = d /\ t.signer = v
  BY <1>2, <1>3 DEF Signers
<1>. QED  BY <1>4, <1>5 DEF SignsOnce

\* The keys that shares are verified with: an honest validator signs one key per author and epoch,
\* two validators never have different certified keys of an author, and a validator uses the key
\* that is certified for it, across any crashes and restarts.
THEOREM OneKeyPerEpoch ==
  ASSUME KeysAreKeys, QuorumsIntersect
  PROVE  Spec => []AugDataCorrect
<1>1. ASSUME TypeOK, KeysAreSaved, SignsOnce PROVE AugDataCorrect
  <2>1. CertifiedKeysAgree
    BY <1>1, CertificatesAgree DEF CertifiedKeysAgree, KeysAreSaved, CertifiedHasQuorum
  <2>2. ASSUME NEW v \in Honest \cap Authors, running[v]
        PROVE  data[v][v] \in {0, key[v]} /\ certified[v][v] \in {0, key[v]} /\ own_apk[v] \in {0, key[v]}
    <3>1. key[v] # 0
      BY <1>1, <2>2 DEF TypeOK
    <3>2. own_apk[v] \in {0, key[v]}
      BY <1>1 DEF KeysAreSaved, OwnKeyIsSaved
    <3>3. CASE data[v][v] # 0
      <4>1. Entry(epoch[v], v, data[v][v]) \in data_db[v]
        BY <1>1, <2>2, <3>3 DEF KeysAreSaved, DataIsSaved
      <4>2. key_db[v] = [epoch |-> epoch[v], key |-> data[v][v]]
        BY <1>1, <4>1 DEF KeysAreSaved, OwnKeyIsSaved, Entry
      <4>3. key_db[v] = [epoch |-> epoch[v], key |-> key[v]]
        BY <1>1, <3>1 DEF KeysAreSaved, OwnKeyIsSaved
      <4>4. key_db[v].key = data[v][v]
        BY <4>2
      <4>5. key_db[v].key = key[v]
        BY <4>3
      <4>6. data[v][v] = key[v]
        BY <4>4, <4>5
      <4>7. certified[v][v] \in {0, key[v]}
        BY <1>1, <2>2, <3>1, OwnCertifiedIsKey DEF KeysAreSaved, CertifiedHasQuorum
      <4>. QED  BY <3>2, <4>6, <4>7
    <3>4. CASE data[v][v] = 0
      <4>1. certified[v][v] \in {0, key[v]}
        BY <1>1, <2>2, <3>1, OwnCertifiedIsKey DEF KeysAreSaved, CertifiedHasQuorum
      <4>. QED  BY <3>2, <3>4, <4>1
    <3>. QED  BY <3>3, <3>4
  <2>. QED  BY <1>1, <2>1, <2>2 DEF AugDataCorrect, OwnKeyIsCertified
<1>2. TypeOK /\ KeysAreSaved /\ SignsOnce => AugDataCorrect
  BY <1>1
<1>. QED  BY <1>2, KeysStaySaved, PTL
=============================================================================
