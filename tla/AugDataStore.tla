---------------------------- MODULE AugDataStore ----------------------------
(***************************************************************************)
(* The augmented public keys of the randomness protocol, among several     *)
(* validators that crash and restart in the middle of it                   *)
(* (epoch_manager.rs, rand_gen/aug_data_store.rs, rand_manager.rs,         *)
(* reliable_broadcast_state.rs, storage/db.rs).  At the start of an epoch  *)
(* a validator makes a random key, sends its augmented data, collects the  *)
(* others' signatures over it, and sends the certified data to everyone.   *)
(* Shares are verified with the certified keys, so two certified keys of   *)
(* one author would split the validators.                                  *)
(*                                                                         *)
(* A key is a number; Byzantine validators send any data and sign any.     *)
(***************************************************************************)
EXTENDS Integers, FiniteSets

CONSTANTS
  Validators, Byzantine,
  Authors,      \* whose augmented data is followed: that of others is independent of it
  Quorums,      \* the sets of validators whose signatures make a certificate
  Keys,         \* what the random generator may draw
  MaxEpoch, MaxCrashes

Honest == Validators \ Byzantine
Epochs == 1 .. MaxEpoch

\* What the theorems assume: a key is not 0, and less than a third of the power is Byzantine.
KeysAreKeys == 0 \notin Keys /\ MaxEpoch \in Nat
QuorumsIntersect ==
  /\ Quorums \subseteq SUBSET Validators
  /\ \A Q, R \in Quorums : (Q \cap R) \ Byzantine # {}

VARIABLES
  epoch,        \* v -> the epoch it is in, 0 before its first
  running,      \* v -> whether its RandManager runs
  key,          \* v -> the key in its RandConfig
  own_apk,      \* v -> the key its RandConfig has certified for itself, 0 for none
  data,         \* v -> author -> the augmented data it holds, 0 for none
  certified,    \* v -> author -> the certified data it holds, 0 for none
  key_db,       \* v -> [epoch, key] in its database
  data_db,      \* v -> {[epoch, author, data]} in its database
  certified_db, \* likewise
  signatures,   \* {[epoch, author, data, signer]}: every signature ever made
  crashes

memory == <<epoch, running, key, own_apk, data, certified>>
disk   == <<key_db, data_db, certified_db>>
vars   == <<memory, disk, signatures, crashes>>

Nothing == [a \in Authors |-> 0]

Init ==
  /\ epoch = [v \in Honest |-> 0]
  /\ running = [v \in Honest |-> FALSE]
  /\ key = [v \in Honest |-> 0]
  /\ own_apk = [v \in Honest |-> 0]
  /\ data = [v \in Honest |-> Nothing]
  /\ certified = [v \in Honest |-> Nothing]
  /\ key_db = [v \in Honest |-> [epoch |-> 0, key |-> 0]]
  /\ data_db = [v \in Honest |-> {}]
  /\ certified_db = [v \in Honest |-> {}]
  /\ signatures = {}
  /\ crashes = 0

----------------------------------------------------------------------------
(* Starting the randomness of an epoch                                     *)

\* The key pair of this epoch in the database, if there is one; otherwise any.
KeyOfEpoch(v, e, k) == key_db[v].epoch = e => k = key_db[v].key

\* try_get_rand_config_for_new_epoch: the key pair is recovered, or drawn and saved.
GetRandConfig(v, e, k) ==
  /\ ~ running[v] /\ key[v] = 0
  /\ e >= epoch[v] /\ e <= epoch[v] + 1
  /\ KeyOfEpoch(v, e, k)
  /\ epoch' = [epoch EXCEPT ![v] = e]
  /\ key' = [key EXCEPT ![v] = k]
  /\ key_db' = [key_db EXCEPT ![v] = [epoch |-> e, key |-> k]]
  /\ UNCHANGED <<running, own_apk, data, certified, data_db, certified_db, signatures, crashes>>

\* AugDataStore::new: what the database has of this epoch; the rest is removed.
OfEpoch(db, e) == {d \in db : d.epoch = e}
ByAuthor(db) == [a \in Authors |-> IF \E d \in db : d.author = a
                                       THEN (CHOOSE d \in db : d.author = a).data ELSE 0]

NewStore(v) ==
  /\ ~ running[v] /\ key[v] # 0
  /\ running' = [running EXCEPT ![v] = TRUE]
  /\ data_db' = [data_db EXCEPT ![v] = OfEpoch(@, epoch[v])]
  /\ certified_db' = [certified_db EXCEPT ![v] = OfEpoch(@, epoch[v])]
  /\ data' = [data EXCEPT ![v] = ByAuthor(OfEpoch(data_db[v], epoch[v]))]
  /\ certified' = [certified EXCEPT ![v] = ByAuthor(OfEpoch(certified_db[v], epoch[v]))]
  /\ own_apk' = [own_apk EXCEPT ![v] = IF v \in Authors THEN certified'[v][v] ELSE 0]
  /\ UNCHANGED <<epoch, key, key_db, signatures, crashes>>

----------------------------------------------------------------------------
(* Augmented data and its signatures                                       *)

Entry(e, a, d) == [epoch |-> e, author |-> a, data |-> d]
SignatureOf(e, a, d, v) == [epoch |-> e, author |-> a, data |-> d, signer |-> v]

\* The first half of add_aug_data: equivocating data is refused, new data is saved.
SaveAugData(v, a, d) ==
  /\ data[v][a] = 0
  /\ data_db' = [data_db EXCEPT ![v] = @ \cup {Entry(epoch[v], a, d)}]

\* Mutant: the data is signed and kept in memory, and not in the database.
AddAugDataUnsaved(v, a, d) ==
  /\ data[v][a] \in {0, d}
  /\ data' = [data EXCEPT ![v][a] = d]
  /\ signatures' = signatures \cup {SignatureOf(epoch[v], a, d, v)}
  /\ UNCHANGED data_db

\* add_aug_data: data that differs from what is held is refused; new data is saved in the
\* database before it is signed.
AddAugData(v, a, d) ==
  /\ data[v][a] \in {0, d}
  /\ IF data[v][a] = 0 THEN SaveAugData(v, a, d) ELSE UNCHANGED data_db
  /\ data' = [data EXCEPT ![v][a] = d]
  /\ signatures' = signatures \cup {SignatureOf(epoch[v], a, d, v)}

\* broadcast_aug_data: our data as we have it, or generated from our key, which also
\* certifies it for ourselves; added before it is sent.
BroadcastAugData(v) ==
  /\ running[v]
  /\ LET d == IF data[v][v] = 0 THEN key[v] ELSE data[v][v]
     IN  AddAugData(v, v, d)
  /\ own_apk' = IF data[v][v] = 0 THEN [own_apk EXCEPT ![v] = key[v]] ELSE own_apk
  /\ UNCHANGED <<epoch, running, key, certified, key_db, certified_db, crashes>>

\* AugData from another validator.  Of an honest one there is the data it signed first.
HandleAugData(v, a, d) ==
  /\ running[v] /\ a # v
  /\ a \in Byzantine \/ SignatureOf(epoch[v], a, d, a) \in signatures
  /\ AddAugData(v, a, d)
  /\ UNCHANGED <<epoch, running, key, own_apk, certified, key_db, certified_db, crashes>>

LoseMemory(v) ==
  /\ running' = [running EXCEPT ![v] = FALSE]
  /\ key' = [key EXCEPT ![v] = 0]
  /\ own_apk' = [own_apk EXCEPT ![v] = 0]
  /\ data' = [data EXCEPT ![v] = Nothing]
  /\ certified' = [certified EXCEPT ![v] = Nothing]

\* The save of add_aug_data is done and the validator crashes before it signs.
CrashAfterSave(v, a, d) ==
  /\ running[v] /\ crashes < MaxCrashes
  /\ a \in Byzantine \/ SignatureOf(epoch[v], a, d, a) \in signatures \/ (a = v /\ d = key[v])
  /\ SaveAugData(v, a, d)
  /\ LoseMemory(v)
  /\ crashes' = crashes + 1
  /\ UNCHANGED <<epoch, key_db, certified_db, signatures>>

\* AugDataCertBuilder::add, and Byzantine signers.
Signers(e, a, d) == {s.signer : s \in {t \in signatures : t.epoch = e /\ t.author = a /\ t.data = d}}
HasCertificate(e, a, d) == \E Q \in Quorums : Q \ Byzantine \subseteq Signers(e, a, d)

\* add_certified_aug_data: the first certified data of an author is saved and its key
\* certified.  The expect of augment, "Add delta should succeed", holds when the key of the
\* author in the RandConfig is not another one: ours may have been set when it was made.
AddCertifiedAugData(v, a, d) ==
  /\ running[v]
  /\ HasCertificate(epoch[v], a, d)
  /\ certified[v][a] = 0
  /\ certified_db' = [certified_db EXCEPT ![v] = @ \cup {Entry(epoch[v], a, d)}]
  /\ certified' = [certified EXCEPT ![v][a] = d]
  /\ own_apk' = IF a = v /\ own_apk[v] = 0 THEN [own_apk EXCEPT ![v] = d] ELSE own_apk
  /\ UNCHANGED <<epoch, running, key, data, key_db, data_db, signatures, crashes>>

----------------------------------------------------------------------------
\* A crash loses what is in memory.
Crash(v) ==
  /\ crashes < MaxCrashes
  /\ key[v] # 0
  /\ LoseMemory(v)
  /\ crashes' = crashes + 1
  /\ UNCHANGED <<epoch, disk, signatures>>

\* The epoch ends: the RandManager stops.
EndEpoch(v) ==
  /\ running[v] /\ epoch[v] < MaxEpoch
  /\ LoseMemory(v)
  /\ epoch' = [epoch EXCEPT ![v] = @ + 1]
  /\ UNCHANGED <<disk, signatures, crashes>>

Next ==
  \/ \E v \in Honest, e \in Epochs, k \in Keys : GetRandConfig(v, e, k)
  \/ \E v \in Honest : NewStore(v)
  \/ \E v \in Honest \cap Authors : BroadcastAugData(v)
  \/ \E v \in Honest, a \in Authors, d \in Keys : HandleAugData(v, a, d)
  \/ \E v \in Honest, a \in Authors, d \in Keys : CrashAfterSave(v, a, d)
  \/ \E v \in Honest, a \in Authors, d \in Keys : AddCertifiedAugData(v, a, d)
  \/ \E v \in Honest : Crash(v)
  \/ \E v \in Honest : EndEpoch(v)

Spec == Init /\ [][Next]_vars

----------------------------------------------------------------------------
(* Properties                                                              *)

Entries == [epoch : Epochs, author : Authors, data : Keys]

TypeOK ==
  /\ epoch \in [Honest -> 0 .. MaxEpoch] /\ running \in [Honest -> BOOLEAN]
  /\ key \in [Honest -> Keys \cup {0}] /\ own_apk \in [Honest -> Keys \cup {0}]
  /\ data \in [Honest -> [Authors -> Keys \cup {0}]]
  /\ certified \in [Honest -> [Authors -> Keys \cup {0}]]
  /\ key_db \in [Honest -> [epoch : 0 .. MaxEpoch, key : Keys \cup {0}]]
  /\ data_db \in [Honest -> SUBSET Entries] /\ certified_db \in [Honest -> SUBSET Entries]
  /\ signatures \subseteq [epoch : Epochs, author : Authors, data : Keys, signer : Honest]
  /\ crashes \in Nat
  /\ \A v \in Honest : (running[v] => key[v] # 0) /\ (key[v] # 0 => epoch[v] \in Epochs)

(* What the proofs of the properties rest on, about one validator.         *)

\* The database has one data of an author and epoch, which is also the one in memory.
DataIsSaved(v) ==
  /\ \A x \in data_db[v] : x.epoch <= epoch[v]
  /\ \A x, y \in data_db[v] : x.epoch = y.epoch /\ x.author = y.author => x = y
  /\ running[v] =>
       /\ \A x \in data_db[v] : x.epoch = epoch[v] => data[v][x.author] = x.data
       /\ \A a \in Authors : data[v][a] # 0 => Entry(epoch[v], a, data[v][a]) \in data_db[v]

\* What it signed in its epoch is in the database.
SignedIsSaved(v) ==
  \A s \in signatures : s.signer = v =>
    /\ s.epoch <= epoch[v]
    /\ s.epoch = epoch[v] => Entry(s.epoch, s.author, s.data) \in data_db[v]

\* Its data of its epoch was made from the key in the database, which is the one it uses.
OwnKeyIsSaved(v) ==
  /\ key[v] # 0 => key_db[v] = [epoch |-> epoch[v], key |-> key[v]]
  /\ \A x \in data_db[v] :
       x.author = v /\ x.epoch = epoch[v] => key_db[v] = [epoch |-> epoch[v], key |-> x.data]
  /\ own_apk[v] \in {0, key[v]}

CertifiedHasQuorum(v) ==
  /\ \A x \in certified_db[v] : HasCertificate(x.epoch, x.author, x.data)
  /\ running[v] => \A a \in Authors :
       certified[v][a] # 0 => HasCertificate(epoch[v], a, certified[v][a])

\* Others sign data of an honest author after the author did.
AuthorSigned ==
  \A s \in signatures :
    s.author \in Honest => SignatureOf(s.epoch, s.author, s.data, s.author) \in signatures

\* Every key that was signed, sent or certified is in the database of whoever did so, and a running
\* validator has in memory what its database has, so a crash forgets nothing that was promised
\* (add_aug_data, add_certified_aug_data, try_get_rand_config_for_new_epoch).
KeysAreSaved ==
  /\ \A v \in Honest : DataIsSaved(v) /\ SignedIsSaved(v) /\ OwnKeyIsSaved(v) /\ CertifiedHasQuorum(v)
  /\ AuthorSigned

\* No honest validator signs two different data of one author in one epoch, whatever
\* crashes between saving, signing and answering.
SignsOnce ==
  \A s, t \in signatures :
    s.signer = t.signer /\ s.epoch = t.epoch /\ s.author = t.author => s.data = t.data

\* Two validators in one epoch never hold certified data of one author that differ, so they
\* verify its shares with one key.
CertifiedKeysAgree ==
  \A v, w \in Honest, a \in Authors :
    running[v] /\ running[w] /\ epoch[v] = epoch[w] /\ certified[v][a] # 0 /\ certified[w][a] # 0
      => certified[v][a] = certified[w][a]

\* A validator signs its shares with the key that is, or will be, certified for it: its
\* augmented data, its certified data and the key it recovers after a crash are one.
OwnKeyIsCertified ==
  \A v \in Honest \cap Authors : running[v] =>
    /\ data[v][v] \in {0, key[v]}
    /\ certified[v][v] \in {0, key[v]}
    /\ own_apk[v] \in {0, key[v]}

\* One key per author and epoch: signed once, the same for everybody, and in use.
AugDataCorrect == SignsOnce /\ CertifiedKeysAgree /\ OwnKeyIsCertified
=============================================================================
