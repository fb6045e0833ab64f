----------------------------- MODULE DagBroadcast -----------------------------
(***************************************************************************)
(* Certified nodes of the DAG: an author sends its node of a round to      *)
(* everyone, a validator votes for one node of each author in each round,  *)
(* and a quorum of votes makes a certificate (dag/rb_handler.rs,           *)
(* dag/types.rs, dag/dag_store.rs, dag/bootstrap.rs).                      *)
(*                                                                         *)
(* A validator handles nodes in several tasks at once; the votes are       *)
(* collected as garbage in another.  An author may be faulty and send      *)
(* different nodes of one round; a node whose parents are missing is not   *)
(* voted for and left out.                                                 *)
(***************************************************************************)
EXTENDS Integers, FiniteSets

CONSTANTS
  Honest,        \* the validators that follow the protocol
  Quorums,       \* the sets of validators whose voting power is that of a quorum
  Authors,       \* the validators that send nodes
  Digests,       \* the contents of a node
  NodeRounds,
  Window,        \* dag_ordering_causal_history_window
  CommitRounds   \* the rounds of the ledger

\* What the theorems assume: less than a third of the voting power is faulty.
RoundsAreNumbers == NodeRounds \subseteq Nat /\ CommitRounds \subseteq Nat /\ Window \in Nat
QuorumsIntersect == \A Q, R \in Quorums : (Q \cap R) \cap Honest # {}

Votes == [round : NodeRounds, author : Authors, digest : Digests]

VARIABLES
  up,         \* validator -> FALSE from a panic on until it starts again
  committed,  \* validator -> the round of its ledger
  lowest,     \* validator -> start_round of its DAG
  votes,      \* validator -> votes_by_round_peer
  rows,       \* validator -> the rounds that have an entry there
  stored,     \* validator -> the votes in its database
  deleting,   \* validator -> the votes that gc_before_round is about to delete there
  tasks,      \* validator -> the nodes it is handling: the vote, and whether it is saved
  signed      \* the votes that were sent: <<voter, vote>>

dagVars == <<up, committed, lowest, votes, rows, stored, deleting, tasks, signed>>

DagInit ==
  /\ up = [v \in Honest |-> TRUE]
  /\ committed = [v \in Honest |-> 0]
  /\ lowest = [v \in Honest |-> 1]
  /\ votes = [v \in Honest |-> {}] /\ rows = [v \in Honest |-> {}]
  /\ stored = [v \in Honest |-> {}]
  /\ deleting = [v \in Honest |-> {}]
  /\ tasks = [v \in Honest |-> {}]
  /\ signed = {}

SameSlot(x, y) == x.round = y.round /\ x.author = y.author

----------------------------------------------------------------------------
(* Votes                                                                   *)

\* process, up to the end of validate: votes_fine_grained_lock admits one task of a round and
\* author, and the round is not below the DAG.
Validate(v, x) ==
  /\ up[v]
  /\ \A t \in tasks[v] : ~SameSlot(t.vote, x)
  /\ x.round >= lowest[v]
  /\ tasks' = [tasks EXCEPT ![v] = @ \cup {[vote |-> x, saved |-> FALSE]}]
  /\ UNCHANGED <<up, committed, lowest, votes, rows, stored, deleting, signed>>

\* Mutant: only the votes for the same node are looked up.
VotedForNode(v, x) == votes[v] \cap {x}

\* The vote for a node of the author in the round, if there is one.
Voted(v, x) == {y \in votes[v] : SameSlot(x, y)}

\* The vote of before is sent again ...
SendAgain(v, t) ==
  /\ ~t.saved
  /\ \E y \in Voted(v, t.vote) : signed' = signed \cup {<<v, y>>}
  /\ rows' = [rows EXCEPT ![v] = @ \cup {t.vote.round}]
  /\ tasks' = [tasks EXCEPT ![v] = @ \ {t}]
  /\ UNCHANGED <<up, committed, lowest, votes, stored, deleting>>

\* ... or there is none: the node is signed and the vote saved,
Save(v, t) ==
  /\ ~t.saved
  /\ Voted(v, t.vote) = {}
  /\ rows' = [rows EXCEPT ![v] = @ \cup {t.vote.round}]
  /\ stored' = [stored EXCEPT ![v] = {y \in @ : ~SameSlot(y, t.vote)} \cup {t.vote}]
  /\ tasks' = [tasks EXCEPT ![v] = (@ \ {t}) \cup {[t EXCEPT !.saved = TRUE]}]
  /\ UNCHANGED <<up, committed, lowest, votes, deleting, signed>>

\* (or the database fails, and there is no answer)
SaveFails(v, t) ==
  /\ ~t.saved
  /\ Voted(v, t.vote) = {}
  /\ rows' = [rows EXCEPT ![v] = @ \cup {t.vote.round}]
  /\ tasks' = [tasks EXCEPT ![v] = @ \ {t}]
  /\ UNCHANGED <<up, committed, lowest, votes, stored, deleting, signed>>

\* and then inserted and sent; the entry of the round "must exist".
Insert(v, t) ==
  /\ t.saved
  /\ IF t.vote.round \in rows[v]
     THEN /\ votes' = [votes EXCEPT ![v] = {y \in @ : ~SameSlot(y, t.vote)} \cup {t.vote}]
          /\ signed' = signed \cup {<<v, t.vote>>}
          /\ UNCHANGED up
     ELSE up' = [up EXCEPT ![v] = FALSE] /\ UNCHANGED <<votes, signed>>
  /\ tasks' = [tasks EXCEPT ![v] = @ \ {t}]
  /\ UNCHANGED <<committed, lowest, rows, stored, deleting>>

\* SignatureBuilder: votes of a quorum for the same node.
Certified(x) == \E Q \in Quorums : \A v \in Q \cap Honest : <<v, x>> \in signed

----------------------------------------------------------------------------
(* The window of rounds                                                    *)

Commit(v, r) ==
  /\ up[v] /\ r > committed[v]
  /\ committed' = [committed EXCEPT ![v] = r]
  /\ UNCHANGED <<up, lowest, votes, rows, stored, deleting, tasks, signed>>

\* InMemDag::commit_callback: the DAG keeps three windows before the commit.
CommitCallback(v) ==
  /\ up[v] /\ committed[v] - 3 * Window > lowest[v]
  /\ lowest' = [lowest EXCEPT ![v] = committed[v] - 3 * Window]
  /\ UNCHANGED <<up, committed, votes, rows, stored, deleting, tasks, signed>>

\* NodeBroadcastHandler::gc, after a new round is entered: old votes leave the memory, ...
Gc(v) ==
  LET old == {y \in votes[v] : y.round < lowest[v]} IN
  /\ up[v] /\ deleting[v] = {}
  /\ votes' = [votes EXCEPT ![v] = @ \ old]
  /\ rows' = [rows EXCEPT ![v] = {r \in @ : r >= lowest[v]}]
  /\ deleting' = [deleting EXCEPT ![v] = old]
  /\ UNCHANGED <<up, committed, lowest, stored, tasks, signed>>

\* ... and then the database, where they are found by round and author; it may fail.
DeleteVotes(v) ==
  /\ up[v] /\ deleting[v] # {}
  /\ \/ stored' = [stored EXCEPT ![v] = {y \in @ : \A z \in deleting[v] : ~SameSlot(y, z)}]
     \/ UNCHANGED stored
  /\ deleting' = [deleting EXCEPT ![v] = {}]
  /\ UNCHANGED <<up, committed, lowest, votes, rows, tasks, signed>>

FirstRound(v) == IF committed[v] - Window > 1 THEN committed[v] - Window ELSE 1

\* full_bootstrap, after a crash or after state sync: the votes are read from the database.
Bootstrap(v) ==
  /\ up' = [up EXCEPT ![v] = TRUE]
  /\ lowest' = [lowest EXCEPT ![v] = FirstRound(v)]
  /\ votes' = [votes EXCEPT ![v] = stored[v]]
  /\ rows' = [rows EXCEPT ![v] = {y.round : y \in stored[v]}]
  /\ deleting' = [deleting EXCEPT ![v] = {}]
  /\ tasks' = [tasks EXCEPT ![v] = {}]
  /\ UNCHANGED <<committed, stored, signed>>

DagNext ==
  \E v \in Honest :
    \/ \E x \in Votes : Validate(v, x)
    \/ \E t \in tasks[v] :
         up[v] /\ (SendAgain(v, t) \/ Save(v, t) \/ SaveFails(v, t) \/ Insert(v, t))
    \/ \E r \in CommitRounds : Commit(v, r)
    \/ CommitCallback(v) \/ Gc(v) \/ DeleteVotes(v) \/ Bootstrap(v)

DagSpec == DagInit /\ [][DagNext]_dagVars

----------------------------------------------------------------------------
\* The votes of a validator, in memory and in its database, are its own, and at most one is saved
\* for each round and author (votes_by_round_peer, DagVoteSchema).
DagTypeOK ==
  /\ up \in [Honest -> BOOLEAN]
  /\ committed \in [Honest -> Nat] /\ lowest \in [Honest -> Nat]
  /\ votes \in [Honest -> SUBSET Votes] /\ stored \in [Honest -> SUBSET Votes]
  /\ deleting \in [Honest -> SUBSET Votes]
  /\ rows \in [Honest -> SUBSET NodeRounds]
  /\ tasks \in [Honest -> SUBSET [vote : Votes, saved : BOOLEAN]]
  /\ signed \subseteq Honest \X Votes

\* What the proof of LiveCertificatesUnique rests on: above the lowest round a validator's votes in
\* memory, in the database, in a task that has saved its vote and on the network are the same ones.
StoredOnce(v) == \A x, y \in stored[v] : SameSlot(x, y) => x = y
MemoryIsStored(v) == \A x \in votes[v] : x.round >= lowest[v] => x \in stored[v]
DeletesOld(v) == \A x \in deleting[v] : x.round < lowest[v]
TasksApart(v) == \A t, u \in tasks[v] : SameSlot(t.vote, u.vote) => t = u
SavedIsStored(v) ==
  \A t \in tasks[v] : t.saved =>
    /\ t.vote.round >= lowest[v] => t.vote \in stored[v]
    /\ \A y \in votes[v] : ~SameSlot(y, t.vote)
SignedIsStored(v) ==
  \A x \in Votes : <<v, x>> \in signed /\ x.round >= lowest[v] => x \in stored[v]
StoredIsKnown(v) ==
  up[v] => \A x \in stored[v] : x.round >= lowest[v] =>
    x \in votes[v] \/ \E t \in tasks[v] : t.saved /\ t.vote = x

VotesAgreeAt(v) ==
  /\ StoredOnce(v) /\ MemoryIsStored(v) /\ DeletesOld(v) /\ TasksApart(v)
  /\ SavedIsStored(v) /\ SignedIsStored(v) /\ StoredIsKnown(v)
  /\ lowest[v] <= FirstRound(v)

VotesAgree == \A v \in Honest : VotesAgreeAt(v)

\* In the rounds that every honest validator keeps, an author has at most one certified node,
\* whatever the author sends, through crashes and the collection of old votes
\* (NodeBroadcastHandler::process, gc_before_round, read_votes_from_storage).
LiveCertificatesUnique ==
  \A x, y \in Votes :
    /\ SameSlot(x, y) /\ Certified(x) /\ Certified(y)
    /\ \A v \in Honest : x.round >= lowest[v]
    => x = y

\* "expect the original ack for any future message from same author" (tests/rb_handler_tests.rs):
\* a validator never signs two nodes of an author in a round.
OriginalAck ==
  \A p, q \in signed : p[1] = q[1] /\ SameSlot(p[2], q[2]) => p[2] = q[2]

=============================================================================
