----------------------------- MODULE MCRounds -------------------------------
(* The rounds of AptosBFT and of the DAG, for TLC: in each behaviour one of them, as `scenario` *)
(* says. Four validators and two rounds of AptosBFT in three settings: crashes while votes and *)
(* timeouts come in; payloads that are missing and back pressure; and order votes. And a      *)
(* faulty author of the DAG with two validators, with 2, 3 and 2 of the voting power.         *)
EXTENDS RoundManager, DagBroadcast, TLC

CONSTANTS v1, v2, v3, v4, h1, h2, f1, d1, d2

VARIABLE scenario     \* the one of the two that this behaviour is about

Setting(order_votes, waits, crash_bound, vote_bound, others_time_out) ==
  [order_votes |-> order_votes, waits |-> waits, back_pressure |-> waits, crashes |-> crash_bound,
   votes |-> vote_bound, timeouts |-> others_time_out]

MCSettings ==
  {Setting(FALSE, FALSE, 1, {<<1, 0>>, <<2, 1>>}, TRUE),
   Setting(FALSE, TRUE, 1, {}, TRUE),
   Setting(TRUE, FALSE, 0, {<<1, 0>>}, FALSE)}

PeerSymmetry == Permutations({v2, v3, v4})

mcvars == <<scenario, vars, dagVars>>

RoundsValidators == {v1, v2, v3, v4}
DagHonest == {h1, h2}
DagQuorums == {{h1, h2}, {h1, f1}, {h1, h2, f1}}
DagAuthors == {f1}
DagDigests == {d1, d2}
DagNodeRounds == {1}
DagCommitRounds == {5}

\* What the theorems about these components assume holds of the instances here.
ASSUME RoundsAreNumbers /\ QuorumsIntersect

----------------------------------------------------------------------------
\* The other one stays in an initial state.
MCInit ==
  /\ Init /\ DagInit
  /\ scenario \in {"Rounds", "Dag"}
  /\ scenario = "Dag" => setting.order_votes

MCNext ==
  /\ UNCHANGED scenario
  /\ \/ scenario = "Rounds" /\ Next /\ UNCHANGED dagVars
     \/ scenario = "Dag" /\ DagNext /\ UNCHANGED vars

MCSpec == MCInit /\ [][MCNext]_mcvars
=============================================================================
