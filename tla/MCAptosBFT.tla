----------------------------- MODULE MCAptosBFT -----------------------------
(* AptosBFT for TLC: three honest validators and a faulty one, quorums of three. *)
EXTENDS AptosBFT, FiniteSets, TLC

CONSTANTS v1, v2, v3, f, x, y

MCHonest    == {v1, v2, v3}
MCByzantine == {f}
MCQuorums   == {q \in SUBSET (MCHonest \cup MCByzantine) : Cardinality(q) = 3}
MCIds       == {x, y}

Symmetric   == Permutations(MCHonest) \cup Permutations(MCIds)
=============================================================================
