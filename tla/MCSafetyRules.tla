--------------------------- MODULE MCSafetyRules ---------------------------
(* A small instance of SafetyRules: epochs 1 .. MaxEpoch, rounds 1 ..      *)
(* MaxRound; every certificate is accepted by any epoch's validators.      *)
EXTENDS SafetyRules, TLC

CONSTANTS MaxEpoch, MaxRound

MCEpochs  == 1 .. MaxEpoch
MCRounds  == 1 .. MaxRound
MCInSet   == MCEpochs
MCAccepts == MCEpochs \X MCEpochs
IdSymmetry == Permutations(Ids)
=============================================================================
