------------------------------- MODULE MCGcei -------------------------------
(* Gcei for TLC: the .cfg files of this module bound epochs, blocks, batches, *)
(* timeouts and resets.                                                       *)
EXTENDS Gcei, TLC
=============================================================================
