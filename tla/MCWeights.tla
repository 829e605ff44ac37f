----------------------------- MODULE MCWeights ------------------------------
(***************************************************************************)
(* WeightsCache for TLC: processes and hashes are interchangeable model    *)
(* values; the .cfg files give the kinds of entry and the bounds.          *)
(***************************************************************************)
EXTENDS WeightsCache, TLC

WeightsSymmetry == Permutations(Processes) \cup Permutations(Hashes)
=============================================================================
