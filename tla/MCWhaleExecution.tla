-------------------------- MODULE MCWhaleExecution --------------------------
(* Instances of WhaleExecution for TLC: sets of model values and the       *)
(* symmetry of mints, which no definition tells apart.                     *)
EXTENDS WhaleExecution, TLC

MintSymmetry == Permutations(Mints)
=============================================================================
