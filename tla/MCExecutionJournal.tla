------------------------- MODULE MCExecutionJournal -------------------------
(* Instances of ExecutionJournal for TLC.  Mints are interchangeable.      *)
EXTENDS ExecutionJournal, TLC

MintSymmetry == Permutations(Mints)
=============================================================================
