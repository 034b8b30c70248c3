--------------------------- MODULE MCTelemetryDb ---------------------------
(* Instance of TelemetryDb for TLC: two mints whose writes share the pool. *)
EXTENDS TelemetryDb, TLC

(* The mints are interchangeable.                                          *)
MintSymmetry == Permutations(Mints)
=============================================================================
