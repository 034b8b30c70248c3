-------------------------- MODULE MCBundleTracker --------------------------
(* Instances of BundleTracker for TLC.  Bundles and regions are model      *)
(* values; the runs state liveness, so no symmetry is declared.            *)
EXTENDS BundleTracker
=============================================================================
