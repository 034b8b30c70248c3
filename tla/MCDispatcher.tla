---------------------------- MODULE MCDispatcher ----------------------------
(* Model-checking instance of Dispatcher: three regions, in a fixed order.  *)
EXTENDS Dispatcher

CONSTANTS r1, r2, r3

ThreeRegions == <<r1, r2, r3>>
=============================================================================
