---------------------------- MODULE MCSwapFeed ------------------------------
(* Instance of SwapFeed for TLC: capacities of one, so that every hop      *)
(* overflows, and a second pool whose swaps fill the broadcast.            *)
EXTENDS SwapFeed
=============================================================================
