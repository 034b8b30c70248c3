------------------------------ MODULE BuyOnce ------------------------------
(***************************************************************************)
(* What the execution engine promises about capital, with every mechanism  *)
(* left out: a mint is committed to durably before a bundle buying it is   *)
(* sent, and a committed mint is bought at most once, over all restarts.   *)
(* The engine states it in execution.rs, at the call of journal.reserve:   *)
(* "Persist and sync the signature and capital reservation before the      *)
(* first SendBundle attempt. A timeout is therefore never safe to retry,   *)
(* including after a process restart."                                     *)
(*                                                                         *)
(* There is no action that takes a reservation or a purchase back, and     *)
(* none that crashes: an implementation must make its crashes invisible.   *)
(***************************************************************************)
EXTENDS Naturals

CONSTANT Mints          \* token mints a whale may buy

VARIABLES
  reserved,             \* mints with a durable capital reservation
  buys                  \* how many buy bundles were handed to Jito, per mint

vars == <<reserved, buys>>

Init ==
  /\ reserved = {}
  /\ buys = [m \in Mints |-> 0]

(* One write to stable storage may make several reservations durable.      *)
Reserve(S) ==
  /\ reserved' = reserved \cup S
  /\ UNCHANGED buys

Buy(m) ==
  /\ m \in reserved
  /\ buys[m] = 0
  /\ buys' = [buys EXCEPT ![m] = 1]
  /\ UNCHANGED reserved

Next ==
  \/ \E S \in SUBSET Mints : Reserve(S)
  \/ \E m \in Mints : Buy(m)

Spec == Init /\ [][Next]_vars
=============================================================================
