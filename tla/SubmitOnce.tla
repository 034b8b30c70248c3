----------------------------- MODULE SubmitOnce -----------------------------
(***************************************************************************)
(* What the consumer relies on when it hands an opportunity to the         *)
(* dispatcher: an opportunity is submitted at most once and answered at    *)
(* most once; an acknowledgement means that a block engine holds the       *)
(* bundle, while a failure says nothing about it, then or later.           *)
(***************************************************************************)
CONSTANT Opportunities

VARIABLES
  answer,               \* what the consumer has been told of each
  held                  \* opportunities some block engine holds a bundle of

Init ==
  /\ answer = [k \in Opportunities |-> "none"]
  /\ held = {}

Submit(k) ==
  /\ answer[k] = "none"
  /\ answer' = [answer EXCEPT ![k] = "pending"]
  /\ UNCHANGED held

(* The bundle of a submitted opportunity arrives, perhaps after the answer. *)
Arrive(k) ==
  /\ answer[k] # "none"
  /\ held' = held \cup {k}
  /\ UNCHANGED answer

Acknowledge(k) ==
  /\ answer[k] = "pending" /\ k \in held
  /\ answer' = [answer EXCEPT ![k] = "acked"]
  /\ UNCHANGED held

Fail(k) ==
  /\ answer[k] = "pending"
  /\ answer' = [answer EXCEPT ![k] = "failed"]
  /\ UNCHANGED held

Next ==
  \E k \in Opportunities : Submit(k) \/ Arrive(k) \/ Acknowledge(k) \/ Fail(k)

Spec == Init /\ [][Next]_<<answer, held>>
=============================================================================
