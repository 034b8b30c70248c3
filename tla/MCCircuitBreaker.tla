-------------------------- MODULE MCCircuitBreaker --------------------------
(* Instances of CircuitBreaker for TLC: the consumer and the heartbeat of  *)
(* the process are the callers.                                            *)
EXTENDS CircuitBreaker
=============================================================================
