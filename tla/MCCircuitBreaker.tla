-------------------------- MODULE MCCircuitBreaker --------------------------
(* Instance of CircuitBreaker for TLC: the callers are model values of the   *)
(* configuration.                                                            *)
EXTENDS CircuitBreaker
=============================================================================
