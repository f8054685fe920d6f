--------------------------- MODULE MCCircuitBreaker ---------------------------
(* Three callers that overlap in every way. *)
EXTENDS CircuitBreaker
=============================================================================
