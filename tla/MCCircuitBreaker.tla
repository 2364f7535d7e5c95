--------------------------- MODULE MCCircuitBreaker ---------------------------
(* A small instance of CircuitBreaker.                                       *)
EXTENDS CircuitBreaker

CONSTANTS k1, k2, k3
==============================================================================
