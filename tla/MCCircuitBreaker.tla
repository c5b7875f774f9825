------------------------- MODULE MCCircuitBreaker --------------------------
(* Four commands in flight and a threshold of three: three failures open the *)
(* breaker while the fourth command is still out, and its outcome can meet   *)
(* an open, a half-open or a closed breaker.                                 *)
EXTENDS CircuitBreaker
=============================================================================
