-------------------------- MODULE MCCircuitBreaker --------------------------
(* The instance of CircuitBreaker for TLC: two clients that race for the probe, and
   one health checker that only records.  No symmetry, since liveness is checked. *)
EXTENDS CircuitBreaker, TLC
=============================================================================
