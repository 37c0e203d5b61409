-------------------------- MODULE MCCircuitBreaker --------------------------
(***************************************************************************)
(* Instances of CircuitBreaker with three threads, a loss that trips it in   *)
(* one trade and a gain that takes the P&L back under the limit.           *)
(***************************************************************************)
EXTENDS CircuitBreaker

MCResults == {-2, 1}
=============================================================================
