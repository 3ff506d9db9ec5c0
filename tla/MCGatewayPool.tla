----------------------------- MODULE MCGatewayPool -----------------------------
(* Instances of GatewayPool for TLC. *)
EXTENDS GatewayPool, TLC

CONSTANTS w1, w2, w3

\* The workers are interchangeable.
Workers == Permutations(Worker)
==============================================================================
