---------------------------- MODULE MCToolExecution ----------------------------
(* Instances of ToolExecution for TLC. *)
EXTENDS ToolExecution, TLC

CONSTANTS c1, c2, c3

\* c1 and c2 are interchangeable where both or neither overwrite.
TwoClients == Permutations({c1, c2})
==============================================================================
