---------------------------- MODULE MCReactSession ----------------------------
(* Instances of ReactSession for TLC. *)
EXTENDS ReactSession

\* No retention, and retention of one or two observations: with three
\* iterations both make room for a newer one.
NoneToTwo == 0..2

NoRetention == {0}
==============================================================================
