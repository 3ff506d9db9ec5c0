--------------------------- MODULE MCLifecycleLock ---------------------------
(* Instances of LifecycleLock for TLC. *)
EXTENDS LifecycleLock, TLC

CONSTANTS o1, o2, o3, p1, p2, p3, here, there

\* One operation in each process.
OneEach == o1 :> p1 @@ o2 :> p2 @@ o3 :> p3

\* One of the processes runs on another machine.
TwoHosts == p1 :> here @@ p2 :> here @@ p3 :> there

\* The two processes of one machine are interchangeable.
Swap == {o1 :> o2 @@ o2 :> o1 @@ p1 :> p2 @@ p2 :> p1}
==============================================================================
