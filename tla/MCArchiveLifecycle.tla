-------------------------- MODULE MCArchiveLifecycle --------------------------
(* Instances of ArchiveLifecycle for TLC. *)
EXTENDS ArchiveLifecycle

Main(i) == [idx |-> i, part |-> "main"]
Side(i) == [idx |-> i, part |-> "side"]

\* A system turn, a turn of two files, and a last turn.
Talk == {Main(0), Main(1), Side(1), Main(2)}
SystemTurns == {0}

\* The last turn always stays live; or everything may be archived.
KeepLast == {1}
KeepAny == {0, 1}

\* Other programs write between operations and while a compression is planned.
Planning == {"capture", "scan", "summarise", "assert"}
BetweenAndPlanning == Planning \cup {"idle"}
==============================================================================
