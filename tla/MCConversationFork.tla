-------------------------- MODULE MCConversationFork --------------------------
(* Instances of ConversationFork for TLC. *)
EXTENDS ConversationFork, TLC

CONSTANTS f1, f2, a1, a2, a3

\* The two forks are interchangeable, and so are two artifacts that are both
\* below the cut and both changed.
Symmetric == Permutations({f1, f2}) \cup Permutations({a1, a2})
==============================================================================
