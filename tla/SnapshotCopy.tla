----------------------------- MODULE SnapshotCopy -----------------------------
(***************************************************************************)
(* What a fork promises (doc/15-contracts/conversation-fork-v1.md), without *)
(* observations, staging or claims: a target that does not exist yet       *)
(* appears in one step, and its content is the selected prefix of the      *)
(* source as it was at one moment while the fork ran.                      *)
(***************************************************************************)
CONSTANTS Fork,         \* the forks that publish to one target
          Prefixes,     \* what the selected prefix may be
          NoArtifacts   \* the empty directory

VARIABLES prefix,       \* the selected prefix of the source
          moments,      \* moments[f]: the prefixes there were since f began
          target        \* what is at the target path

copyVars == <<prefix, moments, target>>

\* "bare" is an empty directory somebody made, "foreign" one with contents.
Free == {[kind |-> k, content |-> NoArtifacts] : k \in {"absent", "bare"}}
Foreign == [kind |-> "foreign", content |-> NoArtifacts]

Init ==
  /\ prefix \in Prefixes
  /\ moments = [f \in Fork |-> {}]
  /\ target = [kind |-> "absent", content |-> NoArtifacts]

Begin(f) ==
  /\ moments[f] = {}
  /\ moments' = [moments EXCEPT ![f] = {prefix}]
  /\ UNCHANGED <<prefix, target>>

End(f) ==
  /\ moments' = [moments EXCEPT ![f] = {}]
  /\ UNCHANGED <<prefix, target>>

Change ==
  /\ prefix' \in Prefixes
  /\ moments' = [f \in Fork |-> IF moments[f] = {} THEN {} ELSE moments[f] \cup {prefix'}]
  /\ UNCHANGED target

\* Another program takes the target path.
Occupy ==
  /\ target \in Free
  /\ target' \in Free \cup {Foreign}
  /\ UNCHANGED <<prefix, moments>>

Publish(f) ==
  /\ target \in Free
  /\ target' \in {[kind |-> "fork", content |-> c] : c \in moments[f]}
  /\ UNCHANGED <<prefix, moments>>

Next == (\E f \in Fork : Begin(f) \/ Publish(f) \/ End(f)) \/ Change \/ Occupy

Spec == Init /\ [][Next]_copyVars
==============================================================================
