-------------------------- MODULE MCConversationOCC --------------------------
(* Instances of ConversationOCC for TLC. *)
EXTENDS ConversationOCC, TLC

CONSTANTS w1, w2, w3

\* One operation and one kind of condition each.
ThreeOps == w1 :> "append-user" @@ w2 :> "continue" @@ w3 :> "input"
ThreeModes == w1 :> "fingerprint" @@ w2 :> "fingerprint" @@ w3 :> "index"

\* A reply with nothing to save, and one of two artifacts.
FewShapes == {{}, {"body", "calls"}}
==============================================================================
