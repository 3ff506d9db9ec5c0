--------------------------- MODULE ConversationLog ---------------------------
(***************************************************************************)
(* What Conversation OCC v1 promises to cooperative writers, without       *)
(* files, claims or fingerprints: the conversation is a list of turns, one *)
(* owner per index, and a writer appends its turn only when the list is    *)
(* still the one it was last shown.                                        *)
(***************************************************************************)
EXTENDS Naturals

CONSTANTS Writer,    \* the invocations that may append a turn
          Index      \* the conversation indexes, an initial segment of Nat

VARIABLES owners,    \* owners[i]: the set of authors of the artifacts at i
          shown      \* shown[w]: the list writer w expects to append to

logVars == <<owners, shown>>

\* The first index after every used one.
IsTail(i) ==
  /\ \A j \in Index : owners[j] # {} => j < i
  /\ \A m \in Index : m < i => owners[m] # {}

\* The list may start with turns nobody in Writer wrote.
Init ==
  /\ \A i \in Index : owners[i] \cap Writer = {}
  /\ \A w \in Writer : \A i \in Index : shown[w][i] = {}

\* Writer w is shown the current list: by its caller, or as the baseline that
\* its own user turn left behind.
Observe(w) ==
  /\ shown' = [shown EXCEPT ![w] = owners]
  /\ UNCHANGED owners

\* Compare and append: the list is the one shown to w, and the new turn takes
\* the tail index for w alone.
Append(w) ==
  /\ owners = shown[w]
  /\ \E i \in Index :
       /\ IsTail(i)
       /\ owners' = [owners EXCEPT ![i] = {w}]
  /\ UNCHANGED shown

Next == \E w \in Writer : Observe(w) \/ Append(w)

Spec == Init /\ [][Next]_logVars
==============================================================================
