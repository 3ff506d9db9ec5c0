------------------------------ MODULE PhaseQueue ------------------------------
(***************************************************************************)
(* What the serialisation of automatic runs promises inside one process:   *)
(* the phases of a directory run one at a time in the order they came, and *)
(* each of them gets its turn and gives it back.                           *)
(***************************************************************************)
EXTENDS Sequences

CONSTANTS Run, Directory

VARIABLES
    line,     \* line[d]: the phases of d that came and have not left
    inside    \* inside[d]: the phase at work, if any

vars == <<line, inside>>

Init ==
    /\ line = [d \in Directory |-> <<>>]
    /\ inside = [d \in Directory |-> {}]

Arrive(d, r) ==
    /\ line' = [line EXCEPT ![d] = Append(@, r)]
    /\ UNCHANGED inside

Enter(d) ==
    /\ inside[d] = {} /\ line[d] # <<>>
    /\ inside' = [inside EXCEPT ![d] = {Head(line[d])}]
    /\ UNCHANGED line

Leave(d) ==
    /\ inside[d] # {}
    /\ line' = [line EXCEPT ![d] = Tail(@)]
    /\ inside' = [inside EXCEPT ![d] = {}]

Next ==
    \E d \in Directory : Enter(d) \/ Leave(d) \/ \E r \in Run : Arrive(d, r)

\* One at a time and in order; and each gets its turn.
SafeSpec == Init /\ [][Next]_vars

Spec ==
    /\ SafeSpec
    /\ \A d \in Directory : WF_vars(Enter(d)) /\ WF_vars(Leave(d))
==============================================================================
