------------------------------ MODULE Algorithms ------------------------------
(***************************************************************************)
(* The algorithms without state of their own.  A behaviour takes one input *)
(* of one of them, and the properties say what the algorithm makes of it;  *)
(* the constants are the inputs, and the assumptions what any input is     *)
(* like.                                                                   *)
(***************************************************************************)
EXTENDS RangeRead, Transcript, OutputTargets, ReactConfig, ArchiveSearch

CONSTANTS
    Ranges,      \* files in chunks, with a request for some of their lines
    Answers,     \* streamed answers, and the conversations they end up in
    Outputs,     \* output policies, and the file system they are judged in
    Sessions,    \* what a session is configured with
    Searches     \* archives and requests

VARIABLE input

Nothing == [of |-> "nothing"]

------------------------------------------------------------------------------
\* What readFileInRange is given: chunks that are not empty.
RangeIsSane(r) ==
    /\ r.chunks \in Seq(Seq({"a", "n", "r", "B"}) \ {<<>>})
    /\ r.request.offset \in Nat /\ r.request.lines \in Nat
    /\ r.request.bytes \in Nat /\ r.request.cut \in BOOLEAN

ASSUME RangesAssumption == \A r \in Ranges : RangeIsSane(r)

TakeRange ==
    \E r \in Ranges :
        input' = [of |-> "range", chunks |-> r.chunks, request |-> r.request]

\* Whatever chunks a file arrives in (see ChunksAreInvisible).
RangeIsChunkFree ==
    input.of = "range" => ChunksAreInvisible(input.chunks, input.request)

------------------------------------------------------------------------------
\* A row never says by chance what a placeholder says.
TurnIsSane(t) ==
    /\ t.plain \in Seq(STRING) /\ t.body \in BOOLEAN /\ t.extra \in BOOLEAN
    /\ t.calls \subseteq Seq([id : SUBSET STRING, args : Seq(STRING)])
    /\ t.rows \subseteq Seq([id : SUBSET STRING, content : Seq(STRING) \ {Missing}])

\* A streamed answer, the turn it became, and the conversation that turn is in.
AnswerIsSane(a) ==
    /\ a.deltas \in Seq([index : Nat, id : SUBSET STRING, args : Seq(STRING)])
    /\ a.turn.calls = TurnOf(a.deltas, a.turn.body, a.turn.rows).calls
    /\ a.turn \in Turns(a.layers)
    /\ \A t \in Turns(a.layers) : TurnIsSane(t)
    /\ a.layers \in Seq(ToSet(a.layers))
    /\ \A l \in DOMAIN a.layers :
          IsFiniteSet(DOMAIN a.layers[l]) /\ DOMAIN a.layers[l] \subseteq Nat

ASSUME AnswersAssumption == \A a \in Answers : AnswerIsSane(a)

TakeTranscript ==
    \E a \in Answers :
        input' = [of |-> "transcript", deltas |-> a.deltas, turn |-> a.turn,
                  layers |-> a.layers]

\* Tool calls and their answers stay together (see AnswersEveryCall).
EveryCallHasItsAnswer ==
    input.of = "transcript" =>
        AnswersEveryCall(input.layers, input.deltas, input.turn)

------------------------------------------------------------------------------
\* A link leads to a directory, not to a link; two spellings of a directory
\* lead to the same one; an artifact has no second spelling, as its name is
\* compared as it is spelled; and the hook was resolved (see SparesHook).
OutputIsSane(policy, world) ==
    /\ \A d \in DOMAIN world.links :
          RealDirectory(world, world.links[d]) = world.links[d]
    /\ \A d \in DOMAIN world.folded :
          Fold(world, RealDirectory(world, d))
              = Fold(world, RealDirectory(world, world.folded[d]))
    /\ \A n \in DOMAIN world.folded : world.folded[n] \notin DOMAIN world.folded
    /\ \A n \in DOMAIN world.folded :
          {n, world.folded[n]} \cap world.artifacts = {}
    /\ \A hook \in policy.hook : RealDirectory(world, hook[1]) = hook[1]
    /\ \A paths \in {policy.main, policy.pile, policy.receipt} : IsFiniteSet(paths)

ASSUME OutputsAssumption == \A o \in Outputs : OutputIsSane(o.policy, o.world)

TakeTargets ==
    \E o \in Outputs :
        input' = [of |-> "targets", world |-> o.world, policy |-> o.policy]

\* What a completion writes never meets (see SinksAreSeparate).
SinksNeverMeet ==
    input.of = "targets" => SinksAreSeparate(input.policy, input.world)

------------------------------------------------------------------------------
\* The paths a session is configured with.
PathsOf(s) ==
    {s.world.default} \cup PickOf(s.layers, "out")
        \cup UNION {ToSet(dirs) : dirs \in PickOf(s.layers, "dirs")}

\* A directory nobody else has: no path leads to it or below, in any spelling.
IsFresh(s, directory) ==
    /\ directory \in Seq(STRING)
    /\ Real(s.world, directory) = directory
    /\ directory \notin s.world.directories
    /\ \A p \in PathsOf(s) : \A q \in {p, Real(s.world, p)} :
          /\ Identity(s.world, q) # Identity(s.world, directory)
          /\ ~Within(directory, q)

\* A link leads to a directory, not to a link; lists of directories are not
\* empty; the directories a session makes for itself are fresh (mkdtemp).
SessionIsSane(s) ==
    /\ DOMAIN s.world = {"links", "folded", "directories", "default", "environ"}
    /\ \A p \in DOMAIN s.world.links :
          Real(s.world, s.world.links[p]) = s.world.links[p]
    /\ \A dirs \in PickOf(s.layers, "dirs") :
          dirs \in Seq(ToSet(dirs)) /\ dirs # <<>>
    /\ \A p \in PathsOf(s) \cup {s.root} : Real(s.world, p) \in Seq(STRING)
    /\ IsFresh(s, Append(Real(s.world, s.root), "session"))
    /\ IsFresh(s, Isolated)
    /\ Isolated # Append(Real(s.world, s.root), "session")

ASSUME SessionsAssumption == \A s \in Sessions : SessionIsSane(s)

TakeSession ==
    \E s \in Sessions :
        input' = [of |-> "session", layers |-> s.layers, profiles |-> s.profiles,
                  config |-> ReactResolve(s.world, s.layers, s.carryover, s.root)]

\* Every phase runs on what the session was configured with: it reads and
\* writes the session's directories (see PhasesKeepTo), and it never
\* authenticates with another's key (see PhaseKey).
PhasesRunAsConfigured ==
    input.of = "session" /\ input.config.ok =>
        /\ SessionIsUsable(input.config)
        /\ PhasesKeepTo(input.config, input.layers, input.profiles)
        /\ PhasesResolve(input.config, input.layers, input.profiles)
        /\ \A phase \in Phases :
             LET run == PhaseRun(input.config, input.layers, input.profiles, phase)
             IN run.ok => run.key = PhaseKey(input.config.world, input.layers,
                                             input.profiles, phase)

------------------------------------------------------------------------------
\* A line contains the query beyond what is read of it only if it is too long;
\* searchArchive was given a limit of results.
SearchIsSane(s) ==
    /\ s.request.limit \in Nat
    /\ IsFiniteSet(s.archives)
    /\ \A a \in s.archives : IsFiniteSet(a.files)
    /\ \A a \in s.archives : \A f \in a.files :
          /\ f.turn \in Nat
          /\ f.kind \in {"message", "calls", "extra", "result"}
          /\ f.lines \in Seq([found : BOOLEAN, long : BOOLEAN, beyond : BOOLEAN])
          /\ \A i \in DOMAIN f.lines : f.lines[i].beyond => f.lines[i].long

ASSUME SearchesAssumption == \A s \in Searches : SearchIsSane(s)

TakeArchives ==
    \E s \in Searches :
        input' = [of |-> "search", request |-> s.request, archives |-> s.archives]

\* A search is complete or says it is not (see SearchTellsWhatItLeavesOut).
SearchIsCompleteOrSaysSo ==
    input.of = "search" /\ Outcome(input.archives) = "ok" =>
        SearchTellsWhatItLeavesOut(input.archives, input.request)

------------------------------------------------------------------------------
NoInput == input = Nothing

TakeInput ==
    /\ input = Nothing
    /\ \/ TakeRange \/ TakeTranscript \/ TakeTargets \/ TakeSession \/ TakeArchives

AnyInput == NoInput /\ [][TakeInput]_input
==============================================================================
