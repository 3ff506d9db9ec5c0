----------------------------- MODULE ReactConfig -----------------------------
(***************************************************************************)
(* resolveReactConfig, the session's work directory and the command line   *)
(* of every phase, which promptpile resolves again in a process of its     *)
(* own: the two programs must agree on the directories and the key.        *)
(***************************************************************************)
EXTENDS PromptpileConfig

Phases == {"thought", "observe", "check", "final"}

\* CLI before [promptpile-react] before [promptpile].
PickOf(layers, option) == Pick(layers.cli[option],
                               Pick(layers.react[option], layers.pile[option]))

\* Mutant of Canonical: directories are compared as they are spelled.
CanonicalSpelled(world, path) == path

\* An input that does not exist keeps its spelling: promptpile reports it.
Canonical(world, path) == IF Exists(world, path) THEN Real(world, path) ELSE path

DistinctCanonical(world, paths) ==
    LET Add(seen, path) ==
            IF \E i \in DOMAIN seen :
                   Identity(world, seen[i]) = Identity(world, Canonical(world, path))
            THEN seen ELSE Append(seen, Canonical(world, path))
    IN FoldLeft(Add, <<>>, paths)

\* Paths are sequences of names.
Within(parent, path) == IsPrefix(parent, path)
Overlap(p, q) == Within(p, q) \/ Within(q, p)

\* The options of one phase: the command line and the phase's own keys of
\* [promptpile-react] before the shared ones.  A key displaces a variable.
PhaseLlm(layers, phase) ==
    LET own(option) == layers.phases[phase][option]
        key == Pick(layers.cli["key"], own("key"))
    IN [o \in ProfileOptions \cup {"profile"} |->
          CASE o = "profile" -> Pick(own(o), Pick(layers.react[o], layers.pile[o]))
            [] o = "key"     -> key
            [] o = "keyEnv"  -> IF key = Unset THEN own(o) ELSE Unset
            [] o \in {"temperature", "extraBody"} ->
                  Pick(layers.cli[o],
                       Pick(own(o), Pick(layers.react[o], layers.pile[o])))
            [] OTHER -> Pick(layers.cli[o], own(o))]

NoReactConfig == [ok |-> FALSE, layers |-> <<>>, writable |-> <<>>,
                  continue |-> FALSE, carryover |-> FALSE, workRoot |-> <<>>,
                  world |-> <<>>]

\* The output directory is made at once; a work root equal to a layer or
\* inside one is refused.
ReactResolve(world, layers, carryover, workRoot) ==
    LET out     == PickOf(layers, "out")
        world2  == Made(world, out)
        given   == ListedDirectories(world2, PickOf(layers, "dirs"), out)
        inputs  == IF out = Unset THEN DistinctCanonical(world2, given)
                   ELSE Without(world2, DistinctCanonical(world2, given),
                                Real(world2, The(out, <<>>)))
        writes  == The(PickOf(layers, "continue"), FALSE)
                      \/ The(PickOf(layers, "input"), FALSE)
        writable == IF out # Unset THEN Real(world2, The(out, <<>>))
                    ELSE inputs[Len(inputs)]
        all     == IF \E i \in DOMAIN inputs :
                          Identity(world2, inputs[i]) = Identity(world2, writable)
                   THEN inputs ELSE Append(inputs, writable)
        root    == Real(world2, workRoot)
    IN IF \/ Len(inputs) > 1 /\ writes /\ out = Unset
          \/ \E i \in DOMAIN all : Within(Real(world2, all[i]), root)
       THEN NoReactConfig
       ELSE [ok |-> TRUE, layers |-> all, writable |-> writable,
             continue |-> The(PickOf(layers, "continue"), FALSE),
             carryover |-> carryover, workRoot |-> root, world |-> world2]

\* A fresh directory in the work root, which is made when it is missing; it
\* must not overlap a layer.
Session(config) == Append(config.workRoot, "session")

SessionIsUsable(config) ==
    \A i \in DOMAIN config.layers :
        ~Overlap(Real(config.world, config.layers[i]), Session(config))

Isolated == <<"tmp", "check">>

SessionWorld(config) == Made(config.world, {config.workRoot, Session(config), Isolated})

------------------------------------------------------------------------------
\* Where a phase reads and what it may write.
Routing(config, phase) ==
    CASE phase = "check" ->
            [dirs |-> <<Isolated>>, out |-> Unset, continue |-> FALSE]
      [] phase = "thought" \/ (phase = "observe" /\ config.carryover) ->
            [dirs |-> config.layers, out |-> {Session(config)}, continue |-> TRUE]
      [] phase = "observe" /\ ~config.carryover ->
            [dirs |-> Append(config.layers, Session(config)), out |-> Unset,
             continue |-> FALSE]
      [] phase = "final" ->
            [dirs |-> config.layers,
             out |-> IF config.continue THEN {config.writable} ELSE Unset,
             continue |-> config.continue]

\* The command line of the phase: -d, --output-dir, -c, the model's options
\* and nothing of the [promptpile] table.
PhaseOptions(config, layers, phase) ==
    LET r   == Routing(config, phase)
        llm == PhaseLlm(layers, phase)
    IN [o \in OptionNames |->
          CASE o = "dirs"     -> {r.dirs}
            [] o = "out"      -> r.out
            [] o = "continue" -> IF r.continue THEN {TRUE} ELSE Unset
            [] o \in DOMAIN llm -> llm[o]
            [] OTHER          -> Unset]

\* What promptpile makes of it: --llm-config brings the profiles only.
PhaseRun(config, layers, profiles, phase) ==
    Resolve(SessionWorld(config), PhaseOptions(config, layers, phase),
            NoOptions, profiles, FALSE)
------------------------------------------------------------------------------
\* Every phase of a session reads the layers the session was resolved to, all
\* of them, in their order and none twice, whatever links and spellings the
\* directories were given by.  Thought and Observe write to the session's own
\* directory only, Check reads nothing of the conversation, and Final alone
\* writes to the user's directory, only when the session continues
\* (build-phase-argv.ts:46-81 against resolve-config.ts:395-487).
PhasesKeepTo(config, layers, profiles) ==
    \A phase \in Phases :
        LET run == PhaseRun(config, layers, profiles, phase) IN
        run.ok =>
            CASE phase = "check" ->
                    run.inputs = <<Isolated>> /\ run.output = Unset
              [] phase = "final" ->
                    /\ run.inputs = config.layers
                    /\ run.output = IF config.continue THEN {config.writable}
                                    ELSE Unset
              [] OTHER ->
                    /\ run.inputs = Append(config.layers, Session(config))
                    /\ run.output \subseteq {Session(config)}

\* And it fails only for an input that is not there, or a key or profile that
\* is not.
PhasesResolve(config, layers, profiles) ==
    (\A i \in DOMAIN config.layers :
        Exists(config.world, config.layers[i])) =>
    \A phase \in Phases :
        \/ PhaseRun(config, layers, profiles, phase).ok
        \/ ~KeysAreConsistent(config.world, PhaseLlm(layers, phase))
        \/ ~ProfileExists(PhaseLlm(layers, phase), NoOptions, profiles)

\* The key a phase authenticates with is the command line's, else the phase's
\* own, else the one its own variable names, else its profile's; a key of the
\* [promptpile] table of the same file is nobody's
\* (resolve-react-config.ts:46-75, resolve-config.ts:499-523).
PhaseKey(world, layers, profiles, phase) ==
    LET own     == layers.phases[phase]
        llm     == PhaseLlm(layers, phase)
        profile == ProfileOf(llm, NoOptions, profiles)
    IN CASE layers.cli["key"] # Unset -> layers.cli["key"]
         [] OTHER ->
            CASE own["key"] # Unset -> own["key"]
              [] own["key"] = Unset /\ own["keyEnv"] # Unset ->
                    UNION {EnvKey(world, n) : n \in own["keyEnv"]}
              [] OTHER -> Pick(profile["key"],
                               UNION {EnvKey(world, n) : n \in profile["keyEnv"]})
==============================================================================
