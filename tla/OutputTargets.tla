---------------------------- MODULE OutputTargets ----------------------------
(***************************************************************************)
(* The output artifact policy of promptpile: the files one completion will *)
(* write, checked for collisions before any effect by their names alone    *)
(* and, once their directories exist, by the real paths of those.  A path  *)
(* is a directory and a name in it; `world` says where links lead and      *)
(* which names of files are one (folded, on Windows).                      *)
(***************************************************************************)
EXTENDS Naturals, Sequences, FiniteSets

ClaimName == ".promptpile.occ.claim"

Fold(world, name) == IF name \in DOMAIN world.folded THEN world.folded[name] ELSE name
RealDirectory(world, dir) ==
    IF dir \in DOMAIN world.links THEN world.links[dir] ELSE dir

\* Two targets with one identity are one file.
LexicalIdentity(world, path) == <<Fold(world, path[1]), Fold(world, path[2])>>
CanonicalIdentity(world, path) ==
    <<Fold(world, RealDirectory(world, path[1])), Fold(world, path[2])>>

\* The body of -o and the two files beside it, the pile, the receipt.
TargetsOf(policy, world) ==
    [label : {"body"}, path : policy.main]
        \cup {[label |-> kind, path |-> <<p[1], world.beside[p[2]][kind]>>] :
                 kind \in {"calls", "extra"}, p \in policy.main}
        \cup [label : {"pile"}, path : policy.pile]
        \cup [label : {"receipt"}, path : policy.receipt]

\* Before the directories exist a target is its name, afterwards its real path.
TargetIdentity(world, real, path) ==
    IF real THEN CanonicalIdentity(world, path) ELSE LexicalIdentity(world, path)

DirectoryIdentity(world, dir) == Fold(world, RealDirectory(world, dir))

------------------------------------------------------------------------------
DistinctTargets(world, real, targets) ==
    \A t, u \in targets :
        TargetIdentity(world, real, t.path) = TargetIdentity(world, real, u.path) => t = u

\* A target in a directory of the conversation: never the claim's name, and
\* no artifact's name where those are protected.
KeepsOut(world, real, target, directories, protect) ==
    TargetIdentity(world, real, target.path)[1] \in {DirectoryIdentity(world, d) : d \in directories} =>
        /\ Fold(world, target.path[2]) # Fold(world, ClaimName)
        /\ protect => target.path[2] \notin world.artifacts

\* A receipt keeps out of every layer, the other targets out of the output
\* directory, and of its artifacts when the run changes it.
KeepsNamespace(policy, world, real, targets) ==
    \A t \in targets :
        IF t.label = "receipt"
        THEN KeepsOut(world, real, t, policy.layers \cup policy.output, TRUE)
        ELSE KeepsOut(world, real, t, policy.output, policy.mutates)

\* The hook that will run was resolved to its real path.
SparesHook(policy, world, real, targets) ==
    \A t \in targets, hook \in policy.hook :
        TargetIdentity(world, real, t.path) # <<Fold(world, hook[1]), Fold(world, hook[2])>>

Validate(policy, world, real) ==
    LET targets == TargetsOf(policy, world)
    IN /\ DistinctTargets(world, real, targets)
       /\ KeepsNamespace(policy, world, real, targets)
       /\ SparesHook(policy, world, real, targets)

\* resolveOutputArtifactPolicy.
ResolvedPolicy(policy, world) ==
    Validate(policy, world, FALSE)

\* Mutant of PreparedPolicy: the names were checked already.
PreparedPolicyAgain(policy, world) ==
    Validate(policy, world, FALSE)

\* prepareOutputArtifactPolicy: the parents exist, so links are resolved.
PreparedPolicy(policy, world) ==
    Validate(policy, world, TRUE)

Accepted(policy, world) ==
    ResolvedPolicy(policy, world) /\ PreparedPolicy(policy, world)
------------------------------------------------------------------------------
\* The file a path names.
FileOf(world, path) == CanonicalIdentity(world, path)

FilesIn(world, directories, names) ==
    {FileOf(world, <<d, n>>) : d \in directories, n \in names}

\* A completion is accepted exactly when the files it will write are all
\* different, none is the hook it will run, none an artifact of a
\* conversation it must leave alone and none a claim, whatever links and
\* spellings the paths were given by; a name that differs from an artifact's
\* only in case is not taken for one (output-artifact-policy.ts:95-237).
SinksAreSeparate(policy, world) ==
    LET targets == TargetsOf(policy, world)
        Files(labels) == {FileOf(world, t.path) : t \in {u \in targets : u.label \in labels}}
        others == {"body", "calls", "extra", "pile"}
        claims(directories) == FilesIn(world, directories, {ClaimName})
        turns(directories)  == FilesIn(world, directories, world.artifacts)
    IN Accepted(policy, world) <=>
          /\ Cardinality(Files(others \cup {"receipt"})) = Cardinality(targets)
          /\ Files(others \cup {"receipt"})
                \cap {FileOf(world, hook) : hook \in policy.hook} = {}
          /\ Files({"receipt"}) \cap (claims(policy.layers \cup policy.output)
                \cup turns(policy.layers \cup policy.output)) = {}
          /\ Files(others) \cap claims(policy.output) = {}
          /\ policy.mutates => Files(others) \cap turns(policy.output) = {}
==============================================================================
