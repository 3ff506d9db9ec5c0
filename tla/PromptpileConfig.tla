--------------------------- MODULE PromptpileConfig ---------------------------
(***************************************************************************)
(* resolveConfig of promptpile: the command line, the [promptpile] table   *)
(* and a selected [[llm_api]] profile become one configuration.  Pure      *)
(* operators: `world` is what the file system and the environment say.     *)
(* An option is a set: empty when a layer does not mention it.             *)
(***************************************************************************)
EXTENDS Naturals, Sequences, SequencesExt, FiniteSets

Unset == {}

\* trim(cli) ?? trim(toml), cli ?? toml.
Pick(first, second) == IF first # Unset THEN first ELSE second

The(option, default) ==
    IF option = Unset THEN default ELSE CHOOSE v \in option : TRUE

ProfileOptions == {"model", "baseUrl", "key", "keyEnv", "temperature",
                   "extraBody"}
DirectoryOptions == {"dirs", "out", "continue", "input"}
OptionNames == ProfileOptions \cup DirectoryOptions
                  \cup {"profile", "pileFile", "pileFd"}

NoOptions == [o \in OptionNames |-> Unset]

Failed == [ok |-> FALSE, inputs |-> <<>>, output |-> Unset, anchor |-> <<>>,
           key |-> Unset, options |-> NoOptions, pile |-> <<>>]

------------------------------------------------------------------------------
\* What the selected profile adds to the table; names compare without case,
\* which the model's names already are.
TomlLayer(table, profile) ==
    [o \in OptionNames |->
        IF o \in ProfileOptions THEN Pick(table[o], profile[o]) ELSE table[o]]

\* A selected profile must exist; none need be selected.
Selected(cli, table) == Pick(cli["profile"], table["profile"])

ProfileExists(cli, table, profiles) ==
    \A name \in Selected(cli, table) : name \in DOMAIN profiles

ProfileOf(cli, table, profiles) ==
    IF Selected(cli, table) = Unset THEN NoOptions
    ELSE profiles[The(Selected(cli, table), "")]

\* An environment variable that is unset or blank is no key.
EnvKey(world, name) ==
    IF name \in DOMAIN world.environ THEN {world.environ[name]} ELSE Unset

\* Mutant of KeySource: a configured variable displaces a direct key.
KeySourceVariableFirst(cli, toml) ==
    IF Pick(cli["keyEnv"], toml["keyEnv"]) # Unset
    THEN <<"env", Pick(cli["keyEnv"], toml["keyEnv"])>>
    ELSE <<"direct", Pick(cli["key"], toml["key"])>>

\* --api-key-env excludes every other source and must be set; a direct key of
\* any layer comes before every configured variable.
KeySource(cli, toml) ==
    IF cli["keyEnv"] # Unset THEN <<"env", cli["keyEnv"]>>
    ELSE IF Pick(cli["key"], toml["key"]) # Unset
         THEN <<"direct", Pick(cli["key"], toml["key"])>>
         ELSE <<"configured", toml["keyEnv"]>>

KeyIn(world, source) ==
    IF source[1] = "direct" THEN source[2]
    ELSE UNION {EnvKey(world, name) : name \in source[2]}

KeysAreConsistent(world, cli) ==
    /\ cli["key"] = Unset \/ cli["keyEnv"] = Unset
    /\ \A name \in cli["keyEnv"] : EnvKey(world, name) # Unset

------------------------------------------------------------------------------
\* realpath, and the identity two spellings of one directory share: equal up
\* to case on Windows, equal elsewhere.
Real(world, path) == IF path \in DOMAIN world.links THEN world.links[path] ELSE path
Exists(world, path) == Real(world, path) \in world.directories
Identity(world, path) ==
    IF path \in DOMAIN world.folded THEN world.folded[path] ELSE path

\* mkdir -p.
Made(world, paths) ==
    [world EXCEPT !.directories = @ \cup {Real(world, p) : p \in paths}]

\* The first of every identity, as its real path.
Distinct(world, paths) ==
    LET Add(seen, path) ==
            IF \E i \in DOMAIN seen :
                   Identity(world, seen[i]) = Identity(world, Real(world, path))
            THEN seen ELSE Append(seen, Real(world, path))
    IN FoldLeft(Add, <<>>, paths)

Without(world, paths, path) ==
    LET Keep(kept, p) == IF Identity(world, p) = Identity(world, path)
                         THEN kept ELSE Append(kept, p)
    IN FoldLeft(Keep, <<>>, paths)

\* The layers read: every input once, the output directory last.
LayersOf(world, dirs, out) ==
    IF out = Unset THEN Distinct(world, dirs)
    ELSE LET o == Real(world, The(out, <<>>))
         IN Append(Without(world, Distinct(world, dirs), o), o)

\* The legacy default stands in when neither side is configured.
ListedDirectories(world, dirs, out) ==
    The(dirs, IF out = Unset THEN <<world.default>> ELSE <<>>)

\* fd before file, both of the layer that names a target at all.
PileTarget(cli, toml) ==
    LET source == IF cli["pileFile"] \cup cli["pileFd"] # Unset THEN cli ELSE toml
    IN CASE source["pileFd"] # Unset   -> <<"fd", source["pileFd"]>>
         [] source["pileFile"] # Unset -> <<"file", source["pileFile"]>>
         [] OTHER                      -> <<>>

\* expects: an expectation about the output directory was passed.
Resolve(world, cli, table, profiles, expects) ==
    IF ~KeysAreConsistent(world, cli) \/ ~ProfileExists(cli, table, profiles)
    THEN Failed
    ELSE
    LET toml   == TomlLayer(table, ProfileOf(cli, table, profiles))
        merged == [o \in OptionNames |-> Pick(cli[o], toml[o])]
        out    == merged["out"]
        listed == ListedDirectories(world, merged["dirs"], out)
        layers == LayersOf(world, listed, out)
        writes == The(merged["continue"], FALSE) \/ The(merged["input"], FALSE)
        anchor == layers[Len(layers)]
    IN IF \/ \E i \in DOMAIN listed : ~Exists(world, listed[i])
          \/ layers = <<>>
          \/ expects /\ ~writes
          \/ Len(layers) > 1 /\ writes /\ out = Unset
       THEN Failed
       ELSE [ok      |-> TRUE,
             inputs  |-> layers,
             output  |-> IF out # Unset \/ writes THEN {anchor} ELSE Unset,
             anchor  |-> anchor,
             key     |-> KeyIn(world, KeySource(cli, toml)),
             options |-> merged,
             pile    |-> PileTarget(cli, toml)]
==============================================================================
