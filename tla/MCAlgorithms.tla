---------------------------- MODULE MCAlgorithms ----------------------------
(***************************************************************************)
(* Bounded inputs for the algorithms.                                      *)
(***************************************************************************)
EXTENDS Algorithms, TLC

------------------------------------------------------------------------------
\* Ranges: texts of up to four characters in every division into chunks.
Characters == {"a", "n", "r"}

TextsUpTo(n) == UNION {[1..k -> Characters] : k \in 0..n}
                   \cup {<<"B">> \o t : t \in UNION {[1..k -> Characters] : k \in 0..2}}

Chunkings(text) ==
    {cuts \in SUBSET (1..(Len(text) - 1)) : TRUE}

ChunksAt(text, cuts) ==
    IF text = <<>> THEN <<>> ELSE
    LET ends   == SetToSortSeq(cuts \cup {Len(text)}, LAMBDA a, b : a < b)
    IN [k \in DOMAIN ends |->
          SubSeq(text, (IF k = 1 THEN 0 ELSE ends[k - 1]) + 1, ends[k])]

Requests == [offset : 0..1, lines : {1, 9}, bytes : 0..3, cut : BOOLEAN]

SomeRanges ==
    UNION {[chunks : {ChunksAt(text, cuts) : cuts \in Chunkings(text)},
            request : Requests] : text \in TextsUpTo(4)}

------------------------------------------------------------------------------
\* Deltas of two calls, the second with two pieces of arguments, and of one
\* that never gets an id, in every order.
Delta(index, id, args) == [index |-> index, id |-> id, args |-> args]

DeltasOf == <<Delta(0, {"c0"}, <<"x">>), Delta(0, {}, <<"y">>),
              Delta(2, {"c2"}, <<"x">>), Delta(2, {}, <<"z">>),
              Delta(1, {}, <<"w">>)>>

Orders == {f \in [1..5 -> 1..5] : /\ \A i, j \in 1..5 : f[i] = f[j] => i = j
                                  /\ \A i, j \in 1..5 :
                                       i < j => ~(f[i] = 2 /\ f[j] = 1)
                                                /\ ~(f[i] = 4 /\ f[j] = 3)}

Row(id, content) == [id |-> {id}, content |-> <<content>>]

RowSets == {{}} \cup {{rows} : rows \in
              {<<>>, <<Row("c0", "r")>>, <<Row("c2", "r"), Row("c0", "s")>>,
               <<Row("c2", "r"), Row("c2", "s")>>, <<Row("other", "r")>>}}

PlainTurn(role) == [plain |-> <<role>>, body |-> FALSE, extra |-> FALSE,
                    calls |-> {}, rows |-> {}]

AnswerOf(deltas, turn, where) ==
    [deltas |-> deltas, turn |-> turn,
     layers |-> IF where = 3
                THEN <<(3 :> TurnOf(<<Delta(0, {"c0"}, <<"v">>), Delta(4, {"c4"}, <<>>)>>,
                                    FALSE, {<<Row("c4", "r")>>})),
                       (1 :> turn)>>
                ELSE IF where = 1
                THEN <<(4 :> PlainTurn("user")) @@ (7 :> turn) @@ (8 :> PlainTurn("user")),
                       (1 :> PlainTurn("system"))>>
                ELSE <<(9 :> PlainTurn("system")),
                       (1 :> PlainTurn("user")) @@ (2 :> turn)>>]

SomeAnswers ==
    {LET deltas == [i \in 1..n |-> DeltasOf[order[i]]]
     IN AnswerOf(deltas, [TurnOf(deltas, body, rows) EXCEPT !.extra = extra], where) :
        order \in Orders, n \in 2..5, rows \in RowSets, body, extra \in BOOLEAN,
        where \in 1..3}

------------------------------------------------------------------------------
\* Targets in a directory of the conversation, another one, a link to the
\* first and, on Windows, its other spelling.
Directories == {"talk", "logs", "link", "TALK"}

FileNames == {"o.md", "O.md", "o.calls.jsonl", "[1]assistant.md", ClaimName}

Beside == [name \in FileNames |->
             CASE name \in {"o.md"} -> [calls |-> "o.calls.jsonl", extra |-> "o.extra.json"]
               [] name = "O.md" -> [calls |-> "O.calls.jsonl", extra |-> "O.extra.json"]
               [] name = "[1]assistant.md" -> [calls |-> "[1]assistant.calls.jsonl",
                                               extra |-> "[1]assistant.extra.json"]
               [] OTHER -> [calls |-> "other.calls.jsonl", extra |-> "other.extra.json"]]

Artifacts == {"[1]assistant.md", "[1]assistant.calls.jsonl", "[1]assistant.extra.json"}

OutputWorlds ==
    {[links |-> "link" :> "talk", beside |-> Beside, artifacts |-> Artifacts,
      folded |-> folded] :
        folded \in {<<>>, ("TALK" :> "talk") @@ ("O.md" :> "o.md")
                             @@ ("O.calls.jsonl" :> "o.calls.jsonl")
                             @@ ("O.extra.json" :> "o.extra.json")}}

SomePaths == Directories \X FileNames
MaybePath == {{}} \cup {{p} : p \in SomePaths}

SomePolicies ==
    {p \in [main : MaybePath, receipt : MaybePath,
            pile : {{}, {<<"link", "o.md">>}, {<<"logs", "o.calls.jsonl">>}},
            hook : {{}, {<<"talk", "o.md">>}}, layers : {{"talk"}},
            output : {{}, {"talk"}, {"link"}}, mutates : BOOLEAN] :
        p.mutates => p.output # {}}

SomeOutputs == [world : OutputWorlds, policy : SomePolicies]

------------------------------------------------------------------------------
\* Directories by their real path, by a link to it and, on Windows, in another
\* spelling; some may be missing, and the work root may be near them.
A == <<"a">>   B == <<"b">>   L == <<"l">>   Big == <<"A">>

ConfigWorld(directories, folded) ==
    [links |-> L :> A, folded |-> folded, directories |-> directories,
     default |-> B, environ |-> [n \in {"SET"} |-> "env key"]]

ConfigWorlds == {ConfigWorld(d, f) : d \in {{A, B, Big}, {A, B}, {A}},
                                     f \in {<<>>, Big :> A}}

DirLists == {Unset} \cup {{<<p>>} : p \in {A, B, L}}
               \cup {{<<p, q>>} : p, q \in {A, B, L, Big}} \cup {{<<B, L, Big>>}}

Layers(cli, react, pile) ==
    [cli |-> cli, react |-> react, pile |-> pile,
     phases |-> [p \in Phases |-> NoOptions]]

Directories2(dirs, out, continue) ==
    [NoOptions EXCEPT !["dirs"] = dirs, !["out"] = out, !["continue"] = continue]

SessionWith(world, layers, profiles, carryover, root) ==
    [world |-> world, layers |-> layers, profiles |-> profiles,
     carryover |-> carryover, root |-> root]

SomeDirectories ==
    {LET own == Directories2(dirs, out, continue)
         other == Directories2({<<B>>}, Unset, Unset)
         layers == CASE from = "cli"   -> Layers(own, NoOptions, other)
                     [] from = "react" -> Layers(NoOptions, own, other)
                     [] from = "pile"  -> Layers(NoOptions, NoOptions, own)
     IN SessionWith(world, layers, <<>>, carryover, root) :
        world \in ConfigWorlds, dirs \in DirLists, out \in {Unset, {A}, {L}, {Big}},
        continue \in {Unset, {TRUE}, {FALSE}}, carryover \in BOOLEAN,
        root \in {<<"tmp">>, <<"a", "w">>, <<>>}, from \in {"cli", "react", "pile"}}

Variables == {Unset, {"SET"}, {"BLANK"}}

SomeKeys ==
    {LET NamedAs(key, name) == IF key = Unset THEN Unset ELSE {name}
         profile == [NoOptions EXCEPT !["key"] = NamedAs(profileKey, "profile"),
                                      !["keyEnv"] = profileEnv]
         layers == [cli   |-> [NoOptions EXCEPT !["key"] = NamedAs(cliKey, "cli")],
                    react |-> [NoOptions EXCEPT !["profile"] =
                                  IF chosen THEN {"p"} ELSE Unset],
                    pile  |-> [NoOptions EXCEPT !["key"] = NamedAs(tableKey, "table")],
                    phases |-> [p \in Phases |->
                       [NoOptions EXCEPT !["key"] = NamedAs(ownKey, "own"),
                                         !["keyEnv"] = ownEnv]]]
     IN SessionWith(ConfigWorld({A, B}, <<>>), layers, [p \in {"p"} |-> profile],
                    FALSE, <<"tmp">>) :
        cliKey, ownKey, profileKey, tableKey \in {Unset, {"set"}},
        ownEnv, profileEnv \in Variables, chosen \in BOOLEAN}

SomeSessions == SomeDirectories \cup SomeKeys

------------------------------------------------------------------------------
\* Two archives of three turns; every file of up to two lines.
Line(found, long, beyond) == [found |-> found, long |-> long, beyond |-> beyond]

Lines == {Line(FALSE, FALSE, FALSE), Line(TRUE, FALSE, FALSE),
          Line(FALSE, TRUE, TRUE)}

FileContents == {<<>>} \cup [1..1 -> Lines] \cup [1..3 -> Lines]

File(turn, kind, role, lines) ==
    [turn |-> turn, kind |-> kind, role |-> role, lines |-> lines]

SomeSearches ==
    {[request |-> request,
      archives |->
         {[idx |-> 2, declares |-> declares,
           files |-> {File(1, "message", "user", y),
                      File(2, "calls", "assistant", z),
                      File(2, "message", "assistant", x)}],
          [idx |-> 3, declares |-> {3},
           files |-> {File(3, "message", "user", z),
                      File(3, "result", "assistant", y)}]}] :
        x, y \in FileContents, z \in {<<>>, <<Line(TRUE, FALSE, FALSE)>>},
        request \in [limit : 1..2, results : BOOLEAN, roles : {{}, {"assistant"}}],
        declares \in {{1, 2}, {2}, {1, 3}}}
==============================================================================
