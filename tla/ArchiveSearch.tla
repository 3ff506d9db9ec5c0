---------------------------- MODULE ArchiveSearch ----------------------------
(***************************************************************************)
(* promptpile-compress-grep-search: the archives of a directory, the files *)
(* of their turns, and a literal search through them that stops at several *)
(* limits.  A file is a sequence of lines; of a line the model keeps       *)
(* whether its first maxLineCharacters contain the query and whether there *)
(* are more.  The chunks a file is read in and the files read at once do   *)
(* not change what is found in which order.                                *)
(***************************************************************************)
EXTENDS Ordering, Sequences, SequencesExt, FiniteSetsExt

CONSTANTS
    MaxPerTurn,   \* maxMatchesPerTurn
    MaxInAll      \* maxTotalMatches

ASSUME SearchAssumption == MaxPerTurn \in Nat \ {0} /\ MaxInAll \in Nat

------------------------------------------------------------------------------
\* readManifest and discoverArchives: an archive is named for the highest
\* turn it declares, and no turn is declared twice.
ManifestIsValid(archive) ==
    archive.declares # {} /\ archive.idx = Max(archive.declares)

ArchivesAreValid(archives) ==
    /\ \A a \in archives : ManifestIsValid(a)
    /\ \A a, b \in archives : a # b => a.declares \cap b.declares = {}

\* enumerateSearchableArtifacts: files of undeclared turns are ignored, a
\* declared turn without any file makes its archive invalid.
Declared(archive) == {f \in archive.files : f.turn \in archive.declares}

TurnsArePresent(archive) ==
    archive.declares \subseteq {f.turn : f \in Declared(archive)}

Outcome(archives) ==
    CASE ~ArchivesAreValid(archives) -> "INVALID_ARCHIVE"
      [] archives = {}               -> "NO_ARCHIVE"
      [] ArchivesAreValid(archives) /\ \E a \in archives : ~TurnsArePresent(a) -> "INVALID_ARCHIVE"
      [] OTHER -> "ok"

\* The filters of the request; an empty set of roles stands for all.
Wanted(file, request) ==
    /\ request.results \/ file.kind # "result"
    /\ request.roles = {} \/ file.role \in request.roles

Rank(file) ==
    CASE file.kind = "message" /\ file.role # "assistant" -> 1
      [] file.kind = "message" /\ file.role = "assistant" -> 2
      [] file.kind = "calls" -> 3 [] file.kind = "extra" -> 4
      [] file.kind = "result" -> 5

\* What is searched.
Searchable(archives, request) ==
    {f \in UNION {Declared(a) : a \in archives} : Wanted(f, request)}

\* Within a turn messages, calls, reasoning, results; the names that order
\* those of one rank are left out, and so is their order.
ByRank(files) ==
    CHOOSE s \in [1..Cardinality(files) -> files] :
        /\ IsInjective(s)
        /\ \A i, j \in DOMAIN s : i < j => Rank(s[i]) <= Rank(s[j])

\* The newest turn first.
Groups(files) ==
    LET newest == Reverse(Sorted({f.turn : f \in files}))
    IN [k \in DOMAIN newest |->
          [turn  |-> newest[k],
           files |-> ByRank({f \in files : f.turn = newest[k]})]]

------------------------------------------------------------------------------
FoundIn(file) == {i \in DOMAIN file.lines : file.lines[i].found}

FoundUpTo(file, i) == Cardinality({j \in FoundIn(file) : j <= i})

ReadUntil(file, read) ==
    LET found == Sorted(FoundIn(file) \cap read)
    IN [matches |-> [k \in DOMAIN found |-> <<file, found[k]>>],
        cutLine |-> \E i \in read : file.lines[i].long]

\* Mutant of SearchFile: the file is left with the last match it may have.
SearchFileExactly(file) ==
    ReadUntil(file, {i \in DOMAIN file.lines : FoundUpTo(file, i - 1) < MaxPerTurn})

\* searchFile: line by line until there is one match too many, which is how
\* the caller knows that there may be more.
SearchFile(file) ==
    ReadUntil(file, {i \in DOMAIN file.lines : FoundUpTo(file, i - 1) <= MaxPerTurn})

FirstOf(matches, n) == SubSeq(matches, 1, IF n < Len(matches) THEN n ELSE Len(matches))

\* NodeLiteralSearchBackend.search over the files of one turn: its matches up
\* to the limit of a turn, and whether anything was cut off on the way.
TakeFile(s, file) ==
    LET r    == SearchFile(file)
        room == MaxPerTurn - Len(s.matches)
    IN IF s.over THEN s
       ELSE [matches |-> s.matches \o FirstOf(r.matches, room),
             cut     |-> s.cut \/ r.cutLine \/ Len(r.matches) > room,
             over    |-> Len(r.matches) > room]

SearchTurn(files) ==
    FoldLeft(TakeFile, [matches |-> <<>>, cut |-> FALSE, over |-> FALSE], files)

\* searchArchive: turn by turn; the total limit and the limit of results end
\* the search, and only a match beyond a limit counts as left out.
TakeGroup(s, group, limit) ==
    LET found == SearchTurn(group.files)
        room  == MaxInAll - s.total
        kept  == FirstOf(found.matches, room)
        stop  == Len(found.matches) > room
        full  == kept # <<>> /\ Len(s.results) >= limit
    IN IF s.over THEN s
       ELSE [results   |-> IF kept = <<>> \/ full THEN s.results
                           ELSE Append(s.results, [turn |-> group.turn, matches |-> kept]),
             truncated |-> s.truncated \/ stop \/ full \/ found.cut,
             total     |-> s.total + Len(kept),
             over      |-> stop \/ full]

SearchGroups(groups, limit) ==
    FoldLeft(LAMBDA s, group : TakeGroup(s, group, limit),
             [results |-> <<>>, truncated |-> FALSE, total |-> 0, over |-> FALSE], groups)

SearchArchive(archives, request) ==
    SearchGroups(Groups(Searchable(archives, request)), request.limit)
------------------------------------------------------------------------------
\* What is in the archives: the query may also be in the part of a long line
\* that is not read.
HitsOf(file) == {i \in DOMAIN file.lines : file.lines[i].found \/ file.lines[i].beyond}

\* A search that does not say it is truncated has found every line of every
\* archived turn that contains the query, and one that does is still in
\* order, the newest turn first, within its limits, leaves out no turn it has
\* found something in before an older one it reports, and reports only what
\* is there (index.ts:352-436, node-literal-search.ts:51-175).
SearchTellsWhatItLeavesOut(archives, request) ==
    LET found == SearchArchive(archives, request)
        files == Searchable(archives, request)
        hits(turn)  == UNION {{<<f, i>> : i \in HitsOf(f)} :
                                 f \in {g \in files : g.turn = turn}}
        seen(turn)  == \E f \in files : f.turn = turn /\ FoundIn(f) # {}
        reported == {found.results[k].turn : k \in DOMAIN found.results}
    IN /\ Len(found.results) <= request.limit
       /\ \A k \in DOMAIN found.results :
             /\ Len(found.results[k].matches) \in 1..MaxPerTurn
             /\ ToSet(found.results[k].matches) \subseteq hits(found.results[k].turn)
             /\ k > 1 => found.results[k - 1].turn > found.results[k].turn
       /\ \A f \in files : seen(f.turn) /\ f.turn \notin reported =>
             found.truncated /\ \A turn \in reported : turn > f.turn
       /\ ~found.truncated =>
             /\ \A f \in files : HitsOf(f) # {} => f.turn \in reported
             /\ \A k \in DOMAIN found.results :
                   ToSet(found.results[k].matches) = hits(found.results[k].turn)
                   /\ IsInjective(found.results[k].matches)
==============================================================================
