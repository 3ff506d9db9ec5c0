------------------------------ MODULE Transcript ------------------------------
(***************************************************************************)
(* How tool calls travel through promptpile: deltas of a stream become     *)
(* calls, calls and results become files of a turn, and the files of all   *)
(* layers become the messages of the next request.                         *)
(***************************************************************************)
EXTENDS Ordering, Sequences, SequencesExt, FiniteSetsExt

NoId == {}

\* The calls that have an id, in their order.
WithId(calls) ==
    FoldLeft(LAMBDA kept, c : IF c.id # NoId THEN Append(kept, c) ELSE kept,
             <<>>, calls)

\* Mutant of MergeDeltas: the pieces are collected by id instead of index.
MergeDeltasById(deltas) ==
    LET ids == UNION {deltas[i].id : i \in DOMAIN deltas}
    IN [k \in 1..Cardinality(ids) |->
          LET id == SetToSeq(ids)[k] IN
          [id |-> {id},
           args |-> FlattenSeq([i \in DOMAIN deltas |->
                       IF deltas[i].id = {id} THEN deltas[i].args ELSE <<>>])]]

\* mergeStreamToolCalls: by index; an id replaces an earlier one, arguments
\* are appended, and a call that never got an id is dropped.
TakeDelta(calls, d) ==
    LET c == IF d.index \in DOMAIN calls THEN calls[d.index]
             ELSE [id |-> NoId, args |-> <<>>]
    IN [i \in DOMAIN calls \cup {d.index} |->
          IF i # d.index THEN calls[i]
          ELSE [id |-> IF d.id # NoId THEN d.id ELSE c.id, args |-> c.args \o d.args]]

MergeDeltas(deltas) ==
    LET calls == FoldLeft(TakeDelta, <<>>, deltas)
        order == Sorted(DOMAIN calls)
    IN WithId([k \in DOMAIN order |-> calls[order[k]]])

\* normalizeToolCalls over the lines of a calls file: a line that is no JSON
\* object or has no id is skipped.
ReadCalls(lines) == WithId(lines)

\* Of several rows with one id the last counts.
RowFor(rows, id) ==
    LET own == {i \in DOMAIN rows : rows[i].id = id}
    IN IF own = {} THEN {} ELSE {rows[Max(own)].content}

------------------------------------------------------------------------------
\* A turn on disk: the roles of its plain messages, and whether it has an
\* assistant body, calls, reasoning and results (each a set of at most one).
Message(role) ==
    [role |-> role, calls |-> <<>>, answers |-> NoId, content |-> <<>>]

Missing == <<"missing">>

ToolMessage(id, content) ==
    [Message("tool") EXCEPT !.answers = id, !.content = content]

\* The assistant message exists when there is a body, a call or reasoning.
AssistantPart(turn, calls) ==
    IF turn.body \/ calls # <<>> \/ turn.extra
    THEN <<[Message("assistant") EXCEPT !.calls = calls]>> ELSE <<>>

\* Every call gets a message, a placeholder when it has no row; results
\* without calls are passed on as they are.
ToolPart(turn, calls) ==
    LET rows == IF turn.rows = {} THEN <<>> ELSE CHOOSE r \in turn.rows : TRUE
    IN IF calls # <<>>
       THEN [k \in DOMAIN calls |->
               ToolMessage(calls[k].id,
                   IF RowFor(rows, calls[k].id) = {} THEN Missing
                   ELSE CHOOSE c \in RowFor(rows, calls[k].id) : TRUE)]
       ELSE [k \in DOMAIN rows |-> ToolMessage(rows[k].id, rows[k].content)]

CallsOf(turn) ==
    IF turn.calls = {} THEN <<>>
    ELSE ReadCalls(CHOOSE c \in turn.calls : TRUE)

MessagesOf(turn) ==
    [k \in DOMAIN turn.plain |-> Message(turn.plain[k])]
        \o AssistantPart(turn, CallsOf(turn)) \o ToolPart(turn, CallsOf(turn))

\* The diagnostics: one for every call without a row, and why.
DiagnosticsOf(turn) ==
    LET rows == IF turn.rows = {} THEN <<>> ELSE CHOOSE r \in turn.rows : TRUE
    IN {[id |-> CallsOf(turn)[k].id,
         reason |-> IF turn.rows = {} THEN "result_file_missing"
                                      ELSE "tool_call_id_missing"] :
           k \in {j \in DOMAIN CallsOf(turn) :
                    RowFor(rows, CallsOf(turn)[j].id) = {}}}

\* Layer by layer, and in each in the order of the indices.
BuildMessages(layers) ==
    FlattenSeq([l \in DOMAIN layers |->
        LET order == Sorted(DOMAIN layers[l])
        IN FlattenSeq([k \in DOMAIN order |-> MessagesOf(layers[l][order[k]])])])

------------------------------------------------------------------------------
\* The files of the turn a streamed answer becomes, with the rows an executor
\* left for it.
TurnOf(deltas, body, rows) ==
    [plain |-> <<>>, body |-> body, extra |-> FALSE, rows |-> rows,
     calls |-> IF MergeDeltas(deltas) = <<>> THEN {} ELSE {MergeDeltas(deltas)}]

\* What the model said: the pieces of one index in the order they came.
Spoken(deltas, index) ==
    FlattenSeq([i \in DOMAIN deltas |->
        IF deltas[i].index = index THEN deltas[i].args ELSE <<>>])

\* The last id it gave a call.
SpokenId(deltas, index) ==
    LET given == {i \in DOMAIN deltas : deltas[i].index = index /\ deltas[i].id # NoId}
    IN IF given = {} THEN NoId ELSE deltas[Max(given)].id

Turns(layers) == UNION {{layers[l][i] : i \in DOMAIN layers[l]} : l \in DOMAIN layers}

\* A turn has calls when it has results, and no message was given the role of
\* a result by its name.
HasResultsOfCalls(turn) ==
    /\ CallsOf(turn) = <<>> => turn.rows \subseteq {<<>>}
    /\ "tool" \notin ToSet(turn.plain)

\* However the deltas of several calls interleave, and whichever results
\* executors left, the next request is one the model service accepts: the
\* calls of a turn are in the order of their indices with their arguments
\* whole, every call of every turn is answered by one tool message right after
\* the assistant message and in its order, by its own result or a placeholder
\* that is reported, and no tool message is without its call unless one was
\* put there (ai-client.ts:188-235, file-handler.ts:197-345).
AnswersEveryCall(layers, deltas, turn) ==
    LET messages == BuildMessages(layers)
        spoken   == Sorted({i \in {deltas[j].index : j \in DOMAIN deltas} :
                              SpokenId(deltas, i) # NoId})
        calls    == CallsOf(turn)
    IN /\ Len(calls) = Len(spoken)
       /\ \A k \in DOMAIN calls :
             /\ calls[k].id = SpokenId(deltas, spoken[k])
             /\ calls[k].args = Spoken(deltas, spoken[k])
       /\ \A i \in DOMAIN messages : messages[i].calls # <<>> =>
             \E t \in Turns(layers) :
                /\ messages[i].calls = CallsOf(t)
                /\ \A k \in DOMAIN CallsOf(t) :
                      /\ i + k <= Len(messages)
                      /\ messages[i + k].answers = CallsOf(t)[k].id
                      /\ messages[i + k].content = Missing <=>
                            \E d \in DiagnosticsOf(t) : d.id = CallsOf(t)[k].id
       /\ (\A t \in Turns(layers) : HasResultsOfCalls(t)) =>
             \A j \in DOMAIN messages : messages[j].role = "tool" =>
                 \E i \in 1..(j - 1) : j <= i + Len(messages[i].calls)
==============================================================================
