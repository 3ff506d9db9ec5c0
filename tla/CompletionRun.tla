---------------------------- MODULE CompletionRun ----------------------------
(***************************************************************************)
(* The output side of one root completion of promptpile: the streamed      *)
(* answer, the live output pile, the durable artifacts with their ledger,  *)
(* the after-hook, the Completion Receipt and the exit status, in the      *)
(* order runCompletion drives them.  Any durable write can fail, the pile  *)
(* can break at any time, the hook can end in any way and the process can  *)
(* be killed between two steps.  What an earlier run left at the same      *)
(* paths is still there.  Claiming the conversation is ConversationOCC's   *)
(* part: here its outcome is a choice.                                     *)
(***************************************************************************)
EXTENDS Naturals, FiniteSets

CONSTANTS
    MaxPieces,   \* bound: pieces of text one answer streams
    Leftovers    \* sets of artifacts an earlier run may have left behind

Kinds   == {"body", "calls", "extra"}
Receipt == <<"receipt", "receipt">>
Durable == {"main", "conversation"} \X Kinds

\* The artifacts whose paths a hook can be told: there is no variable for the
\* reasoning sidecar of -o.
Named == Durable \ {<<"main", "extra">>}

ASSUME PiecesAssumption   == MaxPieces \in Nat
ASSUME LeftoverAssumption == Leftovers \subseteq SUBSET (Durable \cup {Receipt})

VARIABLES
    stage,      \* the point runCompletion has reached
    options,    \* the resolved configuration of this run
    disk,       \* artifact -> who wrote the file at its path last
    answer,     \* what the stream delivered so far
    pile,       \* the live output pile: its stream, deltas and last line
    failure,    \* the primary failure, "none" while there is none
    hook,       \* the after-hook observation
    ledger,     \* artifacts this run has recorded as committed
    env,        \* what the hook was started with: artifacts whose paths it is
                \* told, and PROMPTPILE_HAS_REASONING
    receipt,    \* what this run's receipt says, once it is published
    exit        \* the exit status

vars == <<stage, options, disk, answer, pile, failure, hook, ledger, env,
          receipt, exit>>

Options == [pile : {"none", "text", "json"}, main : BOOLEAN,
            continue : BOOLEAN, receipt : BOOLEAN,
            hook : {"run", "skip", "invalid"}, mode : {"warn", "error"}]
HookResults == {"succeeded", "spawn_failed", "exited_nonzero", "signaled"}
Observations == {"none", "running", "skipped", "invalid_explicit"}
                    \cup HookResults
Answers == [text : 0..MaxPieces, calls : BOOLEAN, reasoning : BOOLEAN,
            terminal : BOOLEAN, reported : BOOLEAN]
Stages == {"start", "prepare", "ready", "stream", "close", "main",
           "conversation", "hook", "hooking", "decide", "receipt", "end"}

TypeOK ==
    /\ stage \in Stages
    /\ options \in Options
    /\ disk \in [Durable \cup {Receipt} -> {"absent", "old", "new"}]
    /\ answer \in Answers
    /\ pile \in [state : {"none", "opening", "open", "broken", "closed"},
                 deltas : 0..MaxPieces, last : {"none", "done", "error"}]
    /\ failure \in {"none", "policy", "pile", "model", "write", "conflict",
                    "hook"}
    /\ hook \in Observations
    /\ ledger \subseteq Durable \cup {Receipt}
    /\ env \in [paths : SUBSET Named, reasoning : BOOLEAN]
    /\ receipt \in [names : SUBSET Durable, hook : Observations]
    /\ exit \in {"none", "0", "1", "3", "killed"}

------------------------------------------------------------------------------
NoAnswer == [text |-> 0, calls |-> FALSE, reasoning |-> FALSE,
             terminal |-> FALSE, reported |-> FALSE]
NoReceipt == [names |-> {}, hook |-> "none"]
NoEnv     == [paths |-> {}, reasoning |-> FALSE]

Init ==
    /\ stage = "start"
    /\ options \in Options
    /\ \E left \in Leftovers :
          disk = [a \in Durable \cup {Receipt} |->
                     IF a \in left THEN "old" ELSE "absent"]
    /\ answer = NoAnswer
    /\ pile = [state |-> "none", deltas |-> 0, last |-> "none"]
    /\ failure = "none"
    /\ hook = "none"
    /\ ledger = {} /\ env = NoEnv
    /\ receipt = NoReceipt
    /\ exit = "none"

\* The catch of runCompletion: a conflict exits 3, any other error 1.
Leave(cause) ==
    /\ stage' = "end"
    /\ failure' = IF failure = "none" THEN cause ELSE failure
    /\ exit' = IF failure' = "conflict" THEN "3" ELSE "1"

\* A hook impact is an error only for an unsuccessful observation.
Fatal(observation, mode) ==
    observation \notin {"skipped", "succeeded"} /\ mode = "error"

\* Lexical collisions and a strict invalid hook fail before any effect.
Resolve ==
    /\ stage = "start"
    /\ IF options.hook = "invalid" /\ Fatal("invalid_explicit", options.mode)
       THEN Leave("hook")
       ELSE \/ stage' = "prepare" /\ UNCHANGED <<failure, exit>>
            \/ Leave("policy")
    /\ UNCHANGED <<options, disk, answer, pile, hook, ledger, env, receipt>>

\* The conversation is checked against a precondition and the --input committed,
\* either of which may be a conflict, with or without a turn to append later;
\* tools and messages are loaded.  Then parents are created, collisions checked
\* again, the pile stream created.
Prepare ==
    /\ stage = "prepare"
    /\ \/ /\ stage' = "ready"
          /\ pile' = IF options.pile = "none" THEN pile
                     ELSE [pile EXCEPT !.state = "opening"]
          /\ UNCHANGED <<failure, exit>>
       \/ \E cause \in {"policy", "conflict"} : Leave(cause) /\ UNCHANGED pile
    /\ UNCHANGED <<options, disk, answer, hook, ledger, env, receipt>>

\* outputPile.ready(): the no-op pile is ready at once.
PileReady ==
    /\ stage = "ready"
    /\ stage' = "stream"
    /\ pile' = IF pile.state = "opening" THEN [pile EXCEPT !.state = "open"]
               ELSE pile
    /\ UNCHANGED <<options, disk, answer, failure, hook, ledger, env, receipt,
                   exit>>

\* The open failed: no model call, no error line, on to close().
PileNeverReady ==
    /\ stage = "ready" /\ pile.state = "opening"
    /\ stage' = "close"
    /\ failure' = "pile"
    /\ pile' = [pile EXCEPT !.state = "broken"]
    /\ UNCHANGED <<options, disk, answer, hook, ledger, env, receipt, exit>>

\* The stream's error event; the next write or close() will throw it.
PileBreaks ==
    /\ stage \in {"stream", "close"} /\ pile.state = "open"
    /\ pile' = [pile EXCEPT !.state = "broken"]
    /\ UNCHANGED <<stage, options, disk, answer, failure, hook, ledger, env,
                   receipt, exit>>

\* runModel or a pile write threw: an error line, unless the pile is broken.
ModelFails(cause) ==
    /\ stage' = "close"
    /\ failure' = cause
    /\ pile' = IF pile.state = "open" /\ options.pile = "json"
               THEN [pile EXCEPT !.last = "error"] ELSE pile

\* One content delta goes to the pile before anything durable sees it.
Text ==
    /\ stage = "stream" /\ answer.text < MaxPieces
    /\ IF pile.state = "broken"
       THEN ModelFails("model")
       ELSE /\ pile' = IF pile.state = "open"
                       THEN [pile EXCEPT !.deltas = @ + 1] ELSE pile
            /\ UNCHANGED <<stage, failure>>
    /\ answer' = [answer EXCEPT !.text = @ + 1]
    /\ UNCHANGED <<options, disk, hook, ledger, env, receipt, exit>>

\* A chunk with a tool call, with reasoning, with a finish reason, the [DONE]
\* line, or a chunk that only reports a provider error.
Chunk ==
    /\ stage = "stream"
    /\ answer' \in {[answer EXCEPT !.calls = TRUE],
                    [answer EXCEPT !.reasoning = TRUE],
                    [answer EXCEPT !.terminal = TRUE],
                    [answer EXCEPT !.reported = TRUE]}
    /\ UNCHANGED <<stage, options, disk, pile, failure, hook, ledger, env,
                   receipt, exit>>

\* An HTTP error, no body, a malformed payload or a broken connection.
StreamBreaks ==
    /\ stage = "stream"
    /\ ModelFails("model")
    /\ UNCHANGED <<options, disk, answer, hook, ledger, env, receipt, exit>>

\* Mutant of Witnessed: an answer with text is good enough.
WitnessedByText == answer.terminal \/ answer.text > 0

\* [DONE] or a finish reason.
Witnessed == answer.terminal

\* End of the body: a terminal marker was seen, and writeDone() went through.
StreamEnds ==
    /\ stage = "stream"
    /\ IF ~Witnessed \/ (pile.state = "broken" /\ options.pile = "json")
       THEN ModelFails(IF Witnessed THEN "pile" ELSE "model")
       ELSE /\ stage' = "close"
            /\ pile' = IF options.pile = "json"
                       THEN [pile EXCEPT !.last = "done"] ELSE pile
            /\ UNCHANGED failure
    /\ UNCHANGED <<options, disk, answer, hook, ledger, env, receipt, exit>>

\* Mutant of ClosePile: end() of a destroyed stream is waited for.
ClosePileWaiting ==
    /\ stage = "close" /\ pile.state # "broken"
    /\ IF failure # "none"
       THEN Leave("pile")
       ELSE stage' = "main" /\ UNCHANGED <<failure, exit>>
    /\ pile' = IF pile.state = "none" THEN pile
               ELSE [pile EXCEPT !.state = "closed"]
    /\ UNCHANGED <<options, disk, answer, hook, ledger, env, receipt>>

\* close() reports a broken pile; an earlier failure stays the primary one.
ClosePile ==
    /\ stage = "close"
    /\ IF pile.state = "broken" \/ failure # "none"
       THEN Leave("pile")
       ELSE stage' = "main" /\ UNCHANGED <<failure, exit>>
    /\ pile' = IF pile.state = "none" THEN pile
               ELSE [pile EXCEPT !.state = "closed"]
    /\ UNCHANGED <<options, disk, answer, hook, ledger, env, receipt>>

------------------------------------------------------------------------------
\* The files this run writes in a namespace.  -o always writes a body; a turn
\* of the conversation has only the parts the answer has.
Plan(namespace) ==
    IF namespace = "main"
    THEN {k \in Kinds : /\ options.main
                        /\ k = "calls" => answer.calls
                        /\ k = "extra" => answer.reasoning}
    ELSE {k \in Kinds : /\ options.continue
                        /\ k = "body" => answer.text > 0
                        /\ k = "calls" => answer.calls
                        /\ k = "extra" => answer.reasoning}

Before(k) == {j \in Kinds : <<j, k>> \in {<<"body", "calls">>,
                        <<"body", "extra">>, <<"calls", "extra">>}}

\* One atomic write and its ledger entry, body before calls before extra.
Commit(namespace) ==
    /\ stage = namespace
    /\ \E k \in Plan(namespace) :
          LET a == <<namespace, k>> IN
          /\ a \notin ledger
          /\ \A b \in Before(k) \cap Plan(namespace) : <<namespace, b>> \in ledger
          /\ disk' = [disk EXCEPT ![a] = "new"]
          /\ ledger' = ledger \cup {a}
    /\ UNCHANGED <<stage, options, answer, pile, failure, hook, env, receipt,
                   exit>>

\* Mutant of CommitFails: the error is logged and the run goes on.
CommitFailsSilently(namespace) ==
    /\ stage = namespace
    /\ \E k \in Plan(namespace) : <<namespace, k>> \notin ledger
    /\ stage' = IF namespace = "main" THEN "conversation" ELSE "hook"
    /\ UNCHANGED <<options, disk, answer, pile, failure, hook, ledger, env,
                   receipt, exit>>

\* A write throws; nothing already written is rolled back.
CommitFails(namespace) ==
    /\ stage = namespace
    /\ \E k \in Plan(namespace) : <<namespace, k>> \notin ledger
    /\ Leave("write")
    /\ UNCHANGED <<options, disk, answer, pile, hook, ledger, env, receipt>>

Complete(namespace) ==
    \A k \in Plan(namespace) : <<namespace, k>> \in ledger

MainDone ==
    /\ stage = "main" /\ Complete("main")
    /\ stage' = "conversation"
    /\ UNCHANGED <<options, disk, answer, pile, failure, hook, ledger, env,
                   receipt, exit>>

\* A precondition no longer holds, or a target is taken: nothing is written.
Conflict ==
    /\ stage = "conversation" /\ options.continue
    /\ \A k \in Kinds : <<"conversation", k>> \notin ledger
    /\ Leave("conflict")
    /\ UNCHANGED <<options, disk, answer, pile, hook, ledger, env, receipt>>

\* The claim is released; a failing release fails the run.
ConversationDone ==
    /\ stage = "conversation" /\ Complete("conversation")
    /\ \/ stage' = "hook" /\ UNCHANGED <<failure, exit>>
       \/ options.continue /\ Leave("write")
    /\ UNCHANGED <<options, disk, answer, pile, hook, ledger, env, receipt>>

------------------------------------------------------------------------------
\* Nothing to run: the resolution itself is the observation.
SkipHook ==
    /\ stage = "hook" /\ options.hook # "run"
    /\ hook' = IF options.hook = "skip" THEN "skipped" ELSE "invalid_explicit"
    /\ stage' = "receipt"
    /\ UNCHANGED <<options, disk, answer, pile, failure, ledger, env, receipt,
                   exit>>

\* Mutant of StartHook: the environment names every file that is there.
StartHookByExistence ==
    /\ stage = "hook" /\ options.hook = "run"
    /\ env' = [paths |-> {a \in Named : disk[a] # "absent"},
               reasoning |-> answer.reasoning]
    /\ \/ hook' = "running" /\ stage' = "hooking"
       \/ hook' = "spawn_failed" /\ stage' = "decide"
    /\ UNCHANGED <<options, disk, answer, pile, failure, ledger, receipt, exit>>

\* The environment names what the ledger holds, as far as there are variables
\* for it, and says whether the answer had reasoning.  spawn may throw at once.
StartHook ==
    /\ stage = "hook" /\ options.hook = "run"
    /\ env' = [paths |-> Named \cap ledger, reasoning |-> answer.reasoning]
    /\ \/ hook' = "running" /\ stage' = "hooking"
       \/ hook' = "spawn_failed" /\ stage' = "decide"
    /\ UNCHANGED <<options, disk, answer, pile, failure, ledger, receipt, exit>>

\* The child's error event, or its close with a code, a signal or neither.
HookEnds ==
    /\ stage = "hooking"
    /\ hook' \in HookResults
    /\ stage' = "decide"
    /\ UNCHANGED <<options, disk, answer, pile, failure, ledger, env, receipt,
                   exit>>

DecideHook ==
    /\ stage = "decide"
    /\ IF Fatal(hook, options.mode) THEN Leave("hook")
       ELSE stage' = "receipt" /\ UNCHANGED <<failure, exit>>
    /\ UNCHANGED <<options, disk, answer, pile, hook, ledger, env, receipt>>

\* The last durable step; without a receipt the run just succeeds.
Publish ==
    /\ stage = "receipt"
    /\ stage' = "end" /\ exit' = "0"
    /\ IF options.receipt
       THEN /\ disk' = [disk EXCEPT ![Receipt] = "new"]
            /\ receipt' = [names |-> ledger, hook |-> hook]
            /\ ledger' = ledger \cup {Receipt}
       ELSE UNCHANGED <<disk, receipt, ledger>>
    /\ UNCHANGED <<options, answer, pile, failure, hook, env>>

PublishFails ==
    /\ stage = "receipt" /\ options.receipt
    /\ Leave("write")
    /\ UNCHANGED <<options, disk, answer, pile, hook, ledger, env, receipt>>

\* The process is killed between two steps; the files stay.
Kill ==
    /\ stage # "end"
    /\ stage' = "end" /\ exit' = "killed"
    /\ UNCHANGED <<options, disk, answer, pile, failure, hook, ledger, env,
                   receipt>>

Step ==
    \/ Resolve \/ Prepare \/ PileReady \/ PileNeverReady
    \/ StreamEnds \/ StreamBreaks \/ ClosePile
    \/ Commit("main") \/ CommitFails("main") \/ MainDone
    \/ Commit("conversation") \/ CommitFails("conversation") \/ Conflict
    \/ ConversationDone
    \/ SkipHook \/ StartHook \/ HookEnds \/ DecideHook
    \/ Publish \/ PublishFails

Next == Step \/ Text \/ Chunk \/ PileBreaks \/ Kill

Spec == Init /\ [][Next]_vars

\* The provider's body ends, file operations return and the hook's process
\* ends: then the event loop goes on.  No deadline enforces the first and the
\* last: neither the request nor the hook has a timeout.
FairSpec == Spec /\ WF_vars(Step)
------------------------------------------------------------------------------
\* The completion receipt theorem of execution-system.md: a receipt of this
\* run exists only if the stream ended with a terminal marker, the json pile
\* carries the whole answer and its done line, every artifact the options and
\* the answer ask for is on disk, written by this run, and named, nothing
\* else is named, and the hook's decision was not fatal
\* (index.ts:297-394, completion-receipt.ts:41-79).
ReceiptTheorem ==
    disk[Receipt] = "new" =>
        /\ failure = "none" /\ answer.terminal
        /\ (options.pile = "json" =>
              pile.last = "done" /\ pile.deltas = answer.text)
        /\ receipt.names = ({"main"} \X Plan("main"))
                              \cup ({"conversation"} \X Plan("conversation"))
        /\ \A a \in receipt.names : disk[a] = "new"
        /\ ~Fatal(receipt.hook, options.mode)

\* A run that reports failure leaves no receipt of its own, and one that
\* reports success leaves every output it was asked for; a receipt file that
\* merely exists may be an earlier run's (cli-contract-v1.md, Completion
\* Receipt v1).
ExitTellsTheOutcome ==
    /\ (exit \in {"1", "3"} => disk[Receipt] # "new" /\ failure # "none")
    /\ (exit = "0" => /\ options.receipt = (disk[Receipt] = "new")
                      /\ Complete("main") /\ Complete("conversation"))

\* Of the artifacts it can be told of, the hook is told exactly those that this
\* run has on disk at that time: never the path of a file an earlier run left,
\* and all of this run's.  The reasoning sidecar of -o has no variable; that it
\* is this run's shows in PROMPTPILE_HAS_REASONING beside the path of the body,
\* and in nothing else, as an earlier run's may be there in its place
\* (after-hook.ts:141-159, main-output.ts:15-29, index.ts:328-340).
HookSeesWhatIsCommitted ==
    hook = "running" =>
        LET written == {a \in Durable : disk[a] = "new"} IN
        /\ env.paths = Named \cap written
        /\ <<"main", "extra">> \in written <=>
              <<"main", "body">> \in env.paths /\ env.reasoning

\* Every run ends, whatever fails on the way.
EveryRunExits == <>(exit # "none")

\* execution-system.md: a stream that carries a provider error is not a
\* successful completion.
ProviderErrorIsNotSuccess == exit = "0" => ~answer.reported
==============================================================================
