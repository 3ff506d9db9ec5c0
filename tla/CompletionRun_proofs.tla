------------------------- MODULE CompletionRun_proofs -------------------------
(***************************************************************************)
(* The receipt, the exit status and the hook's environment tell the truth, *)
(* for answers of any length, any options, any leftovers of earlier runs   *)
(* and any failure.                                                        *)
(***************************************************************************)
EXTENDS CompletionRun, TLAPS

Streaming == {"start", "prepare", "ready", "stream"}
Hooked    == {"hook", "hooking", "decide", "receipt"}
Late      == {"main", "conversation"} \cup Hooked

\* What the options and the answer ask for.
Asked == ({"main"} \X Plan("main")) \cup ({"conversation"} \X Plan("conversation"))

\* The json pile carries the whole answer and its done line.
PileIsWhole ==
    options.pile = "json" => pile.last = "done" /\ pile.deltas = answer.text

\* The ledger is what this run has on disk, and before the end it holds only
\* what was asked for.
LedgerIsTrue ==
    /\ \A a \in Durable \cup {Receipt} : disk[a] = "new" <=> a \in ledger
    /\ stage \in Streaming \cup {"close"} => ledger = {}
    /\ stage # "end" => ledger \subseteq Asked

\* The pile is never ahead of the stream, and until the stream ends a json
\* pile keeps up with it.
PileKeepsUp ==
    /\ pile.deltas <= answer.text
    /\ options.pile = "json" =>
        /\ stage \in Streaming => pile.deltas = answer.text
        /\ stage = "ready" => pile.state = "opening"
        /\ stage = "stream" => pile.state \in {"open", "broken"}

\* What lies behind each stage; a failure leads from the stream to close and
\* from everywhere else straight to the end.
StageIsEarned ==
    /\ stage \in Streaming \cup Late => failure = "none"
    /\ stage \in Late \cup {"close"} /\ failure = "none" =>
          answer.terminal /\ PileIsWhole
    /\ stage \in {"conversation"} \cup Hooked => Complete("main")
    /\ stage \in Hooked => Complete("conversation")
    /\ stage \notin {"start", "end"} /\ options.hook = "invalid" =>
          ~Fatal("invalid_explicit", options.mode)
    /\ stage = "receipt" => ~Fatal(hook, options.mode)

HookIsHonest ==
    hook = "running" => stage \in {"hooking", "end"} /\ HookSeesWhatIsCommitted

EndIsTrue ==
    /\ stage # "end" => exit = "none"
    /\ ReceiptTheorem
    /\ ExitTellsTheOutcome

IInv ==
    /\ TypeOK /\ LedgerIsTrue /\ PileKeepsUp /\ StageIsEarned
    /\ HookIsHonest /\ EndIsTrue

Piles == [state : {"none", "opening", "open", "broken", "closed"},
          deltas : 0..MaxPieces, last : {"none", "done", "error"}]
Envs == [paths : SUBSET Named, reasoning : BOOLEAN]
Causes == {"policy", "pile", "model", "write", "conflict", "hook"}

LEMMA InitInv == Init => IInv
<1> SUFFICES ASSUME Init PROVE IInv
  OBVIOUS
<1>1. 0 \in 0..MaxPieces
  BY PiecesAssumption
<1>2. TypeOK
  <2>1. disk \in [Durable \cup {Receipt} -> {"absent", "old", "new"}]
    BY DEF Init
  <2>2. answer \in Answers
    BY <1>1 DEF Init, NoAnswer, Answers
  <2>3. pile \in Piles
    BY <1>1 DEF Init, Piles
  <2>4. receipt \in [names : SUBSET Durable, hook : Observations]
    BY DEF Init, NoReceipt, Observations
  <2>5. /\ stage \in Stages /\ options \in Options /\ hook \in Observations
        /\ ledger \subseteq Durable \cup {Receipt} /\ env \in Envs
        /\ failure = "none" /\ exit = "none"
    BY DEF Init, Stages, Observations, Envs, NoEnv
  <2> QED BY <2>1, <2>2, <2>3, <2>4, <2>5 DEF TypeOK, Piles, Envs
<1>3. \A a \in Durable \cup {Receipt} : disk[a] # "new"
  BY DEF Init
<1>4. pile.deltas = answer.text
  BY DEF Init, NoAnswer
<1>5. LedgerIsTrue /\ PileKeepsUp /\ StageIsEarned /\ HookIsHonest
  BY <1>3, <1>4 DEF Init, LedgerIsTrue, PileKeepsUp, StageIsEarned, HookIsHonest,
     Streaming, Late, Hooked
<1>6. EndIsTrue
  BY <1>3 DEF Init, EndIsTrue, ReceiptTheorem, ExitTellsTheOutcome
<1> QED BY <1>2, <1>5, <1>6 DEF IInv

\* A run that is not over has not published its receipt.
LEMMA NoReceiptYet ==
  ASSUME IInv, stage # "end"
  PROVE  disk[Receipt] # "new" /\ Receipt \notin ledger /\ exit = "none"
BY DEF IInv, LedgerIsTrue, EndIsTrue, Asked, Receipt, Plan, Kinds

\* Leaving with an error, from anywhere.
LEMMA LeaveInv ==
  ASSUME IInv, stage # "end", NEW c \in Causes, Leave(c), pile' \in Piles,
         pile'.deltas <= answer.text,
         UNCHANGED <<options, disk, answer, hook, ledger, env, receipt>>
  PROVE  IInv'
<1>1. failure' \in Causes /\ exit' \in {"1", "3"} /\ stage' = "end"
  BY DEF IInv, TypeOK, Leave, Causes
<1>2. TypeOK'
  BY <1>1 DEF IInv, TypeOK, Stages, Piles, Causes
<1>3. disk'[Receipt] # "new"
  BY NoReceiptYet
<1>4. LedgerIsTrue' /\ PileKeepsUp' /\ StageIsEarned' /\ HookIsHonest'
  BY <1>1 DEF IInv, LedgerIsTrue, PileKeepsUp, StageIsEarned, HookIsHonest,
     HookSeesWhatIsCommitted, Streaming, Late, Hooked
<1>5. EndIsTrue'
  BY <1>1, <1>3 DEF EndIsTrue, ReceiptTheorem, ExitTellsTheOutcome, Causes
<1> QED BY <1>2, <1>4, <1>5 DEF IInv

\* A kill.
LEMMA KillInv == ASSUME IInv, Kill PROVE IInv'
<1>1. TypeOK'
  BY DEF IInv, TypeOK, Kill, Stages
<1>2. disk'[Receipt] # "new"
  BY NoReceiptYet DEF Kill
<1>3. LedgerIsTrue' /\ PileKeepsUp' /\ StageIsEarned' /\ HookIsHonest'
  BY DEF IInv, Kill, LedgerIsTrue, PileKeepsUp, StageIsEarned, HookIsHonest,
     HookSeesWhatIsCommitted, Streaming, Late, Hooked
<1>4. EndIsTrue'
  BY <1>2 DEF Kill, EndIsTrue, ReceiptTheorem, ExitTellsTheOutcome
<1> QED BY <1>1, <1>3, <1>4 DEF IInv

\* A step before the end that leaves the files, the ledger and the receipt
\* alone keeps what is said about them.
Untouched == UNCHANGED <<options, disk, ledger, receipt, exit>>

LEMMA QuietInv ==
  ASSUME IInv, stage # "end", stage' # "end", Untouched,
         stage' \in Streaming \cup {"close"} => stage \in Streaming \cup {"close"},
         ledger = {} \/ UNCHANGED answer
  PROVE  LedgerIsTrue' /\ EndIsTrue'
<1>1. ledger' \subseteq Asked'
  BY DEF IInv, LedgerIsTrue, Untouched, Asked, Plan
<1>2. LedgerIsTrue'
  BY <1>1 DEF IInv, LedgerIsTrue, Untouched
<1>3. disk'[Receipt] # "new" /\ exit' = "none"
  BY NoReceiptYet DEF Untouched
<1>4. EndIsTrue'
  BY <1>3 DEF EndIsTrue, ReceiptTheorem, ExitTellsTheOutcome
<1> QED BY <1>2, <1>4

\* Up to the end of the stream nothing durable exists.
LEMMA StreamingInv ==
  ASSUME IInv,
         \/ Resolve \/ Prepare \/ PileReady \/ PileNeverReady \/ PileBreaks
         \/ Text \/ Chunk \/ StreamEnds \/ StreamBreaks \/ ClosePile,
         stage' # "end"
  PROVE  IInv'
<1> USE DEF IInv
<1>1. stage \in Streaming \cup {"close"} /\ ledger = {} /\ Untouched
  BY DEF Resolve, Prepare, PileReady, PileNeverReady, PileBreaks, Text, Chunk,
     StreamEnds, StreamBreaks, ClosePile, Untouched, Streaming, LedgerIsTrue,
     Leave
<1>2. LedgerIsTrue' /\ EndIsTrue'
  BY <1>1, QuietInv DEF Streaming
<1>3. hook # "running" /\ UNCHANGED hook /\ HookIsHonest'
  BY <1>1 DEF HookIsHonest, Streaming, Resolve, Prepare, PileReady, PileNeverReady,
     PileBreaks, Text, Chunk, StreamEnds, StreamBreaks, ClosePile
<1>4. TypeOK'
  <2>1. answer' \in Answers
    <3>1. CASE Text
      BY <3>1, PiecesAssumption DEF TypeOK, Answers, Text
    <3>2. CASE Chunk
      BY <3>2 DEF TypeOK, Answers, Chunk
    <3>3. CASE UNCHANGED answer
      BY <3>3 DEF TypeOK
    <3> QED
      BY <3>1, <3>2, <3>3 DEF Resolve, Prepare, PileReady, PileNeverReady, PileBreaks,
         StreamEnds, StreamBreaks, ClosePile
  <2>2. pile' \in Piles
    <3>1. pile \in Piles /\ pile.deltas \in Nat /\ pile.deltas <= answer.text
          /\ answer.text \in Nat
      BY PiecesAssumption DEF TypeOK, Piles, Answers, PileKeepsUp
    <3>2. CASE Text
      BY <3>1, <3>2, PiecesAssumption DEF Piles, Text, ModelFails
    <3>3. CASE Prepare \/ PileReady \/ PileNeverReady \/ PileBreaks
      BY <3>1, <3>3 DEF Piles, Prepare, PileReady, PileNeverReady, PileBreaks
    <3>4. CASE Resolve \/ Chunk \/ StreamEnds \/ StreamBreaks \/ ClosePile
      BY <3>1, <3>4 DEF Piles, Resolve, Chunk, StreamEnds, StreamBreaks, ClosePile,
         ModelFails
    <3> QED BY <3>2, <3>3, <3>4
  <2>3. stage' \in Stages /\ failure' \in Causes \cup {"none"} /\ UNCHANGED env
    BY DEF TypeOK, Stages, Causes, Resolve, Prepare, PileReady, PileNeverReady,
       PileBreaks, Text, Chunk, StreamEnds, StreamBreaks, ClosePile, ModelFails, Leave
  <2> QED BY <1>1, <1>3, <2>1, <2>2, <2>3 DEF TypeOK, Piles, Causes, Untouched
<1>5. PileKeepsUp'
  BY <1>1 DEF Untouched, TypeOK, Answers, Options, PileKeepsUp, Streaming, Resolve, Prepare,
     PileReady, PileNeverReady, PileBreaks, Text, Chunk, StreamEnds, StreamBreaks,
     ClosePile, ModelFails, Leave
<1>6. StageIsEarned'
  BY <1>1 DEF Untouched, TypeOK, Answers, Options, PileKeepsUp, PileIsWhole, Streaming, Late,
     Hooked, StageIsEarned, Fatal, Witnessed, Resolve, Prepare, PileReady, PileNeverReady,
     PileBreaks, Text, Chunk, StreamEnds, StreamBreaks, ClosePile, ModelFails, Leave
<1> QED BY <1>2, <1>3, <1>4, <1>5, <1>6

\* One artifact more, on disk and in the ledger.
LEMMA CommitInv ==
  ASSUME IInv, NEW n \in {"main", "conversation"}, Commit(n)
  PROVE  IInv'
<1> USE DEF IInv
<1>1. PICK k \in Plan(n) : /\ disk' = [disk EXCEPT ![<<n, k>>] = "new"]
                           /\ ledger' = ledger \cup {<<n, k>>}
  BY DEF Commit
<1>2. /\ k \in Kinds /\ <<n, k>> \in Durable /\ <<n, k>> # Receipt
      /\ <<n, k>> \in Asked
  BY DEF Plan, Kinds, Durable, Receipt, Asked
<1>3. stage = n /\ UNCHANGED <<stage, options, answer, pile, failure, hook, env,
                              receipt, exit>>
  BY DEF Commit
<1>4. TypeOK'
  <2>1. disk' \in [Durable \cup {Receipt} -> {"absent", "old", "new"}]
    BY <1>1, <1>2 DEF TypeOK
  <2>2. ledger' \subseteq Durable \cup {Receipt}
    BY <1>1, <1>2 DEF TypeOK
  <2> QED BY <1>3, <2>1, <2>2 DEF TypeOK
<1>5. LedgerIsTrue'
  <2>1. \A a \in Durable \cup {Receipt} : disk'[a] = "new" <=> a \in ledger'
    BY <1>1, <1>2 DEF TypeOK, LedgerIsTrue
  <2>2. Asked' = Asked
    BY <1>3 DEF Asked, Plan
  <2>3. ledger' \subseteq Asked'
    BY <1>1, <1>2, <1>3, <2>2 DEF LedgerIsTrue
  <2> QED BY <1>3, <2>1, <2>3 DEF LedgerIsTrue, Streaming
<1>6. disk'[Receipt] # "new"
  BY <1>1, <1>2, <1>3, NoReceiptYet DEF TypeOK
<1>7. PileKeepsUp' /\ HookIsHonest'
  BY <1>3 DEF PileKeepsUp, HookIsHonest
<1>8. StageIsEarned'
  <2>1. Plan("main")' = Plan("main")
    BY <1>3 DEF Plan
  <2>2. Complete("main") => Complete("main")'
    BY <1>1, <2>1 DEF Complete
  <2> QED BY <1>3, <2>2 DEF StageIsEarned, Late, Hooked, Streaming, PileIsWhole, Fatal
<1>9. EndIsTrue'
  BY <1>3, <1>6, NoReceiptYet DEF EndIsTrue, ReceiptTheorem, ExitTellsTheOutcome
<1> QED BY <1>4, <1>5, <1>7, <1>8, <1>9

\* From stage to stage once the answer is complete; nothing durable changes.
LEMMA LateInv ==
  ASSUME IInv, stage' # "end",
         \/ MainDone \/ ConversationDone \/ SkipHook \/ StartHook \/ HookEnds
         \/ DecideHook
  PROVE  IInv'
<1> USE DEF IInv
<1>1. /\ stage \in Late /\ stage' \in Late /\ Untouched
      /\ UNCHANGED <<answer, pile, failure>>
  BY DEF MainDone, ConversationDone, SkipHook, StartHook, HookEnds, DecideHook,
     Late, Hooked, Untouched, Leave
<1>2. LedgerIsTrue' /\ EndIsTrue'
  BY <1>1, QuietInv DEF Late, Hooked, Streaming
<1>3. TypeOK'
  <2>1. hook' \in Observations /\ stage' \in Stages
    BY DEF TypeOK, MainDone, ConversationDone, SkipHook, StartHook, HookEnds,
       DecideHook, Observations, HookResults, Stages, Leave
  <2>2. CASE StartHook
    <3>1. env' \in Envs
      BY <2>2 DEF TypeOK, Answers, StartHook, Envs
    <3> QED BY <1>1, <2>1, <3>1 DEF TypeOK, Untouched, Envs
  <2>3. CASE UNCHANGED env
    BY <1>1, <2>1, <2>3 DEF TypeOK, Untouched
  <2> QED
    BY <2>2, <2>3 DEF MainDone, ConversationDone, SkipHook, HookEnds, DecideHook
<1>4. PileKeepsUp'
  BY <1>1 DEF PileKeepsUp, Untouched, Late, Hooked, Streaming
<1>5. HookIsHonest'
  <2>1. CASE StartHook
    <3>. DEFINE written == {a \in Durable : disk[a] = "new"}
    <3>1. \A a \in Durable : a \in written <=> a \in ledger
      BY DEF LedgerIsTrue
    <3>2. /\ env'.paths = Named \cap ledger /\ env'.reasoning = answer.reasoning
          /\ UNCHANGED disk /\ stage' \in {"hooking", "decide"}
          /\ hook' = "running" => stage' = "hooking"
      BY <2>1 DEF StartHook
    <3>3. env'.paths = Named \cap written
      BY <3>1, <3>2 DEF Named
    \* What -o was to write is in the ledger by now, and nothing else is.
    <3>4. ledger \subseteq Asked /\ Complete("main")
      BY <2>1 DEF StartHook, LedgerIsTrue, StageIsEarned, Hooked
    <3>5. \A k \in Kinds : <<"main", k>> \in ledger <=> k \in Plan("main")
      BY <3>4 DEF Complete, Asked
    <3>6. /\ <<"main", "body">> \in Named /\ <<"main", "body">> \in Durable
          /\ <<"main", "extra">> \in Durable /\ {"body", "extra"} \subseteq Kinds
      BY DEF Named, Durable, Kinds
    <3>7. "body" \in Plan("main") <=> options.main
      BY DEF Plan, Kinds
    <3>8. "extra" \in Plan("main") <=> options.main /\ answer.reasoning
      BY DEF Plan, Kinds
    <3>9. <<"main", "extra">> \in written <=>
            <<"main", "body">> \in env'.paths /\ env'.reasoning
      BY <3>1, <3>2, <3>5, <3>6, <3>7, <3>8
    <3> QED BY <3>2, <3>3, <3>9 DEF HookIsHonest, HookSeesWhatIsCommitted
  <2>2. CASE SkipHook \/ HookEnds
    BY <2>2 DEF SkipHook, HookEnds, HookResults, HookIsHonest
  <2>3. CASE MainDone \/ ConversationDone \/ DecideHook
    BY <2>3 DEF MainDone, ConversationDone, DecideHook, HookIsHonest
  <2> QED BY <2>1, <2>2, <2>3
<1>6. StageIsEarned'
  <2>1. /\ Complete("main")' = Complete("main")
        /\ Complete("conversation")' = Complete("conversation")
    BY <1>1 DEF Complete, Plan, Untouched
  <2>2. failure' = "none" /\ answer'.terminal /\ PileIsWhole'
        /\ (options'.hook = "invalid" => ~Fatal("invalid_explicit", options'.mode))
    BY <1>1 DEF StageIsEarned, PileIsWhole, Untouched, Late, Hooked, Fatal
  <2>3. stage' \in {"conversation"} \cup Hooked => Complete("main")'
    BY <2>1 DEF StageIsEarned, MainDone, ConversationDone, SkipHook, StartHook,
       HookEnds, DecideHook, Hooked, Leave
  <2>4. stage' \in Hooked => Complete("conversation")'
    BY <2>1 DEF StageIsEarned, MainDone, ConversationDone, SkipHook, StartHook,
       HookEnds, DecideHook, Hooked, Leave
  <2>5. stage' = "receipt" => ~Fatal(hook', options'.mode)
    BY <2>2 DEF TypeOK, Options, MainDone, ConversationDone, SkipHook, StartHook, HookEnds,
       DecideHook, Leave, Fatal, HookResults
  <2> QED BY <1>1, <2>2, <2>3, <2>4, <2>5 DEF StageIsEarned, Late, Hooked, Fatal
<1> QED BY <1>2, <1>3, <1>4, <1>5, <1>6

\* The receipt, or success without one: everything asked for is in the ledger.
LEMMA PublishInv == ASSUME IInv, Publish PROVE IInv'
<1> USE DEF IInv
<1>1. /\ stage = "receipt" /\ stage' = "end" /\ exit' = "0" /\ hook # "running"
      /\ UNCHANGED <<options, answer, pile, failure, hook, env>>
  BY DEF Publish, HookIsHonest
<1>2. failure = "none" /\ answer.terminal /\ PileIsWhole /\ Complete("main")
      /\ Complete("conversation") /\ ~Fatal(hook, options.mode)
  BY <1>1 DEF StageIsEarned, Late, Hooked
<1>3. ledger = Asked
  <2>1. Asked \subseteq ledger
    BY <1>2 DEF Asked, Complete
  <2> QED BY <1>1, <2>1 DEF LedgerIsTrue
<1>4. ledger \subseteq Durable /\ Receipt \notin Durable
  BY <1>3 DEF Asked, Plan, Durable, Kinds, Receipt
<1>5. Plan("main")' = Plan("main") /\ Plan("conversation")' = Plan("conversation")
  BY <1>1 DEF Plan
<1>6. TypeOK'
  <2>1. CASE options.receipt
    <3>1. disk' \in [Durable \cup {Receipt} -> {"absent", "old", "new"}]
      BY <2>1 DEF Publish, TypeOK
    <3>2. receipt' \in [names : SUBSET Durable, hook : Observations]
      BY <2>1, <1>4 DEF Publish, TypeOK
    <3>3. ledger' \subseteq Durable \cup {Receipt}
      BY <2>1 DEF Publish, TypeOK
    <3> QED BY <1>1, <3>1, <3>2, <3>3 DEF TypeOK, Stages
  <2>2. CASE ~options.receipt
    BY <1>1, <2>2 DEF Publish, TypeOK, Stages
  <2> QED BY <2>1, <2>2
<1>7. \A a \in Durable \cup {Receipt} : disk'[a] = "new" <=> a \in ledger'
  BY <1>4 DEF Publish, LedgerIsTrue, TypeOK
<1>8. LedgerIsTrue' /\ PileKeepsUp' /\ StageIsEarned' /\ HookIsHonest'
  BY <1>1, <1>7 DEF LedgerIsTrue, PileKeepsUp, StageIsEarned, HookIsHonest,
     Streaming, Late, Hooked
<1>9. Complete("main")' /\ Complete("conversation")'
  BY <1>2, <1>5 DEF Complete, Publish
<1>10. options.receipt = (disk'[Receipt] = "new")
  BY <1>1, <1>7, NoReceiptYet DEF Publish, TypeOK, Options
<1>11. ExitTellsTheOutcome'
  BY <1>1, <1>9, <1>10 DEF ExitTellsTheOutcome
<1>12. ReceiptTheorem'
  <2>1. CASE options.receipt
    <3>1. receipt' = [names |-> Asked, hook |-> hook]
      BY <2>1, <1>3 DEF Publish
    <3>2. \A a \in receipt'.names : disk'[a] = "new"
      BY <2>1, <3>1, <1>3, <1>4, <1>7 DEF Publish
    <3> QED BY <1>1, <1>2, <1>5, <3>1, <3>2 DEF ReceiptTheorem, Asked, PileIsWhole, Fatal
  <2>2. CASE ~options.receipt
    BY <1>1, <2>2, <1>10 DEF ReceiptTheorem
  <2> QED BY <2>1, <2>2
<1> QED BY <1>1, <1>6, <1>8, <1>11, <1>12 DEF EndIsTrue

\* Every step that ends the run with an error.
LEMMA ErrorInv ==
  ASSUME IInv, Step, ~Publish, stage' = "end"
  PROVE  IInv'
<1> USE DEF IInv
<1>1. PICK c \in Causes : Leave(c)
  BY DEF Step, Publish, Resolve, Prepare, PileReady, PileNeverReady, StreamEnds,
     StreamBreaks, ModelFails, ClosePile, Commit, CommitFails, MainDone, Conflict,
     ConversationDone, SkipHook, StartHook, HookEnds, DecideHook, PublishFails, Causes
<1>2. /\ stage # "end"
      /\ UNCHANGED <<options, disk, answer, hook, ledger, env, receipt>>
  BY DEF Step, Publish, Resolve, Prepare, PileReady, PileNeverReady, StreamEnds,
     StreamBreaks, ModelFails, ClosePile, Commit, CommitFails, MainDone, Conflict,
     ConversationDone, SkipHook, StartHook, HookEnds, DecideHook, PublishFails
<1>3. pile' = pile \/ pile' = [pile EXCEPT !.state = "closed"]
  BY DEF Step, Publish, Resolve, Prepare, PileReady, PileNeverReady, StreamEnds,
     StreamBreaks, ModelFails, ClosePile, Commit, CommitFails, MainDone, Conflict,
     ConversationDone, SkipHook, StartHook, HookEnds, DecideHook, PublishFails
<1>4. pile' \in Piles /\ pile'.deltas <= answer.text
  BY <1>3 DEF TypeOK, Piles, PileKeepsUp
<1> QED BY <1>1, <1>2, <1>4, LeaveInv

LEMMA NextInv == ASSUME IInv, [Next]_vars PROVE IInv'
<1>1. CASE Step
  <2>1. CASE Publish
    BY <2>1, PublishInv
  <2>2. CASE ~Publish /\ stage' = "end"
    BY <1>1, <2>2, ErrorInv
  <2>3. CASE ~Publish /\ stage' # "end"
    <3>1. CASE Commit("main") \/ Commit("conversation")
      BY <3>1, CommitInv
    <3>2. CASE \/ Resolve \/ Prepare \/ PileReady \/ PileNeverReady \/ StreamEnds
               \/ StreamBreaks \/ ClosePile
      BY <2>3, <3>2, StreamingInv
    <3>3. CASE \/ MainDone \/ ConversationDone \/ SkipHook \/ StartHook \/ HookEnds
               \/ DecideHook
      BY <2>3, <3>3, LateInv
    <3> QED
      BY <1>1, <2>3, <3>1, <3>2, <3>3
      DEF Step, CommitFails, Conflict, PublishFails, Leave
  <2> QED BY <2>1, <2>2, <2>3
<1>2. CASE Text \/ Chunk \/ PileBreaks
  <2>1. stage' # "end"
    BY <1>2 DEF Text, Chunk, PileBreaks, ModelFails
  <2> QED BY <1>2, <2>1, StreamingInv
<1>3. CASE Kill
  BY <1>3, KillInv
<1>4. CASE UNCHANGED vars
  BY <1>4 DEF vars, IInv, TypeOK, LedgerIsTrue, Asked, Plan, PileKeepsUp, PileIsWhole,
     StageIsEarned, Complete, Fatal, HookIsHonest, HookSeesWhatIsCommitted, EndIsTrue,
     ReceiptTheorem, ExitTellsTheOutcome
<1> QED BY <1>1, <1>2, <1>3, <1>4 DEF Next

\* The inductive invariant holds in every reachable state.
LEMMA Invariance == Spec => []IInv
BY InitInv, NextInv, PTL DEF Spec

\* A receipt of this run says exactly what the run made durable, after a whole
\* answer and a hook that was not fatal (index.ts:297-394).
THEOREM ReceiptsAreTrue == Spec => []ReceiptTheorem
<1>1. IInv => ReceiptTheorem
  BY DEF IInv, EndIsTrue
<1> QED BY <1>1, Invariance, PTL

\* A failing exit leaves no receipt, a successful one leaves every output
\* (index.ts:378-394).
THEOREM ExitsAreTrue == Spec => []ExitTellsTheOutcome
<1>1. IInv => ExitTellsTheOutcome
  BY DEF IInv, EndIsTrue
<1> QED BY <1>1, Invariance, PTL

\* The hook is told of this run's artifacts, all of them and no others, and of the
\* one that has no variable by the reasoning flag (after-hook.ts:141-159).
THEOREM HooksAreTold == Spec => []HookSeesWhatIsCommitted
<1>1. IInv => HookSeesWhatIsCommitted
  BY DEF IInv, HookIsHonest, HookSeesWhatIsCommitted
<1> QED BY <1>1, Invariance, PTL
==============================================================================
