--------------------------- MODULE ArchiveLifecycle ---------------------------
(***************************************************************************)
(* How promptpile-compress moves the messages of one conversation          *)
(* directory into an archive and back: compress, restore, recover and the  *)
(* automatic run before a completion, one file operation at a time, with   *)
(* interruptions anywhere and other programs that add messages.            *)
(*                                                                         *)
(* The lifecycle lock (LifecycleLock) admits one operation at a time, so   *)
(* at most one is in progress here.  A message file is its turn index and  *)
(* its part; a name says where the file belongs, and `written` how many    *)
(* files of that name were ever created.                                   *)
(***************************************************************************)
EXTENDS Naturals, FiniteSets, FiniteSetsExt

CONSTANTS
  MaxIndex,      \* the highest turn index
  Seeded,        \* the messages of the conversation at the start
  System,        \* the indexes of system turns, which are never archived
  Keep,          \* how many recent turns the selector may leave live
  Appends,       \* how many messages other programs may add
  Open,          \* the stages of a lifecycle operation at which they may
  Interruptions  \* how many operations may crash or fail half-way

Index == 0..MaxIndex
Part == {"main", "side"}
Message == [idx : Index, part : Part]

\* A staging or archive directory: its messages and the two files beside them.
Folder == [messages : SUBSET Message,
           manifest : SUBSET Index,     \* archivedTurnIndices; {}: no manifest
           summary  : SUBSET Message,   \* what .summary.md summarises; {}: none
           exists   : BOOLEAN]
NoFolder == [messages |-> {}, manifest |-> {}, summary |-> {}, exists |-> FALSE]

Stage == {"idle", "inspect", "reinspect", "decide", "recover", "rollback",
          "rm-staging", "restore", "unlink-summaries", "move-out", "rm-archives",
          "capture", "scan", "summarise", "assert", "mkdir", "move-in",
          "manifest", "staged-summary", "commit", "live-summary"}

Command == {"compress", "restore", "recover", "auto"}

ASSUME ConstantsAssumption ==
  /\ MaxIndex \in Nat
  /\ Seeded \subseteq Message /\ System \subseteq Index
  /\ Keep \subseteq Nat /\ Appends \in Nat
  /\ Open \subseteq Stage /\ Interruptions \in Nat

VARIABLES
  live,       \* the messages at the top of the conversation directory
  staging,    \* .promptpile-compress.staging
  archive,    \* archive[n]: the directory [n]system.md.archive
  summary,    \* summary[n]: the messages [n]system.md summarises; {}: no file
  written,    \* written[m]: how many files of name m were ever created
  command,    \* the operation in progress, or "none"
  pc,         \* where it is
  plan,       \* what it plans: the generation it looked at, the messages to
              \* archive, and whether an automatic run has made its decision
  result,     \* which operation ended last, and how
  appended, interrupted   \* counters of the environment's steps

files == <<live, staging, archive, summary>>
control == <<command, pc, plan, result>>
vars == <<files, written, control, appended, interrupted>>

\* The generation hash covers live messages, archives and staging.
Generation == <<live, {n \in Index : summary[n] # {}}, staging, archive>>

NoResult == <<"none", "none">>
NoPlan == [generation |-> <<>>, messages |-> {}, decided |-> FALSE]

Init ==
  /\ live = Seeded
  /\ staging = NoFolder
  /\ archive = [n \in Index |-> NoFolder]
  /\ summary = [n \in Index |-> {}]
  /\ written = [m \in Message |-> IF m \in Seeded THEN 1 ELSE 0]
  /\ command = "none" /\ pc = "idle" /\ plan = NoPlan /\ result = NoResult
  /\ appended = 0 /\ interrupted = 0

Turns(messages) == {m.idx : m \in messages}
Archives == {n \in Index : archive[n].exists}
Archived == UNION {archive[n].messages : n \in Index}
------------------------------------------------------------------------------
(* Inspection: restore/inspection.ts *)

\* The staged messages could be moved back without replacing a live one.
StagingRecoverable == staging.messages \cap live = {}

\* Every archive has a manifest that covers its messages and gives it its
\* name; archives share nothing; and every message could be moved back.
ArchivesValid ==
  /\ \A n \in Archives :
       /\ archive[n].manifest # {}
       /\ Max(archive[n].manifest) = n
       /\ Turns(archive[n].messages) \subseteq archive[n].manifest
  /\ \A n, k \in Archives : n # k =>
       /\ archive[n].manifest \cap archive[k].manifest = {}
       /\ archive[n].messages \cap archive[k].messages = {}
  /\ Archived \cap live = {}

\* inspectCompressionLifecycleState, the reason of an invalid state aside.
Condition ==
  IF ~ArchivesValid THEN "invalid"
  ELSE IF Archives # {} /\ staging.exists THEN "invalid"
  ELSE IF staging.exists /\ ~StagingRecoverable THEN "invalid"
  ELSE IF staging.exists THEN "staging_recovery"
  ELSE IF \E n \in Archives : summary[n] = {} THEN "archive_recovery"
  ELSE IF Archives # {} THEN "healthy_compacted"
  ELSE "healthy_plain"

------------------------------------------------------------------------------
(* Control *)

At(stage) == pc = stage
Goto(stage) == pc' = stage /\ UNCHANGED <<command, plan, result>>

\* The operation is over and the lock released; `outcome` is its result.
End(outcome) ==
  /\ pc' = "idle" /\ command' = "none" /\ plan' = NoPlan /\ result' = <<command, outcome>>

Calm == UNCHANGED <<written, appended, interrupted>>

Begin(c) ==
  /\ At("idle")
  /\ command' = c
  /\ pc' = IF c = "auto" THEN "inspect" ELSE "recover"
  /\ plan' = NoPlan
  /\ result' = NoResult
  /\ UNCHANGED files /\ Calm

\* Mutant of AfterRecovery: compress forgets to restore first.
AfterRecoveryDirect ==
  IF command = "recover" THEN End("ok")
  ELSE Goto(IF command = "auto" THEN "reinspect" ELSE "capture")

AfterRecovery ==
  IF command = "recover" THEN End("ok")
  ELSE Goto(IF command = "auto" THEN "reinspect" ELSE "restore")

AfterRestore ==
  IF command = "restore" THEN End("ok")
  ELSE Goto(IF command = "auto" /\ ~plan.decided THEN "reinspect" ELSE "capture")

\* Under the lock, an automatic run classifies what it finds.
Inspect ==
  /\ At("inspect")
  /\ \/ Condition = "invalid" /\ End("invalid")
     \/ Condition = "staging_recovery" /\ Goto("recover")
     \/ Condition = "archive_recovery" /\ Goto("restore")
     \/ Condition \in {"healthy_plain", "healthy_compacted"} /\ Goto("decide")
  /\ UNCHANGED files /\ Calm

\* Recovery happens once; the state after it must be a plain conversation.
Reinspect ==
  /\ At("reinspect")
  /\ IF Condition = "healthy_plain" THEN Goto("decide") ELSE End("invalid")
  /\ UNCHANGED files /\ Calm

\* Below the trigger, or with nothing to do, nothing changes at all.
DecideAutomatic ==
  /\ At("decide")
  /\ \/ End("ok")
     \/ /\ pc' = IF Archives # {} THEN "restore" ELSE "capture"
        /\ plan' = [plan EXCEPT !.decided = TRUE]
        /\ UNCHANGED <<command, result>>
  /\ UNCHANGED files /\ Calm

------------------------------------------------------------------------------
(* Recovery: recoverWithLockHeld *)

InspectStaging ==
  /\ At("recover")
  /\ \/ ~staging.exists /\ AfterRecovery
     \/ /\ staging.exists
        /\ IF Archives # {} \/ ~StagingRecoverable
           THEN End("invalid") ELSE Goto("rollback")
  /\ UNCHANGED files /\ Calm

\* rename(staging/m, m), which replaces a file of that name.
Rollback ==
  /\ At("rollback")
  /\ \E m \in staging.messages :
       /\ live' = live \cup {m}
       /\ staging' = [staging EXCEPT !.messages = @ \ {m}]
  /\ UNCHANGED <<archive, summary>> /\ UNCHANGED control /\ Calm

\* Mutant of RolledBack: the folder is removed with what is still in it.
RolledBackEarly ==
  /\ At("rollback")
  /\ Goto("rm-staging")
  /\ UNCHANGED files /\ Calm

\* Only an empty staging folder is removed.
RolledBack ==
  /\ At("rollback")
  /\ staging.messages = {}
  /\ Goto("rm-staging")
  /\ UNCHANGED files /\ Calm

\* A recursive removal takes the files before the directory, in any order.
Emptied(folder) ==
  {f \in {[folder EXCEPT !.manifest = {}], [folder EXCEPT !.summary = {}]} : f # folder}
  \cup (IF folder.manifest = {} /\ folder.summary = {} THEN {NoFolder} ELSE {})

RemoveStaging ==
  /\ At("rm-staging")
  /\ staging' \in Emptied(staging)
  /\ IF staging'.exists THEN UNCHANGED control ELSE AfterRecovery
  /\ UNCHANGED <<live, archive, summary>> /\ Calm

------------------------------------------------------------------------------
(* Restore: restoreArchivedTurnsWithLockHeld *)

InspectArchives ==
  /\ At("restore")
  /\ \/ Archives = {} /\ AfterRestore
     \/ Archives # {} /\ ArchivesValid /\ Goto("unlink-summaries")
     \/ Archives # {} /\ ~ArchivesValid /\ End("invalid")
  /\ UNCHANGED files /\ Calm

\* Mutant of UnlinkSummary: messages come back while their summary is live.
UnlinkSummaryLate ==
  /\ At("unlink-summaries")
  /\ Goto("move-out")
  /\ UNCHANGED files /\ Calm

\* Every summary goes before the first message comes back.
UnlinkSummary ==
  /\ At("unlink-summaries")
  /\ IF \A n \in Archives : summary[n] = {}
     THEN Goto("move-out") /\ UNCHANGED summary
     ELSE /\ \E n \in Archives : summary[n] # {} /\ summary' = [summary EXCEPT ![n] = {}]
          /\ UNCHANGED control
  /\ UNCHANGED <<live, staging, archive>> /\ Calm

\* rename(archive/m, m); when all are out the archives must be empty.
MoveOut ==
  /\ At("move-out")
  /\ IF Archived = {}
     THEN Goto("rm-archives") /\ UNCHANGED <<live, archive>>
     ELSE /\ \E n \in Archives : \E m \in archive[n].messages :
               /\ live' = live \cup {m}
               /\ archive' = [archive EXCEPT ![n].messages = @ \ {m}]
          /\ UNCHANGED control
  /\ UNCHANGED <<staging, summary>> /\ Calm

RemoveArchive ==
  /\ At("rm-archives")
  /\ \E n \in Archives :
       /\ \E f \in Emptied(archive[n]) : archive' = [archive EXCEPT ![n] = f]
       /\ IF Archives = {n} /\ ~archive'[n].exists THEN AfterRestore ELSE UNCHANGED control
  /\ UNCHANGED <<live, staging, summary>> /\ Calm

------------------------------------------------------------------------------
(* Compression: compressCurrentConversationWithLockHeld *)

Capture ==
  /\ At("capture")
  /\ pc' = "scan"
  /\ plan' = [plan EXCEPT !.generation = Generation]
  /\ UNCHANGED <<command, result>>
  /\ UNCHANGED files /\ Calm

\* The selector keeps system turns and the most recent other turns.
Selected(k) ==
  LET turns == Turns(live) \ System
      recent == {t \in turns : Cardinality({u \in turns : u > t}) < k}
  IN {m \in live : m.idx \in turns \ recent}

\* The turns are read and, if there is anything to archive, selected.
ScanTurns ==
  /\ At("scan")
  /\ \/ \E k \in Keep : /\ Selected(k) # {}
                        /\ plan' = [plan EXCEPT !.messages = Selected(k)]
                        /\ pc' = "summarise"
                        /\ UNCHANGED <<command, result>>
     \/ End("ok")
  /\ UNCHANGED files /\ Calm

\* Mutant of AssertGeneration: the conversation is not compared any more.
AssertNothing(from, to) ==
  /\ At(from)
  /\ Goto(to)
  /\ UNCHANGED files /\ Calm

\* assertConversationGeneration: a changed conversation is left alone.
AssertGeneration(from, to) ==
  /\ At(from)
  /\ IF Generation = plan.generation THEN Goto(to) ELSE End("changed")
  /\ UNCHANGED files /\ Calm

\* The conversation is compared after the scan and the summary, and again
\* right before staging is created.
Check ==
  \/ AssertGeneration("summarise", "assert")
  \/ AssertGeneration("assert", "mkdir")

MakeStaging ==
  /\ At("mkdir")
  /\ IF staging.exists \/ archive[Max(Turns(plan.messages))].exists
     THEN End("invalid") /\ UNCHANGED staging
     ELSE staging' = [NoFolder EXCEPT !.exists = TRUE] /\ Goto("move-in")
  /\ UNCHANGED <<live, archive, summary>> /\ Calm

\* rename(m, staging/m)
MoveIn ==
  /\ At("move-in")
  /\ \E m \in plan.messages \ staging.messages :
       /\ live' = live \ {m}
       /\ staging' = [staging EXCEPT !.messages = @ \cup {m}]
       /\ IF plan.messages = staging'.messages THEN Goto("manifest") ELSE UNCHANGED control
  /\ UNCHANGED <<archive, summary>> /\ Calm

WriteManifest ==
  /\ At("manifest")
  /\ staging' = [staging EXCEPT !.manifest = Turns(plan.messages)]
  /\ Goto("staged-summary")
  /\ UNCHANGED <<live, archive, summary>> /\ Calm

WriteStagedSummary ==
  /\ At("staged-summary")
  /\ staging' = [staging EXCEPT !.summary = plan.messages]
  /\ Goto("commit")
  /\ UNCHANGED <<live, archive, summary>> /\ Calm

\* rename(staging, [n]system.md.archive)
CommitArchive ==
  /\ At("commit")
  /\ archive' = [archive EXCEPT ![Max(Turns(plan.messages))] = staging]
  /\ staging' = NoFolder
  /\ Goto("live-summary")
  /\ UNCHANGED <<live, summary>> /\ Calm

\* The summary beside the archive is read back and becomes a live message.
WriteLiveSummary ==
  LET n == Max(Turns(plan.messages)) IN
  /\ At("live-summary")
  /\ summary' = [summary EXCEPT ![n] = archive[n].summary]
  /\ End("ok")
  /\ UNCHANGED <<live, staging, archive>> /\ Calm

------------------------------------------------------------------------------
(* The environment *)

\* The operation's process is killed, or one of its file operations fails:
\* the files stay as they are and the lock is released or becomes stale.
Interrupt ==
  /\ ~At("idle")
  /\ interrupted < Interruptions
  /\ interrupted' = interrupted + 1
  /\ End("interrupted")
  /\ UNCHANGED <<files, written, appended>>

\* The index a writer allocates: after every recognised file at the top.
NextIndex == IF live = {} /\ \A n \in Index : summary[n] = {} THEN 0
             ELSE 1 + Max(Turns(live) \cup {n \in Index : summary[n] # {}})

\* promptpile appends a turn, or promptpile-mcp adds a result to a live one.
Append ==
  /\ appended < Appends
  /\ pc \in Open
  /\ appended' = appended + 1
  /\ \E m \in Message \ live :
       /\ \/ m.idx = NextIndex /\ m.part = "main"
          \/ /\ m.part = "side" /\ m.idx \notin System
             /\ [idx |-> m.idx, part |-> "main"] \in live
       /\ live' = live \cup {m}
       /\ written' = [written EXCEPT ![m] = @ + 1]
  /\ UNCHANGED <<staging, archive, summary, interrupted>> /\ UNCHANGED control

Step ==
  \/ Inspect \/ Reinspect \/ DecideAutomatic
  \/ InspectStaging \/ Rollback \/ RolledBack \/ RemoveStaging
  \/ InspectArchives \/ UnlinkSummary \/ MoveOut \/ RemoveArchive
  \/ Capture \/ ScanTurns \/ Check \/ MakeStaging \/ MoveIn
  \/ WriteManifest \/ WriteStagedSummary \/ CommitArchive \/ WriteLiveSummary

Next ==
  \/ \E c \in Command : Begin(c)
  \/ Step
  \/ Interrupt
  \/ Append

Spec == Init /\ [][Next]_vars
------------------------------------------------------------------------------
(* Properties *)

\* Types; only a directory that exists has contents, and an operation is in
\* progress exactly outside the idle stage.
TypeOK ==
  /\ live \subseteq Message
  /\ staging \in Folder /\ (staging.exists \/ staging = NoFolder)
  /\ \A n \in Index : archive[n].exists \/ archive[n] = NoFolder
  /\ pc = "idle" <=> command = "none"
  /\ archive \in [Index -> Folder]
  /\ summary \in [Index -> SUBSET Message]
  /\ written \in [Message -> Nat]
  /\ command \in Command \cup {"none"}
  /\ pc \in Stage
  /\ plan.messages \subseteq Message /\ plan.decided \in BOOLEAN
  /\ result \in (Command \cup {"none"}) \X {"none", "ok", "changed", "invalid", "interrupted"}
  /\ appended \in 0..Appends /\ interrupted \in 0..Interruptions

Copies(m) ==
  Cardinality({f \in {"live"} : m \in live}) + Cardinality({f \in {"staging"} : m \in staging.messages})
    + Cardinality({n \in Index : m \in archive[n].messages})

\* No message is ever lost, duplicated or replaced, wherever an operation is
\* interrupted and whatever the next one does about it.
NothingLost == \A m \in Message : Copies(m) = written[m]

\* A summary is live only while its archive holds everything it summarises: no
\* reader ever gets a message and its summary, or a summary without history.
SummaryStandsForArchive ==
  \A n \in Index : summary[n] # {} =>
    archive[n].exists /\ archive[n].messages = summary[n]

\* Messages that arrive while a compression is planned make it give up: no turn
\* is split between the live conversation and an archive.
TurnsStayWhole ==
  Condition \in {"healthy_plain", "healthy_compacted"} /\ At("idle") =>
    Turns(live) \cap Turns(Archived) = {}

\* Wherever an operation stops, the next one can classify and repair what it
\* left; the exceptions are an archive whose removal was torn, and a message
\* written anew under the name of one that is put away.
OnlyTornRemovalIsInvalid ==
  At("idle") /\ Condition = "invalid" =>
    \/ \E n \in Archives : archive[n].manifest = {} /\ Archived = {}
    \/ \E m \in Message : written[m] > 1

==============================================================================
