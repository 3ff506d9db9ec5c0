------------------------ MODULE ArchiveLifecycle_proofs ------------------------
(***************************************************************************)
(* The properties of ArchiveLifecycle, proved for every conversation, every *)
(* number of turns, appends and interruptions, and every choice of what the *)
(* selector keeps.                                                         *)
(*                                                                         *)
(* Inv holds whoever writes: what folders there can be (FolderInv), what an *)
(* operation has established by each stage (StageInv), how far its plan is  *)
(* carried out (PlanInv), what a live summary stands for, and that no name  *)
(* vanishes (NamesKept).  Two promises need more: that nothing is replaced  *)
(* when messages come back needs that nobody writes between the check and   *)
(* the renames (NobodyWritesBack, CheckedInv), and that turns stay whole    *)
(* that nobody writes while messages are moved (NobodyWritesMeanwhile,      *)
(* Apart, PlanWhole).                                                      *)
(***************************************************************************)
EXTENDS ArchiveLifecycle, FiniteSetTheorems, TLAPS

------------------------------------------------------------------------------
(* Folders and indexes *)

LEMMA IndexFinite ==
  ASSUME NEW S \in SUBSET Index
  PROVE  IsFiniteSet(S) /\ Cardinality(S) \in Nat
<1>1. 0 \in Int /\ MaxIndex \in Int
  BY ConstantsAssumption
<1>2. IsFiniteSet(Index)
  BY <1>1, FS_Interval DEF Index
<1>3. IsFiniteSet(S)
  BY <1>2, FS_Subset
<1>. QED
  BY <1>3, FS_CardinalityType

\* A set of indexes that is not empty has a largest element: otherwise the
\* members had between 1 and |S| - 1 members above them, each another number.
LEMMA MaxOf ==
  ASSUME NEW S \in SUBSET Index, S # {}
  PROVE  Max(S) \in S /\ \A i \in S : i <= Max(S)
<1>. DEFINE Above(i) == {j \in S : j > i}
            c == Cardinality(S)
            f == [i \in S |-> Cardinality(Above(i))]
<1>1. \A i \in S : i \in Nat
  BY ConstantsAssumption DEF Index
<1>2. IsFiniteSet(S) /\ c \in Nat
  BY IndexFinite
<1>3. \A i \in S : IsFiniteSet(Above(i)) /\ Cardinality(Above(i)) \in Nat
  BY IndexFinite
<1>4. ASSUME NEW i \in S, NEW j \in S, i < j
      PROVE  Cardinality(Above(j)) < Cardinality(Above(i))
  <2>1. Above(j) \in SUBSET Above(i)
    <3>1. \A k \in S : k > j => k > i
      BY <1>1, <1>4
    <3>. QED
      BY <3>1
  <2>2. j \in Above(i) /\ j \notin Above(j)
    BY <1>1, <1>4
  <2>. HIDE DEF Above
  <2>3. Above(i) # Above(j)
    BY <2>2
  <2>4. Cardinality(Above(j)) <= Cardinality(Above(i))
    BY <1>3, <2>1, FS_Subset
  <2>5. Cardinality(Above(i)) # Cardinality(Above(j))
    BY <1>3, <2>1, <2>3, FS_Subset
  <2>. QED
    BY <1>3, <2>4, <2>5
<1>5. \E m \in S : \A i \in S : i <= m
  <2>. SUFFICES ASSUME \A m \in S : \E i \in S : ~(i <= m)
               PROVE  FALSE
    OBVIOUS
  <2>1. ASSUME NEW i \in S PROVE Cardinality(Above(i)) \in 1 .. c - 1
    <3>1. PICK j \in S : ~(j <= i)
      OBVIOUS
    <3>2. j \in Above(i) /\ Above(i) \in SUBSET S /\ i \notin Above(i)
      BY <1>1, <3>1
    <3>. HIDE DEF Above
    <3>3. Cardinality(Above(i)) <= c /\ Cardinality(Above(i)) # c
      BY <1>2, <3>2, FS_Subset
    <3>4. Cardinality(Above(i)) # 0
      BY <1>3, <3>2, FS_EmptySet
    <3>. QED
      BY <1>2, <1>3, <3>3, <3>4
  <2>2. f \in [S -> 1 .. c - 1]
    BY <2>1
  <2>3. \A i, j \in S : f[i] = f[j] => i = j
    <3>. SUFFICES ASSUME NEW i \in S, NEW j \in S, i < j
                 PROVE  f[i] # f[j]
      <4>1. \A k, l \in Nat : k # l => k < l \/ l < k
        OBVIOUS
      <4>. QED
        BY <1>1, <4>1
    <3>1. Cardinality(Above(j)) < Cardinality(Above(i))
      BY <1>4
    <3>. QED
      BY <1>3, <3>1
  <2>4. \E g : g \in Injection(S, 1 .. c - 1)
    BY <2>2, <2>3 DEF Injection, IsInjective
  <2>. HIDE DEF f, Above
  <2>5. PICK g : g \in Injection(S, 1 .. c - 1)
    BY <2>4
  <2>6. 1 \in Int /\ c - 1 \in Int
    BY <1>2
  <2>7. IsFiniteSet(1 .. c - 1)
        /\ Cardinality(1 .. c - 1) = IF 1 > c - 1 THEN 0 ELSE c - 1 - 1 + 1
    BY <2>6, FS_Interval
  <2>8. c <= Cardinality(1 .. c - 1)
    BY <2>5, <2>7, FS_Injection
  <2>9. c # 0
    BY <1>2, FS_EmptySet
  <2>. QED
    BY <1>2, <2>7, <2>8, <2>9
<1>6. PICK m \in S : \A i \in S : i <= m
  BY <1>5
<1>7. \A i \in S : m >= i
  BY <1>1, <1>6
<1>8. \A x \in S : (\A y \in S : x >= y) => x = m
  BY <1>1, <1>6
<1>9. Max(S) = m
  BY <1>7, <1>8 DEF Max
<1>. QED
  BY <1>6, <1>9

LEMMA Folders ==
  /\ NoFolder \in Folder
  /\ NoFolder.messages = {} /\ NoFolder.manifest = {} /\ NoFolder.summary = {}
  /\ NoFolder.exists = FALSE
BY DEF NoFolder, Folder

\* What a step of a removal leaves of an emptied folder.
LEMMA EmptiedIs ==
  ASSUME NEW f \in Folder, f.messages = {}, NEW g \in Emptied(f)
  PROVE  /\ g \in Folder /\ g.messages = {}
         /\ g.exists = f.exists \/ g = NoFolder
         /\ g.manifest = f.manifest \/ g.manifest = {}
<1>1. CASE g = NoFolder
  BY <1>1, Folders
<1>2. CASE g = [f EXCEPT !.manifest = {}] \/ g = [f EXCEPT !.summary = {}]
  BY <1>2 DEF Folder
<1>. QED
  BY <1>1, <1>2 DEF Emptied

LEMMA TurnsOf ==
  ASSUME NEW M \in SUBSET Message
  PROVE  /\ Turns(M) \subseteq Index
         /\ M # {} => Turns(M) # {}
         /\ \A m \in M : m.idx \in Turns(M)
BY DEF Turns, Message

------------------------------------------------------------------------------
(* The invariant that needs no assumption *)

PlanShape ==
  plan = [generation |-> plan.generation, messages |-> plan.messages,
          decided |-> plan.decided]

Planned == {"summarise", "assert", "mkdir", "move-in", "manifest", "staged-summary",
            "commit", "live-summary"}

\* There is one archive at most and no staging beside it; a manifest covers the
\* archive's messages and, while it is there, names the archive.
FolderInv ==
  /\ \A n, k \in Archives : n = k
  /\ staging.exists => Archives = {}
  /\ \A n \in Archives :
       /\ Turns(archive[n].messages) \subseteq archive[n].manifest
       /\ archive[n].manifest # {} => Max(archive[n].manifest) = n

\* What an operation has established by the time it is at a stage.
StageInv ==
  /\ pc \in {"rollback", "rm-staging", "move-in", "manifest", "staged-summary", "commit"} =>
       staging.exists
  /\ pc = "rm-staging" => staging.messages = {}
  /\ pc \in {"decide", "reinspect", "restore", "unlink-summaries", "move-out",
             "rm-archives", "capture", "scan", "summarise", "assert", "mkdir"} =>
       ~staging.exists
  /\ pc \in {"capture", "scan", "summarise", "assert", "mkdir"} => Archives = {}
  /\ pc \in {"unlink-summaries", "move-out", "rm-archives"} => Archives # {}
  /\ pc \in {"move-out", "rm-archives"} => \A n \in Index : summary[n] = {}
  /\ pc = "rm-archives" => Archived = {}

\* How far the plan of a compression is carried out.
PlanInv ==
  /\ PlanShape
  /\ pc \in Planned => plan.messages # {}
  /\ pc \in {"summarise", "assert", "mkdir"} => plan.messages \subseteq live
  /\ pc = "move-in" =>
       /\ staging.messages \subseteq plan.messages /\ staging.messages # plan.messages
       /\ plan.messages \ staging.messages \subseteq live
  /\ pc \in {"manifest", "staged-summary", "commit"} => staging.messages = plan.messages
  /\ pc \in {"staged-summary", "commit"} => staging.manifest = Turns(plan.messages)
  /\ pc = "commit" => staging.summary = plan.messages
  /\ pc = "live-summary" =>
       LET n == Max(Turns(plan.messages)) IN
       /\ archive[n].exists /\ archive[n].messages = plan.messages
       /\ archive[n].summary = plan.messages

\* The archive is named after the last turn in it.
LEMMA Named ==
  ASSUME TypeOK, plan.messages # {}
  PROVE  LET n == Max(Turns(plan.messages)) IN
         n \in Index /\ Turns(plan.messages) # {} /\ Turns(plan.messages) \subseteq Index
<1>1. plan.messages \in SUBSET Message
  BY DEF TypeOK
<1>2. Turns(plan.messages) \in SUBSET Index /\ Turns(plan.messages) # {}
  BY <1>1, TurnsOf
<1>. QED
  BY <1>2, MaxOf

ControlType ==
  /\ pc = "idle" <=> command = "none"
  /\ command \in Command \cup {"none"}
  /\ pc \in Stage
  /\ plan.messages \subseteq Message /\ plan.decided \in BOOLEAN
  /\ result \in (Command \cup {"none"}) \X {"none", "ok", "changed", "invalid", "interrupted"}

FileType ==
  /\ live \subseteq Message
  /\ staging \in Folder /\ (staging.exists \/ staging = NoFolder)
  /\ \A n \in Index : archive[n].exists \/ archive[n] = NoFolder
  /\ archive \in [Index -> Folder]
  /\ summary \in [Index -> SUBSET Message]

Outcomes == {"none", "ok", "changed", "invalid", "interrupted"}

\* A step goes on to another stage, or ends the operation.
LEMMA Moves ==
  ASSUME ControlType, pc # "idle", PlanShape
  PROVE  /\ \A s \in Stage \ {"idle"} : Goto(s) => ControlType' /\ PlanShape'
         /\ \A o \in Outcomes : End(o) => ControlType' /\ PlanShape'
         /\ UNCHANGED control => ControlType' /\ PlanShape'
<1>1. ASSUME NEW s \in Stage \ {"idle"}, Goto(s)
      PROVE  ControlType' /\ PlanShape'
  BY <1>1 DEF ControlType, Goto, PlanShape
<1>2. ASSUME NEW o \in Outcomes, End(o)
      PROVE  ControlType' /\ PlanShape'
  BY <1>2 DEF ControlType, End, NoPlan, PlanShape, Stage, Outcomes
<1>3. ASSUME UNCHANGED control
      PROVE  ControlType' /\ PlanShape'
  BY <1>3 DEF ControlType, control, PlanShape
<1>. QED
  BY <1>1, <1>2, <1>3

LEMMA Ends ==
  ASSUME ControlType, PlanShape, pc # "idle", AfterRecovery \/ AfterRestore
  PROVE  ControlType' /\ PlanShape'
<1>. USE Moves DEF AfterRecovery, AfterRestore, Outcomes, Stage
<1>1. \/ End("ok")
      \/ \E s \in {"reinspect", "restore", "capture"} : Goto(s)
  OBVIOUS
<1>. QED
  BY <1>1

\* What the steps after Capture put into the plan.
LEMMA Replans ==
  ASSUME ControlType, PlanShape, pc # "idle", NEW s \in Stage \ {"idle"}, pc' = s,
         UNCHANGED <<command, result>>,
         \/ plan' = [plan EXCEPT !.decided = TRUE]
         \/ \E g : plan' = [plan EXCEPT !.generation = g]
         \/ \E M \in SUBSET Message : plan' = [plan EXCEPT !.messages = M]
  PROVE  ControlType' /\ PlanShape'
<1>. DEFINE P(g, M, d) == [generation |-> g, messages |-> M, decided |-> d]
<1>1. plan = P(plan.generation, plan.messages, plan.decided)
  BY DEF PlanShape
<1>2. plan'.messages \subseteq Message /\ plan'.decided \in BOOLEAN /\ PlanShape'
  <2>1. CASE plan' = [plan EXCEPT !.decided = TRUE]
    <3>1. plan' = P(plan.generation, plan.messages, TRUE)
      BY <1>1, <2>1
    <3>. QED
      BY <3>1 DEF ControlType, PlanShape
  <2>2. CASE \E g : plan' = [plan EXCEPT !.generation = g]
    <3>1. PICK g : plan' = P(g, plan.messages, plan.decided)
      BY <1>1, <2>2
    <3>. QED
      BY <3>1 DEF ControlType, PlanShape
  <2>3. CASE \E M \in SUBSET Message : plan' = [plan EXCEPT !.messages = M]
    <3>1. PICK M \in SUBSET Message : plan' = P(plan.generation, M, plan.decided)
      BY <1>1, <2>3
    <3>. QED
      BY <3>1 DEF ControlType, PlanShape
  <2>. QED
    BY <2>1, <2>2, <2>3
<1>. QED
  BY <1>2 DEF ControlType

------------------------------------------------------------------------------
(* Every step keeps the types *)

LEMMA NextControl ==
  ASSUME TypeOK, PlanShape, Next
  PROVE  ControlType' /\ PlanShape'
<1>. USE Moves, Ends DEF Outcomes, Stage, At
<1>0. ControlType
  BY DEF TypeOK, ControlType
<1>1. ASSUME NEW c \in Command, Begin(c)
      PROVE  ControlType' /\ PlanShape'
  BY <1>0, <1>1 DEF Begin, ControlType, Command, NoResult, NoPlan, PlanShape
<1>2. CASE Inspect \/ Reinspect
  BY <1>0, <1>2 DEF Inspect, Reinspect
<1>3. CASE DecideAutomatic
  <2>1. CASE End("ok")
    BY <1>0, <1>3, <2>1 DEF DecideAutomatic
  <2>2. CASE /\ pc' \in {"restore", "capture"} /\ UNCHANGED <<command, result>>
             /\ plan' = [plan EXCEPT !.decided = TRUE]
    BY <1>0, <1>3, <2>2, Replans DEF DecideAutomatic
  <2>. QED
    BY <1>3, <2>1, <2>2 DEF DecideAutomatic
<1>4. CASE InspectStaging
  BY <1>0, <1>4 DEF InspectStaging
<1>5. CASE Rollback \/ RolledBack
  BY <1>0, <1>5 DEF Rollback, RolledBack
<1>6. CASE RemoveStaging
  BY <1>0, <1>6 DEF RemoveStaging
<1>7. CASE InspectArchives
  BY <1>0, <1>7 DEF InspectArchives
<1>8. CASE UnlinkSummary
  BY <1>0, <1>8 DEF UnlinkSummary
<1>9. CASE MoveOut
  BY <1>0, <1>9 DEF MoveOut
<1>10. CASE RemoveArchive
  BY <1>0, <1>10 DEF RemoveArchive
<1>11. CASE Capture
  <2>1. /\ pc # "idle" /\ pc' = "scan" /\ UNCHANGED <<command, result>>
        /\ plan' = [plan EXCEPT !.generation = Generation]
    BY <1>11 DEF Capture
  <2>. HIDE DEF Outcomes, Stage, At
  <2>2. "scan" \in Stage \ {"idle"} /\ \E g : plan' = [plan EXCEPT !.generation = g]
    BY <2>1 DEF Stage
  <2>. QED
    BY <1>0, <2>1, <2>2, Replans
<1>12. CASE ScanTurns
  <2>1. CASE End("ok")
    BY <1>0, <1>12, <2>1 DEF ScanTurns
  <2>2. ASSUME NEW k \in Keep, plan' = [plan EXCEPT !.messages = Selected(k)],
               pc' = "summarise", UNCHANGED <<command, result>>
        PROVE  ControlType' /\ PlanShape'
    <3>1. Selected(k) \in SUBSET Message
      BY DEF Selected, TypeOK
    <3>. QED
      BY <1>0, <1>12, <2>2, <3>1, Replans DEF ScanTurns
  <2>. QED
    BY <1>12, <2>1, <2>2 DEF ScanTurns
<1>13. CASE Check
  BY <1>0, <1>13 DEF Check, AssertGeneration
<1>14. CASE MakeStaging
  BY <1>0, <1>14 DEF MakeStaging
<1>15. CASE MoveIn
  BY <1>0, <1>15 DEF MoveIn
<1>16. CASE WriteManifest \/ WriteStagedSummary \/ CommitArchive
  BY <1>0, <1>16 DEF WriteManifest, WriteStagedSummary, CommitArchive
<1>17. CASE WriteLiveSummary
  BY <1>0, <1>17 DEF WriteLiveSummary
<1>18. CASE Interrupt
  BY <1>0, <1>18 DEF Interrupt
<1>19. CASE Append
  BY <1>0, <1>19 DEF Append, control, ControlType, PlanShape
<1>. QED
  BY <1>1, <1>2, <1>3, <1>4, <1>5, <1>6, <1>7, <1>8, <1>9, <1>10, <1>11, <1>12, <1>13,
     <1>14, <1>15, <1>16, <1>17, <1>18, <1>19 DEF Next, Step

\* The steps that leave every file as it is.
Looking ==
  \/ \E c \in Command : Begin(c)
  \/ Inspect \/ Reinspect \/ DecideAutomatic \/ InspectStaging \/ RolledBack
  \/ InspectArchives \/ Capture \/ ScanTurns \/ Check \/ Interrupt

LEMMA LookingFiles == Looking => UNCHANGED files
BY DEF Looking, Begin, Inspect, Reinspect, DecideAutomatic, InspectStaging, RolledBack,
   InspectArchives, Capture, ScanTurns, Check, AssertGeneration, Interrupt

LEMMA NextFileType ==
  ASSUME TypeOK, StageInv, PlanInv, Next
  PROVE  FileType'
<1>0. FileType
  BY DEF TypeOK, FileType
<1>. USE <1>0 DEF At
<1>1. CASE Looking
  BY <1>1, LookingFiles DEF files, FileType
<1>2. CASE Rollback
  <2>1. staging.exists
    BY <1>2 DEF Rollback, StageInv
  <2>2. /\ live' \subseteq Message /\ staging' \in Folder /\ staging'.exists
        /\ UNCHANGED <<archive, summary>>
    BY <1>2, <2>1 DEF Rollback, FileType, Folder
  <2>. QED
    BY <2>2 DEF FileType
<1>3. CASE RemoveStaging
  <2>1. staging.messages = {} /\ staging.exists /\ staging' \in Emptied(staging)
        /\ UNCHANGED <<live, archive, summary>>
    BY <1>3 DEF RemoveStaging, StageInv
  <2>2. staging' \in Folder /\ (staging'.exists \/ staging' = NoFolder)
    BY <2>1, EmptiedIs DEF FileType
  <2>. QED
    BY <2>1, <2>2 DEF FileType
<1>4. CASE UnlinkSummary
  <2>1. summary' \in [Index -> SUBSET Message] /\ UNCHANGED <<live, staging, archive>>
    BY <1>4 DEF UnlinkSummary, FileType
  <2>. QED
    BY <2>1 DEF FileType
<1>5. CASE MoveOut
  <2>1. UNCHANGED <<staging, summary>>
    BY <1>5 DEF MoveOut
  <2>2. CASE UNCHANGED <<live, archive>>
    BY <2>1, <2>2 DEF FileType
  <2>3. ASSUME NEW n \in Archives, NEW m \in archive[n].messages, live' = live \cup {m},
               archive' = [archive EXCEPT ![n].messages = @ \ {m}]
        PROVE  FileType'
    <3>1. n \in Index /\ archive[n] \in Folder /\ archive[n].exists
      BY DEF Archives, FileType
    <3>2. /\ m \in Message /\ [archive[n] EXCEPT !.messages = @ \ {m}] \in Folder
          /\ [archive[n] EXCEPT !.messages = @ \ {m}].exists
      BY <3>1 DEF Folder
    <3>3. archive' = [archive EXCEPT ![n] = [archive[n] EXCEPT !.messages = @ \ {m}]]
      BY <2>3
    <3>4. archive' \in [Index -> Folder] /\ live' \subseteq Message
          /\ \A k \in Index : archive'[k].exists \/ archive'[k] = NoFolder
      BY <2>3, <3>1, <3>2, <3>3 DEF FileType
    <3>. QED
      BY <2>1, <3>4 DEF FileType
  <2>. QED
    BY <1>5, <2>2, <2>3 DEF MoveOut
<1>6. CASE RemoveArchive
  <2>0. PICK n \in Archives :
          \E f \in Emptied(archive[n]) : archive' = [archive EXCEPT ![n] = f]
    BY <1>6 DEF RemoveArchive
  <2>1. PICK f \in Emptied(archive[n]) : archive' = [archive EXCEPT ![n] = f]
    BY <2>0
  <2>2. n \in Index /\ archive[n] \in Folder /\ archive[n].exists /\ archive[n].messages = {}
        /\ UNCHANGED <<live, staging, summary>>
    BY <1>6 DEF RemoveArchive, Archives, StageInv, Archived, FileType
  <2>3. f \in Folder /\ (f.exists \/ f = NoFolder)
    BY <2>2, EmptiedIs
  <2>4. archive' \in [Index -> Folder]
        /\ \A k \in Index : archive'[k].exists \/ archive'[k] = NoFolder
    BY <2>1, <2>2, <2>3 DEF FileType
  <2>. QED
    BY <2>2, <2>4 DEF FileType
<1>7. CASE MakeStaging
  <2>1. staging' = staging \/ staging' = [NoFolder EXCEPT !.exists = TRUE]
    BY <1>7 DEF MakeStaging
  <2>2. staging' \in Folder /\ (staging'.exists \/ staging' = NoFolder)
    BY <2>1, Folders DEF Folder, FileType
  <2>. QED
    BY <1>7, <2>2 DEF MakeStaging, FileType
<1>8. CASE MoveIn
  <2>1. staging.exists
    BY <1>8 DEF MoveIn, StageInv
  <2>2. PICK m \in plan.messages \ staging.messages :
          live' = live \ {m} /\ staging' = [staging EXCEPT !.messages = @ \cup {m}]
    BY <1>8 DEF MoveIn
  <2>3. m \in Message
    BY DEF TypeOK
  <2>4. staging' \in Folder /\ staging'.exists /\ live' \subseteq Message
    BY <2>1, <2>2, <2>3 DEF FileType, Folder
  <2>. QED
    BY <1>8, <2>4 DEF MoveIn, FileType
<1>9. CASE WriteManifest \/ WriteStagedSummary
  <2>1. staging.exists
    BY <1>9 DEF WriteManifest, WriteStagedSummary, StageInv
  <2>2. plan.messages \in SUBSET Message /\ Turns(plan.messages) \subseteq Index
    BY TurnsOf DEF TypeOK
  <2>3. staging' = [staging EXCEPT !.manifest = Turns(plan.messages)]
        \/ staging' = [staging EXCEPT !.summary = plan.messages]
    BY <1>9 DEF WriteManifest, WriteStagedSummary
  <2>4. staging' \in Folder /\ staging'.exists
    BY <2>1, <2>2, <2>3 DEF FileType, Folder
  <2>. QED
    BY <1>9, <2>4 DEF WriteManifest, WriteStagedSummary, FileType
<1>10. CASE CommitArchive
  <2>. DEFINE n == Max(Turns(plan.messages))
  <2>1. /\ staging.exists /\ archive' = [archive EXCEPT ![n] = staging]
        /\ staging' = NoFolder /\ UNCHANGED <<live, summary>>
    BY <1>10 DEF CommitArchive, StageInv
  <2>. HIDE DEF n
  <2>2. archive' \in [Index -> Folder]
        /\ \A k \in Index : archive'[k].exists \/ archive'[k] = NoFolder
    BY <2>1 DEF FileType
  <2>. QED
    BY <2>1, <2>2, Folders DEF FileType
<1>11. CASE WriteLiveSummary
  <2>1. plan.messages # {}
    BY <1>11 DEF WriteLiveSummary, PlanInv, Planned
  <2>. DEFINE n == Max(Turns(plan.messages))
  <2>2. n \in Index
    BY <2>1, Named
  <2>3. summary' = [summary EXCEPT ![n] = archive[n].summary]
        /\ UNCHANGED <<live, staging, archive>>
    BY <1>11 DEF WriteLiveSummary
  <2>. HIDE DEF n
  <2>4. archive[n].summary \in SUBSET Message
    BY <2>2 DEF FileType, Folder
  <2>5. summary' \in [Index -> SUBSET Message]
    BY <2>3, <2>4 DEF FileType
  <2>. QED
    BY <2>3, <2>5 DEF FileType
<1>12. CASE Append
  <2>1. live' \subseteq Message /\ UNCHANGED <<staging, archive, summary>>
    BY <1>12 DEF Append, FileType
  <2>. QED
    BY <2>1 DEF FileType
<1>. QED
  BY <1>1, <1>2, <1>3, <1>4, <1>5, <1>6, <1>7, <1>8, <1>9, <1>10, <1>11, <1>12
  DEF Next, Step, Looking

LEMMA NextType ==
  ASSUME TypeOK, StageInv, PlanInv, [Next]_vars
  PROVE  TypeOK'
<1>1. CASE Next
  <2>1. ControlType' /\ FileType'
    BY <1>1, NextControl, NextFileType DEF PlanInv
  <2>2. written' \in [Message -> Nat] /\ appended' \in 0..Appends
        /\ interrupted' \in 0..Interruptions
    <3>1. CASE Append
      BY <3>1, ConstantsAssumption DEF Append, TypeOK
    <3>2. CASE Interrupt
      BY <3>2, ConstantsAssumption DEF Interrupt, TypeOK
    <3>3. CASE (\E c \in Command : Begin(c)) \/ Step
      <4>1. Calm
        BY <3>3 DEF Step, Begin, Inspect, Reinspect, DecideAutomatic, InspectStaging, Rollback,
           RolledBack, RemoveStaging, InspectArchives, UnlinkSummary, MoveOut, RemoveArchive,
           Capture, ScanTurns, Check, AssertGeneration, MakeStaging, MoveIn, WriteManifest,
           WriteStagedSummary, CommitArchive, WriteLiveSummary
      <4>. QED
        BY <4>1 DEF Calm, TypeOK
    <3>. QED
      BY <1>1, <3>1, <3>2, <3>3 DEF Next
  <2>. QED
    BY <2>1, <2>2 DEF TypeOK, ControlType, FileType
<1>2. CASE UNCHANGED vars
  BY <1>2 DEF vars, files, control, TypeOK
<1>. QED
  BY <1>1, <1>2

------------------------------------------------------------------------------
(* Every step keeps the folders and the stages *)

LEMMA NextFolders ==
  ASSUME TypeOK, FolderInv, StageInv, PlanInv, SummaryStandsForArchive, [Next]_vars
  PROVE  FolderInv' /\ SummaryStandsForArchive'
<1>. USE DEF At
<1>1. ASSUME UNCHANGED <<archive, summary>>, staging'.exists => staging.exists
      PROVE  FolderInv' /\ SummaryStandsForArchive'
  BY <1>1 DEF FolderInv, SummaryStandsForArchive, Archives, Turns
<1>2. CASE Looking \/ Append \/ UNCHANGED vars
  <2>1. UNCHANGED <<staging, archive, summary>>
    BY <1>2, LookingFiles DEF files, vars, Append
  <2>. QED
    BY <1>1, <2>1
<1>3. CASE Rollback \/ MoveIn \/ WriteManifest \/ WriteStagedSummary
  <2>1. UNCHANGED <<archive, summary>> /\ staging.exists
    BY <1>3 DEF Rollback, MoveIn, WriteManifest, WriteStagedSummary, StageInv
  <2>. QED
    BY <1>1, <2>1
<1>4. CASE RemoveStaging
  <2>1. UNCHANGED <<archive, summary>> /\ staging.exists
    BY <1>4 DEF RemoveStaging, StageInv
  <2>. QED
    BY <1>1, <2>1
<1>5. CASE UnlinkSummary
  <2>1. UNCHANGED <<staging, archive>> /\ \A k \in Index : summary'[k] \in {summary[k], {}}
    BY <1>5 DEF UnlinkSummary, TypeOK
  <2>2. \A k \in Index : summary'[k] # {} => summary'[k] = summary[k]
    BY <2>1
  <2>. QED
    BY <2>1, <2>2 DEF FolderInv, SummaryStandsForArchive, Archives, Turns
<1>6. CASE MoveOut
  <2>1. UNCHANGED <<staging, summary>> /\ \A k \in Index : summary[k] = {}
    BY <1>6 DEF MoveOut, StageInv
  <2>2. SummaryStandsForArchive'
    BY <2>1 DEF SummaryStandsForArchive
  <2>3. \A k \in Index : /\ archive'[k].exists = archive[k].exists
                         /\ archive'[k].manifest = archive[k].manifest
                         /\ archive'[k].messages \subseteq archive[k].messages
    <3>1. CASE UNCHANGED archive
      BY <3>1
    <3>2. ASSUME NEW n \in Archives, NEW m,
                 archive' = [archive EXCEPT ![n].messages = @ \ {m}]
          PROVE  \A k \in Index : /\ archive'[k].exists = archive[k].exists
                                  /\ archive'[k].manifest = archive[k].manifest
                                  /\ archive'[k].messages \subseteq archive[k].messages
      <4>1. \A k \in Index : archive[k] \in Folder
        BY DEF TypeOK
      <4>2. \A k \in Index : archive'[k] = IF k = n
              THEN [archive[k] EXCEPT !.messages = @ \ {m}] ELSE archive[k]
        BY <3>2 DEF TypeOK, Archives
      <4>. QED
        BY <4>1, <4>2 DEF Folder
    <3>. QED
      BY <1>6, <3>1, <3>2 DEF MoveOut
  <2>4. Archives' = Archives
    BY <2>3 DEF Archives
  <2>5. \A k \in Index : Turns(archive'[k].messages) \subseteq Turns(archive[k].messages)
    BY <2>3 DEF Turns
  <2>6. Archives \subseteq Index
    BY DEF Archives
  <2>7. (\A n \in Archives :
          /\ Turns(archive[n].messages) \subseteq archive[n].manifest
          /\ archive[n].manifest # {} => Max(archive[n].manifest) = n)'
    BY <2>3, <2>4, <2>5, <2>6 DEF FolderInv, Turns
  <2>. QED
    BY <2>1, <2>2, <2>4, <2>7 DEF FolderInv
<1>7. CASE RemoveArchive
  <2>0. PICK n \in Archives :
          \E f \in Emptied(archive[n]) : archive' = [archive EXCEPT ![n] = f]
    BY <1>7 DEF RemoveArchive
  <2>1. PICK f \in Emptied(archive[n]) : archive' = [archive EXCEPT ![n] = f]
    BY <2>0
  <2>2. n \in Index /\ archive[n] \in Folder /\ archive[n].exists /\ archive[n].messages = {}
        /\ UNCHANGED <<staging, summary>> /\ \A k \in Index : summary[k] = {}
    BY <1>7 DEF RemoveArchive, Archives, StageInv, Archived, TypeOK
  <2>3. /\ f \in Folder /\ f.messages = {} /\ (f.exists \/ f = NoFolder)
        /\ f.manifest = archive[n].manifest \/ f.manifest = {}
    BY <2>2, EmptiedIs
  <2>4. Archives' \subseteq Archives /\ Archives \subseteq {n} /\ archive'[n] = f
    BY <2>1, <2>2 DEF Archives, TypeOK, FolderInv
  <2>5. SummaryStandsForArchive'
    BY <2>2 DEF SummaryStandsForArchive
  <2>6. Turns(f.messages) = {}
    BY <2>3 DEF Turns
  <2>7. f.manifest # {} => Max(f.manifest) = n
    BY <2>3 DEF FolderInv
  <2>8. (\A k \in Archives :
          /\ Turns(archive[k].messages) \subseteq archive[k].manifest
          /\ archive[k].manifest # {} => Max(archive[k].manifest) = k)'
    BY <2>4, <2>6, <2>7 DEF Turns
  <2>. QED
    BY <2>2, <2>4, <2>5, <2>8 DEF FolderInv
<1>8. CASE MakeStaging
  <2>1. Archives = {} /\ UNCHANGED <<archive, summary>>
    BY <1>8 DEF MakeStaging, StageInv
  <2>2. Archives' = {}
    BY <2>1 DEF Archives
  <2>. QED
    BY <2>1, <2>2 DEF FolderInv, SummaryStandsForArchive, Archives
<1>9. CASE CommitArchive
  <2>. DEFINE n == Max(Turns(plan.messages))
  <2>1. /\ staging.exists /\ archive' = [archive EXCEPT ![n] = staging]
        /\ staging' = NoFolder /\ UNCHANGED summary
        /\ staging.messages = plan.messages /\ staging.manifest = Turns(plan.messages)
        /\ plan.messages # {}
    BY <1>9 DEF CommitArchive, StageInv, PlanInv, Planned
  <2>2. Archives = {} /\ n \in Index
    BY <2>1, Named DEF FolderInv
  <2>. HIDE DEF n
  <2>3. Archives' = {n} /\ archive'[n] = staging
    BY <2>1, <2>2 DEF Archives, TypeOK
  <2>4. \A k \in Index : summary[k] = {}
    BY <2>2 DEF SummaryStandsForArchive, Archives
  <2>5. SummaryStandsForArchive'
    BY <2>1, <2>4 DEF SummaryStandsForArchive
  <2>6. Turns(archive'[n].messages) = archive'[n].manifest /\ Max(archive'[n].manifest) = n
    BY <2>1, <2>3 DEF n
  <2>7. (\A k \in Archives :
          /\ Turns(archive[k].messages) \subseteq archive[k].manifest
          /\ archive[k].manifest # {} => Max(archive[k].manifest) = k)'
    BY <2>3, <2>6 DEF Turns
  <2>. QED
    BY <2>1, <2>3, <2>5, <2>7, Folders DEF FolderInv
<1>10. CASE WriteLiveSummary
  <2>. DEFINE n == Max(Turns(plan.messages))
  <2>1. /\ summary' = [summary EXCEPT ![n] = archive[n].summary]
        /\ UNCHANGED <<staging, archive>>
        /\ archive[n].exists /\ archive[n].messages = archive[n].summary
    BY <1>10 DEF WriteLiveSummary, PlanInv
  <2>. HIDE DEF n
  <2>. QED
    BY <2>1 DEF FolderInv, SummaryStandsForArchive, Archives, Turns, TypeOK
<1>. QED
  BY <1>2, <1>3, <1>4, <1>5, <1>6, <1>7, <1>8, <1>9, <1>10 DEF Next, Step, Looking

\* Where recovery and restore lead.
LEMMA Destinations ==
  ASSUME AfterRecovery \/ AfterRestore
  PROVE  pc' \in {"idle", "reinspect", "restore", "capture"}
BY DEF AfterRecovery, AfterRestore, Goto, End

LEMMA NextStages ==
  ASSUME TypeOK, FolderInv, StageInv, PlanInv, SummaryStandsForArchive, [Next]_vars
  PROVE  StageInv'
<1>. USE DEF At, Goto, End
<1>0. ASSUME UNCHANGED <<staging, archive, summary>>
      PROVE  /\ Archives' = Archives /\ Archived' = Archived
             /\ staging' = staging /\ summary' = summary
  BY <1>0 DEF Archives, Archived
<1>1. ASSUME pc' = "idle" PROVE StageInv'
  BY <1>1 DEF StageInv
<1>2. CASE \E c \in Command : Begin(c)
  BY <1>2 DEF Begin, StageInv
<1>3. CASE Inspect \/ Reinspect
  <2>1. UNCHANGED <<staging, archive, summary>>
    BY <1>3 DEF Inspect, Reinspect, files
  <2>2. CASE pc' \in {"idle", "recover"}
    BY <1>1, <2>2 DEF StageInv
  <2>3. CASE pc' \in {"restore", "decide"} /\ ~staging.exists
    BY <2>1, <2>3 DEF StageInv
  <2>. QED
    BY <1>3, <2>2, <2>3 DEF Inspect, Reinspect, Condition
<1>4. CASE DecideAutomatic
  <2>1. UNCHANGED <<staging, archive, summary>> /\ ~staging.exists
    BY <1>4 DEF DecideAutomatic, StageInv, files
  <2>. QED
    BY <1>0, <1>1, <1>4, <2>1 DEF DecideAutomatic, StageInv
<1>5. CASE InspectStaging
  <2>1. UNCHANGED <<staging, archive, summary>>
    BY <1>5 DEF InspectStaging, files
  <2>2. CASE ~staging.exists /\ AfterRecovery
    <3>1. pc' \in {"idle", "reinspect", "restore"}
      BY <2>2 DEF AfterRecovery
    <3>. QED
      BY <2>1, <2>2, <3>1 DEF StageInv
  <2>3. CASE staging.exists /\ pc' \in {"idle", "rollback"}
    BY <2>1, <2>3 DEF StageInv
  <2>. QED
    BY <1>5, <2>2, <2>3 DEF InspectStaging
<1>6. CASE Rollback
  <2>1. pc = "rollback" /\ pc' = pc /\ staging.exists /\ staging'.exists
    <3>1. pc = "rollback" /\ pc' = pc /\ staging.exists
      BY <1>6 DEF Rollback, StageInv, control
    <3>. QED
      BY <1>6, <3>1 DEF Rollback, TypeOK, Folder
  <2>. QED
    BY <2>1 DEF StageInv
<1>7. CASE RolledBack
  BY <1>7 DEF RolledBack, StageInv, files
<1>8. CASE RemoveStaging
  <2>1. /\ pc = "rm-staging" /\ staging.messages = {} /\ staging' \in Emptied(staging)
    BY <1>8 DEF RemoveStaging, StageInv
  <2>2. staging'.messages = {}
    BY <2>1, EmptiedIs DEF TypeOK
  <2>3. CASE staging'.exists /\ pc' = pc
    BY <2>1, <2>2, <2>3 DEF StageInv
  <2>4. CASE ~staging'.exists /\ AfterRecovery
    <3>1. pc' \in {"idle", "reinspect", "restore"}
      BY <2>4 DEF AfterRecovery
    <3>. QED
      BY <2>4, <3>1 DEF StageInv
  <2>. QED
    BY <1>8, <2>3, <2>4 DEF RemoveStaging, control
<1>9. CASE InspectArchives
  <2>1. UNCHANGED <<staging, archive, summary>> /\ ~staging.exists
    BY <1>9 DEF InspectArchives, StageInv, files
  <2>2. CASE Archives = {} /\ AfterRestore
    <3>1. pc' \in {"idle", "reinspect", "capture"}
      BY <2>2 DEF AfterRestore
    <3>. QED
      BY <1>0, <2>1, <2>2, <3>1 DEF StageInv
  <2>3. CASE Archives # {} /\ pc' \in {"unlink-summaries", "idle"}
    BY <1>0, <2>1, <2>3 DEF StageInv
  <2>. QED
    BY <1>9, <2>2, <2>3 DEF InspectArchives
<1>10. CASE UnlinkSummary
  <2>1. pc = "unlink-summaries" /\ UNCHANGED <<staging, archive>> /\ ~staging.exists
        /\ Archives # {} /\ Archives' = Archives
    BY <1>10 DEF UnlinkSummary, StageInv, Archives
  <2>2. CASE pc' = pc
    BY <2>1, <2>2 DEF StageInv
  <2>3. CASE /\ \A n \in Archives : summary[n] = {}
             /\ pc' = "move-out" /\ UNCHANGED summary
    <3>1. \A n \in Index : summary[n] = {}
      BY <2>3 DEF SummaryStandsForArchive, Archives
    <3>. QED
      BY <2>1, <2>3, <3>1 DEF StageInv
  <2>. QED
    BY <1>10, <2>2, <2>3 DEF UnlinkSummary, control
<1>11. CASE MoveOut
  <2>1. pc = "move-out" /\ UNCHANGED <<staging, summary>> /\ ~staging.exists
        /\ Archives # {} /\ \A k \in Index : summary[k] = {}
    BY <1>11 DEF MoveOut, StageInv
  <2>2. CASE Archived = {} /\ pc' = "rm-archives" /\ UNCHANGED <<live, archive>>
    BY <1>0, <2>1, <2>2 DEF StageInv
  <2>3. ASSUME pc' = pc, NEW n \in Archives, NEW m,
               archive' = [archive EXCEPT ![n].messages = @ \ {m}]
        PROVE  StageInv'
    <3>1. n \in Index /\ archive[n] \in Folder /\ archive[n].exists
      BY DEF Archives, TypeOK
    <3>2. archive'[n] = [archive[n] EXCEPT !.messages = @ \ {m}]
      BY <2>3, <3>1 DEF TypeOK
    <3>3. archive'[n].exists
      BY <3>1, <3>2 DEF Folder
    <3>4. Archives' # {}
      BY <3>1, <3>3 DEF Archives
    <3>. QED
      BY <2>1, <2>3, <3>4 DEF StageInv
  <2>. QED
    BY <1>11, <2>2, <2>3 DEF MoveOut, control
<1>12. CASE RemoveArchive
  <2>0. PICK n \in Archives :
          /\ \E f \in Emptied(archive[n]) : archive' = [archive EXCEPT ![n] = f]
          /\ IF Archives = {n} /\ ~archive'[n].exists THEN AfterRestore ELSE UNCHANGED control
    BY <1>12 DEF RemoveArchive
  <2>1. PICK f \in Emptied(archive[n]) : archive' = [archive EXCEPT ![n] = f]
    BY <2>0
  <2>2. n \in Index /\ archive[n] \in Folder /\ archive[n].exists /\ archive[n].messages = {}
        /\ UNCHANGED <<staging, summary>> /\ \A k \in Index : summary[k] = {}
        /\ ~staging.exists /\ pc = "rm-archives" /\ Archived = {}
    BY <1>12 DEF RemoveArchive, Archives, StageInv, Archived, TypeOK
  <2>3. f.messages = {}
    BY <2>2, EmptiedIs
  <2>4. Archives = {n} /\ archive'[n] = f /\ \A k \in Index : k # n => archive'[k] = archive[k]
    BY <2>1, <2>2 DEF Archives, TypeOK, FolderInv
  <2>5. CASE ~f.exists
    <3>1. Archives' = {}
      BY <2>4, <2>5 DEF Archives
    <3>2. AfterRestore
      BY <2>0, <2>4, <2>5
    <3>3. pc' \in {"idle", "reinspect", "capture"}
      BY <3>2 DEF AfterRestore
    <3>. QED
      BY <2>2, <3>1, <3>3 DEF StageInv
  <2>6. CASE f.exists
    <3>1. pc' = "rm-archives"
      BY <2>0, <2>2, <2>4, <2>6 DEF control
    <3>2. n \in Archives'
      BY <2>2, <2>4, <2>6 DEF Archives
    <3>3. Archived' = {}
      BY <2>2, <2>3, <2>4 DEF Archived
    <3>. QED
      BY <2>2, <3>1, <3>2, <3>3 DEF StageInv
  <2>. QED
    BY <2>5, <2>6
<1>13. CASE Capture \/ ScanTurns \/ Check
  <2>1. UNCHANGED <<staging, archive, summary>> /\ ~staging.exists /\ Archives = {}
    BY <1>13 DEF Capture, ScanTurns, Check, AssertGeneration, StageInv, files
  <2>2. pc' \in {"idle", "scan", "summarise", "assert", "mkdir"}
    BY <1>13 DEF Capture, ScanTurns, Check, AssertGeneration
  <2>. QED
    BY <1>0, <2>1, <2>2 DEF StageInv
<1>14. CASE MakeStaging
  <2>1. CASE pc' = "move-in" /\ staging' = [NoFolder EXCEPT !.exists = TRUE]
    <3>1. staging'.exists
      BY <2>1 DEF NoFolder
    <3>. QED
      BY <2>1, <3>1 DEF StageInv
  <2>. QED
    BY <1>1, <1>14, <2>1 DEF MakeStaging
<1>15. CASE MoveIn
  <2>1. staging.exists /\ pc = "move-in" /\ staging'.exists
    <3>1. pc = "move-in" /\ staging.exists
      BY <1>15 DEF MoveIn, StageInv
    <3>. QED
      BY <1>15, <3>1 DEF MoveIn, TypeOK, Folder
  <2>2. pc' \in {"move-in", "manifest"}
    BY <1>15 DEF MoveIn, control
  <2>. QED
    BY <2>1, <2>2 DEF StageInv
<1>16. CASE WriteManifest \/ WriteStagedSummary
  <2>1. staging.exists /\ pc' \in {"staged-summary", "commit"}
    BY <1>16 DEF WriteManifest, WriteStagedSummary, StageInv
  <2>2. staging'.exists
    BY <1>16, <2>1 DEF WriteManifest, WriteStagedSummary, TypeOK, Folder
  <2>. QED
    BY <2>1, <2>2 DEF StageInv
<1>17. CASE CommitArchive
  BY <1>17 DEF CommitArchive, StageInv
<1>18. CASE WriteLiveSummary \/ Interrupt
  BY <1>1, <1>18 DEF WriteLiveSummary, Interrupt
<1>19. CASE Append \/ UNCHANGED vars
  <2>1. UNCHANGED <<staging, archive, summary>> /\ pc' = pc
    BY <1>19 DEF Append, vars, files, control
  <2>. QED
    BY <1>0, <2>1 DEF StageInv
<1>. QED
  BY <1>2, <1>3, <1>4, <1>5, <1>6, <1>7, <1>8, <1>9, <1>10, <1>11, <1>12, <1>13,
     <1>14, <1>15, <1>16, <1>17, <1>18, <1>19 DEF Next, Step

------------------------------------------------------------------------------
(* Every step keeps the plan *)

LEMMA NextPlan ==
  ASSUME TypeOK, FolderInv, StageInv, PlanInv, [Next]_vars
  PROVE  PlanInv'
<1>. USE DEF At, Goto, End
<1>0. PlanShape'
  <2>1. CASE Next
    BY <2>1, NextControl DEF PlanInv
  <2>2. CASE UNCHANGED vars
    BY <2>2 DEF vars, control, PlanInv, PlanShape
  <2>. QED
    BY <2>1, <2>2
\* Before a plan is made there is nothing to keep.
<1>1. ASSUME pc' \notin Planned PROVE PlanInv'
  BY <1>0, <1>1 DEF PlanInv, Planned
<1>2. CASE \E c \in Command : Begin(c)
  BY <1>1, <1>2 DEF Begin, Planned
<1>3. CASE Inspect \/ Reinspect \/ DecideAutomatic \/ RolledBack \/ Capture
  BY <1>1, <1>3 DEF Inspect, Reinspect, DecideAutomatic, RolledBack, Capture, Planned
<1>4. CASE InspectStaging \/ RemoveStaging \/ InspectArchives \/ RemoveArchive
  <2>1. \/ pc' \in {"idle", "rollback", "unlink-summaries"}
        \/ AfterRecovery \/ AfterRestore
        \/ pc' = pc /\ pc \in {"rm-staging", "rm-archives"}
    BY <1>4 DEF InspectStaging, RemoveStaging, InspectArchives, RemoveArchive, control
  <2>2. pc' \notin Planned
    BY <2>1, Destinations DEF Planned
  <2>. QED
    BY <1>1, <2>2
<1>5. CASE Rollback \/ UnlinkSummary \/ MoveOut
  <2>1. pc' \in {"rollback", "unlink-summaries", "move-out", "rm-archives"}
    BY <1>5 DEF Rollback, UnlinkSummary, MoveOut, control
  <2>. QED
    BY <1>1, <2>1 DEF Planned
<1>6. CASE ScanTurns
  <2>1. CASE pc' = "idle"
    BY <1>1, <2>1 DEF Planned
  <2>2. ASSUME NEW k \in Keep, Selected(k) # {}, pc' = "summarise",
               plan' = [plan EXCEPT !.messages = Selected(k)]
        PROVE  PlanInv'
    <3>1. plan' = [generation |-> plan.generation, messages |-> Selected(k),
                   decided |-> plan.decided]
      BY <2>2 DEF PlanInv, PlanShape
    <3>2. plan'.messages = Selected(k) /\ live' = live
      BY <1>6, <3>1 DEF ScanTurns, files
    <3>3. Selected(k) \subseteq live
      BY DEF Selected
    <3>. QED
      BY <1>0, <2>2, <3>2, <3>3 DEF PlanInv, Planned
  <2>. QED
    BY <1>6, <2>1, <2>2 DEF ScanTurns
<1>7. CASE Check
  <2>1. pc \in {"summarise", "assert"} /\ UNCHANGED live
    BY <1>7 DEF Check, AssertGeneration, files
  <2>2. pc' = "idle" \/ (pc' \in {"assert", "mkdir"} /\ UNCHANGED plan)
    BY <1>7 DEF Check, AssertGeneration
  <2>. QED
    BY <1>0, <1>1, <2>1, <2>2 DEF PlanInv, Planned
<1>8. CASE MakeStaging
  <2>1. CASE pc' = "idle"
    BY <1>1, <2>1 DEF Planned
  <2>2. CASE pc' = "move-in" /\ staging' = [NoFolder EXCEPT !.exists = TRUE]
             /\ UNCHANGED plan
    <3>1. staging'.messages = {} /\ plan.messages \subseteq live /\ plan.messages # {}
          /\ live' = live
      BY <1>8, <2>2 DEF NoFolder, PlanInv, Planned, MakeStaging
    <3>. QED
      BY <1>0, <2>2, <3>1 DEF PlanInv, Planned
  <2>. QED
    BY <1>8, <2>1, <2>2 DEF MakeStaging
<1>9. CASE MoveIn
  <2>1. PICK m \in plan.messages \ staging.messages :
          /\ live' = live \ {m}
          /\ staging' = [staging EXCEPT !.messages = @ \cup {m}]
          /\ IF plan.messages = staging'.messages THEN Goto("manifest") ELSE UNCHANGED control
    BY <1>9 DEF MoveIn
  <2>2. staging'.messages = staging.messages \cup {m}
    BY <2>1 DEF TypeOK, Folder
  <2>3. pc = "move-in" /\ plan' = plan
        /\ (IF plan.messages = staging'.messages THEN pc' = "manifest" ELSE pc' = "move-in")
    BY <1>9, <2>1 DEF MoveIn, control
  <2>4. /\ staging.messages \subseteq plan.messages /\ plan.messages # {}
        /\ plan.messages \ staging.messages \subseteq live
    BY <2>3 DEF PlanInv, Planned
  <2>5. staging'.messages \subseteq plan.messages
        /\ plan.messages \ staging'.messages \subseteq live'
    BY <2>1, <2>2, <2>4
  <2>. QED
    BY <1>0, <2>3, <2>4, <2>5 DEF PlanInv, Planned
<1>10. CASE WriteManifest
  <2>1. /\ pc = "manifest" /\ pc' = "staged-summary" /\ plan' = plan
        /\ staging' = [staging EXCEPT !.manifest = Turns(plan.messages)]
    BY <1>10 DEF WriteManifest
  <2>2. /\ staging'.messages = staging.messages
        /\ staging'.manifest = Turns(plan.messages)
    BY <2>1 DEF TypeOK, Folder
  <2>3. staging.messages = plan.messages /\ plan.messages # {}
    BY <2>1 DEF PlanInv, Planned
  <2>. QED
    BY <1>0, <2>1, <2>2, <2>3 DEF PlanInv, Planned, Turns
<1>11. CASE WriteStagedSummary
  <2>1. /\ pc = "staged-summary" /\ pc' = "commit" /\ plan' = plan
        /\ staging' = [staging EXCEPT !.summary = plan.messages]
    BY <1>11 DEF WriteStagedSummary
  <2>2. /\ staging'.messages = staging.messages /\ staging'.manifest = staging.manifest
        /\ staging'.summary = plan.messages
    BY <2>1 DEF TypeOK, Folder
  <2>3. staging.messages = plan.messages /\ plan.messages # {}
        /\ staging.manifest = Turns(plan.messages)
    BY <2>1 DEF PlanInv, Planned
  <2>. QED
    BY <1>0, <2>1, <2>2, <2>3 DEF PlanInv, Planned, Turns
<1>12. CASE CommitArchive
  <2>. DEFINE n == Max(Turns(plan.messages))
  <2>1. /\ pc = "commit" /\ pc' = "live-summary" /\ plan' = plan
        /\ archive' = [archive EXCEPT ![n] = staging]
        /\ staging.messages = plan.messages /\ staging.summary = plan.messages
        /\ plan.messages # {} /\ staging.exists
    BY <1>12 DEF CommitArchive, PlanInv, Planned, StageInv
  <2>2. n \in Index
    BY <2>1, Named
  <2>3. Max(Turns(plan.messages))' = n
    BY <2>1 DEF Turns
  <2>. HIDE DEF n
  <2>4. archive'[n] = staging
    BY <2>1, <2>2 DEF TypeOK
  <2>. QED
    BY <1>0, <2>1, <2>3, <2>4 DEF PlanInv, Planned
<1>13. CASE WriteLiveSummary \/ Interrupt
  BY <1>1, <1>13 DEF WriteLiveSummary, Interrupt, Planned
<1>14. CASE Append \/ UNCHANGED vars
  <2>1. UNCHANGED <<staging, archive, plan, pc>> /\ live \subseteq live'
    BY <1>14 DEF Append, vars, files, control
  <2>2. Max(Turns(plan.messages))' = Max(Turns(plan.messages))
        /\ Turns(plan.messages)' = Turns(plan.messages)
    BY <2>1 DEF Turns
  <2>. QED
    BY <1>0, <2>1, <2>2 DEF PlanInv, Planned
<1>. QED
  BY <1>2, <1>3, <1>4, <1>5, <1>6, <1>7, <1>8, <1>9, <1>10, <1>11, <1>12, <1>13, <1>14
  DEF Next, Step

------------------------------------------------------------------------------
(* What is checked and then relied on *)

\* The stages between the check that nothing would be replaced and the moves.
Unreplaceable == {"rollback", "unlink-summaries", "move-out"}
NobodyWritesBack == Open \cap Unreplaceable = {}

CheckedInv ==
  /\ pc = "rollback" => staging.messages \cap live = {}
  /\ pc \in {"unlink-summaries", "move-out"} => Archived \cap live = {}

\* Where a message is.
In(condition) == IF condition THEN 1 ELSE 0

LEMMA CopiesAre ==
  ASSUME TypeOK, FolderInv, NEW m \in Message
  PROVE  Copies(m) = In(m \in live) + In(m \in staging.messages) + In(m \in Archived)
<1>1. Cardinality({f \in {"live"} : m \in live}) = In(m \in live)
  <2>1. {f \in {"live"} : m \in live} = IF m \in live THEN {"live"} ELSE {}
    OBVIOUS
  <2>. QED
    BY <2>1, FS_EmptySet, FS_Singleton DEF In
<1>2. Cardinality({f \in {"staging"} : m \in staging.messages}) = In(m \in staging.messages)
  <2>1. {f \in {"staging"} : m \in staging.messages}
          = IF m \in staging.messages THEN {"staging"} ELSE {}
    OBVIOUS
  <2>. QED
    BY <2>1, FS_EmptySet, FS_Singleton DEF In
<1>3. Cardinality({n \in Index : m \in archive[n].messages}) = In(m \in Archived)
  <2>1. \A n \in Index : m \in archive[n].messages => n \in Archives
    BY Folders DEF TypeOK, Archives
  <2>2. CASE m \in Archived
    <3>1. PICK n \in Index : m \in archive[n].messages
      BY <2>2 DEF Archived
    <3>2. {k \in Index : m \in archive[k].messages} = {n}
      BY <2>1, <3>1 DEF FolderInv
    <3>. QED
      BY <2>2, <3>2, FS_Singleton DEF In
  <2>3. CASE m \notin Archived
    <3>1. {k \in Index : m \in archive[k].messages} = {}
      BY <2>3 DEF Archived
    <3>. QED
      BY <2>3, <3>1, FS_EmptySet DEF In
  <2>. QED
    BY <2>2, <2>3
<1>. QED
  BY <1>1, <1>2, <1>3 DEF Copies

Placed == \A m \in Message :
  Copies(m) = In(m \in live) + In(m \in staging.messages) + In(m \in Archived)

LEMMA EveryPlace == TypeOK /\ FolderInv => Placed
BY CopiesAre DEF Placed

\* The one archive there can be holds everything that is put away.
LEMMA TheArchive ==
  ASSUME TypeOK, FolderInv
  PROVE  /\ \A n \in Archives : Archived = archive[n].messages
         /\ Archives = {} => Archived = {}
<1>1. \A k \in Index \ Archives : archive[k].messages = {}
  BY Folders DEF TypeOK, Archives
<1>2. ASSUME NEW n \in Archives PROVE Archived = archive[n].messages
  <2>1. n \in Index /\ \A k \in Index : k = n \/ archive[k].messages = {}
    BY <1>1 DEF FolderInv, Archives
  <2>. QED
    BY <2>1 DEF Archived
<1>3. Archives = {} => Archived = {}
  BY <1>1 DEF Archived
<1>. QED
  BY <1>2, <1>3

\* A rename takes a message out of the archive.
LEMMA TakenOut ==
  ASSUME TypeOK, FolderInv, NEW n \in Archives, NEW m \in archive[n].messages,
         archive' = [archive EXCEPT ![n].messages = @ \ {m}]
  PROVE  Archived' = Archived \ {m}
<1>1. n \in Index /\ archive[n] \in Folder
  BY DEF TypeOK, Archives
<1>2. archive'[n] = [archive[n] EXCEPT !.messages = @ \ {m}]
      /\ \A k \in Index \ {n} : archive'[k] = archive[k]
  BY <1>1 DEF TypeOK
<1>3. archive'[n].messages = archive[n].messages \ {m}
  BY <1>1, <1>2 DEF Folder
<1>4. \A k \in Index \ {n} : archive'[k].messages = {}
  BY <1>2, Folders DEF TypeOK, FolderInv, Archives
<1>5. Archived = archive[n].messages
  BY TheArchive
<1>. QED
  BY <1>1, <1>3, <1>4, <1>5 DEF Archived

LEMMA NextChecked ==
  ASSUME NobodyWritesBack, TypeOK, FolderInv, StageInv, CheckedInv, [Next]_vars
  PROVE  CheckedInv'
<1>. USE DEF At, Goto, End
<1>0. ASSUME UNCHANGED <<live, archive>> PROVE (Archived \cap live)' = Archived \cap live
  BY <1>0 DEF Archived
<1>1. ASSUME pc' \notin Unreplaceable PROVE CheckedInv'
  BY <1>1 DEF CheckedInv, Unreplaceable
<1>2. CASE InspectStaging
  <2>1. CASE pc' = "rollback" /\ StagingRecoverable /\ UNCHANGED files
    BY <2>1 DEF CheckedInv, StagingRecoverable, files
  <2>2. CASE pc' = "idle" \/ AfterRecovery
    BY <1>1, <2>2, Destinations DEF Unreplaceable
  <2>. QED
    BY <1>2, <2>1, <2>2 DEF InspectStaging
<1>3. CASE Rollback
  <2>1. PICK m \in staging.messages :
          live' = live \cup {m} /\ staging' = [staging EXCEPT !.messages = @ \ {m}]
    BY <1>3 DEF Rollback
  <2>2. pc = "rollback" /\ pc' = pc /\ staging'.messages = staging.messages \ {m}
    BY <1>3, <2>1 DEF Rollback, control, TypeOK, Folder
  <2>. QED
    BY <2>1, <2>2 DEF CheckedInv
<1>4. CASE InspectArchives
  <2>1. CASE pc' = "unlink-summaries" /\ ArchivesValid /\ UNCHANGED files
    BY <1>0, <2>1 DEF CheckedInv, ArchivesValid, files
  <2>2. CASE pc' = "idle" \/ AfterRestore
    BY <1>1, <2>2, Destinations DEF Unreplaceable
  <2>. QED
    BY <1>4, <2>1, <2>2 DEF InspectArchives
<1>5. CASE UnlinkSummary
  <2>1. UNCHANGED <<live, archive>> /\ pc = "unlink-summaries"
        /\ pc' \in {"unlink-summaries", "move-out"}
    BY <1>5 DEF UnlinkSummary, control
  <2>. QED
    BY <1>0, <2>1 DEF CheckedInv
<1>6. CASE MoveOut
  <2>1. CASE pc' = "rm-archives"
    BY <1>1, <2>1 DEF Unreplaceable
  <2>2. ASSUME pc' = pc, NEW n \in Archives, NEW m \in archive[n].messages,
               live' = live \cup {m}, archive' = [archive EXCEPT ![n].messages = @ \ {m}]
        PROVE  CheckedInv'
    <3>1. Archived' = Archived \ {m} /\ pc = "move-out"
      BY <1>6, <2>2, TakenOut DEF MoveOut
    <3>. QED
      BY <2>2, <3>1 DEF CheckedInv
  <2>. QED
    BY <1>6, <2>1, <2>2 DEF MoveOut, control
<1>7. CASE RemoveStaging \/ RemoveArchive
  <2>1. pc' \in {"rm-staging", "rm-archives"} \/ AfterRecovery \/ AfterRestore
    BY <1>7 DEF RemoveStaging, RemoveArchive, control
  <2>. QED
    BY <1>1, <2>1, Destinations DEF Unreplaceable
<1>8. CASE Append
  <2>1. pc' = pc /\ pc \notin Unreplaceable
    BY <1>8 DEF Append, control, NobodyWritesBack
  <2>. QED
    BY <1>1, <2>1
<1>9. CASE MoveIn
  <2>1. pc' \in {"move-in", "manifest"}
    BY <1>9 DEF MoveIn, control
  <2>. QED
    BY <1>1, <2>1 DEF Unreplaceable
<1>10. CASE (\E c \in Command : Begin(c)) \/ Inspect \/ Reinspect \/ DecideAutomatic
            \/ RolledBack \/ Interrupt
  BY <1>1, <1>10 DEF Begin, Inspect, Reinspect, DecideAutomatic, RolledBack, Interrupt,
                     Unreplaceable
<1>11. CASE Capture \/ ScanTurns \/ Check \/ MakeStaging
            \/ WriteManifest \/ WriteStagedSummary \/ CommitArchive \/ WriteLiveSummary
  BY <1>1, <1>11 DEF Capture, ScanTurns, Check, AssertGeneration, MakeStaging,
                     WriteManifest, WriteStagedSummary, CommitArchive, WriteLiveSummary,
                     Unreplaceable
<1>12. CASE UNCHANGED vars
  <2>1. UNCHANGED <<pc, live, staging, archive>>
    BY <1>12 DEF vars, files, control
  <2>. QED
    BY <1>0, <2>1 DEF CheckedInv
<1>. QED
  BY <1>2, <1>3, <1>4, <1>5, <1>6, <1>7, <1>8, <1>9, <1>10, <1>11, <1>12 DEF Next, Step

------------------------------------------------------------------------------
(* Copies *)

\* What a step does to the copies of the messages: nothing, or one is written,
\* or one that comes back replaces the one that is there.
Relocates == written' = written /\ \A x \in Message : Copies(x)' = Copies(x)
Creates == \E m \in Message :
  /\ written' = [written EXCEPT ![m] = @ + 1]
  /\ \A x \in Message : Copies(x)' = Copies(x) + In(x = m)
Replaces ==
  /\ written' = written
  /\ \A x \in Message : Copies(x)' <= Copies(x) /\ (Copies(x) > 0 => Copies(x)' > 0)

LEMMA NextCopies ==
  ASSUME TypeOK, FolderInv, StageInv, PlanInv, [Next]_vars, TypeOK', FolderInv'
  PROVE  /\ Relocates \/ Creates \/ Replaces
         /\ CheckedInv => Relocates \/ Creates
<1>. USE DEF At, Goto, End
<1>1. Placed
  BY EveryPlace
<1>2. Placed'
  <2>1. (TypeOK /\ FolderInv => Placed)'
    BY EveryPlace, PTL
  <2>. QED
    BY <2>1
<1>3. ASSUME written' = written,
             \A m \in Message :
               In(m \in live') + In(m \in staging'.messages) + In(m \in Archived')
                 = In(m \in live) + In(m \in staging.messages) + In(m \in Archived)
      PROVE  Relocates
  BY <1>1, <1>2, <1>3 DEF Placed, Relocates
<1>4. ASSUME Calm, live' = live, staging'.messages = staging.messages, Archived' = Archived
      PROVE  Relocates
  BY <1>3, <1>4 DEF Calm
<1>5. ASSUME UNCHANGED archive PROVE Archived' = Archived
  BY <1>5 DEF Archived
<1>6. CASE Looking \/ UNCHANGED vars
  <2>1. UNCHANGED files /\ written' = written
    BY <1>6, LookingFiles DEF Looking, vars, Begin, Inspect, Reinspect, DecideAutomatic,
       InspectStaging, RolledBack, InspectArchives, Capture, ScanTurns, Check,
       AssertGeneration, Interrupt, Calm
  <2>. QED
    BY <1>3, <1>5, <2>1 DEF files
<1>7. CASE Rollback
  <2>1. PICK m \in staging.messages :
          live' = live \cup {m} /\ staging' = [staging EXCEPT !.messages = @ \ {m}]
    BY <1>7 DEF Rollback
  <2>2. staging'.messages = staging.messages \ {m} /\ (CheckedInv => m \notin live)
    BY <1>7, <2>1 DEF Rollback, TypeOK, Folder, CheckedInv
  <2>3. Archived' = Archived /\ written' = written
    BY <1>5, <1>7 DEF Rollback, Calm
  <2>4. m \notin live => Relocates
    BY <1>3, <2>1, <2>2, <2>3 DEF In
  <2>5. Replaces
    BY <1>1, <1>2, <2>1, <2>2, <2>3 DEF Placed, Replaces, In
  <2>. QED
    BY <2>2, <2>4, <2>5
<1>8. CASE RemoveStaging
  <2>1. staging.messages = {} /\ staging' \in Emptied(staging)
    BY <1>8 DEF RemoveStaging, StageInv
  <2>2. staging'.messages = {}
    BY <2>1, EmptiedIs DEF TypeOK
  <2>. QED
    BY <1>4, <1>5, <1>8, <2>1, <2>2 DEF RemoveStaging
<1>9. CASE UnlinkSummary \/ WriteLiveSummary
  BY <1>4, <1>5, <1>9 DEF UnlinkSummary, WriteLiveSummary
<1>10. CASE MoveOut
  <2>1. CASE UNCHANGED <<live, archive>>
    BY <1>4, <1>5, <1>10, <2>1 DEF MoveOut
  <2>2. ASSUME NEW n \in Archives, NEW m \in archive[n].messages,
               live' = live \cup {m}, archive' = [archive EXCEPT ![n].messages = @ \ {m}]
        PROVE  Replaces /\ (CheckedInv => Relocates)
    <3>1. Archived' = Archived \ {m} /\ m \in Archived /\ (CheckedInv => m \notin live)
      BY <1>10, <2>2, TakenOut, TheArchive DEF MoveOut, CheckedInv
    <3>2. staging' = staging /\ written' = written
      BY <1>10 DEF MoveOut, Calm
    <3>3. m \notin live => Relocates
      BY <1>3, <2>2, <3>1, <3>2 DEF In
    <3>4. Replaces
      BY <1>1, <1>2, <2>2, <3>1, <3>2 DEF Placed, Replaces, In
    <3>. QED
      BY <3>1, <3>3, <3>4
  <2>. QED
    BY <1>10, <2>1, <2>2 DEF MoveOut
<1>11. CASE RemoveArchive
  <2>0. PICK n \in Archives :
          \E f \in Emptied(archive[n]) : archive' = [archive EXCEPT ![n] = f]
    BY <1>11 DEF RemoveArchive
  <2>1. PICK f \in Emptied(archive[n]) : archive' = [archive EXCEPT ![n] = f]
    BY <2>0
  <2>2. n \in Index /\ archive[n] \in Folder /\ archive[n].messages = {} /\ Archived = {}
    BY <1>11 DEF RemoveArchive, Archives, StageInv, Archived, TypeOK
  <2>3. f.messages = {}
    BY <2>2, EmptiedIs
  <2>4. Archived' = {}
    BY <2>1, <2>2, <2>3 DEF Archived, TypeOK
  <2>. QED
    BY <1>4, <1>11, <2>2, <2>4 DEF RemoveArchive
<1>12. CASE MakeStaging
  <2>1. staging.messages = {}
    BY <1>12, Folders DEF MakeStaging, StageInv, TypeOK
  <2>2. staging' = staging \/ staging' = [NoFolder EXCEPT !.exists = TRUE]
    BY <1>12 DEF MakeStaging
  <2>3. staging'.messages = {}
    BY <2>1, <2>2 DEF NoFolder
  <2>. QED
    BY <1>4, <1>5, <1>12, <2>1, <2>3 DEF MakeStaging
<1>13. CASE MoveIn
  <2>1. PICK m \in plan.messages \ staging.messages :
          live' = live \ {m} /\ staging' = [staging EXCEPT !.messages = @ \cup {m}]
    BY <1>13 DEF MoveIn
  <2>2. staging'.messages = staging.messages \cup {m} /\ m \in live
    BY <1>13, <2>1 DEF MoveIn, TypeOK, Folder, PlanInv
  <2>3. Archived' = Archived /\ written' = written
    BY <1>5, <1>13 DEF MoveIn, Calm
  <2>. QED
    BY <1>3, <2>1, <2>2, <2>3 DEF In
<1>14. CASE WriteManifest \/ WriteStagedSummary
  <2>1. staging'.messages = staging.messages
    BY <1>14 DEF WriteManifest, WriteStagedSummary, TypeOK, Folder
  <2>. QED
    BY <1>4, <1>5, <1>14, <2>1 DEF WriteManifest, WriteStagedSummary
<1>15. CASE CommitArchive
  <2>. DEFINE n == Max(Turns(plan.messages))
  <2>1. /\ staging.exists /\ archive' = [archive EXCEPT ![n] = staging]
        /\ staging' = NoFolder /\ live' = live /\ written' = written
        /\ plan.messages # {}
    BY <1>15 DEF CommitArchive, StageInv, PlanInv, Planned, Calm
  <2>2. Archives = {} /\ n \in Index
    BY <2>1, Named DEF FolderInv
  <2>. HIDE DEF n
  <2>3. archive'[n] = staging /\ \A k \in Index \ {n} : archive'[k].messages = {}
    BY <2>1, <2>2, Folders DEF Archives, TypeOK
  <2>4. Archived' = staging.messages
    BY <2>2, <2>3 DEF Archived
  <2>5. Archived = {} /\ staging'.messages = {}
    BY <2>1, <2>2, TheArchive, Folders
  <2>. QED
    BY <1>3, <2>1, <2>4, <2>5 DEF In
<1>16. CASE Append
  <2>1. PICK m \in Message \ live :
          live' = live \cup {m} /\ written' = [written EXCEPT ![m] = @ + 1]
    BY <1>16 DEF Append
  <2>2. Archived' = Archived /\ staging' = staging
    BY <1>5, <1>16 DEF Append
  <2>3. \A x \in Message : Copies(x)' = Copies(x) + In(x = m)
    BY <1>1, <1>2, <2>1, <2>2 DEF Placed, In
  <2>. QED
    BY <2>1, <2>3 DEF Creates
<1>. QED
  BY <1>6, <1>7, <1>8, <1>9, <1>10, <1>11, <1>12, <1>13, <1>14, <1>15, <1>16
  DEF Next, Step, Looking

\* Without any assumption: no name vanishes, and there are never more copies of
\* it than were written.
NamesKept == \A m \in Message :
  Copies(m) <= written[m] /\ (written[m] > 0 => Copies(m) > 0)

LEMMA NextNamesKept ==
  ASSUME TypeOK, FolderInv, StageInv, PlanInv, NamesKept, [Next]_vars, TypeOK', FolderInv'
  PROVE  NamesKept'
<1>1. \A x \in Message : Copies(x) \in Nat /\ written[x] \in Nat
  BY CopiesAre DEF In, TypeOK
<1>2. CASE Relocates
  BY <1>2 DEF Relocates, NamesKept
<1>3. CASE Replaces
  <2>1. \A x \in Message : Copies(x)' \in Int
    <3>1. (TypeOK /\ FolderInv => Placed)'
      BY EveryPlace, PTL
    <3>. QED
      BY <3>1 DEF Placed, In
  <2>2. ASSUME NEW x \in Message
        PROVE  Copies(x)' <= written'[x] /\ (written'[x] > 0 => Copies(x)' > 0)
    BY <1>1, <1>3, <2>1, <2>2 DEF Replaces, NamesKept
  <2>. QED
    BY <2>2 DEF NamesKept
<1>4. CASE Creates
  <2>1. PICK m \in Message :
          /\ written' = [written EXCEPT ![m] = @ + 1]
          /\ \A x \in Message : Copies(x)' = Copies(x) + In(x = m)
    BY <1>4 DEF Creates
  <2>2. \A x \in Message : written'[x] = written[x] + In(x = m)
    BY <1>1, <2>1 DEF In, TypeOK
  <2>. QED
    BY <1>1, <2>1, <2>2 DEF NamesKept, In
<1>. QED
  BY <1>2, <1>3, <1>4, NextCopies

LEMMA NextNothingLost ==
  ASSUME TypeOK, FolderInv, StageInv, PlanInv, CheckedInv, NothingLost, [Next]_vars,
         TypeOK', FolderInv'
  PROVE  NothingLost'
<1>1. CASE Relocates
  BY <1>1 DEF Relocates, NothingLost
<1>2. CASE Creates
  <2>1. PICK m \in Message :
          /\ written' = [written EXCEPT ![m] = @ + 1]
          /\ \A x \in Message : Copies(x)' = Copies(x) + In(x = m)
    BY <1>2 DEF Creates
  <2>2. \A x \in Message : written'[x] = written[x] + In(x = m)
    BY <2>1 DEF In, TypeOK
  <2>. QED
    BY <2>1, <2>2 DEF NothingLost
<1>. QED
  BY <1>1, <1>2, NextCopies

LEMMA Classified ==
  ASSUME TypeOK, FolderInv, NamesKept
  PROVE  OnlyTornRemovalIsInvalid
<1>. SUFFICES ASSUME Condition = "invalid", \A m \in Message : ~(written[m] > 1)
             PROVE  \E n \in Archives : archive[n].manifest = {} /\ Archived = {}
  BY DEF OnlyTornRemovalIsInvalid
<1>1. ASSUME NEW m \in Message
      PROVE  /\ ~(m \in live /\ m \in staging.messages)
             /\ ~(m \in live /\ m \in Archived)
  <2>1. Copies(m) = In(m \in live) + In(m \in staging.messages) + In(m \in Archived)
    BY CopiesAre
  <2>2. Copies(m) <= written[m] /\ written[m] \in Nat /\ ~(written[m] > 1)
    BY DEF NamesKept, TypeOK
  <2>. QED
    BY <2>1, <2>2 DEF In
<1>2. live \subseteq Message
  BY DEF TypeOK
<1>3. StagingRecoverable /\ Archived \cap live = {}
  BY <1>1, <1>2 DEF StagingRecoverable
<1>4. ~ArchivesValid
  BY <1>3 DEF Condition, FolderInv
<1>5. PICK n \in Archives : archive[n].manifest = {}
  BY <1>3, <1>4 DEF ArchivesValid, FolderInv
<1>6. Turns(archive[n].messages) = {}
  BY <1>5 DEF FolderInv
<1>7. archive[n].messages = {}
  BY <1>6 DEF Turns
<1>8. Archived = {}
  BY <1>7, TheArchive
<1>. QED
  BY <1>5, <1>8

------------------------------------------------------------------------------
(* Turns stay whole *)

\* The stages between the last comparison of the conversation and the summary.
Moving == {"mkdir", "move-in", "manifest", "staged-summary", "commit", "live-summary"}
NobodyWritesMeanwhile == Open \cap Moving = {}

Complete == \A n \in Archives : summary[n] # {}

\* No turn is on both sides of a complete archive.
Apart == Complete => Turns(live) \cap Turns(Archived) = {}

\* The plan takes whole turns only: of the messages that were live when it was
\* made, then of those that are.
PlanWhole ==
  /\ pc \in {"scan", "summarise", "assert"} => plan.generation[1] \subseteq live
  /\ pc \in {"summarise", "assert"} =>
       \A m \in plan.generation[1] : m.idx \in Turns(plan.messages) => m \in plan.messages
  /\ pc = "mkdir" => \A m \in live : m.idx \in Turns(plan.messages) => m \in plan.messages
  /\ pc = "move-in" =>
       \A m \in live : m.idx \in Turns(plan.messages) => m \in plan.messages \ staging.messages
  /\ pc \in {"manifest", "staged-summary", "commit", "live-summary"} =>
       Turns(live) \cap Turns(plan.messages) = {}

\* A new turn is numbered past the summary, which is past every archived turn.
LEMMA NumberedPast ==
  ASSUME TypeOK, FolderInv, Complete
  PROVE  NextIndex \notin Turns(Archived)
<1>. SUFFICES ASSUME NextIndex \in Turns(Archived)
             PROVE  FALSE
  OBVIOUS
<1>1. PICK n \in Index : NextIndex \in Turns(archive[n].messages)
  BY DEF Archived, Turns
<1>2. archive[n] \in Folder /\ n \in Archives
  BY <1>1, Folders DEF TypeOK, Archives, Turns
<1>3. archive[n].manifest \in SUBSET Index /\ NextIndex \in archive[n].manifest
  BY <1>1, <1>2 DEF Folder, FolderInv
<1>4. NextIndex <= n
  <2>1. Max(archive[n].manifest) = n
    BY <1>2, <1>3 DEF FolderInv
  <2>. QED
    BY <1>3, <2>1, MaxOf
<1>. DEFINE taken == Turns(live) \cup {k \in Index : summary[k] # {}}
<1>5. n \in taken /\ taken \in SUBSET Index
  BY <1>2, TurnsOf DEF Complete, TypeOK
<1>6. NextIndex = 1 + Max(taken)
  BY <1>2, <1>5 DEF NextIndex, Complete
<1>7. Max(taken) \in Index /\ n <= Max(taken)
  <2>. HIDE DEF taken
  <2>. QED
    BY <1>5, MaxOf
<1>. QED
  BY <1>4, <1>6, <1>7, ConstantsAssumption DEF Index

LEMMA NextApart ==
  ASSUME TypeOK, FolderInv, StageInv, PlanInv, SummaryStandsForArchive, Apart,
         PlanWhole, [Next]_vars, TypeOK', FolderInv'
  PROVE  Apart'
<1>. USE DEF At, Apart
<1>1. ASSUME Archived' = {} PROVE Apart'
  BY <1>1 DEF Apart, Turns
<1>2. ASSUME UNCHANGED <<live, archive>>, Complete' => Complete
      PROVE  Apart'
  BY <1>2 DEF Apart, Archived, Turns
<1>3. (Archives = {})' => Archived' = {}
  BY Folders DEF Archived, Archives, TypeOK
<1>4. CASE Looking \/ RemoveStaging \/ UnlinkSummary \/ UNCHANGED vars
  <2>1. UNCHANGED <<live, archive>> /\ (UNCHANGED summary \/ UnlinkSummary)
    BY <1>4, LookingFiles DEF files, vars, RemoveStaging, UnlinkSummary
  <2>2. \A k \in Index : summary'[k] \in {summary[k], {}}
    BY <2>1 DEF UnlinkSummary, TypeOK
  <2>3. Archives' = Archives /\ Archives \subseteq Index
    BY <2>1 DEF Archives
  <2>. QED
    BY <1>2, <2>1, <2>2, <2>3 DEF Complete
<1>5. CASE Rollback
  <2>1. staging.exists /\ UNCHANGED archive
    BY <1>5 DEF Rollback, StageInv
  <2>2. Archived' = {}
    BY <2>1, TheArchive DEF FolderInv, Archived
  <2>. QED
    BY <1>1, <2>2
<1>6. CASE MoveIn \/ WriteManifest \/ WriteStagedSummary
  <2>1. staging.exists /\ UNCHANGED archive
    BY <1>6 DEF MoveIn, WriteManifest, WriteStagedSummary, StageInv
  <2>2. Archived' = {}
    BY <2>1, TheArchive DEF FolderInv, Archived
  <2>. QED
    BY <1>1, <2>2
<1>7. CASE MakeStaging
  <2>1. Archives = {} /\ UNCHANGED archive
    BY <1>7 DEF MakeStaging, StageInv
  <2>2. Archived' = {}
    BY <2>1, TheArchive DEF Archived
  <2>. QED
    BY <1>1, <2>2
<1>8. CASE MoveOut
  <2>1. Archives # {} /\ UNCHANGED summary /\ \A k \in Index : summary[k] = {}
    BY <1>8 DEF MoveOut, StageInv
  <2>2. CASE UNCHANGED <<live, archive>>
    BY <1>2, <2>1, <2>2 DEF Complete, Archives
  <2>3. ASSUME NEW n \in Archives, NEW m, archive' = [archive EXCEPT ![n].messages = @ \ {m}]
        PROVE  ~Complete'
    <3>1. n \in Index /\ archive[n] \in Folder /\ archive[n].exists
      BY DEF TypeOK, Archives
    <3>2. archive'[n] = [archive[n] EXCEPT !.messages = @ \ {m}]
      BY <2>3, <3>1 DEF TypeOK
    <3>3. archive'[n].exists
      BY <3>1, <3>2 DEF Folder
    <3>. QED
      BY <2>1, <3>1, <3>3 DEF Complete, Archives
  <2>. QED
    BY <1>8, <2>2, <2>3 DEF MoveOut
<1>9. CASE RemoveArchive
  <2>0. PICK n \in Archives :
          \E f \in Emptied(archive[n]) : archive' = [archive EXCEPT ![n] = f]
    BY <1>9 DEF RemoveArchive
  <2>1. PICK f \in Emptied(archive[n]) : archive' = [archive EXCEPT ![n] = f]
    BY <2>0
  <2>2. n \in Index /\ archive[n] \in Folder /\ archive[n].messages = {} /\ Archived = {}
    BY <1>9 DEF RemoveArchive, Archives, StageInv, Archived, TypeOK
  <2>3. f.messages = {}
    BY <2>2, EmptiedIs
  <2>4. Archived' = {}
    BY <2>1, <2>2, <2>3 DEF Archived, TypeOK
  <2>. QED
    BY <1>1, <2>4
\* An archive is not complete before its summary is live.
<1>10. CASE CommitArchive
  <2>. DEFINE n == Max(Turns(plan.messages))
  <2>1. /\ staging.exists /\ archive' = [archive EXCEPT ![n] = staging]
        /\ UNCHANGED summary /\ plan.messages # {}
    BY <1>10 DEF CommitArchive, StageInv, PlanInv, Planned
  <2>2. Archives = {} /\ n \in Index
    BY <2>1, Named DEF FolderInv
  <2>. HIDE DEF n
  <2>3. n \in Archives'
    BY <2>1, <2>2 DEF Archives, TypeOK
  <2>4. summary'[n] = {}
    BY <2>1, <2>2 DEF SummaryStandsForArchive, Archives
  <2>. QED
    BY <2>3, <2>4 DEF Complete
<1>11. CASE WriteLiveSummary
  <2>. DEFINE n == Max(Turns(plan.messages))
  <2>1. /\ pc = "live-summary" /\ UNCHANGED <<live, archive>>
        /\ archive[n].exists /\ archive[n].messages = plan.messages /\ plan.messages # {}
    BY <1>11 DEF WriteLiveSummary, PlanInv, Planned
  <2>2. n \in Index
    BY <2>1, Named
  <2>. HIDE DEF n
  <2>3. Archived = plan.messages
    BY <2>1, <2>2, TheArchive DEF Archives
  <2>4. Turns(live) \cap Turns(Archived) = {}
    BY <2>1, <2>3 DEF PlanWhole
  <2>. QED
    BY <2>1, <2>4 DEF Archived, Turns
<1>12. CASE Append
  <2>1. PICK m \in Message \ live :
          /\ live' = live \cup {m}
          /\ m.idx = NextIndex \/ [idx |-> m.idx, part |-> "main"] \in live
    BY <1>12 DEF Append
  <2>2. UNCHANGED <<archive, summary>>
    BY <1>12 DEF Append
  <2>3. Archived' = Archived /\ (Complete' <=> Complete)
    BY <2>2 DEF Archived, Complete, Archives
  <2>4. ASSUME Complete PROVE m.idx \notin Turns(Archived)
    <3>1. CASE m.idx = NextIndex
      BY <2>4, <3>1, NumberedPast
    <3>2. CASE [idx |-> m.idx, part |-> "main"] \in live
      <4>1. m.idx \in Turns(live)
        BY <3>2 DEF Turns
      <4>. QED
        BY <2>4, <4>1
    <3>. QED
      BY <2>1, <3>1, <3>2
  <2>5. Turns(live)' = Turns(live) \cup {m.idx} /\ Turns(Archived)' = Turns(Archived)
    BY <2>1, <2>3 DEF Turns
  <2>. QED
    BY <2>3, <2>4, <2>5
<1>. QED
  BY <1>4, <1>5, <1>6, <1>7, <1>8, <1>9, <1>10, <1>11, <1>12 DEF Next, Step, Looking

Following == {"scan", "summarise", "assert", "mkdir", "move-in", "manifest",
              "staged-summary", "commit", "live-summary"}

LEMMA NextPlanWhole ==
  ASSUME NobodyWritesMeanwhile, TypeOK, PlanInv, PlanWhole, [Next]_vars
  PROVE  PlanWhole'
<1>. USE DEF At, Goto, End
<1>1. ASSUME pc' \notin Following PROVE PlanWhole'
  BY <1>1 DEF PlanWhole, Following
<1>2. CASE (\E c \in Command : Begin(c)) \/ Inspect \/ Reinspect \/ DecideAutomatic
           \/ RolledBack \/ WriteLiveSummary \/ Interrupt
  BY <1>1, <1>2 DEF Begin, Inspect, Reinspect, DecideAutomatic, RolledBack,
                    WriteLiveSummary, Interrupt, Following
<1>3. CASE InspectStaging \/ RemoveStaging \/ InspectArchives \/ RemoveArchive
  <2>1. \/ pc' \in {"idle", "rollback", "unlink-summaries"}
        \/ AfterRecovery \/ AfterRestore
        \/ pc' = pc /\ pc \in {"rm-staging", "rm-archives"}
    BY <1>3 DEF InspectStaging, RemoveStaging, InspectArchives, RemoveArchive, control
  <2>2. pc' \notin Following
    BY <2>1, Destinations DEF Following
  <2>. QED
    BY <1>1, <2>2
<1>4. CASE Rollback \/ UnlinkSummary \/ MoveOut
  <2>1. pc' \in {"rollback", "unlink-summaries", "move-out", "rm-archives"}
    BY <1>4 DEF Rollback, UnlinkSummary, MoveOut, control
  <2>. QED
    BY <1>1, <2>1 DEF Following
<1>5. CASE Capture
  <2>1. plan' = [generation |-> Generation, messages |-> plan.messages,
                 decided |-> plan.decided]
    BY <1>5 DEF Capture, PlanInv, PlanShape
  <2>2. plan'.generation[1] = live /\ live' = live /\ pc' = "scan"
    BY <1>5, <2>1 DEF Generation, Capture, files
  <2>. QED
    BY <2>2 DEF PlanWhole
<1>6. CASE ScanTurns
  <2>1. CASE pc' = "idle"
    BY <1>1, <2>1 DEF Following
  <2>2. ASSUME NEW k \in Keep, pc' = "summarise",
               plan' = [plan EXCEPT !.messages = Selected(k)]
        PROVE  PlanWhole'
    <3>1. plan' = [generation |-> plan.generation, messages |-> Selected(k),
                   decided |-> plan.decided]
      BY <2>2 DEF PlanInv, PlanShape
    <3>2. /\ plan'.messages = Selected(k) /\ plan'.generation = plan.generation
          /\ live' = live /\ plan.generation[1] \subseteq live
      BY <1>6, <3>1 DEF ScanTurns, files, PlanWhole
    <3>3. \A m \in live : m.idx \in Turns(Selected(k)) => m \in Selected(k)
      BY DEF Selected, Turns
    <3>4. Turns(plan.messages)' = Turns(Selected(k))
      BY <3>2 DEF Turns
    <3>. QED
      BY <2>2, <3>2, <3>3, <3>4 DEF PlanWhole
  <2>. QED
    BY <1>6, <2>1, <2>2 DEF ScanTurns
<1>7. CASE Check
  <2>1. live' = live /\ (pc' # "idle" => plan' = plan)
    BY <1>7 DEF Check, AssertGeneration, files
  <2>2. CASE pc = "summarise" /\ pc' = "assert"
    BY <2>1, <2>2 DEF PlanWhole, Turns
  <2>3. CASE pc = "assert" /\ pc' = "mkdir" /\ Generation = plan.generation
    <3>1. plan.generation[1] = live
      BY <2>3 DEF Generation
    <3>. QED
      BY <2>1, <2>3, <3>1 DEF PlanWhole, Turns
  <2>4. CASE pc' = "idle"
    BY <1>1, <2>4 DEF Following
  <2>. QED
    BY <1>7, <2>2, <2>3, <2>4 DEF Check, AssertGeneration
<1>8. CASE MakeStaging
  <2>1. CASE pc' = "idle"
    BY <1>1, <2>1 DEF Following
  <2>2. CASE pc' = "move-in" /\ staging' = [NoFolder EXCEPT !.exists = TRUE]
             /\ UNCHANGED plan
    <3>1. staging'.messages = {} /\ pc = "mkdir" /\ live' = live
      BY <1>8, <2>2 DEF NoFolder, MakeStaging
    <3>. QED
      BY <2>2, <3>1 DEF PlanWhole, Turns
  <2>. QED
    BY <1>8, <2>1, <2>2 DEF MakeStaging
<1>9. CASE MoveIn
  <2>1. PICK m \in plan.messages \ staging.messages :
          /\ live' = live \ {m}
          /\ staging' = [staging EXCEPT !.messages = @ \cup {m}]
          /\ IF plan.messages = staging'.messages THEN Goto("manifest") ELSE UNCHANGED control
    BY <1>9 DEF MoveIn
  <2>2. staging'.messages = staging.messages \cup {m}
    BY <2>1 DEF TypeOK, Folder
  <2>3. pc = "move-in" /\ plan' = plan
        /\ (IF plan.messages = staging'.messages THEN pc' = "manifest" ELSE pc' = "move-in")
    BY <1>9, <2>1 DEF MoveIn, control
  <2>4. \A x \in live' : x.idx \in Turns(plan.messages) => x \in plan.messages \ staging'.messages
    BY <2>1, <2>2, <2>3 DEF PlanWhole
  <2>5. ASSUME plan.messages = staging'.messages
        PROVE  Turns(live') \cap Turns(plan.messages) = {}
    BY <2>4, <2>5 DEF Turns
  <2>6. Turns(plan.messages)' = Turns(plan.messages)
    BY <2>3 DEF Turns
  <2>. QED
    BY <2>3, <2>4, <2>5, <2>6 DEF PlanWhole
<1>10. CASE WriteManifest \/ WriteStagedSummary \/ CommitArchive
  <2>1. /\ pc \in {"manifest", "staged-summary", "commit"}
        /\ pc' \in {"staged-summary", "commit", "live-summary"}
        /\ UNCHANGED <<live, plan>>
    BY <1>10 DEF WriteManifest, WriteStagedSummary, CommitArchive
  <2>. QED
    BY <2>1 DEF PlanWhole, Turns
<1>11. CASE Append
  <2>1. pc' = pc /\ plan' = plan /\ live \subseteq live' /\ pc \notin Moving
    BY <1>11 DEF Append, control, NobodyWritesMeanwhile
  <2>. QED
    BY <2>1 DEF PlanWhole, Moving, Turns
<1>12. CASE UNCHANGED vars
  <2>1. UNCHANGED <<pc, plan, live, staging>>
    BY <1>12 DEF vars, files, control
  <2>. QED
    BY <2>1 DEF PlanWhole, Turns
<1>. QED
  BY <1>2, <1>3, <1>4, <1>5, <1>6, <1>7, <1>8, <1>9, <1>10, <1>11, <1>12 DEF Next, Step

------------------------------------------------------------------------------
(* The theorems *)

Inv ==
  TypeOK /\ FolderInv /\ StageInv /\ PlanInv /\ SummaryStandsForArchive /\ NamesKept

LEMMA Start ==
  ASSUME Init
  PROVE  Inv /\ CheckedInv /\ NothingLost /\ Apart /\ PlanWhole
<1>. USE Folders
<1>1. TypeOK
  BY ConstantsAssumption
  DEF Init, TypeOK, Stage, Command, NoPlan, NoResult
<1>2. Archives = {} /\ Archived = {} /\ ~staging.exists
  BY DEF Init, Archives, Archived
<1>3. FolderInv /\ StageInv /\ PlanInv /\ SummaryStandsForArchive
  BY <1>2 DEF Init, FolderInv, StageInv, PlanInv, PlanShape, Planned, NoPlan,
              SummaryStandsForArchive
<1>4. CheckedInv /\ PlanWhole
  BY DEF Init, CheckedInv, PlanWhole
<1>5. Apart
  BY <1>2 DEF Apart, Turns
<1>6. ASSUME NEW m \in Message PROVE Copies(m) = written[m]
  <2>1. Copies(m) = In(m \in live) + In(m \in staging.messages) + In(m \in Archived)
    BY <1>1, <1>3, CopiesAre
  <2>2. m \notin staging.messages /\ m \notin Archived
    BY <1>2 DEF Init
  <2>3. written[m] = In(m \in live)
    BY DEF Init, In
  <2>. QED
    BY <2>1, <2>2, <2>3 DEF In
<1>7. NamesKept
  BY <1>1, <1>6 DEF NamesKept, TypeOK
<1>. QED
  BY <1>1, <1>3, <1>4, <1>5, <1>6, <1>7 DEF Inv, NothingLost

LEMMA Invariance == Spec => []Inv
<1>1. Init => Inv
  BY Start
<1>2. Inv /\ [Next]_vars => Inv'
  <2>. SUFFICES ASSUME Inv, [Next]_vars PROVE Inv'
    OBVIOUS
  <2>1. TypeOK'
    BY NextType DEF Inv
  <2>2. FolderInv' /\ SummaryStandsForArchive'
    BY NextFolders DEF Inv
  <2>3. StageInv'
    BY NextStages DEF Inv
  <2>4. PlanInv'
    BY NextPlan DEF Inv
  <2>5. NamesKept'
    BY <2>1, <2>2, NextNamesKept DEF Inv
  <2>. QED
    BY <2>1, <2>2, <2>3, <2>4, <2>5 DEF Inv
<1>. QED
  BY <1>1, <1>2, PTL DEF Spec

\* Every variable keeps its type; only a folder that exists has contents, and an
\* operation is in progress exactly outside the idle stage.
THEOREM TypeCorrect == Spec => []TypeOK
<1>1. Inv => TypeOK
  BY DEF Inv
<1>. QED
  BY <1>1, Invariance, PTL

\* A summary is live only while its archive holds all that it summarises, at every
\* step of every operation, wherever one was interrupted, and whenever other
\* programs write.
THEOREM SummaryIsBacked == Spec => []SummaryStandsForArchive
<1>1. Inv => SummaryStandsForArchive
  BY DEF Inv
<1>. QED
  BY <1>1, Invariance, PTL

\* Whoever writes and whenever, and wherever operations are interrupted: no name
\* vanishes, and a message that was written once is in exactly one place.
THEOREM NamesConserved ==
  Spec => [](NamesKept /\ \A m \in Message : written[m] = 1 => Copies(m) = 1)
<1>1. Inv => NamesKept /\ \A m \in Message : written[m] = 1 => Copies(m) = 1
  <2>. SUFFICES ASSUME Inv, NEW m \in Message, written[m] = 1
               PROVE  Copies(m) = 1
    BY DEF Inv
  <2>1. Copies(m) \in Nat
    BY CopiesAre DEF Inv, In
  <2>. QED
    BY <2>1 DEF Inv, NamesKept
<1>. QED
  BY <1>1, Invariance, PTL

\* What an operation leaves behind is classified as damaged only after a torn
\* removal, or when a message was written again under the name of one that is
\* put away.
THEOREM LeftoversClassified == Spec => []OnlyTornRemovalIsInvalid
<1>1. Inv => OnlyTornRemovalIsInvalid
  BY Classified DEF Inv
<1>. QED
  BY <1>1, Invariance, PTL

LEMMA Conservation ==
  ASSUME NobodyWritesBack
  PROVE  Spec => [](Inv /\ CheckedInv /\ NothingLost)
<1>1. Init => CheckedInv /\ NothingLost
  BY Start
<1>2. Inv /\ Inv' /\ CheckedInv /\ NothingLost /\ [Next]_vars => (CheckedInv /\ NothingLost)'
  <2>. SUFFICES ASSUME Inv, Inv', CheckedInv, NothingLost, [Next]_vars
               PROVE  CheckedInv' /\ NothingLost'
    OBVIOUS
  <2>1. CheckedInv'
    BY NobodyWritesBack, NextChecked DEF Inv
  <2>2. NothingLost'
    BY NobodyWritesBack, NextNothingLost DEF Inv
  <2>. QED
    BY <2>1, <2>2
<1>. QED
  BY <1>1, <1>2, Invariance, PTL DEF Spec

\* Unless somebody writes between the check that nothing would be replaced and the
\* moves back, no message is ever lost, duplicated or replaced, however often
\* and wherever operations are interrupted and resumed.
THEOREM MessagesConserved ==
  ASSUME NobodyWritesBack
  PROVE  Spec => []NothingLost
BY NobodyWritesBack, Conservation, PTL

\* Unless somebody writes between the last comparison of the conversation and the
\* live summary, no turn is divided between the live conversation and a
\* complete archive.
THEOREM TurnsNotDivided ==
  ASSUME NobodyWritesMeanwhile
  PROVE  Spec => []TurnsStayWhole
<1>1. Init => Apart /\ PlanWhole
  BY Start
<1>2. Inv /\ Inv' /\ Apart /\ PlanWhole /\ [Next]_vars => (Apart /\ PlanWhole)'
  <2>. SUFFICES ASSUME Inv, Inv', Apart, PlanWhole, [Next]_vars
               PROVE  Apart' /\ PlanWhole'
    OBVIOUS
  <2>1. Apart'
    BY NextApart DEF Inv
  <2>2. PlanWhole'
    BY NobodyWritesMeanwhile, NextPlanWhole DEF Inv
  <2>. QED
    BY <2>1, <2>2
<1>3. Apart => TurnsStayWhole
  BY DEF Apart, Complete, TurnsStayWhole, Condition
<1>. QED
  BY <1>1, <1>2, <1>3, Invariance, PTL DEF Spec
==============================================================================
