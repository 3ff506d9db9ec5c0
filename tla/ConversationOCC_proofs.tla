------------------------ MODULE ConversationOCC_proofs ------------------------
(***************************************************************************)
(* Proofs about ConversationOCC for any set of writers, any operations and *)
(* conditions, any number of indexes, and any crashes: one holder of the   *)
(* claim, nothing overwritten, the abstract log implemented, and what a    *)
(* turn may leave behind.                                                  *)
(***************************************************************************)
EXTENDS ConversationOCC, TLAPS

LEMMA IndexFacts ==
  /\ Index \subseteq Nat
  /\ 0 \in Index
  /\ Exhausted \notin Index
BY ConstantsAssumption DEF Index, Exhausted

\* The empty and the seeded directory are directories.
LEMMA StartDirectories ==
  EmptyDirectory \in Directory /\ SeededDirectory \in Directory
<1>1. EmptyDirectory \in Directory
  BY DEF EmptyDirectory, Directory
<1>2. Seed \in Author \cup {Nobody} /\ "user" \in Kind
  BY DEF Author, Kind
<1>3. SeededDirectory \in Directory
  BY <1>1, <1>2, IndexFacts DEF SeededDirectory, Directory
<1>. QED
  BY <1>1, <1>3

LEMMA InitTypeOK == Init => TypeOK
<1>. SUFFICES ASSUME Init PROVE TypeOK
  OBVIOUS
<1>1. file \in Directory
  BY StartDirectories DEF Init
<1>2. [snap |-> EmptyDirectory, next |-> 0] \in State
  BY StartDirectories, IndexFacts DEF State
<1>3. [snap |-> EmptyDirectory, next |-> 0] \in [snap : Directory, next : Index]
  BY StartDirectories, IndexFacts
<1>4. pc \in [Writer -> Stage]
  BY DEF Init, Stage
<1>. QED
  BY <1>1, <1>2, <1>3, <1>4, StartDirectories DEF Init, TypeOK


------------------------------------------------------------------------------
(* Type correctness, one lemma per shape of step *)

LEMMA ScanTypeOK ==
  ASSUME TypeOK, NEW p \in Writer, NEW from, NEW to \in Stage, NEW t,
         NEW onFailure \in Stage, Scan(p, from, to, t, onFailure)
  PROVE  TypeOK'
<1>1. \A n \in Index : [snap |-> file, next |-> n] \in [snap : Directory, next : Index]
  BY DEF TypeOK
<1>2. obs' \in [Writer -> [snap : Directory, next : Index]]
  BY <1>1 DEF Scan, TypeOK
<1>3. \/ pc' = [pc EXCEPT ![p] = to] /\ out' = out
      \/ pc' = [pc EXCEPT ![p] = onFailure] /\ out' = [out EXCEPT ![p] = "error"]
  BY DEF Scan, Goto, Finish
<1>4. pc' \in [Writer -> Stage]
  BY <1>3 DEF TypeOK
<1>5. out' \in [Writer -> {"none", "ok", "conflict", "error"}]
  BY <1>3 DEF TypeOK
<1>. QED
  BY <1>2, <1>4, <1>5 DEF Scan, TypeOK

LEMMA UnstableTypeOK ==
  ASSUME TypeOK, NEW p \in Writer, NEW from, NEW onFailure \in Stage,
         Unstable(p, from, onFailure)
  PROVE  TypeOK'
BY DEF Unstable, TypeOK, Goto, Finish

LEMMA SeenType ==
  ASSUME TypeOK, NEW p \in Writer
  PROVE  Seen(p) \in [snap : Directory, next : Index]
BY DEF TypeOK, Seen

LEMMA VerifyTypeOK ==
  ASSUME TypeOK, NEW p \in Writer, NEW from, NEW onSuccess \in Stage,
         NEW onFailure \in Stage, Verify(p, from, onSuccess, onFailure)
  PROVE  TypeOK'
<1>1. obs' \in [Writer -> [snap : Directory, next : Index]]
  BY SeenType DEF Verify, TypeOK
<1>2. pc' \in [Writer -> Stage] /\ out' \in [Writer -> {"none", "ok", "conflict", "error"}]
  BY DEF Verify, TypeOK, Goto, Finish
<1>. QED
  BY <1>1, <1>2 DEF Verify, TypeOK

LEMMA CompletedType ==
  ASSUME TypeOK, NEW p \in Writer, Completed(p)
  PROVE  /\ pc' \in [Writer -> Stage]
         /\ turn' \in [Writer -> {"user", "assistant"}]
         /\ out' \in [Writer -> {"none", "ok", "conflict", "error"}]
BY DEF Completed, TypeOK, Goto, Finish, Stage

LEMMA WriteTypeOK ==
  ASSUME TypeOK, NEW p \in Writer, Write(p)
  PROVE  TypeOK'
<1>. PICK k \in todo[p] :
       /\ file' = [file EXCEPT ![obs[p].next][k] = p]
       /\ todo' = [todo EXCEPT ![p] = @ \ {k}]
       /\ IF todo[p] = {k} THEN Completed(p) ELSE UNCHANGED <<pc, turn, out>>
  BY DEF Write
<1>1. k \in Kind /\ p \in Author /\ obs[p].next \in Index
  BY DEF TypeOK, Kind, Author
<1>2. file' \in Directory
  BY <1>1 DEF TypeOK, Directory
<1>3. todo' \in [Writer -> SUBSET (AssistantKind \cup {"user"})]
  BY DEF TypeOK
<1>4. /\ pc' \in [Writer -> Stage]
      /\ turn' \in [Writer -> {"user", "assistant"}]
      /\ out' \in [Writer -> {"none", "ok", "conflict", "error"}]
  BY CompletedType DEF TypeOK
<1>. QED
  BY <1>2, <1>3, <1>4 DEF Write, TypeOK

LEMMA StepTypeOK ==
  ASSUME TypeOK, NEW p \in Writer, Step(p)
  PROVE  TypeOK'
<1>. USE DEF Goto, Finish, Stage
<1>1. CASE Start(p)
  <2>1. \A n \in Index \cup {Exhausted} : [snap |-> file, next |-> n] \in State
    BY DEF State, TypeOK
  <2>2. exp' \in [Writer -> State]
    BY <1>1, <2>1 DEF Start, TypeOK
  <2>. QED
    BY <1>1, <2>2 DEF Start, TypeOK
<1>2. CASE Preflight(p)
  BY <1>2, ScanTypeOK, UnstableTypeOK, VerifyTypeOK DEF Preflight, AfterPreflight
<1>3. CASE Read(p)
  BY <1>3 DEF Read, TypeOK
<1>4. CASE Answer(p)
  <2>1. todo' \in [Writer -> SUBSET (AssistantKind \cup {"user"})]
    BY <1>4, ConstantsAssumption DEF Answer, TypeOK
  <2>. QED
    BY <1>4, <2>1 DEF Answer, TypeOK
<1>6. CASE Acquire(p)
  BY <1>6 DEF Acquire, TypeOK
<1>7. CASE Recheck(p)
  BY <1>7, ScanTypeOK, UnstableTypeOK, VerifyTypeOK DEF Recheck
<1>8. CASE CheckCollision(p)
  BY <1>8, CompletedType DEF CheckCollision, TypeOK, Leave
<1>9. CASE Write(p)
  BY <1>9, WriteTypeOK
<1>10. CASE Derive(p)
  <2>1. CASE pc[p] = "derive-verify" /\ exp' = [exp EXCEPT ![p] = Seen(p)]
             /\ Goto(p, "release")
             /\ UNCHANGED <<file, claim, turn, obs, prompt, todo, out>>
    <3>1. Seen(p) \in State
      BY SeenType DEF State
    <3>. QED
      BY <2>1, <3>1 DEF TypeOK
  <2>. QED
    BY <1>10, <2>1, ScanTypeOK, UnstableTypeOK DEF Derive
<1>11. CASE Release(p)
  BY <1>11 DEF Release, TypeOK
<1>. QED
  BY <1>1, <1>2, <1>3, <1>4, <1>6, <1>7, <1>8, <1>9, <1>10, <1>11 DEF Step

LEMMA PlainTypeOK ==
  ASSUME TypeOK, NEW p \in Plain, PlainAllocate(p)
  PROVE  TypeOK'
<1>1. obs' \in [Writer -> [snap : Directory, next : Index]]
  BY DEF PlainAllocate, Plain, TypeOK
<1>. QED
  BY <1>1 DEF PlainAllocate, Plain, Goto, Finish, Stage, TypeOK

LEMMA FaultTypeOK ==
  ASSUME TypeOK, NEW p \in Writer, Fault(p)
  PROVE  TypeOK'
BY DEF Fault, AcquireFails, WriteFails, ReleaseFails, Crash, Goto, Finish,
       Stage, TypeOK, Leave

LEMMA ToolResultTypeOK ==
  ASSUME TypeOK, NEW i \in ToolIndex, ToolResult(i)
  PROVE  TypeOK'
<1>1. Tool \in Author /\ "result" \in Kind
  BY DEF Author, Kind
<1>2. file' \in Directory
  BY <1>1 DEF ToolResult, ToolIndex, TypeOK, Directory
<1>. QED
  BY <1>2 DEF ToolResult, TypeOK

\* Every reachable state is well typed; in particular no writer ever holds an
\* index beyond MAX_CONVERSATION_INDEX to write at.
THEOREM TypeCorrect == Spec => []TypeOK
<1>1. TypeOK /\ [Next]_vars => TypeOK'
  <2>. SUFFICES ASSUME TypeOK, [Next]_vars PROVE TypeOK'
    OBVIOUS
  <2>1. CASE OperatorRemovesClaim
    BY <2>1 DEF OperatorRemovesClaim, TypeOK
  <2>2. CASE UNCHANGED vars
    BY <2>2 DEF vars, TypeOK
  <2>. QED
    BY <2>1, <2>2, StepTypeOK, PlainTypeOK, FaultTypeOK, ToolResultTypeOK DEF Next
<1>. QED
  BY <1>1, InitTypeOK, PTL DEF Spec

------------------------------------------------------------------------------
(* The claim *)

\* A writer in its critical section is the one the claim file names.
HoldsClaim == \A p \in Writer : InCritical(p) => claim = p

LEMMA HolderIsAlone == HoldsClaim => ClaimExclusion
BY DEF HoldsClaim, ClaimExclusion

LEMMA StepHoldsClaim ==
  ASSUME TypeOK, HoldsClaim, NEW p \in Writer, Step(p)
  PROVE  HoldsClaim'
<1>. USE DEF HoldsClaim, InCritical, Goto, Finish, TypeOK
<1>1. CASE Acquire(p)
  <2>1. \A q \in Writer : q # Nobody
    BY ConstantsAssumption DEF Author
  <2>. QED
    BY <1>1, <2>1 DEF Acquire
<1>2. CASE Release(p)
  BY <1>2 DEF Release
<1>3. CASE Start(p) \/ Read(p) \/ Answer(p)
  BY <1>3 DEF Start, Read, Answer
<1>7. CASE Preflight(p)
  BY <1>7 DEF Preflight, AfterPreflight, Scan, Unstable, Verify
<1>4. CASE Recheck(p) \/ Derive(p)
  BY <1>4 DEF Recheck, Derive, Scan, Unstable, Verify
<1>5. CASE CheckCollision(p)
  BY <1>5 DEF CheckCollision, Completed, Leave
<1>6. CASE Write(p)
  BY <1>6 DEF Write, Completed
<1>. QED
  BY <1>1, <1>2, <1>3, <1>4, <1>5, <1>6, <1>7 DEF Step

LEMMA NextHoldsClaim == TypeOK /\ HoldsClaim /\ [Next]_vars => HoldsClaim'
<1>. SUFFICES ASSUME TypeOK, HoldsClaim, [Next]_vars PROVE HoldsClaim'
  OBVIOUS
<1>1. \A q \in Writer : q # Nobody
  BY ConstantsAssumption DEF Author
<1>2. ASSUME NEW p \in Writer, Fault(p) PROVE HoldsClaim'
  BY <1>1, <1>2 DEF Fault, AcquireFails, WriteFails, ReleaseFails, Crash, Goto,
     Finish, Leave, HoldsClaim, InCritical, TypeOK
<1>3. CASE OperatorRemovesClaim
  BY <1>3 DEF OperatorRemovesClaim, HoldsClaim, InCritical, TypeOK
<1>4. ASSUME NEW p \in Plain, PlainAllocate(p) PROVE HoldsClaim'
  BY <1>4 DEF PlainAllocate, Plain, Goto, Finish, HoldsClaim, InCritical, TypeOK
<1>5. ASSUME NEW i \in ToolIndex, ToolResult(i) PROVE HoldsClaim'
  BY <1>5 DEF ToolResult, HoldsClaim, InCritical
<1>6. CASE UNCHANGED vars
  BY <1>6 DEF vars, HoldsClaim, InCritical
<1>. QED
  BY <1>2, <1>3, <1>4, <1>5, <1>6, StepHoldsClaim DEF Next

LEMMA ClaimHeld == Spec => []HoldsClaim
<1>1. Init => HoldsClaim
  BY DEF Init, HoldsClaim, InCritical
<1>. QED
  BY <1>1, NextHoldsClaim, TypeCorrect, PTL DEF Spec

\* Mutual exclusion of the claim, through crashes, failed releases, plain
\* writers and operators who clean up.
THEOREM Exclusion == Spec => []ClaimExclusion
BY ClaimHeld, HolderIsAlone, PTL

------------------------------------------------------------------------------
(* Cooperative writers overwrite nothing *)

AllCooperative == \A p \in Writer : Cooperative(p)

\* The names a writer still has to write are free.
TargetsFree ==
  \A p \in Writer : pc[p] = "write" =>
    \A k \in todo[p] : file[obs[p].next][k] = Nobody

\* The directory changes by one write of a claim holder, or one tool result.
LEMMA FileChange ==
  ASSUME TypeOK, [Next]_vars
  PROVE  \/ file' = file
         \/ \E p \in Writer, k \in Kind :
              /\ Write(p) /\ k \in todo[p]
              /\ file' = [file EXCEPT ![obs[p].next][k] = p]
         \/ \E i \in Index : ToolResult(i)
<1>1. ASSUME NEW p \in Writer, Step(p)
      PROVE  \/ file' = file
             \/ \E k \in Kind :
                  /\ Write(p) /\ k \in todo[p]
                  /\ file' = [file EXCEPT ![obs[p].next][k] = p]
  <2>1. CASE Write(p)
    BY <2>1 DEF Write, TypeOK, Kind
  <2>. QED
    BY <1>1, <2>1 DEF Step, Start, Preflight, Read, Answer,
       Acquire, Recheck, CheckCollision, Derive, Release, Scan, Unstable, Verify
<1>2. ASSUME NEW p \in Writer, Fault(p) PROVE file' = file
  BY <1>2 DEF Fault, AcquireFails, WriteFails, ReleaseFails, Crash
<1>3. ASSUME NEW p \in Plain, PlainAllocate(p) PROVE file' = file
  BY <1>3 DEF PlainAllocate
<1>4. ToolIndex \subseteq Index
  BY DEF ToolIndex
<1>. QED
  BY <1>1, <1>2, <1>3, <1>4 DEF Next, OperatorRemovesClaim, vars

\* Only the writer at "write" moves obs or todo of a writer that stays there.
LEMMA StepTargetsFree ==
  ASSUME AllCooperative, TypeOK, HoldsClaim, TargetsFree, NEW p \in Writer, Step(p)
  PROVE  TargetsFree'
<1>. SUFFICES ASSUME NEW q \in Writer, pc'[q] = "write", NEW k \in todo'[q]
              PROVE  file'[obs'[q].next][k] = Nobody
  BY DEF TargetsFree
<1>. USE DEF Goto, Finish, TypeOK
<1>1. CASE Write(p)
  <2>1. PICK m \in todo[p] :
          /\ file' = [file EXCEPT ![obs[p].next][m] = p]
          /\ todo' = [todo EXCEPT ![p] = @ \ {m}]
          /\ IF todo[p] = {m} THEN Completed(p) ELSE UNCHANGED <<pc, turn, out>>
    BY <1>1 DEF Write
  <2>2. claim = p /\ pc[p] = "write"
    BY <1>1 DEF Write, HoldsClaim, InCritical, AllCooperative
  <2>3. pc' = pc \/ \E stage \in {"derive", "release"} : pc' = [pc EXCEPT ![p] = stage]
    BY <2>1 DEF Completed, AllCooperative
  <2>4. pc[q] = "write"
    BY <2>3
  <2>5. q = p
    BY <2>2, <2>4 DEF HoldsClaim, InCritical, AllCooperative
  <2>6. k \in todo[p] /\ k # m /\ obs' = obs
    BY <1>1, <2>1, <2>5 DEF Write
  <2>7. obs[p].next \in Index /\ k \in Kind /\ m \in Kind
    BY <2>1, <2>6 DEF Kind
  <2>8. file[obs[p].next][k] = Nobody
    BY <2>2, <2>6 DEF TargetsFree
  <2>. QED
    BY <2>1, <2>5, <2>6, <2>7, <2>8 DEF Directory
<1>2. CASE CheckCollision(p)
  <2>1. file' = file /\ obs' = obs /\ todo' = todo
    BY <1>2 DEF CheckCollision
  <2>2. CASE q = p
    BY <1>2, <2>1, <2>2 DEF CheckCollision, Completed, AllCooperative, Leave
  <2>3. CASE q # p
    <3>1. pc'[q] = pc[q]
      BY <1>2, <2>3 DEF CheckCollision, Completed
    <3>. QED
      BY <2>1, <3>1 DEF TargetsFree
  <2>. QED
    BY <2>2, <2>3
<1>3. ASSUME file' = file, pc' # pc => pc'[p] # "write",
             pc[p] # "write",
             \A r \in Writer \ {p} : /\ pc'[r] = pc[r]
                                     /\ obs'[r] = obs[r] /\ todo'[r] = todo[r],
             pc'[p] # "write"
      PROVE  file'[obs'[q].next][k] = Nobody
  BY <1>3 DEF TargetsFree
<1>4. CASE Start(p) \/ Read(p) \/ Answer(p) \/ Acquire(p) \/ Release(p)
  BY <1>3, <1>4 DEF Start, Read, Answer, Acquire, Release
<1>5. CASE Preflight(p) \/ Recheck(p) \/ Derive(p)
  <2>1. file' = file /\ pc[p] # "write" /\ pc'[p] # "write"
    BY <1>5 DEF Preflight, AfterPreflight, Recheck, Derive, Scan, Unstable, Verify
  <2>2. \A r \in Writer \ {p} : /\ pc'[r] = pc[r]
                                /\ obs'[r] = obs[r] /\ todo'[r] = todo[r]
    BY <1>5 DEF Preflight, Recheck, Derive, Scan, Unstable, Verify
  <2>. QED
    BY <1>3, <2>1, <2>2
<1>. QED
  BY <1>1, <1>2, <1>4, <1>5 DEF Step

LEMMA NextTargetsFree ==
  ASSUME AllCooperative, TypeOK, HoldsClaim, TargetsFree, [Next]_vars
  PROVE  TargetsFree'
<1>1. ASSUME NEW p \in Writer, Fault(p) PROVE TargetsFree'
  BY <1>1 DEF Fault, AcquireFails, WriteFails, ReleaseFails, Crash, Goto,
     Finish, Leave, TypeOK, TargetsFree
<1>2. CASE OperatorRemovesClaim
  BY <1>2 DEF OperatorRemovesClaim, TargetsFree
<1>3. ASSUME NEW i \in ToolIndex, ToolResult(i) PROVE TargetsFree'
  <2>1. \A j \in Index, k \in AssistantKind \cup {"user"} : file'[j][k] = file[j][k]
    BY <1>3 DEF ToolResult, ToolIndex, TypeOK, Directory, Kind, AssistantKind
  <2>2. \A p \in Writer : /\ obs[p].next \in Index
                          /\ todo[p] \subseteq AssistantKind \cup {"user"}
    BY DEF TypeOK
  <2>3. pc' = pc /\ obs' = obs /\ todo' = todo
    BY <1>3 DEF ToolResult
  <2>. QED
    BY <2>1, <2>2, <2>3 DEF TargetsFree
<1>4. CASE UNCHANGED vars
  BY <1>4 DEF vars, TargetsFree
<1>5. ~\E p \in Plain : PlainAllocate(p)
  BY DEF Plain, AllCooperative
<1>. QED
  BY <1>1, <1>2, <1>3, <1>4, <1>5, StepTargetsFree DEF Next

LEMMA TargetsAreFree == ASSUME AllCooperative PROVE Spec => []TargetsFree
<1>1. Init => TargetsFree
  BY DEF Init, TargetsFree
<1>2. TypeOK /\ HoldsClaim /\ TargetsFree /\ [Next]_vars => TargetsFree'
  BY NextTargetsFree
<1>. QED
  BY <1>1, <1>2, TypeCorrect, ClaimHeld, PTL DEF Spec

\* A step of cooperative writers replaces and removes no artifact.
LEMMA Keeps ==
  ASSUME TypeOK, TargetsFree, [Next]_vars,
         NEW i \in Index, NEW k \in Kind, file[i][k] # Nobody
  PROVE  file'[i][k] = file[i][k]
<1>1. CASE file' = file
  BY <1>1
<1>2. ASSUME NEW p \in Writer, NEW m \in Kind, Write(p), m \in todo[p],
             file' = [file EXCEPT ![obs[p].next][m] = p]
      PROVE  file'[i][k] = file[i][k]
  <2>1. file[obs[p].next][m] = Nobody
    BY <1>2 DEF TargetsFree, Write
  <2>2. obs[p].next \in Index
    BY DEF TypeOK
  <2>. QED
    BY <1>2, <2>1, <2>2 DEF TypeOK, Directory
<1>3. ASSUME NEW j \in Index, ToolResult(j) PROVE file'[i][k] = file[i][k]
  BY <1>3 DEF ToolResult, TypeOK, Directory, Kind
<1>. QED
  BY <1>1, <1>2, <1>3, FileChange

\* Check-then-rename is safe: among cooperative writers no artifact is ever
\* replaced or removed, whoever crashes and at whatever point.
THEOREM NothingOverwritten == ASSUME AllCooperative PROVE Spec => NoOverwrite
<1>1. TypeOK /\ TargetsFree /\ [Next]_vars
        => [\A i \in Index, k \in Kind :
              file[i][k] # Nobody => file'[i][k] = file[i][k]]_vars
  BY Keeps
<1>. QED
  BY <1>1, TypeCorrect, TargetsAreFree, PTL DEF Spec, NoOverwrite

------------------------------------------------------------------------------
(* Cooperative writers implement the compare-and-append log *)

\* The used indexes of dir are exactly those below n.
TailOf(dir, n) == \A i \in Index : OwnersIn(dir)[i] # {} <=> i < n

\* Turns take consecutive indexes.
Contiguous == \E n \in Index \cup {Exhausted} : TailOf(file, n)

ResultNeedsCalls ==
  \A i \in Index : file[i]["result"] # Nobody => file[i]["calls"] # Nobody

\* What a writer expects was once the directory: it is a prefix of the log.
ExpectsPrefix(p) ==
  /\ \A i \in Index : OwnersIn(exp[p].snap)[i] # {} =>
       OwnersIn(file)[i] = OwnersIn(exp[p].snap)[i]
  /\ TailOf(exp[p].snap, exp[p].next)

\* Under the claim the allocated index stays the tail,
ListsTail(p) ==
  pc[p] \in {"recheck-verify", "derive-verify", "collide"} => TailOf(file, obs[p].next)

\* the recheck still holds when the writes begin,
ChecksLog(p) ==
  pc[p] = "collide" =>
    obs[p].next = exp[p].next /\ OwnersIn(file) = OwnersIn(exp[p].snap)

\* and until the turn is complete its index is the tail, or the last one and
\* the writer's own.
WritesAtTail(p) ==
  pc[p] = "write" =>
    /\ obs[p].next = exp[p].next
    /\ \/ TailOf(file, obs[p].next) /\ OwnersIn(file) = OwnersIn(exp[p].snap)
       \/ TailOf(file, obs[p].next + 1) /\ OwnersIn(file)[obs[p].next] = {p}

LogInv ==
  /\ Contiguous
  /\ ResultNeedsCalls
  /\ \A p \in Writer :
       ExpectsPrefix(p) /\ ListsTail(p) /\ ChecksLog(p) /\ WritesAtTail(p)

------------------------------------------------------------------------------
(* Facts about directories *)

LEMMA OwnersType ==
  ASSUME NEW dir \in Directory
  PROVE  /\ OwnersIn(dir) = [i \in Index |-> OwnersIn(dir)[i]]
         /\ \A i \in Index : OwnersIn(dir)[i] =
              {dir[i][k] : k \in Kind \ {"result"}} \ {Nobody}
BY DEF OwnersIn

\* An index is in use exactly when it has an owner.
LEMMA UsedIsOwned ==
  ASSUME TypeOK, ResultNeedsCalls, NEW i \in Index
  PROVE  Used(file, i) <=> OwnersIn(file)[i] # {}
<1>1. "calls" \in Kind \ {"result"}
  BY DEF Kind, AssistantKind
<1>2. ASSUME Used(file, i) PROVE \E k \in Kind \ {"result"} : file[i][k] # Nobody
  BY <1>1, <1>2 DEF Used, ResultNeedsCalls
<1>3. OwnersIn(file)[i] # {} <=> \E k \in Kind \ {"result"} : file[i][k] # Nobody
  BY DEF OwnersIn
<1>. QED
  BY <1>2, <1>3 DEF Used

\* The allocator returns the tail of a contiguous directory.
LEMMA AllocatesTail ==
  ASSUME TypeOK, Contiguous, ResultNeedsCalls, NEW t,
         NEW n \in Index \cup {Exhausted}, Allocates(n, file, t)
  PROVE  TailOf(file, n)
<1>1. PICK tail \in Index \cup {Exhausted} : TailOf(file, tail)
  BY DEF Contiguous
<1>2. \A i \in Index : Used(file, i) <=> i < tail
  BY <1>1, UsedIsOwned DEF TailOf
<1>3. /\ Index \subseteq Nat /\ Exhausted \in Nat /\ tail \in Nat /\ n \in Nat
      /\ \A i \in Index : i < Exhausted
      /\ \A i \in Nat : i < Exhausted => i \in Index
  BY ConstantsAssumption DEF Index, Exhausted
<1>4. ASSUME tail \in Index PROVE Candidate(tail, file, t)
  <2>1. \A k \in Kind : file[tail][k] = Nobody
    BY <1>2, <1>3, <1>4 DEF Used
  <2>. QED
    BY <1>2, <2>1 DEF Candidate, TargetKind, Kind
<1>5. \A i \in Index : Candidate(i, file, t) => tail <= i
  <2>. SUFFICES ASSUME NEW i \in Index, Candidate(i, file, t), ~(tail <= i)
                PROVE  FALSE
    OBVIOUS
  <2>1. Used(file, i)
    BY <1>2, <1>3
  <2>. QED
    BY <1>3, <2>1 DEF Candidate
<1>6. n = tail
  <2>1. CASE n \in Index
    <3>1. tail <= n
      BY <1>5, <2>1, IndexFacts DEF Allocates
    <3>2. tail \in Index
      BY <1>3, <2>1, <3>1
    <3>3. n <= tail
      BY <1>4, <2>1, <3>2, IndexFacts DEF Allocates
    <3>. QED
      BY <1>3, <3>1, <3>3
  <2>2. CASE n = Exhausted
    BY <1>4, <2>2, IndexFacts DEF Allocates
  <2>. QED
    BY <2>1, <2>2
<1>. QED
  BY <1>1, <1>6

\* A directory has one tail.
LEMMA TailIsOne ==
  ASSUME NEW dir, NEW m \in Index \cup {Exhausted}, NEW n \in Index \cup {Exhausted},
         TailOf(dir, m), TailOf(dir, n)
  PROVE  m = n
<1>1. /\ m \in Nat /\ n \in Nat
      /\ m \in Index \/ m = Exhausted
      /\ n \in Index \/ n = Exhausted
      /\ Index \subseteq Nat
      /\ \A i \in Index : i < Exhausted
  BY ConstantsAssumption DEF Index, Exhausted
<1>2. CASE m < n
  <2>1. m \in Index
    BY <1>1, <1>2, ConstantsAssumption DEF Index, Exhausted
  <2>. QED
    BY <1>1, <1>2, <2>1 DEF TailOf
<1>3. CASE n < m
  <2>1. n \in Index
    BY <1>1, <1>3, ConstantsAssumption DEF Index, Exhausted
  <2>. QED
    BY <1>1, <1>3, <2>1 DEF TailOf
<1>. QED
  BY <1>1, <1>2, <1>3

\* Two directories with one tail, one a prefix of the other, have one log.
LEMMA SameTailSameLog ==
  ASSUME TypeOK, NEW p \in Writer, NEW n, ExpectsPrefix(p),
         TailOf(file, n), exp[p].next = n
  PROVE  OwnersIn(file) = OwnersIn(exp[p].snap)
<1>1. exp[p].snap \in Directory /\ file \in Directory
  BY DEF TypeOK, State
<1>2. \A i \in Index : OwnersIn(file)[i] = OwnersIn(exp[p].snap)[i]
  BY DEF ExpectsPrefix, TailOf
<1>. QED
  BY <1>1, <1>2, OwnersType

\* Writing one artifact adds its author to the owners of its index.
LEMMA WriteOwners ==
  ASSUME TypeOK, NEW p \in Writer, NEW n \in Index,
         NEW m \in AssistantKind \cup {"user"}, file[n][m] = Nobody,
         file' = [file EXCEPT ![n][m] = p]
  PROVE  OwnersIn(file)' = [OwnersIn(file) EXCEPT ![n] = @ \cup {p}]
<1>1. m \in Kind \ {"result"} /\ p # Nobody
  BY ConstantsAssumption DEF Kind, AssistantKind, Author
<1>2. \A i \in Index : i # n => file'[i] = file[i]
  BY DEF TypeOK, Directory
<1>3. \A k \in Kind : file'[n][k] = IF k = m THEN p ELSE file[n][k]
  BY DEF TypeOK, Directory
<1>4. \A i \in Index : i # n => OwnersIn(file')[i] = OwnersIn(file)[i]
  BY <1>2 DEF OwnersIn
<1>5. OwnersIn(file')[n] = OwnersIn(file)[n] \cup {p}
  <2>1. \A x : x \in OwnersIn(file')[n] <=> x \in OwnersIn(file)[n] \cup {p}
    BY <1>1, <1>3 DEF OwnersIn
  <2>. QED
    BY <2>1
<1>. QED
  BY <1>4, <1>5 DEF OwnersIn

------------------------------------------------------------------------------
(* Steps that leave the log alone *)

\* LogInv depends on the log, on the expectations and on the stages only.
LEMMA LogInvFrame ==
  ASSUME TypeOK, LogInv, ResultNeedsCalls', OwnersIn(file)' = OwnersIn(file),
         NEW p \in Writer, ExpectsPrefix(p)', ListsTail(p)', ChecksLog(p)',
         WritesAtTail(p)',
         \A q \in Writer \ {p} :
            pc'[q] = pc[q] /\ obs'[q] = obs[q] /\ exp'[q] = exp[q]
  PROVE  LogInv'
<1>1. Contiguous'
  BY DEF LogInv, Contiguous, TailOf
<1>2. ASSUME NEW q \in Writer, q # p
      PROVE  /\ ExpectsPrefix(q)' /\ ListsTail(q)'
             /\ ChecksLog(q)' /\ WritesAtTail(q)'
  <2>1. pc'[q] = pc[q] /\ obs'[q] = obs[q] /\ exp'[q] = exp[q]
    BY <1>2
  <2>2. ExpectsPrefix(q)'
    BY <2>1 DEF LogInv, ExpectsPrefix, TailOf
  <2>3. ListsTail(q)'
    BY <2>1 DEF LogInv, ListsTail, TailOf
  <2>4. ChecksLog(q)'
    BY <2>1 DEF LogInv, ChecksLog
  <2>5. WritesAtTail(q)'
    BY <2>1 DEF LogInv, WritesAtTail, TailOf
  <2>. QED
    BY <2>2, <2>3, <2>4, <2>5
<1>. QED
  BY <1>1, <1>2 DEF LogInv

\* A step that moves p somewhere the invariant says nothing about.
LEMMA QuietStep ==
  ASSUME TypeOK, LogInv, NEW p \in Writer, file' = file, exp' = exp,
         pc'[p] \notin {"recheck-verify", "derive-verify", "collide", "write"},
         \A q \in Writer \ {p} : pc'[q] = pc[q] /\ obs'[q] = obs[q]
  PROVE  LogInv'
<1>1. ResultNeedsCalls' /\ OwnersIn(file)' = OwnersIn(file)
  BY DEF LogInv, ResultNeedsCalls
<1>2. ExpectsPrefix(p)'
  BY DEF LogInv, ExpectsPrefix, TailOf
<1>3. ListsTail(p)' /\ ChecksLog(p)' /\ WritesAtTail(p)'
  BY DEF ListsTail, ChecksLog, WritesAtTail
<1>. QED
  BY <1>1, <1>2, <1>3, LogInvFrame

\* A scan under the claim allocates the tail.
LEMMA ScanStep ==
  ASSUME TypeOK, LogInv, NEW p \in Writer, NEW from, NEW to, NEW t, NEW onFailure,
         Scan(p, from, to, t, onFailure),
         to \in {"preflight-verify", "recheck-verify", "derive-verify"},
         onFailure \in {"done", "release"}
  PROVE  LogInv'
<1>1. file' = file /\ exp' = exp
  BY DEF Scan
<1>2. \A q \in Writer \ {p} : pc'[q] = pc[q] /\ obs'[q] = obs[q]
  BY DEF Scan, Goto, Finish, TypeOK
<1>3. CASE pc'[p] = onFailure
  BY <1>1, <1>2, <1>3, QuietStep
<1>4. CASE \E n \in Index : /\ Allocates(n, file, t)
                            /\ obs' = [obs EXCEPT ![p] = [snap |-> file, next |-> n]]
                            /\ pc' = [pc EXCEPT ![p] = to]
  <2>1. PICK n \in Index : /\ Allocates(n, file, t)
                           /\ obs' = [obs EXCEPT ![p] = [snap |-> file, next |-> n]]
                           /\ pc' = [pc EXCEPT ![p] = to]
    BY <1>4
  <2>2. TailOf(file, n)
    BY <2>1, AllocatesTail DEF LogInv
  <2>3. ResultNeedsCalls' /\ OwnersIn(file)' = OwnersIn(file)
    BY <1>1 DEF LogInv, ResultNeedsCalls
  <2>4. ExpectsPrefix(p)'
    BY <1>1 DEF LogInv, ExpectsPrefix, TailOf
  <2>5. obs'[p].next = n /\ pc'[p] = to
    BY <2>1 DEF TypeOK
  <2>6. ListsTail(p)'
    BY <1>1, <2>2, <2>5 DEF ListsTail, TailOf
  <2>7. ChecksLog(p)' /\ WritesAtTail(p)'
    BY <2>5 DEF ChecksLog, WritesAtTail
  <2>. QED
    BY <1>1, <1>2, <2>3, <2>4, <2>6, <2>7, LogInvFrame
<1>. QED
  BY <1>3, <1>4 DEF Scan, Goto, Finish, TypeOK

LEMMA UnstableStep ==
  ASSUME TypeOK, LogInv, NEW p \in Writer, NEW from, NEW onFailure,
         Unstable(p, from, onFailure), onFailure \in {"done", "release"}
  PROVE  LogInv'
<1>1. pc'[p] \notin {"recheck-verify", "derive-verify", "collide", "write"}
  BY DEF Unstable, Finish, Goto, TypeOK
<1>2. \A q \in Writer \ {p} : pc'[q] = pc[q] /\ obs'[q] = obs[q]
  BY DEF Unstable, Finish, Goto, TypeOK
<1>3. file' = file /\ exp' = exp
  BY DEF Unstable
<1>. QED
  BY <1>1, <1>2, <1>3, QuietStep

\* The preflight check promises nothing.
LEMMA PreflightVerifyStep ==
  ASSUME TypeOK, LogInv, NEW p \in Writer,
         Verify(p, "preflight-verify", AfterPreflight(p), "done")
  PROVE  LogInv'
<1>1. pc'[p] \notin {"recheck-verify", "derive-verify", "collide", "write"}
  BY DEF Verify, AfterPreflight, Finish, Goto, TypeOK
<1>2. \A q \in Writer \ {p} : pc'[q] = pc[q] /\ obs'[q] = obs[q]
  BY DEF Verify, Finish, Goto, TypeOK
<1>3. file' = file /\ exp' = exp
  BY DEF Verify
<1>. QED
  BY <1>1, <1>2, <1>3, QuietStep

\* The recheck under the claim: the log is the one the writer expects.
LEMMA RecheckVerifyStep ==
  ASSUME AllCooperative, TypeOK, LogInv, NEW p \in Writer,
         Verify(p, "recheck-verify", "collide", "release")
  PROVE  LogInv'
<1>1. file' = file /\ exp' = exp /\ pc[p] = "recheck-verify"
  BY DEF Verify
<1>2. \A q \in Writer \ {p} : pc'[q] = pc[q] /\ obs'[q] = obs[q]
  BY DEF Verify, Finish, Goto, TypeOK
<1>3. CASE ~Matches(p, Seen(p))
  <2>1. pc'[p] = "release"
    BY <1>3 DEF Verify, Finish, Goto, TypeOK
  <2>. QED
    BY <1>1, <1>2, <2>1, QuietStep
<1>4. CASE Matches(p, Seen(p))
  <2>1. pc'[p] = "collide" /\ obs'[p].next = obs[p].next
    BY <1>4 DEF Verify, Goto, Seen, TypeOK
  <2>2. TailOf(file, obs[p].next) /\ ExpectsPrefix(p)
    BY <1>1 DEF LogInv, ListsTail
  <2>3. Seen(p).snap = file /\ Seen(p).next = obs[p].next
    BY DEF Seen, TypeOK
  <2>4. OwnersIn(file) = OwnersIn(exp[p].snap)
    <3>1. ByFingerprint(p) \/ ByIndex(p)
      BY ConstantsAssumption DEF AllCooperative, Cooperative, ByFingerprint, ByIndex
    <3>2. CASE ByFingerprint(p)
      BY <1>4, <2>3, <3>2 DEF Matches
    <3>3. CASE ByIndex(p)
      BY <1>4, <2>2, <2>3, <3>3, SameTailSameLog DEF Matches
    <3>. QED
      BY <3>1, <3>2, <3>3
  <2>9. obs[p].next = exp[p].next
    <3>1. TailOf(file, exp[p].next)
      BY <2>2, <2>4 DEF ExpectsPrefix, TailOf
    <3>2. obs[p].next \in Index /\ exp[p].next \in Index \cup {Exhausted}
      BY DEF TypeOK, State
    <3>. QED
      BY <2>2, <3>1, <3>2, TailIsOne
  <2>5. ResultNeedsCalls' /\ OwnersIn(file)' = OwnersIn(file)
    BY <1>1 DEF LogInv, ResultNeedsCalls
  <2>6. ExpectsPrefix(p)'
    BY <1>1, <2>2 DEF ExpectsPrefix, TailOf
  <2>7. ListsTail(p)' /\ ChecksLog(p)' /\ WritesAtTail(p)'
    BY <1>1, <2>1, <2>2, <2>4, <2>9 DEF ListsTail, ChecksLog, WritesAtTail, TailOf
  <2>. QED
    BY <1>1, <1>2, <2>5, <2>6, <2>7, LogInvFrame
<1>. QED
  BY <1>3, <1>4

\* What the abstract writer p is shown when exp[p] becomes the directory.
LEMMA ShownChange ==
  ASSUME TypeOK, NEW p \in Writer, NEW new, new.snap = file,
         exp' = [exp EXCEPT ![p] = new]
  PROVE  [q \in Writer |-> OwnersIn(exp[q].snap)]'
           = [[q \in Writer |-> OwnersIn(exp[q].snap)] EXCEPT ![p] = OwnersIn(file)]
<1>1. \A q \in Writer : exp'[q].snap = IF q = p THEN file ELSE exp[q].snap
  BY DEF TypeOK
<1>2. \A q \in Writer : OwnersIn(exp'[q].snap)
                        = IF q = p THEN OwnersIn(file) ELSE OwnersIn(exp[q].snap)
  BY <1>1
<1>. QED
  BY <1>2

\* The caller shows a writer the log as it is.
LEMMA StartStep ==
  ASSUME AllCooperative, TypeOK, LogInv, NEW p \in Writer, Start(p)
  PROVE  LogInv' /\ Log!Observe(p)
<1>1. PICK n \in Index \cup {Exhausted} :
        /\ Allocates(n, file, turn[p])
        /\ exp' = [exp EXCEPT ![p] = [snap |-> file, next |-> n]]
  BY DEF Start
<1>2. exp'[p].snap = file /\ exp'[p].next = n /\ file' = file /\ obs' = obs
  BY <1>1 DEF Start, TypeOK
<1>3. pc' = [pc EXCEPT ![p] = "preflight"]
  BY DEF Start, Goto, AllCooperative
<1>4. \A q \in Writer \ {p} : pc'[q] = pc[q] /\ obs'[q] = obs[q] /\ exp'[q] = exp[q]
  BY <1>1, <1>2, <1>3 DEF TypeOK
<1>5. TailOf(file, n)
  BY <1>1, AllocatesTail DEF LogInv
<1>6. ResultNeedsCalls' /\ OwnersIn(file)' = OwnersIn(file)
  BY <1>2 DEF LogInv, ResultNeedsCalls
<1>7. ExpectsPrefix(p)'
  BY <1>2, <1>5 DEF ExpectsPrefix, TailOf
<1>8. ListsTail(p)' /\ ChecksLog(p)' /\ WritesAtTail(p)'
  BY <1>3 DEF ListsTail, ChecksLog, WritesAtTail, TypeOK
<1>9. Log!Observe(p)
  BY <1>1, <1>2, ShownChange DEF Log!Observe
<1>. QED
  BY <1>4, <1>6, <1>7, <1>8, <1>9, LogInvFrame

\* The writer shows itself the log its own user turn left behind.
LEMMA DeriveStep ==
  ASSUME AllCooperative, TypeOK, LogInv, NEW p \in Writer, Derive(p)
  PROVE  LogInv' /\ (Log!Observe(p) \/ UNCHANGED <<file, exp>>)
<1>1. CASE Scan(p, "derive", "derive-verify", "assistant", "release")
  BY <1>1, ScanStep DEF Scan
<1>2. CASE Unstable(p, "derive-verify", "release")
  BY <1>2, UnstableStep DEF Unstable
<1>3. CASE /\ pc[p] = "derive-verify"
           /\ exp' = [exp EXCEPT ![p] = Seen(p)]
           /\ Goto(p, "release")
           /\ UNCHANGED <<file, claim, turn, obs, prompt, todo, out>>
  <2>1. exp'[p].snap = file /\ exp'[p].next = obs[p].next /\ file' = file
    BY <1>3 DEF TypeOK, Seen
  <2>2. \A q \in Writer \ {p} : pc'[q] = pc[q] /\ obs'[q] = obs[q] /\ exp'[q] = exp[q]
    BY <1>3 DEF TypeOK, Goto
  <2>3. TailOf(file, obs[p].next)
    BY <1>3 DEF LogInv, ListsTail
  <2>4. ResultNeedsCalls' /\ OwnersIn(file)' = OwnersIn(file)
    BY <2>1 DEF LogInv, ResultNeedsCalls
  <2>5. ExpectsPrefix(p)'
    BY <2>1, <2>3 DEF ExpectsPrefix, TailOf
  <2>6. ListsTail(p)' /\ ChecksLog(p)' /\ WritesAtTail(p)'
    BY <1>3 DEF ListsTail, ChecksLog, WritesAtTail, TypeOK, Goto
  <2>7. Seen(p).snap = file
    BY DEF Seen, TypeOK
  <2>8. Log!Observe(p)
    BY <1>3, <2>1, <2>7, ShownChange DEF Log!Observe
  <2>9. LogInv'
    BY <2>2, <2>4, <2>5, <2>6, LogInvFrame
  <2>. QED
    BY <2>8, <2>9
<1>. QED
  BY <1>1, <1>2, <1>3 DEF Derive

\* The names are free: the check changes nothing that was rechecked.
LEMMA CollisionStep ==
  ASSUME AllCooperative, TypeOK, LogInv, NEW p \in Writer, CheckCollision(p)
  PROVE  LogInv' /\ file' = file /\ exp' = exp
<1>1. file' = file /\ exp' = exp /\ obs' = obs /\ pc[p] = "collide"
  BY DEF CheckCollision
<1>2. \A q \in Writer \ {p} : pc'[q] = pc[q] /\ obs'[q] = obs[q]
  BY <1>1 DEF CheckCollision, Completed, Finish, Goto, TypeOK
<1>3. CASE pc'[p] # "write"
  <2>1. pc'[p] \notin {"recheck-verify", "derive-verify", "collide", "write"}
    BY <1>3 DEF CheckCollision, Completed, Finish, Goto, TypeOK, Leave
  <2>. QED
    BY <1>1, <1>2, <2>1, QuietStep
<1>4. CASE pc'[p] = "write"
  <2>1. /\ TailOf(file, obs[p].next) /\ ExpectsPrefix(p)
        /\ obs[p].next = exp[p].next /\ OwnersIn(file) = OwnersIn(exp[p].snap)
    BY <1>1 DEF LogInv, ListsTail, ChecksLog
  <2>2. ResultNeedsCalls' /\ OwnersIn(file)' = OwnersIn(file)
    BY <1>1 DEF LogInv, ResultNeedsCalls
  <2>3. ExpectsPrefix(p)'
    BY <1>1, <2>1 DEF ExpectsPrefix, TailOf
  <2>4. ListsTail(p)' /\ ChecksLog(p)' /\ WritesAtTail(p)'
    BY <1>1, <1>4, <2>1 DEF ListsTail, ChecksLog, WritesAtTail, TailOf
  <2>. QED
    BY <1>1, <1>2, <2>2, <2>3, <2>4, LogInvFrame
<1>. QED
  BY <1>1, <1>3, <1>4

\* The first artifact of a turn appends it to the log, the others add nothing.
LEMMA WriteStep ==
  ASSUME AllCooperative, TypeOK, HoldsClaim, TargetsFree, LogInv,
         NEW p \in Writer, Write(p)
  PROVE  LogInv' /\ (Log!Append(p) \/ UNCHANGED Log!logVars)
<1>. PICK n \in Index : n = obs[p].next
  BY DEF TypeOK
<1>1. PICK m \in todo[p] :
        /\ file' = [file EXCEPT ![n][m] = p]
        /\ IF todo[p] = {m} THEN Completed(p) ELSE UNCHANGED <<pc, turn, out>>
  BY DEF Write
<1>2. /\ pc[p] = "write" /\ exp' = exp /\ obs' = obs
      /\ m \in AssistantKind \cup {"user"}
  BY <1>1 DEF Write, TypeOK
<1>3. file[n][m] = Nobody
  BY <1>2 DEF TargetsFree
<1>4. OwnersIn(file)' = [OwnersIn(file) EXCEPT ![n] = @ \cup {p}]
  BY <1>1, <1>2, <1>3, WriteOwners
<1>5. \/ /\ TailOf(file, n) /\ OwnersIn(file) = OwnersIn(exp[p].snap)
         /\ OwnersIn(file)[n] = {}
      \/ TailOf(file, n + 1) /\ OwnersIn(file)[n] = {p}
  <2>1. \/ TailOf(file, n) /\ OwnersIn(file) = OwnersIn(exp[p].snap)
        \/ TailOf(file, n + 1) /\ OwnersIn(file)[n] = {p}
    BY <1>2 DEF LogInv, WritesAtTail
  <2>2. ~(n < n)
    BY IndexFacts
  <2>. QED
    BY <2>1, <2>2 DEF TailOf
<1>6. OwnersIn(file)' = [OwnersIn(file) EXCEPT ![n] = {p}]
  BY <1>4, <1>5
<1>7. \A i \in Index : (OwnersIn(file)')[i] = IF i = n THEN {p} ELSE OwnersIn(file)[i]
  BY <1>6 DEF OwnersIn
<1>8. TailOf(file', n + 1)
  <2>1. \A i \in Index : i < n + 1 <=> i < n \/ i = n
    BY IndexFacts
  <2>. QED
    BY <1>5, <1>7, <2>1 DEF TailOf
<1>9. Contiguous'
  <2>1. n + 1 \in Index \cup {Exhausted}
    BY <1>2, ConstantsAssumption DEF Index, Exhausted
  <2>. QED
    BY <1>8, <2>1 DEF Contiguous, TailOf
<1>10. ResultNeedsCalls'
  <2>1. p # Nobody /\ "result" \in Kind /\ "calls" \in Kind /\ m \in Kind /\ m # "result"
    BY <1>2, ConstantsAssumption DEF Author, Kind, AssistantKind
  <2>2. \A i \in Index : file'[i]["result"] = file[i]["result"]
    BY <1>1, <1>2, <2>1 DEF TypeOK, Directory
  <2>3. \A i \in Index : file[i]["calls"] # Nobody => file'[i]["calls"] # Nobody
    BY <1>1, <1>2, <2>1 DEF TypeOK, Directory
  <2>. QED
    BY <2>2, <2>3 DEF LogInv, ResultNeedsCalls
<1>11. ASSUME NEW q \in Writer PROVE ExpectsPrefix(q)'
  <2>1. ExpectsPrefix(q)
    BY DEF LogInv
  <2>2. ASSUME NEW i \in Index, OwnersIn(exp[q].snap)[i] # {}
        PROVE  (OwnersIn(file)')[i] = OwnersIn(exp[q].snap)[i]
    BY <1>5, <1>7, <2>1, <2>2 DEF ExpectsPrefix
  <2>. QED
    BY <1>2, <2>1, <2>2 DEF ExpectsPrefix, TailOf
<1>12. pc'[p] \in {"write", "derive", "release"}
  BY <1>1, <1>2 DEF Completed, Goto, AllCooperative, TypeOK
<1>13. \A q \in Writer \ {p} :
         pc'[q] \notin {"recheck-verify", "derive-verify", "collide", "write"}
  <2>1. \A q \in Writer \ {p} : pc'[q] = pc[q]
    BY <1>1 DEF Completed, Goto, Finish, TypeOK
  <2>2. claim = p
    BY <1>2 DEF HoldsClaim, InCritical, AllCooperative
  <2>. QED
    BY <2>1, <2>2 DEF HoldsClaim, InCritical, AllCooperative
<1>14. WritesAtTail(p)'
  <2>1. n = exp[p].next
    BY <1>2 DEF LogInv, WritesAtTail
  <2>2. (OwnersIn(file)')[n] = {p}
    BY <1>2, <1>7
  <2>. QED
    BY <1>2, <1>8, <2>1, <2>2 DEF WritesAtTail, TailOf
<1>15. ASSUME NEW q \in Writer
       PROVE  ListsTail(q)' /\ ChecksLog(q)' /\ WritesAtTail(q)'
  BY <1>12, <1>13, <1>14 DEF ListsTail, ChecksLog, WritesAtTail
<1>16. LogInv'
  BY <1>9, <1>10, <1>11, <1>15 DEF LogInv
<1>17. [q \in Writer |-> OwnersIn(exp[q].snap)]' = [q \in Writer |-> OwnersIn(exp[q].snap)]
  BY <1>2
<1>18. CASE TailOf(file, n) /\ OwnersIn(file) = OwnersIn(exp[p].snap)
  <2>1. Log!IsTail(n)
    BY <1>2, <1>18 DEF TailOf, Log!IsTail
  <2>. QED
    BY <1>2, <1>6, <1>16, <1>17, <1>18, <2>1 DEF Log!Append
<1>19. CASE OwnersIn(file)[n] = {p}
  <2>1. OwnersIn(file)' = OwnersIn(file)
    BY <1>6, <1>19 DEF OwnersIn
  <2>. QED
    BY <1>16, <1>17, <2>1 DEF Log!logVars
<1>. QED
  BY <1>5, <1>18, <1>19

\* After a write the log ends with the index written.
LEMMA WriteTail ==
  ASSUME AllCooperative, TypeOK, HoldsClaim, TargetsFree, LogInv,
         NEW p \in Writer, Write(p)
  PROVE  TailOf(file', obs[p].next + 1)
<1>. PICK n \in Index : n = obs[p].next
  BY DEF TypeOK
<1>1. PICK m \in todo[p] : file' = [file EXCEPT ![n][m] = p]
  BY DEF Write
<1>2. pc[p] = "write" /\ m \in AssistantKind \cup {"user"} /\ file[n][m] = Nobody
  BY <1>1 DEF Write, TypeOK, TargetsFree
<1>3. OwnersIn(file)' = [OwnersIn(file) EXCEPT ![n] = @ \cup {p}]
  BY <1>1, <1>2, WriteOwners
<1>4. \A i \in Index : OwnersIn(file')[i] # {} <=> i = n \/ OwnersIn(file)[i] # {}
  BY <1>3 DEF OwnersIn
<1>5. \A i \in Index : i < n + 1 <=> i = n \/ i < n
  BY IndexFacts
<1>. QED
  BY <1>2, <1>4, <1>5 DEF LogInv, WritesAtTail, TailOf

\* Every step of a writer keeps the log and is a step of the abstract one.
LEMMA StepLog ==
  ASSUME AllCooperative, TypeOK, HoldsClaim, TargetsFree, LogInv,
         NEW p \in Writer, Step(p)
  PROVE  /\ LogInv'
         /\ Log!Observe(p) \/ Log!Append(p) \/ UNCHANGED Log!logVars
<1>1. UNCHANGED <<file, exp>> => UNCHANGED Log!logVars
  BY DEF Log!logVars
<1>2. CASE Start(p)
  BY <1>2, StartStep
<1>3. CASE Preflight(p)
  <2>1. CASE Scan(p, "preflight", "preflight-verify", turn[p], "done")
    BY <1>1, <2>1, ScanStep DEF Scan
  <2>2. CASE Unstable(p, "preflight-verify", "done")
    BY <1>1, <2>2, UnstableStep DEF Unstable
  <2>3. CASE Verify(p, "preflight-verify", AfterPreflight(p), "done")
    BY <1>1, <2>3, PreflightVerifyStep DEF Verify
  <2>. QED
    BY <1>3, <2>1, <2>2, <2>3 DEF Preflight
<1>4. CASE Recheck(p)
  <2>1. CASE Scan(p, "recheck", "recheck-verify", turn[p], "release")
    BY <1>1, <2>1, ScanStep DEF Scan
  <2>2. CASE Unstable(p, "recheck-verify", "release")
    BY <1>1, <2>2, UnstableStep DEF Unstable
  <2>3. CASE Verify(p, "recheck-verify", "collide", "release")
    BY <1>1, <2>3, RecheckVerifyStep DEF Verify
  <2>. QED
    BY <1>4, <2>1, <2>2, <2>3 DEF Recheck
<1>5. CASE Read(p) \/ Answer(p) \/ Acquire(p) \/ Release(p)
  <2>1. file' = file /\ exp' = exp /\ obs' = obs
    BY <1>5 DEF Read, Answer, Acquire, Release
  <2>2. /\ pc'[p] \notin {"recheck-verify", "derive-verify", "collide", "write"}
        /\ \A q \in Writer \ {p} : pc'[q] = pc[q]
    BY <1>5 DEF Read, Answer, Acquire, Release, Goto, Finish, TypeOK
  <2>. QED
    BY <1>1, <2>1, <2>2, QuietStep
<1>6. CASE CheckCollision(p)
  BY <1>1, <1>6, CollisionStep
<1>7. CASE Write(p)
  BY <1>7, WriteStep
<1>8. CASE Derive(p)
  BY <1>1, <1>8, DeriveStep
<1>. QED
  BY <1>2, <1>3, <1>4, <1>5, <1>6, <1>7, <1>8 DEF Step

\* Results of tool calls belong to no turn.
LEMMA ResultKeepsOwners ==
  ASSUME TypeOK, NEW i \in Index, ToolResult(i)
  PROVE  OwnersIn(file') = OwnersIn(file)
<1>1. \A j \in Index, k \in Kind \ {"result"} : file'[j][k] = file[j][k]
  BY DEF ToolResult, TypeOK, Directory, Kind
<1>. QED
  BY <1>1 DEF OwnersIn

LEMMA ResultLog ==
  ASSUME TypeOK, LogInv, NEW i \in ToolIndex, ToolResult(i)
  PROVE  LogInv' /\ UNCHANGED Log!logVars
<1>1. "calls" \in Kind /\ "result" \in Kind /\ i \in Index
  BY DEF Kind, AssistantKind, ToolIndex
<1>2. \A j \in Index, k \in Kind \ {"result"} : file'[j][k] = file[j][k]
  BY <1>1 DEF ToolResult, TypeOK, Directory
<1>3. OwnersIn(file') = OwnersIn(file)
  BY <1>1, ResultKeepsOwners
<1>4. ResultNeedsCalls'
  <2>1. \A j \in Index : j # i => file'[j] = file[j]
    BY <1>1 DEF ToolResult, TypeOK, Directory
  <2>2. file'[i]["calls"] = file[i]["calls"] /\ file[i]["calls"] # Nobody
    BY <1>1, <1>2 DEF ToolResult
  <2>. QED
    BY <2>1, <2>2 DEF LogInv, ResultNeedsCalls
<1>5. pc' = pc /\ obs' = obs /\ exp' = exp
  BY DEF ToolResult
<1>6. ASSUME NEW p \in Writer
      PROVE  ExpectsPrefix(p)' /\ ListsTail(p)' /\ ChecksLog(p)' /\ WritesAtTail(p)'
  BY <1>3, <1>5 DEF LogInv, ExpectsPrefix, ListsTail, ChecksLog, WritesAtTail, TailOf
<1>7. Contiguous'
  BY <1>3 DEF LogInv, Contiguous, TailOf
<1>. QED
  BY <1>3, <1>4, <1>5, <1>6, <1>7 DEF LogInv, Log!logVars

LEMMA NextLog ==
  ASSUME AllCooperative, TypeOK, HoldsClaim, TargetsFree, LogInv, [Next]_vars
  PROVE  LogInv' /\ [Log!Next]_Log!logVars
<1>1. ASSUME NEW p \in Writer, Step(p) PROVE LogInv' /\ [Log!Next]_Log!logVars
  BY <1>1, StepLog DEF Log!Next
<1>2. ASSUME NEW p \in Writer, Fault(p) PROVE LogInv' /\ [Log!Next]_Log!logVars
  <2>1. file' = file /\ exp' = exp /\ obs' = obs
    BY <1>2 DEF Fault, AcquireFails, WriteFails, ReleaseFails, Crash
  <2>2. /\ pc'[p] \notin {"recheck-verify", "derive-verify", "collide", "write"}
        /\ \A q \in Writer \ {p} : pc'[q] = pc[q]
    BY <1>2 DEF Fault, AcquireFails, WriteFails, ReleaseFails, Crash, Goto,
       Finish, Leave, TypeOK
  <2>. QED
    BY <2>1, <2>2, QuietStep DEF Log!logVars
<1>3. CASE UNCHANGED <<file, exp, obs, pc>>
  <2>1. ASSUME NEW p \in Writer
        PROVE  ExpectsPrefix(p)' /\ ListsTail(p)' /\ ChecksLog(p)' /\ WritesAtTail(p)'
    BY <1>3 DEF LogInv, ExpectsPrefix, ListsTail, ChecksLog, WritesAtTail, TailOf
  <2>2. Contiguous' /\ ResultNeedsCalls'
    BY <1>3 DEF LogInv, Contiguous, ResultNeedsCalls, TailOf
  <2>. QED
    BY <1>3, <2>1, <2>2 DEF LogInv, Log!logVars
<1>4. CASE OperatorRemovesClaim \/ UNCHANGED vars
  BY <1>3, <1>4 DEF OperatorRemovesClaim, vars
<1>5. ASSUME NEW i \in ToolIndex, ToolResult(i)
      PROVE  LogInv' /\ [Log!Next]_Log!logVars
  BY <1>5, ResultLog
<1>6. ~\E p \in Plain : PlainAllocate(p)
  BY DEF Plain, AllCooperative
<1>. QED
  BY <1>1, <1>2, <1>4, <1>5, <1>6 DEF Next

LEMMA SeededAt ==
  \A i \in Index, k \in Kind :
    /\ EmptyDirectory[i][k] = Nobody
    /\ SeededDirectory[i][k] = IF i = 0 /\ k = "user" THEN Seed ELSE Nobody
BY IndexFacts DEF SeededDirectory, EmptyDirectory, Kind

LEMMA InitLog == Init => LogInv /\ Log!Init
<1>. SUFFICES ASSUME Init PROVE LogInv /\ Log!Init
  OBVIOUS
<1>1. \A i \in Index : OwnersIn(EmptyDirectory)[i] = {}
  BY DEF OwnersIn, EmptyDirectory
<1>2. \A i \in Index, k \in Kind :
        SeededDirectory[i][k] = IF i = 0 /\ k = "user" THEN Seed ELSE Nobody
  BY SeededAt
<1>3. \A i \in Index : OwnersIn(SeededDirectory)[i] = IF i = 0 THEN {Seed} ELSE {}
  <2>1. Seed # Nobody /\ "user" \in Kind \ {"result"}
    BY ConstantsAssumption DEF Author, Kind, AssistantKind
  <2>. QED
    BY <1>2, <2>1 DEF OwnersIn
<1>4. TailOf(EmptyDirectory, 0) /\ TailOf(SeededDirectory, 1)
  BY <1>1, <1>3, IndexFacts DEF TailOf
<1>5. Contiguous
  <2>1. 0 \in Index /\ 1 \in Index \cup {Exhausted}
    BY ConstantsAssumption DEF Index, Exhausted
  <2>. QED
    BY <1>4, <2>1 DEF Init, Contiguous
<1>6. ResultNeedsCalls
  BY <1>2 DEF Init, ResultNeedsCalls, EmptyDirectory, Kind
<1>7. ASSUME NEW p \in Writer
      PROVE  ExpectsPrefix(p) /\ ListsTail(p) /\ ChecksLog(p) /\ WritesAtTail(p)
  BY <1>1, <1>4 DEF Init, ExpectsPrefix, ListsTail, ChecksLog, WritesAtTail
<1>8. Log!Init
  BY <1>1, <1>3, ConstantsAssumption DEF Init, Log!Init
<1>. QED
  BY <1>5, <1>6, <1>7, <1>8 DEF LogInv

LEMMA LogKept == ASSUME AllCooperative PROVE Spec => []LogInv
<1>1. TypeOK /\ HoldsClaim /\ TargetsFree /\ LogInv /\ [Next]_vars => LogInv'
  BY NextLog
<1>. QED
  BY <1>1, InitLog, TypeCorrect, ClaimHeld, TargetsAreFree, PTL DEF Spec

\* Cooperative writers implement the compare-and-append log: no two turns are
\* committed from one expected state and no index holds parts of two turns,
\* although what a writer checks it checks in steps, and appends in steps.
THEOREM LogImplemented == ASSUME AllCooperative PROVE Spec => ImplementsLog
<1>1. TypeOK /\ HoldsClaim /\ TargetsFree /\ LogInv /\ [Next]_vars
        => [Log!Next]_Log!logVars
  BY NextLog
<1>. QED
  BY <1>1, InitLog, TypeCorrect, ClaimHeld, TargetsAreFree, LogKept,
     PTL DEF Spec, ImplementsLog, Log!Spec

------------------------------------------------------------------------------
(* What a turn may have written, and when *)

\* Stages in which artifacts of the present turn may be in the directory.
After == {"write", "release", "done", "crashed"}

\* What is left to write belongs to the present turn,
PartsOfTurn(p) ==
  pc[p] \in {"claim", "alloc", "recheck", "recheck-verify", "collide", "write"} =>
    IF turn[p] = "user" THEN todo[p] = {"user"} ELSE todo[p] \subseteq AssistantKind

\* the result is open until there is nothing left but to release the claim,
Undecided(p) == pc[p] \notin {"release", "done", "crashed"} => out[p] = "none"

\* a reply is written in the assistant turn, after the last check,
Unanswered(p) == pc[p] \notin After \/ turn[p] = "user" \/ out[p] = "conflict"
NoReply(p) == Unanswered(p) => ~Authored(p, AssistantKind)

\* append-user knows no other turn, and writes after the last check too,
Unsaid(p) == pc[p] \notin After \/ out[p] = "conflict"
NoMessage(p) ==
  Op[p] = "append-user" =>
    turn[p] = "user" /\ (Unsaid(p) => ~Authored(p, {"user"}))

\* only `continue` starts with the assistant turn, and only a user turn leaves
\* a baseline behind.
TurnOfStage(p) ==
  /\ pc[p] \in {"start", "preflight", "preflight-verify"} =>
       turn[p] = IF Op[p] = "continue" THEN "assistant" ELSE "user"
  /\ pc[p] \in {"derive", "derive-verify"} => BaselineDue(p)

TurnInv ==
  \A p \in Writer : /\ PartsOfTurn(p) /\ Undecided(p) /\ TurnOfStage(p)
                    /\ NoReply(p) /\ NoMessage(p)

\* An action moves one writer.
LEMMA OthersWait ==
  ASSUME TypeOK, NEW p \in Writer, Step(p) \/ Fault(p) \/ PlainAllocate(p),
         NEW q \in Writer, q # p
  PROVE  /\ pc'[q] = pc[q] /\ turn'[q] = turn[q] /\ exp'[q] = exp[q]
         /\ obs'[q] = obs[q] /\ prompt'[q] = prompt[q] /\ todo'[q] = todo[q]
         /\ out'[q] = out[q]
<1>. USE DEF Goto, Finish, TypeOK
<1>1. CASE Start(p) \/ Read(p) \/ Answer(p) \/ Acquire(p) \/ Release(p)
  BY <1>1 DEF Start, Read, Answer, Acquire, Release
<1>2. CASE Preflight(p) \/ Recheck(p) \/ Derive(p)
  BY <1>2 DEF Preflight, Recheck, Derive, Scan, Unstable, Verify
<1>3. CASE CheckCollision(p) \/ Write(p)
  BY <1>3 DEF CheckCollision, Write, Completed
<1>4. CASE Fault(p) \/ PlainAllocate(p)
  BY <1>4 DEF Fault, AcquireFails, WriteFails, ReleaseFails, Crash, PlainAllocate
<1>. QED
  BY <1>1, <1>2, <1>3, <1>4 DEF Step

\* Steps of no writer: tool results, and claims removed by an operator.
LEMMA AnActorMoves ==
  ASSUME [Next]_vars
  PROVE  \/ \E p \in Writer : Step(p) \/ Fault(p) \/ (p \in Plain /\ PlainAllocate(p))
         \/ UNCHANGED <<pc, turn, exp, obs, prompt, todo, out>>
BY DEF Next, Plain, OperatorRemovesClaim, ToolResult, vars

\* A writer becomes the author of what it writes, and of nothing else.
LEMMA NewAt ==
  ASSUME TypeOK, [Next]_vars, NEW p \in Writer, NEW i \in Index, NEW k \in Kind,
         file'[i][k] = p, file[i][k] # p
  PROVE  Write(p) /\ i = obs[p].next /\ k \in todo[p]
<1>1. CASE file' = file
  BY <1>1
<1>2. ASSUME NEW q \in Writer, NEW m \in Kind, Write(q), m \in todo[q],
             file' = [file EXCEPT ![obs[q].next][m] = q]
      PROVE  Write(p) /\ i = obs[p].next /\ k \in todo[p]
  <2>1. obs[q].next \in Index
    BY DEF TypeOK
  <2>2. q = p /\ m = k /\ i = obs[q].next
    BY <1>2, <2>1 DEF TypeOK, Directory
  <2>. QED
    BY <1>2, <2>2
<1>3. ASSUME NEW j \in Index, ToolResult(j) PROVE FALSE
  <2>1. p # Tool
    BY ConstantsAssumption
  <2>. QED
    BY <1>3, <2>1 DEF ToolResult, TypeOK, Directory, Kind
<1>. QED
  BY <1>1, <1>2, <1>3, FileChange

LEMMA NewAuthor ==
  ASSUME TypeOK, [Next]_vars, NEW p \in Writer, NEW kinds \in SUBSET Kind,
         Authored(p, kinds)', ~Authored(p, kinds)
  PROVE  Write(p) /\ \E k \in kinds : k \in todo[p]
BY NewAt DEF Authored

\* The part of TurnInv that does not look at the directory.
LEMMA StepTurn ==
  ASSUME TypeOK, TurnInv, NEW p \in Writer, Step(p) \/ Fault(p) \/ PlainAllocate(p)
  PROVE  /\ PartsOfTurn(p)' /\ Undecided(p)' /\ TurnOfStage(p)'
         /\ Op[p] = "append-user" => turn'[p] = "user"
         /\ ~Write(p) => /\ Unanswered(p)' => Unanswered(p)
                         /\ Op[p] = "append-user" => (Unsaid(p)' => Unsaid(p))
         /\ Write(p) => /\ Unanswered(p)' => turn[p] = "user"
                        /\ Op[p] = "append-user" => ~Unsaid(p)'
<1>. USE DEF Goto, Finish, TypeOK, PartsOfTurn, Undecided, TurnOfStage, Unanswered,
             Unsaid, After
<1>0. /\ PartsOfTurn(p) /\ Undecided(p) /\ TurnOfStage(p)
      /\ Op[p] = "append-user" => turn[p] = "user"
      /\ turn[p] \in {"user", "assistant"}
  BY DEF TurnInv, NoMessage
<1>1. CASE Start(p) \/ Read(p) \/ Acquire(p)
  BY <1>0, <1>1 DEF Start, Read, Acquire, Write
<1>2. CASE Answer(p)
  BY <1>0, <1>2, ConstantsAssumption DEF Answer, Write
<1>3. CASE Release(p)
  BY <1>0, <1>3 DEF Release, BaselineDue, Write
<1>4. CASE Preflight(p)
  BY <1>0, <1>4 DEF Preflight, AfterPreflight, Scan, Unstable, Verify, Write
<1>5. CASE Recheck(p)
  BY <1>0, <1>5 DEF Recheck, Scan, Unstable, Verify, Write
<1>6. CASE Derive(p)
  BY <1>0, <1>6 DEF Derive, Scan, Unstable, BaselineDue, Write
<1>7. CASE CheckCollision(p)
  BY <1>0, <1>7 DEF CheckCollision, Completed, BaselineDue, Leave, Write
<1>8. CASE Write(p)
  BY <1>0, <1>8 DEF Write, Completed, BaselineDue
<1>9. CASE Fault(p)
  BY <1>0, <1>9 DEF Fault, AcquireFails, WriteFails, ReleaseFails, Crash, Leave, Write
<1>10. CASE PlainAllocate(p)
  BY <1>0, <1>10 DEF PlainAllocate, Write
<1>. QED
  BY <1>1, <1>2, <1>3, <1>4, <1>5, <1>6, <1>7, <1>8, <1>9, <1>10 DEF Step

LEMMA NextTurn == TypeOK /\ TurnInv /\ [Next]_vars => TurnInv'
<1>. SUFFICES ASSUME TypeOK, TurnInv, [Next]_vars, NEW q \in Writer
              PROVE  /\ PartsOfTurn(q)' /\ Undecided(q)' /\ TurnOfStage(q)'
                     /\ NoReply(q)' /\ NoMessage(q)'
  BY DEF TurnInv
<1>1. /\ PartsOfTurn(q) /\ Undecided(q) /\ TurnOfStage(q)
      /\ NoReply(q) /\ NoMessage(q)
  BY DEF TurnInv
<1>2. AssistantKind \in SUBSET Kind /\ {"user"} \in SUBSET Kind
  BY DEF Kind
<1>3. CASE Step(q) \/ Fault(q) \/ PlainAllocate(q)
  <2>1. CASE ~Write(q)
    <3>1. /\ Authored(q, AssistantKind)' => Authored(q, AssistantKind)
          /\ Authored(q, {"user"})' => Authored(q, {"user"})
      BY <1>2, <2>1, NewAuthor
    <3>. QED
      BY <1>1, <1>3, <2>1, <3>1, StepTurn DEF NoReply, NoMessage
  <2>2. CASE Write(q)
    <3>1. ASSUME Unanswered(q)' PROVE ~Authored(q, AssistantKind)'
      <4>1. turn[q] = "user" /\ todo[q] = {"user"}
        BY <1>1, <1>3, <2>2, <3>1, StepTurn DEF Write, PartsOfTurn
      <4>2. ~Authored(q, AssistantKind)
        BY <1>1, <4>1 DEF NoReply, Unanswered
      <4>. QED
        BY <1>2, <4>1, <4>2, NewAuthor DEF AssistantKind
    <3>2. /\ PartsOfTurn(q)' /\ Undecided(q)' /\ TurnOfStage(q)'
          /\ Op[q] = "append-user" => turn'[q] = "user"
          /\ Op[q] = "append-user" => ~Unsaid(q)'
      BY <1>3, <2>2, StepTurn
    <3>3. NoReply(q)'
      BY <3>1 DEF NoReply
    <3>4. NoMessage(q)'
      BY <3>2 DEF NoMessage
    <3>. QED
      BY <3>2, <3>3, <3>4
  <2>. QED
    BY <2>1, <2>2
<1>4. CASE ~(Step(q) \/ Fault(q) \/ PlainAllocate(q))
  <2>1. pc'[q] = pc[q] /\ turn'[q] = turn[q] /\ todo'[q] = todo[q] /\ out'[q] = out[q]
    BY <1>4, AnActorMoves, OthersWait
  <2>2. ~Write(q)
    BY <1>4 DEF Step
  <2>3. /\ Authored(q, AssistantKind)' => Authored(q, AssistantKind)
        /\ Authored(q, {"user"})' => Authored(q, {"user"})
    BY <1>2, <2>2, NewAuthor
  <2>4. PartsOfTurn(q)' /\ Undecided(q)' /\ TurnOfStage(q)'
    BY <1>1, <2>1 DEF PartsOfTurn, Undecided, TurnOfStage, BaselineDue
  <2>5. /\ Unanswered(q)' => Unanswered(q)
        /\ Unsaid(q)' => Unsaid(q)
    BY <2>1 DEF Unanswered, Unsaid
  <2>. QED
    BY <1>1, <2>1, <2>3, <2>4, <2>5 DEF NoReply, NoMessage
<1>. QED
  BY <1>3, <1>4

LEMMA TurnKept == Spec => []TurnInv
<1>1. Init => TurnInv
  <2>. SUFFICES ASSUME Init, NEW p \in Writer
                PROVE  /\ PartsOfTurn(p) /\ Undecided(p) /\ TurnOfStage(p)
                       /\ NoReply(p) /\ NoMessage(p)
    BY DEF TurnInv
  <2>1. Seed # p /\ Nobody # p /\ p \in Author
    BY ConstantsAssumption DEF Author
  <2>2. \A i \in Index, k \in Kind : file[i][k] # p
    BY <2>1, SeededAt DEF Init
  <2>3. ~Authored(p, AssistantKind) /\ ~Authored(p, {"user"})
    BY <2>2 DEF Authored, Kind
  <2>. QED
    BY <2>3 DEF Init, PartsOfTurn, Undecided, TurnOfStage, NoReply, NoMessage
<1>. QED
  BY <1>1, NextTurn, TypeCorrect, PTL DEF Spec

\* A run that ends with the conflict exit code has left no assistant artifact,
\* and append-user none at all: for plain and cooperative writers together,
\* with tool results, crashes and claims removed by operators.
THEOREM ConflictsAreClean == Spec => []ConflictWritesNothing
<1>1. TurnInv => ConflictWritesNothing
  BY DEF TurnInv, NoReply, NoMessage, Unanswered, Unsaid, ConflictWritesNothing
<1>. QED
  BY <1>1, TurnKept, PTL

------------------------------------------------------------------------------
\* The invariants of the claim and of the log.
CoopInv == TypeOK /\ HoldsClaim /\ TargetsFree /\ LogInv /\ TurnInv

\* A turn is written after everything else, and only under the claim.
LEMMA WritesLast ==
  ASSUME AllCooperative, CoopInv, NEW p \in Writer, Write(p)
  PROVE  /\ \A q \in Writer : InCritical(q) => q = p
         /\ pc[p] = "write" /\ obs[p].next = exp[p].next /\ obs[p].next \in Index
         /\ \A i \in Index : Used(file, i) => i <= obs[p].next
         /\ TailOf(file', obs[p].next + 1)
<1>. USE DEF CoopInv
<1>1. pc[p] = "write" /\ obs[p].next = exp[p].next /\ obs[p].next \in Index
  BY DEF Write, LogInv, WritesAtTail, TypeOK
<1>2. \A q \in Writer : InCritical(q) => q = p
  BY <1>1 DEF HoldsClaim, InCritical, AllCooperative
<1>3. \A i \in Index : OwnersIn(file)[i] # {} => i <= obs[p].next
  <2>1. \A n \in Index, i \in Index : i < n \/ i < n + 1 => i <= n
    BY IndexFacts
  <2>. QED
    BY <1>1, <2>1 DEF LogInv, WritesAtTail, TailOf
<1>4. \A i \in Index : Used(file, i) => i <= obs[p].next
  BY <1>3, UsedIsOwned DEF LogInv
<1>. QED
  BY <1>1, <1>2, <1>4, WriteTail

------------------------------------------------------------------------------
(* The reply follows the message of the same run *)

\* The message of p is at the index before n.
FollowsOwn(p, n) == n > 0 /\ file[n - 1]["user"] = p

\* What --input --continue carries from its user turn to its reply.
OwnTurnFirst(p) ==
  Op[p] = "input" =>
    /\ pc[p] = "derive" => \E i \in Index : TailOf(file, i + 1) /\ file[i]["user"] = p
    /\ pc[p] = "derive-verify" => FollowsOwn(p, obs[p].next)
    /\ turn[p] = "assistant" \/ (pc[p] = "release" /\ out[p] = "none") =>
         FollowsOwn(p, exp[p].next)

ReplyInv == ReplyFollowsOwnUser /\ \A p \in Writer : OwnTurnFirst(p)

LEMMA FollowsOwnKept ==
  ASSUME TypeOK, TargetsFree, [Next]_vars, NEW p \in Writer,
         NEW n \in Index \cup {Exhausted}, FollowsOwn(p, n)
  PROVE  n > 0 /\ file'[n - 1]["user"] = p
<1>1. n - 1 \in Index /\ n > 0
  BY ConstantsAssumption DEF FollowsOwn, Index, Exhausted
<1>2. "user" \in Kind /\ p # Nobody
  BY ConstantsAssumption DEF Kind, Author
<1>. QED
  BY <1>1, <1>2, Keeps DEF FollowsOwn

\* The derivation lists the tail after the writer's own message.
LEMMA DeriveAfterOwn ==
  ASSUME AllCooperative, CoopInv, NEW p \in Writer, OwnTurnFirst(p), Op[p] = "input",
         pc[p] = "derive", NEW n \in Index, NEW t, Allocates(n, file, t)
  PROVE  FollowsOwn(p, n)
<1>. USE DEF CoopInv
<1>1. PICK i \in Index : TailOf(file, i + 1) /\ file[i]["user"] = p
  BY DEF OwnTurnFirst
<1>2. TailOf(file, n)
  BY AllocatesTail DEF LogInv
<1>3. i + 1 \in Index \cup {Exhausted}
  BY ConstantsAssumption DEF Index, Exhausted
<1>4. n = i + 1
  BY <1>1, <1>2, <1>3, TailIsOne
<1>5. n > 0 /\ n - 1 = i
  BY <1>4, IndexFacts
<1>. QED
  BY <1>1, <1>5 DEF FollowsOwn

LEMMA StepOwnTurn ==
  ASSUME AllCooperative, CoopInv, NEW p \in Writer, OwnTurnFirst(p), Op[p] = "input",
         [Next]_vars, Step(p)
  PROVE  OwnTurnFirst(p)'
<1>. USE DEF CoopInv
<1>0. /\ TypeOK /\ PartsOfTurn(p) /\ Undecided(p) /\ TurnOfStage(p)
      /\ turn[p] \in {"user", "assistant"}
      /\ exp[p].next \in Index \cup {Exhausted} /\ obs[p].next \in Index
  BY DEF TurnInv, TypeOK, State
<1>1. FollowsOwn(p, exp[p].next) => exp[p].next > 0 /\ file'[exp[p].next - 1]["user"] = p
  BY <1>0, FollowsOwnKept
<1>. HIDE DEF CoopInv
<1>. USE DEF Goto, Finish
<1>2. CASE Start(p) \/ Preflight(p) \/ Read(p) \/ Answer(p) \/ Acquire(p)
  <2>1. turn'[p] = turn[p]
    BY <1>2 DEF Start, Preflight, Read, Answer, Acquire, Scan, Unstable, Verify
  <2>2. pc'[p] \notin {"derive", "derive-verify", "release"}
    BY <1>0, <1>2 DEF Start, Preflight, AfterPreflight, Read, Answer, Acquire, Scan,
       Unstable, Verify, TypeOK
  <2>3. turn[p] = "assistant" => exp' = exp
    BY <1>0, <1>2 DEF Start, Preflight, Read, Answer, Acquire, Scan, Unstable, Verify,
       TurnOfStage
  <2>. QED
    BY <1>1, <2>1, <2>2, <2>3 DEF OwnTurnFirst, FollowsOwn
<1>3. CASE Recheck(p)
  <2>1. turn'[p] = turn[p] /\ exp' = exp
    BY <1>3 DEF Recheck, Scan, Unstable, Verify
  <2>2. /\ pc'[p] \notin {"derive", "derive-verify"}
        /\ pc'[p] = "release" => out'[p] # "none"
    BY <1>0, <1>3 DEF Recheck, Scan, Unstable, Verify, TypeOK
  <2>. QED
    BY <1>1, <2>1, <2>2 DEF OwnTurnFirst, FollowsOwn
<1>4. CASE CheckCollision(p)
  <2>1. exp' = exp /\ turn' = turn
    BY <1>4 DEF CheckCollision, Completed, AllCooperative
  <2>2. /\ pc'[p] \notin {"derive", "derive-verify"}
        /\ pc'[p] = "release" /\ out'[p] = "none" => turn[p] = "assistant"
    BY <1>0, <1>4 DEF CheckCollision, Completed, Leave, BaselineDue, PartsOfTurn,
       AllCooperative, TypeOK
  <2>. QED
    BY <1>1, <2>1, <2>2 DEF OwnTurnFirst, FollowsOwn
<1>5. CASE Write(p)
  <2>1. PICK k \in todo[p] :
          /\ file' = [file EXCEPT ![obs[p].next][k] = p]
          /\ IF todo[p] = {k} THEN Completed(p) ELSE UNCHANGED <<pc, turn, out>>
    BY <1>5 DEF Write
  <2>2. exp' = exp /\ turn' = turn /\ pc[p] = "write"
    BY <1>5, <2>1 DEF Write, Completed, AllCooperative
  <2>3. CASE turn[p] = "assistant"
    <3>1. pc'[p] \notin {"derive", "derive-verify"}
      BY <1>0, <2>1, <2>2, <2>3 DEF Completed, BaselineDue, AllCooperative, TypeOK
    <3>. QED
      BY <1>1, <2>2, <2>3, <3>1 DEF OwnTurnFirst, FollowsOwn
  <2>4. CASE turn[p] = "user"
    <3>1. todo[p] = {"user"} /\ k = "user"
      BY <2>1, <2>2, <2>4, <1>0 DEF PartsOfTurn
    <3>2. pc'[p] = "derive"
      BY <1>0, <2>1, <2>4, <3>1 DEF Completed, BaselineDue, AllCooperative, TypeOK
    <3>3. file'[obs[p].next]["user"] = p
      BY <1>0, <2>1, <3>1 DEF TypeOK, Directory, Kind
    <3>4. TailOf(file', obs[p].next + 1)
      BY <1>5, WritesLast
    <3>5. \E i \in Index : TailOf(file', i + 1) /\ file'[i]["user"] = p
      BY <1>0, <3>3, <3>4
    <3>. QED
      BY <2>2, <2>4, <3>2, <3>5 DEF OwnTurnFirst, TailOf
  <2>. QED
    BY <1>0, <2>3, <2>4
<1>6. CASE Derive(p)
  <2>1. turn' = turn /\ turn[p] = "user" /\ file' = file
    BY <1>0, <1>6 DEF Derive, Scan, Unstable, TurnOfStage, BaselineDue
  <2>2. CASE Scan(p, "derive", "derive-verify", "assistant", "release")
    <3>1. CASE pc' = [pc EXCEPT ![p] = "release"] /\ out' = [out EXCEPT ![p] = "error"]
      BY <1>0, <2>1, <3>1 DEF OwnTurnFirst, TypeOK
    <3>2. CASE \E n \in Index : /\ Allocates(n, file, "assistant")
                                /\ obs' = [obs EXCEPT ![p] = [snap |-> file, next |-> n]]
                                /\ pc' = [pc EXCEPT ![p] = "derive-verify"]
      <4>1. FollowsOwn(p, obs'[p].next) /\ pc'[p] = "derive-verify"
        BY <1>0, <2>2, <3>2, DeriveAfterOwn DEF Scan, TypeOK
      <4>. QED
        BY <2>1, <4>1 DEF OwnTurnFirst, FollowsOwn
    <3>. QED
      BY <2>2, <3>1, <3>2 DEF Scan
  <2>3. CASE Unstable(p, "derive-verify", "release")
    BY <1>0, <2>1, <2>3 DEF Unstable, OwnTurnFirst, TypeOK
  <2>4. CASE pc[p] = "derive-verify" /\ exp' = [exp EXCEPT ![p] = Seen(p)]
             /\ pc' = [pc EXCEPT ![p] = "release"]
    <3>1. exp'[p].next = obs[p].next /\ pc'[p] = "release"
      BY <1>0, <2>4 DEF Seen, TypeOK
    <3>2. FollowsOwn(p, obs[p].next)
      BY <2>4 DEF OwnTurnFirst
    <3>. QED
      BY <2>1, <3>1, <3>2 DEF OwnTurnFirst, FollowsOwn
  <2>. QED
    BY <1>6, <2>2, <2>3, <2>4 DEF Derive
<1>7. CASE Release(p)
  <2>1. file' = file /\ exp' = exp /\ pc[p] = "release" /\ pc'[p] \in {"read", "done"}
    BY <1>0, <1>7 DEF Release, TypeOK
  <2>2. turn'[p] = "assistant" => turn[p] = "assistant" \/ out[p] = "none"
    BY <1>0, <1>7 DEF Release, TypeOK
  <2>. QED
    BY <2>1, <2>2 DEF OwnTurnFirst, FollowsOwn
<1>. QED
  BY <1>2, <1>3, <1>4, <1>5, <1>6, <1>7 DEF Step

\* While p is deriving its baseline nobody else appends to the log.
LEMMA OnlyHolderAppends ==
  ASSUME AllCooperative, CoopInv, [Next]_vars, NEW p \in Writer, InCritical(p), ~Write(p)
  PROVE  OwnersIn(file') = OwnersIn(file)
<1>1. CASE file' = file
  BY <1>1
<1>2. ASSUME NEW q \in Writer, Write(q) PROVE FALSE
  BY <1>2, WritesLast
<1>3. ASSUME NEW i \in Index, ToolResult(i) PROVE OwnersIn(file') = OwnersIn(file)
  BY <1>3, ResultKeepsOwners DEF CoopInv
<1>. QED
  BY <1>1, <1>2, <1>3, FileChange DEF CoopInv

LEMMA NextReply ==
  ASSUME AllCooperative, CoopInv, ReplyInv, [Next]_vars
  PROVE  ReplyInv'
<1>0. TypeOK /\ HoldsClaim /\ TargetsFree /\ LogInv /\ TurnInv
  BY DEF CoopInv
<1>1. ASSUME NEW p \in Writer PROVE OwnTurnFirst(p)'
  <2>. SUFFICES ASSUME Op[p] = "input" PROVE OwnTurnFirst(p)'
    BY DEF OwnTurnFirst
  <2>0. OwnTurnFirst(p)
    BY DEF ReplyInv
  <2>1. CASE Step(p)
    BY <2>0, <2>1, StepOwnTurn
  <2>2. FollowsOwn(p, exp[p].next) => exp[p].next > 0 /\ file'[exp[p].next - 1]["user"] = p
    BY <1>0, FollowsOwnKept DEF TypeOK, State
  <2>3. CASE Fault(p)
    <3>1. file' = file /\ exp' = exp /\ turn' = turn
      BY <2>3 DEF Fault, AcquireFails, WriteFails, ReleaseFails, Crash
    <3>2. /\ pc'[p] \notin {"derive", "derive-verify"}
          /\ pc'[p] = "release" => out'[p] = "error"
      BY <1>0, <2>3 DEF Fault, AcquireFails, WriteFails, ReleaseFails, Crash, Goto,
         Finish, Leave, TypeOK
    <3>. QED
      BY <2>0, <2>2, <3>1, <3>2 DEF OwnTurnFirst, FollowsOwn
  <2>4. CASE ~Step(p) /\ ~Fault(p)
    <3>1. Plain = {}
      BY DEF Plain, AllCooperative
    <3>2. /\ pc'[p] = pc[p] /\ turn'[p] = turn[p] /\ exp'[p] = exp[p]
          /\ obs'[p] = obs[p] /\ out'[p] = out[p]
      BY <1>0, <2>4, <3>1, AnActorMoves, OthersWait
    <3>3. pc[p] = "derive" => \E i \in Index : TailOf(file', i + 1) /\ file'[i]["user"] = p
      <4>. SUFFICES ASSUME pc[p] = "derive"
                    PROVE  \E i \in Index : TailOf(file', i + 1) /\ file'[i]["user"] = p
        OBVIOUS
      <4>1. PICK i \in Index : TailOf(file, i + 1) /\ file[i]["user"] = p
        BY <2>0 DEF OwnTurnFirst
      <4>2. OwnersIn(file') = OwnersIn(file)
        BY <2>4, OnlyHolderAppends DEF InCritical, AllCooperative, Step
      <4>3. file'[i]["user"] = p
        BY <1>0, <4>1, Keeps, ConstantsAssumption DEF Kind, Author
      <4>. QED
        BY <4>1, <4>2, <4>3 DEF TailOf
    <3>4. FollowsOwn(p, obs[p].next) => obs[p].next > 0 /\ file'[obs[p].next - 1]["user"] = p
      BY <1>0, FollowsOwnKept DEF TypeOK
    <3>. QED
      BY <2>0, <2>2, <3>2, <3>3, <3>4 DEF OwnTurnFirst, FollowsOwn, TailOf
  <2>. QED
    BY <2>1, <2>3, <2>4
<1>2. ASSUME NEW p \in Writer, Op[p] = "input", NEW i \in Index, NEW k \in AssistantKind,
             file'[i][k] = p
      PROVE  i > 0 /\ file'[i - 1]["user"] = p
  <2>0. k \in Kind /\ i \in Index \cup {Exhausted}
    BY DEF Kind
  <2>1. FollowsOwn(p, i)
    <3>1. CASE file[i][k] = p
      BY <1>2, <3>1 DEF ReplyInv, ReplyFollowsOwnUser, AllCooperative, FollowsOwn
    <3>2. CASE file[i][k] # p
      <4>1. Write(p) /\ i = obs[p].next /\ k \in todo[p]
        BY <1>0, <1>2, <2>0, <3>2, NewAt
      <4>2. turn[p] = "assistant"
        BY <1>0, <4>1 DEF TurnInv, PartsOfTurn, Write, AssistantKind, TypeOK
      <4>3. i = exp[p].next
        BY <4>1, WritesLast
      <4>. QED
        BY <1>2, <4>2, <4>3 DEF ReplyInv, OwnTurnFirst
    <3>. QED
      BY <3>1, <3>2
  <2>. QED
    BY <1>0, <2>0, <2>1, FollowsOwnKept
<1>. QED
  BY <1>1, <1>2 DEF ReplyInv, ReplyFollowsOwnUser

LEMMA CoopKept == ASSUME AllCooperative PROVE Spec => []CoopInv
BY TypeCorrect, ClaimHeld, TargetsAreFree, LogKept, TurnKept, PTL DEF CoopInv

\* The reply of an --input --continue run takes the index right after the
\* message of that same run: what it derived under the claim it is held to
\* when it comes back from the model.
THEOREM ReplyIsNext == ASSUME AllCooperative PROVE Spec => []ReplyFollowsOwnUser
<1>1. Init => ReplyInv
  <2>. SUFFICES ASSUME Init PROVE ReplyInv
    OBVIOUS
  <2>1. \A i \in Index, k \in Kind, p \in Writer : file[i][k] # p
    <3>1. \A p \in Writer : Seed # p /\ Nobody # p
      BY ConstantsAssumption DEF Author
    <3>. QED
      BY <3>1, SeededAt DEF Init
  <2>2. ReplyFollowsOwnUser
    BY <2>1 DEF ReplyFollowsOwnUser, Kind
  <2>3. \A p \in Writer : OwnTurnFirst(p)
    BY DEF Init, OwnTurnFirst
  <2>. QED
    BY <2>2, <2>3 DEF ReplyInv
<1>2. CoopInv /\ ReplyInv /\ [Next]_vars => ReplyInv'
  BY NextReply
<1>3. ReplyInv => ReplyFollowsOwnUser
  BY DEF ReplyInv
<1>. QED
  BY <1>1, <1>2, <1>3, CoopKept, PTL DEF Spec

------------------------------------------------------------------------------
(* A reply answers what it was generated from *)

\* Every artifact in a is in b.
Within(a, b) == \A i \in Index, k \in Kind : a[i][k] # Nobody => b[i][k] = a[i][k]

\* The messages before index n are those of the prompt, and it had no others.
PromptUpTo(p, n) ==
  /\ \A j \in Index, m \in Kind \ {"result"} : j < n => file[j][m] = prompt[p][j][m]
  /\ \A j \in Index : j >= n => ~Used(prompt[p], j)

\* What was expected is in the prompt, and what was in the prompt is there yet.
PromptInv(p) ==
  /\ Within(exp[p].snap, file)
  /\ Within(prompt[p], file)
  /\ turn[p] = "assistant" /\ pc[p] \in {"await", "claim", "recheck", "recheck-verify"} =>
       Within(exp[p].snap, prompt[p])
  /\ ByFingerprint(p) /\ turn[p] = "assistant" /\ pc[p] \in {"collide", "write"} =>
       PromptUpTo(p, obs[p].next)

AnswerInv == PromptIsPrefix /\ \A p \in Writer : PromptInv(p)

LEMMA WithinKept ==
  ASSUME TypeOK, TargetsFree, [Next]_vars, NEW dir, Within(dir, file)
  PROVE  Within(dir, file')
<1>. SUFFICES ASSUME NEW i \in Index, NEW k \in Kind, dir[i][k] # Nobody
              PROVE  file'[i][k] = dir[i][k]
  BY DEF Within
<1>1. file[i][k] = dir[i][k]
  BY DEF Within
<1>. QED
  BY <1>1, Keeps

\* A fingerprint that still matches is that of the prompt.
LEMMA MatchedPrompt ==
  ASSUME TypeOK, LogInv, NEW p \in Writer, file = exp[p].snap,
         Within(exp[p].snap, prompt[p]), Within(prompt[p], file),
         NEW n \in Index, TailOf(file, n)
  PROVE  PromptUpTo(p, n)
<1>1. \A i \in Index, k \in Kind : prompt[p][i][k] = file[i][k]
  BY DEF Within
<1>2. \A j \in Index : j >= n => ~Used(file, j)
  <2>1. \A j \in Index : j >= n => ~(j < n)
    BY IndexFacts
  <2>. QED
    BY <2>1, UsedIsOwned DEF TailOf, LogInv
<1>. QED
  BY <1>1, <1>2 DEF PromptUpTo, Used

LEMMA StepPrompt ==
  ASSUME AllCooperative, CoopInv, NEW p \in Writer, PromptInv(p),
         [Next]_vars, Step(p), ~Write(p)
  PROVE  PromptInv(p)'
<1>0. /\ TypeOK /\ TargetsFree /\ LogInv /\ TurnOfStage(p) /\ PartsOfTurn(p)
      /\ ListsTail(p) /\ obs[p].next \in Index
  BY DEF CoopInv, TurnInv, LogInv, TypeOK
<1>1. Within(exp[p].snap, file) /\ Within(prompt[p], file) /\ Within(file, file)
  BY DEF PromptInv, Within
<1>2. file' = file
  BY DEF Step, Start, Preflight, Read, Answer, Acquire, Recheck, CheckCollision,
     Derive, Release, Scan, Unstable, Verify
<1>. USE DEF Goto, Finish
<1>3. CASE Start(p) \/ Preflight(p)
  <2>1. /\ exp'[p].snap = exp[p].snap \/ exp'[p].snap = file
        /\ prompt' = prompt
    BY <1>0, <1>3 DEF Start, Preflight, Scan, Unstable, Verify, TypeOK
  <2>2. turn' = turn
    BY <1>3 DEF Start, Preflight, Scan, Unstable, Verify
  <2>3. pc'[p] \in {"preflight", "preflight-verify", "read", "await", "done"}
    BY <1>0, <1>3 DEF Start, Preflight, AfterPreflight, Scan, Unstable, Verify,
       TypeOK, AllCooperative
  <2>4. turn[p] = "assistant" => pc'[p] # "await"
    BY <1>0, <1>3 DEF Start, Preflight, AfterPreflight, Scan, Unstable, Verify,
       TypeOK, AllCooperative
  <2>. QED
    BY <1>1, <1>2, <2>1, <2>2, <2>3, <2>4 DEF PromptInv
<1>4. CASE Read(p)
  <2>1. exp' = exp /\ prompt'[p] = file /\ pc'[p] \in {"await", "done"}
    BY <1>0, <1>4 DEF Read, TypeOK
  <2>. QED
    BY <1>1, <1>2, <2>1 DEF PromptInv
<1>5. CASE Answer(p) \/ Acquire(p)
  <2>1. exp' = exp /\ prompt' = prompt /\ turn' = turn
    BY <1>5 DEF Answer, Acquire
  <2>2. /\ pc[p] \in {"await", "claim"}
        /\ pc'[p] \in {"claim", "recheck", "done"}
    BY <1>0, <1>5 DEF Answer, Acquire, AllCooperative, TypeOK
  <2>. QED
    BY <1>2, <2>1, <2>2 DEF PromptInv
<1>6. CASE Recheck(p)
  <2>1. exp' = exp /\ prompt' = prompt /\ turn' = turn
    BY <1>6 DEF Recheck, Scan, Unstable, Verify
  <2>2. pc[p] \in {"recheck", "recheck-verify"}
    BY <1>6 DEF Recheck, Scan, Unstable, Verify
  <2>3. CASE pc'[p] # "collide"
    <3>1. pc'[p] \in {"recheck-verify", "release"}
      BY <1>0, <1>6, <2>3 DEF Recheck, Scan, Unstable, Verify, TypeOK
    <3>. QED
      BY <1>2, <2>1, <2>2, <3>1 DEF PromptInv
  <2>4. CASE pc'[p] = "collide"
    <3>1. /\ pc[p] = "recheck-verify" /\ obs'[p].next = obs[p].next
          /\ ByFingerprint(p) => file = exp[p].snap
      BY <1>0, <1>6, <2>4 DEF Recheck, Scan, Unstable, Verify, Matches, Seen, TypeOK
    <3>2. TailOf(file, obs[p].next)
      BY <1>0, <3>1 DEF ListsTail
    <3>3. ByFingerprint(p) /\ turn[p] = "assistant" => PromptUpTo(p, obs[p].next)
      BY <1>0, <1>1, <2>2, <3>1, <3>2, MatchedPrompt DEF PromptInv
    <3>. QED
      BY <1>2, <2>1, <2>4, <3>1, <3>3 DEF PromptInv, PromptUpTo
  <2>. QED
    BY <2>3, <2>4
<1>7. CASE CheckCollision(p)
  <2>1. exp' = exp /\ prompt' = prompt /\ turn' = turn /\ obs' = obs /\ pc[p] = "collide"
    BY <1>7 DEF CheckCollision, Completed, AllCooperative
  <2>2. pc'[p] \in {"write", "derive", "release"}
    BY <1>0, <1>7 DEF CheckCollision, Completed, Leave, AllCooperative, TypeOK
  <2>. QED
    BY <1>2, <2>1, <2>2 DEF PromptInv, PromptUpTo
<1>8. CASE Derive(p) \/ Release(p)
  <2>1. exp'[p].snap = exp[p].snap \/ exp'[p].snap = file
    BY <1>0, <1>8 DEF Derive, Release, Scan, Unstable, Seen, TypeOK
  <2>2. prompt' = prompt /\ pc'[p] \in {"derive-verify", "release", "read", "done"}
    BY <1>0, <1>8 DEF Derive, Release, Scan, Unstable, TypeOK
  <2>. QED
    BY <1>1, <1>2, <2>1, <2>2 DEF PromptInv
<1>. QED
  BY <1>3, <1>4, <1>5, <1>6, <1>7, <1>8 DEF Step

\* What a step does to the messages: nothing, or p adds to the last index.
LEMMA MessagesBefore ==
  ASSUME AllCooperative, CoopInv, [Next]_vars
  PROVE  \/ \A j \in Index, m \in Kind \ {"result"} : file'[j][m] = file[j][m]
         \/ \E p \in Writer : /\ Write(p)
                              /\ \A j \in Index : j < obs[p].next => file'[j] = file[j]
<1>1. ASSUME NEW p \in Writer, NEW k \in Kind, Write(p),
             file' = [file EXCEPT ![obs[p].next][k] = p]
      PROVE  \A j \in Index : j < obs[p].next => file'[j] = file[j]
  <2>1. \A n \in Index, j \in Index : j < n => j # n
    BY IndexFacts
  <2>. QED
    BY <1>1, <2>1, WritesLast DEF CoopInv, TypeOK, Directory
<1>2. ASSUME NEW i \in Index, ToolResult(i)
      PROVE  \A j \in Index, m \in Kind \ {"result"} : file'[j][m] = file[j][m]
  BY <1>2 DEF ToolResult, CoopInv, TypeOK, Directory, Kind
<1>. QED
  BY <1>1, <1>2, FileChange DEF CoopInv

LEMMA NextAnswer ==
  ASSUME AllCooperative, CoopInv, AnswerInv, [Next]_vars
  PROVE  AnswerInv'
<1>0. TypeOK /\ HoldsClaim /\ TargetsFree /\ LogInv /\ TurnInv
  BY DEF CoopInv
<1>1. ASSUME NEW p \in Writer PROVE PromptInv(p)'
  <2>0. PromptInv(p)
    BY DEF AnswerInv
  <2>1. CASE Step(p) /\ ~Write(p)
    BY <2>0, <2>1, StepPrompt
  <2>2. Within(exp[p].snap, file') /\ Within(prompt[p], file')
    BY <1>0, <2>0, WithinKept DEF PromptInv
  <2>3. CASE Write(p)
    <3>1. /\ exp' = exp /\ prompt' = prompt /\ obs' = obs /\ turn' = turn
          /\ pc[p] = "write" /\ pc'[p] \in {"write", "derive", "release"}
      BY <1>0, <2>3 DEF Write, Completed, Goto, AllCooperative, TypeOK
    <3>2. \A j \in Index : j < obs[p].next => file'[j] = file[j]
      <4>1. \A n \in Index, j \in Index : j < n => j # n
        BY IndexFacts
      <4>. QED
        BY <1>0, <2>3, <4>1 DEF Write, TypeOK, Directory
    <3>3. PromptUpTo(p, obs[p].next) => PromptUpTo(p, obs[p].next)'
      BY <3>1, <3>2 DEF PromptUpTo
    <3>. QED
      BY <2>0, <2>2, <3>1, <3>3 DEF PromptInv
  <2>4. CASE Fault(p)
    <3>1. file' = file /\ exp' = exp /\ turn' = turn /\ prompt' = prompt
      BY <2>4 DEF Fault, AcquireFails, WriteFails, ReleaseFails, Crash
    <3>2. pc'[p] \in {"done", "release", "crashed"}
      BY <1>0, <2>4 DEF Fault, AcquireFails, WriteFails, ReleaseFails, Crash, Goto,
         Finish, Leave, TypeOK, AllCooperative
    <3>. QED
      BY <2>0, <3>1, <3>2 DEF PromptInv
  <2>5. CASE ~Step(p) /\ ~Fault(p)
    <3>1. Plain = {}
      BY DEF Plain, AllCooperative
    <3>2. /\ pc'[p] = pc[p] /\ turn'[p] = turn[p] /\ exp'[p] = exp[p]
          /\ obs'[p] = obs[p] /\ prompt'[p] = prompt[p]
      BY <1>0, <2>5, <3>1, AnActorMoves, OthersWait
    <3>3. pc[p] \in {"collide", "write"} =>
            \A j \in Index, m \in Kind \ {"result"} : file'[j][m] = file[j][m]
      BY <2>5, MessagesBefore, WritesLast DEF InCritical, AllCooperative, Step
    <3>4. pc[p] \in {"collide", "write"} /\ PromptUpTo(p, obs[p].next)
             => PromptUpTo(p, obs[p].next)'
      BY <3>2, <3>3 DEF PromptUpTo
    <3>. QED
      BY <2>0, <2>2, <3>2, <3>4 DEF PromptInv
  <2>. QED
    BY <2>1, <2>3, <2>4, <2>5
<1>2. ASSUME NEW p \in Writer, ByFingerprint(p), NEW i \in Index, NEW k \in AssistantKind,
             file'[i][k] = p
      PROVE  PromptUpTo(p, i)'
  <2>0. k \in Kind
    BY DEF Kind
  <2>1. PromptUpTo(p, i) /\ prompt'[p] = prompt[p]
    <3>1. CASE file[i][k] = p
      <4>1. PromptUpTo(p, i)
        BY <1>2, <3>1 DEF AnswerInv, PromptIsPrefix, PromptUpTo
      <4>2. Authored(p, AssistantKind)
        BY <3>1 DEF Authored
      <4>3. pc[p] # "read"
        BY <1>0, <4>2 DEF TurnInv, NoReply, Unanswered, After
      <4>4. prompt'[p] = prompt[p]
        <5>1. CASE Step(p)
          BY <4>3, <5>1 DEF Step, Start, Preflight, Read, Answer, Acquire, Recheck,
             CheckCollision, Write, Derive, Release, Scan, Unstable, Verify
        <5>2. CASE Fault(p)
          BY <5>2 DEF Fault, AcquireFails, WriteFails, ReleaseFails, Crash
        <5>3. CASE PlainAllocate(p)
          BY <5>3 DEF PlainAllocate
        <5>. QED
          BY <1>0, <5>1, <5>2, <5>3, AnActorMoves, OthersWait
      <4>. QED
        BY <4>1, <4>4
    <3>2. CASE file[i][k] # p
      <4>1. Write(p) /\ i = obs[p].next /\ k \in todo[p]
        BY <1>0, <1>2, <2>0, <3>2, NewAt
      <4>2. turn[p] = "assistant" /\ pc[p] = "write" /\ prompt' = prompt
        BY <1>0, <4>1 DEF TurnInv, PartsOfTurn, Write, AssistantKind, TypeOK
      <4>. QED
        BY <1>2, <4>1, <4>2 DEF AnswerInv, PromptInv
    <3>. QED
      BY <3>1, <3>2
  <2>2. ASSUME NEW j \in Index, NEW m \in Kind \ {"result"}, j < i
        PROVE  file'[j][m] = file[j][m]
    <3>1. ASSUME NEW q \in Writer, Write(q), \A l \in Index : l < obs[q].next => file'[l] = file[l]
          PROVE  file'[j][m] = file[j][m]
      <4>1. i <= obs[q].next
        <5>1. CASE file[i][k] = p
          <6>1. Used(file, i)
            BY <2>0, <5>1, ConstantsAssumption DEF Used, Author
          <6>. QED
            BY <3>1, <6>1, WritesLast
        <5>2. CASE file[i][k] # p
          <6>1. Write(p) /\ i = obs[p].next
            BY <1>0, <1>2, <2>0, <5>2, NewAt
          <6>2. q = p
            BY <3>1, <6>1, WritesLast DEF InCritical, AllCooperative, Write
          <6>. QED
            BY <6>1, <6>2, IndexFacts
        <5>. QED
          BY <5>1, <5>2
      <4>2. j < obs[q].next
        <5>1. \A a, b, c \in Index : a < b /\ b <= c => a < c
          BY IndexFacts
        <5>2. obs[q].next \in Index
          BY <1>0 DEF TypeOK
        <5>. QED
          BY <2>2, <4>1, <5>1, <5>2
      <4>. QED
        BY <3>1, <4>2
    <3>. QED
      BY <3>1, MessagesBefore
  <2>. QED
    BY <2>1, <2>2 DEF PromptUpTo
<1>. QED
  BY <1>1, <1>2 DEF AnswerInv, PromptIsPrefix, PromptUpTo

\* A reply committed under a fingerprint answers exactly the messages it was
\* generated from: the directory the prompt was read from, outside the claim,
\* is the one that precedes the reply, for good.
THEOREM RepliesAnswerTheirPrompt == ASSUME AllCooperative PROVE Spec => []PromptIsPrefix
<1>1. Init => AnswerInv
  <2>. SUFFICES ASSUME Init PROVE AnswerInv
    OBVIOUS
  <2>1. \A i \in Index, k \in Kind, p \in Writer : file[i][k] # p
    <3>1. \A p \in Writer : Seed # p /\ Nobody # p
      BY ConstantsAssumption DEF Author
    <3>. QED
      BY <3>1, SeededAt DEF Init
  <2>2. PromptIsPrefix
    BY <2>1 DEF PromptIsPrefix, Kind
  <2>3. \A p \in Writer : PromptInv(p)
    BY SeededAt DEF Init, PromptInv, Within
  <2>. QED
    BY <2>2, <2>3 DEF AnswerInv
<1>2. CoopInv /\ AnswerInv /\ [Next]_vars => AnswerInv'
  BY NextAnswer
<1>3. AnswerInv => PromptIsPrefix
  BY DEF AnswerInv
<1>. QED
  BY <1>1, <1>2, <1>3, CoopKept, PTL DEF Spec
==============================================================================
