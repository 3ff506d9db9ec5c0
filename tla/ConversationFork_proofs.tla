------------------------ MODULE ConversationFork_proofs ------------------------
(***************************************************************************)
(* That forks exclude each other and copy one moment of the source, for    *)
(* any number of them, any artifacts, any changes of the source and any    *)
(* faults.  A claim is taken only where there is none, and an operator      *)
(* removes one only after its fork ended; so who is working is who the      *)
(* claim names, and releasing it by its path can only remove the releaser's *)
(* own.  What a fork copies it has seen twice, and in between it has seen   *)
(* that nothing was missing: at that moment the source was like that.       *)
(***************************************************************************)
EXTENDS ConversationFork, TLAPS

\* What is known of the places of the forks.
Places ==
  /\ pc \in [Fork -> Stage]
  /\ claim \in Fork \cup {Nobody}

HoldsClaim == \A f \in Fork : Working(f) => claim = f

\* Who has no claim yet has no staging directory, so its failure ends it.
NothingToCleanUp == \A f \in Fork : pc[f] \in {"resolve", "claim"} => staging[f] = Nobody

IInv ==
  /\ Places /\ DOMAIN staging = Fork
  /\ HoldsClaim /\ NothingToCleanUp

\* The initial states satisfy the invariant.
LEMMA InitInv == Init => IInv
BY ConstantsAssumption
   DEF Init, IInv, Places, HoldsClaim, NothingToCleanUp, Working, Stage

\* A step before the claim is held, the creation of the claim included.
LEMMA BeforeInv ==
  ASSUME IInv, NEW f \in Fork, Resolve(f) \/ Acquire(f) \/ AcquireFails(f)
  PROVE  IInv'
<1> USE ConstantsAssumption
    DEF IInv, Places, HoldsClaim, NothingToCleanUp, Working, Stage, Goto, Settle, Fail
<1>1. CASE Resolve(f)      BY <1>1 DEF Resolve
<1>2. CASE Acquire(f)      BY <1>2 DEF Acquire
<1>3. CASE AcquireFails(f) BY <1>3 DEF AcquireFails
<1> QED BY <1>1, <1>2, <1>3

\* A step of the fork that holds the claim, which keeps it or gives it up.
LEMMA WorkingInv ==
  ASSUME IInv, NEW f \in Fork,
         Step(f) \/ StepFails(f) \/ Crash(f), ~Resolve(f), ~Acquire(f)
  PROVE  IInv'
<1> USE ConstantsAssumption
    DEF IInv, Places, HoldsClaim, NothingToCleanUp, Working, Stage, Goto, Settle, Fail
<1>1. CASE List(f)         BY <1>1 DEF List
<1>2. CASE Read(f)         BY <1>2 DEF Read
<1>3. CASE Relist(f)       BY <1>3 DEF Relist, Observed
<1>4. CASE MakeStaging(f)  BY <1>4 DEF MakeStaging
<1>5. CASE Copy(f)         BY <1>5 DEF Copy
<1>6. CASE Verify(f)       BY <1>6 DEF Verify
<1>7. CASE CheckTarget(f)  BY <1>7 DEF CheckTarget
<1>8. CASE Publish(f)      BY <1>8 DEF Publish
<1>9. CASE Cleanup(f)      BY <1>9 DEF Cleanup
<1>10. CASE Release(f)     BY <1>10 DEF Release
<1>11. CASE StepFails(f)   BY <1>11 DEF StepFails
<1>12. CASE Crash(f)       BY <1>12 DEF Crash
<1> QED BY <1>1, <1>2, <1>3, <1>4, <1>5, <1>6, <1>7, <1>8, <1>9, <1>10, <1>11, <1>12 DEF Step

\* Every step keeps the invariant; the source and the target do not enter it.
LEMMA StepInv == IInv /\ [Next]_vars => IInv'
<1> SUFFICES ASSUME IInv, [Next]_vars PROVE IInv'
  OBVIOUS
<1>1. ASSUME NEW f \in Fork, Step(f) \/ Fault(f) PROVE IInv'
  BY <1>1, BeforeInv, WorkingInv DEF Step, Fault
<1>2. ASSUME NEW a \in Touched, Change(a) PROVE IInv'
  BY <1>2 DEF Change, IInv, Places, HoldsClaim, NothingToCleanUp, Working, local
<1>3. CASE Squat
  BY <1>3 DEF Squat, IInv, Places, HoldsClaim, NothingToCleanUp, Working, local
<1>4. CASE OperatorRemovesClaim
  BY <1>4, ConstantsAssumption
     DEF OperatorRemovesClaim, IInv, Places, HoldsClaim, NothingToCleanUp, Working, local
<1>5. CASE UNCHANGED vars
  BY <1>5 DEF vars, local, IInv, Places, HoldsClaim, NothingToCleanUp, Working
<1> QED BY <1>1, <1>2, <1>3, <1>4, <1>5 DEF Next

\* Two forks never work on one target at the same time (claim.ts,
\* operation.ts), whatever is killed, fails or is cleaned up.
THEOREM Exclusion == Spec => []ForkExclusion
<1>1. IInv => ForkExclusion
  BY DEF IInv, HoldsClaim, ForkExclusion
<1> QED BY <1>1, InitInv, StepInv, PTL DEF Spec

------------------------------------------------------------------------------
(* The copy is of one moment *)

Looking(f) == pc[f] \in {"list", "read", "relist"}

\* What is at a name is its last version or nothing; later versions are others.
KnownVersions ==
  /\ \A a \in Artifact : latest[a] # 0 /\ latest[a] <= changed + 1 /\ source[a] \in {0, latest[a]}
  /\ \A f \in Fork : \A a \in Artifact :
       look[f].record[a] <= changed + 1 /\ look[f].first[a] <= changed + 1

\* How far f is: nothing is settled before it fails or publishes, its history
\* begins with it, and its first look is the one before the copy.
Progress(f) ==
  /\ pc[f] \notin {"cleanup", "release", "done", "crashed"} => status[f] = "none"
  /\ pc[f] = "resolve" => moments[f] = {}
  /\ pc[f] \notin {"resolve", "done", "crashed"} => Prefix(source) \in moments[f]
  /\ pc[f] \in {"resolve", "claim"} => ~look[f].after /\ look[f].pass = 1
  /\ pc[f] \in {"copy", "verify", "check-target", "rename"} => staging[f] # Nobody

\* m is what the first pass found, except for names under which there was
\* something else between the passes: what the first pass found there has not
\* been found again and never will be.
FoundBetween(f, m) ==
  /\ Names(m) = Names(look[f].first)
  /\ \A a \in Names(m) :
       \/ m[a] = look[f].first[a]
       \/ /\ latest[a] # look[f].first[a]
          /\ pc[f] # "list" => look[f].record[a] # look[f].first[a]

SecondPass(f) ==
  Looking(f) /\ ~look[f].after /\ look[f].pass = 2 => \E m \in moments[f] : FoundBetween(f, m)

\* From the first observation on the baseline is a moment of the source, and
\* from the verification on the staging directory is the baseline.
Based(f) ==
  /\ \/ Looking(f) /\ look[f].after
     \/ pc[f] \in {"stage", "copy", "verify", "check-target", "rename"}
     => baseline[f] \in moments[f]
  /\ (Looking(f) /\ look[f].after) \/ pc[f] \in {"check-target", "rename"}
     => staging[f] = baseline[f]

\* A fork that is about to publish does not meet the result of another.
StillFree(f) == pc[f] = "rename" => target.kind # "fork"

CopyInv ==
  /\ TypeOK /\ KnownVersions
  /\ target.kind # "fork" => target.content = NoArtifacts
  /\ \A f \in Fork : Progress(f) /\ SecondPass(f) /\ Based(f) /\ StillFree(f)

Own(f) == Progress(f) /\ SecondPass(f) /\ Based(f) /\ StillFree(f)

\* An observation is made of its five fields.
Looks == [after : BOOLEAN, pass : {1, 2}, unread : SUBSET Selected,
          record : Directory, first : Directory]

\* What a fork does changes nothing of the source.
LEMMA SourceStays ==
  ASSUME NEW f \in Fork, Step(f) \/ Fault(f)
  PROVE  UNCHANGED <<source, latest, changed>>
BY DEF Step, Fault, Resolve, Acquire, AcquireFails, List, Read, Relist, MakeStaging, Copy,
       Verify, CheckTarget, Publish, Cleanup, Release, StepFails, Crash

LEMMA DirectoryFacts ==
  /\ NoArtifacts \in Directory
  /\ Nobody \notin Directory
  /\ FirstLook(TRUE) \in Looks /\ FirstLook(FALSE) \in Looks
  /\ \A d \in Directory : Prefix(d) \in Directory
BY ConstantsAssumption DEF NoArtifacts, Directory, Version, FirstLook, Looks, Prefix

LEMMA CopyInit == Init => CopyInv
<1> SUFFICES ASSUME Init PROVE CopyInv
  OBVIOUS
<1> USE ConstantsAssumption
<1>1. source \in Directory /\ latest \in Directory /\ changed \in 0..Changes
  BY DEF Init, Directory, Version
<1>2. TypeOK
  BY <1>1, DirectoryFacts DEF Init, TypeOK, Looks, Stage, Target
<1>3. KnownVersions
  BY DEF Init, KnownVersions, FirstLook, NoArtifacts
<1>4. ASSUME NEW f \in Fork PROVE Progress(f) /\ SecondPass(f) /\ Based(f) /\ StillFree(f)
  BY DEF Init, Progress, SecondPass, Based, StillFree, Looking, FirstLook
<1>5. target.content = NoArtifacts
  BY DEF Init, Target
<1>. QED
  BY <1>2, <1>3, <1>4, <1>5 DEF CopyInv

\* Reading one artifact.
LEMMA ReadOne ==
  ASSUME TypeOK, NEW f \in Fork, Read(f), ~UNCHANGED look
  PROVE  \E a \in Selected :
           /\ source[a] # 0
           /\ look' \in [Fork -> Looks]
           /\ \A g \in Fork : g # f => look'[g] = look[g]
           /\ look'[f].after = look[f].after /\ look'[f].pass = look[f].pass
           /\ look'[f].first = look[f].first
           /\ look'[f].record = [look[f].record EXCEPT ![a] = source[a]]
           /\ pc' = [pc EXCEPT ![f] = IF look[f].unread = {a} THEN "relist" ELSE "read"]
<1>1. look \in [Fork -> Looks] /\ look[f] \in Looks /\ source \in Directory
  BY DEF TypeOK, Looks
<1>2. PICK a \in look[f].unread :
        /\ source[a] # 0
        /\ look' = [look EXCEPT ![f].unread = @ \ {a}, ![f].record[a] = source[a]]
        /\ pc' = [pc EXCEPT ![f] = IF look[f].unread = {a} THEN "relist" ELSE "read"]
  BY DEF Read, Goto
<1>3. a \in Selected /\ a \in Artifact /\ source[a] \in Version
  BY <1>1, <1>2, ConstantsAssumption DEF Looks, Directory
<1>4. /\ look'[f].after = look[f].after /\ look'[f].pass = look[f].pass
      /\ look'[f].unread = look[f].unread \ {a}
      /\ look'[f].record = [look[f].record EXCEPT ![a] = source[a]]
      /\ look'[f].first = look[f].first
      /\ \A g \in Fork : g # f => look'[g] = look[g]
  BY <1>1, <1>2 DEF Looks
<1>5. look' \in [Fork -> Looks]
  <2>1. [look[f].record EXCEPT ![a] = source[a]] \in Directory
    BY <1>1, <1>3 DEF Looks, Directory
  <2>2. look[f].unread \ {a} \in SUBSET Selected
    BY <1>1 DEF Looks
  <2>. QED
    BY <1>1, <1>2, <2>1, <2>2 DEF Looks
<1>. QED
  BY <1>2, <1>3, <1>4, <1>5

\* A step of a fork leaves the others where they are.
LEMMA OthersStay ==
  ASSUME TypeOK, NEW f \in Fork, Step(f) \/ Fault(f)
  PROVE  \A g \in Fork : g # f => /\ pc'[g] = pc[g]
                                  /\ look'[g] = look[g]
                                  /\ baseline'[g] = baseline[g]
                                  /\ staging'[g] = staging[g]
                                  /\ status'[g] = status[g]
<1> USE DEF Goto, Settle, Fail, TypeOK
<1>1. CASE Resolve(f)      BY <1>1 DEF Resolve
<1>2. CASE Acquire(f)      BY <1>2 DEF Acquire
<1>3. CASE List(f)         BY <1>3 DEF List
<1>4. CASE Read(f)
  <2>1. \A g \in Fork : g # f => look'[g] = look[g]
    BY <1>4, ReadOne
  <2>. QED
    BY <1>4, <2>1 DEF Read
<1>5. CASE Relist(f)       BY <1>5 DEF Relist, Observed
<1>6. CASE MakeStaging(f)  BY <1>6 DEF MakeStaging
<1>7. CASE Copy(f)         BY <1>7 DEF Copy
<1>8. CASE Verify(f)       BY <1>8 DEF Verify
<1>9. CASE CheckTarget(f)  BY <1>9 DEF CheckTarget
<1>10. CASE Publish(f)     BY <1>10 DEF Publish
<1>11. CASE Cleanup(f)     BY <1>11 DEF Cleanup
<1>12. CASE Release(f)     BY <1>12 DEF Release, Forget
<1>13. CASE AcquireFails(f) BY <1>13 DEF AcquireFails
<1>14. CASE StepFails(f)   BY <1>14 DEF StepFails
<1>15. CASE Crash(f)       BY <1>15 DEF Crash, Forget
<1>. QED
  BY <1>1, <1>2, <1>3, <1>4, <1>5, <1>6, <1>7, <1>8, <1>9, <1>10, <1>11, <1>12, <1>13, <1>14, <1>15
     DEF Step, Fault

\* What holds of the shared state, and of one fork.
Shared == /\ TypeOK /\ KnownVersions
          /\ target.kind # "fork" => target.content = NoArtifacts

\* A failing step keeps what was made, for the cleanup.
LEMMA FailKeeps ==
  ASSUME Shared, NEW f \in Fork, Fail(f), pc[f] \notin {"cleanup", "release", "done", "crashed"},
         UNCHANGED <<source, latest, changed, look, baseline, staging, target>>,
         claim' \in Fork \cup {Nobody},
         pc[f] # "resolve" => UNCHANGED moments,
         pc[f] = "resolve" => moments' = [moments EXCEPT ![f] = {Prefix(source)}],
         Progress(f)
  PROVE  Shared' /\ Own(f)'
<1>1. /\ pc' \in [Fork -> Stage] /\ pc'[f] \in {"cleanup", "release", "done"}
      /\ status' = [status EXCEPT ![f] = "failed"]
      /\ pc[f] = "resolve" \/ pc[f] = "claim" => pc'[f] # "release"
      /\ pc[f] = "resolve" => pc'[f] \in {"cleanup", "done"}
  BY DEF Fail, Settle, Goto, Shared, TypeOK, Stage
<1>2. /\ moments' \in [Fork -> SUBSET Directory]
      /\ pc'[f] # "done" => Prefix(source) \in moments'[f]
  BY <1>1, DirectoryFacts DEF Shared, TypeOK, Progress
<1>3. TypeOK'
  BY <1>1, <1>2 DEF Shared, TypeOK
<1>4. Shared'
  BY <1>3 DEF Shared, KnownVersions
<1>5. Own(f)'
  BY <1>1, <1>2 DEF Own, Progress, SecondPass, Based, StillFree, Looking, Prefix
<1>. QED
  BY <1>4, <1>5

\* Before the claim is held, and its creation.
LEMMA BeginKeeps ==
  ASSUME NEW f \in Fork, Shared, Own(f), Resolve(f) \/ Acquire(f) \/ AcquireFails(f)
  PROVE  Shared' /\ Own(f)'
<1>1. CASE Resolve(f)
  <2>1. CASE target.kind # "absent"
    BY <1>1, <2>1, FailKeeps DEF Resolve, Own, Shared, TypeOK
  <2>2. CASE target.kind = "absent"
    <3>1. Shared'
      BY <1>1, <2>2, DirectoryFacts DEF Resolve, Goto, Shared, TypeOK, KnownVersions, Stage
    <3>2. Own(f)'
      BY <1>1, <2>2 DEF Resolve, Goto, Shared, TypeOK, Own, Progress, SecondPass, Based, StillFree,
                        Looking, Prefix
    <3>. QED
      BY <3>1, <3>2
  <2>. QED
    BY <2>1, <2>2
<1>2. CASE Acquire(f)
  <2>1. CASE claim = Nobody
    <3>1. Shared'
      BY <1>2, <2>1 DEF Acquire, Goto, Shared, TypeOK, KnownVersions, Stage
    <3>2. Own(f)'
      BY <1>2, <2>1 DEF Acquire, Goto, Shared, TypeOK, Own, Progress, SecondPass, Based, StillFree,
                        Looking, Prefix
    <3>. QED
      BY <3>1, <3>2
  <2>2. CASE claim # Nobody
    BY <1>2, <2>2, FailKeeps DEF Acquire, Own, Shared, TypeOK
  <2>. QED
    BY <2>1, <2>2
<1>3. CASE AcquireFails(f)
  BY <1>3, FailKeeps DEF AcquireFails, Own, Shared, TypeOK
<1>. QED
  BY <1>1, <1>2, <1>3

\* A scan begins a pass; what the second pass finds is open again.
LEMMA ListKeeps ==
  ASSUME NEW f \in Fork, Shared, Own(f), List(f)
  PROVE  Shared' /\ Own(f)'
<1>1. /\ look \in [Fork -> Looks] /\ look[f] \in Looks /\ pc[f] = "list"
      /\ Listing \in SUBSET Selected
  BY DEF Shared, TypeOK, Looks, List, Listing
<1>2. /\ look' \in [Fork -> Looks] /\ look'[f].record = NoArtifacts
      /\ look'[f].after = look[f].after /\ look'[f].pass = look[f].pass
      /\ look'[f].first = look[f].first
      /\ \A g \in Fork : g # f => look'[g] = look[g]
  BY <1>1, DirectoryFacts DEF List, Looks
<1>3. pc' \in [Fork -> Stage] /\ pc'[f] \in {"relist", "read"}
  BY <1>1 DEF List, Goto, Shared, TypeOK, Stage
<1>4. TypeOK'
  BY <1>2, <1>3 DEF List, Shared, TypeOK, Looks
<1>5. KnownVersions'
  <2>1. ASSUME NEW g \in Fork, NEW a \in Artifact
        PROVE  look'[g].record[a] <= changed + 1 /\ look'[g].first[a] <= changed + 1
    BY <1>2 DEF Shared, TypeOK, KnownVersions, NoArtifacts
  <2>. QED
    BY <2>1 DEF List, Shared, KnownVersions
<1>6. SecondPass(f)'
  <2> SUFFICES ASSUME ~look[f].after, look[f].pass = 2
               PROVE  \E m \in moments[f] : FoundBetween(f, m)'
    BY <1>2 DEF SecondPass, List
  <2>1. PICK m \in moments[f] : FoundBetween(f, m)
    BY <1>1 DEF Own, SecondPass, Looking
  <2>2. \A a \in Names(look[f].first) : look'[f].record[a] # look[f].first[a]
    BY <1>2 DEF Names, NoArtifacts
  <2>3. FoundBetween(f, m)'
    BY <1>2, <2>1, <2>2 DEF FoundBetween, List, Names
  <2>. QED
    BY <2>3
<1>7. Own(f)'
  BY <1>1, <1>2, <1>3, <1>6 DEF Own, List, Progress, Based, StillFree, Looking, Prefix
<1>. QED
  BY <1>4, <1>5, <1>7 DEF Shared, List

\* What is read under a name is its last version.
LEMMA ReadKeeps ==
  ASSUME NEW f \in Fork, Shared, Own(f), Read(f)
  PROVE  Shared' /\ Own(f)'
<1>1. CASE UNCHANGED look
  BY <1>1, FailKeeps DEF Read, Own, Shared, TypeOK
<1>2. CASE ~UNCHANGED look
  <2>1. PICK a \in Selected :
           /\ source[a] # 0
           /\ look' \in [Fork -> Looks]
           /\ \A g \in Fork : g # f => look'[g] = look[g]
           /\ look'[f].after = look[f].after /\ look'[f].pass = look[f].pass
           /\ look'[f].first = look[f].first
           /\ look'[f].record = [look[f].record EXCEPT ![a] = source[a]]
           /\ pc' = [pc EXCEPT ![f] = IF look[f].unread = {a} THEN "relist" ELSE "read"]
    BY <1>2, ReadOne DEF Shared
  <2>2. /\ pc[f] = "read" /\ pc' \in [Fork -> Stage] /\ pc'[f] \in {"relist", "read"}
        /\ UNCHANGED <<source, latest, changed, moments, target, claim, baseline, staging, status>>
    BY <1>2, <2>1 DEF Read, Shared, TypeOK, Stage, Goto, Fail, Settle
  <2>3. TypeOK'
    BY <2>1, <2>2 DEF Shared, TypeOK, Looks
  <2>4. /\ look[f] \in Looks /\ a \in Artifact
        /\ \A b \in Artifact : look'[f].record[b] = IF b = a THEN latest[a] ELSE look[f].record[b]
    BY <2>1, ConstantsAssumption DEF Shared, TypeOK, KnownVersions, Looks, Directory
  <2>5. KnownVersions'
    BY <2>1, <2>2, <2>4 DEF Shared, KnownVersions
  <2>6. SecondPass(f)'
    <3> SUFFICES ASSUME ~look[f].after, look[f].pass = 2
                 PROVE  \E m \in moments[f] : FoundBetween(f, m)'
      BY <2>1, <2>2 DEF SecondPass
    <3>1. PICK m \in moments[f] : FoundBetween(f, m)
      BY <2>2 DEF Own, SecondPass, Looking
    <3>2. FoundBetween(f, m)'
      BY <2>1, <2>2, <2>4, <3>1 DEF FoundBetween, Names
    <3>. QED
      BY <3>2
  <2>7. Own(f)'
    BY <2>1, <2>2, <2>6 DEF Own, Progress, Based, StillFree, Looking, Prefix
  <2>. QED
    BY <2>2, <2>3, <2>5, <2>7 DEF Shared
<1>. QED
  BY <1>1, <1>2

\* Two passes that agree: what they found is one moment of the source, when the
\* first of them saw that nothing had come or gone.
LEMMA RelistKeeps ==
  ASSUME NEW f \in Fork, Shared, Own(f), Relist(f)
  PROVE  Shared' /\ Own(f)'
<1> DEFINE record == look[f].record
<1>1. /\ look \in [Fork -> Looks] /\ look[f] \in Looks /\ pc[f] = "relist" /\ record \in Directory
      /\ UNCHANGED <<source, latest, changed, moments, target, claim, staging>>
      /\ Prefix(source) \in moments[f] /\ moments[f] \subseteq Directory
  BY DEF Shared, TypeOK, Looks, Relist, Own, Progress
<1>2. CASE Fail(f) /\ UNCHANGED <<look, baseline>>
  BY <1>1, <1>2, FailKeeps DEF Own, Shared, TypeOK
<1>3. CASE /\ Names(record) = Listing /\ look[f].pass = 1
           /\ look' = [look EXCEPT ![f].pass = 2, ![f].first = look[f].record]
           /\ Goto(f, "list")
           /\ UNCHANGED <<baseline, status>>
  <2>1. /\ look' \in [Fork -> Looks] /\ look'[f].record = record /\ look'[f].first = record
        /\ look'[f].after = look[f].after /\ look'[f].pass = 2
        /\ \A g \in Fork : g # f => look'[g] = look[g]
    BY <1>1, <1>3 DEF Looks
  <2>2. pc' \in [Fork -> Stage] /\ pc'[f] = "list"
    BY <1>1, <1>3 DEF Goto, Shared, TypeOK, Stage
  <2>3. TypeOK'
    BY <1>1, <1>3, <2>1, <2>2 DEF Shared, TypeOK, Looks
  <2>4. KnownVersions'
    BY <1>1, <2>1 DEF Shared, KnownVersions
  <2>5. \E m \in moments[f] : FoundBetween(f, m)'
    <3>1. PICK m \in moments[f] : m = Prefix(source)
      BY <1>1
    <3>2. Names(m) = Listing
      BY <3>1, ConstantsAssumption DEF Names, Prefix, Listing
    <3>3. ASSUME NEW a \in Listing PROVE m[a] = latest[a]
      BY <3>1, <3>3, ConstantsAssumption DEF Listing, Prefix, Shared, KnownVersions
    <3>4. Names(m) = Names(record) /\ \A a \in Names(m) : m[a] = record[a] \/ latest[a] # record[a]
      BY <1>3, <3>2, <3>3
    <3>5. FoundBetween(f, m)'
      BY <1>1, <2>1, <2>2, <3>4 DEF FoundBetween, Names
    <3>. QED
      BY <3>5
  <2>6. Own(f)'
    BY <1>1, <1>3, <2>1, <2>2, <2>5 DEF Own, Progress, SecondPass, Based, StillFree, Looking, Prefix
  <2>. QED
    BY <1>1, <2>3, <2>4, <2>6 DEF Shared
<1>4. CASE Names(record) = Listing /\ look[f].pass = 2 /\ record = look[f].first
           /\ Observed(f) /\ UNCHANGED look
  <2>1. CASE /\ ~look[f].after
             /\ baseline' = [baseline EXCEPT ![f] = record]
             /\ Goto(f, "stage") /\ UNCHANGED status
    <3>1. PICK m \in moments[f] : FoundBetween(f, m)
      BY <1>1, <1>4, <2>1 DEF Own, SecondPass, Looking
    <3>2. m \in Directory
      BY <1>1
    <3>3. \A a \in Artifact : m[a] = record[a]
      BY <1>1, <1>4, <3>1 DEF FoundBetween, Names
    <3>4. m = record
      BY <1>1, <3>2, <3>3 DEF Directory
    <3>5. baseline' \in [Fork -> Directory] /\ baseline'[f] \in moments[f]
      BY <1>1, <2>1, <3>1, <3>4 DEF Shared, TypeOK
    <3>6. pc' \in [Fork -> Stage] /\ pc'[f] = "stage"
      BY <2>1 DEF Goto, Shared, TypeOK, Stage
    <3>7. Shared'
      BY <1>1, <1>4, <2>1, <3>5, <3>6 DEF Shared, TypeOK, KnownVersions
    <3>8. Own(f)'
      BY <1>1, <1>4, <2>1, <3>5, <3>6 DEF Own, Progress, SecondPass, Based, StillFree, Looking, Prefix
    <3>. QED
      BY <3>7, <3>8
  <2>2. CASE look[f].after /\ record = baseline[f] /\ Goto(f, "check-target")
             /\ UNCHANGED <<status, baseline>>
    <3>1. pc' \in [Fork -> Stage] /\ pc'[f] = "check-target"
      BY <2>2 DEF Goto, Shared, TypeOK, Stage
    <3>2. Shared'
      BY <1>1, <1>4, <2>2, <3>1 DEF Shared, TypeOK, KnownVersions
    <3>3. baseline[f] \in moments[f] /\ staging[f] = baseline[f] /\ baseline[f] \in Directory
      BY <1>1, <2>2 DEF Own, Based, Looking, Shared, TypeOK
    <3>4. Own(f)'
      BY <1>1, <1>4, <2>2, <3>1, <3>3, ConstantsAssumption
         DEF Own, Progress, SecondPass, Based, StillFree, Looking, Prefix
    <3>. QED
      BY <3>2, <3>4
  <2>3. CASE Fail(f) /\ UNCHANGED baseline
    BY <1>2, <1>4, <2>3
  <2>. QED
    BY <1>4, <2>1, <2>2, <2>3 DEF Observed
<1>. QED
  BY <1>1, <1>2, <1>3, <1>4 DEF Relist

\* Copying and verifying.
LEMMA CopyKeeps ==
  ASSUME NEW f \in Fork, Shared, Own(f), MakeStaging(f) \/ Copy(f) \/ Verify(f) \/ CheckTarget(f)
  PROVE  Shared' /\ Own(f)'
<1>1. CASE MakeStaging(f)
  <2>1. /\ pc[f] = "stage" /\ pc' \in [Fork -> Stage] /\ pc'[f] \in {"copy", "verify"}
        /\ staging' \in [Fork -> Directory \cup {Nobody}] /\ staging'[f] = NoArtifacts
        /\ \A g \in Fork : status[g] = "published" => staging'[g] = Nobody
    BY <1>1, DirectoryFacts DEF MakeStaging, Goto, Shared, TypeOK, Stage, Own, Progress
  <2>2. Shared'
    BY <1>1, <2>1 DEF MakeStaging, Shared, TypeOK, KnownVersions
  <2>3. Own(f)'
    BY <1>1, <2>1, DirectoryFacts DEF MakeStaging, Own, Progress, SecondPass, Based, StillFree, Looking, Prefix
  <2>. QED
    BY <2>2, <2>3
<1>2. CASE Copy(f)
  <2>1. PICK a \in Names(baseline[f]) :
          IF source[a] # baseline[f][a]
          THEN Fail(f) /\ UNCHANGED staging
          ELSE /\ staging' = [staging EXCEPT ![f][a] = source[a]]
               /\ Goto(f, IF staging'[f] = baseline[f] THEN "verify" ELSE "copy")
               /\ UNCHANGED status
    BY <1>2 DEF Copy
  <2>2. CASE Fail(f) /\ UNCHANGED staging
    BY <1>2, <2>2, FailKeeps DEF Copy, Own, Shared, TypeOK
  <2>3. CASE /\ staging' = [staging EXCEPT ![f][a] = source[a]]
             /\ Goto(f, IF staging'[f] = baseline[f] THEN "verify" ELSE "copy")
             /\ UNCHANGED status
    <3>1. pc[f] = "copy" /\ pc' \in [Fork -> Stage] /\ pc'[f] \in {"copy", "verify"}
      BY <1>2, <2>3 DEF Copy, Goto, Shared, TypeOK, Stage
    <3>2. staging[f] \in Directory /\ a \in Artifact /\ source[a] \in Version /\ status[f] = "none"
      BY <1>2, <3>1 DEF Copy, Shared, TypeOK, Own, Progress, Names, Directory
    <3>3. [staging[f] EXCEPT ![a] = source[a]] \in Directory
      BY <3>2 DEF Directory
    <3>4. /\ staging' \in [Fork -> Directory \cup {Nobody}] /\ staging'[f] \in Directory
          /\ \A g \in Fork : status[g] = "published" => staging'[g] = Nobody
      BY <2>3, <3>2, <3>3 DEF Shared, TypeOK
    <3>5. Shared'
      BY <1>2, <2>3, <3>1, <3>4 DEF Copy, Shared, TypeOK, KnownVersions
    <3>6. Own(f)'
      BY <1>2, <2>3, <3>1, <3>4, DirectoryFacts
         DEF Copy, Own, Progress, SecondPass, Based, StillFree, Looking, Prefix
    <3>. QED
      BY <3>5, <3>6
  <2>. QED
    BY <2>1, <2>2, <2>3
<1>3. CASE Verify(f)
  <2>1. CASE staging[f] = baseline[f]
    <3>1. /\ pc[f] = "verify" /\ pc' \in [Fork -> Stage] /\ pc'[f] = "list"
          /\ look \in [Fork -> Looks] /\ look' = [look EXCEPT ![f] = FirstLook(TRUE)]
          /\ look' \in [Fork -> Looks] /\ look'[f] = FirstLook(TRUE)
          /\ \A g \in Fork : g # f => look'[g] = look[g]
      <4>1. pc[f] = "verify" /\ pc' \in [Fork -> Stage] /\ pc'[f] = "list"
        BY <1>3, <2>1 DEF Verify, Goto, Shared, TypeOK, Stage
      <4>2. look \in [Fork -> Looks] /\ look' = [look EXCEPT ![f] = FirstLook(TRUE)]
        BY <1>3, <2>1 DEF Verify, Shared, TypeOK, Looks
      <4>. QED
        BY <4>1, <4>2, DirectoryFacts
    <3>2. KnownVersions'
      BY <1>3, <3>1 DEF Verify, Shared, TypeOK, KnownVersions, FirstLook, NoArtifacts
    <3>3. Shared'
      BY <1>3, <2>1, <3>1, <3>2 DEF Verify, Shared, TypeOK, Looks
    <3>4. Own(f)'
      BY <1>3, <2>1, <3>1 DEF Verify, Own, Progress, SecondPass, Based, StillFree, Looking, Prefix, FirstLook
    <3>. QED
      BY <3>3, <3>4
  <2>2. CASE staging[f] # baseline[f]
    BY <1>3, <2>2, FailKeeps DEF Verify, Own, Shared, TypeOK
  <2>. QED
    BY <2>1, <2>2
<1>4. CASE CheckTarget(f)
  <2>1. CASE target.kind = "absent"
    <3>1. pc[f] = "check-target" /\ pc' \in [Fork -> Stage] /\ pc'[f] = "rename"
      BY <1>4, <2>1 DEF CheckTarget, Goto, Shared, TypeOK, Stage
    <3>2. Shared'
      BY <1>4, <2>1, <3>1 DEF CheckTarget, Shared, TypeOK, KnownVersions
    <3>3. Own(f)'
      BY <1>4, <2>1, <3>1 DEF CheckTarget, Own, Progress, SecondPass, Based, StillFree, Looking, Prefix
    <3>. QED
      BY <3>2, <3>3
  <2>2. CASE target.kind # "absent"
    BY <1>4, <2>2, FailKeeps DEF CheckTarget, Own, Shared, TypeOK
  <2>. QED
    BY <2>1, <2>2
<1>. QED
  BY <1>1, <1>2, <1>3, <1>4

\* The publication and the end of a fork, whichever it is.
LEMMA EndKeeps ==
  ASSUME NEW f \in Fork, Shared, Own(f),
         Publish(f) \/ Cleanup(f) \/ Release(f) \/ StepFails(f) \/ Crash(f)
  PROVE  Shared' /\ Own(f)'
<1>1. CASE Publish(f)
  <2>1. CASE Fail(f) /\ UNCHANGED <<target, staging>>
    BY <1>1, <2>1, FailKeeps DEF Publish, Own, Shared, TypeOK
  <2>2. CASE /\ target' = Target("fork", staging[f])
             /\ staging' = [staging EXCEPT ![f] = Nobody]
             /\ Settle(f, "release", "published")
    <3>1. pc[f] = "rename" /\ pc' \in [Fork -> Stage] /\ pc'[f] = "release"
      BY <1>1, <2>2 DEF Publish, Settle, Goto, Shared, TypeOK, Stage
    <3>2. staging[f] \in Directory
      BY <3>1 DEF Shared, TypeOK, Own, Progress
    <3>3. Shared'
      BY <1>1, <2>2, <3>1, <3>2 DEF Publish, Settle, Target, Shared, TypeOK, KnownVersions
    <3>4. Own(f)'
      BY <1>1, <2>2, <3>1 DEF Publish, Own, Progress, SecondPass, Based, StillFree, Looking, Prefix
    <3>. QED
      BY <3>3, <3>4
  <2>. QED
    BY <1>1, <2>1, <2>2 DEF Publish
<1>2. CASE Cleanup(f)
  <2>1. /\ pc[f] = "cleanup" /\ pc' \in [Fork -> Stage] /\ pc'[f] = "release"
        /\ staging' \in [Fork -> Directory \cup {Nobody}]
        /\ \A g \in Fork : status[g] = "published" => staging'[g] = Nobody
    BY <1>2 DEF Cleanup, Goto, Shared, TypeOK, Stage
  <2>2. Shared'
    BY <1>2, <2>1 DEF Cleanup, Shared, TypeOK, KnownVersions
  <2>3. Own(f)'
    BY <1>2, <2>1 DEF Cleanup, Own, Progress, SecondPass, Based, StillFree, Looking, Prefix
  <2>. QED
    BY <2>2, <2>3
<1>3. CASE Release(f) \/ Crash(f)
  <2>1. /\ pc' \in [Fork -> Stage] /\ pc'[f] \in {"done", "crashed"} /\ Forget(f)
        /\ UNCHANGED <<source, latest, changed, target, staging, status>>
        /\ claim' \in Fork \cup {Nobody}
    BY <1>3 DEF Release, Crash, Goto, Shared, TypeOK, Stage
  <2>2. /\ look' \in [Fork -> Looks] /\ look'[f] = FirstLook(FALSE)
        /\ \A g \in Fork : g # f => look'[g] = look[g]
        /\ baseline' \in [Fork -> Directory]
        /\ moments' \in [Fork -> SUBSET Directory]
    BY <2>1, DirectoryFacts DEF Forget, Shared, TypeOK, Looks
  <2>3. KnownVersions'
    <3>1. ASSUME NEW g \in Fork, NEW a \in Artifact
          PROVE  look'[g].record[a] <= changed + 1 /\ look'[g].first[a] <= changed + 1
      <4>1. changed \in Nat /\ 0 <= changed + 1
        BY ConstantsAssumption DEF Shared, TypeOK
      <4>2. CASE g = f
        BY <2>2, <4>1, <4>2 DEF FirstLook, NoArtifacts
      <4>3. CASE g # f
        BY <2>2, <4>3 DEF Shared, KnownVersions
      <4>. QED
        BY <4>2, <4>3
    <3>. QED
      BY <2>1, <3>1 DEF Shared, KnownVersions
  <2>4. Shared'
    BY <2>1, <2>2, <2>3 DEF Shared, TypeOK, Looks
  <2>5. Own(f)'
    BY <2>1 DEF Own, Progress, SecondPass, Based, StillFree, Looking
  <2>. QED
    BY <2>4, <2>5
<1>4. CASE StepFails(f)
  BY <1>4, FailKeeps DEF StepFails, Own, Shared, TypeOK
<1>. QED
  BY <1>1, <1>2, <1>3, <1>4

\* The other forks keep what is known of them: their observations are of a source
\* that stays, and only who holds the claim may publish.
LEMMA OthersKeep ==
  ASSUME IInv, Shared, NEW f \in Fork, Step(f) \/ Fault(f), NEW g \in Fork, g # f, Own(g)
  PROVE  Own(g)'
<1>1. /\ pc'[g] = pc[g] /\ look'[g] = look[g] /\ baseline'[g] = baseline[g]
      /\ staging'[g] = staging[g] /\ status'[g] = status[g]
      /\ UNCHANGED <<source, latest, changed>>
  BY OthersStay, SourceStays DEF Shared
<1>2. moments'[g] = moments[g]
  BY DEF Shared, TypeOK, Step, Fault, Resolve, Acquire, AcquireFails, List, Read, Relist, MakeStaging,
         Copy, Verify, CheckTarget, Publish, Cleanup, Release, StepFails, Crash, Forget
<1>3. pc[g] = "rename" /\ target.kind # "fork" => target'.kind # "fork"
  <2>1. CASE Publish(f)
    BY <2>1 DEF IInv, HoldsClaim, Working, Publish
  <2>2. CASE UNCHANGED target
    BY <2>2
  <2>. QED
    BY <2>1, <2>2 DEF Step, Fault, Resolve, Acquire, AcquireFails, List, Read, Relist, MakeStaging,
         Copy, Verify, CheckTarget, Cleanup, Release, StepFails, Crash
<1>4. \A m : FoundBetween(g, m)' <=> FoundBetween(g, m)
  BY <1>1 DEF FoundBetween, Names
<1>. QED
  BY <1>1, <1>2, <1>3, <1>4 DEF Own, Progress, SecondPass, Based, StillFree, Looking, Prefix

\* Nothing comes back but what was there last, so what a pass has not found
\* again it never will.
LEMMA ChangeKeeps ==
  ASSUME Shared, \A f \in Fork : Own(f), NEW a \in Touched, Change(a)
  PROVE  Shared' /\ \A f \in Fork : Own(f)'
<1>1. /\ a \in Artifact /\ changed' = changed + 1 /\ changed' \in 0..Changes /\ changed \in Nat
      /\ UNCHANGED <<target, claim, pc, look, baseline, staging, status>>
  BY ConstantsAssumption DEF Change, local, Shared, TypeOK
<1>2. PICK v \in {0, latest[a], changed + 2} :
        /\ source' = [source EXCEPT ![a] = v]
        /\ latest' = [latest EXCEPT ![a] = IF v = 0 THEN @ ELSE v]
  BY DEF Change
<1>3. source \in Directory /\ latest \in Directory /\ v \in Version
  BY <1>1, <1>2, ConstantsAssumption DEF Shared, TypeOK, Directory, Version
<1>4. source' \in Directory /\ latest' \in Directory /\ Prefix(source') \in Directory
  <2>1. source' \in Directory /\ latest' \in Directory
    BY <1>2, <1>3 DEF Directory
  <2>. QED
    BY <2>1, DirectoryFacts
<1>5. /\ moments' \in [Fork -> SUBSET Directory]
      /\ \A f \in Fork : /\ moments[f] \subseteq moments'[f]
                         /\ moments[f] = {} <=> moments'[f] = {}
                         /\ moments[f] # {} => Prefix(source') \in moments'[f]
  <2>1. moments' = [f \in Fork |-> IF moments[f] = {} THEN {} ELSE moments[f] \cup {Prefix(source')}]
    BY DEF Change
  <2>. QED
    BY <1>4, <2>1 DEF Shared, TypeOK
<1>6. TypeOK'
  BY <1>1, <1>4, <1>5 DEF Shared, TypeOK
<1>7. \A b \in Artifact : latest'[b] \in {latest[b], changed + 2}
  BY <1>1, <1>2, <1>3 DEF Directory
<1>8. KnownVersions'
  <2>1. ASSUME NEW b \in Artifact
        PROVE  latest'[b] # 0 /\ latest'[b] <= changed' + 1 /\ source'[b] \in {0, latest'[b]}
    BY <1>1, <1>2, <1>3 DEF Shared, KnownVersions, Directory, Version
  <2>2. ASSUME NEW f \in Fork, NEW b \in Artifact
        PROVE  look'[f].record[b] <= changed' + 1 /\ look'[f].first[b] <= changed' + 1
    <3>1. look[f].record[b] \in Nat /\ look[f].first[b] \in Nat
      BY ConstantsAssumption DEF Shared, TypeOK, Directory, Version
    <3>. QED
      BY <1>1, <3>1 DEF Shared, KnownVersions
  <2>. QED
    BY <2>1, <2>2 DEF KnownVersions
<1>9. ASSUME NEW f \in Fork, NEW m \in moments[f], FoundBetween(f, m)
      PROVE  FoundBetween(f, m)'
  <2>1. ASSUME NEW b \in Artifact, latest[b] # look[f].first[b] PROVE latest'[b] # look[f].first[b]
    <3>1. look[f].first[b] \in Nat /\ look[f].first[b] <= changed + 1
      BY ConstantsAssumption DEF Shared, TypeOK, KnownVersions, Directory, Version
    <3>. QED
      BY <1>1, <1>7, <2>1, <3>1
  <2>. QED
    BY <1>1, <1>9, <2>1 DEF FoundBetween, Names
<1>10. ASSUME NEW f \in Fork PROVE Own(f)'
  <2>1. Own(f)
    OBVIOUS
  <2>2. SecondPass(f)'
    BY <1>1, <1>5, <1>9, <2>1 DEF Own, SecondPass, Looking
  <2>3. Progress(f)'
    BY <1>1, <1>5, <2>1 DEF Own, Progress
  <2>4. Based(f)' /\ StillFree(f)'
    BY <1>1, <1>5, <2>1 DEF Own, Based, StillFree, Looking
  <2>. QED
    BY <2>2, <2>3, <2>4 DEF Own
<1>. QED
  BY <1>1, <1>6, <1>8, <1>10 DEF Shared

\* The invariant is inductive.
LEMMA CopyInductive == ASSUME IInv, CopyInv, [Next]_vars PROVE CopyInv'
<1>1. Shared /\ \A f \in Fork : Own(f)
  BY DEF CopyInv, Shared, Own
<1> SUFFICES Shared' /\ \A f \in Fork : Own(f)'
  BY DEF CopyInv, Shared, Own
<1>2. ASSUME NEW f \in Fork, Step(f) \/ Fault(f) PROVE Shared' /\ \A g \in Fork : Own(g)'
  <2>1. Shared' /\ Own(f)'
    BY <1>1, <1>2, BeginKeeps, ListKeeps, ReadKeeps, RelistKeeps, CopyKeeps, EndKeeps DEF Step, Fault
  <2>2. ASSUME NEW g \in Fork, g # f PROVE Own(g)'
    BY <1>1, <1>2, <2>2, OthersKeep
  <2>. QED
    BY <2>1, <2>2
<1>3. ASSUME NEW a \in Touched, Change(a) PROVE Shared' /\ \A g \in Fork : Own(g)'
  BY <1>1, <1>3, ChangeKeeps
<1>4. CASE Squat
  <2>1. /\ UNCHANGED <<source, latest, changed, moments, claim, pc, look, baseline, staging, status>>
        /\ target' \in [kind : {"bare", "foreign"}, content : Directory]
        /\ target'.kind # "fork" /\ target'.content = NoArtifacts
    BY <1>4, DirectoryFacts DEF Squat, Target, local
  <2>2. Shared'
    BY <1>1, <2>1 DEF Shared, TypeOK, KnownVersions
  <2>3. ASSUME NEW f \in Fork PROVE Own(f)'
    BY <1>1, <2>1 DEF Own, Progress, SecondPass, FoundBetween, Based, StillFree, Looking, Names, Prefix
  <2>. QED
    BY <2>2, <2>3
<1>5. CASE OperatorRemovesClaim
  <2>1. /\ UNCHANGED <<source, latest, changed, moments, target, pc, look, baseline, staging, status>>
        /\ claim' = Nobody
    BY <1>5 DEF OperatorRemovesClaim, local
  <2>2. Shared'
    BY <1>1, <2>1 DEF Shared, TypeOK, KnownVersions
  <2>3. ASSUME NEW f \in Fork PROVE Own(f)'
    BY <1>1, <2>1 DEF Own, Progress, SecondPass, FoundBetween, Based, StillFree, Looking, Names, Prefix
  <2>. QED
    BY <2>2, <2>3
<1>6. CASE UNCHANGED vars
  <2>1. Shared'
    BY <1>1, <1>6 DEF vars, local, Shared, TypeOK, KnownVersions
  <2>2. ASSUME NEW f \in Fork PROVE Own(f)'
    BY <1>1, <1>6 DEF vars, local, Own, Progress, SecondPass, FoundBetween, Based, StillFree, Looking,
                      Names, Prefix
  <2>. QED
    BY <2>1, <2>2
<1>. QED
  BY <1>2, <1>3, <1>4, <1>5, <1>6 DEF Next

LEMMA CopyKept == Spec => [](IInv /\ CopyInv)
BY InitInv, StepInv, CopyInit, CopyInductive, PTL DEF Spec

\* Every variable keeps its type, and a directory that was published is nobody's
\* staging directory any more.
THEOREM TypeCorrect == Spec => []TypeOK
<1>1. CopyInv => TypeOK
  BY DEF CopyInv
<1>. QED
  BY <1>1, CopyKept, PTL

\* Every step of a fork or of its environment is a step of the copy, or none.
LEMMA StepCopies ==
  ASSUME IInv, CopyInv, [Next]_vars
  PROVE  [Copying!Next]_(Copying!copyVars)
<1> USE DEF Copying!copyVars
<1>0. Shared /\ moments \in [Fork -> SUBSET Directory] /\ source \in Directory
      /\ Prefix(source) \in Directory
  BY DirectoryFacts DEF CopyInv, Shared, TypeOK
<1>1. ASSUME NEW f \in Fork, Step(f) \/ Fault(f)
      PROVE  [Copying!Next]_(Copying!copyVars)
  <2>0. Own(f) /\ Prefix(source)' = Prefix(source)
    BY <1>1, SourceStays DEF CopyInv, Own, Prefix
  <2>1. CASE Resolve(f)
    <3>1. Copying!Begin(f)
      BY <2>0, <2>1 DEF Resolve, Copying!Begin, Own, Progress
    <3>. QED
      BY <3>1 DEF Copying!Next
  <2>2. CASE Release(f) \/ Crash(f)
    <3>1. Copying!End(f)
      BY <2>0, <2>2 DEF Release, Crash, Forget, Copying!End
    <3>. QED
      BY <3>1 DEF Copying!Next
  <2>3. CASE Publish(f) /\ ~UNCHANGED target
    <3>1. /\ target.content = NoArtifacts /\ target.kind # "foreign" /\ pc[f] = "rename"
          /\ target' = [kind |-> "fork", content |-> staging[f]]
          /\ UNCHANGED moments
      BY <2>3 DEF Publish, Target
    <3>2. staging[f] \in moments[f] /\ target.kind # "fork"
      BY <2>0, <3>1 DEF Own, Based, StillFree
    <3>3. target \in Copying!Free
      BY <1>0, <3>1, <3>2 DEF Shared, TypeOK, Copying!Free
    <3>4. Copying!Publish(f)
      BY <2>0, <3>1, <3>2, <3>3 DEF Copying!Publish
    <3>. QED
      BY <3>4 DEF Copying!Next
  <2>4. CASE UNCHANGED <<moments, target>>
    BY <2>0, <2>4
  <2>. QED
    BY <1>1, <2>1, <2>2, <2>3, <2>4
       DEF Step, Fault, Acquire, AcquireFails, List, Read, Relist, MakeStaging, Copy, Verify,
           CheckTarget, Publish, Cleanup, StepFails
<1>2. ASSUME NEW a \in Touched, Change(a)
      PROVE  [Copying!Next]_(Copying!copyVars)
  <2>1. Prefix(source)' \in Directory /\ Prefix(source') \in Directory
    BY <1>0, <1>2, ChangeKeeps, DirectoryFacts DEF CopyInv, Own, Shared, TypeOK
  <2>2. Copying!Change
    BY <1>2, <2>1 DEF Change, Copying!Change, Prefix
  <2>. QED
    BY <2>2 DEF Copying!Next
<1>3. CASE Squat
  <2>1. target \in Copying!Free
    BY <1>0, <1>3 DEF Squat, CopyInv, Shared, TypeOK, Copying!Free
  <2>2. target' \in Copying!Free \cup {Copying!Foreign}
    BY <1>3 DEF Squat, Target, Copying!Free, Copying!Foreign
  <2>3. UNCHANGED <<Prefix(source), moments>>
    BY <1>3 DEF Squat, Prefix
  <2>4. Copying!Occupy
    BY <2>1, <2>2, <2>3 DEF Copying!Occupy
  <2>. QED
    BY <2>4 DEF Copying!Next
<1>4. CASE OperatorRemovesClaim \/ UNCHANGED vars
  BY <1>4 DEF OperatorRemovesClaim, vars, Prefix
<1>. QED
  BY <1>1, <1>2, <1>3, <1>4 DEF Next

\* Forks implement the copy: what appears at the target appears in one step, is
\* the whole prefix of one moment, although it was read artifact by artifact from
\* a source that changes, and replaces nothing; for any number of forks,
\* artifacts, changes and faults.
THEOREM CopyImplemented == Spec => ImplementsCopy
<1>1. Init => Copying!Init
  <2> SUFFICES ASSUME Init PROVE Copying!Init
    OBVIOUS
  <2>1. source \in Directory
    BY CopyInit DEF CopyInv, TypeOK
  <2>2. Prefix(source) \in Directory
    BY <2>1, DirectoryFacts
  <2>. QED
    BY <2>2 DEF Init, Copying!Init, Target
<1>. QED
  BY <1>1, CopyKept, StepCopies, PTL DEF Spec, ImplementsCopy, Copying!Spec
==============================================================================
