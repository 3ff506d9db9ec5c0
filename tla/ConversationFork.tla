--------------------------- MODULE ConversationFork ---------------------------
(***************************************************************************)
(* promptpile-fork copies the artifacts of a conversation up to an index   *)
(* into a directory that must not exist yet, while other programs go on    *)
(* writing the source.  It claims the target, observes the source twice,   *)
(* copies into a private staging directory, verifies the copy, observes    *)
(* the source twice again, and publishes by one directory rename.          *)
(*                                                                         *)
(* The content of an artifact is a version number, 0 where there is none.  *)
(* Versions are new, except that an artifact which was taken away may come  *)
(* back as it was, as it does when promptpile-compress rolls back.  Bytes   *)
(* that were rewritten do not return: no observer of bytes could tell.      *)
(***************************************************************************)
EXTENDS Naturals

CONSTANTS
  Fork,       \* fork processes with one and the same target
  Artifact,   \* the recognised artifacts of the source
  Selected,   \* those at or below throughIndex
  Touched,    \* those that other programs change
  Changes,    \* how many changes they make
  Squatters,  \* TRUE: other programs may create the target path
  Faults,     \* TRUE: file operations fail and processes are killed
  Nobody      \* no claim, no staging directory

\* The n-th change writes version n + 1.
Version == 0..(Changes + 1)
Directory == [Artifact -> Version]

ASSUME ConstantsAssumption ==
  /\ Selected \subseteq Artifact /\ Touched \subseteq Artifact
  /\ Changes \in Nat
  /\ Squatters \in BOOLEAN /\ Faults \in BOOLEAN
  /\ Nobody \notin Fork /\ Nobody \notin Directory

VARIABLES
  source,     \* the source conversation
  latest,     \* latest[a]: the last version of a, which may come back
  changed,    \* how often it was changed
  moments,    \* moments[f]: the prefixes there were since f began
  target,     \* what is at the target path
  claim,      \* .promptpile-fork.claim.<target>
  pc,         \* pc[f]: where fork f is
  look,       \* look[f]: the observation f is making
  baseline,   \* baseline[f]: the first complete observation
  staging,    \* staging[f]: its private directory, or Nobody
  status      \* status[f]: "none", "published" or "failed"

local == <<pc, look, baseline, staging, status>>
vars == <<source, latest, changed, moments, target, claim, local>>

Stage == {"resolve", "claim", "list", "read", "relist", "stage", "copy", "verify",
          "check-target", "rename", "cleanup", "release", "done", "crashed"}

NoArtifacts == [a \in Artifact |-> 0]

\* The artifacts that a scan of the source selects.
Listing == {a \in Selected : source[a] # 0}
Prefix(dir) == [a \in Artifact |-> IF a \in Selected THEN dir[a] ELSE 0]
Names(record) == {a \in Artifact : record[a] # 0}

\* An observation: which of the two it is, whether it is the one after the
\* copy, what is still to be read, what was read, and the first pass.
FirstLook(after) ==
  [after |-> after, pass |-> 1, unread |-> {}, record |-> NoArtifacts, first |-> NoArtifacts]

Target(kind, content) == [kind |-> kind, content |-> content]

Init ==
  /\ source \in [Artifact -> {0, 1}]
  /\ latest = [a \in Artifact |-> 1]
  /\ changed = 0
  /\ moments = [f \in Fork |-> {}]
  /\ target = Target("absent", NoArtifacts)
  /\ claim = Nobody
  /\ pc = [f \in Fork |-> "resolve"]
  /\ look = [f \in Fork |-> FirstLook(FALSE)]
  /\ baseline = [f \in Fork |-> NoArtifacts]
  /\ staging = [f \in Fork |-> Nobody]
  /\ status = [f \in Fork |-> "none"]

Goto(f, stage) == pc' = [pc EXCEPT ![f] = stage]

Settle(f, stage, result) ==
  /\ Goto(f, stage)
  /\ status' = [status EXCEPT ![f] = result]

\* An error leads to the cleanup of what f has made so far.
Fail(f) ==
  Settle(f, IF staging[f] # Nobody THEN "cleanup"
            ELSE IF pc[f] \in {"resolve", "claim"} THEN "done"
            ELSE "release", "failed")

------------------------------------------------------------------------------
(* Planning *)

\* resolveForkPaths: nothing may be at the target path.
Resolve(f) ==
  /\ pc[f] = "resolve"
  /\ moments' = [moments EXCEPT ![f] = {Prefix(source)}]
  /\ IF target.kind # "absent" THEN Fail(f)
     ELSE Goto(f, "claim") /\ UNCHANGED status
  /\ UNCHANGED <<source, latest, changed, target, claim, look, baseline, staging>>

\* Mutant of Acquire: the claim file is opened without exclusive creation.
AcquireShared(f) ==
  /\ pc[f] = "claim"
  /\ claim' = f /\ Goto(f, "list")
  /\ UNCHANGED <<source, latest, changed, moments, target, look, baseline, staging, status>>

\* open(claim, 'wx'): nobody waits for a claim and nobody breaks one.
Acquire(f) ==
  /\ pc[f] = "claim"
  /\ IF claim = Nobody
     THEN claim' = f /\ Goto(f, "list") /\ UNCHANGED status
     ELSE Fail(f) /\ UNCHANGED claim
  /\ UNCHANGED <<source, latest, changed, moments, target, look, baseline, staging>>

\* Writing the claim fails; unlinking it may fail too.
AcquireFails(f) ==
  /\ Faults
  /\ pc[f] = "claim" /\ claim = Nobody
  /\ claim' \in {Nobody, f}
  /\ Fail(f)
  /\ UNCHANGED <<source, latest, changed, moments, target, look, baseline, staging>>

------------------------------------------------------------------------------
(* Observing the source *)

\* observeOnce: scan the directory,
List(f) ==
  /\ pc[f] = "list"
  /\ look' = [look EXCEPT ![f].unread = Listing, ![f].record = NoArtifacts]
  /\ Goto(f, IF Listing = {} THEN "relist" ELSE "read")
  /\ UNCHANGED <<source, latest, changed, moments, target, claim, baseline, staging, status>>

\* read one artifact after the other (in any order here),
Read(f) ==
  /\ pc[f] = "read"
  /\ \E a \in look[f].unread :
       IF source[a] = 0
       THEN Fail(f) /\ UNCHANGED look
       ELSE /\ look' = [look EXCEPT ![f].unread = @ \ {a}, ![f].record[a] = source[a]]
            /\ Goto(f, IF look[f].unread = {a} THEN "relist" ELSE "read")
            /\ UNCHANGED status
  /\ UNCHANGED <<source, latest, changed, moments, target, claim, baseline, staging>>

\* The two passes agree: this is the baseline, or it must be like it.
Observed(f) ==
  LET record == look[f].record IN
  \/ /\ ~look[f].after
     /\ baseline' = [baseline EXCEPT ![f] = record]
     /\ Goto(f, "stage") /\ UNCHANGED status
  \/ /\ look[f].after
     /\ IF record = baseline[f] THEN Goto(f, "check-target") /\ UNCHANGED status
        ELSE Fail(f)
     /\ UNCHANGED baseline

\* and scan again; the second pass must find what the first one found.
Relist(f) ==
  /\ pc[f] = "relist"
  /\ \/ /\ Names(look[f].record) # Listing
        /\ Fail(f)
        /\ UNCHANGED <<look, baseline>>
     \/ /\ Names(look[f].record) = Listing /\ look[f].pass = 1
        /\ look' = [look EXCEPT ![f].pass = 2, ![f].first = look[f].record]
        /\ Goto(f, "list")
        /\ UNCHANGED <<baseline, status>>
     \/ /\ Names(look[f].record) = Listing /\ look[f].pass = 2
        /\ IF look[f].record = look[f].first THEN Observed(f)
           ELSE Fail(f) /\ UNCHANGED baseline
        /\ UNCHANGED look
  /\ UNCHANGED <<source, latest, changed, moments, target, claim, staging>>
------------------------------------------------------------------------------
(* Copying and publishing *)

MakeStaging(f) ==
  /\ pc[f] = "stage"
  /\ staging' = [staging EXCEPT ![f] = NoArtifacts]
  /\ Goto(f, IF baseline[f] = NoArtifacts THEN "verify" ELSE "copy")
  /\ UNCHANGED <<source, latest, changed, moments, target, claim, look, baseline, status>>

\* Each artifact is read again; its bytes must be those of the baseline.
Copy(f) ==
  /\ pc[f] = "copy"
  /\ \E a \in Names(baseline[f]) :
       /\ staging[f][a] = 0
       /\ IF source[a] # baseline[f][a]
          THEN Fail(f) /\ UNCHANGED staging
          ELSE /\ staging' = [staging EXCEPT ![f][a] = source[a]]
               /\ Goto(f, IF staging'[f] = baseline[f] THEN "verify" ELSE "copy")
               /\ UNCHANGED status
  /\ UNCHANGED <<source, latest, changed, moments, target, claim, look, baseline>>

\* verifyStaging reads a directory that nobody else writes.
Verify(f) ==
  /\ pc[f] = "verify"
  /\ IF staging[f] = baseline[f]
     THEN /\ look' = [look EXCEPT ![f] = FirstLook(TRUE)]
          /\ Goto(f, "list")
          /\ UNCHANGED status
     ELSE Fail(f) /\ UNCHANGED look
  /\ UNCHANGED <<source, latest, changed, moments, target, claim, baseline, staging>>

CheckTarget(f) ==
  /\ pc[f] = "check-target"
  /\ IF target.kind = "absent" THEN Goto(f, "rename") /\ UNCHANGED status ELSE Fail(f)
  /\ UNCHANGED <<source, latest, changed, moments, target, claim, look, baseline, staging>>

\* Mutant of Publish: a recursive copy into whatever is there by now.
PublishInto(f) ==
  /\ pc[f] = "rename"
  /\ target' = Target("fork", staging[f])
  /\ staging' = [staging EXCEPT ![f] = Nobody]
  /\ Settle(f, "release", "published")
  /\ UNCHANGED <<source, latest, changed, moments, claim, look, baseline>>

\* rename(staging, target): the one public step.  The system refuses to
\* replace a directory with contents; one without contents it may replace.
Publish(f) ==
  /\ pc[f] = "rename"
  /\ \/ /\ target.content = NoArtifacts /\ target.kind # "foreign"
        /\ target' = Target("fork", staging[f])
        /\ staging' = [staging EXCEPT ![f] = Nobody]
        /\ Settle(f, "release", "published")
     \/ /\ target.kind # "absent"
        /\ Fail(f)
        /\ UNCHANGED <<target, staging>>
  /\ UNCHANGED <<source, latest, changed, moments, claim, look, baseline>>

------------------------------------------------------------------------------
(* Cleanup *)

Cleanup(f) ==
  /\ pc[f] = "cleanup"
  /\ \/ staging' = [staging EXCEPT ![f] = Nobody]
     \/ Faults /\ UNCHANGED staging
  /\ Goto(f, "release")
  /\ UNCHANGED <<source, latest, changed, moments, target, claim, look, baseline, status>>

\* What a process knew goes with it.
Forget(f) ==
  /\ look' = [look EXCEPT ![f] = FirstLook(FALSE)]
  /\ baseline' = [baseline EXCEPT ![f] = NoArtifacts]
  /\ moments' = [moments EXCEPT ![f] = {}]

\* unlink(claim), by its path; a failure is only a warning.
Release(f) ==
  /\ pc[f] = "release"
  /\ \/ claim' = Nobody
     \/ Faults /\ UNCHANGED claim
  /\ Goto(f, "done") /\ Forget(f)
  /\ UNCHANGED <<source, latest, changed, target, staging, status>>

\* mkdtemp, a read, a write, a verification or the rename fails.
StepFails(f) ==
  /\ Faults
  /\ pc[f] \in {"list", "read", "relist", "stage", "copy", "verify", "check-target", "rename"}
  /\ Fail(f)
  /\ UNCHANGED <<source, latest, changed, moments, target, claim, look, baseline, staging>>

Crash(f) ==
  /\ Faults
  /\ pc[f] \notin {"resolve", "done", "crashed"}
  /\ Goto(f, "crashed") /\ Forget(f)
  /\ UNCHANGED <<source, latest, changed, target, claim, staging, status>>

------------------------------------------------------------------------------
(* The environment *)

\* An artifact is added, rewritten, taken away, or comes back as it was.
Change(a) ==
  /\ changed < Changes
  /\ changed' = changed + 1
  /\ \E v \in {0, latest[a], changed + 2} \ {source[a]} :
       /\ source' = [source EXCEPT ![a] = v]
       /\ latest' = [latest EXCEPT ![a] = IF v = 0 THEN @ ELSE v]
  /\ moments' = [f \in Fork |-> IF moments[f] = {} THEN {}
                                ELSE moments[f] \cup {Prefix(source')}]
  /\ UNCHANGED <<target, claim, local>>

\* Another program makes a directory at the target path, then fills it.
Squat ==
  /\ Squatters
  /\ \/ target.kind = "absent" /\ target' = Target("bare", NoArtifacts)
     \/ target.kind = "bare" /\ target' = Target("foreign", NoArtifacts)
  /\ UNCHANGED <<source, latest, changed, moments, claim, local>>

\* A stale claim is never broken by a fork, only by an operator.
OperatorRemovesClaim ==
  /\ claim # Nobody
  /\ pc[claim] \in {"done", "crashed"}
  /\ claim' = Nobody
  /\ UNCHANGED <<source, latest, changed, moments, target, local>>

Step(f) ==
  \/ Resolve(f) \/ Acquire(f) \/ List(f) \/ Read(f) \/ Relist(f)
  \/ MakeStaging(f) \/ Copy(f) \/ Verify(f) \/ CheckTarget(f) \/ Publish(f)
  \/ Cleanup(f) \/ Release(f)

Fault(f) == AcquireFails(f) \/ StepFails(f) \/ Crash(f)

Next ==
  \/ \E f \in Fork : Step(f) \/ Fault(f)
  \/ \E a \in Touched : Change(a)
  \/ Squat
  \/ OperatorRemovesClaim

Spec == Init /\ [][Next]_vars
------------------------------------------------------------------------------
(* Properties *)

\* Types; a directory that was published is nobody's staging any more.
TypeOK ==
  /\ source \in Directory /\ latest \in Directory /\ changed \in 0..Changes
  /\ moments \in [Fork -> SUBSET Directory]
  /\ target \in [kind : {"absent", "bare", "foreign", "fork"}, content : Directory]
  /\ claim \in Fork \cup {Nobody}
  /\ pc \in [Fork -> Stage]
  /\ look \in [Fork -> [after : BOOLEAN, pass : {1, 2}, unread : SUBSET Selected,
                        record : Directory, first : Directory]]
  /\ baseline \in [Fork -> Directory]
  /\ staging \in [Fork -> Directory \cup {Nobody}]
  /\ status \in [Fork -> {"none", "published", "failed"}]
  /\ \A f \in Fork : status[f] = "published" => staging[f] = Nobody

Working(f) == pc[f] \notin {"resolve", "claim", "done", "crashed"}

\* Two forks never work on one target at the same time, whatever is killed and
\* whoever cleans up, although releasing a claim does not ask whose it is.
ForkExclusion == \A f, g \in Fork : Working(f) /\ Working(g) => f = g

Copying == INSTANCE SnapshotCopy
             WITH Prefixes <- Directory, prefix <- Prefix(source)

\* A fork implements the copy in one step: what appears at the target is the
\* whole prefix as it was at one moment while the fork ran, although it was
\* read artifact by artifact from a changing source; and nothing that was at
\* the target is ever replaced.
ImplementsCopy == Copying!Spec

==============================================================================
