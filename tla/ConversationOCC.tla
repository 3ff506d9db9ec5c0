--------------------------- MODULE ConversationOCC ---------------------------
(***************************************************************************)
(* Optimistic concurrency control over one writable Conversation directory *)
(* (packages/promptpile): `conversation append-user`, completion with      *)
(* --continue, and completion with --input --continue, run by several      *)
(* processes against the same directory.                                   *)
(*                                                                         *)
(* A cooperative writer gives an expected fingerprint and/or next index,   *)
(* is checked early (preflight), waits for stdin or for the model without  *)
(* any lock, then creates the claim file, rechecks, and writes its         *)
(* artifacts one atomic rename at a time.  A plain writer gives no         *)
(* expectation and takes no claim.                                         *)
(*                                                                         *)
(* The SHA-256 of the directory is abstracted to the directory itself: two *)
(* states have one fingerprint exactly when they are equal.  The content   *)
(* of an artifact is abstracted to the invocation that wrote it.           *)
(***************************************************************************)
EXTENDS Naturals

CONSTANTS
  Writer,      \* the promptpile invocations
  Op,          \* Op[p]: "append-user", "continue" or "input"
  Mode,        \* Mode[p]: the conditions the caller of p gives
  Shapes,      \* what a model answer may consist of
  MaxIndex,    \* MAX_CONVERSATION_INDEX
  Faults,      \* TRUE: processes crash and file operations fail
  ToolRuns,    \* TRUE: promptpile-mcp writes results into the directory
  Nobody,      \* no artifact, no claim holder
  Seed,        \* the author of what was there before
  Tool         \* the author of tool results

AssistantKind == {"body", "calls", "extra"}
Kind == AssistantKind \cup {"user", "result"}
Index == 0..MaxIndex
Exhausted == MaxIndex + 1
Author == Writer \cup {Seed, Tool}
Directory == [Index -> [Kind -> Author \cup {Nobody}]]

ASSUME ConstantsAssumption ==
  /\ MaxIndex \in Nat
  /\ Op \in [Writer -> {"append-user", "continue", "input"}]
  /\ Mode \in [Writer -> {"fingerprint", "index", "both", "plain"}]
  /\ Shapes \subseteq SUBSET AssistantKind
  /\ Faults \in BOOLEAN /\ ToolRuns \in BOOLEAN
  /\ Nobody \notin Author
  /\ Seed \notin Writer /\ Tool \notin Writer /\ Seed # Tool

Cooperative(p) == Mode[p] # "plain"
Plain == {p \in Writer : ~Cooperative(p)}
ByFingerprint(p) == Mode[p] \in {"fingerprint", "both"}
ByIndex(p) == Mode[p] \in {"index", "both"}

VARIABLES
  file,     \* file[i][k]: the author of artifact k at index i, or Nobody
  claim,    \* the content of .promptpile.occ.claim, or Nobody
  pc,       \* pc[p]: where invocation p is
  turn,     \* turn[p]: the mutation p is at, "user" or "assistant"
  exp,      \* exp[p]: the state p is to append to (the precondition)
  obs,      \* obs[p]: what p's last scan saw, and the index it allocated
  prompt,   \* prompt[p]: the directory p last read its messages from
  todo,     \* todo[p]: the artifacts of the turn p still has to write
  out       \* out[p]: "none", then "ok", "conflict" (exit 3) or "error" (exit 1)

vars == <<file, claim, pc, turn, exp, obs, prompt, todo, out>>

Stage == {"start", "preflight", "preflight-verify", "read", "await", "claim",
          "alloc", "recheck", "recheck-verify", "collide", "write", "derive",
          "derive-verify", "release", "done", "crashed"}

EmptyDirectory == [i \in Index |-> [k \in Kind |-> Nobody]]
SeededDirectory == [EmptyDirectory EXCEPT ![0]["user"] = Seed]

\* The directory holds an artifact at index i.
Used(dir, i) == \E k \in Kind : dir[i][k] # Nobody

\* The names whose existence makes the allocator skip an index.
TargetKind(t) == IF t = "user" THEN {"user"} ELSE AssistantKind \cup {"result"}

\* Index i comes after everything in the scanned listing, and none of its
\* target names exists on disk now.
Candidate(i, scanned, t) ==
  /\ \A j \in Index : Used(scanned, j) => j < i
  /\ \A k \in TargetKind(t) : file[i][k] = Nobody

\* n is the index the allocator returns, Exhausted when it throws.
Allocates(n, scanned, t) ==
  \/ /\ n \in Index
     /\ Candidate(n, scanned, t)
     /\ \A m \in Index : Candidate(m, scanned, t) => n <= m
  \/ /\ n = Exhausted
     /\ \A m \in Index : ~Candidate(m, scanned, t)

Init ==
  /\ file \in {EmptyDirectory, SeededDirectory}
  /\ claim = Nobody
  /\ pc = [p \in Writer |-> "start"]
  /\ turn = [p \in Writer |-> IF Op[p] = "continue" THEN "assistant" ELSE "user"]
  /\ exp = [p \in Writer |-> [snap |-> EmptyDirectory, next |-> 0]]
  /\ obs = [p \in Writer |-> [snap |-> EmptyDirectory, next |-> 0]]
  /\ prompt = [p \in Writer |-> EmptyDirectory]
  /\ todo = [p \in Writer |-> {}]
  /\ out = [p \in Writer |-> "none"]

Goto(p, stage) == pc' = [pc EXCEPT ![p] = stage]

\* The result of p is settled: it ends, or only has its claim to release.
Finish(p, stage, result) ==
  /\ Goto(p, stage)
  /\ out' = [out EXCEPT ![p] = result]

------------------------------------------------------------------------------
(* Before the claim *)

\* The caller observes the directory and starts p with that expectation.
Start(p) ==
  /\ pc[p] = "start"
  /\ \E n \in Index \cup {Exhausted} :
       /\ Allocates(n, file, turn[p])
       /\ exp' = [exp EXCEPT ![p] = [snap |-> file, next |-> n]]
  /\ Goto(p, IF Cooperative(p) THEN "preflight"
             ELSE IF Op[p] = "append-user" THEN "await" ELSE "read")
  /\ UNCHANGED <<file, claim, turn, obs, prompt, todo, out>>

\* Mutants of Matches: one half is not compared, or the claim file counts as
\* part of the fingerprinted state.
MatchesFingerprintOnly(p, seen) == ByFingerprint(p) => seen.snap = exp[p].snap
MatchesIndexOnly(p, seen) == ByIndex(p) => seen.next = exp[p].next
MatchesWithClaim(p, seen) ==
  /\ ByFingerprint(p) => seen.snap = exp[p].snap /\ claim # p
  /\ ByIndex(p) => seen.next = exp[p].next

\* Both halves of the condition the caller gave.
Matches(p, seen) ==
  /\ ByFingerprint(p) => seen.snap = exp[p].snap
  /\ ByIndex(p) => seen.next = exp[p].next

\* observeMutationState, first half: list the directory and allocate.
Scan(p, from, to, t, onFailure) ==
  /\ pc[p] = from
  /\ \/ \E n \in Index :
          /\ Allocates(n, file, t)
          /\ obs' = [obs EXCEPT ![p] = [snap |-> file, next |-> n]]
          /\ Goto(p, to)
          /\ UNCHANGED out
     \/ /\ Allocates(Exhausted, file, t)
        /\ Finish(p, onFailure, "error")
        /\ UNCHANGED obs
  /\ UNCHANGED <<file, claim, turn, exp, prompt, todo>>

\* Second half, with a fingerprint expected: the two observations disagree
\* because the directory changed under them.
Unstable(p, from, onFailure) ==
  /\ pc[p] = from
  /\ ByFingerprint(p)
  /\ file # obs[p].snap
  /\ Finish(p, onFailure, "conflict")
  /\ UNCHANGED <<file, claim, turn, exp, obs, prompt, todo>>

\* Second half, stable: the fingerprint is that of the directory now, which
\* may be newer than the listing the index came from.
Seen(p) == [obs[p] EXCEPT !.snap = file]

Verify(p, from, onSuccess, onFailure) ==
  /\ pc[p] = from
  /\ obs' = [obs EXCEPT ![p] = Seen(p)]
  /\ IF Matches(p, Seen(p))
     THEN Goto(p, onSuccess) /\ UNCHANGED out
     ELSE Finish(p, onFailure, "conflict")
  /\ UNCHANGED <<file, claim, turn, exp, prompt, todo>>

AfterPreflight(p) == IF turn[p] = "assistant" THEN "read" ELSE "await"

Preflight(p) ==
  \/ Scan(p, "preflight", "preflight-verify", turn[p], "done")
  \/ Unstable(p, "preflight-verify", "done")
  \/ Verify(p, "preflight-verify", AfterPreflight(p), "done")

\* Mutant of Read: the baseline of the reply is taken here, after the claim
\* of the user turn was released.
ReadRebased(p) ==
  /\ pc[p] = "read"
  /\ prompt' = [prompt EXCEPT ![p] = file]
  /\ \E n \in Index \cup {Exhausted} :
       /\ Allocates(n, file, turn[p])
       /\ exp' = [exp EXCEPT ![p] = [snap |-> file, next |-> n]]
  /\ IF turn[p] = "assistant" /\ ~\E i \in Index : Used(file, i)
     THEN Finish(p, "done", "error")
     ELSE Goto(p, "await") /\ UNCHANGED out
  /\ UNCHANGED <<file, claim, turn, obs, todo>>

\* The messages of the prompt are read, under no lock.
Read(p) ==
  /\ pc[p] = "read"
  /\ prompt' = [prompt EXCEPT ![p] = file]
  /\ IF turn[p] = "assistant" /\ ~\E i \in Index : Used(file, i)
     THEN Finish(p, "done", "error")
     ELSE Goto(p, "await") /\ UNCHANGED out
  /\ UNCHANGED <<file, claim, turn, exp, obs, todo>>

\* stdin, the terminal or the model answers; or there is nothing to write.
Answer(p) ==
  /\ pc[p] = "await"
  /\ \/ /\ \E parts \in IF turn[p] = "user" THEN {{"user"}} ELSE Shapes :
             todo' = [todo EXCEPT ![p] = parts]
        /\ Goto(p, IF Cooperative(p) THEN "claim" ELSE "alloc")
        /\ UNCHANGED out
     \/ /\ Finish(p, "done", "error")
        /\ UNCHANGED todo
  /\ UNCHANGED <<file, claim, turn, exp, obs, prompt>>

\* A plain writer allocates from the listing it has: append-user scans now,
\* a completion uses the one it read before the wait.
PlainAllocate(p) ==
  LET scanned == IF Op[p] = "append-user" THEN file ELSE prompt[p] IN
  /\ pc[p] = "alloc"
  /\ \/ \E n \in Index :
          /\ Allocates(n, scanned, turn[p])
          /\ obs' = [obs EXCEPT ![p] = [snap |-> scanned, next |-> n]]
          /\ Goto(p, "collide")
          /\ UNCHANGED out
     \/ /\ Allocates(Exhausted, scanned, turn[p])
        /\ Finish(p, "done", "error")
        /\ UNCHANGED obs
  /\ UNCHANGED <<file, claim, turn, exp, prompt, todo>>

------------------------------------------------------------------------------
(* Under the claim *)

\* Mutants of Acquire: open(claim, 'w'); and waiting for the claim.
AcquireShared(p) ==
  /\ pc[p] = "claim"
  /\ claim' = p
  /\ Goto(p, "recheck")
  /\ UNCHANGED <<file, turn, exp, obs, prompt, todo, out>>
AcquireBlocking(p) ==
  /\ pc[p] = "claim"
  /\ claim = Nobody
  /\ claim' = p
  /\ Goto(p, "recheck")
  /\ UNCHANGED <<file, turn, exp, obs, prompt, todo, out>>

\* open(claim, 'wx'): exclusive create; EEXIST is a conflict.
Acquire(p) ==
  /\ pc[p] = "claim"
  /\ IF claim = Nobody
     THEN claim' = p /\ Goto(p, "recheck") /\ UNCHANGED out
     ELSE Finish(p, "done", "conflict") /\ UNCHANGED claim
  /\ UNCHANGED <<file, turn, exp, obs, prompt, todo>>

\* The claim was created but its metadata could not be written; it is
\* unlinked, and that may fail too.
AcquireFails(p) ==
  /\ Faults
  /\ pc[p] = "claim"
  /\ claim = Nobody
  /\ claim' \in {Nobody, p}
  /\ Finish(p, "done", "error")
  /\ UNCHANGED <<file, turn, exp, obs, prompt, todo>>

Recheck(p) ==
  \/ Scan(p, "recheck", "recheck-verify", turn[p], "release")
  \/ Unstable(p, "recheck-verify", "release")
  \/ Verify(p, "recheck-verify", "collide", "release")

\* Where a failed, and a completed, set of writes leads.
Leave(p) == IF Cooperative(p) THEN "release" ELSE "done"
BaselineDue(p) == Op[p] = "input" /\ turn[p] = "user"

Completed(p) ==
  \/ /\ Cooperative(p)
     /\ Goto(p, IF BaselineDue(p) THEN "derive" ELSE "release")
     /\ UNCHANGED <<turn, out>>
  \/ /\ ~Cooperative(p) /\ BaselineDue(p)
     /\ Goto(p, "read")
     /\ turn' = [turn EXCEPT ![p] = "assistant"]
     /\ UNCHANGED out
  \/ /\ ~Cooperative(p) /\ ~BaselineDue(p)
     /\ Finish(p, "done", "ok")
     /\ UNCHANGED turn

\* existsSync on every path about to be written; nothing to write is fine.
CheckCollision(p) ==
  /\ pc[p] = "collide"
  /\ \/ /\ todo[p] = {}
        /\ Completed(p)
     \/ /\ \E k \in todo[p] : file[obs[p].next][k] # Nobody
        /\ Finish(p, Leave(p), IF Cooperative(p) THEN "conflict" ELSE "error")
        /\ UNCHANGED turn
     \/ /\ todo[p] # {}
        /\ \A k \in todo[p] : file[obs[p].next][k] = Nobody
        /\ Goto(p, "write")
        /\ UNCHANGED <<turn, out>>
  /\ UNCHANGED <<file, claim, exp, obs, prompt, todo>>

\* body, then calls, then extra.
Rank == [user |-> 0, body |-> 1, calls |-> 2, extra |-> 3]
IsFirst(k, parts) == k \in parts /\ \A m \in parts : Rank[k] <= Rank[m]

\* Mutant of Write: each path is checked only when its turn comes.
WriteCheckingLate(p) ==
  /\ pc[p] = "write"
  /\ \E k \in todo[p] :
       /\ IsFirst(k, todo[p])
       /\ IF file[obs[p].next][k] # Nobody
          THEN Finish(p, Leave(p), "conflict") /\ UNCHANGED <<file, turn, todo>>
          ELSE /\ file' = [file EXCEPT ![obs[p].next][k] = p]
               /\ todo' = [todo EXCEPT ![p] = @ \ {k}]
               /\ IF todo[p] = {k}
                  THEN Completed(p)
                  ELSE UNCHANGED <<pc, turn, out>>
  /\ UNCHANGED <<claim, exp, obs, prompt>>

\* One temporary file renamed onto its target name.
Write(p) ==
  /\ pc[p] = "write"
  /\ \E k \in todo[p] :
       /\ IsFirst(k, todo[p])
       /\ file' = [file EXCEPT ![obs[p].next][k] = p]
       /\ todo' = [todo EXCEPT ![p] = @ \ {k}]
       /\ IF todo[p] = {k}
          THEN Completed(p)
          ELSE UNCHANGED <<pc, turn, out>>
  /\ UNCHANGED <<claim, exp, obs, prompt>>

WriteFails(p) ==
  /\ Faults
  /\ pc[p] = "write"
  /\ Finish(p, Leave(p), "error")
  /\ UNCHANGED <<file, claim, turn, exp, obs, prompt, todo>>

\* deriveConversationMutationBaseline: still under the claim, the state the
\* assistant turn will be checked against.
Derive(p) ==
  \/ Scan(p, "derive", "derive-verify", "assistant", "release")
  \/ Unstable(p, "derive-verify", "release")
  \/ /\ pc[p] = "derive-verify"
     /\ exp' = [exp EXCEPT ![p] = Seen(p)]
     /\ Goto(p, "release")
     /\ UNCHANGED <<file, claim, turn, obs, prompt, todo, out>>

\* The owner token is read back and the claim unlinked.
Release(p) ==
  /\ pc[p] = "release"
  /\ claim = p
  /\ claim' = Nobody
  /\ IF out[p] = "none" /\ BaselineDue(p)
     THEN /\ turn' = [turn EXCEPT ![p] = "assistant"]
          /\ Goto(p, "read")
          /\ UNCHANGED out
     ELSE /\ Finish(p, "done", IF out[p] = "none" THEN "ok" ELSE out[p])
          /\ UNCHANGED turn
  /\ UNCHANGED <<file, exp, obs, prompt, todo>>

\* The claim cannot be read back or unlinked and stays; after a successful
\* mutation this is an ordinary failure, after a failed one a secondary one.
ReleaseFails(p) ==
  /\ Faults
  /\ pc[p] = "release"
  /\ Finish(p, "done", IF out[p] = "none" THEN "error" ELSE out[p])
  /\ UNCHANGED <<file, claim, turn, exp, obs, prompt, todo>>

------------------------------------------------------------------------------
(* The environment *)

\* A process is killed holding the claim or between two artifacts.  Killed
\* anywhere else it leaves nothing behind, as if it took no further step.
Crash(p) ==
  /\ Faults
  /\ pc[p] \in {"recheck", "recheck-verify", "collide", "write", "derive",
               "derive-verify", "release"}
  /\ Goto(p, "crashed")
  /\ UNCHANGED <<file, claim, turn, exp, obs, prompt, todo, out>>

\* No program steals a claim: an operator removes one whose owner is gone.
OperatorRemovesClaim ==
  /\ claim # Nobody
  /\ pc[claim] \in {"done", "crashed"}
  /\ claim' = Nobody
  /\ UNCHANGED <<file, pc, turn, exp, obs, prompt, todo, out>>

\* promptpile-mcp exec-calls answers the calls at index i, without the claim.
ToolResult(i) ==
  /\ file[i]["calls"] # Nobody
  /\ file[i]["result"] = Nobody
  /\ file' = [file EXCEPT ![i]["result"] = Tool]
  /\ UNCHANGED <<claim, pc, turn, exp, obs, prompt, todo, out>>

\* Where such answers can appear at all.
ToolIndex == IF ToolRuns THEN Index ELSE {}

Step(p) ==
  \/ Start(p) \/ Preflight(p) \/ Read(p) \/ Answer(p)
  \/ Acquire(p) \/ Recheck(p) \/ CheckCollision(p) \/ Write(p) \/ Derive(p)
  \/ Release(p)

Fault(p) == AcquireFails(p) \/ WriteFails(p) \/ ReleaseFails(p) \/ Crash(p)

Next ==
  \/ \E p \in Writer : Step(p) \/ Fault(p)
  \/ \E p \in Plain : PlainAllocate(p)
  \/ OperatorRemovesClaim
  \/ \E i \in ToolIndex : ToolResult(i)

Spec == Init /\ [][Next]_vars

\* A started process keeps running; nothing else is fair.
FairSpec ==
  /\ Spec
  /\ \A p \in Writer : WF_vars(Step(p))
  /\ \A p \in Plain : WF_vars(PlainAllocate(p))
------------------------------------------------------------------------------
(* Properties *)

State == [snap : Directory, next : Index \cup {Exhausted}]

\* Types; an index allocated for writing is never beyond the protocol's range.
TypeOK ==
  /\ file \in Directory
  /\ claim \in Writer \cup {Nobody}
  /\ pc \in [Writer -> Stage]
  /\ turn \in [Writer -> {"user", "assistant"}]
  /\ exp \in [Writer -> State]
  /\ obs \in [Writer -> [snap : Directory, next : Index]]
  /\ prompt \in [Writer -> Directory]
  /\ todo \in [Writer -> SUBSET (AssistantKind \cup {"user"})]
  /\ out \in [Writer -> {"none", "ok", "conflict", "error"}]

InCritical(p) ==
  /\ Cooperative(p)
  /\ pc[p] \in {"recheck", "recheck-verify", "collide", "write", "derive",
                "derive-verify", "release"}

\* Two writers are never between creating the claim and releasing it at once,
\* whatever crashes and whoever cleans up after a crash.
ClaimExclusion ==
  \A p, q \in Writer : InCritical(p) /\ InCritical(q) => p = q

\* With cooperative writers only, no step replaces or removes an artifact that
\* is already in the directory: check-then-rename is safe under the claim.
NoOverwrite ==
  [][\A i \in Index, k \in Kind :
       file[i][k] # Nobody => file'[i][k] = file[i][k]]_vars

\* Who wrote the message artifacts at each index.
OwnersIn(dir) ==
  [i \in Index |-> {dir[i][k] : k \in Kind \ {"result"}} \ {Nobody}]

Log == INSTANCE ConversationLog
         WITH owners <- OwnersIn(file),
              shown <- [p \in Writer |-> OwnersIn(exp[p].snap)]

\* Cooperative writers implement the abstract compare-and-append log: no two
\* commit from one expected state, every index belongs to one turn, and turns
\* take consecutive indexes, for fingerprint and for next-index conditions.
ImplementsLog == Log!Spec

\* A reply committed under a fingerprint answers exactly the messages it was
\* generated from: what precedes it on disk is what its prompt was read from,
\* although the prompt was read, and the model called, outside the claim.
PromptIsPrefix ==
  \A p \in Writer : ByFingerprint(p) =>
    \A i \in Index, k \in AssistantKind : file[i][k] = p =>
      /\ \A j \in Index, m \in Kind \ {"result"} :
           j < i => file[j][m] = prompt[p][j][m]
      /\ \A j \in Index : j >= i => ~Used(prompt[p], j)

\* The reply of an --input --continue run takes the index right after the
\* user message of that same run: nobody gets in between while the model runs.
ReplyFollowsOwnUser ==
  \A p \in Writer : Op[p] = "input" /\ Cooperative(p) =>
    \A i \in Index, k \in AssistantKind :
      file[i][k] = p => i > 0 /\ file[i - 1]["user"] = p

Authored(p, kinds) == \E i \in Index, k \in kinds : file[i][k] = p

\* A run that ends with the conflict exit code has left no assistant artifact,
\* and append-user no artifact at all, even when plain writers interfere.
ConflictWritesNothing ==
  \A p \in Writer : out[p] = "conflict" =>
    /\ ~Authored(p, AssistantKind)
    /\ Op[p] = "append-user" => ~Authored(p, {"user"})

\* Nobody ever waits for the claim: every run that is not killed ends, also
\* when a crashed writer left its claim behind.
EveryRunEnds == \A p \in Writer : <>(pc[p] \in {"done", "crashed"})

\* Writers that race for the claim cannot all lose by conflict: one of them
\* completes, unless one is killed or a file operation fails.
RaceHasWinner ==
  (\E p \in Writer : pc[p] = "claim")
    ~> (\E p \in Writer : \/ out[p] \in {"ok", "error"} \/ pc[p] = "crashed"
                          \/ Authored(p, Kind))
==============================================================================
