----------------------------- MODULE ToolExecution -----------------------------
(***************************************************************************)
(* promptpile-mcp exec-calls sends the tool calls of one calls file to a    *)
(* gateway and publishes their results in one result file.  Calls have side *)
(* effects and the gateway's answer may never arrive.  An execution claim,  *)
(* created before the request and kept whenever the calls may have been     *)
(* executed without a published result, keeps every later client away.      *)
(***************************************************************************)
EXTENDS Naturals

CONSTANTS
  Client,       \* clients with one calls file and one result path
  Overwriting,  \* those with --overwrite-results
  Earlier,      \* a complete result file from before
  Partial,      \* a result file that is incomplete or invalid
  Nobody,       \* no result file, no claim
  Faults        \* TRUE: file operations fail and clients are killed

ASSUME ExecAssumption ==
  /\ Overwriting \subseteq Client
  /\ Faults \in BOOLEAN
  /\ Earlier # Partial /\ {Earlier, Partial, Nobody} \cap Client = {}
  /\ Nobody \notin {Earlier, Partial}

VARIABLES
  resultFile, \* whose results the result file holds
  claim,      \* <result>.promptpile-mcp.exec.claim: whose token is in it
  pc,         \* pc[c]: where client c is
  outcome,    \* outcome[c]: "none", "written", "skipped" or "failed"
  request,    \* request[c]: what became of the request of c
  cleared     \* the clients whose claim an operator has removed

execVars == <<resultFile, claim, pc, outcome, request, cleared>>

Stage == {"check", "claim", "recheck", "parse", "post", "wait", "publish",
          "verify", "unlink", "done", "warned", "crashed"}

ExecInit ==
  /\ resultFile \in {Nobody, Earlier, Partial}
  /\ claim = Nobody
  /\ pc = [c \in Client |-> "check"]
  /\ outcome = [c \in Client |-> "none"]
  /\ request = [c \in Client |-> "none"]
  /\ cleared = {}

Goto(c, stage) == pc' = [pc EXCEPT ![c] = stage]

EndAs(c, stage, how) == Goto(c, stage) /\ outcome' = [outcome EXCEPT ![c] = how]

\* The client ends; a claim it has stays.
Keep(c, how) == EndAs(c, "done", how)

\* The client removes its claim, then ends.
Leave(c, how) == EndAs(c, "verify", how)

\* "warned": the claim file could not be handled and may have stayed.
Ended(c) == pc[c] \in {"done", "warned", "crashed"}

\* What checkCallsStatus says of a result file makes the client skip or fail.
Status == IF resultFile = Partial THEN "failed" ELSE "skipped"

Blocked(c) == c \notin Overwriting /\ resultFile # Nobody

------------------------------------------------------------------------------
(* The client *)

Check(c) ==
  /\ pc[c] = "check"
  /\ IF Blocked(c) THEN Keep(c, Status) ELSE Goto(c, "claim") /\ UNCHANGED outcome
  /\ UNCHANGED <<resultFile, claim, request, cleared>>

\* openSync(claim, 'wx'): a claim is never broken, whatever its age.
Acquire(c) ==
  /\ pc[c] = "claim"
  /\ IF claim = Nobody
     THEN claim' = c /\ Goto(c, "recheck") /\ UNCHANGED outcome
     ELSE Keep(c, "failed") /\ UNCHANGED claim
  /\ UNCHANGED <<resultFile, request, cleared>>

\* Writing the claim fails; removing it again may fail too.
AcquireFails(c) ==
  /\ Faults
  /\ pc[c] = "claim" /\ claim = Nobody
  /\ \/ claim' = Nobody /\ Keep(c, "failed")
     \/ claim' = c /\ EndAs(c, "warned", "failed")
  /\ UNCHANGED <<resultFile, request, cleared>>

\* Mutant of Recheck: what was checked before the claim is taken for granted.
RecheckNothing(c) ==
  /\ pc[c] = "recheck"
  /\ Goto(c, "parse")
  /\ UNCHANGED <<resultFile, claim, outcome, request, cleared>>

\* A result that was published between Check and Acquire counts.
Recheck(c) ==
  /\ pc[c] = "recheck"
  /\ IF Blocked(c) THEN Leave(c, Status) ELSE Goto(c, "parse") /\ UNCHANGED outcome
  /\ UNCHANGED <<resultFile, claim, request, cleared>>

\* The calls file is read only now, and may turn out to be unusable.
Parse(c) ==
  /\ pc[c] = "parse"
  /\ \/ Goto(c, "post") /\ UNCHANGED outcome
     \/ Faults /\ Leave(c, "failed")
  /\ UNCHANGED <<resultFile, claim, request, cleared>>

Post(c) ==
  /\ pc[c] = "post"
  /\ request' = [request EXCEPT ![c] = "sent"]
  /\ Goto(c, "wait")
  /\ UNCHANGED <<resultFile, claim, outcome, cleared>>

\* A complete vector of results, a status that says nothing was executed
\* (PRE_EXECUTION_HTTP_STATUSES), or an answer that leaves it open.
Receive(c) ==
  /\ pc[c] = "wait"
  /\ \/ request[c] = "answered" /\ Goto(c, "publish") /\ UNCHANGED outcome
     \/ request[c] = "refused" /\ Leave(c, "failed")
     \/ request[c] = "broken" /\ Keep(c, "failed")
  /\ UNCHANGED <<resultFile, claim, request, cleared>>

\* Mutant of GiveUp: a request that was cancelled is taken as not executed.
GiveUpReleasing(c) ==
  /\ pc[c] = "wait"
  /\ Leave(c, "failed")
  /\ UNCHANGED <<resultFile, claim, request, cleared>>

\* Timeout, SIGINT, connection refused or reset: the request goes its own way.
GiveUp(c) ==
  /\ pc[c] = "wait"
  /\ Keep(c, "failed")
  /\ UNCHANGED <<resultFile, claim, request, cleared>>

\* The result file is replaced by one rename.
Publish(c) ==
  /\ pc[c] = "publish"
  /\ \/ resultFile' = c /\ Leave(c, "written")
     \/ Faults /\ Keep(c, "failed") /\ UNCHANGED resultFile
  /\ UNCHANGED <<claim, request, cleared>>

\* releaseExecutionClaim reads the token in the claim file,
VerifyToken(c) ==
  /\ pc[c] = "verify"
  /\ \/ Goto(c, IF claim = c THEN "unlink" ELSE "done")
     \/ Faults /\ Goto(c, "warned")
  /\ UNCHANGED <<resultFile, claim, outcome, request, cleared>>

\* and unlinks whatever has that path by now.
Unlink(c) ==
  /\ pc[c] = "unlink"
  /\ \/ claim' = Nobody /\ Goto(c, "done")
     \/ Faults /\ Goto(c, "warned") /\ UNCHANGED claim
  /\ UNCHANGED <<resultFile, outcome, request, cleared>>

Crash(c) ==
  /\ Faults
  /\ pc[c] # "check" /\ ~Ended(c)
  /\ Goto(c, "crashed")
  /\ UNCHANGED <<resultFile, claim, outcome, request, cleared>>

------------------------------------------------------------------------------
(* The gateway and the network *)

Advance(c, from, to) ==
  /\ request[c] = from
  /\ request' = [request EXCEPT ![c] = to]
  /\ UNCHANGED <<resultFile, claim, pc, outcome, cleared>>

\* The calls run, whether or not the client still waits.
Deliver(c) == Advance(c, "sent", "running")
Refuse(c) == Advance(c, "sent", "refused")
Lose(c) == Advance(c, "sent", "lost")
Answer(c) == Advance(c, "running", "answered")
\* A status 5xx, a malformed or incomplete body, or no answer at all.
Break(c) == Advance(c, "running", "broken")

InFlight(c) == request[c] \in {"sent", "running"}

\* Somebody has looked into the side effects of c and removes its claim.
OperatorRemovesClaim ==
  /\ claim # Nobody
  /\ Ended(claim) /\ ~InFlight(claim)
  /\ cleared' = cleared \cup {claim}
  /\ claim' = Nobody
  /\ UNCHANGED <<resultFile, pc, outcome, request>>

Step(c) ==
  \/ Check(c) \/ Acquire(c) \/ Recheck(c) \/ Parse(c) \/ Post(c)
  \/ Receive(c) \/ GiveUp(c) \/ Publish(c) \/ VerifyToken(c) \/ Unlink(c)

Gateway(c) == Deliver(c) \/ Refuse(c) \/ Lose(c) \/ Answer(c) \/ Break(c)

ExecNext ==
  \/ \E c \in Client : Step(c) \/ AcquireFails(c) \/ Crash(c) \/ Gateway(c)
  \/ OperatorRemovesClaim

ExecSpec == ExecInit /\ [][ExecNext]_execVars

------------------------------------------------------------------------------
(* Properties *)

\* Types; a client that wrote had an answer, and one that skipped sent nothing.
ExecTypeOK ==
  /\ resultFile \in Client \cup {Nobody, Earlier, Partial}
  /\ claim \in Client \cup {Nobody}
  /\ pc \in [Client -> Stage]
  /\ outcome \in [Client -> {"none", "written", "skipped", "failed"}]
  /\ request \in [Client -> {"none", "sent", "running", "answered", "refused",
                             "broken", "lost"}]
  /\ cleared \subseteq Client
  /\ \A c \in Client : /\ outcome[c] = "written" => request[c] = "answered"
                       /\ outcome[c] = "skipped" => request[c] = "none"

\* The calls of c were executed, or still may be.
MayHaveRun(c) == request[c] \in {"sent", "running", "answered", "broken"}

\* As long as it is open whether calls were executed, their claim is there:
\* after a timeout, a kill, a lost or broken answer and a failed publication.
InDoubtIsClaimed ==
  \A c \in Client :
    MayHaveRun(c) /\ outcome[c] # "written" /\ c \notin cleared => claim = c

\* The calls are never executed by two requests at the same time, although a
\* client that gave up leaves its request running.
NoOverlap == \A c, d \in Client : InFlight(c) /\ InFlight(d) => c = d

\* Without --overwrite-results calls are sent only where no result is and
\* nothing was executed but what an operator has looked into.
NoReplay ==
  [][\A c \in Client \ Overwriting :
       request[c] = "none" /\ request'[c] = "sent" =>
         /\ resultFile = Nobody
         /\ \A d \in Client : MayHaveRun(d) => d \in cleared]_execVars
==============================================================================
