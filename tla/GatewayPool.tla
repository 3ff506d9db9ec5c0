------------------------------ MODULE GatewayPool ------------------------------
(***************************************************************************)
(* How the gateway of promptpile-mcp executes the calls of one request      *)
(* (executeCallsWithPolicy): a few workers take the calls in order, retry   *)
(* the tools that are safe to retry, stop taking calls after a failure      *)
(* (fail_fast) and when the HTTP client disconnects.  The workers run in    *)
(* one thread: what happens between two awaits is one step.                 *)
(***************************************************************************)
EXTENDS Naturals

CONSTANTS
  Calls,        \* how many calls the request has
  Worker,       \* Min(concurrency, Calls) workers
  MaxAttempts,  \* retry_max_attempts
  RetrySafe,    \* the calls whose tool is in retry_safe_tools
  FailFast,     \* failure_policy = "fail_fast"
  None          \* no result yet

Call == 0..(Calls - 1)

How == {"ok", "error", "call_timeout", "cancelled", "cancelled_fail_fast"}
Result == [how : How, attempts : 0..MaxAttempts]

ASSUME ConstantsAssumption ==
  /\ Calls \in Nat \ {0} /\ MaxAttempts \in Nat \ {0}
  /\ RetrySafe \subseteq Call
  /\ FailFast \in BOOLEAN
  /\ None \notin Result

VARIABLES
  aborted,    \* the HTTP client has disconnected
  stopped,    \* a call failed under fail_fast
  nextIndex,  \* the next call to take
  worker,     \* worker[w]: what w does, with which call, and the attempt
  starts,     \* starts[i]: how often call i was routed to its tool and executed
  results     \* results[i]: the result of call i, or None

vars == <<aborted, stopped, nextIndex, worker, starts, results>>

Free == [at |-> "free", call |-> 0, attempt |-> 0]

Init ==
  /\ aborted = FALSE /\ stopped = FALSE
  /\ nextIndex = 0
  /\ worker = [w \in Worker |-> Free]
  /\ starts = [i \in Call |-> 0]
  /\ results = [i \in Call |-> None]

\* executeWithRetry starts the tool.
Start(w, i, n) ==
  /\ worker' = [worker EXCEPT ![w] = [at |-> "run", call |-> i, attempt |-> n]]
  /\ starts' = [starts EXCEPT ![i] = @ + 1]

\* The worker keeps the result and is free for the next call.
Record(w, how) ==
  LET i == worker[w].call IN
  /\ results' = [results EXCEPT ![i] = [how |-> how, attempts |-> worker[w].attempt]]
  /\ stopped' = (stopped \/ (how # "ok" /\ FailFast))
  /\ worker' = [worker EXCEPT ![w] = Free]

Exit(w) ==
  /\ worker' = [worker EXCEPT ![w].at = "exit"]
  /\ UNCHANGED starts

\* Mutant of TakeCall: fail_fast is not looked at.
TakeCallAnyway(w) ==
  /\ worker[w].at = "free"
  /\ IF aborted \/ nextIndex >= Calls THEN Exit(w) /\ UNCHANGED nextIndex
     ELSE Start(w, nextIndex, 1) /\ nextIndex' = nextIndex + 1
  /\ UNCHANGED <<aborted, stopped, results>>

\* Mutant of TakeCall: a worker that may take nothing stays.
TakeCallStaying(w) ==
  /\ worker[w].at = "free"
  /\ ~aborted /\ ~stopped
  /\ IF nextIndex >= Calls THEN Exit(w) /\ UNCHANGED nextIndex
     ELSE Start(w, nextIndex, 1) /\ nextIndex' = nextIndex + 1
  /\ UNCHANGED <<aborted, stopped, results>>

TakeCall(w) ==
  /\ worker[w].at = "free"
  /\ IF aborted \/ stopped \/ nextIndex >= Calls
     THEN Exit(w) /\ UNCHANGED nextIndex
     ELSE Start(w, nextIndex, 1) /\ nextIndex' = nextIndex + 1
  /\ UNCHANGED <<aborted, stopped, results>>

\* The tool, or the routing before it, answers: with a success, or with an
\* error that is an answer and no reason to retry.
Returns(w) ==
  /\ worker[w].at = "run"
  /\ \E how \in {"ok", "error"} : Record(w, how)
  /\ UNCHANGED <<aborted, nextIndex, starts>>

\* Mutant of CanRetry: the list of safe tools is not looked at.
CanRetryAny(w) == ~aborted /\ worker[w].attempt < MaxAttempts

CanRetry(w) ==
  worker[w].call \in RetrySafe /\ ~aborted /\ worker[w].attempt < MaxAttempts

\* execute throws: the call's timer fired, the connection broke, the client
\* disconnected, or for a reason that is not transient.
Throws(w) ==
  /\ worker[w].at = "run"
  /\ \/ /\ CanRetry(w)
        /\ worker' = [worker EXCEPT ![w].at = "sleep"]
        /\ UNCHANGED <<stopped, results>>
     \/ /\ ~aborted
        /\ \E how \in {"error", "call_timeout"} :
             /\ how = "call_timeout" => ~CanRetry(w)
             /\ Record(w, how)
     \/ /\ aborted
        /\ Record(w, "cancelled")
  /\ UNCHANGED <<aborted, nextIndex, starts>>

\* Mutant of WakeUp: the signal is not looked at again after the sleep.
WakeUpAnyway(w) ==
  /\ worker[w].at = "sleep"
  /\ Start(w, worker[w].call, worker[w].attempt + 1)
  /\ UNCHANGED <<aborted, stopped, nextIndex, results>>

\* The delay is over or was cut short by the disconnection.
WakeUp(w) ==
  /\ worker[w].at = "sleep"
  /\ IF aborted
     THEN Record(w, "cancelled") /\ UNCHANGED starts
     ELSE Start(w, worker[w].call, worker[w].attempt + 1) /\ UNCHANGED <<stopped, results>>
  /\ UNCHANGED <<aborted, nextIndex>>

\* What becomes of the calls that no worker has taken.
Untaken ==
  [how |-> IF aborted THEN "cancelled" ELSE "cancelled_fail_fast", attempts |-> 0]

\* All workers have returned; every call gets a result.
Finish ==
  /\ \A w \in Worker : worker[w].at = "exit"
  /\ \E i \in Call : results[i] = None
  /\ results' = [i \in Call |-> IF results[i] = None THEN Untaken ELSE results[i]]
  /\ UNCHANGED <<aborted, stopped, nextIndex, worker, starts>>

\* The connection closes before the response was written.
Disconnect ==
  /\ ~aborted
  /\ \E i \in Call : results[i] = None
  /\ aborted' = TRUE
  /\ UNCHANGED <<stopped, nextIndex, worker, starts, results>>

Work(w) == TakeCall(w) \/ Returns(w) \/ Throws(w) \/ WakeUp(w)

Next == (\E w \in Worker : Work(w)) \/ Finish \/ Disconnect

Spec == Init /\ [][Next]_vars

\* Every call has a timer, so an execution returns or throws; a delay ends.
FairSpec == Spec /\ WF_vars(Finish) /\ \A w \in Worker : WF_vars(Work(w))
------------------------------------------------------------------------------
(* Properties *)

\* Types; no call is attempted more often than retry_max_attempts.
TypeOK ==
  /\ aborted \in BOOLEAN /\ stopped \in BOOLEAN
  /\ nextIndex \in 0..Calls
  /\ worker \in [Worker -> [at : {"free", "run", "sleep", "exit"}, call : Call,
                            attempt : 0..MaxAttempts]]
  /\ starts \in [Call -> 0..MaxAttempts]
  /\ results \in [Call -> Result \cup {None}]

Busy(w) == worker[w].at \in {"run", "sleep"}

\* A tool that is not known to be safe to retry is started at most once,
\* whatever fails and however the workers interleave.
UnsafeRunsOnce == \A i \in Call \ RetrySafe : starts[i] <= 1

\* The attempts that a result reports are the starts of its tool, also when
\* the call was cancelled before, during or between attempts.
AttemptsAreStarts == \A i \in Call : results[i] # None => results[i].attempts = starts[i]

\* No two workers have one call, and none has a call that is answered.
OneWorkerPerCall ==
  \A w \in Worker : Busy(w) =>
    /\ results[worker[w].call] = None
    /\ \A v \in Worker : Busy(v) /\ worker[v].call = worker[w].call => v = w

\* Once the client is gone no tool is started, not even again; after a
\* failure under fail_fast only calls that were taken before are retried.
NothingStartsAfterStop ==
  [][\A i \in Call : starts'[i] # starts[i] =>
       ~aborted /\ (stopped => starts[i] > 0)]_vars

\* Every call of every request gets its result.
EveryCallIsAnswered == \A i \in Call : <>(results[i] # None)
==============================================================================
