------------------------------ MODULE Tools_proofs ------------------------------
(***************************************************************************)
(* Running tools: what the worker pool of the promptpile-mcp gateway        *)
(* guarantees for any number of calls, workers and attempts and any choice *)
(* of tools that are safe to retry; what the gateway's client guarantees   *)
(* for any set of clients, overwriting or not, with any faults, as long as *)
(* an operator removes only the claims of clients that have ended; and     *)
(* what the stateful tools of agent-lite-tools guarantee, each for any     *)
(* files, contents, reads, calls and outputs, and whoever interferes.  The *)
(* five share nothing.                                                     *)
(***************************************************************************)
EXTENDS GatewayPool, ToolExecution, WatchedSettings, FileTools, ShellRun, TLAPS

------------------------------------------------------------------------------
(* The gateway: GatewayPool *)

\* A busy worker has a call that was taken, has no result yet, and was
\* started once per attempt; more than one attempt only if that is safe.
BusyWorkers ==
  \A w \in Worker : Busy(w) =>
    /\ worker[w].call < nextIndex
    /\ results[worker[w].call] = None
    /\ starts[worker[w].call] = worker[w].attempt
    /\ worker[w].call \notin RetrySafe => worker[w].at = "run" /\ worker[w].attempt = 1
    /\ worker[w].at = "sleep" => worker[w].attempt < MaxAttempts

Exclusive ==
  \A v, w \in Worker : Busy(v) /\ Busy(w) /\ worker[v].call = worker[w].call => v = w

\* A call without a result is still to be taken or is being worked on.
Untouched ==
  \A i \in Call :
    /\ i >= nextIndex => starts[i] = 0
    /\ i >= nextIndex /\ results[i] # None => \A w \in Worker : worker[w].at = "exit"
    /\ i < nextIndex /\ results[i] = None =>
         \E w \in Worker : Busy(w) /\ worker[w].call = i

IInv == TypeOK /\ BusyWorkers /\ Exclusive /\ Untouched /\ UnsafeRunsOnce /\ AttemptsAreStarts

\* The typing of one worker, field by field.
LEMMA WorkerType ==
  ASSUME TypeOK, NEW w \in Worker
  PROVE  /\ worker[w].at \in {"free", "run", "sleep", "exit"}
         /\ worker[w].call \in Call
         /\ worker[w].attempt \in 0..MaxAttempts
         /\ worker[w] = [at |-> worker[w].at, call |-> worker[w].call,
                         attempt |-> worker[w].attempt]
BY DEF TypeOK

LEMMA InitInv == Init => IInv
<1> SUFFICES ASSUME Init PROVE IInv
  OBVIOUS
<1>1. 0 \in Call /\ \A i \in Call : i \in Nat
  BY ConstantsAssumption DEF Call
<1>2. TypeOK
  <2>1. 0 \in 0..MaxAttempts /\ 0 \in 0..Calls
    BY ConstantsAssumption
  <2>2. worker \in [Worker -> [at : {"free", "run", "sleep", "exit"}, call : Call,
                               attempt : 0..MaxAttempts]]
    BY <1>1, <2>1 DEF Init, Free
  <2>3. starts \in [Call -> 0..MaxAttempts]
    BY <2>1 DEF Init
  <2>4. results \in [Call -> Result \cup {None}]
    BY DEF Init
  <2>5. aborted \in BOOLEAN /\ stopped \in BOOLEAN /\ nextIndex \in 0..Calls
    BY <2>1 DEF Init
  <2> QED BY <2>2, <2>3, <2>4, <2>5 DEF TypeOK
<1>3. \A w \in Worker : ~Busy(w)
  BY DEF Init, Free, Busy
<1>4. BusyWorkers /\ Exclusive
  BY <1>3 DEF BusyWorkers, Exclusive
<1>5. Untouched /\ UnsafeRunsOnce /\ AttemptsAreStarts
  BY <1>1 DEF Init, Untouched, UnsafeRunsOnce, AttemptsAreStarts
<1> QED BY <1>2, <1>4, <1>5 DEF IInv

\* Taking a call: it has not been started before, and no worker has it.
LEMMA TakeInv == ASSUME IInv, NEW w \in Worker, TakeCall(w) PROVE IInv'
<1> USE DEF IInv
<1>1. CASE aborted \/ stopped \/ nextIndex >= Calls
  <2>1. /\ worker' = [worker EXCEPT ![w].at = "exit"]
        /\ UNCHANGED <<aborted, stopped, nextIndex, starts, results>>
        /\ worker[w].at = "free"
    BY <1>1 DEF TakeCall, Exit
  <2>2. /\ worker'[w] = [at |-> "exit", call |-> worker[w].call, attempt |-> worker[w].attempt]
        /\ \A v \in Worker : v # w => worker'[v] = worker[v]
    BY <2>1, WorkerType DEF TypeOK
  <2>3. TypeOK'
    BY <2>1, <2>2, WorkerType DEF TypeOK
  <2>4. \A v \in Worker : /\ Busy(v)' => Busy(v) /\ worker'[v] = worker[v]
                          /\ Busy(v) => Busy(v)' /\ worker'[v] = worker[v]
                          /\ worker[v].at = "exit" => worker'[v].at = "exit"
    BY <2>1, <2>2 DEF Busy
  <2>5. BusyWorkers'
    BY <2>1, <2>4 DEF BusyWorkers
  <2>6. Exclusive'
    BY <2>1, <2>4 DEF Exclusive
  <2>7. Untouched'
    BY <2>1, <2>4 DEF Untouched
  <2>8. (UnsafeRunsOnce /\ AttemptsAreStarts)'
    BY <2>1 DEF UnsafeRunsOnce, AttemptsAreStarts
  <2> QED BY <2>3, <2>5, <2>6, <2>7, <2>8
<1>2. CASE ~(aborted \/ stopped \/ nextIndex >= Calls)
  <2>1. /\ worker' = [worker EXCEPT ![w] = [at |-> "run", call |-> nextIndex, attempt |-> 1]]
        /\ starts' = [starts EXCEPT ![nextIndex] = @ + 1]
        /\ nextIndex' = nextIndex + 1
        /\ UNCHANGED <<aborted, stopped, results>>
        /\ worker[w].at = "free"
    BY <1>2 DEF TakeCall, Start
  <2>2. nextIndex \in Call /\ nextIndex < Calls /\ nextIndex \in Nat /\ Call \subseteq Nat
    BY <1>2, ConstantsAssumption DEF TypeOK, Call
  <2>3. starts[nextIndex] = 0 /\ results[nextIndex] = None
    BY <2>1, <2>2 DEF Untouched
  <2>4. /\ starts' \in [Call -> 0..MaxAttempts]
        /\ starts'[nextIndex] = 1
        /\ \A i \in Call : i # nextIndex => starts'[i] = starts[i]
    BY <2>1, <2>2, <2>3, ConstantsAssumption DEF TypeOK
  <2>5. /\ worker'[w] = [at |-> "run", call |-> nextIndex, attempt |-> 1]
        /\ \A v \in Worker : v # w => worker'[v] = worker[v]
    BY <2>1 DEF TypeOK
  <2>6. TypeOK'
    <3>1. worker' \in [Worker -> [at : {"free", "run", "sleep", "exit"}, call : Call,
                                  attempt : 0..MaxAttempts]]
      BY <2>1, <2>2, ConstantsAssumption DEF TypeOK
    <3>2. nextIndex' \in 0..Calls
      BY <2>1, <2>2, ConstantsAssumption
    <3> QED BY <2>1, <2>4, <3>1, <3>2 DEF TypeOK
  <2>7. /\ Busy(w)' /\ ~Busy(w)
        /\ \A v \in Worker : v # w => (Busy(v)' <=> Busy(v))
    BY <2>1, <2>5 DEF Busy
  <2>8. \A v \in Worker : Busy(v) => worker[v].call < nextIndex /\ worker[v].call \in Call
    BY WorkerType DEF BusyWorkers
  <2>9. BusyWorkers'
    <3> SUFFICES ASSUME NEW v \in Worker, Busy(v)'
                 PROVE  /\ worker'[v].call < nextIndex'
                        /\ results'[worker'[v].call] = None
                        /\ starts'[worker'[v].call] = worker'[v].attempt
                        /\ worker'[v].call \notin RetrySafe =>
                             worker'[v].at = "run" /\ worker'[v].attempt = 1
                        /\ worker'[v].at = "sleep" => worker'[v].attempt < MaxAttempts
      BY DEF BusyWorkers
    <3>1. CASE v = w
      BY <3>1, <2>1, <2>2, <2>3, <2>4, <2>5
    <3>2. CASE v # w
      <4>1. /\ Busy(v) /\ worker'[v] = worker[v]
            /\ worker[v].call \in Call /\ worker[v].call < nextIndex
        BY <3>2, <2>5, <2>7, <2>8
      <4>2. worker[v].call # nextIndex /\ worker[v].call < nextIndex'
        <5>1. worker[v].call \in Nat
          BY <4>1, <2>2
        <5> QED BY <4>1, <5>1, <2>1, <2>2
      <4>3. starts'[worker[v].call] = starts[worker[v].call]
        BY <4>1, <4>2, <2>4
      <4> QED BY <4>1, <4>2, <4>3, <2>1 DEF BusyWorkers
    <3> QED BY <3>1, <3>2
  <2>10. Exclusive'
    BY <2>2, <2>5, <2>7, <2>8 DEF Exclusive
  <2>11. Untouched'
    <3> SUFFICES ASSUME NEW i \in Call
                 PROVE  /\ i >= nextIndex' => starts'[i] = 0 /\ results'[i] = None
                        /\ i < nextIndex' /\ results'[i] = None =>
                             \E v \in Worker : Busy(v)' /\ worker'[v].call = i
      BY DEF Untouched
    <3>1. CASE i >= nextIndex'
      BY <3>1, <2>1, <2>2, <2>4 DEF Untouched
    <3>2. CASE i = nextIndex
      BY <3>2, <2>1, <2>2, <2>5, <2>7
    <3>3. CASE i < nextIndex
      <4>1. ASSUME results[i] = None PROVE \E v \in Worker : Busy(v)' /\ worker'[v].call = i
        <5>1. PICK v \in Worker : Busy(v) /\ worker[v].call = i
          BY <3>3, <4>1 DEF Untouched
        <5> QED BY <5>1, <2>5, <2>7
      <4> QED BY <3>3, <4>1, <2>1, <2>2
    <3> QED BY <3>1, <3>2, <3>3, <2>1, <2>2
  <2>12. UnsafeRunsOnce'
    BY <2>4 DEF UnsafeRunsOnce
  <2>13. AttemptsAreStarts'
    BY <2>1, <2>3, <2>4 DEF AttemptsAreStarts
  <2> QED BY <2>6, <2>9, <2>10, <2>11, <2>12, <2>13
<1> QED BY <1>1, <1>2

\* A worker that keeps a result gives its call away.
LEMMA RecordInv ==
  ASSUME IInv, NEW w \in Worker, Busy(w), NEW how \in How, Record(w, how),
         UNCHANGED <<aborted, nextIndex, starts>>
  PROVE  IInv'
<1> USE DEF IInv
<1> DEFINE i == worker[w].call
           r == [how |-> how, attempts |-> worker[w].attempt]
<1>1. /\ results' = [results EXCEPT ![i] = r]
      /\ stopped' = (stopped \/ (how # "ok" /\ FailFast))
      /\ worker' = [worker EXCEPT ![w] = Free]
  BY DEF Record
<1>2. i \in Call /\ worker[w].attempt \in 0..MaxAttempts /\ r \in Result
  BY WorkerType DEF Result
<1>3. /\ results'[i] = r /\ r # None
      /\ \A k \in Call : k # i => results'[k] = results[k]
  BY <1>1, <1>2, ConstantsAssumption DEF TypeOK
<1>4. /\ worker'[w] = Free
      /\ \A v \in Worker : v # w => worker'[v] = worker[v]
  BY <1>1 DEF TypeOK
<1>5. ~Busy(w)' /\ \A v \in Worker : v # w => (Busy(v)' <=> Busy(v))
  BY <1>4 DEF Busy, Free
<1>6. TypeOK'
  <2>1. 0 \in Call /\ 0 \in 0..MaxAttempts
    BY ConstantsAssumption DEF Call
  <2>2. Free \in [at : {"free", "run", "sleep", "exit"}, call : Call, attempt : 0..MaxAttempts]
    BY <2>1 DEF Free
  <2>3. worker' \in [Worker -> [at : {"free", "run", "sleep", "exit"}, call : Call,
                                attempt : 0..MaxAttempts]]
    BY <1>1, <2>2 DEF TypeOK
  <2>4. results' \in [Call -> Result \cup {None}]
    BY <1>1, <1>2 DEF TypeOK
  <2>5. stopped' \in BOOLEAN
    BY <1>1, ConstantsAssumption DEF TypeOK
  <2> QED BY <2>3, <2>4, <2>5 DEF TypeOK
<1>7. BusyWorkers'
  <2> SUFFICES ASSUME NEW v \in Worker, Busy(v)'
               PROVE  /\ worker'[v].call < nextIndex'
                      /\ results'[worker'[v].call] = None
                      /\ starts'[worker'[v].call] = worker'[v].attempt
                      /\ worker'[v].call \notin RetrySafe =>
                           worker'[v].at = "run" /\ worker'[v].attempt = 1
                      /\ worker'[v].at = "sleep" => worker'[v].attempt < MaxAttempts
    BY DEF BusyWorkers
  <2>1. v # w /\ Busy(v) /\ worker'[v] = worker[v] /\ worker[v].call \in Call
    BY <1>4, <1>5, WorkerType
  <2>2. worker[v].call # i
    BY <2>1 DEF Exclusive
  <2> QED BY <1>3, <2>1, <2>2 DEF BusyWorkers
<1>8. Exclusive'
  BY <1>4, <1>5 DEF Exclusive
<1>9. Untouched'
  <2> SUFFICES ASSUME NEW k \in Call
               PROVE  /\ k >= nextIndex => starts[k] = 0 /\ results'[k] = None
                      /\ k < nextIndex /\ results'[k] = None =>
                           \E v \in Worker : Busy(v)' /\ worker'[v].call = k
    BY DEF Untouched
  <2>1. worker[w].at # "exit" /\ i < nextIndex /\ nextIndex \in Nat /\ Call \subseteq Nat
    BY ConstantsAssumption DEF Busy, BusyWorkers, TypeOK, Call
  <2>2. ASSUME k >= nextIndex PROVE starts[k] = 0 /\ results'[k] = None
    BY <2>1, <2>2, <1>2, <1>3 DEF Untouched
  <2>3. ASSUME k < nextIndex, results'[k] = None
        PROVE  \E v \in Worker : Busy(v)' /\ worker'[v].call = k
    <3>1. k # i /\ results[k] = None
      BY <2>3, <1>3
    <3>2. PICK v \in Worker : Busy(v) /\ worker[v].call = k
      BY <2>3, <3>1 DEF Untouched
    <3> QED BY <3>1, <3>2, <1>4, <1>5
  <2> QED BY <2>2, <2>3
<1>10. UnsafeRunsOnce'
  BY DEF UnsafeRunsOnce
<1>11. AttemptsAreStarts'
  BY <1>2, <1>3 DEF AttemptsAreStarts, BusyWorkers
<1> QED BY <1>6, <1>7, <1>8, <1>9, <1>10, <1>11

\* Going to sleep: only where a retry is safe and attempts are left.
LEMMA SleepInv ==
  ASSUME IInv, NEW w \in Worker, worker[w].at = "run", CanRetry(w),
         worker' = [worker EXCEPT ![w].at = "sleep"],
         UNCHANGED <<aborted, stopped, nextIndex, starts, results>>
  PROVE  IInv'
<1> USE DEF IInv
<1>1. /\ worker'[w] = [at |-> "sleep", call |-> worker[w].call, attempt |-> worker[w].attempt]
      /\ \A v \in Worker : v # w => worker'[v] = worker[v]
  BY WorkerType DEF TypeOK
<1>2. TypeOK'
  BY <1>1, WorkerType DEF TypeOK
<1>3. /\ Busy(w) /\ Busy(w)'
      /\ \A v \in Worker : /\ Busy(v)' <=> Busy(v)
                           /\ worker'[v].call = worker[v].call
                           /\ worker'[v].attempt = worker[v].attempt
                           /\ worker'[v].at = "exit" <=> worker[v].at = "exit"
  BY <1>1 DEF Busy
<1>4. BusyWorkers'
  BY <1>1, <1>3 DEF BusyWorkers, CanRetry
<1>5. Exclusive'
  BY <1>3 DEF Exclusive
<1>6. Untouched'
  BY <1>3 DEF Untouched
<1>7. (UnsafeRunsOnce /\ AttemptsAreStarts)'
  BY DEF UnsafeRunsOnce, AttemptsAreStarts
<1> QED BY <1>2, <1>4, <1>5, <1>6, <1>7

\* Starting again after the sleep.
LEMMA RestartInv ==
  ASSUME IInv, NEW w \in Worker, worker[w].at = "sleep",
         Start(w, worker[w].call, worker[w].attempt + 1),
         UNCHANGED <<aborted, stopped, nextIndex, results>>
  PROVE  IInv'
<1> USE DEF IInv
<1> DEFINE i == worker[w].call
           n == worker[w].attempt
<1>1. /\ Busy(w) /\ i \in Call /\ n \in Nat /\ n < MaxAttempts /\ MaxAttempts \in Nat
      /\ starts[i] = n /\ i \in RetrySafe /\ results[i] = None /\ i < nextIndex
  <2>1. i \in Call /\ n \in Nat /\ MaxAttempts \in Nat
    <3>1. i \in Call /\ n \in 0..MaxAttempts
      BY WorkerType
    <3> QED BY <3>1, ConstantsAssumption
  <2>2. Busy(w)
    BY DEF Busy
  <2>3. n < MaxAttempts /\ starts[i] = n /\ results[i] = None /\ i < nextIndex
    BY <2>2 DEF BusyWorkers
  <2>4. i \in RetrySafe
    BY <2>2 DEF BusyWorkers
  <2> QED BY <2>1, <2>2, <2>3, <2>4
<1>2. /\ worker' = [worker EXCEPT ![w] = [at |-> "run", call |-> i, attempt |-> n + 1]]
      /\ starts' = [starts EXCEPT ![i] = @ + 1]
  BY DEF Start
<1>3. /\ worker'[w] = [at |-> "run", call |-> i, attempt |-> n + 1]
      /\ \A v \in Worker : v # w => worker'[v] = worker[v]
  BY <1>2 DEF TypeOK
<1>4. /\ starts'[i] = n + 1
      /\ \A k \in Call : k # i => starts'[k] = starts[k]
  BY <1>1, <1>2 DEF TypeOK
<1>5. TypeOK'
  <2>1. n + 1 \in 0..MaxAttempts
    BY <1>1
  <2>2. starts' \in [Call -> 0..MaxAttempts]
    BY <1>1, <1>2, <2>1 DEF TypeOK
  <2>3. worker' \in [Worker -> [at : {"free", "run", "sleep", "exit"}, call : Call,
                                attempt : 0..MaxAttempts]]
    BY <1>1, <1>2, <2>1 DEF TypeOK
  <2> QED BY <2>2, <2>3 DEF TypeOK
<1>6. \A v \in Worker : /\ Busy(v)' <=> Busy(v)
                        /\ worker'[v].call = worker[v].call
                        /\ worker'[v].at = "exit" <=> worker[v].at = "exit"
  BY <1>1, <1>3 DEF Busy
<1>7. BusyWorkers'
  <2> SUFFICES ASSUME NEW v \in Worker, Busy(v)'
               PROVE  /\ worker'[v].call < nextIndex'
                      /\ results'[worker'[v].call] = None
                      /\ starts'[worker'[v].call] = worker'[v].attempt
                      /\ worker'[v].call \notin RetrySafe =>
                           worker'[v].at = "run" /\ worker'[v].attempt = 1
                      /\ worker'[v].at = "sleep" => worker'[v].attempt < MaxAttempts
    BY DEF BusyWorkers
  <2>1. CASE v = w
    BY <2>1, <1>1, <1>3, <1>4
  <2>2. CASE v # w
    <3>1. Busy(v) /\ worker[v].call \in Call /\ worker[v].call # i
      BY <2>2, <1>1, <1>6, WorkerType DEF Exclusive
    <3> QED BY <2>2, <3>1, <1>3, <1>4 DEF BusyWorkers
  <2> QED BY <2>1, <2>2
<1>8. Exclusive'
  BY <1>6 DEF Exclusive
<1>9. Untouched'
  <2>1. nextIndex \in Nat /\ Call \subseteq Nat
    BY ConstantsAssumption DEF TypeOK, Call
  <2> QED BY <1>1, <1>4, <1>6, <2>1 DEF Untouched
<1>10. UnsafeRunsOnce'
  BY <1>1, <1>4 DEF UnsafeRunsOnce
<1>11. AttemptsAreStarts'
  BY <1>1, <1>4 DEF AttemptsAreStarts
<1> QED BY <1>5, <1>7, <1>8, <1>9, <1>10, <1>11

\* A call that nobody took was never started.
LEMMA FinishInv == ASSUME IInv, Finish PROVE IInv'
<1> USE DEF IInv
<1>1. \A w \in Worker : worker[w].at = "exit" /\ ~Busy(w) /\ ~Busy(w)'
  BY DEF Finish, Busy
<1>2. \A i \in Call : results[i] = None => starts[i] = 0
  <2>1. nextIndex \in Nat /\ Call \subseteq Nat
    BY ConstantsAssumption DEF TypeOK, Call
  <2> QED BY <1>1, <2>1 DEF Untouched
<1>3. Untaken \in Result /\ Untaken # None /\ Untaken.attempts = 0
  BY ConstantsAssumption DEF Untaken, Result, How
<1>4. /\ results' \in [Call -> Result \cup {None}]
      /\ \A i \in Call : results'[i] = IF results[i] = None THEN Untaken ELSE results[i]
  BY <1>3 DEF Finish, TypeOK
<1>5. TypeOK'
  BY <1>4 DEF Finish, TypeOK
<1>6. (BusyWorkers /\ Exclusive)'
  BY <1>1 DEF BusyWorkers, Exclusive
<1>7. Untouched'
  BY <1>1, <1>3, <1>4 DEF Finish, Untouched
<1>8. UnsafeRunsOnce'
  BY DEF Finish, UnsafeRunsOnce
<1>9. AttemptsAreStarts'
  BY <1>2, <1>3, <1>4 DEF Finish, AttemptsAreStarts
<1> QED BY <1>5, <1>6, <1>7, <1>8, <1>9

LEMMA Invariance == Spec => []IInv
<1>1. IInv /\ [Next]_vars => IInv'
  <2> SUFFICES ASSUME IInv, [Next]_vars PROVE IInv'
    OBVIOUS
  <2>1. ASSUME NEW w \in Worker, Work(w) PROVE IInv'
    <3>1. CASE TakeCall(w)
      BY <3>1, TakeInv
    <3>2. CASE Returns(w)
      BY <3>2, RecordInv DEF Returns, Busy, How
    <3>3. CASE Throws(w)
      BY <3>3, RecordInv, SleepInv DEF Throws, Busy, How
    <3>4. CASE WakeUp(w)
      BY <3>4, RecordInv, RestartInv DEF WakeUp, Busy, How
    <3> QED BY <2>1, <3>1, <3>2, <3>3, <3>4 DEF Work
  <2>2. CASE Finish
    BY <2>2, FinishInv
  <2>3. CASE Disconnect
    BY <2>3 DEF Disconnect, IInv, TypeOK, BusyWorkers, Exclusive, Untouched, Busy,
               UnsafeRunsOnce, AttemptsAreStarts
  <2>4. CASE UNCHANGED vars
    BY <2>4 DEF vars, IInv, TypeOK, BusyWorkers, Exclusive, Untouched, Busy,
               UnsafeRunsOnce, AttemptsAreStarts
  <2> QED BY <2>1, <2>2, <2>3, <2>4 DEF Next
<1> QED BY InitInv, <1>1, PTL DEF Spec

\* Types are kept; no call is started more often than retry_max_attempts.
THEOREM TypeCorrect == Spec => []TypeOK
<1>1. IInv => TypeOK BY DEF IInv
<1> QED BY <1>1, Invariance, PTL

\* A tool that is not listed as safe to retry is started at most once.
THEOREM UnsafeNeverRetried == Spec => []UnsafeRunsOnce
<1>1. IInv => UnsafeRunsOnce BY DEF IInv
<1> QED BY <1>1, Invariance, PTL

\* What a result reports as attempts is how often its tool was started.
THEOREM AttemptsCorrect == Spec => []AttemptsAreStarts
<1>1. IInv => AttemptsAreStarts BY DEF IInv
<1> QED BY <1>1, Invariance, PTL

\* No two workers ever have one call, and none has a call with a result.
THEOREM OnePerCall == Spec => []OneWorkerPerCall
<1>1. IInv => OneWorkerPerCall BY DEF IInv, BusyWorkers, Exclusive, OneWorkerPerCall
<1> QED BY <1>1, Invariance, PTL

\* A busy worker has made an attempt; so what it starts again was started before.
AttemptMade == \A w \in Worker : Busy(w) => worker[w].attempt > 0

LEMMA AttemptMadeKept == ASSUME TypeOK, AttemptMade, [Next]_vars PROVE AttemptMade'
<1> USE DEF AttemptMade, Busy
<1>1. ASSUME NEW w \in Worker, Work(w) PROVE AttemptMade'
  <2>1. worker[w].attempt \in Nat /\ worker \in [Worker -> [at : {"free", "run", "sleep", "exit"},
                                                 call : Call, attempt : 0..MaxAttempts]]
    BY WorkerType, ConstantsAssumption DEF TypeOK
  <2>2. \A v \in Worker : v # w => worker'[v] = worker[v]
    BY <1>1, <2>1 DEF Work, TakeCall, Returns, Throws, WakeUp, Start, Record, Exit
  <2>3. worker'[w].at \in {"run", "sleep"} => worker'[w].attempt > 0
    <3>1. CASE TakeCall(w)
      BY <3>1, <2>1 DEF TakeCall, Start, Exit
    <3>2. CASE Returns(w)
      BY <3>2, <2>1 DEF Returns, Record, Free
    <3>3. CASE Throws(w)
      BY <3>3, <2>1 DEF Throws, Record, Free
    <3>4. CASE WakeUp(w)
      BY <3>4, <2>1 DEF WakeUp, Record, Free, Start
    <3>. QED
      BY <1>1, <3>1, <3>2, <3>3, <3>4 DEF Work
  <2>. QED
    BY <2>2, <2>3
<1>2. CASE Finish \/ Disconnect \/ UNCHANGED vars
  BY <1>2 DEF Finish, Disconnect, vars
<1>. QED
  BY <1>1, <1>2 DEF Next

\* Once the client has gone nothing is started; once a call failed under fail_fast
\* only what was started before is started again, by whichever worker.
THEOREM NothingAfterStop == Spec => NothingStartsAfterStop
<1> DEFINE Stopped == \A i \in Call : starts'[i] # starts[i] => ~aborted /\ (stopped => starts[i] > 0)
<1>1. ASSUME IInv, AttemptMade, [Next]_vars PROVE [Stopped]_vars
  <2>1. ASSUME NEW w \in Worker, Work(w) PROVE Stopped
    <3> USE DEF IInv, Busy
    <3>1. CASE TakeCall(w)
      BY <1>1, <3>1 DEF TakeCall, Start, Exit, TypeOK
    <3>2. CASE Returns(w) \/ Throws(w)
      BY <3>2 DEF Returns, Throws
    <3>3. CASE WakeUp(w)
      <4>1. starts[worker[w].call] > 0
        <5>1. Busy(w)
          BY <3>3 DEF WakeUp
        <5>2. starts[worker[w].call] = worker[w].attempt
          BY <1>1, <5>1 DEF BusyWorkers
        <5>. QED
          BY <1>1, <5>1, <5>2 DEF AttemptMade
      <4>. QED
        BY <1>1, <3>3, <4>1 DEF WakeUp, Record, Start, TypeOK
    <3>. QED
      BY <2>1, <3>1, <3>2, <3>3 DEF Work
  <2>2. CASE Finish \/ Disconnect \/ UNCHANGED vars
    BY <2>2 DEF Finish, Disconnect, vars
  <2>. QED
    BY <1>1, <2>1, <2>2 DEF Next
<1>2. Init => AttemptMade
  BY DEF Init, AttemptMade, Busy, Free
<1>. QED
  BY <1>1, <1>2, AttemptMadeKept, TypeCorrect, Invariance, PTL DEF Spec, NothingStartsAfterStop

------------------------------------------------------------------------------
(* The client of the gateway: ToolExecution *)

\* Everything follows from one invariant: who is between creating and removing
\* the claim is who the claim names, and so is who has a request in flight.
Holding(c) == pc[c] \in {"recheck", "parse", "post", "wait", "publish", "verify", "unlink"}

HoldsClaim == \A c \in Client : Holding(c) \/ InFlight(c) => claim = c

\* What the program counter says of the request and the outcome.
Before == {"check", "claim", "recheck", "parse", "post"}
Progress ==
  \A c \in Client :
    /\ pc[c] \in Before => request[c] = "none"
    /\ pc[c] \in Before \cup {"wait", "publish"} => outcome[c] = "none"
    /\ pc[c] = "publish" => request[c] = "answered"
    /\ pc[c] \in {"verify", "unlink"} => outcome[c] = "written" \/ ~MayHaveRun(c)

\* What the result file says.
ResultTells ==
  /\ \A c \in Client : outcome[c] = "written" => resultFile # Nobody
  /\ \A c \in Client \ Overwriting : pc[c] \in {"parse", "post"} => resultFile = Nobody

ExecInv == ExecTypeOK /\ HoldsClaim /\ Progress /\ ResultTells /\ InDoubtIsClaimed

\* The initial states satisfy the invariant.
LEMMA ExecInitInv == ExecInit => ExecInv
BY ExecAssumption
   DEF ExecInit, ExecInv, ExecTypeOK, HoldsClaim, Holding, InFlight, Progress, Before, ResultTells,
       InDoubtIsClaimed, MayHaveRun, Stage

\* A step of a client, whatever it does with the claim, keeps the invariant.
LEMMA ClientInv ==
  ASSUME ExecInv, NEW c \in Client, Step(c) \/ AcquireFails(c) \/ Crash(c)
  PROVE  ExecInv'
<1> USE ExecAssumption
    DEF ExecInv, ExecTypeOK, HoldsClaim, Holding, InFlight, Progress, Before, ResultTells,
        InDoubtIsClaimed, MayHaveRun, Stage, Goto, EndAs, Keep, Leave, Status, Blocked, Ended
<1>1. CASE Check(c)         BY <1>1 DEF Check
<1>2. CASE Acquire(c)       BY <1>2 DEF Acquire
<1>3. CASE AcquireFails(c)  BY <1>3 DEF AcquireFails
<1>4. CASE Recheck(c)       BY <1>4 DEF Recheck
<1>5. CASE Parse(c)         BY <1>5 DEF Parse
<1>6. CASE Post(c)          BY <1>6 DEF Post
<1>7. CASE Receive(c)       BY <1>7 DEF Receive
<1>8. CASE GiveUp(c)        BY <1>8 DEF GiveUp
<1>9. CASE Publish(c)       BY <1>9 DEF Publish
<1>10. CASE VerifyToken(c)  BY <1>10 DEF VerifyToken
<1>11. CASE Unlink(c)       BY <1>11 DEF Unlink
<1>12. CASE Crash(c)        BY <1>12 DEF Crash
<1> QED BY <1>1, <1>2, <1>3, <1>4, <1>5, <1>6, <1>7, <1>8, <1>9, <1>10, <1>11, <1>12 DEF Step

\* So do the gateway, the network and the operator.
LEMMA WorldInv ==
  ASSUME ExecInv, (\E c \in Client : Gateway(c)) \/ OperatorRemovesClaim
  PROVE  ExecInv'
<1> USE ExecAssumption
    DEF ExecInv, ExecTypeOK, HoldsClaim, Holding, InFlight, Progress, Before, ResultTells,
        InDoubtIsClaimed, MayHaveRun, Stage, Ended
<1>1. ASSUME NEW c \in Client, Gateway(c) PROVE ExecInv'
  <2> USE DEF Advance
  <2>1. CASE Deliver(c) BY <2>1 DEF Deliver
  <2>2. CASE Refuse(c)  BY <2>2 DEF Refuse
  <2>3. CASE Lose(c)    BY <2>3 DEF Lose
  <2>4. CASE Answer(c)  BY <2>4 DEF Answer
  <2>5. CASE Break(c)   BY <2>5 DEF Break
  <2> QED BY <1>1, <2>1, <2>2, <2>3, <2>4, <2>5 DEF Gateway
<1>2. CASE OperatorRemovesClaim BY <1>2 DEF OperatorRemovesClaim
<1> QED BY <1>1, <1>2

\* The invariant holds in every reachable state.
LEMMA ExecInvariance == ExecSpec => []ExecInv
<1>1. ExecInv /\ [ExecNext]_execVars => ExecInv'
  <2> SUFFICES ASSUME ExecInv, [ExecNext]_execVars PROVE ExecInv'
    OBVIOUS
  <2>1. CASE ExecNext
    BY <2>1, ClientInv, WorldInv DEF ExecNext
  <2>2. CASE UNCHANGED execVars
    BY <2>2 DEF execVars, ExecInv, ExecTypeOK, HoldsClaim, Holding, InFlight, Progress, ResultTells,
               InDoubtIsClaimed, MayHaveRun
  <2> QED BY <2>1, <2>2
<1> QED BY ExecInitInv, <1>1, PTL DEF ExecSpec

\* Types are kept, a client that reports a published result did have the
\* gateway's answer (nothing is made up), and one that skipped sent nothing.
THEOREM ExecTypeCorrect == ExecSpec => []ExecTypeOK
<1>1. ExecInv => ExecTypeOK BY DEF ExecInv
<1> QED BY <1>1, ExecInvariance, PTL

\* Whenever it is open whether calls were executed, their claim is on disk:
\* after timeouts, kills, lost answers and failed publications alike.
THEOREM DoubtIsClaimed == ExecSpec => []InDoubtIsClaimed
<1>1. ExecInv => InDoubtIsClaimed BY DEF ExecInv
<1> QED BY <1>1, ExecInvariance, PTL

\* No two requests are ever in flight, although clients give up on theirs.
THEOREM NeverTwoAtOnce == ExecSpec => []NoOverlap
<1>1. ExecInv => NoOverlap BY DEF ExecInv, HoldsClaim, NoOverlap
<1> QED BY <1>1, ExecInvariance, PTL

\* Without --overwrite-results a client sends calls only if nothing of them
\* may have been executed, except what an operator has looked into.
THEOREM NeverReplayed == ExecSpec => NoReplay
<1> DEFINE Once ==
      \A c \in Client \ Overwriting :
        request[c] = "none" /\ request'[c] = "sent" =>
          /\ resultFile = Nobody
          /\ \A d \in Client : MayHaveRun(d) => d \in cleared
<1>1. ExecInv /\ [ExecNext]_execVars => [Once]_execVars
  <2> SUFFICES ASSUME ExecInv, ExecNext,
                      NEW c \in Client \ Overwriting,
                      request[c] = "none", request'[c] = "sent"
               PROVE  /\ resultFile = Nobody
                      /\ \A d \in Client : MayHaveRun(d) => d \in cleared
    OBVIOUS
  <2>1. Post(c)
    <3>1. ASSUME NEW d \in Client, Gateway(d) PROVE FALSE
      BY <3>1 DEF Gateway, Deliver, Refuse, Lose, Answer, Break, Advance, ExecInv, ExecTypeOK
    <3>2. ~OperatorRemovesClaim
      BY DEF OperatorRemovesClaim
    <3>3. PICK d \in Client : Step(d) \/ AcquireFails(d) \/ Crash(d)
      BY <3>1, <3>2 DEF ExecNext
    <3>4. Post(d)
      BY <3>3 DEF Step, Check, Acquire, AcquireFails, Recheck, Parse, Receive, GiveUp,
                  Publish, VerifyToken, Unlink, Crash
    <3>5. d = c
      BY <3>4 DEF Post, ExecInv, ExecTypeOK
    <3> QED BY <3>4, <3>5
  <2>2. resultFile = Nobody
    BY <2>1 DEF Post, ExecInv, ResultTells
  <2>3. ASSUME NEW d \in Client, MayHaveRun(d) PROVE d \in cleared
    <3>1. claim = c
      BY <2>1 DEF Post, ExecInv, HoldsClaim, Holding
    <3>2. d # c
      BY <2>3 DEF MayHaveRun
    <3>3. outcome[d] # "written"
      BY <2>2 DEF ExecInv, ResultTells
    <3> QED BY <2>3, <3>1, <3>2, <3>3 DEF ExecInv, InDoubtIsClaimed
  <2> QED BY <2>2, <2>3
<1>2. ExecSpec => [][Once]_execVars
  BY <1>1, ExecInvariance, PTL DEF ExecSpec
<1> QED BY <1>2 DEF NoReplay

------------------------------------------------------------------------------
(* Settings controllers: WatchedSettings *)

\* The settings in force are always those of the two layers, and a controller
\* whose file source was cancelled in peace expects nothing from a file.
SettingsInv ==
  /\ merged = Merge(manual, layer)
  /\ \A e \in events : e.file \in SettingsFiles
  /\ path = "none" /\ ~overtaken => loads = {} /\ opening = {} /\ layer = {}

LEMMA SettingsStep ==
  ASSUME SettingsInv, [SettingsNext]_settingsVars
  PROVE  SettingsInv'
<1>. USE DEF SettingsInv
<1>1. ASSUME NEW s \in Settings, SetManually(s)
      PROVE  SettingsInv'
  BY <1>1 DEF SetManually, Merge
<1>2. ASSUME NEW f \in SettingsFiles, PointAt(f)
      PROVE  SettingsInv'
  <2>1. path' # "none"
    BY <1>2, SettingsAssumption DEF PointAt
  <2>. QED
    BY <1>2, <2>1 DEF PointAt, Merge
\* Every watcher that reports a change reports the changed file.
<1>3. ASSUME NEW f \in SettingsFiles, NEW c \in FileStates, Change(f, c)
      PROVE  SettingsInv'
  <2>1. \A e \in events' : e.file \in SettingsFiles
    BY <1>3 DEF Change
  <2>. QED
    BY <1>3, <2>1 DEF Change, Merge
<1>4. CASE ClearPath \/ Dispose
  BY <1>4 DEF ClearPath, Dispose, SetLayer, Merge
<1>5. ASSUME NEW l \in loads, TakeContent(l) \/ Load(l)
      PROVE  SettingsInv'
  <2>1. path # "none" \/ overtaken
    OBVIOUS
  <2>2. UNCHANGED <<controller, manual, path, events, overtaken>>
        /\ (UNCHANGED <<layer, merged>> \/ merged' = Merge(manual, layer'))
    BY <1>5 DEF TakeContent, Load, SetLayer, Same
  <2>. QED
    BY <2>1, <2>2 DEF Merge
<1>6. ASSUME NEW o \in opening, Watch(o)
      PROVE  SettingsInv'
  BY <1>6 DEF Watch, Merge
<1>7. ASSUME NEW w \in open, Closed(w)
      PROVE  SettingsInv'
  BY <1>7 DEF Closed, Merge
<1>8. ASSUME NEW e \in events, Refresh(e)
      PROVE  SettingsInv'
  <2>1. path = "none" => ~Relevant(e)
    BY SettingsAssumption DEF Relevant
  <2>. QED
    BY <1>8, <2>1 DEF Refresh, Merge
<1>9. ASSUME NEW e \in events, Unlinked(e)
      PROVE  SettingsInv'
  BY <1>9 DEF Unlinked, SetLayer, Same, Merge
<1>10. CASE UNCHANGED settingsVars
  BY <1>10 DEF settingsVars, Merge
<1>. QED
  BY <1>1, <1>2, <1>3, <1>4, <1>5, <1>6, <1>7, <1>8, <1>9, <1>10 DEF SettingsNext

\* Whatever files, values, calls and changes there are: a controller whose file
\* source was cancelled while no read of it was under way works with the manual
\* settings alone from then on.
THEOREM CancelledIsCancelled == SettingsSpec => []ManualAloneAfterClear
<1>1. SettingsInit => SettingsInv
  BY DEF SettingsInit, SettingsInv, Merge
<1>2. SettingsInv => ManualAloneAfterClear
  BY DEF SettingsInv, ManualAloneAfterClear
<1>. QED
  BY <1>1, <1>2, SettingsStep, PTL DEF SettingsSpec

------------------------------------------------------------------------------
(* Reading, writing and editing a file: FileTools *)

ReadState == [at : {"unused", "reading", "streaming", "done"}, content : SUBSET Texts,
              time : Nat, partial : BOOLEAN, streamed : BOOLEAN]
FileState == [exists : BOOLEAN, content : SUBSET Texts, time : Nat, hidden : BOOLEAN]
EntryState == [known : BOOLEAN, content : SUBSET Texts, time : Nat, partial : BOOLEAN]
ToolState == [at : {"idle", "check", "load", "compare", "write", "record"},
              kind : {"none", "write", "edit"}, was : SUBSET Texts, exists : BOOLEAN]

\* A read that is through knows a time.
Dated(s) == s.at \in {"reading", "done"} => s.time > 0

TimesInv ==
  /\ unc \in BOOLEAN
  /\ file \in FileState /\ (file.exists => file.time > 0)
  /\ reads \in [1..MaxReads -> ReadState]
  /\ \A r \in 1..MaxReads : Dated(reads[r])
  /\ entry \in EntryState
  /\ tool \in ToolState

\* There is a version that comparing times can tell from those before it.
Visible == file.exists /\ ~file.hidden

\* What was read is the file as it is, unless the file is younger; so it is while
\* a stream that has not asked for the time yet holds some of it.
AsItIs(s) ==
  Visible =>
    /\ s.at = "done" /\ file.time <= s.time => s.content = file.content
    /\ s.at = "streaming" /\ s.content # {} /\ (s.time = 0 \/ file.time <= s.time) =>
         s.content = file.content

ReadsInv == \A r \in 1..MaxReads : AsItIs(reads[r])

\* So is what is recorded, until a call has written and not yet noted it.
RecordIsCurrent ==
  tool.at # "record" /\ entry.known /\ file.time <= entry.time =>
    entry.content = file.content

\* What the call under way has loaded, or written, is the file.
LoadIsCurrent ==
  /\ tool.at = "compare" => tool.exists /\ tool.was = file.content
  /\ tool.at = "record" => tool.was = file.content

\* What its guards have made sure of: the first of a full read, if the record is
\* not older than the file, and the second of the content.
GuardsHold ==
  /\ tool.at \in {"load", "compare"} /\ entry.known /\ file.time <= entry.time =>
       unc \/ ~entry.partial
  /\ tool.at = "write" =>
       entry.known /\ entry.content = file.content /\ (unc \/ ~entry.partial)

CallInv == Visible => RecordIsCurrent /\ LoadIsCurrent /\ GuardsHold

FilesInv == TimesInv /\ ReadsInv /\ CallInv

\* Another version, of any time: either no comparison can see it, or every read
\* under way is older.
LEMMA NewVersion ==
  ASSUME FilesInv, NEW c \in Contents, NEW t \in 1..MaxTime, NEW h \in BOOLEAN,
         file' = [exists |-> TRUE, content |-> c, time |-> t, hidden |-> h],
         Overtakes(t) => h, UNCHANGED <<unc, reads, entry>>, tool' \in ToolState
  PROVE  TimesInv' /\ ReadsInv'
<1>1. file'.exists /\ file'.content = c /\ file'.time = t /\ file'.hidden = h
  OBVIOUS
<1>2. t \in Nat /\ t > 0
  BY FileAssumption
<1>3. c \in SUBSET Texts
  BY DEF Contents
<1>4. ASSUME NEW r \in 1..MaxReads PROVE AsItIs(reads[r])'
  <2>1. reads'[r] = reads[r] /\ reads[r].time \in Nat /\ r \in DOMAIN reads
    BY DEF FilesInv, TimesInv, ReadState
  <2>2. ~h => ~(t <= reads[r].time) /\ ~Untimed(r)
    BY <2>1 DEF Overtakes
  <2>. QED
    BY <1>1, <2>1, <2>2 DEF AsItIs, Visible, Untimed
<1>5. file' \in FileState
  BY <1>2, <1>3 DEF FileState
<1>6. TimesInv'
  BY <1>1, <1>2, <1>5 DEF FilesInv, TimesInv, Dated
<1>. QED
  BY <1>4, <1>6 DEF ReadsInv

LEMMA FilesStep ==
  ASSUME FilesInv, [FilesNext]_fileVars
  PROVE  FilesInv'
<1>0. TimesInv /\ ReadsInv /\ CallInv
  BY DEF FilesInv
\* Reads alone: whoever changes one of them and nothing else.
<1>1. ASSUME NEW r \in 1..MaxReads, NEW s \in ReadState, Dated(s), AsItIs(s),
             reads' = [reads EXCEPT ![r] = s], UNCHANGED <<unc, file, tool>>
      PROVE  ReadsInv' /\ (UNCHANGED entry => FilesInv')
  <2>1. /\ reads' \in [1..MaxReads -> ReadState]
        /\ \A q \in 1..MaxReads : reads'[q] = IF q = r THEN s ELSE reads[q]
    BY <1>0, <1>1 DEF TimesInv
  <2>2. ASSUME NEW q \in 1..MaxReads PROVE Dated(reads[q])' /\ AsItIs(reads[q])'
    <3>1. (reads'[q] = s \/ reads'[q] = reads[q]) /\ file' = file
      BY <1>1, <2>1
    <3>. QED
      BY <1>0, <1>1, <3>1 DEF TimesInv, ReadsInv, Dated, AsItIs, Visible
  <2>3. ReadsInv'
    BY <2>2 DEF ReadsInv
  <2>4. UNCHANGED entry => TimesInv'
    BY <1>0, <1>1, <2>1, <2>2 DEF TimesInv
  <2>5. UNCHANGED entry => CallInv'
    BY <1>0, <1>1 DEF CallInv, RecordIsCurrent, LoadIsCurrent, GuardsHold, Visible
  <2>. QED
    BY <2>3, <2>4, <2>5 DEF FilesInv
\* The call alone.
<1>2. ASSUME UNCHANGED <<unc, file, reads, entry>>, tool' \in ToolState, CallInv'
      PROVE  FilesInv'
  <2>1. TimesInv'
    BY <1>0, <1>2 DEF TimesInv, Dated
  <2>2. ReadsInv'
    BY <1>0, <1>2 DEF ReadsInv, AsItIs, Visible
  <2>. QED
    BY <1>2, <2>1, <2>2 DEF FilesInv
\* It has not begun, or has ended, or begins.
<1>3. ASSUME UNCHANGED <<unc, file, reads, entry>>, tool.at # "record",
             tool' \in ToolState, tool'.at \in {"idle", "check"}
      PROVE  FilesInv'
  <2>1. CallInv'
    BY <1>0, <1>3 DEF CallInv, RecordIsCurrent, LoadIsCurrent, GuardsHold, Visible
  <2>. QED
    BY <1>2, <1>3, <2>1
<1>4. CASE Foreign
  <2>0. UNCHANGED <<unc, reads, entry, tool>> /\ tool \in ToolState /\ entry \in EntryState
    BY <1>0, <1>4 DEF Foreign, TimesInv
  <2>1. ASSUME NEW c \in Contents, NEW t \in 1..MaxTime,
               file' = [exists |-> TRUE, content |-> c, time |-> t,
                        hidden |-> t <= entry.time \/ Overtakes(t) \/ Loaded]
        PROVE  FilesInv'
    <3>. DEFINE h == t <= entry.time \/ Overtakes(t) \/ Loaded
    <3>1. h \in BOOLEAN /\ (Overtakes(t) => h) /\ (Loaded => h) /\ (t <= entry.time => h)
      OBVIOUS
    <3>2. file' = [exists |-> TRUE, content |-> c, time |-> t, hidden |-> h]
      BY <2>1
    <3>. HIDE DEF h
    <3>3. TimesInv' /\ ReadsInv'
      BY <2>0, <3>1, <3>2, NewVersion
    <3>4. Visible' => ~Loaded /\ ~(file'.time <= entry.time)
      BY <3>1, <3>2 DEF Visible
    <3>5. CallInv'
      BY <2>0, <3>4 DEF CallInv, RecordIsCurrent, LoadIsCurrent, GuardsHold, Loaded
    <3>. QED
      BY <3>3, <3>5 DEF FilesInv
  <2>2. CASE file' = NoFile
    <3>1. ~file'.exists /\ file' \in FileState
      BY <2>2 DEF NoFile, FileState
    <3>2. TimesInv'
      BY <1>0, <2>0, <3>1 DEF TimesInv, Dated
    <3>. QED
      BY <3>1, <3>2 DEF FilesInv, ReadsInv, AsItIs, CallInv, Visible
  <2>. QED
    BY <1>4, <2>1, <2>2 DEF Foreign
<1>5. ASSUME NEW r \in 1..MaxReads,
             \/ StatForRead(r) \/ ReadSmall(r) \/ ReadChunk(r) \/ TimeOfStream(r)
             \/ StreamEnd(r) \/ ReadFails(r)
      PROVE  FilesInv'
  <2>0. /\ reads[r] \in ReadState /\ Dated(reads[r]) /\ AsItIs(reads[r])
        /\ file \in FileState /\ (file.exists => file.time > 0)
        /\ UNCHANGED <<unc, file, entry, tool>>
    BY <1>0, <1>5 DEF TimesInv, ReadsInv, StatForRead, ReadSmall, ReadChunk, TimeOfStream,
       StreamEnd, ReadFails
  <2>1. CASE StatForRead(r)
    <3>. DEFINE S(partial, streamed) ==
                  [at |-> IF streamed THEN "streaming" ELSE "reading",
                   content |-> {}, time |-> IF streamed THEN 0 ELSE file.time,
                   partial |-> partial, streamed |-> streamed]
    <3>1. file.exists /\ \E partial, streamed \in BOOLEAN :
            reads' = [reads EXCEPT ![r] = S(partial, streamed)]
      BY <2>1 DEF StatForRead
    <3>2. ASSUME NEW p \in BOOLEAN, NEW q \in BOOLEAN
          PROVE  S(p, q) \in ReadState /\ Dated(S(p, q)) /\ AsItIs(S(p, q))
      <4>1. S(p, q) \in ReadState
        BY <2>0 DEF ReadState, FileState
      <4>2. Dated(S(p, q))
        BY <2>0, <3>1 DEF Dated, FileState
      <4>3. AsItIs(S(p, q))
        BY DEF AsItIs
      <4>. QED
        BY <4>1, <4>2, <4>3
    <3>. HIDE DEF S
    <3>. QED
      BY <1>1, <2>0, <3>1, <3>2
  <2>2. CASE ReadSmall(r)
    <3>. DEFINE s == [reads[r] EXCEPT !.at = "done", !.content = file.content]
    <3>1. reads[r].at = "reading" /\ reads' = [reads EXCEPT ![r] = s]
      BY <2>2 DEF ReadSmall
    <3>2. s \in ReadState /\ Dated(s) /\ AsItIs(s)
      BY <2>0, <3>1 DEF ReadState, FileState, Dated, AsItIs
    <3>. HIDE DEF s
    <3>. QED
      BY <1>1, <2>0, <3>1, <3>2
  <2>3. CASE ReadChunk(r)
    <3>. DEFINE s == [reads[r] EXCEPT !.content = @ \cup file.content]
    <3>1. reads[r].at = "streaming" /\ reads' = [reads EXCEPT ![r] = s]
      BY <2>3 DEF ReadChunk
    <3>2. s \in ReadState /\ Dated(s)
      BY <2>0, <3>1 DEF ReadState, FileState, Dated
    <3>3. s.content = reads[r].content \cup file.content /\ s.time = reads[r].time
          /\ s.at = "streaming"
      BY <2>0, <3>1 DEF ReadState
    <3>. HIDE DEF s
    <3>4. AsItIs(s)
      BY <2>0, <3>1, <3>3 DEF AsItIs
    <3>. QED
      BY <1>1, <2>0, <3>1, <3>2, <3>4
  <2>4. CASE TimeOfStream(r)
    <3>. DEFINE s == [reads[r] EXCEPT !.time = file.time]
    <3>1. reads[r].at = "streaming" /\ reads[r].time = 0 /\ reads' = [reads EXCEPT ![r] = s]
      BY <2>4 DEF TimeOfStream
    <3>2. s \in ReadState /\ Dated(s) /\ AsItIs(s)
      BY <2>0, <3>1 DEF ReadState, FileState, Dated, AsItIs
    <3>. HIDE DEF s
    <3>. QED
      BY <1>1, <2>0, <3>1, <3>2
  <2>5. CASE StreamEnd(r)
    <3>. DEFINE s == [reads[r] EXCEPT !.at = "done"]
    <3>1. /\ reads[r].at = "streaming" /\ reads[r].time # 0 /\ reads[r].content # {}
          /\ reads' = [reads EXCEPT ![r] = s]
      BY <2>5 DEF StreamEnd
    <3>2. s \in ReadState /\ Dated(s) /\ AsItIs(s)
      BY <2>0, <3>1 DEF ReadState, FileState, Dated, AsItIs
    <3>. HIDE DEF s
    <3>. QED
      BY <1>1, <2>0, <3>1, <3>2
  <2>6. CASE ReadFails(r)
    <3>1. NoRead \in ReadState /\ Dated(NoRead) /\ AsItIs(NoRead)
      BY <2>0 DEF NoRead, ReadState, FileState, Dated, AsItIs
    <3>. QED
      BY <1>1, <2>0, <2>6, <3>1 DEF ReadFails
  <2>. QED
    BY <1>5, <2>1, <2>2, <2>3, <2>4, <2>5, <2>6
<1>6. ASSUME NEW r \in 1..MaxReads, RecordRead(r)
      PROVE  FilesInv'
  <2>1. /\ tool.at = "idle" /\ reads[r].at = "done"
        /\ entry' = [known |-> TRUE, content |-> reads[r].content,
                     time |-> reads[r].time, partial |-> reads[r].partial]
        /\ reads' = [reads EXCEPT ![r] = NoRead]
        /\ UNCHANGED <<unc, file, tool>>
    BY <1>6 DEF RecordRead, Idle
  <2>2. reads[r] \in ReadState /\ Dated(reads[r]) /\ AsItIs(reads[r]) /\ file \in FileState
    BY <1>0 DEF TimesInv, ReadsInv
  <2>3. NoRead \in ReadState /\ Dated(NoRead) /\ AsItIs(NoRead)
    BY <2>2 DEF NoRead, ReadState, FileState, Dated, AsItIs
  <2>4. ReadsInv'
    BY <1>1, <2>1, <2>3
  <2>5. CallInv'
    BY <2>1, <2>2
    DEF AsItIs, CallInv, RecordIsCurrent, LoadIsCurrent, GuardsHold, Visible
  <2>6. entry' \in EntryState
    BY <2>1, <2>2 DEF ReadState, EntryState
  <2>7. \A q \in 1..MaxReads : reads'[q] \in {NoRead, reads[q]}
    BY <1>0, <2>1 DEF TimesInv
  <2>8. \A q \in 1..MaxReads : Dated(reads[q])'
    BY <1>0, <2>1, <2>3, <2>7 DEF TimesInv, Dated
  <2>9. TimesInv'
    BY <1>0, <2>1, <2>3, <2>6, <2>8 DEF TimesInv
  <2>. QED
    BY <2>4, <2>5, <2>9 DEF FilesInv
<1>7. ASSUME NEW kind \in {"write", "edit"}, Begin(kind)
      PROVE  FilesInv'
  <2>1. tool' \in ToolState /\ tool'.at = "check" /\ tool.at = "idle"
    BY <1>7 DEF Begin, Idle, NoTool, ToolState
  <2>. QED
    BY <1>3, <1>7, <2>1 DEF Begin
<1>8. CASE CheckRead
  <2>1. /\ UNCHANGED <<unc, file, reads, entry>> /\ tool \in ToolState /\ tool.at = "check"
        /\ file.time \in Nat /\ entry.time \in Nat
    BY <1>0, <1>8 DEF CheckRead, TimesInv, FileState, EntryState
  <2>2. CASE Return
    BY <1>3, <2>1, <2>2 DEF Return, NoTool, ToolState
  <2>3. CASE /\ tool' = [tool EXCEPT !.at = "load"]
             /\ ~(~unc /\ file.exists /\ (~FullRead \/ file.time > entry.time))
    <3>1. tool' \in ToolState /\ tool'.at = "load"
      BY <2>1, <2>3 DEF ToolState
    <3>2. Visible => unc \/ ~entry.partial
      BY <2>3 DEF Visible, FullRead
    <3>3. CallInv'
      BY <1>0, <2>1, <3>1, <3>2
      DEF CallInv, RecordIsCurrent, LoadIsCurrent, GuardsHold, Visible
    <3>. QED
      BY <1>2, <2>1, <3>1, <3>3
  <2>. QED
    BY <1>8, <2>2, <2>3 DEF CheckRead
<1>9. CASE LoadCurrent
  <2>1. UNCHANGED <<unc, file, reads, entry>> /\ tool \in ToolState /\ tool.at = "load"
        /\ file \in FileState
    BY <1>0, <1>9 DEF LoadCurrent, TimesInv
  <2>2. CASE tool' = NoTool
    BY <1>3, <2>1, <2>2 DEF NoTool, ToolState
  <2>3. CASE tool' = [NoTool EXCEPT !.at = "check", !.kind = "write"]
    <3>1. tool' \in ToolState /\ tool'.at = "check"
      BY <2>3 DEF NoTool, ToolState
    <3>. QED
      BY <1>3, <2>1, <3>1
  <2>4. CASE tool' = [tool EXCEPT !.at = "compare", !.was = file.content,
                                  !.exists = file.exists]
    <3>1. /\ tool' \in ToolState /\ tool'.at = "compare"
          /\ tool'.was = file.content /\ tool'.exists = file.exists
      BY <2>1, <2>4 DEF ToolState, FileState
    <3>2. CallInv'
      BY <1>0, <2>1, <3>1 DEF CallInv, RecordIsCurrent, LoadIsCurrent, GuardsHold, Visible
    <3>. QED
      BY <1>2, <2>1, <3>1, <3>2
  <2>. QED
    BY <1>9, <2>2, <2>3, <2>4 DEF LoadCurrent, Return
<1>10. CASE CompareContent
  <2>1. UNCHANGED <<unc, file, reads, entry>> /\ tool \in ToolState /\ tool.at = "compare"
    BY <1>0, <1>10 DEF CompareContent, TimesInv
  <2>2. CASE tool' = NoTool
    BY <1>3, <2>1, <2>2 DEF NoTool, ToolState
  <2>3. CASE tool' = [tool EXCEPT !.at = "write"] /\ (tool.exists => UpToDate)
    <3>1. tool' \in ToolState /\ tool'.at = "write"
      BY <2>1, <2>3 DEF ToolState
    <3>2. Visible =>
            entry.known /\ entry.content = file.content /\ (unc \/ ~entry.partial)
      BY <1>0, <2>1, <2>3
      DEF CallInv, RecordIsCurrent, LoadIsCurrent, GuardsHold, UpToDate, FullRead
    <3>3. CallInv'
      BY <1>0, <2>1, <3>1, <3>2
      DEF CallInv, RecordIsCurrent, LoadIsCurrent, GuardsHold, Visible
    <3>. QED
      BY <1>2, <2>1, <3>1, <3>3
  <2>. QED
    BY <1>10, <2>2, <2>3 DEF CompareContent, Return
<1>11. CASE PutContent
  <2>1. PICK c \in Contents, t \in 1..MaxTime :
          /\ file' = [exists |-> TRUE, content |-> c, time |-> t, hidden |-> Overtakes(t)]
          /\ tool' = [tool EXCEPT !.at = "record", !.was = c]
    BY <1>11 DEF PutContent
  <2>2. UNCHANGED <<unc, reads, entry>>
    BY <1>11 DEF PutContent
  <2>3. Overtakes(t) \in BOOLEAN
    BY DEF Overtakes
  <2>4. /\ tool' \in ToolState
        /\ tool'.at = "record" /\ tool'.was = file'.content
    BY <1>0, <2>1 DEF TimesInv, Contents, ToolState
  <2>5. TimesInv' /\ ReadsInv'
    BY <2>1, <2>2, <2>3, <2>4, NewVersion
  <2>6. CallInv'
    BY <2>4 DEF CallInv, RecordIsCurrent, LoadIsCurrent, GuardsHold
  <2>. QED
    BY <2>5, <2>6 DEF FilesInv
<1>12. CASE RecordWrite
  <2>1. /\ tool.at = "record" /\ tool' = NoTool /\ UNCHANGED <<unc, file, reads>>
        /\ entry' = IF file.exists
                    THEN [known |-> TRUE, content |-> tool.was,
                          time |-> file.time, partial |-> FALSE]
                    ELSE entry
    BY <1>12 DEF RecordWrite, Return
  <2>2. entry' \in EntryState /\ tool' \in ToolState /\ tool'.at = "idle"
    BY <1>0, <2>1 DEF TimesInv, FileState, EntryState, ToolState, NoTool
  <2>3. TimesInv'
    BY <1>0, <2>1, <2>2 DEF TimesInv, Dated
  <2>4. ReadsInv'
    BY <1>0, <2>1 DEF ReadsInv, AsItIs, Visible
  <2>5. CallInv'
    BY <1>0, <2>1, <2>2 DEF CallInv, RecordIsCurrent, LoadIsCurrent, GuardsHold, Visible
  <2>. QED
    BY <2>3, <2>4, <2>5 DEF FilesInv
<1>13. CASE UNCHANGED fileVars
  BY <1>0, <1>13
  DEF fileVars, FilesInv, TimesInv, Dated, ReadsInv, AsItIs, CallInv, RecordIsCurrent,
      LoadIsCurrent, GuardsHold, Visible
<1>. QED
  BY <1>4, <1>5, <1>6, <1>7, <1>8, <1>9, <1>10, <1>11, <1>12, <1>13 DEF FilesNext

\* However many reads are under way, whoever else changes the file and whatever
\* times its versions carry: a write or an edit replaces only what the tools have
\* read (in full, unless the path is a UNC path) or written themselves, or a version
\* that no comparison of times shows to be another one.
THEOREM OnlyWhatWasRead == FilesSpec => []NoBlindOverwrite
<1>1. FilesInit => FilesInv
  <2>. SUFFICES ASSUME FilesInit PROVE FilesInv
    OBVIOUS
  <2>1. file \in FileState /\ (file.exists => file.time > 0)
    <3>1. CASE file = NoFile
      BY <3>1 DEF NoFile, FileState
    <3>2. CASE file \in [exists : {TRUE}, content : Contents, time : {1}, hidden : {FALSE}]
      <4>1. Contents \subseteq SUBSET Texts
        BY DEF Contents
      <4>2. PICK c \in Contents :
              file = [exists |-> TRUE, content |-> c, time |-> 1, hidden |-> FALSE]
        BY <3>2
      <4>3. file \in FileState /\ file.time = 1
        BY <4>1, <4>2 DEF FileState
      <4>. QED
        BY <4>3
    <3>. QED
      BY <3>1, <3>2 DEF FilesInit
  <2>2. /\ NoRead \in ReadState /\ Dated(NoRead) /\ AsItIs(NoRead)
        /\ entry \in EntryState /\ ~entry.known /\ entry.time = 0
        /\ tool \in ToolState /\ tool.at = "idle"
    BY <2>1 DEF FilesInit, NoRead, ReadState, FileState, EntryState, ToolState, NoEntry, NoTool,
                Dated, AsItIs
  <2>3. \A r \in 1..MaxReads : reads[r] = NoRead
    BY DEF FilesInit
  <2>4. TimesInv
    BY <2>1, <2>2, <2>3 DEF FilesInit, TimesInv, FileState
  <2>. QED
    BY <2>2, <2>3, <2>4
    DEF FilesInv, ReadsInv, CallInv, RecordIsCurrent, LoadIsCurrent, GuardsHold
<1>2. FilesInv => NoBlindOverwrite
  BY DEF FilesInv, CallInv, GuardsHold, Visible, NoBlindOverwrite
<1>. QED
  BY <1>1, <1>2, FilesStep, PTL DEF FilesSpec

------------------------------------------------------------------------------
(* One shell command: ShellRun *)

Count(n) == IF n <= KeptOutput THEN n ELSE KeptOutput

\* A child that is gone has ended somehow; pipes are cut by interruptions only;
\* and once a result says that nothing interrupted the command, all of it is in.
ShellInv ==
  /\ phase \in {"idle", "resolving", "running", "settled"}
  /\ child \in [alive : BOOLEAN, obeys : BOOLEAN, ended : {"no", "unstarted", "code", "signal"}]
  /\ heirs \in BOOLEAN /\ interrupted \in BOOLEAN /\ pipes \in {"open", "cut"}
  /\ written \in Nat /\ collected \in Nat
  /\ pipes = "cut" => interrupted
  /\ child.alive => child.ended = "no"
  /\ phase \in {"idle", "resolving"} => ~child.alive /\ child.ended = "no"
  /\ phase = "running" => child.alive \/ child.ended # "no"
  /\ phase # "settled" => result = NoResult
  /\ result.kind = "done" =>
       /\ phase = "settled" /\ ~child.alive
       /\ ~result.interrupted =>
            /\ child.ended = "code" /\ ~heirs /\ collected = written
            /\ result.kept = Count(collected)
            /\ (result.truncated <=> collected > KeptOutput)

LEMMA ShellStep ==
  ASSUME ShellInv, [ShellNext]_shellVars
  PROVE  ShellInv'
<1>. USE ShellAssumption DEF ShellInv, NoResult, Settle, Rejected, Cleanup
<1>1. CASE CallShell
  BY <1>1 DEF CallShell
<1>2. CASE Spawn
  BY <1>2 DEF Spawn
<1>3. CASE SpawnError
  BY <1>3 DEF SpawnError
<1>4. CASE TimeUp
  BY <1>4 DEF TimeUp, Interrupt
<1>5. CASE Abort
  BY <1>5 DEF Abort, Interrupt
<1>6. CASE WriteOutput
  BY <1>6 DEF WriteOutput
<1>7. CASE Collect
  BY <1>7 DEF Collect
<1>8. CASE ChildExits
  BY <1>8 DEF ChildExits
<1>9. CASE HeirsExit
  BY <1>9 DEF HeirsExit
<1>10. CASE Close
  BY <1>10 DEF Close, StreamsClosed, Count
<1>11. CASE UNCHANGED shellVars
  BY <1>11 DEF shellVars
<1>. QED
  BY <1>1, <1>2, <1>3, <1>4, <1>5, <1>6, <1>7, <1>8, <1>9, <1>10, <1>11 DEF ShellNext

\* However much a command writes, whatever it leaves behind, and whenever time is
\* up or the caller aborts: a result that claims not to be interrupted carries
\* everything, or says that it was truncated.
THEOREM WholeUnlessInterrupted == ShellSpec => []UninterruptedIsWhole
<1>1. ShellInit => ShellInv
  <2>. SUFFICES ASSUME ShellInit PROVE ShellInv
    OBVIOUS
  <2>1. /\ child \in [alive : BOOLEAN, obeys : BOOLEAN,
                     ended : {"no", "unstarted", "code", "signal"}]
        /\ ~child.alive /\ child.ended = "no"
    BY DEF ShellInit
  <2>2. result = NoResult /\ result.kind = "none"
    BY DEF ShellInit, NoResult
  <2>. QED
    BY <2>1, <2>2 DEF ShellInit, ShellInv
<1>2. ShellInv => UninterruptedIsWhole
  BY ShellAssumption DEF ShellInv, UninterruptedIsWhole, Count
<1>. QED
  BY <1>1, <1>2, ShellStep, PTL DEF ShellSpec
==============================================================================
