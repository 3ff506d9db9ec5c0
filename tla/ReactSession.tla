------------------------------ MODULE ReactSession ------------------------------
(***************************************************************************)
(* One session of promptpile-react with --output-format stream-json: the    *)
(* Thought -> Observe -> Check machine, the Final phase that streams from a *)
(* child process, the observations it retains between iterations, and the   *)
(* event stream on stdout, which a reader may close at any time.            *)
(*                                                                         *)
(* Every phase runs promptpile as a child process.  Only the Final child    *)
(* and React work at the same time, connected by a pipe (fd 3).             *)
(***************************************************************************)
EXTENDS Naturals, Sequences, FiniteSetsExt

CONSTANTS
  MaxStep,      \* max_step
  Carryover,    \* the values of observe_carryover to look at
  MaxMessages,  \* how many messages a Thought adds at most
  MaxDeltas,    \* how many deltas the Final child writes at most
  PipeSize,     \* how many frames fit into the pipe
  None

ASSUME ConstantsAssumption ==
  /\ MaxStep \in Nat \ {0}
  /\ Carryover \subseteq Nat
  /\ MaxMessages \in Nat /\ MaxDeltas \in Nat /\ PipeSize \in Nat \ {0}

Config == [carryover : Carryover, final : BOOLEAN, strict : BOOLEAN, debug : BOOLEAN]

VARIABLES
  config,      \* carryover; Final prompt not empty; max_step_policy=error; debug
  at,          \* where the session is
  phase,       \* the phase it is in or was in last
  step,        \* currentStep: the completed iterations
  goOn,        \* what the last Check decided
  stopReason,  \* "running", "final", "max_step" or "error"
  failure,     \* the recorded failure: its phase and code
  events,      \* what was written to stdout
  channel,     \* whether stdout can be written
  root,        \* the message indexes in the root of the work directory, from 1
  persisted,   \* the index of the observation that was just made
  registered,  \* .observe_files/index.json
  archived,    \* the observations moved to .observe_files
  disturbed,   \* the work directory was changed or failed from outside
  child,       \* the Final child: "none", "running", "killed", "ok" or "failed"
  pipe,        \* the frames on fd 3 that React has not read
  sent,        \* how many deltas the child has written
  decoder,     \* "reading", "done" (assistant_done seen), "ended" or "invalid"
  content,     \* how many deltas React has passed on
  exit,        \* the exit code, or None
  workdir      \* whether the work directory exists

machine == <<at, phase, step, goOn, stopReason, failure>>
work == <<root, persisted, registered, archived, disturbed>>
final == <<child, pipe, sent, decoder, content>>
vars == <<config, machine, events, channel, work, final, exit, workdir>>

Phase == {"thought", "observe", "check", "final"}
Event(type, p, n, info) == [type |-> type, phase |-> p, n |-> n, info |-> info]

Init ==
  /\ config \in Config
  /\ at = "open" /\ phase = "thought" /\ step = 0 /\ goOn = TRUE
  /\ stopReason = "running" /\ failure = None
  /\ events = <<>> /\ channel = "open"
  /\ root = {} /\ persisted = 0 /\ registered = {} /\ archived = {} /\ disturbed = FALSE
  /\ child = "none" /\ pipe = <<>> /\ sent = 0 /\ decoder = "reading" /\ content = 0
  /\ exit = None /\ workdir = TRUE

\* ReactEventWriterV1.write, and its failure, after which nothing is written.
Written(event) == channel = "open" /\ events' = Append(events, event)
Unwritten == channel = "broken" /\ UNCHANGED events

RecordFailure(code) ==
  /\ failure' = [phase |-> phase, code |-> code]
  /\ stopReason' = "error"
  /\ at' = "next"
  /\ UNCHANGED <<phase, step, goOn>>

Goto(stage) ==
  /\ at' = stage
  /\ UNCHANGED <<phase, step, goOn, stopReason, failure>>

Enter(p) ==
  /\ at' = "start" /\ phase' = p
  /\ UNCHANGED <<step, goOn, stopReason, failure>>

ChildFailure == {"promptpile_spawn_failed", "promptpile_exit_nonzero"}

\* internal_error: a temporary file cannot be written.
PhaseFailure == ChildFailure \cup {"internal_error"}

------------------------------------------------------------------------------
(* The machine *)

\* session.started; an error here goes past the session's own reporting.
Open ==
  /\ at = "open"
  /\ \/ Written(Event("session.started", "none", MaxStep, "")) /\ Goto("next") /\ UNCHANGED exit
     \/ Unwritten /\ Goto("cleanup") /\ exit' = 1
  /\ UNCHANGED <<config, channel, work, final, workdir>>

\* runOneReactSession between two phases.
Proceed ==
  /\ at = "next"
  /\ \/ stopReason = "running" /\ Enter("thought")
     \/ /\ stopReason = "final" \/ (stopReason = "max_step" /\ ~config.strict)
        /\ IF config.final THEN Enter("final") ELSE Goto("report")
     \/ /\ stopReason = "error" \/ (stopReason = "max_step" /\ config.strict)
        /\ Goto("report")
  /\ UNCHANGED <<config, events, channel, work, final, exit, workdir>>

StartPhase ==
  /\ at = "start"
  /\ \/ Written(Event("phase.started", phase, step, "")) /\ Goto("run")
     \/ Unwritten /\ RecordFailure("internal_error")
  /\ UNCHANGED <<config, channel, work, final, exit, workdir>>

\* promptpile allocates the index after the largest one in the root.
Newest == Max(root \cup {0})
AddMessages(n) == root' = root \cup (Newest + 1)..(Newest + n)

\* The child adds the messages of the iteration, its tools included.
RunThought ==
  /\ at = "run" /\ phase = "thought"
  /\ \E n \in 0..MaxMessages : AddMessages(n)
  /\ \/ Goto("complete")
     \/ \E code \in PhaseFailure : RecordFailure(code)
  /\ UNCHANGED <<config, events, channel, persisted, registered, archived, disturbed,
                 final, exit, workdir>>

\* With carryover the child appends its report to the work directory.  What a
\* phase that fails has left behind is not looked at again.
RunObserve ==
  /\ at = "run" /\ phase = "observe"
  /\ \/ /\ config.carryover = 0
        /\ Goto("complete")
        /\ UNCHANGED <<root, persisted, disturbed>>
     \/ /\ config.carryover > 0
        /\ AddMessages(1)
        /\ persisted' = Newest + 1
        /\ Goto("register")
        /\ UNCHANGED disturbed
     \/ /\ \E code \in PhaseFailure \cup {"phase_output_missing"} :
             /\ RecordFailure(code)
             /\ disturbed' = (disturbed \/ code = "internal_error")
        /\ UNCHANGED <<root, persisted>>
  /\ UNCHANGED <<config, events, channel, registered, archived, final, exit, workdir>>

\* Mutant of Kept: the active ones are counted without the newest.
KeptOneMore(active) ==
  {i \in active : Cardinality({j \in active : j > i}) <= config.carryover}

\* The most recent of the active observations.
Kept(active) ==
  {i \in active : Cardinality({j \in active : j > i}) < config.carryover}

\* verifyObserveRetentionInvariants, for what Register is about to leave.
Retained(newRoot, newRegistered, newArchived) ==
  /\ Cardinality(newRegistered \cap newRoot) <= config.carryover
  /\ persisted \in newRoot
  /\ \A i \in newRegistered : i \in newRoot <=> i \notin newArchived

\* The report must be the newest message; it is registered, and older ones
\* are moved out of the root.  All of it is synchronous.
Register ==
  LET indexes == registered \cup {persisted}
      pruned == (indexes \cap root) \ Kept(indexes \cap root) IN
  /\ at = "register"
  /\ \/ /\ persisted = Newest /\ \A i \in registered : i < persisted
        /\ registered' = indexes
        /\ root' = root \ pruned /\ archived' = archived \cup pruned
        /\ IF Retained(root', indexes, archived') THEN Goto("complete")
           ELSE RecordFailure("internal_error")
     \/ /\ ~(persisted = Newest /\ \A i \in registered : i < persisted)
        /\ RecordFailure("internal_error")
        /\ UNCHANGED <<root, registered, archived>>
  /\ UNCHANGED <<config, events, channel, persisted, disturbed, final, exit, workdir>>

\* index.json or an artifact cannot be written or moved.
RegisterFails ==
  /\ at = "register"
  /\ RecordFailure("internal_error")
  /\ disturbed' = TRUE
  /\ UNCHANGED <<config, events, channel, root, persisted, registered, archived, final,
                 exit, workdir>>

\* The Check child sees nothing but the report and decides by a tool call.
RunCheck ==
  /\ at = "run" /\ phase = "check"
  /\ \/ /\ goOn' \in BOOLEAN
        /\ at' = "complete" /\ UNCHANGED <<phase, step, stopReason, failure>>
     \/ \E code \in PhaseFailure \cup {"check_decision_invalid"} : RecordFailure(code)
  /\ UNCHANGED <<config, events, channel, work, final, exit, workdir>>

\* Mutant of AfterCheck: the budget is compared before the step is counted.
AfterCheckLate ==
  /\ step' = step + 1 /\ at' = "next"
  /\ stopReason' = IF ~goOn THEN "final" ELSE IF step >= MaxStep THEN "max_step" ELSE "running"
  /\ UNCHANGED <<phase, goOn, failure>>

AfterCheck ==
  /\ step' = step + 1 /\ at' = "next"
  /\ stopReason' = IF ~goOn THEN "final"
                   ELSE IF step + 1 >= MaxStep THEN "max_step" ELSE "running"
  /\ UNCHANGED <<phase, goOn, failure>>

CompletePhase ==
  /\ at = "complete"
  /\ \/ /\ Written(Event("phase.completed", phase, step,
                         IF phase # "check" THEN "" ELSE IF goOn THEN "continue" ELSE "stop"))
        /\ \/ phase = "thought" /\ Enter("observe")
           \/ phase = "observe" /\ Enter("check")
           \/ phase = "check" /\ AfterCheck
           \/ phase = "final" /\ Goto("report")
     \/ Unwritten /\ RecordFailure("internal_error")
  /\ UNCHANGED <<config, channel, work, final, exit, workdir>>
------------------------------------------------------------------------------
(* The Final phase *)

\* The handoff is written and the child started.
StartFinal ==
  /\ at = "run" /\ phase = "final"
  /\ \/ Goto("stream") /\ child' = "running"
     \/ /\ \E code \in {"internal_error", "promptpile_spawn_failed"} : RecordFailure(code)
        /\ UNCHANGED child
  /\ UNCHANGED <<config, events, channel, work, pipe, sent, decoder, content, exit, workdir>>

Listening == decoder \in {"reading", "done"}
Closed == pipe # <<>> /\ pipe[Len(pipe)] = "eof"

\* A child writes deltas and a done frame, and closes the pipe; or it does
\* anything else with it.
ChildWrites ==
  /\ child = "running" /\ Listening
  /\ ~Closed /\ Len(pipe) < PipeSize
  /\ \E frame \in {"delta", "done", "bad", "eof"} :
       /\ frame = "delta" => sent < MaxDeltas
       /\ sent' = IF frame = "delta" THEN sent + 1 ELSE sent
       /\ pipe' = Append(pipe, frame)
  /\ UNCHANGED <<config, machine, events, channel, work, child, decoder, content, exit, workdir>>

ChildExits ==
  /\ child \in {"running", "killed"}
  /\ child' \in {"ok", "failed"}
  /\ pipe' = IF Listening /\ ~Closed THEN Append(pipe, "eof") ELSE pipe
  /\ UNCHANGED <<config, machine, events, channel, work, sent, decoder, content, exit, workdir>>

\* Mutant of Reject: the child is left to itself.
RejectOnly == decoder' = "invalid" /\ pipe' = <<>> /\ UNCHANGED child

\* The stream is invalid: stop reading, kill the child.
Reject ==
  /\ decoder' = "invalid" /\ pipe' = <<>>
  /\ child' = IF child = "running" THEN "killed" ELSE child

\* One frame; a delta is passed on before the next frame is read.
Consume ==
  /\ at = "stream" /\ Listening /\ pipe # <<>>
  /\ LET frame == Head(pipe) IN
     \/ /\ frame = "delta" /\ decoder = "reading"
        /\ Written(Event("final.delta", "final", content + 1, ""))
        /\ content' = content + 1 /\ pipe' = Tail(pipe)
        /\ UNCHANGED <<decoder, child>>
     \/ /\ frame = "done" /\ decoder = "reading"
        /\ decoder' = "done" /\ pipe' = Tail(pipe)
        /\ UNCHANGED <<events, content, child>>
     \/ /\ frame = "eof" /\ decoder = "done"
        /\ decoder' = "ended" /\ pipe' = <<>>
        /\ UNCHANGED <<events, content, child>>
     \/ /\ \/ frame = "bad"
           \/ frame = "delta" /\ (decoder = "done" \/ channel = "broken")
           \/ frame = "done" /\ decoder = "done"
           \/ frame = "eof" /\ decoder = "reading"
        /\ Reject
        /\ UNCHANGED <<events, content>>
  /\ UNCHANGED <<config, machine, channel, work, sent, exit, workdir>>

\* Mutant of Settle: a child that exits with 0 is believed.
SettleByStatus ==
  /\ at = "stream" /\ child \in {"ok", "failed"} /\ ~Listening
  /\ IF child = "failed" THEN RecordFailure("promptpile_exit_nonzero") ELSE Goto("complete")
  /\ UNCHANGED <<config, events, channel, work, final, exit, workdir>>

\* The child is gone and the stream was read: both must be in order, and with
\* --continue the receipt too.
Settle ==
  /\ at = "stream" /\ child \in {"ok", "failed"} /\ ~Listening
  /\ \/ decoder = "invalid" /\ RecordFailure("final_stream_invalid")
     \/ decoder = "ended" /\ child = "failed" /\ RecordFailure("promptpile_exit_nonzero")
     \/ decoder = "ended" /\ child = "ok" /\ RecordFailure("internal_error")
     \/ decoder = "ended" /\ child = "ok" /\ Goto("complete")
  /\ UNCHANGED <<config, events, channel, work, final, exit, workdir>>
------------------------------------------------------------------------------
(* The end *)

Exhausted == stopReason = "max_step" /\ config.strict

Verdict ==
  IF Exhausted THEN Event("session.failed", "check", step, "max_step_exhausted")
  ELSE IF stopReason = "error" THEN Event("session.failed", failure.phase, step, failure.code)
  ELSE Event("session.completed", "none", step, stopReason)

\* Mutant of Report: the exit code is settled before the event is written.
ReportFirst ==
  /\ at = "report"
  /\ Written(Verdict) \/ Unwritten
  /\ exit' = IF Verdict.type = "session.completed" THEN 0 ELSE 1
  /\ Goto("cleanup")
  /\ UNCHANGED <<config, channel, work, final, workdir>>

\* The terminal event; without it there is no success.
Report ==
  /\ at = "report"
  /\ \/ /\ Written(Verdict)
        /\ exit' = IF Verdict.type = "session.completed" THEN 0 ELSE 1
     \/ Unwritten /\ exit' = 1
  /\ Goto("cleanup")
  /\ UNCHANGED <<config, channel, work, final, workdir>>

\* The work directory goes, unless a failed session is to be looked into.
Cleanup ==
  /\ at = "cleanup"
  /\ \/ (exit = 0 \/ ~config.debug) /\ workdir' = FALSE
     \/ UNCHANGED workdir
  /\ Goto("end")
  /\ UNCHANGED <<config, events, channel, work, final, exit>>

------------------------------------------------------------------------------
(* The environment *)

\* Whoever reads stdout goes away.
ChannelBreaks ==
  /\ channel = "open" /\ at # "end"
  /\ channel' = "broken"
  /\ UNCHANGED <<config, machine, events, work, final, exit, workdir>>

\* A process that a tool of an earlier Thought left behind adds a message.
Straggle ==
  /\ ~disturbed /\ root # {} /\ exit = None
  /\ AddMessages(1)
  /\ disturbed' = TRUE
  /\ UNCHANGED <<config, machine, events, channel, persisted, registered, archived, final,
                 exit, workdir>>

Step ==
  \/ Open \/ Proceed \/ StartPhase \/ RunThought \/ RunObserve \/ Register \/ RunCheck
  \/ CompletePhase \/ StartFinal \/ Consume \/ Settle \/ Report \/ Cleanup

Next == Step \/ RegisterFails \/ ChildWrites \/ ChildExits \/ ChannelBreaks \/ Straggle

Spec == Init /\ [][Next]_vars

\* React runs on and the children of the first three phases end.  The Final
\* child ends when it is killed, or while its pipe is in order; once the pipe
\* was given up nothing else is assumed of it.
FairSpec ==
  /\ Spec
  /\ WF_vars(Step)
  /\ WF_vars(child = "killed" /\ ChildExits)
  /\ WF_vars(decoder # "invalid" /\ ChildExits)
------------------------------------------------------------------------------
(* Properties *)

Code == PhaseFailure \cup {"phase_output_missing", "check_decision_invalid",
                           "final_stream_invalid"}

\* Types; no iteration beyond max_step is ever counted.
TypeOK ==
  /\ config \in Config
  /\ at \in {"open", "next", "start", "run", "register", "complete", "stream", "report",
             "cleanup", "end"}
  /\ phase \in Phase /\ step \in 0..MaxStep /\ goOn \in BOOLEAN
  /\ stopReason \in {"running", "final", "max_step", "error"}
  /\ failure \in [phase : Phase, code : Code] \cup {None}
  /\ channel \in {"open", "broken"}
  /\ root \subseteq Nat /\ registered \subseteq Nat /\ archived \subseteq Nat
  /\ persisted \in Nat /\ disturbed \in BOOLEAN
  /\ child \in {"none", "running", "killed", "ok", "failed"}
  /\ pipe \in Seq({"delta", "done", "bad", "eof"})
  /\ sent \in 0..MaxDeltas /\ content \in 0..sent
  /\ decoder \in {"reading", "done", "ended", "invalid"}
  /\ exit \in {None, 0, 1} /\ workdir \in BOOLEAN

\* What the protocol lets follow an event e.
MayFollow(e, f) ==
  \/ /\ e.type = "session.started" /\ f = Event("phase.started", "thought", 0, "")
  \/ /\ e.type = "phase.started" /\ f.phase = e.phase
     /\ \/ f.type = "phase.completed" /\ f.n = e.n
        \/ f.type = "session.failed" /\ f.n = e.n
        \/ f.type = "final.delta" /\ f.n = 1
  \/ /\ e.type = "final.delta" /\ f.phase = "final"
     /\ f.type \in {"final.delta", "phase.completed", "session.failed"}
     /\ f.type = "final.delta" => f.n = e.n + 1
  \/ /\ e.type = "phase.completed" /\ e.phase = "thought"
     /\ f = Event("phase.started", "observe", e.n, "")
  \/ /\ e.type = "phase.completed" /\ e.phase = "observe"
     /\ f = Event("phase.started", "check", e.n, "")
  \/ /\ e.type = "phase.completed" /\ e.phase = "check" /\ e.info = "continue"
     /\ e.n + 1 < MaxStep
     /\ f = Event("phase.started", "thought", e.n + 1, "")
  \/ /\ e.type = "phase.completed" /\ e.phase = "check"
     /\ e.info = "stop" \/ e.n + 1 = MaxStep
     /\ \/ f.type = "phase.started" /\ f.phase = "final" /\ f.n = e.n + 1
        \/ f.type = "session.completed" /\ f.n = e.n + 1
        \/ f.type = "session.failed" /\ f.phase = "check" /\ f.n = e.n + 1 /\ e.info = "continue"
  \/ /\ e.type = "phase.completed" /\ e.phase = "final"
     /\ f.type = "session.completed" /\ f.n = e.n

\* Whatever fails and wherever stdout breaks, a reader of the stream has read
\* a beginning of a legal session: phases in order, nothing after a terminal
\* event, a failure in the phase that was running.
StreamIsLegal ==
  /\ events # <<>> => events[1].type = "session.started"
  /\ \A k \in 2..Len(events) : MayFollow(events[k - 1], events[k])

Last == events[Len(events)]
Terminated == events # <<>> /\ Last.type \in {"session.completed", "session.failed"}

\* A session reports success only if the reader got all that the Final child
\* wrote, the child said so itself and exited with 0 (the dual witness); the
\* exit code says what the stream says, also when stdout broke; and the child
\* outlives neither the session nor the work directory.
SuccessIsWitnessed ==
  /\ Terminated /\ Last.type = "session.completed" /\ config.final =>
       /\ child = "ok" /\ decoder = "ended"
       /\ Cardinality({k \in DOMAIN events : events[k].type = "final.delta"}) = sent
  /\ at = "end" =>
       /\ exit = 0 <=> Terminated /\ Last.type = "session.completed"
       /\ channel = "open" => Terminated
  /\ at = "end" \/ ~workdir => child \notin {"running", "killed"}

\* A Thought sees exactly the most recent observations, no index was given out
\* twice although indexes disappear from the directory, and retention is never
\* what makes an undisturbed session fail.
RecentObservationsStay ==
  /\ at = "run" /\ phase = "thought" /\ config.carryover > 0 =>
       registered \cap root =
         {i \in registered : Cardinality({j \in registered : j > i}) < config.carryover}
  /\ archived \cap root = {}
  /\ failure # None /\ failure.phase = "observe" /\ failure.code = "internal_error" =>
       disturbed \/ channel = "broken"

\* Every session ends, also when the Final child goes on after its stream was
\* given up: it is killed.
EverySessionEnds == <>(at = "end")

==============================================================================
