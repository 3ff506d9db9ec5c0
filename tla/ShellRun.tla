------------------------------ MODULE ShellRun ------------------------------
(***************************************************************************)
(* runShell of agent-lite-tools/shell: one command in a child process,     *)
(* until its streams are closed, it cannot be started, its time is up or   *)
(* its caller aborts.  The child may leave a process behind that keeps the *)
(* output pipes open, and it may ignore SIGTERM.                           *)
(***************************************************************************)
EXTENDS Naturals

CONSTANTS
    MaxOutput,   \* bound: pieces of output the command writes
    KeptOutput   \* MAX_OUTPUT_BYTES, in pieces

ASSUME ShellAssumption == MaxOutput \in Nat /\ KeptOutput \in Nat

VARIABLES
    phase,       \* "idle", "resolving", "running", "settled"
    callerAborted, \* the caller's signal
    timer,       \* "off", "armed", "fired"
    listening,   \* the abort listener is registered
    child,       \* the process: is it alive, does it obey, how it ended
    heirs,       \* a process of the command that outlives it holds the pipes
    pipes,       \* "open" or, destroyed at this end, "cut"
    written,     \* pieces the command has written
    collected,   \* pieces that arrived
    interrupted, \* the timer or the listener ran
    result       \* what the promise settled to

shellVars == <<phase, callerAborted, timer, listening, child, heirs, pipes, written,
               collected, interrupted, result>>

NoResult == [kind |-> "none", interrupted |-> FALSE, kept |-> 0,
             truncated |-> FALSE]

ShellInit ==
    /\ phase = "idle" /\ callerAborted = FALSE /\ timer = "off" /\ listening = FALSE
    /\ child \in [alive : {FALSE}, obeys : BOOLEAN, ended : {"no"}]
    /\ heirs = FALSE /\ pipes = "open"
    /\ written = 0 /\ collected = 0 /\ interrupted = FALSE
    /\ result = NoResult

Settle(outcome) == phase' = "settled" /\ result' = outcome
Rejected == [NoResult EXCEPT !.kind = "rejected"]

\* An aborted signal is refused before anything starts.
CallShell ==
    /\ phase = "idle"
    /\ IF callerAborted THEN Settle(Rejected)
       ELSE phase' = "resolving" /\ UNCHANGED result
    /\ UNCHANGED <<callerAborted, timer, listening, child, heirs, pipes, written,
                   collected, interrupted>>

\* The executable is found or not; then the child is spawned, the timer armed
\* and the listener registered in one go.
Spawn ==
    /\ phase = "resolving"
    /\ \/ /\ phase' = "running" /\ timer' = "armed" /\ listening' = TRUE
          /\ child' \in {[child EXCEPT !.alive = TRUE],
                         [child EXCEPT !.ended = "unstarted"]}
          /\ UNCHANGED result
       \/ Settle(Rejected) /\ UNCHANGED <<timer, listening, child>>
    /\ UNCHANGED <<callerAborted, heirs, pipes, written, collected, interrupted>>

Cleanup == timer' = "off" /\ listening' = FALSE

\* The child's error event: it never started.
SpawnError ==
    /\ phase = "running" /\ child.ended = "unstarted"
    /\ Settle(Rejected) /\ Cleanup
    /\ UNCHANGED <<callerAborted, child, heirs, pipes, written, collected,
                   interrupted>>

\* Mutant of Interrupt: the child is signalled, its pipes are left open.
InterruptChildOnly ==
    /\ interrupted' = TRUE
    /\ UNCHANGED pipes
    /\ child' = IF child.alive /\ child.obeys
                THEN [child EXCEPT !.alive = FALSE, !.ended = "signal"]
                ELSE child

\* SIGTERM to the child, and this end of its pipes destroyed.
Interrupt ==
    /\ interrupted' = TRUE
    /\ pipes' = "cut"
    /\ child' = IF child.alive /\ child.obeys
                THEN [child EXCEPT !.alive = FALSE, !.ended = "signal"]
                ELSE child

TimeUp ==
    /\ phase = "running" /\ timer = "armed"
    /\ timer' = "fired"
    /\ Interrupt
    /\ UNCHANGED <<phase, callerAborted, listening, heirs, written, collected, result>>

\* The caller aborts; a listener registered once runs.
Abort ==
    /\ ~callerAborted /\ phase # "settled"
    /\ callerAborted' = TRUE
    /\ IF listening THEN Interrupt ELSE UNCHANGED <<interrupted, pipes, child>>
    /\ UNCHANGED <<phase, timer, listening, heirs, written, collected, result>>

\* The command, or what it leaves behind, writes.
WriteOutput ==
    /\ child.alive \/ heirs
    /\ written < MaxOutput /\ pipes = "open"
    /\ written' = written + 1
    /\ UNCHANGED <<phase, callerAborted, timer, listening, child, heirs, pipes,
                   collected, interrupted, result>>

\* A data event.
Collect ==
    /\ collected < written /\ pipes = "open"
    /\ collected' = collected + 1
    /\ UNCHANGED <<phase, callerAborted, timer, listening, child, heirs, pipes,
                   written, interrupted, result>>

\* The child exits by itself, perhaps leaving a process behind.
ChildExits ==
    /\ child.alive
    /\ child' = [child EXCEPT !.alive = FALSE, !.ended = "code"]
    /\ heirs' \in BOOLEAN
    /\ UNCHANGED <<phase, callerAborted, timer, listening, pipes, written, collected,
                   interrupted, result>>

HeirsExit ==
    /\ heirs
    /\ heirs' = FALSE
    /\ UNCHANGED <<phase, callerAborted, timer, listening, child, pipes, written,
                   collected, interrupted, result>>

\* Mutant of StreamsClosed: the promise settles on the exit of the child.
StreamsClosedAtExit == TRUE

\* close comes after the exit and after the streams are through or cut.
StreamsClosed == pipes = "cut" \/ (~heirs /\ collected = written)

Close ==
    /\ phase = "running" /\ ~child.alive /\ child.ended # "unstarted"
    /\ StreamsClosed
    /\ Settle([kind |-> "done",
               interrupted |-> interrupted \/ child.ended = "signal",
               kept |-> IF collected <= KeptOutput THEN collected ELSE KeptOutput,
               truncated |-> collected > KeptOutput])
    /\ Cleanup
    /\ UNCHANGED <<callerAborted, child, heirs, pipes, written, collected, interrupted>>

ShellNext ==
    \/ CallShell \/ Spawn \/ SpawnError \/ TimeUp \/ Abort
    \/ WriteOutput \/ Collect \/ ChildExits \/ HeirsExit \/ Close

\* The event loop runs: what was called is spawned, timers fire, events of
\* processes and streams arrive.  Nothing makes a command end by itself.
ShellFairness ==
    /\ WF_shellVars(Spawn) /\ WF_shellVars(SpawnError)
    /\ WF_shellVars(TimeUp) /\ WF_shellVars(Close)

ShellSpec == ShellInit /\ [][ShellNext]_shellVars /\ ShellFairness
------------------------------------------------------------------------------
\* A result that claims not to be interrupted carries all the command wrote,
\* by itself or by a process that outlived it, or says that it was truncated;
\* the exit of the child alone is too early to tell (run-shell.ts:186-196).
UninterruptedIsWhole ==
    result.kind = "done" /\ ~result.interrupted =>
        /\ child.ended = "code" /\ ~heirs
        /\ IF result.truncated THEN result.kept < written
                               ELSE result.kept = written

\* A command that obeys SIGTERM settles, even when a process it leaves behind
\* keeps its pipes open for ever and even when the abort is missed because it
\* falls between the check and the registration of the listener.
ObedientCommandsSettle ==
    phase = "resolving" /\ child.obeys ~> phase = "settled"
==============================================================================
