----------------------------- MODULE AutomaticRun -----------------------------
(***************************************************************************)
(* runCompressionBeforeCompletion inside one process: several automatic    *)
(* runs, on one or several directories, called from outside or from a      *)
(* callback of one another.  serializeOrchestratorPhase chains the phases  *)
(* of a directory by promises; a run then takes the lifecycle lock,        *)
(* maintains the archives, where it may ask a summary provider, releases   *)
(* the lock and calls the completion.  The code between two awaits is one  *)
(* action.  What maintaining does to the files is ArchiveLifecycle's part, *)
(* what the lock does LifecycleLock's: here their outcome is a choice.     *)
(***************************************************************************)
EXTENDS Sequences

CONSTANTS Run, Directory, Nobody

VARIABLES
    at,         \* where a run is
    place,      \* the directory a run is about
    within,     \* the run whose callback called it, whatever came of that run
    previous,   \* the phase a queued one waits for
    tail,       \* orchestratorQueues: the last phase of each directory
    failed,     \* maintaining the archives failed
    line        \* history: the phases of a directory, in the order they came

autoVars == <<at, place, within, previous, tail, failed, line>>

Callbacks == {"maintain", "summary", "completion"}
Inside    == Callbacks \cup {"locking", "releasing"}

AutoInit ==
    /\ at = [r \in Run |-> "idle"]
    /\ place \in [Run -> Directory]
    /\ within = [r \in Run |-> Nobody]
    /\ previous = [r \in Run |-> Nobody]
    /\ tail = [d \in Directory |-> Nobody]
    /\ failed = [r \in Run |-> FALSE]
    /\ line = [d \in Directory |-> <<>>]

------------------------------------------------------------------------------
\* Mutant of Refused: nobody looks at the invocation of the caller.
RefusedNever(s) == FALSE

\* The asynchronous context of the caller holds an invocation still active.
Refused(s) == s # Nobody /\ at[s] \in Inside

\* Called from outside, from a callback of s, or from work that a callback of
\* s left behind and that still carries its context.
Call(r, s) ==
    /\ at[r] = "idle"
    /\ s # Nobody => at[s] \in Callbacks \cup {"returned"}
    /\ at' = [at EXCEPT ![r] = IF Refused(s) THEN "returned" ELSE "resolving"]
    /\ within' = [within EXCEPT ![r] = IF s # Nobody /\ at[s] \in Callbacks
                                       THEN s ELSE Nobody]
    /\ UNCHANGED <<place, previous, tail, failed, line>>

\* The options are invalid or the directory cannot be resolved.
Invalid(r) ==
    /\ at[r] = "resolving"
    /\ at' = [at EXCEPT ![r] = "returned"]
    /\ UNCHANGED <<place, within, previous, tail, failed, line>>

\* The tail so far becomes the predecessor, this phase the tail.
Queue(r) ==
    LET d == place[r] IN
    /\ at[r] = "resolving"
    /\ at' = [at EXCEPT ![r] = "queued"]
    /\ previous' = [previous EXCEPT ![r] = tail[d]]
    /\ tail' = [tail EXCEPT ![d] = r]
    /\ line' = [line EXCEPT ![d] = Append(@, r)]
    /\ UNCHANGED <<place, within, failed>>

\* await previous: its gate opens when that phase has returned.
Enter(r) ==
    /\ at[r] = "queued"
    /\ previous[r] # Nobody => at[previous[r]] = "returned"
    /\ at' = [at EXCEPT ![r] = "locking"]
    /\ UNCHANGED <<place, within, previous, tail, failed, line>>

\* Mutant of ForgetTail: the entry goes, whoever queued up meanwhile.
ForgetTailAlways(r, entry) == Nobody

\* The entry of the directory goes only while it is this phase's own.
ForgetTail(r, entry) == IF entry = r THEN Nobody ELSE entry

\* The finally: no longer active, gate open, entry forgotten.
Leave(r) ==
    LET d == place[r] IN
    /\ at' = [at EXCEPT ![r] = "returned"]
    /\ tail' = [tail EXCEPT ![d] = ForgetTail(r, @)]
    /\ line' = [line EXCEPT ![d] = Tail(@)]

\* acquireDirectoryLifecycleLock, whose attempts are bounded.
Lock(r) ==
    /\ at[r] = "locking"
    /\ \/ at' = [at EXCEPT ![r] = "maintain"] /\ UNCHANGED <<tail, line>>
       \/ Leave(r)
    /\ UNCHANGED <<place, within, previous, failed>>

\* The provider is asked and its timer starts.
Ask(r) ==
    /\ at[r] = "maintain"
    /\ at' = [at EXCEPT ![r] = "summary"]
    /\ UNCHANGED <<place, within, previous, tail, failed, line>>

\* An awaited call that a callback made has come back.
CallsAreBack(r) == \A q \in Run : within[q] = r => at[q] = "returned"

\* The provider answers before the timer; the summary may still be refused or
\* the commit fail.  What it answers later is ignored: the race is settled.
Summarised(r) ==
    /\ at[r] = "summary" /\ CallsAreBack(r)
    /\ at' = [at EXCEPT ![r] = "releasing"]
    /\ failed' \in {failed, [failed EXCEPT ![r] = TRUE]}
    /\ UNCHANGED <<place, within, previous, tail, line>>

TimesOut(r) ==
    /\ at[r] = "summary"
    /\ at' = [at EXCEPT ![r] = "releasing"]
    /\ failed' = [failed EXCEPT ![r] = TRUE]
    /\ UNCHANGED <<place, within, previous, tail, line>>

\* Skipped, compressed without a provider, or failed.
Maintained(r) ==
    /\ at[r] = "maintain" /\ CallsAreBack(r)
    /\ at' = [at EXCEPT ![r] = "releasing"]
    /\ failed' \in {failed, [failed EXCEPT ![r] = TRUE]}
    /\ UNCHANGED <<place, within, previous, tail, line>>

\* The completion is called only after both went well.
Unlock(r) ==
    /\ at[r] = "releasing"
    /\ \/ ~failed[r] /\ at' = [at EXCEPT ![r] = "completion"]
                     /\ UNCHANGED <<tail, line>>
       \/ Leave(r)
    /\ UNCHANGED <<place, within, previous, failed>>

\* The completion resolves or throws: either way the run returns a report.
Completed(r) ==
    /\ at[r] = "completion" /\ CallsAreBack(r)
    /\ Leave(r)
    /\ UNCHANGED <<place, within, previous, failed>>

\* What happens without anybody's doing; a provider need never answer.
AutoStep(r) ==
    \/ Invalid(r) \/ Queue(r) \/ Enter(r) \/ Lock(r)
    \/ Maintained(r) \/ TimesOut(r) \/ Unlock(r) \/ Completed(r)

AutoNext ==
    \E r \in Run :
        \/ AutoStep(r) \/ Ask(r) \/ Summarised(r)
        \/ \E s \in Run \cup {Nobody} : Call(r, s)

AutoSpec == AutoInit /\ [][AutoNext]_autoVars
------------------------------------------------------------------------------
AtWork == [d \in Directory |-> {r \in Run : place[r] = d /\ at[r] \in Inside}]

Turns == INSTANCE PhaseQueue WITH inside <- AtWork
==============================================================================
