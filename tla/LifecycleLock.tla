----------------------------- MODULE LifecycleLock -----------------------------
(***************************************************************************)
(* The directory lifecycle lock of packages/promptpile-compress            *)
(* (src/lifecycle/lock.ts).  Every acquisition publishes a lock file of    *)
(* its own name, then lists all lock files, removes those whose process is *)
(* dead on this host, and enters only when its own file is the only one    *)
(* left.  It backs off and retries a bounded number of times.              *)
(*                                                                         *)
(* A lock file is abstracted to the operation that published it: the name  *)
(* carries host, pid and a fresh owner id.                                 *)
(***************************************************************************)
EXTENDS Naturals

CONSTANTS
  Operation,     \* the acquisitions: one compress, restore or recover run each
  Process,       \* operating-system processes
  Host,          \* machines that share the directory
  ProcessOf,     \* ProcessOf[o]: the process that runs o
  HostOf,        \* HostOf[p]: the machine process p runs on
  MaxAttempts,   \* MAX_ACQUIRE_ATTEMPTS, also the bound on cleanup passes
  Faults,        \* TRUE: publishing and unlinking may fail
  Legacy         \* the lock file of the fixed name earlier versions used

ASSUME ConstantsAssumption ==
  /\ ProcessOf \in [Operation -> Process]
  /\ HostOf \in [Process -> Host]
  /\ MaxAttempts \in Nat \ {0}
  /\ Faults \in BOOLEAN
  /\ Legacy \notin Operation

VARIABLES
  locks,     \* the lock files in the directory
  alive,     \* the processes that run
  pc,        \* pc[o]: where acquisition o is
  attempt,   \* attempt[o]: the attempts o made before this one
  pass,      \* pass[o]: cleanup passes made in this attempt
  unread,    \* unread[o]: listed lock files whose metadata is still to be read
  found,     \* found[o]: the lock files read in this pass
  stale      \* stale[o]: dead lock files still to be unlinked

mem == <<attempt, pass, unread, found, stale>>
vars == <<locks, alive, pc, mem>>

LockFile == Operation \cup {Legacy}

Stage == {"publish", "list", "read", "decide", "clean", "give-way", "wait",
          "held", "abandon", "locked", "error", "released", "crashed"}

SameHost(o, q) == HostOf[ProcessOf[o]] = HostOf[ProcessOf[q]]

Init ==
  /\ locks \in {{}, {Legacy}}
  /\ alive = Process
  /\ pc = [o \in Operation |-> "publish"]
  /\ attempt = [o \in Operation |-> 0] /\ pass = [o \in Operation |-> 0]
  /\ unread = [o \in Operation |-> {}] /\ found = [o \in Operation |-> {}]
  /\ stale = [o \in Operation |-> {}]

Running(o, stage) == pc[o] = stage /\ ProcessOf[o] \in alive
Goto(o, stage) == pc' = [pc EXCEPT ![o] = stage]

\* Acquisitions that are over: their local state is gone.
Forget(gone) ==
  /\ attempt' = [o \in Operation |-> IF o \in gone THEN 0 ELSE attempt[o]]
  /\ pass' = [o \in Operation |-> IF o \in gone THEN 0 ELSE pass[o]]
  /\ unread' = [o \in Operation |-> IF o \in gone THEN {} ELSE unread[o]]
  /\ found' = [o \in Operation |-> IF o \in gone THEN {} ELSE found[o]]
  /\ stale' = [o \in Operation |-> IF o \in gone THEN {} ELSE stale[o]]

Finish(o, stage) == Goto(o, stage) /\ Forget({o})

------------------------------------------------------------------------------
(* Acquisition *)

\* link(temp, lock): the file appears at once, with complete metadata.
Publish(o) ==
  /\ Running(o, "publish")
  /\ locks' = locks \cup {o}
  /\ Goto(o, "list")
  /\ UNCHANGED <<alive, mem>>

\* Writing, linking or syncing fails; removing the linked file may fail too.
PublishFails(o) ==
  /\ Faults
  /\ Running(o, "publish")
  /\ locks' \in {locks, locks \cup {o}}
  /\ Finish(o, "error")
  /\ UNCHANGED alive

\* readdir
List(o) ==
  /\ Running(o, "list")
  /\ unread' = [unread EXCEPT ![o] = locks]
  /\ found' = [found EXCEPT ![o] = {}]
  /\ Goto(o, "read")
  /\ UNCHANGED <<locks, alive, attempt, pass, stale>>

\* The metadata of one listed lock file; one that is gone by now is skipped.
Read(o) ==
  /\ Running(o, "read")
  /\ \E l \in unread[o] :
       /\ unread' = [unread EXCEPT ![o] = @ \ {l}]
       /\ found' = [found EXCEPT ![o] = IF l \in locks THEN @ \cup {l} ELSE @]
       /\ Goto(o, IF unread[o] = {l} THEN "decide" ELSE "read")
  /\ UNCHANGED <<locks, alive, attempt, pass, stale>>

\* Mutants of IsStale: the host is not compared, so the pid of another machine
\* is looked up here; a lock is never stale; or stale without asking the process.
IsStaleAnyHost(o, l) ==
  /\ l # Legacy
  /\ ~SameHost(o, l) \/ ProcessOf[l] \notin alive
IsStaleNever(o, l) == FALSE
IsStaleByAge(o, l) == l # Legacy /\ SameHost(o, l)

\* A lock file of this host whose pid does not run any more.
IsStale(o, l) ==
  /\ l # Legacy
  /\ SameHost(o, l)
  /\ ProcessOf[l] \notin alive

\* What o has read decides: enter, clean up, or give way.
Decide(o) ==
  LET others == found[o] \ {o}
      dead == {l \in others : IsStale(o, l)}
  IN
  /\ Running(o, "decide")
  /\ found' = [found EXCEPT ![o] = {}]
  /\ stale' = [stale EXCEPT ![o] = IF o \in found[o] THEN dead ELSE {}]
  /\ \/ o \notin found[o] /\ Goto(o, "abandon")
     \/ o \in found[o] /\ dead # {} /\ Goto(o, "clean")
     \/ o \in found[o] /\ others = {} /\ Goto(o, "held")
     \/ o \in found[o] /\ dead = {} /\ others # {} /\ Goto(o, "give-way")
  /\ UNCHANGED <<locks, alive, attempt, pass, unread>>

\* Stale files are unlinked one by one; one that is gone already is fine.  A
\* fresh scan follows the last one, unless this was the last pass.
Clean(o) ==
  /\ Running(o, "clean")
  /\ \E l \in stale[o] :
       /\ locks' = locks \ {l}
       /\ stale' = [stale EXCEPT ![o] = @ \ {l}]
       /\ IF stale[o] # {l}
          THEN UNCHANGED <<pass, pc>>
          ELSE /\ pass' = [pass EXCEPT ![o] = @ + 1]
               /\ Goto(o, IF pass[o] + 1 < MaxAttempts THEN "list" ELSE "abandon")
  /\ UNCHANGED <<alive, attempt, unread, found>>

CleanFails(o) ==
  /\ Faults
  /\ Running(o, "clean")
  /\ stale' = [stale EXCEPT ![o] = {}]
  /\ Goto(o, "abandon")
  /\ UNCHANGED <<locks, alive, attempt, pass, unread, found>>

\* Another lock file blocks: remove the own one, then wait and retry or fail.
GiveWay(o) ==
  /\ Running(o, "give-way")
  /\ locks' = locks \ {o}
  /\ IF attempt[o] + 1 < MaxAttempts
     THEN /\ attempt' = [attempt EXCEPT ![o] = @ + 1]
          /\ pass' = [pass EXCEPT ![o] = 0]
          /\ Goto(o, "wait")
          /\ UNCHANGED <<unread, found, stale>>
     ELSE Finish(o, "locked")
  /\ UNCHANGED alive

Wait(o) ==
  /\ Running(o, "wait")
  /\ Goto(o, "publish")
  /\ UNCHANGED <<locks, alive, mem>>

\* A scan or a cleanup failed: release on a best effort, report that failure.
Abandon(o) ==
  /\ Running(o, "abandon")
  /\ \/ locks' = locks \ {o}
     \/ Faults /\ UNCHANGED locks
  /\ Finish(o, "error")
  /\ UNCHANGED alive

\* The operation has run under the lock and removes its own file.
Release(o) ==
  /\ Running(o, "held")
  /\ locks' = locks \ {o}
  /\ Finish(o, "released")
  /\ UNCHANGED alive

\* The own file cannot be read or unlinked and stays while the process lives.
ReleaseFails(o) ==
  /\ Faults
  /\ pc[o] \in {"held", "give-way"} /\ ProcessOf[o] \in alive
  /\ Finish(o, "error")
  /\ UNCHANGED <<locks, alive>>

Over == {"released", "locked", "error"}

\* A process dies or exits, with everything it runs; its lock files stay.
Die(p) ==
  LET killed == {o \in Operation : ProcessOf[o] = p /\ pc[o] \notin Over} IN
  /\ p \in alive
  /\ alive' = alive \ {p}
  /\ pc' = [o \in Operation |-> IF o \in killed THEN "crashed" ELSE pc[o]]
  /\ Forget(killed)
  /\ UNCHANGED locks

Step(o) ==
  \/ Publish(o) \/ List(o) \/ Read(o) \/ Decide(o) \/ Clean(o) \/ GiveWay(o)
  \/ Wait(o) \/ Abandon(o) \/ Release(o)

Fault(o) == PublishFails(o) \/ CleanFails(o) \/ ReleaseFails(o)

Next ==
  \/ \E o \in Operation : Step(o) \/ Fault(o)
  \/ \E p \in Process : Die(p)

Spec == Init /\ [][Next]_vars

\* Acquisitions keep running while their process lives.
FairSpec == Spec /\ \A o \in Operation : WF_vars(Step(o))
------------------------------------------------------------------------------
(* Properties *)

\* Types; neither retries nor cleanup passes exceed their bound.
TypeOK ==
  /\ locks \subseteq LockFile
  /\ alive \subseteq Process
  /\ pc \in [Operation -> Stage]
  /\ attempt \in [Operation -> 0..(MaxAttempts - 1)]
  /\ pass \in [Operation -> 0..MaxAttempts]
  /\ unread \in [Operation -> SUBSET LockFile]
  /\ found \in [Operation -> SUBSET LockFile]
  /\ stale \in [Operation -> SUBSET Operation]

\* At most one lifecycle operation mutates the directory, across processes and
\* machines, also while several of them clean up after a dead one.
MutualExclusion ==
  \A o, q \in Operation : pc[o] = "held" /\ pc[q] = "held" => o = q

\* A lock file disappears only through its own operation or after its process
\* has died on the machine of the one that removes it; nobody steals a lock
\* because it is old, of another machine, or of an earlier version.
OnlyDeadLocksAreRemoved ==
  [][\A l \in locks \ locks' :
       /\ l # Legacy
       /\ \/ pc'[l] # pc[l]
          \/ /\ ProcessOf[l] \notin alive
             /\ \E o \in Operation : l \in stale[o] /\ SameHost(o, l)]_vars

\* What a dead process left behind on the same machine blocks nobody: an
\* operation that starts over when no other one can run gets the lock, unless a
\* file operation of its own fails.
DeadDoNotBlock ==
  \A o \in Operation :
    /\ Running(o, "publish") /\ Legacy \notin locks
    /\ \A q \in Operation \ {o} : /\ SameHost(o, q)
                                  /\ ProcessOf[q] \notin alive
    ~> pc[o] \in {"released", "crashed", "error"}
==============================================================================
