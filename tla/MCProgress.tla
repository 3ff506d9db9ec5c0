------------------------------ MODULE MCProgress ------------------------------
(***************************************************************************)
(* Who makes progress, and what the losers leave behind.  One behaviour is *)
(* one of four races, chosen at the start: two cooperative writers with    *)
(* crashes ("pair"); a plain writer and tool results against a cooperative *)
(* one ("mixed"), both on one Conversation directory; two lifecycle        *)
(* operations on one lock, one of which may die ("lock"); or three         *)
(* automatic runs of one process on up to two directories ("turns").       *)
(***************************************************************************)
EXTENDS Naturals, TLC

CONSTANTS w1, w2, w3, Nobody, Seed, Tool,
          o1, o2, p1, p2, here, Legacy,
          a1, a2, a3, d1, d2

VARIABLES
  running,                                               \* which race
  file, claim, pc, turn, exp, obs, prompt, todo, out,    \* ConversationOCC
  locks, alive, stage, attempt, pass, unread, found, stale, \* LifecycleLock
  at, place, within, previous, tail, failed, line        \* AutomaticRun

occVars == <<file, claim, pc, turn, exp, obs, prompt, todo, out>>
lockVars == <<locks, alive, stage, attempt, pass, unread, found, stale>>
autoVars == <<at, place, within, previous, tail, failed, line>>
vars == <<running, occVars, lockVars, autoVars>>

Writers == {w1, w2, w3}
Pair == {w1, w2}
Mix == {w2, w3}
Operations == {o1, o2}
Runs == {a1, a2, a3}
ProcessOf == o1 :> p1 @@ o2 :> p2

P == INSTANCE ConversationOCC
       WITH Writer <- Pair, MaxIndex <- 3, Faults <- TRUE, ToolRuns <- FALSE,
            Op <- (w1 :> "append-user" @@ w2 :> "input"),
            Mode <- (w1 :> "fingerprint" @@ w2 :> "both"),
            Shapes <- {{}, {"body", "calls"}}

\* Replies that can meet on one name and miss on another; and few indexes, so
\* that a plain writer can find none left.
M == INSTANCE ConversationOCC
       WITH Writer <- Mix, MaxIndex <- 2, Faults <- FALSE, ToolRuns <- TRUE,
            Op <- (w2 :> "continue" @@ w3 :> "input"),
            Mode <- (w2 :> "both" @@ w3 :> "plain"),
            Shapes <- {{"calls"}, {"body", "calls"}}

L == INSTANCE LifecycleLock
       WITH pc <- stage, Operation <- Operations, Process <- {p1, p2},
            Host <- {here}, MaxAttempts <- 6, Faults <- FALSE,
            HostOf <- (p1 :> here @@ p2 :> here)

T == INSTANCE AutomaticRun WITH Run <- Runs, Directory <- {d1, d2}

\* The race that does not run stays where it starts.
NoWriters ==
  /\ file = 0 /\ claim = 0 /\ pc = 0 /\ turn = 0 /\ exp = 0 /\ obs = 0
  /\ prompt = 0 /\ todo = 0 /\ out = 0
NoOperations ==
  /\ locks = 0 /\ alive = 0 /\ stage = 0 /\ attempt = 0 /\ pass = 0
  /\ unread = 0 /\ found = 0 /\ stale = 0

Init ==
  /\ T!AutoInit
  /\ \/ running = "pair" /\ P!Init /\ NoOperations
     \/ running = "mixed" /\ M!Init /\ NoOperations
     \/ running = "lock" /\ L!Init /\ NoWriters
     \/ running = "turns" /\ NoWriters /\ NoOperations
  /\ \A r \in Runs : place[r] = d2 => running = "turns" /\ r = a2

Only(race, step, others) == running = race /\ step /\ UNCHANGED <<running, others>>

InPair(step) == Only("pair", step, <<lockVars, autoVars>>)
InMixed(step) == Only("mixed", step, <<lockVars, autoVars>>)
InLock(step) == Only("lock", step, <<occVars, autoVars>>)
InTurns(step) == Only("turns", step, <<occVars, lockVars>>)

Next == InPair(P!Next) \/ InMixed(M!Next) \/ InLock(L!Next) \/ InTurns(T!AutoNext)

\* A started process keeps running; failures, deaths, operators and tools are
\* not fair.
Spec ==
  /\ Init /\ [][Next]_vars
  /\ \A p \in Pair : WF_vars(InPair(P!Step(p)))
  /\ \A p \in Mix : WF_vars(InMixed(M!Step(p)))
  /\ \A p \in M!Plain : WF_vars(InMixed(M!PlainAllocate(p)))
  /\ \A o \in Operations : WF_vars(InLock(L!Step(o)))
  /\ \A r \in Runs : WF_vars(InTurns(T!AutoStep(r)))
------------------------------------------------------------------------------
\* A run that ends with the conflict exit code has left no assistant artifact,
\* and append-user no artifact at all, even when plain writers interfere.
ConflictWritesNothing ==
  /\ running = "pair" => P!ConflictWritesNothing
  /\ running = "mixed" => M!ConflictWritesNothing

\* Nobody ever waits for the claim: every run that is not killed ends, also
\* when a crashed writer left its claim behind, whoever else writes meanwhile.
EveryRunEnds ==
  \A p \in Writers :
    <>(running \in {"pair", "mixed"} /\ p \in DOMAIN pc => pc[p] \in {"done", "crashed"})

\* Writers that race for the claim cannot all lose by conflict: one of them
\* completes, unless one is killed or a file operation fails.
RaceHasWinner ==
  (running = "pair" /\ \E p \in Pair : pc[p] = "claim")
    ~> (running = "pair" =>
          \E p \in Pair : \/ out[p] \in {"ok", "error"} \/ pc[p] = "crashed"
                         \/ P!Authored(p, P!Kind))

\* What a dead process left behind on the same machine blocks nobody: an
\* operation that starts over when no other one can run gets the lock.
DeadDoNotBlock ==
  \A o \in Operations :
    /\ running = "lock"
    /\ L!Running(o, "publish") /\ Legacy \notin locks
    /\ \A q \in Operations \ {o} : /\ L!SameHost(o, q)
                                   /\ ProcessOf[q] \notin alive
    ~> (running = "lock" => stage[o] \in {"released", "crashed", "error"})

\* The automatic runs of one process on a directory work one at a time in the
\* order they queued up, and whatever fails, never answers, throws or calls
\* back into another run, each gets its turn and gives it back.
PhasesTakeTurns == T!Turns!Spec
==============================================================================
