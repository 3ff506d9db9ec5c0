-------------------------- MODULE LifecycleLock_proofs --------------------------
(***************************************************************************)
(* That lifecycle operations exclude each other, for any number of them on  *)
(* any processes and machines.  A lock file of a live process is removed    *)
(* only by its own operation; so of two published locks, whoever lists the  *)
(* directory later sees the lock of the other, and does not enter.          *)
(* And that within one process the automatic runs take turns at a directory *)
(* in the order they came: a phase waits for the one before it, which never  *)
(* comes back.                                                              *)
(***************************************************************************)
EXTENDS LifecycleLock, AutomaticRun, SequenceTheorems, TLAPS

PassesBounded == \A o \in Operation : pc[o] # "abandon" => pass[o] < MaxAttempts

\* o has published its lock file and has not removed it.
Active(o) == pc[o] \in {"list", "read", "decide", "clean", "give-way", "held", "abandon"}

ActivePublished == \A o \in Operation : Active(o) => o \in locks

\* An operation that is not over runs in a live process.
UnfinishedAlive ==
  \A o \in Operation : pc[o] \notin Over \cup {"crashed"} => ProcessOf[o] \in alive

\* What o took for dead stays dead.
StaleIsDead ==
  \A o \in Operation : \A l \in stale[o] : ProcessOf[l] \notin alive /\ SameHost(o, l)

\* The current scan of o does not know, and will not find out, about q.
Blind(o, q) ==
  \/ pc[o] = "read" /\ q \notin unread[o] \cup found[o]
  \/ pc[o] = "decide" /\ q \notin found[o]
  \/ pc[o] = "held"

OneSeesTheOther ==
  \A o, q \in Operation : o # q => ~(Blind(o, q) /\ Blind(q, o))

Typed == TypeOK /\ PassesBounded
Honest == ActivePublished /\ UnfinishedAlive /\ StaleIsDead
IInv == Typed /\ Honest /\ OneSeesTheOther

\* The initial states satisfy the invariant.
LEMMA InitInv == Init => IInv
BY ConstantsAssumption, SMTT(30)
   DEF Init, IInv, Typed, TypeOK, PassesBounded, Honest, ActivePublished, Active,
       UnfinishedAlive, Over, StaleIsDead, OneSeesTheOther, Blind, Stage, LockFile, SameHost

\* Types and the bound on cleanup passes.
LEMMA TypeStep ==
  ASSUME Typed, NEW o \in Operation, Step(o) \/ Fault(o)
  PROVE  Typed'
<1> USE ConstantsAssumption
    DEF Typed, TypeOK, PassesBounded, Stage, LockFile, mem, Goto, Finish, Forget, Running
<1>1. CASE Publish(o) BY <1>1 DEF Publish
<1>2. CASE List(o) BY <1>2 DEF List
<1>3. CASE Read(o) BY <1>3 DEF Read
<1>4. CASE Decide(o) BY <1>4 DEF Decide, IsStale
<1>5. CASE Clean(o) BY <1>5 DEF Clean
<1>6. CASE GiveWay(o) BY <1>6 DEF GiveWay
<1>7. CASE Wait(o) BY <1>7 DEF Wait
<1>8. CASE Abandon(o) BY <1>8 DEF Abandon
<1>9. CASE Release(o) BY <1>9 DEF Release
<1>10. CASE PublishFails(o) BY <1>10 DEF PublishFails
<1>11. CASE CleanFails(o) BY <1>11 DEF CleanFails
<1>12. CASE ReleaseFails(o) BY <1>12 DEF ReleaseFails
<1> QED BY <1>1, <1>2, <1>3, <1>4, <1>5, <1>6, <1>7, <1>8, <1>9, <1>10, <1>11, <1>12
        DEF Step, Fault

\* No step touches the lock file of another live operation, and what was taken
\* for dead is dead.
LEMMA LockStep ==
  ASSUME Typed, Honest, NEW o \in Operation, Step(o) \/ Fault(o)
  PROVE  Honest'
<1> USE ConstantsAssumption
    DEF Typed, TypeOK, Stage, LockFile, mem, Goto, Finish, Forget, Running,
        Honest, ActivePublished, Active, UnfinishedAlive, Over, StaleIsDead
<1>1. CASE Publish(o) BY <1>1 DEF Publish
<1>2. CASE List(o) BY <1>2 DEF List
<1>3. CASE Read(o) BY <1>3 DEF Read
<1>4. CASE Decide(o) BY <1>4 DEF Decide, IsStale
<1>5. CASE Clean(o) BY <1>5 DEF Clean
<1>6. CASE GiveWay(o) BY <1>6 DEF GiveWay
<1>7. CASE Wait(o) BY <1>7 DEF Wait
<1>8. CASE Abandon(o) BY <1>8 DEF Abandon
<1>9. CASE Release(o) BY <1>9 DEF Release
<1>10. CASE PublishFails(o) BY <1>10 DEF PublishFails
<1>11. CASE CleanFails(o) BY <1>11 DEF CleanFails
<1>12. CASE ReleaseFails(o) BY <1>12 DEF ReleaseFails
<1> QED BY <1>1, <1>2, <1>3, <1>4, <1>5, <1>6, <1>7, <1>8, <1>9, <1>10, <1>11, <1>12
        DEF Step, Fault

\* A scan becomes blind for q only when the lock of q is not there, and then q
\* is not blind: its own scan is still to come.
LEMMA SightStep ==
  ASSUME Typed, Honest, OneSeesTheOther, NEW o \in Operation, Step(o) \/ Fault(o)
  PROVE  OneSeesTheOther'
<1> USE ConstantsAssumption
    DEF Typed, TypeOK, Stage, LockFile, mem, Goto, Finish, Forget, Running,
        Honest, ActivePublished, Active, OneSeesTheOther, Blind
<1>1. CASE Publish(o) BY <1>1 DEF Publish
<1>2. CASE List(o) BY <1>2 DEF List
<1>3. CASE Read(o) BY <1>3 DEF Read
<1>4. CASE Decide(o) BY <1>4 DEF Decide
<1>5. CASE Clean(o) BY <1>5 DEF Clean
<1>6. CASE GiveWay(o) BY <1>6 DEF GiveWay
<1>7. CASE Wait(o) BY <1>7 DEF Wait
<1>8. CASE Abandon(o) BY <1>8 DEF Abandon
<1>9. CASE Release(o) BY <1>9 DEF Release
<1>10. CASE PublishFails(o) BY <1>10 DEF PublishFails
<1>11. CASE CleanFails(o) BY <1>11 DEF CleanFails
<1>12. CASE ReleaseFails(o) BY <1>12 DEF ReleaseFails
<1> QED BY <1>1, <1>2, <1>3, <1>4, <1>5, <1>6, <1>7, <1>8, <1>9, <1>10, <1>11, <1>12
        DEF Step, Fault

\* A death makes locks stale and ends operations; it opens no way in.
LEMMA DieInv ==
  ASSUME IInv, NEW p \in Process, Die(p)
  PROVE  IInv'
<1> USE ConstantsAssumption
    DEF IInv, Typed, TypeOK, PassesBounded, Stage, LockFile, Forget, Honest, ActivePublished,
        Active, UnfinishedAlive, Over, StaleIsDead, OneSeesTheOther, Blind, Die
<1>1. Typed'           OBVIOUS
<1>2. Honest'          OBVIOUS
<1>3. OneSeesTheOther' OBVIOUS
<1> QED BY <1>1, <1>2, <1>3

\* Every step keeps the invariant.
LEMMA StepInv == IInv /\ [Next]_vars => IInv'
<1> SUFFICES ASSUME IInv, [Next]_vars PROVE IInv'
  OBVIOUS
<1>1. ASSUME NEW o \in Operation, Step(o) \/ Fault(o) PROVE IInv'
  BY <1>1, TypeStep, LockStep, SightStep DEF IInv
<1>2. ASSUME NEW p \in Process, Die(p) PROVE IInv'
  BY <1>2, DieInv
<1>3. CASE UNCHANGED vars
  BY <1>3 DEF vars, mem, IInv, Typed, TypeOK, PassesBounded, Honest, ActivePublished, Active,
              UnfinishedAlive, StaleIsDead, OneSeesTheOther, Blind
<1> QED BY <1>1, <1>2, <1>3 DEF Next

\* Types; retries and cleanup passes stay within their bound (lock.ts).
THEOREM TypeCorrect == Spec => []TypeOK
<1>1. IInv => TypeOK
  BY DEF IInv, Typed
<1> QED BY <1>1, InitInv, StepInv, PTL DEF Spec

\* At most one operation is in the critical section (acquireLock), for any
\* processes and machines, deaths, failures and cleanups.
THEOREM Exclusion == Spec => []MutualExclusion
<1>1. IInv => MutualExclusion
  BY DEF IInv, OneSeesTheOther, Blind, MutualExclusion
<1> QED BY <1>1, InitInv, StepInv, PTL DEF Spec

\* Nobody steals a lock (removeExactStaleLock): it goes through its own
\* operation, or when its process is dead on the machine of who removes it.
THEOREM NobodySteals == Spec => OnlyDeadLocksAreRemoved
<1> DEFINE Fair(l) ==
      /\ l # Legacy
      /\ \/ pc'[l] # pc[l]
         \/ /\ ProcessOf[l] \notin alive
            /\ \E o \in Operation : l \in stale[o] /\ SameHost(o, l)
<1>1. IInv /\ [Next]_vars => [\A l \in locks \ locks' : Fair(l)]_vars
  <2> SUFFICES ASSUME IInv, Next, NEW l \in locks \ locks' PROVE Fair(l)
    OBVIOUS
  <2> USE ConstantsAssumption DEF IInv, Typed, TypeOK, LockFile, Goto, Finish, Running
  <2>1. CASE \E o \in Operation : Clean(o)
    BY <2>1 DEF Clean, Honest, StaleIsDead
  <2>2. CASE \E o \in Operation : GiveWay(o) \/ Abandon(o) \/ Release(o)
    BY <2>2 DEF GiveWay, Abandon, Release
  <2>3. CASE \E o \in Operation : \/ Publish(o) \/ List(o) \/ Read(o) \/ Decide(o) \/ Wait(o)
                                 \/ Fault(o)
    BY <2>3 DEF Publish, List, Read, Decide, Wait, Fault, PublishFails, CleanFails, ReleaseFails
  <2>4. CASE \E p \in Process : Die(p)
    BY <2>4 DEF Die
  <2> QED BY <2>1, <2>2, <2>3, <2>4 DEF Next, Step
<1> QED BY <1>1, InitInv, StepInv, PTL DEF Spec, OnlyDeadLocksAreRemoved

------------------------------------------------------------------------------
(* The queue of automatic runs: AutomaticRun *)

InTurn == {"queued"} \cup Inside

AutoTyped ==
  /\ at \in [Run -> {"idle", "resolving", "returned"} \cup InTurn]
  /\ place \in [Run -> Directory]
  /\ previous \in [Run -> Run \cup {Nobody}]
  /\ tail \in [Directory -> Run \cup {Nobody}]
  /\ line \in [Directory -> Seq(Run)]

\* The line of a directory holds the runs that are in turn there, once each.
InLine ==
  /\ \A d \in Directory : \A i \in 1..Len(line[d]) :
       /\ place[line[d][i]] = d /\ at[line[d][i]] \in InTurn
       /\ \A j \in 1..Len(line[d]) : line[d][i] = line[d][j] => i = j
  /\ \A r \in Run : at[r] \in InTurn => \E i \in 1..Len(line[place[r]]) : line[place[r]][i] = r

\* Each waits for the one before it, and the head for nobody who could still
\* be there.
Chained ==
  \A d \in Directory : \A i \in 1..Len(line[d]) :
    /\ i > 1 => at[line[d][i]] = "queued" /\ previous[line[d][i]] = line[d][i - 1]
    /\ i = 1 /\ previous[line[d][i]] # Nobody => at[previous[line[d][i]]] = "returned"

\* The entry of a directory is its last phase.
TailIsLast ==
  \A d \in Directory : tail[d] = IF line[d] = <<>> THEN Nobody ELSE line[d][Len(line[d])]

AutoInv == AutoTyped /\ InLine /\ Chained /\ TailIsLast

\* A sequence with an element more, or one less.
LEMMA AppendFacts ==
  ASSUME NEW S, NEW s \in Seq(S), NEW e \in S, NEW n, n = Len(s)
  PROVE  /\ n \in Nat /\ Append(s, e) \in Seq(S) /\ Append(s, e) # <<>>
         /\ Len(Append(s, e)) = n + 1 /\ Append(s, e)[n + 1] = e
         /\ \A i \in 1..n : Append(s, e)[i] = s[i] /\ s[i] \in S
         /\ \A i \in 1..(n + 1) : i \in 1..n \/ i = n + 1
<1>1. n \in Nat /\ Append(s, e) \in Seq(S) /\ Len(Append(s, e)) = n + 1
  OBVIOUS
<1>2. Append(s, e)[n + 1] = e /\ \A i \in 1..n : Append(s, e)[i] = s[i] /\ s[i] \in S
  OBVIOUS
<1>3. Append(s, e) # <<>>
  BY <1>1
<1>4. \A i \in 1..(n + 1) : i \in 1..n \/ i = n + 1
  BY <1>1
<1>. QED
  BY <1>1, <1>2, <1>3, <1>4

LEMMA TailFacts ==
  ASSUME NEW S, NEW s \in Seq(S), s # <<>>, NEW n, n = Len(s)
  PROVE  /\ n \in Nat /\ n > 0 /\ Tail(s) \in Seq(S) /\ Len(Tail(s)) = n - 1
         /\ \A i \in 1..(n - 1) : i + 1 \in 1..n /\ Tail(s)[i] = s[i + 1]
         /\ n = 1 => Tail(s) = <<>>
         /\ n # 1 => n - 1 \in 1..(n - 1) /\ Tail(s)[n - 1] = s[n] /\ Tail(s) # <<>>
<1>1. n \in Nat /\ n > 0 /\ Tail(s) \in Seq(S) /\ Len(Tail(s)) = n - 1
  OBVIOUS
<1>2. \A i \in 1..(n - 1) : i + 1 \in 1..n /\ Tail(s)[i] = s[i + 1]
  BY <1>1
<1>3. n = 1 => Tail(s) = <<>>
  <2>1. \A t \in Seq(S) : t # <<>> => Len(t) # 0
    BY EmptySeq
  <2>2. n = 1 => Len(Tail(s)) = 0
    BY <1>1
  <2>. QED
    BY <1>1, <2>1, <2>2, Zenon
<1>4. n # 1 => n - 1 \in 1..(n - 1) /\ (n - 1) + 1 = n
  BY <1>1
<1>5. n # 1 => Tail(s)[n - 1] = s[n]
  BY <1>2, <1>4
<1>6. n # 1 => Tail(s) # <<>>
  BY <1>1
<1>. QED
  BY <1>1, <1>2, <1>3, <1>4, <1>5, <1>6

LEMMA AutoInitInv == AutoInit => AutoInv
BY DEF AutoInit, AutoInv, AutoTyped, InLine, Chained, TailIsLast, InTurn, Inside, Callbacks

\* Who is in a line is a run in turn there.
LEMMA LineFacts ==
  ASSUME AutoInv, NEW e \in Directory
  PROVE  /\ line[e] \in Seq(Run) /\ Len(line[e]) \in Nat
         /\ \A i \in 1..Len(line[e]) :
              line[e][i] \in Run /\ place[line[e][i]] = e /\ at[line[e][i]] \in InTurn
<1>1. line[e] \in Seq(Run)
  BY DEF AutoInv, AutoTyped
<1>2. Len(line[e]) \in Nat /\ \A i \in 1..Len(line[e]) : line[e][i] \in Run
  BY <1>1
<1>3. \A i \in 1..Len(line[e]) : place[line[e][i]] = e /\ at[line[e][i]] \in InTurn
  BY DEF AutoInv, InLine
<1>. QED
  BY <1>1, <1>2, <1>3

\* A run that is not in line, or stays where it is there.
LEMMA MoveKeeps ==
  ASSUME AutoInv, NEW r \in Run, NEW there,
         at' = [at EXCEPT ![r] = there], UNCHANGED <<place, previous, tail, line>>,
         \/ at[r] \notin InTurn /\ there \in {"resolving", "returned"} /\ at[r] # "returned"
         \/ at[r] \in Inside /\ there \in Inside
  PROVE  AutoInv'
<1> USE DEF AutoInv
<1>1. AutoTyped'
  BY DEF AutoTyped, InTurn
<1>2. \A q \in Run : /\ at'[q] \in InTurn <=> at[q] \in InTurn
                     /\ at[q] = "returned" => at'[q] = "returned"
                     /\ at[q] = "queued" => at'[q] = "queued"
  BY DEF AutoTyped, InTurn, Inside, Callbacks
<1>3. \A d \in Directory : \A i \in 1..Len(line[d]) : line[d][i] \in Run
  BY DEF AutoTyped
<1>4. InLine'
  BY <1>2, <1>3 DEF InLine, AutoTyped
<1>5. Chained'
  BY <1>2, <1>3 DEF Chained, AutoTyped
<1>6. TailIsLast'
  BY DEF TailIsLast
<1>. QED
  BY <1>1, <1>4, <1>5, <1>6

\* Who queues up comes last, and waits for who was last.
LEMMA QueueKeeps == ASSUME AutoInv, Nobody \notin Run, NEW r \in Run, Queue(r) PROVE AutoInv'
<1> DEFINE d == place[r]
           n == Len(line[d])
<1>0. d \in Directory /\ n \in Nat /\ n = Len(line[d])
  BY LineFacts DEF AutoInv, AutoTyped
<1>1. /\ d \in Directory /\ line[d] \in Seq(Run) /\ n \in Nat /\ at[r] = "resolving"
      /\ at' = [at EXCEPT ![r] = "queued"] /\ previous' = [previous EXCEPT ![r] = tail[d]]
      /\ tail' = [tail EXCEPT ![d] = r] /\ line' = [line EXCEPT ![d] = Append(line[d], r)]
      /\ UNCHANGED place
      /\ place[r] = d /\ n = Len(line[d])
  BY DEF AutoInv, AutoTyped, Queue
<1> HIDE DEF d, n
<1>2. AutoTyped'
  BY <1>1 DEF AutoInv, AutoTyped, InTurn
<1>3. /\ Len(line'[d]) = n + 1 /\ line'[d][n + 1] = r
      /\ \A i \in 1..n : line'[d][i] = line[d][i] /\ line[d][i] \in Run /\ line[d][i] # r
      /\ \A e \in Directory : e # d => line'[e] = line[e]
      /\ \A e \in Directory : \A i \in 1..Len(line[e]) : line[e][i] \in Run /\ line[e][i] # r
      /\ \A i \in 1..(n + 1) : i \in 1..n \/ i = n + 1
  <2>1. \A e \in Directory : \A i \in 1..Len(line[e]) : line[e][i] \in Run /\ line[e][i] # r
    <3>1. at[r] \notin InTurn
      BY <1>1 DEF InTurn, Inside, Callbacks
    <3>. QED
      BY <3>1, LineFacts
  <2>2. line'[d] = Append(line[d], r) /\ \A e \in Directory : e # d => line'[e] = line[e]
    BY <1>1 DEF AutoInv, AutoTyped
  <2>3. Len(line'[d]) = n + 1 /\ line'[d][n + 1] = r /\ \A i \in 1..n : line'[d][i] = line[d][i]
    BY <1>1, <2>2, AppendFacts
  <2>4. \A i \in 1..n : line[d][i] \in Run /\ line[d][i] # r
    BY <1>0, <2>1
  <2>5. \A i \in 1..(n + 1) : i \in 1..n \/ i = n + 1
    BY <1>0
  <2>. QED
    BY <2>1, <2>2, <2>3, <2>4, <2>5
<1>4. \A q \in Run : q # r => at'[q] = at[q] /\ previous'[q] = previous[q]
  BY <1>1 DEF AutoInv, AutoTyped
<1>5. at'[r] = "queued" /\ previous'[r] = tail[d]
  BY <1>1 DEF AutoInv, AutoTyped
<1>6. InLine'
  <2>1. ASSUME NEW e \in Directory, NEW i \in 1..Len(line'[e])
        PROVE  /\ place[line'[e][i]] = e /\ at'[line'[e][i]] \in InTurn
               /\ \A j \in 1..Len(line'[e]) : line'[e][i] = line'[e][j] => i = j
    <3>1. CASE e # d
      BY <1>1, <1>3, <1>4, <3>1 DEF AutoInv, InLine
    <3>2. CASE e = d /\ i \in 1..n
      BY <1>1, <1>3, <1>4, <3>2 DEF AutoInv, InLine
    <3>3. CASE e = d /\ i = n + 1
      BY <1>1, <1>3, <1>5, <3>3 DEF InTurn
    <3>. QED
      BY <1>3, <3>1, <3>2, <3>3
  <2>2. ASSUME NEW q \in Run, at'[q] \in InTurn
        PROVE  \E i \in 1..Len(line'[place[q]]) : line'[place[q]][i] = q
    <3>1. CASE q = r
      BY <1>1, <1>3, <3>1
    <3>2. CASE q # r
      <4>1. PICK i \in 1..Len(line[place[q]]) : line[place[q]][i] = q
        BY <1>4, <2>2, <3>2 DEF AutoInv, InLine
      <4>2. i \in 1..Len(line'[place[q]]) /\ line'[place[q]][i] = q
        BY <1>1, <1>3, <4>1 DEF AutoInv, AutoTyped
      <4>. QED
        BY <4>2
    <3>. QED
      BY <3>1, <3>2
  <2>. QED
    BY <1>1, <2>1, <2>2 DEF InLine
<1>7. Chained'
  <2> SUFFICES ASSUME NEW e \in Directory, NEW i \in 1..Len(line'[e])
      PROVE  /\ i > 1 => at'[line'[e][i]] = "queued" /\ previous'[line'[e][i]] = line'[e][i - 1]
             /\ i = 1 /\ previous'[line'[e][i]] # Nobody => at'[previous'[line'[e][i]]] = "returned"
    BY DEF Chained
  <2>0. \A q \in Run : at[q] = "returned" => at'[q] = "returned"
    BY <1>1, <1>4
  <2>1. CASE e # d
    <3>1. line'[e] = line[e] /\ line[e][i] \in Run /\ line[e][i] # r
      BY <1>3, <2>1
    <3>. QED
      BY <1>4, <2>0, <2>1, <3>1 DEF AutoInv, AutoTyped, Chained
  <2>2. CASE e = d /\ i \in 1..n
    <3>1. line'[e][i] = line[e][i] /\ line[e][i] \in Run /\ line[e][i] # r
          /\ (i > 1 => line'[e][i - 1] = line[e][i - 1])
      BY <1>1, <1>3, <2>2
    <3>2. at'[line[e][i]] = at[line[e][i]] /\ previous'[line[e][i]] = previous[line[e][i]]
      BY <1>4, <3>1
    <3>3. previous[line[e][i]] \in Run \cup {Nobody}
      BY <3>1 DEF AutoInv, AutoTyped
    <3>4. /\ i > 1 => at[line[e][i]] = "queued" /\ previous[line[e][i]] = line[e][i - 1]
          /\ i = 1 /\ previous[line[e][i]] # Nobody => at[previous[line[e][i]]] = "returned"
      BY <1>1, <2>2 DEF AutoInv, Chained
    <3>. QED
      BY <2>0, <3>1, <3>2, <3>3, <3>4
  <2>3. CASE e = d /\ i = n + 1
    <3>1. CASE n = 0
      BY <1>1, <1>3, <1>5, <2>3, <3>1 DEF AutoInv, TailIsLast
    <3>2. CASE n > 0
      <4>1. tail[d] = line[d][n] /\ line'[d][n] = line[d][n]
        BY <1>1, <1>3, <3>2 DEF AutoInv, TailIsLast
      <4>. QED
        BY <1>1, <1>3, <1>5, <2>3, <3>2, <4>1
    <3>. QED
      BY <1>1, <3>1, <3>2
  <2>. QED
    BY <1>3, <2>1, <2>2, <2>3
<1>8. TailIsLast'
  <2>1. ASSUME NEW e \in Directory
        PROVE  tail'[e] = IF line'[e] = <<>> THEN Nobody ELSE line'[e][Len(line'[e])]
    <3>1. CASE e = d
      <4>1. tail'[d] = r
        BY <1>1 DEF AutoInv, AutoTyped
      <4>2. line'[d] = Append(line[d], r)
        BY <1>1 DEF AutoInv, AutoTyped
      <4>3. line'[d] # <<>>
        BY <1>1, <4>2, AppendFacts
      <4>4. Len(line'[d]) = n + 1 /\ line'[d][n + 1] = r
        BY <1>3
      <4>. QED
        BY <3>1, <4>1, <4>3, <4>4
    <3>2. CASE e # d
      BY <1>1, <1>3, <3>2 DEF AutoInv, AutoTyped, TailIsLast
    <3>. QED
      BY <3>1, <3>2
  <2>. QED
    BY <2>1 DEF TailIsLast
<1>. QED
  BY <1>2, <1>6, <1>7, <1>8 DEF AutoInv

\* Who enters is the head of its line, and nobody is at work there.
LEMMA HeadEnters ==
  ASSUME AutoInv, Nobody \notin Run, NEW r \in Run, Enter(r)
  PROVE  /\ line[place[r]] # <<>> /\ Head(line[place[r]]) = r
         /\ \A q \in Run : ~(place[q] = place[r] /\ at[q] \in Inside)
<1> DEFINE d == place[r]
<1>1. d \in Directory /\ line[d] \in Seq(Run) /\ at[r] = "queued" /\ at[r] \in InTurn
  BY DEF AutoInv, AutoTyped, Enter, InTurn
<1>2. PICK i \in 1..Len(line[d]) : line[d][i] = r
  BY <1>1 DEF AutoInv, InLine
<1>3. i = 1
  <2> SUFFICES ASSUME i > 1 PROVE FALSE
    BY <1>1
  <2>1. previous[r] = line[d][i - 1] /\ i - 1 \in 1..Len(line[d])
    BY <1>1, <1>2 DEF AutoInv, Chained
  <2>2. previous[r] \in Run /\ at[previous[r]] \in InTurn
    BY <1>1, <2>1 DEF AutoInv, InLine
  <2>. QED
    BY <2>2 DEF Enter, InTurn, Inside, Callbacks
<1>4. ASSUME NEW q \in Run, place[q] = d, at[q] \in Inside PROVE FALSE
  <2>1. PICK j \in 1..Len(line[d]) : line[d][j] = q
    BY <1>4 DEF AutoInv, InLine, InTurn
  <2>2. CASE j = 1
    BY <1>1, <1>2, <1>3, <1>4, <2>1, <2>2 DEF Inside, Callbacks
  <2>3. CASE j > 1
    BY <1>1, <1>4, <2>1, <2>3 DEF AutoInv, Chained, Inside, Callbacks
  <2>. QED
    BY <1>1, <2>2, <2>3
<1>. QED
  BY <1>1, <1>2, <1>3, <1>4

LEMMA EnterKeeps == ASSUME AutoInv, Nobody \notin Run, NEW r \in Run, Enter(r) PROVE AutoInv'
<1>1. /\ at' = [at EXCEPT ![r] = "locking"] /\ at[r] = "queued" /\ place[r] \in Directory
      /\ UNCHANGED <<place, previous, tail, line>>
  BY DEF Enter, AutoInv, AutoTyped
<1>2. AutoTyped'
  BY <1>1 DEF AutoInv, AutoTyped, InTurn, Inside
<1>3. \A q \in Run : /\ at'[q] \in InTurn <=> at[q] \in InTurn
                     /\ at[q] = "returned" => at'[q] = "returned"
                     /\ q # r => at'[q] = at[q]
  BY <1>1 DEF AutoInv, AutoTyped, InTurn, Inside
<1>4. \A d \in Directory : \A i \in 1..Len(line[d]) : line[d][i] \in Run
  BY DEF AutoInv, AutoTyped
<1>5. InLine'
  <2>1. UNCHANGED <<place, line>>
    BY <1>1
  <2>. QED
    BY <1>3, <1>4, <2>1 DEF AutoInv, InLine
<1>6. Chained'
  <2> SUFFICES ASSUME NEW d \in Directory, NEW i \in 1..Len(line[d])
      PROVE  /\ i > 1 => at'[line[d][i]] = "queued" /\ previous[line[d][i]] = line[d][i - 1]
             /\ i = 1 /\ previous[line[d][i]] # Nobody => at'[previous[line[d][i]]] = "returned"
    BY <1>1 DEF Chained
  <2>1. /\ i > 1 => at[line[d][i]] = "queued" /\ previous[line[d][i]] = line[d][i - 1]
        /\ i = 1 /\ previous[line[d][i]] # Nobody => at[previous[line[d][i]]] = "returned"
    BY DEF AutoInv, Chained
  <2>2. line[d][i] \in Run /\ previous[line[d][i]] \in Run \cup {Nobody}
    BY <1>4 DEF AutoInv, AutoTyped
  <2>3. i > 1 => line[d][i] # r
    <3>1. line[place[r]] \in Seq(Run) /\ line[place[r]] # <<>> /\ line[place[r]][1] = r
      BY <1>1, HeadEnters DEF AutoInv, AutoTyped
    <3>2. 1 \in 1..Len(line[place[r]])
      BY <3>1
    <3>. QED
      BY <1>1, <3>1, <3>2 DEF AutoInv, InLine
  <2>. QED
    BY <1>3, <2>1, <2>2, <2>3
<1>7. TailIsLast'
  BY <1>1 DEF AutoInv, TailIsLast
<1>. QED
  BY <1>2, <1>5, <1>6, <1>7 DEF AutoInv

\* Who is at work is the head of its line, alone.
LEMMA HeadWorks ==
  ASSUME AutoInv, NEW r \in Run, at[r] \in Inside
  PROVE  /\ place[r] \in Directory /\ line[place[r]] \in Seq(Run) /\ line[place[r]] # <<>>
         /\ line[place[r]][1] = r
         /\ \A q \in Run : place[q] = place[r] /\ at[q] \in Inside => q = r
<1>1. place[r] \in Directory /\ line[place[r]] \in Seq(Run)
  BY DEF AutoInv, AutoTyped
<1>2. ASSUME NEW q \in Run, place[q] = place[r], at[q] \in Inside
      PROVE  line[place[r]] # <<>> /\ line[place[r]][1] = q
  <2>1. PICK i \in 1..Len(line[place[r]]) : line[place[r]][i] = q
    BY <1>2 DEF AutoInv, InLine, InTurn
  <2>2. i = 1
    BY <1>1, <1>2, <2>1 DEF AutoInv, Chained, Inside, Callbacks
  <2>. QED
    BY <1>1, <2>1, <2>2
<1>. QED
  BY <1>1, <1>2

\* The next in line waits for one that has left.
LEMMA LeaveKeeps ==
  ASSUME AutoInv, Nobody \notin Run, NEW r \in Run, at[r] \in Inside, Leave(r),
         UNCHANGED <<place, previous>>
  PROVE  AutoInv'
<1> DEFINE d == place[r]
           n == Len(line[d])
<1>0. d \in Directory /\ n \in Nat /\ n > 0 /\ n = Len(line[d]) /\ line[d] \in Seq(Run) /\ line[d] # <<>>
  BY HeadWorks
<1>1. /\ d \in Directory /\ line[d] \in Seq(Run) /\ n \in Nat /\ n > 0 /\ line[d][1] = r
      /\ at' = [at EXCEPT ![r] = "returned"] /\ line' = [line EXCEPT ![d] = Tail(line[d])]
      /\ tail' = [tail EXCEPT ![d] = IF tail[d] = r THEN Nobody ELSE tail[d]]
      /\ place[r] = d /\ n = Len(line[d]) /\ line[d] # <<>>
  BY HeadWorks DEF Leave, ForgetTail
<1> HIDE DEF d, n
<1>2. /\ line'[d] = Tail(line[d]) /\ line'[d] \in Seq(Run) /\ Len(line'[d]) = n - 1
      /\ \A i \in 1..(n - 1) : line'[d][i] = line[d][i + 1]
      /\ \A e \in Directory : e # d => line'[e] = line[e]
  <2>1. line'[d] = Tail(line[d]) /\ \A e \in Directory : e # d => line'[e] = line[e]
    BY <1>1 DEF AutoInv, AutoTyped
  <2>2. Len(Tail(line[d])) = n - 1 /\ Tail(line[d]) \in Seq(Run)
    BY <1>0, TailFacts
  <2>3. \A i \in 1..(n - 1) : Tail(line[d])[i] = line[d][i + 1]
    BY <1>0, TailFacts
  <2>. QED
    BY <2>1, <2>2, <2>3
<1>3. /\ at'[r] = "returned" /\ \A q \in Run : q # r => at'[q] = at[q]
  BY <1>1 DEF AutoInv, AutoTyped
<1>4. AutoTyped'
  BY <1>1, <1>2 DEF AutoInv, AutoTyped, InTurn
<1>5. ASSUME NEW e \in Directory, NEW i \in 1..Len(line'[e])
      PROVE  \E k \in 1..Len(line[e]) :
               /\ line'[e][i] = line[e][k] /\ line[e][k] \in Run \ {r}
               /\ k = IF e = d THEN i + 1 ELSE i
  <2>1. CASE e = d
    <3>1. i \in 1..(n - 1) /\ i + 1 \in 1..n /\ 1 \in 1..n /\ i + 1 # 1
      BY <1>1, <1>2, <2>1
    <3>2. i + 1 \in 1..Len(line[d]) /\ 1 \in 1..Len(line[d])
      BY <1>0, <3>1
    <3>3. line[d][i + 1] # r /\ line[d][i + 1] \in Run
      <4>1. line[d][i + 1] # line[d][1]
        BY <1>0, <3>1, <3>2 DEF AutoInv, InLine
      <4>. QED
        BY <1>0, <1>1, <3>2, <4>1, LineFacts
    <3>4. line'[d][i] = line[d][i + 1]
      BY <1>2, <3>1
    <3>. QED
      BY <2>1, <3>2, <3>3, <3>4
  <2>2. CASE e # d
    <3>1. line'[e] = line[e] /\ line[e][i] \in Run
      BY <1>2, <2>2 DEF AutoInv, AutoTyped
    <3>2. line[e][i] # r
      BY <1>1, <2>2, <3>1, LineFacts
    <3>. QED
      BY <2>2, <3>1, <3>2
  <2>. QED
    BY <2>1, <2>2
<1>6. InLine'
  <2>1. ASSUME NEW e \in Directory, NEW i \in 1..Len(line'[e])
        PROVE  /\ place[line'[e][i]] = e /\ at'[line'[e][i]] \in InTurn
               /\ \A j \in 1..Len(line'[e]) : line'[e][i] = line'[e][j] => i = j
    <3>1. PICK k \in 1..Len(line[e]) : /\ line'[e][i] = line[e][k] /\ line[e][k] \in Run \ {r}
                                       /\ k = IF e = d THEN i + 1 ELSE i
      BY <1>5
    <3>2. ASSUME NEW j \in 1..Len(line'[e]), line'[e][i] = line'[e][j] PROVE i = j
      <4>1. PICK m \in 1..Len(line[e]) : line'[e][j] = line[e][m] /\ m = IF e = d THEN j + 1 ELSE j
        BY <1>5
      <4>2. k = m
        BY <3>1, <3>2, <4>1 DEF AutoInv, InLine
      <4>. QED
        BY <1>2, <3>1, <4>1, <4>2
    <3>. QED
      BY <1>3, <3>1, <3>2 DEF AutoInv, InLine
  <2>2. ASSUME NEW q \in Run, at'[q] \in InTurn
        PROVE  \E i \in 1..Len(line'[place[q]]) : line'[place[q]][i] = q
    <3>1. q # r /\ at'[q] = at[q] /\ place[q] \in Directory
      BY <1>3, <2>2 DEF InTurn, Inside, Callbacks, AutoInv, AutoTyped
    <3>2. PICK k \in 1..Len(line[place[q]]) : line[place[q]][k] = q
      BY <2>2, <3>1 DEF AutoInv, InLine
    <3>3. CASE place[q] = d
      <4>1. k # 1 /\ k - 1 \in 1..(n - 1)
        BY <1>1, <3>1, <3>2, <3>3
      <4>2. line'[d][k - 1] = line[d][(k - 1) + 1] /\ (k - 1) + 1 = k
        BY <1>2, <4>1
      <4>. QED
        BY <1>2, <3>2, <3>3, <4>1, <4>2
    <3>4. CASE place[q] # d
      BY <1>2, <3>1, <3>2, <3>4
    <3>. QED
      BY <3>3, <3>4
  <2>. QED
    BY <2>1, <2>2 DEF InLine
<1>7. Chained'
  <2>1. ASSUME NEW e \in Directory, NEW i \in 1..Len(line'[e])
        PROVE  /\ i > 1 => at'[line'[e][i]] = "queued" /\ previous[line'[e][i]] = line'[e][i - 1]
               /\ i = 1 /\ previous[line'[e][i]] # Nobody => at'[previous[line'[e][i]]] = "returned"
    <3>1. PICK k \in 1..Len(line[e]) : /\ line'[e][i] = line[e][k] /\ line[e][k] \in Run \ {r}
                                       /\ k = IF e = d THEN i + 1 ELSE i
      BY <1>5
    <3>2. /\ k > 1 => at[line[e][k]] = "queued" /\ previous[line[e][k]] = line[e][k - 1]
          /\ k = 1 /\ previous[line[e][k]] # Nobody => at[previous[line[e][k]]] = "returned"
          /\ previous[line[e][k]] \in Run \cup {Nobody}
      <4>1. previous[line[e][k]] \in Run \cup {Nobody}
        BY <3>1 DEF AutoInv, AutoTyped
      <4>. QED
        BY <4>1 DEF AutoInv, Chained
    <3>3. at'[line[e][k]] = at[line[e][k]]
      BY <1>3, <3>1
    <3>4. CASE e = d
      <4>1. i \in 1..(n - 1) /\ k = i + 1
        BY <1>2, <3>1, <3>4
      <4>2. CASE i = 1
        BY <1>1, <1>3, <3>1, <3>2, <3>4, <4>1, <4>2
      <4>3. CASE i > 1
        <5>1. i - 1 \in 1..(n - 1) /\ k - 1 = (i - 1) + 1
          BY <1>1, <4>1, <4>3
        <5>2. line'[d][i - 1] = line[d][k - 1]
          BY <1>2, <5>1
        <5>. QED
          BY <3>1, <3>2, <3>3, <3>4, <4>1, <4>3, <5>2
      <4>. QED
        BY <4>1, <4>2, <4>3
    <3>5. CASE e # d
      <4>1. line'[e] = line[e] /\ k = i
        BY <1>2, <3>1, <3>5
      <4>2. at[r] # "returned"
        BY DEF Inside, Callbacks
      <4>. QED
        BY <1>3, <3>1, <3>2, <3>3, <4>1, <4>2
    <3>. QED
      BY <3>4, <3>5
  <2>. QED
    BY <2>1 DEF Chained
<1>8. TailIsLast'
  <2>1. ASSUME NEW e \in Directory
        PROVE  tail'[e] = IF line'[e] = <<>> THEN Nobody ELSE line'[e][Len(line'[e])]
    <3>1. CASE e # d
      BY <1>1, <1>2, <3>1 DEF AutoInv, AutoTyped, TailIsLast
    <3>2. CASE e = d
      <4>1. tail[d] = line[d][n]
        BY <1>1 DEF AutoInv, TailIsLast
      <4>2. tail'[d] = IF tail[d] = r THEN Nobody ELSE tail[d]
        BY <1>1 DEF AutoInv, AutoTyped
      <4>3. CASE n = 1
        <5>1. line'[d] = <<>>
          BY <1>1, <1>2, <4>3, TailFacts
        <5>. QED
          BY <1>1, <3>2, <4>1, <4>2, <4>3, <5>1
      <4>4. CASE n > 1
        <5>1. 1 \in 1..Len(line[d]) /\ n \in 1..Len(line[d]) /\ n # 1
          <6>1. n \in Nat
            BY <1>0
          <6>2. 1 \in 1..n /\ n \in 1..n /\ n # 1
            BY <6>1, <4>4
          <6>. QED
            BY <1>0, <6>2
        <5>2. line[d][n] # line[d][1]
          BY <1>0, <5>1 DEF AutoInv, InLine
        <5>3. line[d][n] # r
          BY <1>1, <5>2
        <5>4. Tail(line[d])[n - 1] = line[d][n] /\ Tail(line[d]) # <<>>
          BY <1>0, <5>1, TailFacts
        <5>5. line'[d] = Tail(line[d]) /\ Len(line'[d]) = n - 1
          BY <1>2
        <5>. QED
          BY <3>2, <4>1, <4>2, <5>3, <5>4, <5>5
      <4>5. n = 1 \/ n > 1
        <5>1. n \in Nat /\ n > 0
          BY <1>0
        <5>. QED
          BY <5>1
      <4>. QED
        BY <4>3, <4>4, <4>5
    <3>. QED
      BY <3>1, <3>2
  <2>. QED
    BY <2>1 DEF TailIsLast
<1>. QED
  BY <1>4, <1>6, <1>7, <1>8 DEF AutoInv

\* What else a run does: it moves among the places of a run at work, it leaves,
\* or it is not in line.
LEMMA OtherSteps ==
  ASSUME AutoInv, NEW r \in Run,
         \/ Invalid(r) \/ Lock(r) \/ Maintained(r) \/ TimesOut(r) \/ Unlock(r) \/ Completed(r)
         \/ Ask(r) \/ Summarised(r) \/ \E s \in Run \cup {Nobody} : Call(r, s)
  PROVE  /\ UNCHANGED <<place, previous>>
         /\ \/ at[r] \in Inside /\ Leave(r)
            \/ /\ UNCHANGED <<tail, line>>
               /\ \E there : /\ at' = [at EXCEPT ![r] = there]
                             /\ \/ /\ at[r] \notin InTurn /\ at[r] # "returned"
                                   /\ there \in {"resolving", "returned"}
                                \/ at[r] \in Inside /\ there \in Inside
<1> USE DEF InTurn, Inside, Callbacks
<1>1. CASE Invalid(r)    BY <1>1 DEF Invalid
<1>2. CASE Lock(r)       BY <1>2 DEF Lock
<1>3. CASE Maintained(r) BY <1>3 DEF Maintained
<1>4. CASE TimesOut(r)   BY <1>4 DEF TimesOut
<1>5. CASE Unlock(r)     BY <1>5 DEF Unlock
<1>6. CASE Completed(r)  BY <1>6 DEF Completed
<1>7. CASE Ask(r)        BY <1>7 DEF Ask
<1>8. CASE Summarised(r) BY <1>8 DEF Summarised
<1>9. CASE \E s \in Run \cup {Nobody} : Call(r, s)
  <2>1. PICK s \in Run \cup {Nobody} : Call(r, s)
    BY <1>9
  <2>2. at' = [at EXCEPT ![r] = "returned"] \/ at' = [at EXCEPT ![r] = "resolving"]
    BY <2>1 DEF Call
  <2>. QED
    BY <2>1, <2>2 DEF Call
<1>. QED
  BY <1>1, <1>2, <1>3, <1>4, <1>5, <1>6, <1>7, <1>8, <1>9

LEMMA AutoNextInv == ASSUME AutoInv, Nobody \notin Run, [AutoNext]_autoVars PROVE AutoInv'
<1>1. ASSUME NEW r \in Run, AutoStep(r) \/ Ask(r) \/ Summarised(r) \/ \E s \in Run \cup {Nobody} : Call(r, s)
      PROVE  AutoInv'
  <2>1. CASE Queue(r)
    BY <2>1, QueueKeeps
  <2>2. CASE Enter(r)
    BY <2>2, EnterKeeps
  <2>3. CASE ~Queue(r) /\ ~Enter(r)
    <3>1. /\ UNCHANGED <<place, previous>>
          /\ \/ at[r] \in Inside /\ Leave(r)
             \/ /\ UNCHANGED <<tail, line>>
                /\ \E there : /\ at' = [at EXCEPT ![r] = there]
                              /\ \/ /\ at[r] \notin InTurn /\ at[r] # "returned"
                                    /\ there \in {"resolving", "returned"}
                                 \/ at[r] \in Inside /\ there \in Inside
      BY <1>1, <2>3, OtherSteps DEF AutoStep
    <3>2. CASE at[r] \in Inside /\ Leave(r)
      BY <3>1, <3>2, LeaveKeeps
    <3>3. ASSUME UNCHANGED <<tail, line>>, NEW there, at' = [at EXCEPT ![r] = there],
                 \/ at[r] \notin InTurn /\ at[r] # "returned" /\ there \in {"resolving", "returned"}
                 \/ at[r] \in Inside /\ there \in Inside
          PROVE  AutoInv'
      BY <3>1, <3>3, MoveKeeps
    <3>. QED
      BY <3>1, <3>2, <3>3
  <2>. QED
    BY <2>1, <2>2, <2>3
<1>2. CASE UNCHANGED autoVars
  BY <1>2 DEF autoVars, AutoInv, AutoTyped, InLine, Chained, TailIsLast
<1>. QED
  BY <1>1, <1>2 DEF AutoNext

\* Who is at work, directory by directory, after a run has moved.
LEMMA WorkMoves ==
  ASSUME AutoInv, NEW r \in Run, NEW there, at' = [at EXCEPT ![r] = there], UNCHANGED place
  PROVE  /\ \A d \in Directory : d # place[r] => AtWork'[d] = AtWork[d]
         /\ place[r] \in Directory
         /\ there \in Inside => AtWork'[place[r]] = AtWork[place[r]] \cup {r}
         /\ there \notin Inside => AtWork'[place[r]] = AtWork[place[r]] \ {r}
BY DEF AutoInv, AutoTyped, AtWork

\* Every step of a run is an arrival, an entry, a leaving, or changes nothing
\* of the queue.
LEMMA StepQueues ==
  ASSUME AutoInv, Nobody \notin Run, [AutoNext]_autoVars
  PROVE  [Turns!Next]_(Turns!vars)
<1> USE DEF Turns!vars
<1>0. AtWork = [d \in Directory |-> AtWork[d]] /\ AtWork' = [d \in Directory |-> AtWork'[d]]
  BY DEF AtWork
<1>a. \A d \in Directory : \A q : q \in AtWork[d] <=> q \in Run /\ place[q] = d /\ at[q] \in Inside
  BY DEF AtWork
<1>b. \A there \in {"idle", "resolving", "queued", "returned"} : there \notin Inside
  BY DEF Inside, Callbacks
<1>1. ASSUME NEW r \in Run, AutoStep(r) \/ Ask(r) \/ Summarised(r) \/ \E s \in Run \cup {Nobody} : Call(r, s)
      PROVE  [Turns!Next]_(Turns!vars)
  <2>0. place[r] \in Directory
    BY DEF AutoInv, AutoTyped
  <2>1. CASE Queue(r)
    <3>1. at' = [at EXCEPT ![r] = "queued"] /\ UNCHANGED place /\ at[r] = "resolving"
      BY <2>1 DEF Queue
    <3>2. r \notin AtWork[place[r]]
      BY <1>a, <1>b, <2>0, <3>1
    <3>3. \A d \in Directory : AtWork'[d] = AtWork[d]
      <4>1. "queued" \notin Inside
        BY <1>b
      <4>2. /\ \A d \in Directory : d # place[r] => AtWork'[d] = AtWork[d]
            /\ AtWork'[place[r]] = AtWork[place[r]] \ {r}
        BY <3>1, <4>1, WorkMoves
      <4>. QED
        BY <3>2, <4>2
    <3>4. AtWork' = AtWork
      BY <1>0, <3>3
    <3>5. Turns!Arrive(place[r], r)
      BY <2>1, <3>4 DEF Queue, Turns!Arrive
    <3>. QED
      BY <2>0, <3>5 DEF Turns!Next
  <2>2. CASE Enter(r)
    <3>1. /\ line[place[r]] # <<>> /\ Head(line[place[r]]) = r /\ AtWork[place[r]] = {}
          /\ at' = [at EXCEPT ![r] = "locking"] /\ UNCHANGED <<place, line>>
      BY <2>0, <2>2, HeadEnters DEF Enter, AtWork
    <3>2. /\ \A d \in Directory : d # place[r] => AtWork'[d] = AtWork[d]
          /\ AtWork'[place[r]] = {r}
      BY <3>1, WorkMoves DEF Inside
    <3>3. AtWork' = [AtWork EXCEPT ![place[r]] = {r}]
      BY <1>0, <2>0, <3>2
    <3>4. Turns!Enter(place[r])
      BY <3>1, <3>3 DEF Turns!Enter
    <3>. QED
      BY <2>0, <3>4 DEF Turns!Next
  <2>3. CASE ~Queue(r) /\ ~Enter(r)
    <3>1. /\ UNCHANGED <<place, previous>>
          /\ \/ at[r] \in Inside /\ Leave(r)
             \/ /\ UNCHANGED <<tail, line>>
                /\ \E there : /\ at' = [at EXCEPT ![r] = there]
                              /\ \/ /\ at[r] \notin InTurn /\ at[r] # "returned"
                                    /\ there \in {"resolving", "returned"}
                                 \/ at[r] \in Inside /\ there \in Inside
      BY <1>1, <2>3, OtherSteps DEF AutoStep
    <3>2. CASE at[r] \in Inside /\ Leave(r)
      <4>1. AtWork[place[r]] = {r}
        BY <2>0, <3>2, HeadWorks DEF AtWork
      <4>2. at' = [at EXCEPT ![r] = "returned"]
        BY <3>2 DEF Leave
      <4>3. /\ \A d \in Directory : d # place[r] => AtWork'[d] = AtWork[d]
            /\ AtWork'[place[r]] = {}
        <5>1. "returned" \notin Inside /\ UNCHANGED place
          BY <1>b, <3>1
        <5>2. /\ \A d \in Directory : d # place[r] => AtWork'[d] = AtWork[d]
              /\ AtWork'[place[r]] = AtWork[place[r]] \ {r}
          BY <4>2, <5>1, WorkMoves
        <5>. QED
          BY <4>1, <5>2
      <4>4. AtWork' = [AtWork EXCEPT ![place[r]] = {}]
        BY <1>0, <2>0, <4>3
      <4>5. Turns!Leave(place[r])
        BY <3>2, <4>1, <4>4 DEF Leave, Turns!Leave
      <4>. QED
        BY <2>0, <4>5 DEF Turns!Next
    <3>3. ASSUME UNCHANGED <<tail, line>>, NEW there, at' = [at EXCEPT ![r] = there],
                 \/ at[r] \notin InTurn /\ at[r] # "returned" /\ there \in {"resolving", "returned"}
                 \/ at[r] \in Inside /\ there \in Inside
          PROVE  UNCHANGED <<line, AtWork>>
      <4>0. UNCHANGED place
        BY <3>1
      <4>m. /\ \A d \in Directory : d # place[r] => AtWork'[d] = AtWork[d]
            /\ there \in Inside => AtWork'[place[r]] = AtWork[place[r]] \cup {r}
            /\ there \notin Inside => AtWork'[place[r]] = AtWork[place[r]] \ {r}
        BY <3>3, <4>0, WorkMoves
      <4>1. CASE there \in Inside
        <5>1. r \in AtWork[place[r]]
          BY <1>a, <1>b, <2>0, <3>3, <4>1
        <5>2. \A d \in Directory : AtWork'[d] = AtWork[d]
          BY <4>1, <4>m, <5>1
        <5>. QED
          BY <1>0, <3>3, <5>2
      <4>2. CASE there \notin Inside
        <5>1. r \notin AtWork[place[r]]
          BY <1>a, <2>0, <3>3, <4>2 DEF InTurn
        <5>2. \A d \in Directory : AtWork'[d] = AtWork[d]
          BY <4>2, <4>m, <5>1
        <5>. QED
          BY <1>0, <3>3, <5>2
      <4>. QED
        BY <4>1, <4>2
    <3>. QED
      BY <3>1, <3>2, <3>3
  <2>. QED
    BY <2>1, <2>2, <2>3
<1>2. CASE UNCHANGED autoVars
  BY <1>2 DEF autoVars, AtWork
<1>. QED
  BY <1>1, <1>2 DEF AutoNext

\* Automatic runs of one process take turns: whoever calls whom and whatever
\* fails, the phases of a directory are at work one at a time and in the order
\* they queued up (serializeOrchestratorPhase).
THEOREM OneAtATimeInOrder == ASSUME Nobody \notin Run PROVE AutoSpec => Turns!SafeSpec
<1>1. AutoInit => Turns!Init
  BY DEF AutoInit, Turns!Init, AtWork, Inside, Callbacks
<1>2. AutoInv /\ [AutoNext]_autoVars => AutoInv' /\ [Turns!Next]_(Turns!vars)
  BY AutoNextInv, StepQueues
<1>. QED
  BY <1>1, <1>2, AutoInitInv, PTL DEF AutoSpec, Turns!SafeSpec
==============================================================================
