------------------------- MODULE ReactSession_proofs -------------------------
(***************************************************************************)
(* The properties of ReactSession, proved for every max_step, every set of  *)
(* carryovers and every number of messages, deltas and frames.              *)
(*                                                                         *)
(* The inductive invariant has a part per concern: what the reason to stop  *)
(* allows at each point (MachineInv), which observations lie in the work    *)
(* directory (RetentionInv), how the frames that the child wrote are split   *)
(* between the pipe and the reader (PipeInv), how the session ends (EndInv), *)
(* and which event was written last (Tracks).                              *)
(***************************************************************************)
EXTENDS ReactSession, FiniteSetTheorems, SequenceTheorems, TLAPS

------------------------------------------------------------------------------
(* The machine *)

Failed == [phase : Phase, code : Code]
LoopOver == stopReason \in {"final", "max_step"}

\* Where each phase runs, and what the reason to stop is by then.
MachineInv ==
  /\ stopReason = "running" => step < MaxStep
  /\ at \in {"start", "run", "complete"} /\ phase # "final" => stopReason = "running"
  /\ at = "register" =>
       stopReason = "running" /\ phase = "observe" /\ config.carryover > 0
  /\ at = "stream" => phase = "final"
  /\ at \in {"start", "run", "stream", "complete"} /\ phase = "final" =>
       LoopOver /\ ~Exhausted /\ config.final
  /\ at = "open" => step = 0 /\ stopReason = "running"
  /\ stopReason = "error" => failure \in Failed
  /\ at = "report" => stopReason # "running"

MachineType ==
  /\ config \in Config
  /\ at \in {"open", "next", "start", "run", "register", "complete", "stream", "report",
             "cleanup", "end"}
  /\ phase \in Phase /\ step \in 0..MaxStep /\ goOn \in BOOLEAN
  /\ stopReason \in {"running", "final", "max_step", "error"}
  /\ failure \in Failed \cup {None}
  /\ channel \in {"open", "broken"}
  /\ exit \in {None, 0, 1} /\ workdir \in BOOLEAN

\* The largest index of the root is where the next message goes by.
RootInv ==
  /\ root \subseteq Nat
  /\ Newest \in root \cup {0}
  /\ \A i \in root : i <= Newest

LEMMA Recorded ==
  ASSUME MachineType, NEW code \in Code, RecordFailure(code)
  PROVE  /\ failure' \in Failed /\ stopReason' = "error" /\ at' = "next"
         /\ phase' = phase /\ step' = step /\ goOn' = goOn
         /\ failure'.phase = phase /\ failure'.code = code
BY DEF MachineType, RecordFailure, Failed

LEMMA Codes ==
  /\ PhaseFailure \subseteq Code /\ ChildFailure \subseteq Code
  /\ "internal_error" \in Code /\ "phase_output_missing" \in Code
  /\ "check_decision_invalid" \in Code /\ "final_stream_invalid" \in Code
  /\ "promptpile_exit_nonzero" \in Code /\ "promptpile_spawn_failed" \in Code
BY DEF Code, PhaseFailure, ChildFailure

LEMMA NextMachine ==
  ASSUME MachineType, MachineInv, [Next]_vars
  PROVE  MachineType' /\ MachineInv'
<1>0. ASSUME NEW code \in Code, RecordFailure(code),
             UNCHANGED <<config, exit, workdir>>, channel' = channel
      PROVE  MachineType' /\ MachineInv'
  BY <1>0, Recorded DEF MachineType, MachineInv, LoopOver, Exhausted
<1>. USE ConstantsAssumption, Codes DEF MachineType, MachineInv, machine, Goto, Enter,
         LoopOver, Exhausted, Phase
<1>1. CASE Open
  BY <1>1 DEF Open
<1>2. CASE Proceed
  BY <1>2 DEF Proceed
<1>3. CASE StartPhase
  BY <1>0, <1>3 DEF StartPhase
<1>4. CASE RunThought
  BY <1>0, <1>4 DEF RunThought
<1>5. CASE RunObserve
  BY <1>0, <1>5 DEF RunObserve
<1>6. CASE Register
  BY <1>0, <1>6 DEF Register
<1>7. CASE RunCheck
  BY <1>0, <1>7 DEF RunCheck
<1>8. CASE CompletePhase
  <2>1. UNCHANGED <<config, exit, workdir>> /\ channel' = channel
    BY <1>8 DEF CompletePhase
  <2>2. CASE RecordFailure("internal_error")
    BY <1>0, <2>1, <2>2
  <2>3. CASE at = "complete" /\ phase \in {"thought", "observe"}
             /\ Enter(IF phase = "thought" THEN "observe" ELSE "check")
    BY <2>1, <2>3
  <2>4. CASE at = "complete" /\ phase = "check" /\ AfterCheck
    <3>1. step + 1 \in 0..MaxStep /\ step + 1 >= MaxStep <=> ~(step + 1 < MaxStep)
      BY <2>4
    <3>. QED
      BY <2>1, <2>4, <3>1 DEF AfterCheck
  <2>5. CASE at = "complete" /\ phase = "final" /\ Goto("report")
    BY <2>1, <2>5
  <2>. QED
    BY <1>8, <2>2, <2>3, <2>4, <2>5 DEF CompletePhase
<1>9. CASE StartFinal
  BY <1>0, <1>9 DEF StartFinal
<1>10. CASE Consume \/ ChildWrites \/ ChildExits
  <2>1. UNCHANGED <<config, at, phase, step, goOn, stopReason, failure, exit, workdir,
                    channel>>
    BY <1>10 DEF Consume, ChildWrites, ChildExits
  <2>. QED
    BY <2>1
<1>11. CASE Settle
  BY <1>0, <1>11 DEF Settle
<1>12. CASE Report \/ Cleanup
  <2>1. /\ UNCHANGED <<config, phase, step, goOn, stopReason, failure, channel>>
        /\ at' \in {"cleanup", "end"}
        /\ exit' \in {exit, 0, 1} /\ workdir' \in {workdir, FALSE}
    BY <1>12 DEF Report, Cleanup
  <2>2. MachineType'
    BY <2>1
  <2>3. MachineInv'
    BY <2>1
  <2>. QED
    BY <2>2, <2>3
<1>13. CASE RegisterFails
  BY <1>0, <1>13 DEF RegisterFails
<1>14. CASE ChannelBreaks \/ Straggle
  BY <1>14 DEF ChannelBreaks, Straggle
<1>15. CASE UNCHANGED vars
  BY <1>15 DEF vars
<1>. QED
  BY <1>1, <1>2, <1>3, <1>4, <1>5, <1>6, <1>7, <1>8, <1>9, <1>10, <1>11, <1>12,
     <1>13, <1>14, <1>15 DEF Next, Step

------------------------------------------------------------------------------
(* Message indexes *)

\* The maximum of a set is the element that no other exceeds.
LEMMA MaxIs ==
  ASSUME NEW S \in SUBSET Nat, NEW m \in S, \A i \in S : i <= m
  PROVE  Max(S) = m
<1>1. \A x \in S : (\A y \in S : x >= y) => x = m
  OBVIOUS
<1>2. \A y \in S : m >= y
  OBVIOUS
<1>. QED
  BY <1>1, <1>2 DEF Max

\* New messages take the indexes after the largest one.
LEMMA Added ==
  ASSUME RootInv, NEW n \in Nat, AddMessages(n)
  PROVE  /\ RootInv' /\ Newest' = Newest + n /\ Newest \in Nat
         /\ \A i \in Nat : i <= Newest => (i \in root' <=> i \in root)
         /\ n > 0 => Newest + n \in root'
<1>1. Newest \in Nat
  BY DEF RootInv
<1>2. root' = root \cup (Newest + 1)..(Newest + n)
  BY DEF AddMessages
<1>3. root' \subseteq Nat
  BY <1>1, <1>2 DEF RootInv
<1>4. Newest + n \in root' \cup {0}
  BY <1>1, <1>2 DEF RootInv
<1>5. \A i \in root' \cup {0} : i <= Newest + n
  BY <1>1, <1>2 DEF RootInv
<1>a. root' \cup {0} \in SUBSET Nat
  BY <1>3
<1>6. Max(root' \cup {0}) = Newest + n
  BY <1>a, <1>4, <1>5, MaxIs
<1>7. Newest' = Newest + n
  BY <1>6 DEF Newest
<1>8. RootInv'
  BY <1>3, <1>4, <1>5, <1>7 DEF RootInv
<1>. QED
  BY <1>1, <1>2, <1>7, <1>8

------------------------------------------------------------------------------
(* Retention *)

WorkType ==
  /\ registered \subseteq Nat /\ archived \subseteq Nat
  /\ persisted \in Nat /\ disturbed \in BOOLEAN

\* How many members of S are more recent than i.
Above(S, i) == {j \in S : j > i}

LEMMA AboveFinite ==
  ASSUME NEW S \in SUBSET Nat, IsFiniteSet(S), NEW i
  PROVE  IsFiniteSet(Above(S, i)) /\ Cardinality(Above(S, i)) \in Nat
<1>1. IsFiniteSet(Above(S, i))
  BY FS_Subset DEF Above
<1>. QED
  BY <1>1, FS_CardinalityType

\* A more recent member has fewer above it.
LEMMA AboveShrinks ==
  ASSUME NEW S \in SUBSET Nat, IsFiniteSet(S), NEW i \in S, NEW j \in S, i < j
  PROVE  Cardinality(Above(S, j)) < Cardinality(Above(S, i))
<1>n. \A k \in S : k \in Nat
  OBVIOUS
<1>1. Above(S, j) \in SUBSET Above(S, i)
  <2>1. \A k \in S : k > j => k > i
    BY <1>n
  <2>. QED
    BY <2>1 DEF Above
<1>2. j \in Above(S, i) /\ j \notin Above(S, j)
  BY DEF Above
<1>3. IsFiniteSet(Above(S, i)) /\ Cardinality(Above(S, i)) \in Nat
  BY AboveFinite
<1>4. Cardinality(Above(S, j)) \in Nat
  BY AboveFinite
<1>5. Above(S, i) # Above(S, j)
  BY <1>2
<1>6. Cardinality(Above(S, j)) <= Cardinality(Above(S, i))
  BY <1>1, <1>3, FS_Subset
<1>7. Cardinality(Above(S, i)) # Cardinality(Above(S, j))
  BY <1>1, <1>3, <1>5, FS_Subset
<1>. QED
  BY <1>3, <1>4, <1>6, <1>7

\* What is kept is closed upwards, and at most carryover many.
LEMMA KeptUpward ==
  ASSUME NEW S \in SUBSET Nat, IsFiniteSet(S), config.carryover \in Nat,
         NEW i \in Kept(S), NEW j \in S, j > i
  PROVE  j \in Kept(S)
<1>1. i \in S /\ Cardinality(Above(S, i)) < config.carryover
  BY DEF Kept, Above
<1>2. Cardinality(Above(S, j)) < Cardinality(Above(S, i))
  BY <1>1, AboveShrinks
<1>3. Cardinality(Above(S, j)) < config.carryover
  BY <1>1, <1>2, AboveFinite
<1>. QED
  BY <1>3 DEF Kept, Above

LEMMA KeptBounded ==
  ASSUME NEW S \in SUBSET Nat, IsFiniteSet(S), config.carryover \in Nat
  PROVE  Cardinality(Kept(S)) <= config.carryover
<1>. DEFINE T == 0 .. config.carryover - 1
            f == [i \in Kept(S) |-> Cardinality(Above(S, i))]
<1>n. \A k \in S : k \in Nat
  OBVIOUS
<1>1. \A i \in Kept(S) : i \in S /\ Cardinality(Above(S, i)) \in T
  BY AboveFinite DEF Kept, Above
<1>2. f \in [Kept(S) -> T]
  BY <1>1
<1>3. \A i, j \in Kept(S) : f[i] = f[j] => i = j
  <2>. SUFFICES ASSUME NEW i \in Kept(S), NEW j \in Kept(S), i < j
               PROVE  f[i] # f[j]
    <3>1. \A k \in Kept(S) : k \in Nat
      BY <1>1, <1>n
    <3>2. \A k, l \in Nat : k # l => k < l \/ l < k
      OBVIOUS
    <3>. QED
      BY <3>1, <3>2
  <2>1. Cardinality(Above(S, j)) < Cardinality(Above(S, i))
    BY <1>1, AboveShrinks
  <2>. QED
    BY <1>1, <2>1
<1>4. f \in Injection(Kept(S), T)
  BY <1>2, <1>3 DEF Injection, IsInjective
<1>5. IsFiniteSet(T) /\ Cardinality(T) = config.carryover
  <2>1. 0 \in Int /\ config.carryover - 1 \in Int
    OBVIOUS
  <2>2. IsFiniteSet(T) /\ Cardinality(T) = IF 0 > config.carryover - 1 THEN 0
                                           ELSE config.carryover - 1 - 0 + 1
    BY <2>1, FS_Interval
  <2>. QED
    BY <2>2
<1>6. \E g : g \in Injection(Kept(S), T)
  BY <1>4
<1>. HIDE DEF T, f
<1>7. PICK g : g \in Injection(Kept(S), T)
  BY <1>6
<1>8. Cardinality(Kept(S)) <= Cardinality(T)
  BY <1>5, <1>7, FS_Injection
<1>. QED
  BY <1>5, <1>8

\* After a more recent one it does not matter whether the ones that had been
\* dropped before are looked at again.
LEMMA KeptOfKept ==
  ASSUME NEW S \in SUBSET Nat, IsFiniteSet(S), config.carryover \in Nat,
         NEW p \in Nat, \A i \in S : i < p
  PROVE  Kept(Kept(S) \cup {p}) = Kept(S \cup {p})
<1>. DEFINE A == Kept(S) \cup {p}
            B == S \cup {p}
<1>1. Kept(S) \subseteq S
  BY DEF Kept
<1>n. \A k \in S : k \in Nat /\ k < p /\ k # p /\ p > k /\ ~(k > p)
  OBVIOUS
<1>m. ~(p > p)
  OBVIOUS
<1>2. ASSUME NEW i \in S
      PROVE  i \in Kept(B) <=> Cardinality(Above(S, i)) + 1 < config.carryover
  <2>1. Above(B, i) = Above(S, i) \cup {p} /\ p \notin Above(S, i)
    BY DEF Above
  <2>2. IsFiniteSet(Above(S, i))
    BY AboveFinite
  <2>3. Cardinality(Above(B, i)) = Cardinality(Above(S, i)) + 1
    BY <2>1, <2>2, FS_AddElement
  <2>4. i \in Kept(B) <=> Cardinality(Above(B, i)) < config.carryover
    BY DEF Kept, Above
  <2>. QED
    BY <2>3, <2>4
<1>3. ASSUME NEW i \in Kept(S)
      PROVE  i \in Kept(A) <=> Cardinality(Above(S, i)) + 1 < config.carryover
  <2>1. i \in S
    BY <1>1
  <2>2. \A j \in S : j > i => j \in Kept(S)
    BY KeptUpward
  <2>3. Above(A, i) = Above(S, i) \cup {p} /\ p \notin Above(S, i)
    BY <1>1, <1>n, <2>1, <2>2 DEF Above
  <2>4. IsFiniteSet(Above(S, i))
    BY AboveFinite
  <2>5. Cardinality(Above(A, i)) = Cardinality(Above(S, i)) + 1
    BY <2>3, <2>4, FS_AddElement
  <2>6. i \in Kept(A) <=> Cardinality(Above(A, i)) < config.carryover
    BY DEF Kept, Above
  <2>. QED
    BY <2>5, <2>6
<1>4. \A i \in S : Cardinality(Above(S, i)) + 1 < config.carryover => i \in Kept(S)
  BY AboveFinite DEF Kept, Above
<1>5. p \in Kept(A) <=> p \in Kept(B)
  <2>1. Above(A, p) = {} /\ Above(B, p) = {}
    BY <1>1, <1>n, <1>m DEF Above
  <2>. QED
    BY <2>1 DEF Kept, Above
<1>6. Kept(A) \subseteq A /\ Kept(B) \subseteq B
  BY DEF Kept
<1>. HIDE DEF A, B
<1>7. \A i \in S : i \in Kept(A) <=> i \in Kept(B)
  <2>. TAKE i \in S
  <2>1. CASE i \in Kept(S)
    BY <2>1, <1>2, <1>3
  <2>2. CASE i \notin Kept(S)
    <3>1. i \notin A
      BY <2>2 DEF A
    <3>. QED
      BY <3>1, <2>2, <1>2, <1>4, <1>6
  <2>. QED
    BY <2>1, <2>2
<1>8. A \subseteq S \cup {p} /\ B = S \cup {p}
  BY <1>1 DEF A, B
<1>9. \A x : x \in Kept(A) <=> x \in Kept(B)
  BY <1>5, <1>6, <1>7, <1>8
<1>10. Kept(A) = Kept(B)
  BY <1>9
<1>. QED
  BY <1>10 DEF A, B

\* The newest is kept.
LEMMA NewestKept ==
  ASSUME NEW S \in SUBSET Nat, config.carryover \in Nat \ {0}, NEW p \in S,
         \A i \in S : i <= p
  PROVE  p \in Kept(S)
<1>1. \A i \in S : ~(i > p)
  OBVIOUS
<1>2. {j \in S : j > p} = {}
  BY <1>1
<1>3. Cardinality({j \in S : j > p}) = 0
  BY <1>2, FS_EmptySet
<1>. QED
  BY <1>3 DEF Kept

\* Which observations lie in the root: the ones that are kept, each registered
\* one either there or in the archive, and none younger than the root's newest.
RetentionInv ==
  /\ RootInv
  /\ IsFiniteSet(registered)
  /\ archived \subseteq registered
  /\ \A i \in registered : i <= Newest
  /\ \A i \in registered : i \in root <=> i \notin archived
  /\ registered \cap root = Kept(registered)
  /\ at = "register" =>
       /\ persisted \in root /\ \A i \in registered : i < persisted
       /\ ~disturbed => persisted = Newest
  /\ failure # None /\ failure.phase = "observe" /\ failure.code = "internal_error" =>
       disturbed \/ channel = "broken"

\* A report that is the newest message enters, and what it displaces is moved.
Registering ==
  /\ persisted = Newest /\ \A i \in registered : i < persisted

Displaced ==
  ((registered \cup {persisted}) \cap root) \ Kept((registered \cup {persisted}) \cap root)

LEMMA Registers ==
  ASSUME MachineType, WorkType, RetentionInv, at = "register", Registering,
         config.carryover \in Nat \ {0},
         registered' = registered \cup {persisted},
         root' = root \ Displaced, archived' = archived \cup Displaced,
         UNCHANGED <<config, persisted>>
  PROVE  /\ Retained(root', registered', archived')
         /\ RootInv' /\ Newest' = Newest
         /\ IsFiniteSet(registered') /\ archived' \subseteq registered'
         /\ \A i \in registered' : i <= Newest'
         /\ \A i \in registered' : i \in root' <=> i \notin archived'
         /\ registered' \cap root' = (Kept(registered))'
<1>. DEFINE active == (registered \cup {persisted}) \cap root
<1>1. /\ persisted \in root /\ persisted \in Nat /\ persisted \notin registered
      /\ persisted \notin archived
  BY DEF RetentionInv, Registering, WorkType
<1>2. active = Kept(registered) \cup {persisted}
  BY <1>1 DEF RetentionInv
<1>3. Kept(active) = Kept(registered')
  BY <1>1, <1>2, KeptOfKept DEF RetentionInv, Registering, WorkType
<1>4. Kept(active) \subseteq active
  BY DEF Kept
<1>5. registered' \cap root' = Kept(registered')
  BY <1>3, <1>4 DEF Displaced
<1>6. (Kept(registered))' = Kept(registered')
  BY DEF Kept
<1>7. \A i \in active : i <= persisted
  <2>1. \A i \in root : i <= persisted
    BY DEF RetentionInv, RootInv, Registering
  <2>. QED
    BY <2>1
<1>8. persisted \in Kept(active)
  <2>1. active \in SUBSET Nat /\ persisted \in active
    BY <1>1 DEF WorkType
  <2>. QED
    BY <2>1, <1>7, NewestKept
<1>9. persisted \in root' /\ root' \subseteq root
  BY <1>1, <1>8 DEF Displaced
<1>10. RootInv' /\ Newest' = Newest
  <2>0. root' \subseteq Nat
    BY <1>9 DEF RetentionInv, RootInv
  <2>1. root' \cup {0} \in SUBSET Nat /\ persisted \in root' \cup {0}
    BY <1>9, <2>0
  <2>2. \A i \in root' \cup {0} : i <= persisted
    BY <1>1, <1>9 DEF RetentionInv, RootInv, Registering
  <2>3. Max(root' \cup {0}) = persisted
    BY <2>1, <2>2, MaxIs
  <2>4. Newest' = persisted
    BY <2>3 DEF Newest
  <2>. QED
    BY <2>0, <2>1, <2>2, <2>4 DEF RootInv, Registering
<1>11. /\ IsFiniteSet(registered') /\ registered' \in SUBSET Nat
  BY <1>1, FS_AddElement DEF RetentionInv, WorkType
<1>12. \A i \in registered' : i \in root' <=> i \notin archived'
  <2>. TAKE i \in registered'
  <2>1. CASE i = persisted
    BY <2>1, <1>1, <1>8, <1>9 DEF Displaced
  <2>2. CASE i \in registered
    BY <2>2 DEF RetentionInv, Displaced
  <2>. QED
    BY <2>1, <2>2
<1>13. Cardinality(registered' \cap root') <= config.carryover
  BY <1>5, <1>11, KeptBounded
<1>14. Retained(root', registered', archived')
  BY <1>9, <1>12, <1>13 DEF Retained
<1>15. archived' \subseteq registered'
  BY <1>1 DEF RetentionInv, Displaced
<1>16. \A i \in registered' : i <= Newest'
  BY <1>1, <1>10 DEF RetentionInv, Registering, RootInv, WorkType
<1>. QED
  BY <1>5, <1>6, <1>10, <1>11, <1>12, <1>14, <1>15, <1>16

\* New messages do not disturb what is registered.
LEMMA AddedRetention ==
  ASSUME WorkType, RetentionInv, NEW n \in Nat, AddMessages(n),
         UNCHANGED <<config, registered, archived>>
  PROVE  /\ RootInv'
         /\ IsFiniteSet(registered') /\ archived' \subseteq registered'
         /\ \A i \in registered' : i <= Newest'
         /\ \A i \in registered' : i \in root' <=> i \notin archived'
         /\ registered' \cap root' = (Kept(registered))'
<1>1. /\ RootInv' /\ Newest' = Newest + n /\ Newest \in Nat
      /\ \A i \in Nat : i <= Newest => (i \in root' <=> i \in root)
  BY Added DEF RetentionInv
<1>2. \A i \in registered : i \in Nat /\ i <= Newest
  BY DEF RetentionInv, WorkType
<1>3. \A i \in registered : i \in root' <=> i \in root
  BY <1>1, <1>2
<1>4. registered \cap root' = registered \cap root
  BY <1>3
<1>5. (Kept(registered))' = Kept(registered)
  BY DEF Kept
<1>6. \A i \in registered' : i <= Newest'
  BY <1>1, <1>2
<1>. QED
  BY <1>1, <1>3, <1>4, <1>5, <1>6 DEF RetentionInv

LEMMA NextRetention ==
  ASSUME MachineType, MachineInv, WorkType, RetentionInv, [Next]_vars
  PROVE  WorkType' /\ RetentionInv'
<1>. DEFINE Blamed == failure # None /\ failure.phase = "observe"
                      /\ failure.code = "internal_error"
            Excused == disturbed \/ channel = "broken"
<1>1. ASSUME UNCHANGED <<config, root, persisted, registered, archived>>,
             disturbed' \in BOOLEAN, at' # "register", Blamed' => Excused'
      PROVE  WorkType' /\ RetentionInv'
  <2>1. (Kept(registered))' = Kept(registered) /\ (RootInv' <=> RootInv)
        /\ Newest' = Newest
    BY <1>1 DEF Kept, RootInv, Newest
  <2>2. WorkType'
    BY <1>1 DEF WorkType
  <2>3. RetentionInv'
    BY <1>1, <2>1 DEF RetentionInv
  <2>. QED
    BY <2>2, <2>3
<1>2. ASSUME UNCHANGED <<config, work, failure>>, at' # "register",
             channel' \in {channel, "broken"}
      PROVE  WorkType' /\ RetentionInv'
  <2>1. Blamed' => Excused'
    BY <1>2 DEF RetentionInv, work
  <2>. QED
    BY <1>1, <1>2, <2>1 DEF work, WorkType
<1>3. ASSUME UNCHANGED <<config, work>>, channel' = channel,
             NEW code \in Code, RecordFailure(code),
             phase = "observe" /\ code = "internal_error" => Excused
      PROVE  WorkType' /\ RetentionInv'
  <2>1. at' # "register" /\ failure'.phase = phase /\ failure'.code = code
    BY <1>3, Recorded
  <2>2. Blamed' => Excused'
    BY <1>3, <2>1 DEF work
  <2>. QED
    BY <1>1, <1>3, <2>1, <2>2 DEF work, WorkType
<1>4. ASSUME NEW n \in Nat, AddMessages(n),
             UNCHANGED <<config, persisted, registered, archived>>,
             at' # "register", disturbed' \in BOOLEAN, Blamed' => Excused'
      PROVE  WorkType' /\ RetentionInv'
  <2>1. WorkType'
    BY <1>4 DEF WorkType
  <2>. QED
    BY <1>4, <2>1, AddedRetention DEF RetentionInv
<1>. USE Codes DEF Goto, Enter, machine
<1>5. CASE Open \/ Proceed \/ Report \/ Cleanup
  BY <1>2, <1>5 DEF Open, Proceed, Report, Cleanup
<1>6. CASE StartPhase
  BY <1>2, <1>3, <1>6 DEF StartPhase, Unwritten
<1>7. CASE RunThought
  <2>1. PICK n \in 0..MaxMessages : AddMessages(n)
    BY <1>7 DEF RunThought
  <2>2. n \in Nat
    BY ConstantsAssumption
  <2>3. UNCHANGED <<config, channel, persisted, registered, archived, disturbed>>
        /\ phase = "thought"
    BY <1>7 DEF RunThought
  <2>4. at' # "register" /\ (failure' = failure \/ failure'.phase = "thought")
    BY <1>7, Recorded DEF RunThought
  <2>5. Blamed' => Excused'
    BY <2>3, <2>4 DEF RetentionInv
  <2>. QED
    BY <1>4, <2>1, <2>2, <2>3, <2>4, <2>5 DEF WorkType
<1>8. CASE RunObserve
  <2>1. CASE UNCHANGED <<root, persisted, disturbed>> /\ Goto("complete")
    BY <1>2, <1>8, <2>1 DEF RunObserve, work
  <2>2. ASSUME NEW code \in PhaseFailure \cup {"phase_output_missing"}, RecordFailure(code),
               disturbed' = (disturbed \/ code = "internal_error"),
               UNCHANGED <<root, persisted>>
        PROVE  WorkType' /\ RetentionInv'
    <3>1. at' # "register" /\ failure'.phase = phase /\ failure'.code = code
      BY <2>2, Recorded
    <3>2. Blamed' => Excused'
      BY <2>2, <3>1
    <3>3. disturbed' \in BOOLEAN
      BY <2>2 DEF WorkType
    <3>. QED
      BY <1>1, <1>8, <2>2, <3>1, <3>2, <3>3 DEF RunObserve
  <2>3. CASE AddMessages(1) /\ persisted' = Newest + 1 /\ Goto("register")
             /\ UNCHANGED disturbed
    <3>1. UNCHANGED <<config, channel, registered, archived, disturbed, failure>>
      BY <1>8, <2>3 DEF RunObserve
    <3>2. /\ RootInv' /\ Newest' = Newest + 1 /\ Newest \in Nat
          /\ Newest + 1 \in root'
      BY <2>3, Added DEF RetentionInv
    <3>3. \A i \in registered : i \in Nat /\ i <= Newest
      BY DEF RetentionInv, WorkType
    <3>4. /\ persisted' \in root' /\ persisted' = Newest' /\ persisted' \in Nat
          /\ \A i \in registered' : i < persisted'
      BY <2>3, <3>1, <3>2, <3>3
    <3>5. WorkType'
      BY <3>1, <3>4 DEF WorkType
    <3>6. Blamed' => Excused'
      BY <3>1 DEF RetentionInv
    <3>. QED
      BY <2>3, <3>1, <3>4, <3>5, <3>6, AddedRetention DEF RetentionInv
  <2>. QED
    BY <1>8, <2>1, <2>2, <2>3 DEF RunObserve
<1>9. CASE Register
  <2>1. /\ at = "register" /\ UNCHANGED <<config, channel, persisted, disturbed>>
        /\ config.carryover \in Nat \ {0} /\ phase = "observe"
    <3>1. at = "register" /\ UNCHANGED <<config, channel, persisted, disturbed>>
      BY <1>9 DEF Register
    <3>2. config.carryover > 0 /\ phase = "observe"
      BY <3>1 DEF MachineInv
    <3>3. config.carryover \in Nat
      BY ConstantsAssumption DEF MachineType, Config
    <3>. QED
      BY <3>1, <3>2, <3>3
  <2>2. CASE /\ Registering /\ registered' = registered \cup {persisted}
             /\ root' = root \ Displaced /\ archived' = archived \cup Displaced
    <3>1. /\ Retained(root', registered', archived')
          /\ RootInv' /\ Newest' = Newest
          /\ IsFiniteSet(registered') /\ archived' \subseteq registered'
          /\ \A i \in registered' : i <= Newest'
          /\ \A i \in registered' : i \in root' <=> i \notin archived'
          /\ registered' \cap root' = (Kept(registered))'
      BY <2>1, <2>2, Registers
    <3>2. Goto("complete")
      BY <1>9, <2>2, <3>1 DEF Register, Registering
    <3>3. Blamed' => Excused'
      BY <2>1, <3>2 DEF RetentionInv
    <3>4. WorkType'
      BY <2>1, <2>2, <3>1 DEF WorkType
    <3>. QED
      BY <3>1, <3>2, <3>3, <3>4 DEF RetentionInv
  <2>3. CASE /\ ~Registering /\ RecordFailure("internal_error")
             /\ UNCHANGED <<root, registered, archived>>
    <3>1. disturbed
      BY <2>1, <2>3 DEF RetentionInv, Registering
    <3>. QED
      BY <1>3, <2>1, <2>3, <3>1 DEF work
  <2>. QED
    BY <1>9, <2>2, <2>3 DEF Register, Registering, Displaced
<1>10. CASE RunCheck
  BY <1>2, <1>3, <1>10 DEF RunCheck
<1>11. CASE CompletePhase
  <2>1. UNCHANGED <<config, work, channel>>
    BY <1>11 DEF CompletePhase
  <2>2. CASE RecordFailure("internal_error") /\ channel = "broken"
    BY <1>3, <2>1, <2>2
  <2>3. CASE UNCHANGED failure /\ at' # "register"
    BY <1>2, <2>1, <2>3
  <2>. QED
    BY <1>11, <2>2, <2>3 DEF CompletePhase, AfterCheck, Unwritten
<1>12. CASE StartFinal
  BY <1>2, <1>3, <1>12 DEF StartFinal
<1>13. CASE Consume \/ ChildWrites \/ ChildExits
  <2>1. UNCHANGED <<config, work, channel, at, failure>>
    BY <1>13 DEF Consume, ChildWrites, ChildExits
  <2>2. RootInv' /\ Newest' = Newest /\ (Kept(registered))' = Kept(registered)
    BY <2>1 DEF RetentionInv, RootInv, Newest, Kept, work
  <2>. QED
    BY <2>1, <2>2 DEF RetentionInv, WorkType, work
<1>14. CASE Settle
  BY <1>2, <1>3, <1>14 DEF Settle, MachineInv
<1>15. CASE RegisterFails
  <2>1. at' # "register" /\ disturbed'
    BY <1>15, Recorded DEF RegisterFails
  <2>. QED
    BY <1>1, <1>15, <2>1 DEF RegisterFails
<1>16. CASE ChannelBreaks
  <2>1. UNCHANGED <<config, work, at, failure>> /\ channel' = "broken"
    BY <1>16 DEF ChannelBreaks
  <2>2. RootInv' /\ Newest' = Newest /\ (Kept(registered))' = Kept(registered)
    BY <2>1 DEF RetentionInv, RootInv, Newest, Kept, work
  <2>. QED
    BY <2>1, <2>2 DEF RetentionInv, WorkType, work
<1>17. CASE Straggle
  <2>1. /\ UNCHANGED <<config, at, failure, persisted, registered, archived>>
        /\ AddMessages(1) /\ disturbed' = TRUE
    BY <1>17 DEF Straggle
  <2>2. /\ \A i \in Nat : i <= Newest => (i \in root' <=> i \in root)
        /\ RootInv' /\ Newest \in Nat
    BY <2>1, Added DEF RetentionInv
  <2>3. persisted \in root => persisted \in root'
    BY <2>1, <2>2 DEF RetentionInv, RootInv, WorkType
  <2>4. WorkType'
    BY <2>1 DEF WorkType
  <2>. QED
    BY <2>1, <2>3, <2>4, AddedRetention DEF RetentionInv
<1>18. CASE UNCHANGED vars
  <2>1. UNCHANGED <<config, work, channel, at, failure>>
    BY <1>18 DEF vars
  <2>2. RootInv' /\ Newest' = Newest /\ (Kept(registered))' = Kept(registered)
    BY <2>1 DEF RetentionInv, RootInv, Newest, Kept, work
  <2>. QED
    BY <2>1, <2>2 DEF RetentionInv, WorkType, work
<1>. QED
  BY <1>5, <1>6, <1>7, <1>8, <1>9, <1>10, <1>11, <1>12, <1>13, <1>14, <1>15, <1>16,
     <1>17, <1>18 DEF Next, Step

------------------------------------------------------------------------------
(* The pipe of the Final child *)

Frame == {"delta", "done", "bad", "eof"}
Deltas(frames) == {k \in 1..Len(frames) : frames[k] = "delta"}

LEMMA DeltasFinite ==
  ASSUME NEW s \in Seq(Frame)
  PROVE  IsFiniteSet(Deltas(s)) /\ Cardinality(Deltas(s)) \in Nat
<1>1. IsFiniteSet(1..Len(s))
  BY FS_Interval
<1>2. IsFiniteSet(Deltas(s))
  BY <1>1, FS_Subset DEF Deltas
<1>. QED
  BY <1>2, FS_CardinalityType

\* A frame that is written counts if it is a delta.
LEMMA DeltaWritten ==
  ASSUME NEW s \in Seq(Frame), NEW f \in Frame
  PROVE  Cardinality(Deltas(Append(s, f)))
           = IF f = "delta" THEN Cardinality(Deltas(s)) + 1 ELSE Cardinality(Deltas(s))
<1>. DEFINE t == Append(s, f)
<1>1. /\ Len(t) = Len(s) + 1 /\ t[Len(s) + 1] = f
      /\ \A k \in 1..Len(s) : t[k] = s[k]
  OBVIOUS
<1>2. Len(s) \in Nat
  OBVIOUS
<1>. HIDE DEF t
<1>3. 1..Len(t) = (1..Len(s)) \cup {Len(s) + 1}
  BY <1>1, <1>2
<1>4. Deltas(t) = IF f = "delta" THEN Deltas(s) \cup {Len(s) + 1} ELSE Deltas(s)
  BY <1>1, <1>3 DEF Deltas
<1>5. Len(s) + 1 \notin Deltas(s)
  BY <1>2 DEF Deltas
<1>6. Cardinality(Deltas(s) \cup {Len(s) + 1}) = Cardinality(Deltas(s)) + 1
  BY <1>5, DeltasFinite, FS_AddElement
<1>. QED
  BY <1>4, <1>6 DEF t

\* So does one that is read.
LEMMA DeltaRead ==
  ASSUME NEW s \in Seq(Frame), s # <<>>
  PROVE  Cardinality(Deltas(s)) = IF Head(s) = "delta" THEN Cardinality(Deltas(Tail(s))) + 1
                                                    ELSE Cardinality(Deltas(Tail(s)))
<1>. DEFINE t == Tail(s)
            f == [k \in Deltas(t) |-> k + 1]
<1>1. /\ t \in Seq(Frame) /\ Len(s) \in Nat \ {0} /\ Len(t) = Len(s) - 1 /\ Head(s) = s[1]
      /\ \A k \in 1..Len(t) : t[k] = s[k + 1]
  OBVIOUS
<1>. HIDE DEF t
<1>2. IsFiniteSet(Deltas(t))
  BY <1>1, DeltasFinite
<1>3. \A k \in Deltas(s) : k # 1 => k - 1 \in Deltas(t)
  BY <1>1 DEF Deltas
<1>a. \A k \in Deltas(t) : k \in Nat /\ k + 1 # 1 /\ k + 1 \in Deltas(s)
  BY <1>1 DEF Deltas
<1>4. f \in Bijection(Deltas(t), Deltas(s) \ {1})
  <2>1. f \in [Deltas(t) -> Deltas(s) \ {1}]
    BY <1>a
  <2>2. \A a, b \in Deltas(t) : f[a] = f[b] => a = b
    BY <1>a
  <2>3. \A k \in Deltas(s) \ {1} : f[k - 1] = k /\ k - 1 \in Deltas(t)
    BY <1>3, <1>1 DEF Deltas
  <2>. QED
    BY <2>1, <2>2, <2>3 DEF Bijection, Injection, Surjection, IsInjective
<1>b. ExistsBijection(Deltas(t), Deltas(s) \ {1})
  BY <1>4 DEF ExistsBijection
<1>5. Cardinality(Deltas(s) \ {1}) = Cardinality(Deltas(t))
  BY <1>2, <1>b, FS_Bijection
<1>6. IsFiniteSet(Deltas(s) \ {1})
  BY <1>2, <1>b, FS_Bijection
<1>7. Deltas(s) = IF Head(s) = "delta" THEN (Deltas(s) \ {1}) \cup {1} ELSE Deltas(s) \ {1}
  BY <1>1 DEF Deltas
<1>8. Cardinality((Deltas(s) \ {1}) \cup {1}) = Cardinality(Deltas(s) \ {1}) + 1
  BY <1>6, FS_AddElement
<1>. QED
  BY <1>5, <1>7, <1>8 DEF t

PipeType ==
  /\ child \in {"none", "running", "killed", "ok", "failed"}
  /\ pipe \in Seq(Frame)
  /\ sent \in 0..MaxDeltas /\ content \in Nat
  /\ decoder \in {"reading", "done", "ended", "invalid"}

\* The Final child lives within the phase, and while its stream is in order no
\* delta is lost between it and the reader.
PipeInv ==
  /\ child = "none" => content = 0 /\ decoder = "reading" /\ pipe = <<>> /\ sent = 0
  /\ child # "none" => /\ phase = "final"
                       /\ at \in {"stream", "complete", "next", "report", "cleanup", "end"}
                       /\ at = "next" => stopReason = "error"
  /\ child \in {"running", "killed"} => at = "stream"
  /\ at = "stream" => child # "none"
  /\ ~workdir => at = "end"
  /\ content <= sent
  /\ Listening => sent = content + Cardinality(Deltas(pipe))
  /\ decoder = "ended" => pipe = <<>> /\ sent = content
  /\ \A k \in 1..Len(pipe) : pipe[k] = "eof" => k = Len(pipe)
  /\ at = "complete" /\ phase = "final" => child = "ok" /\ decoder = "ended"
  /\ at = "report" /\ LoopOver /\ ~Exhausted /\ config.final =>
       child = "ok" /\ decoder = "ended"

LEMMA NextPipe ==
  ASSUME MachineType, MachineInv, PipeType, PipeInv, [Next]_vars
  PROVE  PipeType' /\ PipeInv'
<1>1. ASSUME UNCHANGED <<final, workdir>>, NEW code \in Code, RecordFailure(code),
             config' = config, at # "end",
             child \notin {"running", "killed"}, child = "none" \/ phase = "final"
      PROVE  PipeType' /\ PipeInv'
  <2>1. /\ at' = "next" /\ stopReason' = "error" /\ phase' = phase
    BY <1>1, Recorded
  <2>2. /\ UNCHANGED <<child, pipe, sent, decoder, content, workdir>>
        /\ Listening' = Listening /\ Cardinality(Deltas(pipe))' = Cardinality(Deltas(pipe))
    BY <1>1 DEF final, Listening, Deltas
  <2>. QED
    BY <1>1, <2>1, <2>2 DEF PipeType, PipeInv
<1>. USE Codes DEF Goto, Enter, machine
<1>2. ASSUME UNCHANGED <<final, config, workdir>>, child = "none",
             at # "end", at' # "stream", at' = "complete" => phase' # "final",
             at' = "report" /\ LoopOver' => Exhausted' \/ ~config'.final
      PROVE  PipeType' /\ PipeInv'
  <2>2. /\ UNCHANGED <<child, pipe, sent, decoder, content>>
        /\ Listening' = Listening /\ Cardinality(Deltas(pipe))' = Cardinality(Deltas(pipe))
    BY <1>2 DEF final, Listening, Deltas
  <2>. QED
    BY <1>2, <2>2 DEF PipeType, PipeInv
<1>3. ASSUME UNCHANGED <<final, config, stopReason, phase, step>>, child # "none",
             child \notin {"running", "killed"}, at \in {"next", "complete", "report", "cleanup"},
             at' \in {"report", "cleanup", "end"},
             workdir' \in BOOLEAN, at' # "end" => workdir' = workdir,
             at' = "report" => ~LoopOver \/ (child = "ok" /\ decoder = "ended")
      PROVE  PipeType' /\ PipeInv'
  <2>2. /\ UNCHANGED <<child, pipe, sent, decoder, content>>
        /\ Listening' = Listening /\ Cardinality(Deltas(pipe))' = Cardinality(Deltas(pipe))
    BY <1>3 DEF final, Listening, Deltas
  <2>3. LoopOver' = LoopOver
    BY <1>3 DEF LoopOver
  <2>. QED
    BY <1>3, <2>2, <2>3 DEF PipeType, PipeInv
<1>4. ASSUME UNCHANGED <<final, config, workdir, machine>>
      PROVE  PipeType' /\ PipeInv'
  <2>2. /\ UNCHANGED <<child, pipe, sent, decoder, content, at, phase, stopReason>>
        /\ Listening' = Listening /\ Cardinality(Deltas(pipe))' = Cardinality(Deltas(pipe))
        /\ LoopOver' = LoopOver /\ Exhausted' = Exhausted
    BY <1>4 DEF final, Listening, Deltas, LoopOver, Exhausted
  <2>. QED
    BY <1>4, <2>2 DEF PipeType, PipeInv
<1>5. CASE Open
  <2>1. child = "none"
    BY <1>5 DEF Open, PipeInv
  <2>. QED
    BY <1>2, <1>5, <2>1 DEF Open
<1>6. CASE Proceed
  <2>1. CASE child = "none"
    BY <1>2, <1>6, <2>1 DEF Proceed, LoopOver, Exhausted
  <2>2. CASE child # "none"
    <3>1. stopReason = "error" /\ phase = "final" /\ child \notin {"running", "killed"}
      BY <1>6, <2>2 DEF PipeInv, Proceed
    <3>2. /\ at = "next" /\ at' = "report"
          /\ UNCHANGED <<final, config, stopReason, phase, step>> /\ workdir' = workdir
      BY <1>6, <3>1 DEF Proceed
    <3>3. workdir' \in BOOLEAN /\ ~LoopOver
      BY <3>1, <3>2 DEF MachineType, LoopOver
    <3>4. at \in {"next", "complete", "report", "cleanup"} /\ at' \in {"report", "cleanup", "end"}
      BY <3>2
    <3>. QED
      BY <1>3, <2>2, <3>1, <3>2, <3>3, <3>4
  <2>. QED
    BY <2>1, <2>2
<1>7. CASE StartPhase \/ RunThought \/ RunObserve \/ Register \/ RunCheck \/ RegisterFails
  <2>1. /\ at \in {"start", "run", "register"}
        /\ UNCHANGED <<final, config, workdir>>
    BY <1>7 DEF StartPhase, RunThought, RunObserve, Register, RunCheck, RegisterFails
  <2>2. child = "none"
    BY <2>1 DEF PipeInv
  <2>3. \/ \E code \in Code : RecordFailure(code)
        \/ at' \in {"run", "register"}
        \/ at' = "complete" /\ phase' # "final"
    <3>1. CASE StartPhase
      BY <3>1 DEF StartPhase
    <3>2. CASE RunThought
      BY <3>2 DEF RunThought
    <3>3. CASE RunObserve
      BY <3>3 DEF RunObserve
    <3>4. CASE Register \/ RegisterFails
      <4>1. (at' = "complete" /\ phase' = phase) \/ RecordFailure("internal_error")
        BY <3>4 DEF Register, RegisterFails
      <4>. QED
        BY <3>4, <4>1 DEF Register, RegisterFails, MachineInv
    <3>5. CASE RunCheck
      BY <3>5 DEF RunCheck
    <3>. QED
      BY <1>7, <3>1, <3>2, <3>3, <3>4, <3>5
  <2>. QED
    BY <1>1, <1>2, <2>1, <2>2, <2>3
<1>8. CASE CompletePhase
  <2>1. /\ at = "complete" /\ UNCHANGED <<final, config, workdir>>
    BY <1>8 DEF CompletePhase
  <2>2. CASE phase = "final"
    <3>1. child = "ok" /\ decoder = "ended"
      BY <2>1, <2>2 DEF PipeInv
    <3>. QED
      BY <1>1, <1>3, <1>8, <2>1, <2>2, <3>1 DEF CompletePhase, MachineType
  <2>3. CASE phase # "final"
    <3>1. child = "none"
      BY <2>1, <2>3 DEF PipeInv
    <3>. QED
      BY <1>1, <1>2, <1>8, <2>1, <2>3, <3>1 DEF CompletePhase, AfterCheck
  <2>. QED
    BY <2>2, <2>3
<1>9. CASE StartFinal
  <2>1. /\ at = "run" /\ phase = "final"
        /\ UNCHANGED <<config, pipe, sent, decoder, content, workdir>>
    BY <1>9 DEF StartFinal
  <2>2. child = "none"
    BY <2>1 DEF PipeInv
  <2>3. CASE Goto("stream") /\ child' = "running"
    <3>1. /\ Listening' = Listening
          /\ Cardinality(Deltas(pipe))' = Cardinality(Deltas(pipe))
      BY <2>1 DEF Listening, Deltas
    <3>. QED
      BY <2>1, <2>2, <2>3, <3>1 DEF PipeType, PipeInv
  <2>. QED
    BY <1>1, <1>9, <2>1, <2>2, <2>3 DEF StartFinal, final
<1>10. CASE ChildWrites
  <2>1. /\ child = "running" /\ Listening /\ ~Closed
        /\ UNCHANGED <<config, machine, child, decoder, content, workdir>>
    BY <1>10 DEF ChildWrites
  <2>2. PICK frame \in Frame : /\ frame = "delta" => sent < MaxDeltas
                               /\ sent' = IF frame = "delta" THEN sent + 1 ELSE sent
                               /\ pipe' = Append(pipe, frame)
    BY <1>10 DEF ChildWrites, Frame
  <2>3. /\ pipe' \in Seq(Frame) /\ Len(pipe') = Len(pipe) + 1 /\ Len(pipe) \in Nat
        /\ \A k \in 1..Len(pipe) : pipe'[k] = pipe[k]
    BY <2>2 DEF PipeType
  <2>4. \A k \in 1..Len(pipe) : pipe[k] # "eof"
    <3>1. Len(pipe) \in 1..Len(pipe) => pipe # <<>>
      BY DEF PipeType
    <3>. QED
      BY <2>1, <2>3, <3>1 DEF PipeInv, Closed
  <2>5. \A k \in 1..Len(pipe') : pipe'[k] = "eof" => k = Len(pipe')
    BY <2>3, <2>4
  <2>6. Cardinality(Deltas(pipe')) = IF frame = "delta" THEN Cardinality(Deltas(pipe)) + 1
                                                        ELSE Cardinality(Deltas(pipe))
    BY <2>2, DeltaWritten DEF PipeType
  <2>7. Cardinality(Deltas(pipe)) \in Nat
    BY DeltasFinite DEF PipeType
  <2>8. sent' \in 0..MaxDeltas
    BY <2>2, ConstantsAssumption DEF PipeType
  <2>9. sent = content + Cardinality(Deltas(pipe)) /\ decoder # "ended"
    BY <2>1 DEF PipeInv, Listening
  <2>10. sent' = content + Cardinality(Deltas(pipe')) /\ content <= sent'
    BY <2>2, <2>6, <2>7, <2>9 DEF PipeType
  <2>11. PipeType'
    BY <2>1, <2>3, <2>8 DEF PipeType
  <2>. QED
    BY <2>1, <2>5, <2>9, <2>10, <2>11
    DEF PipeInv, Deltas, LoopOver, Exhausted
<1>11. CASE ChildExits
  <2>1. /\ child \in {"running", "killed"} /\ child' \in {"ok", "failed"}
        /\ UNCHANGED <<config, machine, sent, decoder, content, workdir>>
        /\ Listening' = Listening
    BY <1>11 DEF ChildExits, Listening
  <2>2. /\ Len(pipe) \in Nat /\ Append(pipe, "eof") \in Seq(Frame)
        /\ Len(Append(pipe, "eof")) = Len(pipe) + 1
        /\ \A k \in 1..Len(pipe) : Append(pipe, "eof")[k] = pipe[k]
    BY DEF PipeType, Frame
  <2>3. Cardinality(Deltas(Append(pipe, "eof"))) = Cardinality(Deltas(pipe))
    BY DeltaWritten DEF PipeType, Frame
  <2>4. CASE Listening /\ ~Closed /\ pipe' = Append(pipe, "eof")
    <3>1. \A k \in 1..Len(pipe) : pipe[k] # "eof"
      <4>1. Len(pipe) \in 1..Len(pipe) => pipe # <<>>
        BY DEF PipeType
      <4>. QED
        BY <2>2, <2>4, <4>1 DEF PipeInv, Closed
    <3>2. \A k \in 1..Len(pipe') : pipe'[k] = "eof" => k = Len(pipe')
      BY <2>2, <2>4, <3>1
    <3>3. Cardinality(Deltas(pipe))' = Cardinality(Deltas(pipe))
      BY <2>3, <2>4 DEF Deltas
    <3>4. decoder # "ended"
      BY <2>4 DEF Listening
    <3>. QED
      BY <2>1, <2>2, <2>4, <3>2, <3>3, <3>4 DEF PipeType, PipeInv, LoopOver, Exhausted
  <2>5. CASE pipe' = pipe
    <3>1. Cardinality(Deltas(pipe))' = Cardinality(Deltas(pipe))
      BY <2>5 DEF Deltas
    <3>. QED
      BY <2>1, <2>5, <3>1 DEF PipeType, PipeInv, LoopOver, Exhausted
  <2>. QED
    BY <1>11, <2>4, <2>5 DEF ChildExits
<1>12. CASE Consume
  <2>1. /\ at = "stream" /\ Listening /\ pipe # <<>>
        /\ UNCHANGED <<config, machine, sent, workdir>>
    BY <1>12 DEF Consume
  <2>2. child # "none" /\ decoder # "ended"
    BY <2>1 DEF PipeInv, Listening
  <2>3. /\ Tail(pipe) \in Seq(Frame) /\ Len(pipe) \in Nat
        /\ Len(Tail(pipe)) = Len(pipe) - 1
        /\ \A k \in 1..Len(Tail(pipe)) : Tail(pipe)[k] = pipe[k + 1]
    BY <2>1 DEF PipeType
  <2>4. Cardinality(Deltas(pipe)) = IF Head(pipe) = "delta"
          THEN Cardinality(Deltas(Tail(pipe))) + 1 ELSE Cardinality(Deltas(Tail(pipe)))
    BY <2>1, DeltaRead DEF PipeType
  <2>5. Cardinality(Deltas(pipe)) \in Nat /\ Cardinality(Deltas(Tail(pipe))) \in Nat
    BY <2>3, DeltasFinite DEF PipeType
  <2>6. \A k \in 1..Len(Tail(pipe)) : Tail(pipe)[k] = "eof" => k = Len(Tail(pipe))
    <3>1. \A k \in 1..Len(Tail(pipe)) : k + 1 \in 1..Len(pipe)
      BY <2>3
    <3>2. \A k \in 1..Len(Tail(pipe)) : k + 1 = Len(pipe) => k = Len(Tail(pipe))
      <4>1. \A m \in Nat : \A k \in Int : k + 1 = m => k = m - 1
        OBVIOUS
      <4>2. \A k \in 1..Len(Tail(pipe)) : k \in Int
        OBVIOUS
      <4>. QED
        BY <2>3, <4>1, <4>2
    <3>. QED
      BY <2>3, <3>1, <3>2 DEF PipeInv
  <2>7. sent = content + Cardinality(Deltas(pipe))
    BY <2>1 DEF PipeInv
  <2>8. CASE /\ pipe' = Tail(pipe) /\ decoder' \in {"reading", "done"} /\ child' = child
             /\ content' = IF Head(pipe) = "delta" THEN content + 1 ELSE content
    <3>1. sent = content' + Cardinality(Deltas(Tail(pipe))) /\ content' \in Nat
          /\ content' <= sent
      BY <2>4, <2>5, <2>7, <2>8 DEF PipeType
    <3>. QED
      BY <2>1, <2>2, <2>3, <2>6, <2>8, <3>1
      DEF PipeType, PipeInv, LoopOver, Exhausted, Deltas
  <2>9. CASE /\ Head(pipe) = "eof" /\ decoder' = "ended" /\ pipe' = <<>>
             /\ UNCHANGED <<content, child>>
    <3>1. pipe[1] = "eof" /\ 1 \in 1..Len(pipe)
      BY <2>1, <2>3, <2>9 DEF PipeType
    <3>2. Len(pipe) = 1
      BY <3>1 DEF PipeInv
    <3>a. Len(Tail(pipe)) = 0
      BY <2>3, <3>2
    <3>b. 1..0 = {}
      OBVIOUS
    <3>3. 1..Len(Tail(pipe)) = {}
      BY <3>a, <3>b
    <3>4. Deltas(Tail(pipe)) = {}
      BY <3>3 DEF Deltas
    <3>5. Cardinality(Deltas(Tail(pipe))) = 0
      BY <3>4, FS_EmptySet
    <3>6. sent = content
      BY <2>4, <2>7, <2>9, <3>5 DEF PipeType
    <3>. QED
      BY <2>1, <2>2, <2>9, <3>6 DEF PipeType, PipeInv, LoopOver, Exhausted, Listening
  <2>10. CASE Reject /\ UNCHANGED content
    BY <2>1, <2>2, <2>10 DEF Reject, PipeType, PipeInv, LoopOver, Exhausted, Listening
  <2>. QED
    BY <1>12, <2>8, <2>9, <2>10 DEF Consume
<1>13. CASE Settle
  <2>1. /\ at = "stream" /\ child \in {"ok", "failed"} /\ phase = "final"
        /\ UNCHANGED <<config, final, workdir>>
    BY <1>13 DEF Settle, MachineInv
  <2>2. ASSUME NEW code \in Code, RecordFailure(code)
        PROVE  PipeType' /\ PipeInv'
    BY <1>1, <2>1, <2>2
  <2>3. CASE decoder = "ended" /\ child = "ok" /\ Goto("complete")
    <3>1. /\ UNCHANGED <<child, pipe, sent, decoder, content>>
          /\ Listening' = Listening /\ Cardinality(Deltas(pipe))' = Cardinality(Deltas(pipe))
      BY <2>1 DEF final, Listening, Deltas
    <3>. QED
      BY <2>1, <2>3, <3>1 DEF PipeType, PipeInv
  <2>. QED
    BY <1>13, <2>2, <2>3 DEF Settle
<1>14. CASE Report \/ Cleanup
  <2>1. /\ at \in {"report", "cleanup"} /\ UNCHANGED <<final, config, phase, step, stopReason>>
        /\ at' \in {"cleanup", "end"} /\ workdir' \in BOOLEAN
        /\ at' # "end" => workdir' = workdir
    BY <1>14 DEF Report, Cleanup, MachineType
  <2>2. child \notin {"running", "killed"}
    BY <2>1 DEF PipeInv
  <2>3. CASE child = "none"
    <3>1. /\ UNCHANGED <<child, pipe, sent, decoder, content>>
          /\ Listening' = Listening /\ Cardinality(Deltas(pipe))' = Cardinality(Deltas(pipe))
      BY <2>1 DEF final, Listening, Deltas
    <3>. QED
      BY <2>1, <2>3, <3>1 DEF PipeType, PipeInv
  <2>. QED
    BY <1>3, <2>1, <2>2, <2>3
<1>15. CASE ChannelBreaks \/ Straggle \/ UNCHANGED vars
  BY <1>4, <1>15 DEF ChannelBreaks, Straggle, vars
<1>. QED
  BY <1>5, <1>6, <1>7, <1>8, <1>9, <1>10, <1>11, <1>12, <1>13, <1>14, <1>15
  DEF Next, Step

------------------------------------------------------------------------------
(* The events *)

EventName == {"session.started", "phase.started", "phase.completed", "final.delta",
              "session.failed", "session.completed"}
EventPhase == Phase \cup {"none"}
EventInfo == Code \cup {"", "continue", "stop", "max_step_exhausted", "final", "max_step"}
EventRecord == [type : EventName, phase : EventPhase, n : Nat, info : EventInfo]
EventType == events \in Seq(EventRecord)
DeltaEvents == {k \in DOMAIN events : events[k].type = "final.delta"}
Terminal == {"session.completed", "session.failed"}

LEMMA Names ==
  /\ \A p \in Phase : p \in EventPhase
  /\ \A c \in Code : c \in EventInfo
BY DEF EventPhase, EventInfo

\* What a write does to the stream.
LEMMA Wrote ==
  ASSUME EventType, NEW e \in EventRecord, Written(e)
  PROVE  /\ EventType' /\ events' # <<>> /\ Last' = e
         /\ Len(events) \in Nat /\ Len(events') = Len(events) + 1
         /\ \A k \in 1..Len(events) : events'[k] = events[k]
         /\ events'[Len(events) + 1] = e
         /\ channel = "open"
BY DEF EventType, Written, Last

LEMMA DeltasCounted ==
  ASSUME EventType, NEW e \in EventRecord, Written(e)
  PROVE  Cardinality(DeltaEvents)' = IF e.type = "final.delta"
                                     THEN Cardinality(DeltaEvents) + 1
                                     ELSE Cardinality(DeltaEvents)
<1>. DEFINE n == Len(events)
<1>1. /\ n \in Nat /\ Len(events') = n + 1 /\ events'[n + 1] = e
      /\ \A k \in 1..n : events'[k] = events[k]
      /\ DOMAIN events = 1..n /\ DOMAIN events' = 1..(n + 1)
  BY Wrote DEF EventType
<1>. HIDE DEF n
<1>2. n + 1 \notin 1..n /\ 1..(n + 1) = (1..n) \cup {n + 1}
  BY <1>1
<1>3. DeltaEvents' = IF e.type = "final.delta" THEN DeltaEvents \cup {n + 1} ELSE DeltaEvents
  BY <1>1, <1>2 DEF DeltaEvents
<1>4. IsFiniteSet(1..n) /\ DeltaEvents \in SUBSET (1..n)
  BY <1>1, FS_Interval DEF DeltaEvents
<1>5. IsFiniteSet(DeltaEvents)
  BY <1>4, FS_Subset
<1>6. n + 1 \notin DeltaEvents
  BY <1>1, <1>2 DEF DeltaEvents
<1>7. Cardinality(DeltaEvents \cup {n + 1}) = Cardinality(DeltaEvents) + 1
  BY <1>5, <1>6, FS_AddElement
<1>8. (Cardinality(DeltaEvents))' = Cardinality(DeltaEvents')
  OBVIOUS
<1>. QED
  BY <1>3, <1>7, <1>8

\* The terminal event is the last one, written by Report alone, and the exit
\* code says the same.
EndInv ==
  /\ Cardinality(DeltaEvents) = content
  /\ Terminated => at \in {"cleanup", "end"}
  /\ at \in {"cleanup", "end"} =>
       /\ exit = 0 <=> (Terminated /\ Last.type = "session.completed")
       /\ channel = "open" => Terminated
  /\ Terminated /\ Last.type = "session.completed" /\ config.final =>
       child = "ok" /\ decoder = "ended"

LEMMA Verdicts ==
  ASSUME MachineType, MachineInv, at = "report"
  PROVE  /\ Verdict \in EventRecord /\ Verdict.type \in Terminal
         /\ Verdict.type = "session.completed" <=> (LoopOver /\ ~Exhausted)
<1>1. Exhausted => Verdict = Event("session.failed", "check", step, "max_step_exhausted")
  BY DEF Verdict
<1>2. step \in Nat
  BY ConstantsAssumption DEF MachineType
<1>3. CASE Exhausted
  <2>1. Event("session.failed", "check", step, "max_step_exhausted") \in EventRecord
    BY <1>2 DEF Phase, Event, EventRecord, EventName, EventPhase, EventInfo
  <2>2. Verdict.type = "session.failed"
    BY <1>1, <1>3 DEF Event
  <2>. QED
    BY <1>1, <1>3, <2>1, <2>2 DEF Terminal
<1>4. CASE ~Exhausted /\ stopReason = "error"
  <2>1. Verdict = Event("session.failed", failure.phase, step, failure.code)
    BY <1>4 DEF Verdict
  <2>2. failure.phase \in Phase /\ failure.code \in Code
    BY <1>4 DEF MachineInv, Failed
  <2>. QED
    BY <1>2, <1>4, <2>1, <2>2
    DEF Terminal, LoopOver, Event, EventRecord, EventName, EventPhase, EventInfo
<1>5. CASE ~Exhausted /\ stopReason # "error"
  <2>1. Verdict = Event("session.completed", "none", step, stopReason)
    BY <1>5 DEF Verdict
  <2>2. stopReason \in {"final", "max_step"}
    BY <1>5 DEF MachineInv, MachineType
  <2>. QED
    BY <1>2, <1>5, <2>1, <2>2
    DEF Terminal, LoopOver, Event, EventRecord, EventName, EventPhase, EventInfo
<1>. QED
  BY <1>3, <1>4, <1>5

LEMMA NextEnd ==
  ASSUME MachineType, MachineInv, PipeType, PipeInv, EventType, EndInv,
         [Next]_vars
  PROVE  EventType' /\ EndInv'
<1>0. step \in Nat /\ MaxStep \in Nat /\ content \in Nat
  BY ConstantsAssumption DEF MachineType, PipeType
<1>1. ASSUME NEW e \in EventRecord, Written(e), e.type \notin Terminal,
             e.type = "final.delta" => content' = content + 1,
             e.type # "final.delta" => content' = content,
             at' \notin {"cleanup", "end"}
      PROVE  EventType' /\ EndInv'
  <2>1. EventType' /\ Last' = e /\ ~Terminated'
    BY <1>1, Wrote DEF Terminated, Terminal
  <2>2. (Cardinality(DeltaEvents) = content)'
    BY <1>1, DeltasCounted DEF EndInv
  <2>. QED
    BY <1>1, <2>1, <2>2 DEF EndInv
<1>2. ASSUME UNCHANGED <<events, content>>,
             at \notin {"cleanup", "end"}, at' \notin {"cleanup", "end"}
      PROVE  EventType' /\ EndInv'
  <2>1. EventType' /\ DeltaEvents' = DeltaEvents /\ Terminated' = Terminated
    BY <1>2 DEF EventType, DeltaEvents, Terminated, Last
  <2>. QED
    BY <1>2, <2>1 DEF EndInv
<1>3. ASSUME UNCHANGED <<events, content, config, child, decoder, at, exit>>,
             channel' \in {channel, "broken"}
      PROVE  EventType' /\ EndInv'
  <2>1. /\ EventType' /\ DeltaEvents' = DeltaEvents /\ Terminated' = Terminated
        /\ Last' = Last
    BY <1>3 DEF EventType, DeltaEvents, Terminated, Last
  <2>. QED
    BY <1>3, <2>1 DEF EndInv
<1>. USE DEF Goto, Enter, machine, Unwritten
<1>4. CASE Open
  <2>1. CASE Written(Event("session.started", "none", MaxStep, "")) /\ Goto("next")
    <3>1. /\ Event("session.started", "none", MaxStep, "") \in EventRecord
          /\ content' = content
      BY <1>0, <1>4 DEF Open, final, Event, EventRecord, EventName, EventPhase, EventInfo
    <3>. QED
      BY <1>0, <1>1, <2>1, <3>1 DEF Terminal, Event, EventRecord, EventName, EventPhase, EventInfo
  <2>2. CASE Unwritten /\ Goto("cleanup") /\ exit' = 1
    <3>1. UNCHANGED <<events, content, channel>> /\ ~Terminated /\ channel = "broken"
      BY <1>4, <2>2 DEF Open, EndInv, final
    <3>2. /\ EventType' /\ DeltaEvents' = DeltaEvents /\ Terminated' = Terminated
      BY <3>1 DEF EventType, DeltaEvents, Terminated, Last
    <3>. QED
      BY <2>2, <3>1, <3>2 DEF EndInv
  <2>. QED
    BY <1>4, <2>1, <2>2 DEF Open
<1>5. CASE Proceed
  BY <1>2, <1>5 DEF Proceed, final
<1>6. CASE StartPhase
  <2>1. /\ Event("phase.started", phase, step, "") \in EventRecord
        /\ Event("phase.started", phase, step, "").type = "phase.started"
        /\ content' = content /\ at = "start"
    <3>1. phase \in EventPhase /\ UNCHANGED content /\ at = "start"
      BY <1>6, Names DEF StartPhase, final, MachineType
    <3>. QED
      BY <1>0, <3>1 DEF Event, EventRecord, EventName, EventPhase, EventInfo
  <2>. QED
    BY <1>1, <1>2, <1>6, <2>1 DEF Terminal, StartPhase, RecordFailure
<1>7. CASE RunThought \/ RunObserve \/ Register \/ RunCheck \/ RegisterFails
  <2>1. /\ UNCHANGED <<events, final>> /\ at \in {"run", "register"}
    BY <1>7 DEF RunThought, RunObserve, Register, RunCheck, RegisterFails
  <2>2. at' \in {"complete", "next", "register"}
    <3>1. ASSUME NEW code, RecordFailure(code) PROVE at' = "next"
      BY <3>1 DEF RecordFailure
    <3>2. CASE RunThought
      BY <3>1, <3>2 DEF RunThought
    <3>3. CASE RunObserve
      BY <3>1, <3>3 DEF RunObserve
    <3>4. CASE Register \/ RegisterFails
      BY <3>1, <3>4 DEF Register, RegisterFails
    <3>5. CASE RunCheck
      BY <3>1, <3>5 DEF RunCheck
    <3>. QED
      BY <1>7, <3>2, <3>3, <3>4, <3>5
  <2>. QED
    BY <1>2, <2>1, <2>2 DEF final
<1>8. CASE CompletePhase
  <2>. DEFINE e == Event("phase.completed", phase, step,
                         IF phase # "check" THEN "" ELSE IF goOn THEN "continue" ELSE "stop")
  <2>1. /\ e \in EventRecord /\ e.type = "phase.completed"
        /\ UNCHANGED content /\ at = "complete"
    <3>1. (IF phase # "check" THEN "" ELSE IF goOn THEN "continue" ELSE "stop") \in EventInfo
      BY DEF EventInfo
    <3>2. phase \in EventPhase /\ UNCHANGED content /\ at = "complete"
      BY <1>8, Names DEF CompletePhase, final, MachineType
    <3>. QED
      BY <1>0, <3>1, <3>2 DEF Event, EventRecord, EventName, EventPhase, EventInfo
  <2>2. at' \in {"start", "next", "report"}
    BY <1>8 DEF CompletePhase, RecordFailure, AfterCheck
  <2>3. Written(e) \/ UNCHANGED events
    BY <1>8 DEF CompletePhase
  <2>. HIDE DEF e
  <2>. QED
    BY <1>1, <1>2, <2>1, <2>2, <2>3 DEF Terminal
<1>9. CASE StartFinal
  BY <1>2, <1>9 DEF StartFinal, RecordFailure
<1>10. CASE Consume
  <2>1. at = "stream" /\ at' = "stream"
    BY <1>10 DEF Consume
  <2>2. \/ /\ Written(Event("final.delta", "final", content + 1, ""))
           /\ content' = content + 1
        \/ UNCHANGED <<events, content>>
    BY <1>10 DEF Consume
  <2>3. Event("final.delta", "final", content + 1, "") \in EventRecord
        /\ Event("final.delta", "final", content + 1, "").type = "final.delta"
    <3>1. content + 1 \in Nat
      BY <1>0
    <3>. QED
      BY <3>1 DEF Event, EventRecord, EventName, EventPhase, EventInfo, Phase
  <2>. QED
    BY <1>1, <1>2, <2>1, <2>2, <2>3 DEF Terminal
<1>11. CASE ChildWrites \/ ChildExits
  <2>1. /\ UNCHANGED <<events, content, at>> /\ child \in {"running", "killed"}
    BY <1>11 DEF ChildWrites, ChildExits
  <2>2. at = "stream"
    BY <2>1 DEF PipeInv
  <2>. QED
    BY <1>2, <2>1, <2>2
<1>12. CASE Settle
  BY <1>2, <1>12 DEF Settle, RecordFailure, final
<1>13. CASE Report
  <2>1. /\ Verdict \in EventRecord /\ Verdict.type \in Terminal
        /\ Verdict.type = "session.completed" <=> (LoopOver /\ ~Exhausted)
    BY <1>13, Verdicts DEF Report
  <2>2. /\ at = "report" /\ at' = "cleanup"
        /\ UNCHANGED <<config, channel, child, decoder, content>>
    BY <1>13 DEF Report, final
  <2>3. CASE Written(Verdict) /\ exit' = IF Verdict.type = "session.completed" THEN 0 ELSE 1
    <3>1. EventType' /\ Last' = Verdict /\ Terminated' /\ events' # <<>>
      BY <2>1, <2>3, Wrote DEF Terminated, Terminal
    <3>2. (Cardinality(DeltaEvents) = content)'
      BY <2>1, <2>2, <2>3, DeltasCounted DEF EndInv, Terminal
    <3>3. Verdict.type = "session.completed" /\ config.final => child = "ok" /\ decoder = "ended"
      BY <2>1, <2>2 DEF PipeInv
    <3>. QED
      BY <2>1, <2>2, <2>3, <3>1, <3>2, <3>3 DEF EndInv, Terminal
  <2>4. CASE Unwritten /\ exit' = 1
    <3>1. /\ EventType' /\ DeltaEvents' = DeltaEvents /\ Terminated' = Terminated
          /\ channel = "broken"
      BY <2>2, <2>4 DEF EventType, DeltaEvents, Terminated, Last
    <3>2. ~Terminated
      BY <2>2 DEF EndInv
    <3>. QED
      BY <2>2, <2>4, <3>1, <3>2 DEF EndInv
  <2>. QED
    BY <1>13, <2>3, <2>4 DEF Report
<1>14. CASE Cleanup
  <2>1. /\ at = "cleanup" /\ at' = "end"
        /\ UNCHANGED <<events, content, config, child, decoder, exit, channel>>
    BY <1>14 DEF Cleanup, final
  <2>2. /\ EventType' /\ DeltaEvents' = DeltaEvents /\ Terminated' = Terminated
        /\ Last' = Last
    BY <2>1 DEF EventType, DeltaEvents, Terminated, Last
  <2>. QED
    BY <2>1, <2>2 DEF EndInv
<1>15. CASE ChannelBreaks \/ Straggle \/ UNCHANGED vars
  <2>1. /\ UNCHANGED <<events, content, config, child, decoder, at, exit>>
        /\ channel' \in {channel, "broken"}
    BY <1>15 DEF ChannelBreaks, Straggle, vars, final
  <2>. QED
    BY <1>3, <2>1
<1>. QED
  BY <1>4, <1>5, <1>6, <1>7, <1>8, <1>9, <1>10, <1>11, <1>12, <1>13, <1>14, <1>15
  DEF Next, Step

LastIs(e) == events # <<>> /\ Last = e

BeforeIteration ==
  \/ step = 0 /\ LastIs(Event("session.started", "none", MaxStep, ""))
  \/ step > 0 /\ LastIs(Event("phase.completed", "check", step - 1, "continue"))

AfterLoop ==
  /\ step > 0
  /\ \/ stopReason = "final" /\ LastIs(Event("phase.completed", "check", step - 1, "stop"))
     \/ /\ stopReason = "max_step" /\ step = MaxStep
        /\ LastIs(Event("phase.completed", "check", step - 1, "continue"))

InFailed ==
  \/ LastIs(Event("phase.started", failure.phase, step, ""))
  \/ /\ failure.phase = "final"
     /\ events # <<>> /\ Last.type = "final.delta" /\ Last.phase = "final"

Streamed ==
  \/ content = 0 /\ LastIs(Event("phase.started", "final", step, ""))
  \/ content > 0 /\ LastIs(Event("final.delta", "final", content, ""))

\* As long as stdout can be written, the last event says where the session is.
Tracks ==
  channel = "open" =>
    /\ at = "open" => events = <<>>
    /\ at = "next" /\ stopReason = "running" => BeforeIteration
    /\ at = "start" /\ phase = "thought" => BeforeIteration
    /\ at = "start" /\ phase = "observe" =>
         LastIs(Event("phase.completed", "thought", step, ""))
    /\ at = "start" /\ phase = "check" =>
         LastIs(Event("phase.completed", "observe", step, ""))
    /\ at = "next" /\ LoopOver => AfterLoop
    /\ at = "start" /\ phase = "final" => AfterLoop
    /\ at = "report" /\ LoopOver =>
         IF config.final /\ ~Exhausted
         THEN LastIs(Event("phase.completed", "final", step, ""))
         ELSE AfterLoop
    /\ at \in {"run", "register"} => LastIs(Event("phase.started", phase, step, ""))
    /\ at = "complete" /\ phase # "final" => LastIs(Event("phase.started", phase, step, ""))
    /\ at \in {"stream", "complete"} /\ phase = "final" => Streamed
    /\ at \in {"next", "report"} /\ stopReason = "error" => InFailed

LEMMA Lengthens ==
  ASSUME EventType, NEW e \in EventRecord, Written(e), StreamIsLegal,
         events = <<>> => e.type = "session.started",
         events # <<>> => MayFollow(Last, e)
  PROVE  StreamIsLegal'
<1>1. /\ events' # <<>> /\ Len(events) \in Nat /\ Len(events') = Len(events) + 1
      /\ \A k \in 1..Len(events) : events'[k] = events[k]
      /\ events'[Len(events) + 1] = e
  BY Wrote
<1>2. events = <<>> <=> Len(events) = 0
  BY DEF EventType
<1>3. events'[1].type = "session.started"
  BY <1>1, <1>2 DEF StreamIsLegal
<1>4. ASSUME NEW k \in 2..Len(events') PROVE MayFollow(events'[k - 1], events'[k])
  <2>1. CASE k = Len(events) + 1
    <3>1. k - 1 = Len(events) /\ k - 1 \in 1..Len(events) /\ events # <<>>
      BY <1>1, <1>2, <2>1
    <3>2. events'[k - 1] = Last /\ events'[k] = e
      BY <1>1, <2>1, <3>1 DEF Last
    <3>. QED
      BY <3>1, <3>2
  <2>2. CASE k \in 2..Len(events)
    <3>1. k \in 1..Len(events) /\ k - 1 \in 1..Len(events)
      BY <1>1, <2>2
    <3>2. events'[k - 1] = events[k - 1] /\ events'[k] = events[k]
      BY <1>1, <3>1
    <3>. QED
      BY <2>2, <3>2 DEF StreamIsLegal
  <2>. QED
    BY <1>1, <1>4, <2>1, <2>2
<1>5. (\A k \in 2..Len(events) : MayFollow(events[k - 1], events[k]))'
  BY <1>4 DEF MayFollow
<1>. QED
  BY <1>3, <1>5 DEF StreamIsLegal

\* What the protocol lets follow what the session writes.
LEMMA FollowsStart ==
  MayFollow(Event("session.started", "none", MaxStep, ""), Event("phase.started", "thought", 0, ""))
BY DEF MayFollow, Event

LEMMA FollowsPhase ==
  ASSUME NEW p, NEW n, NEW i
  PROVE  /\ MayFollow(Event("phase.started", p, n, ""), Event("phase.completed", p, n, i))
         /\ MayFollow(Event("phase.started", p, n, ""), Event("session.failed", p, n, i))
BY DEF MayFollow, Event

LEMMA FollowsDelta ==
  ASSUME NEW n \in Nat, NEW m, NEW i
  PROVE  /\ MayFollow(Event("phase.started", "final", m, ""), Event("final.delta", "final", 1, ""))
         /\ MayFollow(Event("final.delta", "final", n, ""),
                      Event("final.delta", "final", n + 1, ""))
         /\ MayFollow(Event("final.delta", "final", n, ""), Event("phase.completed", "final", m, i))
BY DEF MayFollow, Event

LEMMA FollowsBroken ==
  ASSUME NEW e, e.type = "final.delta", e.phase = "final", NEW n, NEW i
  PROVE  MayFollow(e, Event("session.failed", "final", n, i))
BY DEF MayFollow, Event

LEMMA FollowsTurn ==
  ASSUME NEW n
  PROVE  /\ MayFollow(Event("phase.completed", "thought", n, ""),
                      Event("phase.started", "observe", n, ""))
         /\ MayFollow(Event("phase.completed", "observe", n, ""),
                      Event("phase.started", "check", n, ""))
BY DEF MayFollow, Event

LEMMA FollowsCheck ==
  ASSUME NEW n \in Nat, n > 0, n < MaxStep
  PROVE  MayFollow(Event("phase.completed", "check", n - 1, "continue"),
                   Event("phase.started", "thought", n, ""))
<1>1. (n - 1) + 1 = n
  OBVIOUS
<1>. QED
  BY <1>1 DEF MayFollow, Event

LEMMA FollowsLoop ==
  ASSUME NEW n \in Nat, n > 0, NEW i, i = "stop" \/ n = MaxStep, NEW j
  PROVE  /\ MayFollow(Event("phase.completed", "check", n - 1, i),
                      Event("phase.started", "final", n, ""))
         /\ MayFollow(Event("phase.completed", "check", n - 1, i),
                      Event("session.completed", "none", n, j))
         /\ i = "continue" => MayFollow(Event("phase.completed", "check", n - 1, i),
                                        Event("session.failed", "check", n, j))
<1>1. (n - 1) + 1 = n
  OBVIOUS
<1>. QED
  BY <1>1 DEF MayFollow, Event

LEMMA FollowsFinal ==
  ASSUME NEW n, NEW j
  PROVE  MayFollow(Event("phase.completed", "final", n, ""),
                   Event("session.completed", "none", n, j))
BY DEF MayFollow, Event

LEMMA NextStream ==
  ASSUME MachineType, MachineInv, MachineType', MachineInv', PipeType, PipeInv, EventType,
         Tracks, StreamIsLegal, [Next]_vars
  PROVE  Tracks' /\ StreamIsLegal'
<1>0. step \in Nat /\ step <= MaxStep /\ MaxStep \in Nat \ {0} /\ content \in Nat
  BY ConstantsAssumption DEF MachineType, PipeType
<1>1. ASSUME UNCHANGED events
      PROVE  StreamIsLegal' /\ Last' = Last /\ (events' = <<>> <=> events = <<>>)
  <2>1. events' = events
    BY <1>1
  <2>2. Last' = Last
    BY <2>1 DEF Last
  <2>3. (\A k \in 2..Len(events) : MayFollow(events[k - 1], events[k]))'
          <=> (\A k \in 2..Len(events) : MayFollow(events[k - 1], events[k]))
    BY <2>1 DEF MayFollow
  <2>. QED
    BY <2>1, <2>2, <2>3 DEF StreamIsLegal
<1>2. ASSUME UNCHANGED events, channel' = "broken"
      PROVE  Tracks' /\ StreamIsLegal'
  BY <1>1, <1>2 DEF Tracks
<1>3. channel' = channel \/ (channel' = "broken" /\ UNCHANGED events)
  BY DEF Next, Step, vars, Open, Proceed, StartPhase, RunThought, RunObserve, Register,
         RunCheck, CompletePhase, StartFinal, Consume, Settle, Report, Cleanup,
         RegisterFails, ChildWrites, ChildExits, ChannelBreaks, Straggle
<1>4. ASSUME UNCHANGED <<events, config, machine, content>>, channel' = channel
      PROVE  Tracks' /\ StreamIsLegal'
  <2>1. /\ UNCHANGED <<at, phase, step, stopReason, failure, config, content, events, channel>>
        /\ Last' = Last
    BY <1>1, <1>4 DEF machine
  <2>2. BeforeIteration' = BeforeIteration /\ AfterLoop' = AfterLoop /\ InFailed' = InFailed
        /\ Streamed' = Streamed /\ LoopOver' = LoopOver /\ Exhausted' = Exhausted
    BY <2>1 DEF BeforeIteration, AfterLoop, InFailed, Streamed, LastIs, LoopOver, Exhausted
  <2>. QED
    BY <1>1, <1>4, <2>1, <2>2 DEF Tracks, LastIs
<1>5. ASSUME channel = "broken", channel' = channel
      PROVE  Tracks' /\ StreamIsLegal'
  <2>1. UNCHANGED events
    <3>1. \A e : ~Written(e)
      BY <1>5 DEF Written
    <3>2. CASE Open \/ StartPhase \/ CompletePhase \/ Report
      BY <3>1, <3>2 DEF Open, StartPhase, CompletePhase, Report, Unwritten
    <3>3. CASE Consume
      BY <3>1, <3>3 DEF Consume
    <3>4. CASE \/ Proceed \/ RunThought \/ RunObserve \/ Register \/ RunCheck
               \/ StartFinal \/ Settle \/ Cleanup
      BY <3>4 DEF Proceed, RunThought, RunObserve, Register, RunCheck, StartFinal, Settle,
         Cleanup
    <3>5. CASE \/ RegisterFails \/ ChildWrites \/ ChildExits \/ ChannelBreaks \/ Straggle
               \/ UNCHANGED vars
      BY <3>5 DEF RegisterFails, ChildWrites, ChildExits, ChannelBreaks, Straggle, vars
    <3>. QED
      BY <3>2, <3>3, <3>4, <3>5 DEF Next, Step
  <2>. QED
    BY <1>2, <1>5, <2>1
<1>6. SUFFICES ASSUME channel = "open", channel' = "open"
               PROVE  Tracks' /\ StreamIsLegal'
  BY <1>2, <1>3, <1>5 DEF MachineType
<1>7. ~Unwritten
  BY <1>6 DEF Unwritten
\* A failure is recorded in the phase that was started last.
<1>8. ASSUME NEW code \in Code, RecordFailure(code), UNCHANGED events,
             \/ LastIs(Event("phase.started", phase, step, ""))
             \/ /\ phase = "final"
                /\ events # <<>> /\ Last.type = "final.delta" /\ Last.phase = "final"
      PROVE  Tracks' /\ StreamIsLegal'
  <2>1. /\ at' = "next" /\ stopReason' = "error" /\ phase' = phase /\ step' = step
        /\ failure'.phase = phase
    BY <1>8, Recorded
  <2>. QED
    BY <1>1, <1>8, <2>1 DEF Tracks, InFailed, LastIs, LoopOver
<1>. USE Codes DEF Goto, Enter
<1>10. CASE Open
  <2>. DEFINE e == Event("session.started", "none", MaxStep, "")
  <2>1. events = <<>> /\ step = 0 /\ stopReason = "running"
    BY <1>6, <1>10 DEF Open, Tracks, MachineInv
  <2>2. Written(e) /\ Goto("next")
    BY <1>7, <1>10 DEF Open
  <2>3. e \in EventRecord /\ e.type = "session.started"
    BY <1>0 DEF Event, EventRecord, EventName, EventPhase, EventInfo
  <2>. HIDE DEF e
  <2>4. StreamIsLegal' /\ Last' = e /\ events' # <<>>
    BY <2>1, <2>2, <2>3, Wrote, Lengthens
  <2>. QED
    BY <2>1, <2>2, <2>4 DEF e, Tracks, BeforeIteration, LastIs, LoopOver
<1>11. CASE Proceed
  BY <1>1, <1>6, <1>11
  DEF Proceed, Tracks, BeforeIteration, AfterLoop, InFailed, LastIs, LoopOver, Exhausted
<1>12. CASE StartPhase
  <2>. DEFINE e == Event("phase.started", phase, step, "")
  <2>1. /\ at = "start" /\ Written(e) /\ Goto("run")
    BY <1>7, <1>12 DEF StartPhase
  <2>2. e \in EventRecord
    BY <1>0, Names DEF MachineType, Event, EventRecord, EventName, EventInfo
  <2>3. events # <<>> /\ MayFollow(Last, e)
    <3>1. CASE phase = "thought"
      <4>1. BeforeIteration /\ step < MaxStep
        BY <1>6, <2>1, <3>1 DEF Tracks, MachineInv
      <4>. QED
        BY <1>0, <3>1, <4>1, FollowsStart, FollowsCheck DEF BeforeIteration, LastIs
    <3>2. CASE phase \in {"observe", "check"}
      BY <1>6, <2>1, <3>2, FollowsTurn DEF Tracks, LastIs
    <3>3. CASE phase = "final"
      <4>1. AfterLoop
        BY <1>6, <2>1, <3>3 DEF Tracks
      <4>. QED
        BY <1>0, <3>3, <4>1, FollowsLoop DEF AfterLoop, LastIs
    <3>. QED
      BY <3>1, <3>2, <3>3 DEF MachineType, Phase
  <2>. HIDE DEF e
  <2>4. StreamIsLegal' /\ Last' = e /\ events' # <<>>
    BY <2>1, <2>2, <2>3, Wrote, Lengthens
  <2>. QED
    BY <2>1, <2>4 DEF e, Tracks, LastIs
<1>13. CASE RunThought \/ RunObserve \/ Register \/ RunCheck \/ RegisterFails
  <2>1. /\ at \in {"run", "register"} /\ phase # "final" /\ UNCHANGED events
    BY <1>13 DEF RunThought, RunObserve, Register, RunCheck, RegisterFails, MachineInv
  <2>2. LastIs(Event("phase.started", phase, step, ""))
    BY <1>6, <2>1 DEF Tracks
  <2>3. \/ \E code \in Code : RecordFailure(code)
        \/ /\ at' \in {"complete", "register"} /\ phase' = phase /\ step' = step
    <3>1. CASE RunThought
      BY <3>1 DEF RunThought
    <3>2. CASE RunObserve
      BY <3>2 DEF RunObserve
    <3>3. CASE Register \/ RegisterFails
      BY <3>3 DEF Register, RegisterFails
    <3>4. CASE RunCheck
      BY <3>4 DEF RunCheck
    <3>. QED
      BY <1>13, <3>1, <3>2, <3>3, <3>4
  <2>4. CASE \E code \in Code : RecordFailure(code)
    BY <1>8, <2>1, <2>2, <2>4
  <2>5. CASE at' \in {"complete", "register"} /\ phase' = phase /\ step' = step
    BY <1>1, <2>1, <2>2, <2>5 DEF Tracks, LastIs
  <2>. QED
    BY <2>3, <2>4, <2>5
<1>14. CASE CompletePhase
  <2>. DEFINE info == IF phase # "check" THEN "" ELSE IF goOn THEN "continue" ELSE "stop"
              e == Event("phase.completed", phase, step, info)
  <2>1. /\ at = "complete" /\ Written(e) /\ UNCHANGED config
        /\ \/ phase = "thought" /\ Enter("observe")
           \/ phase = "observe" /\ Enter("check")
           \/ phase = "check" /\ AfterCheck
           \/ phase = "final" /\ Goto("report")
    BY <1>7, <1>14 DEF CompletePhase
  <2>2. e \in EventRecord
    <3>1. info \in EventInfo
      BY DEF EventInfo
    <3>2. phase \in EventPhase
      BY Names DEF MachineType
    <3>. QED
      BY <1>0, <3>1, <3>2 DEF Event, EventRecord, EventName
  <2>3. events # <<>> /\ MayFollow(Last, e)
    <3>1. CASE phase # "final"
      BY <1>6, <2>1, <3>1, FollowsPhase DEF Tracks, LastIs
    <3>2. CASE phase = "final"
      <4>1. Streamed
        BY <1>6, <2>1, <3>2 DEF Tracks
      <4>. QED
        BY <1>0, <3>2, <4>1, FollowsPhase, FollowsDelta DEF Streamed, LastIs
    <3>. QED
      BY <3>1, <3>2
  <2>. HIDE DEF e
  <2>4. StreamIsLegal' /\ Last' = e /\ events' # <<>>
    BY <2>1, <2>2, <2>3, Wrote, Lengthens
  <2>5. CASE phase = "thought" /\ Enter("observe")
    BY <2>4, <2>5 DEF e, Tracks, LastIs
  <2>6. CASE phase = "observe" /\ Enter("check")
    BY <2>4, <2>6 DEF e, Tracks, LastIs
  <2>7. CASE phase = "check" /\ AfterCheck
    <3>1. stopReason = "running" /\ step < MaxStep
      BY <2>1, <2>7 DEF MachineInv
    <3>2. /\ step' = step + 1 /\ step' - 1 = step /\ step' > 0 /\ at' = "next"
          /\ step + 1 >= MaxStep => step' = MaxStep
      BY <1>0, <2>7, <3>1 DEF AfterCheck
    <3>3. CASE ~goOn
      <4>1. /\ Last' = Event("phase.completed", "check", step' - 1, "stop")
            /\ stopReason' = "final"
        BY <2>4, <2>7, <3>2, <3>3 DEF e, AfterCheck
      <4>. QED
        BY <2>4, <3>2, <4>1 DEF Tracks, AfterLoop, LoopOver, LastIs
    <3>4. CASE goOn
      BY <2>4, <2>7, <3>2, <3>4
      DEF e, Tracks, AfterLoop, BeforeIteration, LoopOver, LastIs, AfterCheck
    <3>. QED
      BY <3>3, <3>4
  <2>8. CASE phase = "final" /\ Goto("report")
    <3>1. LoopOver /\ ~Exhausted /\ config.final
      BY <2>1, <2>8 DEF MachineInv
    <3>2. LoopOver' /\ ~Exhausted' /\ config'.final /\ at' = "report" /\ stopReason' # "error"
      BY <2>1, <2>8, <3>1 DEF LoopOver, Exhausted
    <3>. QED
      BY <2>4, <2>8, <3>2 DEF e, Tracks, LastIs
  <2>. QED
    BY <2>1, <2>5, <2>6, <2>7, <2>8
<1>15. CASE StartFinal
  <2>1. at = "run" /\ phase = "final" /\ UNCHANGED <<events, content>>
    BY <1>15 DEF StartFinal
  <2>2. LastIs(Event("phase.started", phase, step, "")) /\ content = 0
    BY <1>6, <2>1 DEF Tracks, PipeInv
  <2>3. CASE Goto("stream")
    BY <1>1, <2>1, <2>2, <2>3 DEF Tracks, Streamed, LastIs
  <2>. QED
    BY <1>8, <1>15, <2>1, <2>2, <2>3 DEF StartFinal
<1>16. CASE Consume
  <2>1. at = "stream" /\ phase = "final" /\ UNCHANGED <<machine, config, at, phase>>
    BY <1>16 DEF Consume, MachineInv, machine
  <2>2. Streamed
    BY <1>6, <2>1 DEF Tracks
  <2>3. CASE UNCHANGED <<events, content>>
    BY <1>4, <1>6, <2>1, <2>3
  <2>4. CASE /\ Written(Event("final.delta", "final", content + 1, ""))
             /\ content' = content + 1
    <3>. DEFINE e == Event("final.delta", "final", content + 1, "")
    <3>1. e \in EventRecord
      <4>1. content + 1 \in Nat
        BY <1>0
      <4>. QED
        BY <4>1 DEF Event, EventRecord, EventName, EventPhase, EventInfo, Phase
    <3>2. events # <<>> /\ MayFollow(Last, e)
      <4>1. CASE content = 0 /\ LastIs(Event("phase.started", "final", step, ""))
        <5>a. content = 0
          BY <4>1
        <5>1. content + 1 = 1
          BY <5>a
        <5>. QED
          BY <4>1, <5>1, FollowsDelta DEF LastIs
      <4>2. CASE LastIs(Event("final.delta", "final", content, ""))
        BY <1>0, <4>2, FollowsDelta DEF LastIs
      <4>. QED
        BY <2>2, <4>1, <4>2 DEF Streamed
    <3>3. Written(e)
      BY <2>4
    <3>. HIDE DEF e
    <3>4. StreamIsLegal' /\ Last' = e /\ events' # <<>>
      BY <3>1, <3>2, <3>3, Wrote, Lengthens
    <3>5. at' = "stream" /\ phase' = "final" /\ content' = content + 1 /\ content' > 0
      <4>1. content + 1 > 0
        BY <1>0
      <4>2. at' = "stream" /\ phase' = "final"
        BY <2>1
      <4>3. content' = content + 1
        BY <2>4
      <4>. QED
        BY <4>1, <4>2, <4>3
    <3>. QED
      BY <3>4, <3>5 DEF e, Tracks, Streamed, LastIs
  <2>. QED
    BY <1>16, <2>3, <2>4 DEF Consume
<1>17. CASE Settle
  <2>1. at = "stream" /\ phase = "final" /\ UNCHANGED <<events, content>>
    BY <1>17 DEF Settle, MachineInv, final
  <2>2. Streamed
    BY <1>6, <2>1 DEF Tracks
  <2>3. \/ LastIs(Event("phase.started", phase, step, ""))
        \/ events # <<>> /\ Last.type = "final.delta" /\ Last.phase = "final"
    <3>1. CASE LastIs(Event("phase.started", "final", step, ""))
      BY <2>1, <3>1
    <3>2. CASE LastIs(Event("final.delta", "final", content, ""))
      BY <3>2 DEF LastIs, Event
    <3>. QED
      BY <2>2, <3>1, <3>2 DEF Streamed
  <2>4. CASE Goto("complete")
    BY <1>1, <2>1, <2>2, <2>4 DEF Tracks, Streamed, LastIs
  <2>. QED
    BY <1>8, <1>17, <2>1, <2>3, <2>4 DEF Settle
<1>18. CASE Report
  <2>1. at = "report" /\ Written(Verdict) /\ at' = "cleanup"
    BY <1>7, <1>18 DEF Report
  <2>2. Verdict \in EventRecord
    BY <2>1, Verdicts
  <2>3. events # <<>> /\ MayFollow(Last, Verdict)
    <3>1. CASE stopReason = "error"
      <4>1. InFailed
        BY <1>6, <2>1, <3>1 DEF Tracks
      <4>2. Verdict = Event("session.failed", failure.phase, step, failure.code)
        BY <3>1 DEF Verdict, Exhausted
      <4>. QED
        BY <4>1, <4>2, FollowsPhase, FollowsBroken DEF InFailed, LastIs
    <3>2. CASE Exhausted
      <4>1. AfterLoop /\ stopReason = "max_step"
        BY <1>6, <2>1, <3>2 DEF Tracks, LoopOver, Exhausted
      <4>2. Verdict = Event("session.failed", "check", step, "max_step_exhausted")
        BY <3>2 DEF Verdict
      <4>. QED
        BY <1>0, <4>1, <4>2, FollowsLoop DEF AfterLoop, LastIs
    <3>3. CASE ~Exhausted /\ stopReason # "error"
      <4>1. Verdict = Event("session.completed", "none", step, stopReason) /\ LoopOver
        BY <2>1, <3>3 DEF Verdict, MachineInv, LoopOver, MachineType
      <4>2. CASE config.final
        <5>1. LastIs(Event("phase.completed", "final", step, ""))
          BY <1>6, <2>1, <3>3, <4>1, <4>2 DEF Tracks
        <5>. QED
          BY <4>1, <5>1, FollowsFinal DEF LastIs
      <4>3. CASE ~config.final
        <5>1. AfterLoop
          BY <1>6, <2>1, <4>1, <4>3 DEF Tracks
        <5>. QED
          BY <1>0, <4>1, <5>1, FollowsLoop DEF AfterLoop, LastIs
      <4>. QED
        BY <4>2, <4>3
    <3>. QED
      BY <3>1, <3>2, <3>3
  <2>4. StreamIsLegal'
    BY <2>1, <2>2, <2>3, Lengthens
  <2>. QED
    BY <2>1, <2>4 DEF Tracks
<1>19. CASE Cleanup
  BY <1>1, <1>19 DEF Cleanup, Tracks
<1>20. CASE ChildWrites \/ ChildExits \/ Straggle \/ UNCHANGED vars
  <2>1. UNCHANGED <<events, config, machine, content>>
    BY <1>20 DEF ChildWrites, ChildExits, Straggle, vars, final
  <2>. QED
    BY <1>4, <1>6, <2>1
<1>21. CASE ChannelBreaks
  BY <1>6, <1>21 DEF ChannelBreaks
<1>. QED
  BY <1>10, <1>11, <1>12, <1>13, <1>14, <1>15, <1>16, <1>17, <1>18, <1>19, <1>20, <1>21
  DEF Next, Step

------------------------------------------------------------------------------
(* The session *)

Inv ==
  /\ MachineType /\ MachineInv
  /\ WorkType /\ RetentionInv
  /\ PipeType /\ PipeInv
  /\ EventType /\ EndInv
  /\ Tracks /\ StreamIsLegal

LEMMA InitInv == Init => Inv
<1>. SUFFICES ASSUME Init PROVE Inv
  OBVIOUS
<1>. USE ConstantsAssumption DEF Init
<1>1. MachineType /\ MachineInv
  BY DEF MachineType, MachineInv, Phase, LoopOver, Exhausted
<1>2. Newest = 0
  <2>1. root \cup {0} = {0}
    OBVIOUS
  <2>2. Max({0}) = 0
    BY MaxIs
  <2>. QED
    BY <2>1, <2>2 DEF Newest
<1>3. WorkType /\ RetentionInv
  <2>1. IsFiniteSet({})
    BY FS_EmptySet
  <2>2. Kept(registered) = {}
    BY DEF Kept
  <2>. QED
    BY <1>2, <2>1, <2>2 DEF WorkType, RetentionInv, RootInv
<1>4. PipeType /\ PipeInv
  <2>1. Deltas(pipe) = {} /\ Len(pipe) = 0
    BY DEF Deltas
  <2>2. Cardinality(Deltas(pipe)) = 0
    BY <2>1, FS_EmptySet
  <2>3. \A k \in 1..Len(pipe) : FALSE
    BY <2>1
  <2>. QED
    BY <2>2, <2>3 DEF PipeType, PipeInv, Listening
<1>5. EventType /\ EndInv
  <2>1. DeltaEvents = {}
    BY DEF DeltaEvents
  <2>2. Cardinality(DeltaEvents) = 0
    BY <2>1, FS_EmptySet
  <2>. QED
    BY <2>2 DEF EventType, EndInv, Terminated
<1>6. Tracks /\ StreamIsLegal
  BY DEF Tracks, StreamIsLegal
<1>. QED
  BY <1>1, <1>3, <1>4, <1>5, <1>6 DEF Inv

LEMMA NextInv == Inv /\ [Next]_vars => Inv'
<1>. SUFFICES ASSUME Inv, [Next]_vars PROVE Inv'
  OBVIOUS
<1>1. MachineType' /\ MachineInv'
  BY NextMachine DEF Inv
<1>2. WorkType' /\ RetentionInv'
  BY NextRetention DEF Inv
<1>3. PipeType' /\ PipeInv'
  BY NextPipe DEF Inv
<1>4. EventType' /\ EndInv'
  BY NextEnd DEF Inv
<1>5. Tracks' /\ StreamIsLegal'
  BY <1>1, NextStream DEF Inv
<1>. QED
  BY <1>1, <1>2, <1>3, <1>4, <1>5 DEF Inv

LEMMA Invariance == Spec => []Inv
BY InitInv, NextInv, PTL DEF Spec

\* Types, and that no iteration beyond max_step is counted whatever fails.
THEOREM TypeCorrect == Spec => []TypeOK
<1>1. Inv => TypeOK
  <2>. SUFFICES ASSUME Inv PROVE TypeOK
    OBVIOUS
  <2>1. content \in 0..sent
    BY ConstantsAssumption DEF Inv, PipeType, PipeInv
  <2>2. root \subseteq Nat
    BY DEF Inv, RetentionInv, RootInv
  <2>. QED
    BY <2>1, <2>2 DEF Inv, TypeOK, MachineType, WorkType, PipeType, Failed, Frame
<1>. QED
  BY <1>1, Invariance, PTL

\* Wherever a phase fails and stdout breaks, what was written is a beginning of
\* a legal session.
THEOREM LegalStream == Spec => []StreamIsLegal
<1>1. Inv => StreamIsLegal
  BY DEF Inv
<1>. QED
  BY <1>1, Invariance, PTL

\* A session is reported as completed, and exits with 0, only with both
\* witnesses and all deltas written; the child has gone by then.
THEOREM WitnessedSuccess == Spec => []SuccessIsWitnessed
<1>1. Inv => SuccessIsWitnessed
  <2>. SUFFICES ASSUME Inv PROVE SuccessIsWitnessed
    OBVIOUS
  <2>1. ASSUME Terminated, Last.type = "session.completed", config.final
        PROVE  /\ child = "ok" /\ decoder = "ended"
               /\ Cardinality({k \in DOMAIN events : events[k].type = "final.delta"}) = sent
    <3>1. child = "ok" /\ decoder = "ended"
      BY <2>1 DEF Inv, EndInv
    <3>2. sent = content
      BY <3>1 DEF Inv, PipeInv
    <3>. QED
      BY <3>1, <3>2 DEF Inv, EndInv, DeltaEvents
  <2>2. at = "end" => /\ exit = 0 <=> (Terminated /\ Last.type = "session.completed")
                      /\ channel = "open" => Terminated
    BY DEF Inv, EndInv
  <2>3. at = "end" \/ ~workdir => child \notin {"running", "killed"}
    BY DEF Inv, PipeInv
  <2>. QED
    BY <2>1, <2>2, <2>3 DEF SuccessIsWitnessed
<1>. QED
  BY <1>1, Invariance, PTL

\* Retention keeps exactly the most recent observations, for every carryover
\* and any number of iterations, and fails no session that nobody disturbed.
THEOREM RecentStay == Spec => []RecentObservationsStay
<1>1. Inv => RecentObservationsStay
  <2>. SUFFICES ASSUME Inv PROVE RecentObservationsStay
    OBVIOUS
  <2>1. registered \cap root =
          {i \in registered : Cardinality({j \in registered : j > i}) < config.carryover}
    BY DEF Inv, RetentionInv, Kept
  <2>2. archived \cap root = {}
    BY DEF Inv, RetentionInv
  <2>3. failure # None /\ failure.phase = "observe" /\ failure.code = "internal_error" =>
          disturbed \/ channel = "broken"
    BY DEF Inv, RetentionInv
  <2>. QED
    BY <2>1, <2>2, <2>3 DEF RecentObservationsStay
<1>. QED
  BY <1>1, Invariance, PTL

=============================================================================
