--------------------------- MODULE Algorithms_proofs ---------------------------
(***************************************************************************)
(* What the algorithms without state guarantee for every input.            *)
(*                                                                         *)
(* The first part proves, for every output policy and every file system,   *)
(* that a completion is accepted exactly when what it writes is separate.  *)
(* The others need induction over sequences.  The induction theorems of    *)
(* the library take an operator as a parameter, so the second part proves  *)
(* induction over a set from the well-foundedness of strict inclusion on   *)
(* the subsets of a finite set, and from it that a fold over a sequence is *)
(* what it is meant to be: a value for each prefix, each from the one      *)
(* before.  The third part proves that every phase of a session reads and  *)
(* writes what the session was configured with.  The fourth shows,         *)
(* chunk by chunk, that a stream knows of the text read so far what it     *)
(* would know of it at once.  The fifth follows the calls of an answer     *)
(* from the pieces they are streamed in to the request that carries them   *)
(* with their results, and the last a search from the files of a turn to   *)
(* what is reported of the archives.                                       *)
(***************************************************************************)
EXTENDS Algorithms, FiniteSetTheorems, SequenceTheorems, WellFoundedInduction, TLAPS

------------------------------------------------------------------------------
(* Output targets: OutputTargets *)

\* A path's identity by its name alone decides its identity by its real path.
LEMMA LexicalDecides ==
  ASSUME NEW policy, NEW world, OutputIsSane(policy, world), NEW d, NEW e,
         Fold(world, d) = Fold(world, e)
  PROVE  Fold(world, RealDirectory(world, d)) = Fold(world, RealDirectory(world, e))
<1>1. \A x : Fold(world, RealDirectory(world, x))
                = Fold(world, RealDirectory(world, Fold(world, x)))
  BY DEF OutputIsSane, Fold
<1> QED BY <1>1

\* The real path of a real path is itself.
LEMMA RealOfReal ==
  ASSUME NEW policy, NEW world, OutputIsSane(policy, world), NEW d
  PROVE  RealDirectory(world, RealDirectory(world, d)) = RealDirectory(world, d)
BY DEF OutputIsSane, RealDirectory

\* Two names that are one file's are one name, if it is an artifact's.
LEMMA ArtifactNames ==
  ASSUME NEW policy, NEW world, OutputIsSane(policy, world),
         NEW a \in world.artifacts, NEW n
  PROVE  Fold(world, n) = Fold(world, a) <=> n = a
<1>1. Fold(world, a) = a
  BY DEF OutputIsSane, Fold
<1>2. Fold(world, n) = a => n = a
  BY DEF OutputIsSane, Fold
<1> QED BY <1>1, <1>2

\* The identity of a path that is in a directory.
LEMMA RealTargetIn ==
  ASSUME NEW policy, NEW world, OutputIsSane(policy, world), NEW t, NEW d
  PROVE  /\ TargetIdentity(world, TRUE, t.path) = FileOf(world, t.path)
         /\ TargetIdentity(world, TRUE, t.path)[1] = DirectoryIdentity(world, t.path[1])
         /\ TargetIdentity(world, FALSE, t.path)[1] = DirectoryIdentity(world, d)
               => FileOf(world, t.path)[1] = DirectoryIdentity(world, d)
         /\ FileOf(world, t.path) = <<DirectoryIdentity(world, t.path[1]), Fold(world, t.path[2])>>
<1>1. /\ TargetIdentity(world, TRUE, t.path) = FileOf(world, t.path)
      /\ TargetIdentity(world, TRUE, t.path)[1] = DirectoryIdentity(world, t.path[1])
      /\ FileOf(world, t.path) = <<DirectoryIdentity(world, t.path[1]), Fold(world, t.path[2])>>
  BY DEF TargetIdentity, FileOf, CanonicalIdentity, DirectoryIdentity
<1>2. ASSUME TargetIdentity(world, FALSE, t.path)[1] = DirectoryIdentity(world, d)
      PROVE  FileOf(world, t.path)[1] = DirectoryIdentity(world, d)
  <2>1. Fold(world, t.path[1]) = Fold(world, RealDirectory(world, d))
    BY <1>2 DEF TargetIdentity, LexicalIdentity, DirectoryIdentity
  <2>2. Fold(world, RealDirectory(world, t.path[1]))
          = Fold(world, RealDirectory(world, RealDirectory(world, d)))
    BY <2>1, LexicalDecides
  <2>3. RealDirectory(world, RealDirectory(world, d)) = RealDirectory(world, d)
    BY RealOfReal
  <2>4. DirectoryIdentity(world, t.path[1]) = DirectoryIdentity(world, d)
    BY <2>2, <2>3 DEF DirectoryIdentity
  <2> QED BY <1>1, <2>4
<1> QED BY <1>1, <1>2

\* Staying out of directories by real paths: the file is no claim and, where
\* those are protected, no artifact; and then so it is by names alone.
LEMMA KeepsOutFiles ==
  ASSUME NEW policy, NEW world, OutputIsSane(policy, world), NEW t,
         NEW directories, NEW protect
  PROVE  /\ KeepsOut(world, TRUE, t, directories, protect) <=>
              /\ FileOf(world, t.path) \notin FilesIn(world, directories, {ClaimName})
              /\ protect => FileOf(world, t.path) \notin
                                FilesIn(world, directories, world.artifacts)
         /\ KeepsOut(world, TRUE, t, directories, protect)
              => KeepsOut(world, FALSE, t, directories, protect)
<1> DEFINE file == FileOf(world, t.path)
           within == \E d \in directories : DirectoryIdentity(world, t.path[1]) = DirectoryIdentity(world, d)
<1>1. file = <<DirectoryIdentity(world, t.path[1]), Fold(world, t.path[2])>>
  BY RealTargetIn
<1>2. ASSUME NEW names
      PROVE  file \in FilesIn(world, directories, names)
                <=> within /\ \E n \in names : Fold(world, t.path[2]) = Fold(world, n)
  BY <1>1 DEF FilesIn, FileOf, CanonicalIdentity, DirectoryIdentity
<1>3. file \in FilesIn(world, directories, {ClaimName})
         <=> within /\ Fold(world, t.path[2]) = Fold(world, ClaimName)
  BY <1>2
<1>4. file \in FilesIn(world, directories, world.artifacts)
         <=> within /\ t.path[2] \in world.artifacts
  <2>1. (\E n \in world.artifacts : Fold(world, t.path[2]) = Fold(world, n))
           <=> t.path[2] \in world.artifacts
    BY ArtifactNames
  <2> QED BY <1>2, <2>1
<1>5. KeepsOut(world, TRUE, t, directories, protect)
        <=> (within => /\ Fold(world, t.path[2]) # Fold(world, ClaimName)
                       /\ protect => t.path[2] \notin world.artifacts)
  <2>1. TargetIdentity(world, TRUE, t.path)[1] = DirectoryIdentity(world, t.path[1])
    BY RealTargetIn
  <2> QED BY <2>1 DEF KeepsOut
<1>6. KeepsOut(world, TRUE, t, directories, protect)
        => KeepsOut(world, FALSE, t, directories, protect)
  <2>1. TargetIdentity(world, FALSE, t.path)[1] \in {DirectoryIdentity(world, d) : d \in directories}
           => within
    <3> SUFFICES ASSUME NEW d \in directories,
                        TargetIdentity(world, FALSE, t.path)[1] = DirectoryIdentity(world, d)
                 PROVE  within
      OBVIOUS
    <3>1. FileOf(world, t.path)[1] = DirectoryIdentity(world, d)
      BY RealTargetIn
    <3> QED BY <3>1, <1>1
  <2> HIDE DEF within
  <2> QED BY <2>1, <1>5 DEF KeepsOut
<1> QED BY <1>3, <1>4, <1>5, <1>6

\* As many files as targets: no two targets are one file.
LEMMA AsManyFiles ==
  ASSUME NEW T, IsFiniteSet(T), NEW F, \A t \in T : F[t] \in {F[u] : u \in T}
  PROVE  Cardinality({F[t] : t \in T}) = Cardinality(T)
            <=> \A t, u \in T : F[t] = F[u] => t = u
<1> DEFINE S == {F[t] : t \in T}
           f == [t \in T |-> F[t]]
<1>2. f \in Surjection(T, S)
  BY DEF Surjection
<1>1. IsFiniteSet(S)
  BY <1>2, FS_Surjection
<1>3. ASSUME Cardinality(S) = Cardinality(T) PROVE \A t, u \in T : F[t] = F[u] => t = u
  <2>1. f \in Injection(T, S)
    BY <1>1, <1>2, <1>3, FS_SurjSameCardinalityImpliesInj
  <2> QED BY <2>1 DEF Injection, IsInjective
<1>4. ASSUME \A t, u \in T : F[t] = F[u] => t = u PROVE Cardinality(S) = Cardinality(T)
  <2>1. f \in Bijection(T, S)
    BY <1>2, <1>4 DEF Bijection, Injection, IsInjective
  <2>2. ExistsBijection(T, S)
    BY <2>1 DEF ExistsBijection
  <2> QED BY <1>1, <2>2, FS_Bijection, FS_SameCardinalityBij
<1> QED BY <1>3, <1>4

\* The targets of a policy are finitely many.
LEMMA FiniteTargets ==
  ASSUME NEW policy, NEW world, OutputIsSane(policy, world)
  PROVE  IsFiniteSet(TargetsOf(policy, world))
<1> DEFINE Tagged(label, paths) == [label : {label}, path : paths]
           Beside(kind) == {[label |-> kind, path |-> <<p[1], world.beside[p[2]][kind]>>] :
                               p \in policy.main}
<1>1. ASSUME NEW label, NEW paths, IsFiniteSet(paths) PROVE IsFiniteSet(Tagged(label, paths))
  <2> DEFINE f == [p \in paths |-> [label |-> label, path |-> p]]
  <2>1. f \in Surjection(paths, Tagged(label, paths))
    BY DEF Surjection
  <2> QED BY <2>1, <1>1, FS_Surjection
<1>2. ASSUME NEW kind PROVE IsFiniteSet(Beside(kind))
  <2> DEFINE f == [p \in policy.main |->
                     [label |-> kind, path |-> <<p[1], world.beside[p[2]][kind]>>]]
  <2>1. f \in Surjection(policy.main, Beside(kind))
    BY DEF Surjection
  <2>2. IsFiniteSet(policy.main)
    BY DEF OutputIsSane
  <2> QED BY <2>1, <2>2, FS_Surjection
<1>3. /\ IsFiniteSet(Tagged("body", policy.main)) /\ IsFiniteSet(Tagged("pile", policy.pile))
      /\ IsFiniteSet(Tagged("receipt", policy.receipt))
  BY <1>1 DEF OutputIsSane
<1>4. TargetsOf(policy, world)
        = (((Tagged("body", policy.main) \cup (Beside("calls") \cup Beside("extra")))
             \cup Tagged("pile", policy.pile)) \cup Tagged("receipt", policy.receipt))
  BY DEF TargetsOf
<1>5. IsFiniteSet(Beside("calls")) /\ IsFiniteSet(Beside("extra"))
  BY <1>2
<1> HIDE DEF Tagged, Beside
<1> QED BY <1>3, <1>4, <1>5, FS_Union

\* A policy is accepted exactly when its files are separate, in any world
\* that is sane.
THEOREM SeparateSinks ==
  ASSUME NEW policy, NEW world, OutputIsSane(policy, world)
  PROVE  SinksAreSeparate(policy, world)
<1> DEFINE targets == TargetsOf(policy, world)
           Files(labels) == {FileOf(world, t.path) : t \in {u \in targets : u.label \in labels}}
           others == {"body", "calls", "extra", "pile"}
           claims(directories) == FilesIn(world, directories, {ClaimName})
           turns(directories)  == FilesIn(world, directories, world.artifacts)
           F == [t \in targets |-> FileOf(world, t.path)]
<1>1. \A t \in targets : t.label \in others \cup {"receipt"}
  BY DEF TargetsOf
<1>2. Files(others \cup {"receipt"}) = {F[t] : t \in targets}
  BY <1>1
<1>3. \A t \in targets : TargetIdentity(world, TRUE, t.path) = F[t]
  BY RealTargetIn
<1>4. DistinctTargets(world, TRUE, targets)
        <=> Cardinality(Files(others \cup {"receipt"})) = Cardinality(targets)
  <2>1. IsFiniteSet(targets) BY FiniteTargets
  <2>2. Cardinality({F[t] : t \in targets}) = Cardinality(targets)
            <=> \A t, u \in targets : F[t] = F[u] => t = u
    <3> HIDE DEF targets, F
    <3> QED BY <2>1, AsManyFiles
  <2> HIDE DEF targets, F, Files
  <2>3. DistinctTargets(world, TRUE, targets) <=> \A t, u \in targets : F[t] = F[u] => t = u
    BY <1>3 DEF DistinctTargets
  <2> QED BY <1>2, <2>2, <2>3
<1>5. DistinctTargets(world, TRUE, targets) => DistinctTargets(world, FALSE, targets)
  <2> SUFFICES ASSUME NEW t \in targets, NEW u \in targets,
                      TargetIdentity(world, FALSE, t.path) = TargetIdentity(world, FALSE, u.path)
               PROVE  TargetIdentity(world, TRUE, t.path) = TargetIdentity(world, TRUE, u.path)
    BY DEF DistinctTargets
  <2>1. Fold(world, t.path[1]) = Fold(world, u.path[1]) /\ Fold(world, t.path[2]) = Fold(world, u.path[2])
    BY DEF TargetIdentity, LexicalIdentity
  <2>2. Fold(world, RealDirectory(world, t.path[1])) = Fold(world, RealDirectory(world, u.path[1]))
    BY <2>1, LexicalDecides
  <2> QED BY <2>1, <2>2 DEF TargetIdentity, CanonicalIdentity
<1>6. SparesHook(policy, world, TRUE, targets)
        <=> Files(others \cup {"receipt"}) \cap {FileOf(world, hook) : hook \in policy.hook} = {}
  <2>1. \A hook \in policy.hook : FileOf(world, hook) = <<Fold(world, hook[1]), Fold(world, hook[2])>>
    BY DEF OutputIsSane, FileOf, CanonicalIdentity
  <2>2. {F[t] : t \in targets} \cap {FileOf(world, hook) : hook \in policy.hook} = {}
          <=> \A t \in targets, hook \in policy.hook : F[t] # FileOf(world, hook)
    <3> HIDE DEF F
    <3> QED OBVIOUS
  <2>3. SparesHook(policy, world, TRUE, targets)
          <=> \A t \in targets, hook \in policy.hook : F[t] # FileOf(world, hook)
    <3> HIDE DEF F, targets
    <3> QED BY <1>3, <2>1 DEF SparesHook
  <2> QED BY <1>2, <2>2, <2>3
<1>7. SparesHook(policy, world, TRUE, targets) => SparesHook(policy, world, FALSE, targets)
  <2> SUFFICES ASSUME NEW t \in targets, NEW hook \in policy.hook,
                      TargetIdentity(world, FALSE, t.path) = <<Fold(world, hook[1]), Fold(world, hook[2])>>
               PROVE  TargetIdentity(world, TRUE, t.path) = <<Fold(world, hook[1]), Fold(world, hook[2])>>
    BY DEF SparesHook
  <2>1. Fold(world, t.path[1]) = Fold(world, hook[1]) /\ Fold(world, t.path[2]) = Fold(world, hook[2])
    BY DEF TargetIdentity, LexicalIdentity
  <2>2. Fold(world, RealDirectory(world, t.path[1])) = Fold(world, RealDirectory(world, hook[1]))
    BY <2>1, LexicalDecides
  <2>3. RealDirectory(world, hook[1]) = hook[1]
    BY DEF OutputIsSane
  <2> QED BY <2>1, <2>2, <2>3 DEF TargetIdentity, CanonicalIdentity
<1> DEFINE own == policy.layers \cup policy.output
<1>8. KeepsNamespace(policy, world, TRUE, targets)
        <=> /\ Files({"receipt"}) \cap (claims(own) \cup turns(own)) = {}
            /\ Files(others) \cap claims(policy.output) = {}
            /\ policy.mutates => Files(others) \cap turns(policy.output) = {}
  <2>1. ASSUME NEW S, NEW labels
        PROVE  Files(labels) \cap S = {}
                  <=> \A t \in targets : t.label \in labels => FileOf(world, t.path) \notin S
    OBVIOUS
  <2>2. Files({"receipt"}) \cap (claims(own) \cup turns(own)) = {}
          <=> \A t \in targets : t.label = "receipt" =>
                /\ FileOf(world, t.path) \notin claims(own)
                /\ FileOf(world, t.path) \notin turns(own)
    <3>1. Files({"receipt"}) \cap (claims(own) \cup turns(own)) = {}
            <=> \A t \in targets : t.label \in {"receipt"} =>
                  FileOf(world, t.path) \notin claims(own) \cup turns(own)
      BY <2>1
    <3> HIDE DEF Files, claims, turns, own, targets
    <3> QED BY <3>1
  <2>3. \A t \in targets : t.label \in others <=> t.label # "receipt"
    BY <1>1
  <2>4. /\ Files(others) \cap claims(policy.output) = {}
          <=> \A t \in targets : t.label # "receipt" => FileOf(world, t.path) \notin claims(policy.output)
        /\ Files(others) \cap turns(policy.output) = {}
          <=> \A t \in targets : t.label # "receipt" => FileOf(world, t.path) \notin turns(policy.output)
    <3>1. /\ Files(others) \cap claims(policy.output) = {}
            <=> \A t \in targets : t.label \in others => FileOf(world, t.path) \notin claims(policy.output)
          /\ Files(others) \cap turns(policy.output) = {}
            <=> \A t \in targets : t.label \in others => FileOf(world, t.path) \notin turns(policy.output)
      BY <2>1
    <3> HIDE DEF Files, claims, turns, targets, others
    <3> QED BY <3>1, <2>3
  <2>5. \A t \in targets :
          /\ KeepsOut(world, TRUE, t, own, TRUE)
                <=> /\ FileOf(world, t.path) \notin claims(own)
                    /\ FileOf(world, t.path) \notin turns(own)
          /\ KeepsOut(world, TRUE, t, policy.output, policy.mutates)
                <=> /\ FileOf(world, t.path) \notin claims(policy.output)
                    /\ policy.mutates => FileOf(world, t.path) \notin turns(policy.output)
    BY KeepsOutFiles
  <2> HIDE DEF Files, claims, turns, own, targets, others
  <2> QED BY <2>2, <2>4, <2>5 DEF KeepsNamespace, own
<1>9. KeepsNamespace(policy, world, TRUE, targets) => KeepsNamespace(policy, world, FALSE, targets)
  <2>1. \A t \in targets :
          /\ KeepsOut(world, TRUE, t, own, TRUE) => KeepsOut(world, FALSE, t, own, TRUE)
          /\ KeepsOut(world, TRUE, t, policy.output, policy.mutates)
                => KeepsOut(world, FALSE, t, policy.output, policy.mutates)
    BY KeepsOutFiles
  <2> HIDE DEF targets
  <2> QED BY <2>1 DEF KeepsNamespace
<1> QED BY <1>4, <1>5, <1>6, <1>7, <1>8, <1>9
        DEF SinksAreSeparate, Accepted, ResolvedPolicy, PreparedPolicy, Validate

\* Whatever is asked of a completion, it is accepted exactly when what it
\* writes is separate.
THEOREM SinksStaySeparate == AnyInput => []SinksNeverMeet
<1>1. NoInput => SinksNeverMeet
  BY DEF NoInput, Nothing, SinksNeverMeet
<1>2. SinksNeverMeet /\ [TakeInput]_input => SinksNeverMeet'
  <2> SUFFICES ASSUME SinksNeverMeet, [TakeInput]_input PROVE SinksNeverMeet'
    OBVIOUS
  <2>1. CASE TakeTargets
    <3>1. PICK o \in Outputs :
            input' = [of |-> "targets", world |-> o.world, policy |-> o.policy]
      BY <2>1 DEF TakeTargets
    <3>2. SinksAreSeparate(o.policy, o.world)
      BY OutputsAssumption, SeparateSinks
    <3>3. input'.policy = o.policy /\ input'.world = o.world
      BY <3>1
    <3> QED BY <3>2, <3>3 DEF SinksNeverMeet
  <2>2. CASE TakeRange \/ TakeTranscript \/ TakeSession \/ TakeArchives
    BY <2>2 DEF TakeRange, TakeTranscript, TakeSession, TakeArchives, SinksNeverMeet
  <2>3. CASE UNCHANGED input
    BY <2>3 DEF SinksNeverMeet
  <2> QED BY <2>1, <2>2, <2>3 DEF TakeInput
<1> QED BY <1>1, <1>2, PTL DEF AnyInput

------------------------------------------------------------------------------
(* Induction, and folds over sequences *)

\* Induction over the subsets of a finite set: what holds of a set when it holds
\* of all its proper subsets holds of every subset.
LEMMA SubsetInduction ==
  ASSUME NEW S, IsFiniteSet(S), NEW T,
         \A s \in SUBSET S : (\A r \in SUBSET s : r # s => r \in T) => s \in T
  PROVE  \A s \in SUBSET S : s \in T
<1> SUFFICES ASSUME ~ \A s \in SUBSET S : s \in T PROVE FALSE
  OBVIOUS
<1> DEFINE R == StrictSubsetOrdering(S)
           U == {s \in SUBSET S : s \notin T}
<1>0. FiniteSubsetsOf(S) = SUBSET S
  BY FS_FiniteSubsetsOfFinite
<1>a. IsWellFoundedOn(StrictSubsetOrdering(S), FiniteSubsetsOf(S))
  BY FS_StrictSubsetOrderingWellFounded
<1>1. IsWellFoundedOn(R, SUBSET S)
  BY <1>0, <1>a
<1>2. U \subseteq SUBSET S /\ U # {}
  OBVIOUS
<1> HIDE DEF R, U
<1>3. PICK x \in U : \A y \in U : ~(<<y, x>> \in R)
  BY <1>1, <1>2, WFMin
<1>4. \A r \in SUBSET x : r # x => r \in T
  <2> SUFFICES ASSUME NEW r \in SUBSET x, r # x, r \notin T PROVE FALSE
    OBVIOUS
  <2>1. r \in U BY <1>2, <1>3 DEF U
  <2>2. <<r, x>> \in R BY <1>3, <1>2 DEF R, StrictSubsetOrdering
  <2> QED BY <2>1, <2>2, <1>3
<1> QED BY <1>3, <1>4 DEF U

\* Induction over the natural numbers, for a set instead of a predicate.
LEMMA NatSetInduction ==
  ASSUME NEW T, 0 \in T, \A n \in Nat : n \in T => n + 1 \in T
  PROVE  \A n \in Nat : n \in T
<1> SUFFICES ASSUME NEW n \in Nat PROVE n \in T
  OBVIOUS
<1> DEFINE S == 0..n
           U == {s \in SUBSET S : \A k \in S : s = 0..k => k \in T}
<1>1. IsFiniteSet(S)
  BY FS_Interval
<1>2. ASSUME NEW s \in SUBSET S, \A r \in SUBSET s : r # s => r \in U PROVE s \in U
  <2> SUFFICES ASSUME NEW k \in S, s = 0..k, k # 0 PROVE k \in T
    OBVIOUS
  <2>1. 0..(k-1) \in U
    <3>1. 0..(k-1) \in SUBSET s /\ 0..(k-1) # s
      <4>1. k \in s /\ k \notin 0..(k-1)
        OBVIOUS
      <4> QED BY <4>1
    <3> QED BY <3>1, <1>2
  <2>2. k - 1 \in T
    BY <2>1
  <2> QED BY <2>2
<1> HIDE DEF U, S
<1>3. \A s \in SUBSET S : s \in U
  BY <1>1, <1>2, SubsetInduction
<1>4. n \in S /\ 0..n \in U
  BY <1>3 DEF S
<1> QED BY <1>4 DEF U

\* h is a solution, on the subsets of t, of the recursion that takes the element
\* c[s] out of the set s and combines it by g with the value of what is left.
Solves(h, t, V, base, c, g) ==
  /\ h \in [SUBSET t -> V]
  /\ \A s \in SUBSET t :
       h[s] = IF s = {} THEN base ELSE g[<<h[s \ {c[s]}], c[s]>>]

\* Such a recursion has a solution.
LEMMA RecursionExists ==
  ASSUME NEW S, IsFiniteSet(S), NEW V, NEW base \in V, NEW c,
         \A s \in SUBSET S : s # {} => c[s] \in s,
         NEW g, \A v \in V, x \in S : g[<<v, x>>] \in V
  PROVE  \E f : Solves(f, S, V, base, c, g)
<1> DEFINE Sol(h, t) == Solves(h, t, V, base, c, g)
           T == {s \in SUBSET S : /\ \E h \in [SUBSET s -> V] : Sol(h, s)
                                  /\ \A h, k \in [SUBSET s -> V] :
                                       Sol(h, s) /\ Sol(k, s) => h[s] = k[s]}
<1>1. ASSUME NEW s \in SUBSET S, \A r \in SUBSET s : r # s => r \in T
      PROVE  s \in T
  <2> HIDE DEF Sol
  <2>1. ASSUME NEW h, Sol(h, s), NEW r \in SUBSET s
        PROVE  Sol([q \in SUBSET r |-> h[q]], r) /\ [q \in SUBSET r |-> h[q]] \in [SUBSET r -> V]
    BY <2>1 DEF Sol, Solves
  <2>2. ASSUME NEW h, NEW k, Sol(h, s), Sol(k, s), NEW r \in SUBSET s, r # s
        PROVE  h[r] = k[r]
    <3>1. r \in T
      BY <2>2, <1>1
    <3>2. /\ Sol([q \in SUBSET r |-> h[q]], r) /\ [q \in SUBSET r |-> h[q]] \in [SUBSET r -> V]
          /\ Sol([q \in SUBSET r |-> k[q]], r) /\ [q \in SUBSET r |-> k[q]] \in [SUBSET r -> V]
      BY <2>1, <2>2
    <3>3. [q \in SUBSET r |-> h[q]][r] = [q \in SUBSET r |-> k[q]][r]
      BY <3>1, <3>2
    <3> QED BY <3>3
  <2>3. ASSUME NEW h \in [SUBSET s -> V], NEW k \in [SUBSET s -> V], Sol(h, s), Sol(k, s)
        PROVE  h[s] = k[s]
    <3>1. CASE s = {}
      BY <2>3, <3>1 DEF Sol, Solves
    <3>2. CASE s # {}
      <4>1. s \ {c[s]} \in SUBSET s /\ s \ {c[s]} # s
        BY <3>2
      <4>2. h[s \ {c[s]}] = k[s \ {c[s]}]
        BY <2>2, <2>3, <4>1
      <4>3. /\ h[s] = g[<<h[s \ {c[s]}], c[s]>>]
            /\ k[s] = g[<<k[s \ {c[s]}], c[s]>>]
        BY <2>3, <3>2 DEF Sol, Solves
      <4> QED BY <4>2, <4>3
    <3> QED BY <3>1, <3>2
  <2>4. \E h \in [SUBSET s -> V] : Sol(h, s)
    <3> DEFINE P(r) == CHOOSE h : Sol(h, r)
               below(r) == P(r)[r]
               top == IF s = {} THEN base ELSE g[<<below(s \ {c[s]}), c[s]>>]
               H == [r \in SUBSET s |-> IF r = s THEN top ELSE below(r)]
    <3>1. ASSUME NEW r \in SUBSET s, r # s PROVE Sol(P(r), r)
      <4>1. \E h : Sol(h, r)
        BY <3>1, <1>1
      <4> QED BY <4>1
    <3>2. ASSUME NEW r \in SUBSET s, r # s PROVE below(r) \in V
      <4>1. P(r) \in [SUBSET r -> V]
        BY <3>1, <3>2 DEF Sol, Solves
      <4> QED BY <4>1
    <3>3. top \in V
      <4>1. CASE s # {}
        <5>1. s \ {c[s]} \in SUBSET s /\ s \ {c[s]} # s /\ c[s] \in S
          BY <4>1
        <5>2. below(s \ {c[s]}) \in V
          BY <5>1, <3>2
        <5> HIDE DEF below
        <5> QED BY <5>1, <5>2, <4>1
      <4> QED BY <4>1
    <3>4. ASSUME NEW r \in SUBSET s, r # s, r # {}
          PROVE  below(r) = g[<<below(r \ {c[r]}), c[r]>>]
      <4>1. r \ {c[r]} \in SUBSET r /\ r \ {c[r]} # s /\ r \ {c[r]} \in SUBSET s
        BY <3>4
      <4> DEFINE q == r \ {c[r]}
                 h == [p \in SUBSET q |-> P(r)[p]]
      <4>2. Sol(P(r), r)
        BY <3>1, <3>4
      <4>3. P(r)[r] = g[<<P(r)[q], c[r]>>]
        BY <4>2, <3>4 DEF Sol, Solves
      <4>4. Sol(h, q) /\ h \in [SUBSET q -> V]
        BY <4>2, <4>1 DEF Sol, Solves
      <4>5. Sol(P(q), q) /\ P(q) \in [SUBSET q -> V]
        <5>1. Sol(P(q), q)
          BY <3>1, <4>1
        <5> QED BY <5>1 DEF Sol, Solves
      <4>6. q \in T
        BY <4>1, <1>1
      <4>7. h[q] = P(q)[q]
        <5> HIDE DEF h, P, q
        <5> QED BY <4>4, <4>5, <4>6
      <4>8. P(r)[q] = P(q)[q]
        BY <4>7
      <4> QED BY <4>3, <4>8
    <3> HIDE DEF P, below, top
    <3>5. H \in [SUBSET s -> V]
      BY <3>2, <3>3
    <3>6. ASSUME NEW r \in SUBSET s
          PROVE  H[r] = IF r = {} THEN base ELSE g[<<H[r \ {c[r]}], c[r]>>]
      <4>1. CASE r = {} /\ r = s
        BY <4>1 DEF top
      <4>2. CASE r = {} /\ r # s
        <5>1. Sol(P(r), r)
          BY <3>1, <4>2
        <5>2. P(r)[r] = base
          BY <5>1, <4>2 DEF Sol, Solves
        <5> QED BY <5>2, <4>2 DEF below
      <4>3. CASE r # {} /\ r = s
        <5>1. s \ {c[s]} \in SUBSET s /\ s \ {c[s]} # s
          BY <4>3
        <5>2. H[s \ {c[s]}] = below(s \ {c[s]})
          BY <5>1
        <5> QED BY <4>3, <5>2 DEF top
      <4>4. CASE r # {} /\ r # s
        <5>1. r \ {c[r]} \in SUBSET s /\ r \ {c[r]} # s
          BY <4>4
        <5>2. H[r \ {c[r]}] = below(r \ {c[r]}) /\ H[r] = below(r)
          BY <5>1, <4>4
        <5> QED BY <4>4, <5>2, <3>4
      <4> QED BY <4>1, <4>2, <4>3, <4>4
    <3>7. Sol(H, s)
      <4> HIDE DEF H
      <4> QED BY <3>5, <3>6 DEF Sol, Solves
    <3> QED BY <3>5, <3>7
  <2> QED BY <2>3, <2>4
<1> HIDE DEF T
<1>2. S \in T
  BY <1>1, SubsetInduction
<1> QED BY <1>2 DEF T

\* The element a fold over 1..n takes out first.
LEMMA MaxOfInterval ==
  ASSUME NEW n \in Nat, n # 0
  PROVE  Max(1..n) = n /\ (1..n) \ {n} = 1..(n-1)
<1>1. n \in 1..n /\ \A y \in 1..n : n >= y
  OBVIOUS
<1>2. \A x \in 1..n : (\A y \in 1..n : x >= y) => x = n
  BY <1>1
<1>3. Max(1..n) = n
  BY <1>1, <1>2 DEF Max
<1> QED BY <1>3

\* A set of positions has a greatest one.
LEMMA MaxIn ==
  ASSUME NEW n \in Nat, NEW s \in SUBSET (1..n), s # {}
  PROVE  Max(s) \in s
<1> DEFINE T == {k \in Nat : \A s1 \in SUBSET (1..k) : s1 # {} => \E x \in s1 : \A y \in s1 : x >= y}
<1>1. 0 \in T
  <2>1. 1..0 = {}
    OBVIOUS
  <2> QED BY <2>1
<1>2. ASSUME NEW k \in Nat, k \in T PROVE k + 1 \in T
  <2> SUFFICES ASSUME NEW s1 \in SUBSET (1..(k+1)), s1 # {} PROVE \E x \in s1 : \A y \in s1 : x >= y
    OBVIOUS
  <2>1. CASE k + 1 \in s1
    BY <2>1
  <2>2. CASE k + 1 \notin s1
    <3>1. s1 \in SUBSET (1..k)
      BY <2>2
    <3> QED BY <3>1, <1>2
  <2> QED BY <2>1, <2>2
<1> HIDE DEF T
<1>3. n \in T
  BY <1>1, <1>2, NatSetInduction
<1>4. \E x \in s : \A y \in s : x >= y
  BY <1>3 DEF T
<1> QED BY <1>4 DEF Max

\* What is known of the function behind a fold over n positions, which is chosen
\* among all functions: as long as its values are in V it is one step of g more
\* than for one position less.
Unfolds(f, n, V, base, g) ==
  /\ f[{}] = base
  /\ \A s \in SUBSET (1..n) : s # {} /\ f[s \ {Max(s)}] \in V
        => f[s] = g[<<f[s \ {Max(s)}], Max(s)>>]

\* Steps from V lead to V.
Closed(n, V, g) == \A v \in V, x \in 1..n : g[<<v, x>>] \in V

\* The function behind a fold, when its values are in V.
FoldsTo(f, n, V, base, g) ==
  /\ f \in [SUBSET (1..n) -> V]
  /\ f = [s \in SUBSET (1..n) |-> IF s = {} THEN base ELSE g[<<f[s \ {Max(s)}], Max(s)>>]]

\* The values of a fold for each prefix.
Ladder(F, n, V, base, g) ==
  /\ F \in [0..n -> V]
  /\ F[0] = base
  /\ \A i \in 1..n : F[i] = g[<<F[i-1], i>>]

\* There is a function behind a fold whose steps lead from V to V.
LEMMA FoldExists ==
  ASSUME NEW n \in Nat, NEW V, NEW base \in V, NEW g, Closed(n, V, g)
  PROVE  \E f : FoldsTo(f, n, V, base, g)
<1> DEFINE c == [s \in SUBSET (1..n) |-> Max(s)]
<1>1. \A s \in SUBSET (1..n) : s # {} => c[s] \in s
  BY MaxIn
<1>2. IsFiniteSet(1..n)
  BY FS_Interval
<1> HIDE DEF c
<1>3. PICK f : Solves(f, 1..n, V, base, c, g)
  BY <1>1, <1>2, RecursionExists DEF Closed
<1> QED BY <1>3 DEF Solves, c, FoldsTo

\* Any function behind it gives the fold the value it reaches step by step.
LEMMA FoldLadder ==
  ASSUME NEW n \in Nat, NEW V, NEW base \in V,
         NEW g, Closed(n, V, g), NEW f, Unfolds(f, n, V, base, g)
  PROVE  \E F : Ladder(F, n, V, base, g) /\ f[1..n] = F[n]
<1> DEFINE T == {i \in Nat : i <= n => f[1..i] \in V}
<1>1. 1..0 = {}
  OBVIOUS
<1>2. 0 \in T
  BY <1>1 DEF Unfolds
<1>3. ASSUME NEW i \in 1..n, f[1..(i-1)] \in V
      PROVE  f[1..i] \in V /\ f[1..i] = g[<<f[1..(i-1)], i>>]
  <2>1. Max(1..i) = i /\ (1..i) \ {i} = 1..(i-1)
    <3>1. i \in Nat /\ i # 0
      OBVIOUS
    <3> QED BY <3>1, MaxOfInterval
  <2>3. 1..i # {} /\ 1..i \in SUBSET (1..n)
    OBVIOUS
  <2>2. f[1..i] = g[<<f[1..(i-1)], i>>]
    BY <2>1, <2>3, <1>3 DEF Unfolds
  <2> QED BY <2>2, <1>3 DEF Closed
<1>4. ASSUME NEW i \in Nat, i \in T PROVE i + 1 \in T
  <2>1. CASE i + 1 <= n
    <3>1. i + 1 \in 1..n /\ (i + 1) - 1 = i /\ f[1..i] \in V
      BY <2>1, <1>4
    <3>2. f[1..((i+1)-1)] \in V
      BY <3>1
    <3>3. f[1..(i+1)] \in V
      BY <3>1, <3>2, <1>3
    <3> QED BY <3>3
  <2> QED BY <2>1
<1> HIDE DEF T
<1>5. \A i \in Nat : i \in T
  BY <1>2, <1>4, NatSetInduction
<1>6. \A i \in 0..n : f[1..i] \in V
  BY <1>5 DEF T
<1> DEFINE F == [i \in 0..n |-> f[1..i]]
<1>7. F \in [0..n -> V]
  BY <1>6
<1>8. F[0] = base
  BY <1>1 DEF Unfolds
<1>9. ASSUME NEW i \in 1..n PROVE F[i] = g[<<F[i-1], i>>]
  <2>1. i \in 0..n /\ i - 1 \in 0..n
    OBVIOUS
  <2> QED BY <2>1, <1>6, <1>3
<1>10. f[1..n] = F[n]
  OBVIOUS
<1> HIDE DEF F
<1> QED BY <1>7, <1>8, <1>9, <1>10 DEF Ladder

\* The step of Distinct.
AddReal(world, seen, path) ==
  IF \E i \in DOMAIN seen : Identity(world, seen[i]) = Identity(world, Real(world, path))
  THEN seen ELSE Append(seen, Real(world, path))

\* Distinct, step by step.
LEMMA DistinctSteps ==
  ASSUME NEW world, NEW E, NEW paths \in Seq(E), NEW D, \A p \in E : Real(world, p) \in D
  PROVE  \E F \in [0..Len(paths) -> Seq(D)] :
            /\ F[0] = <<>>
            /\ \A i \in 1..Len(paths) : F[i] = AddReal(world, F[i-1], paths[i])
            /\ Distinct(world, paths) = F[Len(paths)]
<1> DEFINE n == Len(paths)
           V == Seq(D)
           base == <<>>
           g == [p \in V \X (1..n) |-> AddReal(world, p[1], paths[p[2]])]
           Body(f) == [s \in SUBSET (DOMAIN paths) |->
                         IF s = {} THEN base ELSE AddReal(world, f[s \ {Max(s)}], paths[Max(s)])]
           iter == CHOOSE f : f = Body(f)
<1>1. Distinct(world, paths) = iter[DOMAIN paths]
  BY DEF FoldLeft, MapThenFoldSet, Distinct, AddReal
<1>2. n \in Nat /\ DOMAIN paths = 1..n /\ base \in V
  OBVIOUS
<1>3. \A v \in V, i \in 1..n : AddReal(world, v, paths[i]) \in V
  <2>1. \A i \in 1..n : paths[i] \in E
    OBVIOUS
  <2> QED BY <2>1 DEF AddReal
<1>4. \A v \in V, i \in 1..n : g[<<v, i>>] = AddReal(world, v, paths[i])
  OBVIOUS
<1> HIDE DEF n, V, g, base
<1>5. Closed(n, V, g)
  BY <1>3, <1>4 DEF Closed
<1>6. PICK f : FoldsTo(f, n, V, base, g)
  BY <1>2, <1>5, FoldExists
<1>7. \A s \in SUBSET (1..n) : s # {} => Max(s) \in 1..n
  BY <1>2, MaxIn
<1>8. f = Body(f)
  BY <1>2, <1>4, <1>6, <1>7 DEF FoldsTo
<1>9. iter = Body(iter)
  <2> HIDE DEF Body
  <2> QED BY <1>8
<1> HIDE DEF iter
<1>10. Unfolds(iter, n, V, base, g)
  BY <1>2, <1>4, <1>7, <1>9 DEF Unfolds
<1>11. PICK F : Ladder(F, n, V, base, g) /\ iter[1..n] = F[n]
  BY <1>2, <1>5, <1>10, FoldLadder
<1>12. \A i \in 1..n : F[i] = AddReal(world, F[i-1], paths[i])
  <2>1. \A i \in 1..n : F[i-1] \in V
    BY <1>2, <1>11 DEF Ladder
  <2> QED BY <2>1, <1>4, <1>11 DEF Ladder
<1>13. Distinct(world, paths) = F[n]
  BY <1>1, <1>2, <1>11
<1> HIDE DEF Body
<1> QED BY <1>11, <1>12, <1>13 DEF n, V, base, Ladder

\* The step of DistinctCanonical.
AddCanonical(world, seen, path) ==
  IF \E i \in DOMAIN seen : Identity(world, seen[i]) = Identity(world, Canonical(world, path))
  THEN seen ELSE Append(seen, Canonical(world, path))

\* DistinctCanonical, step by step.
LEMMA CanonicalSteps ==
  ASSUME NEW world, NEW E, NEW paths \in Seq(E), NEW D, \A p \in E : Canonical(world, p) \in D
  PROVE  \E F \in [0..Len(paths) -> Seq(D)] :
            /\ F[0] = <<>>
            /\ \A i \in 1..Len(paths) : F[i] = AddCanonical(world, F[i-1], paths[i])
            /\ DistinctCanonical(world, paths) = F[Len(paths)]
<1> DEFINE n == Len(paths)
           V == Seq(D)
           base == <<>>
           g == [p \in V \X (1..n) |-> AddCanonical(world, p[1], paths[p[2]])]
           Body(f) == [s \in SUBSET (DOMAIN paths) |->
                         IF s = {} THEN base ELSE AddCanonical(world, f[s \ {Max(s)}], paths[Max(s)])]
           iter == CHOOSE f : f = Body(f)
<1>1. DistinctCanonical(world, paths) = iter[DOMAIN paths]
  BY DEF FoldLeft, MapThenFoldSet, DistinctCanonical, AddCanonical
<1>2. n \in Nat /\ DOMAIN paths = 1..n /\ base \in V
  OBVIOUS
<1>3. \A v \in V, i \in 1..n : AddCanonical(world, v, paths[i]) \in V
  <2>1. \A i \in 1..n : paths[i] \in E
    OBVIOUS
  <2> QED BY <2>1 DEF AddCanonical
<1>4. \A v \in V, i \in 1..n : g[<<v, i>>] = AddCanonical(world, v, paths[i])
  OBVIOUS
<1> HIDE DEF n, V, g, base
<1>5. Closed(n, V, g)
  BY <1>3, <1>4 DEF Closed
<1>6. PICK f : FoldsTo(f, n, V, base, g)
  BY <1>2, <1>5, FoldExists
<1>7. \A s \in SUBSET (1..n) : s # {} => Max(s) \in 1..n
  BY <1>2, MaxIn
<1>8. f = Body(f)
  BY <1>2, <1>4, <1>6, <1>7 DEF FoldsTo
<1>9. iter = Body(iter)
  <2> HIDE DEF Body
  <2> QED BY <1>8
<1> HIDE DEF iter
<1>10. Unfolds(iter, n, V, base, g)
  BY <1>2, <1>4, <1>7, <1>9 DEF Unfolds
<1>11. PICK F : Ladder(F, n, V, base, g) /\ iter[1..n] = F[n]
  BY <1>2, <1>5, <1>10, FoldLadder
<1>12. \A i \in 1..n : F[i] = AddCanonical(world, F[i-1], paths[i])
  <2>1. \A i \in 1..n : F[i-1] \in V
    BY <1>2, <1>11 DEF Ladder
  <2> QED BY <2>1, <1>4, <1>11 DEF Ladder
<1>13. DistinctCanonical(world, paths) = F[n]
  BY <1>1, <1>2, <1>11
<1> HIDE DEF Body
<1> QED BY <1>11, <1>12, <1>13 DEF n, V, base, Ladder

\* The step of Without.
KeepOther(world, path, kept, p) ==
  IF Identity(world, p) = Identity(world, path) THEN kept ELSE Append(kept, p)

\* Without, step by step.
LEMMA WithoutSteps ==
  ASSUME NEW world, NEW D, NEW paths \in Seq(D), NEW path
  PROVE  \E F \in [0..Len(paths) -> Seq(D)] :
            /\ F[0] = <<>>
            /\ \A i \in 1..Len(paths) : F[i] = KeepOther(world, path, F[i-1], paths[i])
            /\ Without(world, paths, path) = F[Len(paths)]
<1> DEFINE n == Len(paths)
           V == Seq(D)
           base == <<>>
           g == [p \in V \X (1..n) |-> KeepOther(world, path, p[1], paths[p[2]])]
           Body(f) == [s \in SUBSET (DOMAIN paths) |->
                         IF s = {} THEN base ELSE KeepOther(world, path, f[s \ {Max(s)}], paths[Max(s)])]
           iter == CHOOSE f : f = Body(f)
<1>1. Without(world, paths, path) = iter[DOMAIN paths]
  BY DEF FoldLeft, MapThenFoldSet, Without, KeepOther
<1>2. n \in Nat /\ DOMAIN paths = 1..n /\ base \in V
  OBVIOUS
<1>3. \A v \in V, i \in 1..n : KeepOther(world, path, v, paths[i]) \in V
  <2>1. \A i \in 1..n : paths[i] \in D
    OBVIOUS
  <2> QED BY <2>1 DEF KeepOther
<1>4. \A v \in V, i \in 1..n : g[<<v, i>>] = KeepOther(world, path, v, paths[i])
  OBVIOUS
<1> HIDE DEF n, V, g, base
<1>5. Closed(n, V, g)
  BY <1>3, <1>4 DEF Closed
<1>6. PICK f : FoldsTo(f, n, V, base, g)
  BY <1>2, <1>5, FoldExists
<1>7. \A s \in SUBSET (1..n) : s # {} => Max(s) \in 1..n
  BY <1>2, MaxIn
<1>8. f = Body(f)
  BY <1>2, <1>4, <1>6, <1>7 DEF FoldsTo
<1>9. iter = Body(iter)
  <2> HIDE DEF Body
  <2> QED BY <1>8
<1> HIDE DEF iter
<1>10. Unfolds(iter, n, V, base, g)
  BY <1>2, <1>4, <1>7, <1>9 DEF Unfolds
<1>11. PICK F : Ladder(F, n, V, base, g) /\ iter[1..n] = F[n]
  BY <1>2, <1>5, <1>10, FoldLadder
<1>12. \A i \in 1..n : F[i] = KeepOther(world, path, F[i-1], paths[i])
  <2>1. \A i \in 1..n : F[i-1] \in V
    BY <1>2, <1>11 DEF Ladder
  <2> QED BY <2>1, <1>4, <1>11 DEF Ladder
<1>13. Without(world, paths, path) = F[n]
  BY <1>1, <1>2, <1>11
<1> HIDE DEF Body
<1> QED BY <1>11, <1>12, <1>13 DEF n, V, base, Ladder

------------------------------------------------------------------------------
(* The phases of a session: ReactConfig and PromptpileConfig *)

\* No two of a list of directories are one.
Spaced(world, paths) ==
  \A i, j \in DOMAIN paths :
    Identity(world, paths[i]) = Identity(world, paths[j]) => i = j

\* One more directory that is none of them.
LEMMA SpacedAppend ==
  ASSUME NEW world, NEW D, NEW paths \in Seq(D), Spaced(world, paths), NEW p \in D,
         \A i \in DOMAIN paths : Identity(world, paths[i]) # Identity(world, p)
  PROVE  Append(paths, p) \in Seq(D) /\ Spaced(world, Append(paths, p))
<1> DEFINE q == Append(paths, p)
           n == Len(paths)
<1>1. /\ n \in Nat /\ DOMAIN paths = 1..n /\ DOMAIN q = 1..(n+1) /\ q \in Seq(D)
      /\ q[n+1] = p /\ \A i \in 1..n : q[i] = paths[i]
  OBVIOUS
<1> HIDE DEF q, n
<1>2. Spaced(world, q)
  <2> SUFFICES ASSUME NEW i \in 1..(n+1), NEW j \in 1..(n+1),
                      Identity(world, q[i]) = Identity(world, q[j])
               PROVE  i = j
    BY <1>1 DEF Spaced
  <2>1. CASE i \in 1..n /\ j \in 1..n
    BY <2>1, <1>1 DEF Spaced
  <2>2. CASE i = n + 1 /\ j \in 1..n
    BY <2>2, <1>1
  <2>3. CASE j = n + 1 /\ i \in 1..n
    BY <2>3, <1>1
  <2> QED BY <2>1, <2>2, <2>3, <1>1
<1> QED BY <1>1, <1>2 DEF q

\* What DistinctCanonical makes of a list: no directory twice, and none that
\* was not in it.
LEMMA CanonicalSpaced ==
  ASSUME NEW world, NEW E, NEW paths \in Seq(E), NEW D, \A p \in E : Canonical(world, p) \in D
  PROVE  /\ DistinctCanonical(world, paths) \in Seq(D)
         /\ Spaced(world, DistinctCanonical(world, paths))
         /\ Len(paths) > 0 => Len(DistinctCanonical(world, paths)) > 0
<1>1. PICK F \in [0..Len(paths) -> Seq(D)] :
            /\ F[0] = <<>>
            /\ \A i \in 1..Len(paths) : F[i] = AddCanonical(world, F[i-1], paths[i])
            /\ DistinctCanonical(world, paths) = F[Len(paths)]
  BY CanonicalSteps
<1> DEFINE T == {i \in Nat : i <= Len(paths) => Spaced(world, F[i]) /\ (i > 0 => Len(F[i]) > 0)}
<1>2. Len(paths) \in Nat
  OBVIOUS
<1>3. 0 \in T
  BY <1>1 DEF Spaced
<1>4. ASSUME NEW i \in Nat, i \in T PROVE i + 1 \in T
  <2> SUFFICES ASSUME i + 1 <= Len(paths) PROVE Spaced(world, F[i+1]) /\ Len(F[i+1]) > 0
    OBVIOUS
  <2>1. i + 1 \in 1..Len(paths) /\ i \in 0..Len(paths) /\ (i + 1) - 1 = i
    BY <1>2
  <2>2. F[i+1] = AddCanonical(world, F[i], paths[i+1]) /\ F[i] \in Seq(D) /\ Spaced(world, F[i])
    BY <2>1, <1>1, <1>4
  <2>3. Canonical(world, paths[i+1]) \in D
    <3>1. paths[i+1] \in E
      BY <2>1
    <3> QED BY <3>1
  <2>4. CASE \E k \in DOMAIN F[i] : Identity(world, F[i][k]) = Identity(world, Canonical(world, paths[i+1]))
    <3>1. F[i+1] = F[i]
      BY <2>2, <2>4 DEF AddCanonical
    <3>2. Len(F[i]) > 0
      BY <2>2, <2>4
    <3> QED BY <2>2, <3>1, <3>2
  <2>5. CASE ~\E k \in DOMAIN F[i] : Identity(world, F[i][k]) = Identity(world, Canonical(world, paths[i+1]))
    <3>1. F[i+1] = Append(F[i], Canonical(world, paths[i+1]))
      BY <2>2, <2>5 DEF AddCanonical
    <3>2. Spaced(world, F[i+1])
      BY <2>2, <2>3, <2>5, <3>1, SpacedAppend
    <3>3. Len(F[i+1]) > 0
      BY <2>2, <2>3, <3>1
    <3> QED BY <3>2, <3>3
  <2> QED BY <2>4, <2>5
<1> HIDE DEF T
<1>5. Len(paths) \in T
  BY <1>2, <1>3, <1>4, NatSetInduction
<1>6. F[Len(paths)] \in Seq(D)
  BY <1>1, <1>2
<1> QED BY <1>1, <1>2, <1>5, <1>6 DEF T

\* Distinct changes nothing in a list of real paths without doubles.
LEMMA DistinctSame ==
  ASSUME NEW world, NEW D, NEW paths \in Seq(D), Spaced(world, paths),
         \A i \in DOMAIN paths : Real(world, paths[i]) = paths[i]
  PROVE  Distinct(world, paths) = paths
<1> DEFINE E == {paths[i] : i \in DOMAIN paths}
<1>0. paths \in Seq(E) /\ \A p \in E : Real(world, p) \in E
  OBVIOUS
<1> HIDE DEF E
<1>1. PICK F \in [0..Len(paths) -> Seq(E)] :
            /\ F[0] = <<>>
            /\ \A i \in 1..Len(paths) : F[i] = AddReal(world, F[i-1], paths[i])
            /\ Distinct(world, paths) = F[Len(paths)]
  BY <1>0, DistinctSteps
<1> DEFINE T == {i \in Nat : i <= Len(paths) => F[i] = SubSeq(paths, 1, i)}
<1>2. Len(paths) \in Nat /\ DOMAIN paths = 1..Len(paths)
  OBVIOUS
<1>3. 0 \in T
  <2>1. SubSeq(paths, 1, 0) = <<>>
    OBVIOUS
  <2> QED BY <1>1, <2>1
<1>4. ASSUME NEW i \in Nat, i \in T PROVE i + 1 \in T
  <2> SUFFICES ASSUME i + 1 <= Len(paths) PROVE F[i+1] = SubSeq(paths, 1, i + 1)
    OBVIOUS
  <2>1. i + 1 \in 1..Len(paths) /\ i \in 0..Len(paths) /\ (i + 1) - 1 = i
    BY <1>2
  <2>2. F[i+1] = AddReal(world, F[i], paths[i+1]) /\ F[i] = SubSeq(paths, 1, i)
    BY <2>1, <1>1, <1>4
  <2>3. DOMAIN F[i] = 1..i /\ \A k \in 1..i : F[i][k] = paths[k]
    BY <2>1, <2>2
  <2>4. \A k \in 1..i : Identity(world, paths[k]) # Identity(world, paths[i+1])
    BY <2>1, <1>2 DEF Spaced
  <2>5. F[i+1] = Append(SubSeq(paths, 1, i), paths[i+1])
    BY <2>1, <2>2, <2>3, <2>4, <1>2 DEF AddReal
  <2>6. Append(SubSeq(paths, 1, i), paths[i+1]) = SubSeq(paths, 1, i + 1)
    BY <2>1
  <2> QED BY <2>5, <2>6
<1> HIDE DEF T
<1>5. Len(paths) \in T
  BY <1>2, <1>3, <1>4, NatSetInduction
<1>6. SubSeq(paths, 1, Len(paths)) = paths
  OBVIOUS
<1> QED BY <1>1, <1>2, <1>5, <1>6 DEF T

\* What Without leaves of a list: no directory twice, and not the one.
LEMMA WithoutSpaced ==
  ASSUME NEW world, NEW D, NEW paths \in Seq(D), Spaced(world, paths), NEW path
  PROVE  LET rest == Without(world, paths, path) IN
         /\ rest \in Seq(D) /\ Spaced(world, rest)
         /\ \A i \in DOMAIN rest : Identity(world, rest[i]) # Identity(world, path)
         /\ (\A i \in DOMAIN paths : Identity(world, paths[i]) # Identity(world, path))
               => rest = paths
         /\ Len(paths) > 0 /\ paths[Len(paths)] = path => Append(rest, path) = paths
<1>1. PICK F \in [0..Len(paths) -> Seq(D)] :
            /\ F[0] = <<>>
            /\ \A i \in 1..Len(paths) : F[i] = KeepOther(world, path, F[i-1], paths[i])
            /\ Without(world, paths, path) = F[Len(paths)]
  <2>1. paths \in Seq(D)
    OBVIOUS
  <2> QED BY ONLY <2>1, WithoutSteps
<1>2. Len(paths) \in Nat /\ DOMAIN paths = 1..Len(paths)
  OBVIOUS
<1> DEFINE Good(f, i) ==
             /\ Spaced(world, f)
             /\ \A k \in DOMAIN f : Identity(world, f[k]) # Identity(world, path)
             /\ \A k \in DOMAIN f : \E j \in 1..i : f[k] = paths[j]
             /\ (\A k \in 1..i : Identity(world, paths[k]) # Identity(world, path))
                   => f = SubSeq(paths, 1, i)
           T == {i \in Nat : i <= Len(paths) => Good(F[i], i)}
<1>3. 0 \in T
  <2>1. SubSeq(paths, 1, 0) = <<>> /\ DOMAIN F[0] = {}
    BY <1>1
  <2>2. Spaced(world, F[0])
    BY <2>1 DEF Spaced
  <2> QED BY <1>1, <2>1, <2>2
<1>4. ASSUME NEW i \in Nat, i \in T PROVE i + 1 \in T
  <2> SUFFICES ASSUME i + 1 <= Len(paths) PROVE Good(F[i+1], i + 1)
    OBVIOUS
  <2>1. i + 1 \in 1..Len(paths) /\ i \in 0..Len(paths) /\ (i + 1) - 1 = i
    BY <1>2
  <2>2. F[i+1] = KeepOther(world, path, F[i], paths[i+1]) /\ F[i] \in Seq(D) /\ Good(F[i], i)
    BY <2>1, <1>1, <1>4
  <2> DEFINE p == paths[i+1]
  <2>3. p \in D
    BY <2>1
  <2>4. CASE Identity(world, p) = Identity(world, path)
    <3>1. F[i+1] = F[i]
      BY <2>2, <2>4 DEF KeepOther
    <3>2. \A j \in 1..i : j \in 1..(i+1)
      BY <2>1
    <3>3. i + 1 \in 1..(i + 1)
      BY <2>1
    <3> QED BY <2>2, <2>4, <3>1, <3>2, <3>3
  <2>5. CASE Identity(world, p) # Identity(world, path)
    <3>1. F[i+1] = Append(F[i], p)
      BY <2>2, <2>5 DEF KeepOther
    <3>2. \A k \in DOMAIN F[i] : Identity(world, F[i][k]) # Identity(world, p)
      <4> SUFFICES ASSUME NEW k \in DOMAIN F[i], Identity(world, F[i][k]) = Identity(world, p)
                   PROVE  FALSE
        OBVIOUS
      <4>1. PICK j \in 1..i : F[i][k] = paths[j]
        BY <2>2
      <4>2. j = i + 1
        <5>1. j \in DOMAIN paths /\ i + 1 \in DOMAIN paths
          BY <2>1, <1>2
        <5>2. Identity(world, paths[j]) = Identity(world, paths[i+1])
          BY <4>1
        <5> QED BY <5>1, <5>2 DEF Spaced
      <4> QED BY <4>1, <4>2, <2>1
    <3>3. Spaced(world, F[i+1])
      BY <2>2, <2>3, <3>1, <3>2, SpacedAppend
    <3>4. /\ DOMAIN F[i+1] = 1..(Len(F[i]) + 1) /\ DOMAIN F[i] = 1..Len(F[i]) /\ Len(F[i]) \in Nat
          /\ \A k \in 1..Len(F[i]) : F[i+1][k] = F[i][k]
          /\ F[i+1][Len(F[i])+1] = p
      BY <2>2, <2>3, <3>1
    <3>5. \A k \in DOMAIN F[i+1] : k \in DOMAIN F[i] \/ k = Len(F[i]) + 1
      BY <3>4
    <3>6. \A k \in DOMAIN F[i+1] : Identity(world, F[i+1][k]) # Identity(world, path)
      BY <3>4, <3>5, <2>2, <2>5
    <3>7. \A k \in DOMAIN F[i+1] : \E j \in 1..(i+1) : F[i+1][k] = paths[j]
      <4> TAKE k \in DOMAIN F[i+1]
      <4>1. CASE k = Len(F[i]) + 1
        <5>1. i + 1 \in 1..(i+1) BY <2>1
        <5> QED BY <3>4, <4>1, <5>1
      <4>2. CASE k \in DOMAIN F[i]
        <5>1. PICK j \in 1..i : F[i][k] = paths[j]
          BY <4>2, <2>2
        <5>2. j \in 1..(i+1) BY <2>1
        <5> QED BY <5>1, <5>2, <4>2, <3>4
      <4> QED BY <4>1, <4>2, <3>5
    <3>8. ASSUME \A k \in 1..(i+1) : Identity(world, paths[k]) # Identity(world, path)
          PROVE  F[i+1] = SubSeq(paths, 1, i + 1)
      <4>1. \A k \in 1..i : k \in 1..(i+1)
        BY <2>1
      <4>2. F[i] = SubSeq(paths, 1, i)
        BY <3>8, <4>1, <2>2
      <4> QED BY <4>2, <3>1, <2>1
    <3> QED BY <3>3, <3>6, <3>7, <3>8
  <2> QED BY <2>4, <2>5
<1> HIDE DEF T
<1>5. \A i \in Nat : i \in T
  BY <1>3, <1>4, NatSetInduction
<1>6. ASSUME NEW i \in 0..Len(paths) PROVE Good(F[i], i) /\ F[i] \in Seq(D)
  <2>1. i \in Nat /\ i <= Len(paths) /\ F[i] \in Seq(D)
    BY <1>1, <1>2
  <2>2. i \in T
    BY <2>1, <1>5
  <2> HIDE DEF Good
  <2> QED BY <2>1, <2>2 DEF T
<1> DEFINE n == Len(paths)
<1>7. Good(F[n], n) /\ F[n] \in Seq(D)
  <2>1. n \in 0..Len(paths)
    BY <1>2
  <2> HIDE DEF Good, n
  <2> QED BY <2>1, <1>6
<1>8. (\A i \in DOMAIN paths : Identity(world, paths[i]) # Identity(world, path)) => F[n] = paths
  <2>1. SubSeq(paths, 1, n) = paths
    OBVIOUS
  <2> HIDE DEF n
  <2> QED BY <2>1, <1>7, <1>2 DEF n
<1>9. ASSUME n > 0, paths[n] = path PROVE Append(F[n], path) = paths
  <2>1. n \in 1..n /\ n - 1 \in 0..n
    BY <1>9, <1>2
  <2>2. F[n] = F[n-1]
    BY <2>1, <1>9, <1>1 DEF KeepOther
  <2>3. \A k \in 1..(n-1) : Identity(world, paths[k]) # Identity(world, path)
    BY <1>2, <1>9, <2>1 DEF Spaced
  <2>4. F[n-1] = SubSeq(paths, 1, n - 1)
    BY <1>6, <2>1, <2>3
  <2>5. Append(SubSeq(paths, 1, n - 1), paths[n]) = paths
    BY <2>1
  <2> QED BY <2>2, <2>4, <2>5, <1>9
<1> QED BY <1>1, <1>7, <1>8, <1>9

\* A directory that is made changes no link, no spelling and no variable.
LEMMA MadeKeeps ==
  ASSUME NEW w, DOMAIN w = {"links", "folded", "directories", "default", "environ"}, NEW P
  PROVE  /\ DOMAIN Made(w, P) = {"links", "folded", "directories", "default", "environ"}
         /\ Made(w, P).default = w.default
         /\ Made(w, P).links = w.links
         /\ \A p : Real(Made(w, P), p) = Real(w, p)
         /\ \A p : Identity(Made(w, P), p) = Identity(w, p)
         /\ \A n : EnvKey(Made(w, P), n) = EnvKey(w, n)
         /\ Made(w, P).directories = w.directories \cup {Real(w, p) : p \in P}
<1> DEFINE m == Made(w, P)
<1>1. /\ DOMAIN m = {"links", "folded", "directories", "default", "environ"}
      /\ m.links = w.links /\ m.folded = w.folded /\ m.environ = w.environ
      /\ m.default = w.default
      /\ m.directories = w.directories \cup {Real(w, p) : p \in P}
  BY DEF Made
<1> HIDE DEF m
<1>2. \A p : Real(m, p) = Real(w, p)
  BY <1>1 DEF Real
<1>3. \A p : Identity(m, p) = Identity(w, p)
  BY <1>1 DEF Identity
<1>4. \A n : EnvKey(m, n) = EnvKey(w, n)
  BY <1>1 DEF EnvKey
<1> QED BY <1>1, <1>2, <1>3, <1>4 DEF m

\* Where a link of a session's world leads is no link.
LEMMA RealOfRealPath ==
  ASSUME NEW s, SessionIsSane(s), NEW p
  PROVE  Real(s.world, Real(s.world, p)) = Real(s.world, p)
BY DEF SessionIsSane, Real

\* The paths of a session, and what they lead to.
Places(s) == PathsOf(s) \cup {Real(s.world, p) : p \in PathsOf(s)}

\* What a session is configured with, in the terms its phases need.
Configured(s, config) ==
  /\ config.world = Made(s.world, PickOf(s.layers, "out"))
  /\ config.workRoot = Real(s.world, s.root)
  /\ config.layers \in Seq(Places(s))
  /\ Len(config.layers) > 0
  /\ config.layers[Len(config.layers)] = config.writable
  /\ Spaced(config.world, config.layers)
  /\ \A i \in DOMAIN config.layers :
       /\ Exists(config.world, config.layers[i])
             => Real(config.world, config.layers[i]) = config.layers[i]
       /\ ~Within(Real(config.world, config.layers[i]), config.workRoot)

\* What ReactResolve makes of a sane session is that.
LEMMA SessionLayers ==
  ASSUME NEW s, SessionIsSane(s), NEW config,
         config = ReactResolve(s.world, s.layers, s.carryover, s.root), config.ok
  PROVE  Configured(s, config)
<1> DEFINE out == PickOf(s.layers, "out")
           dirs == PickOf(s.layers, "dirs")
           w == Made(s.world, out)
           given == ListedDirectories(w, dirs, out)
           canonical == DistinctCanonical(w, given)
           o == Real(w, The(out, <<>>))
           inputs == IF out = Unset THEN canonical ELSE Without(w, canonical, o)
           writable == IF out # Unset THEN o ELSE inputs[Len(inputs)]
           all == IF \E i \in DOMAIN inputs : Identity(w, inputs[i]) = Identity(w, writable)
                  THEN inputs ELSE Append(inputs, writable)
           root == Real(w, s.root)
           D == {p \in Places(s) : Exists(w, p) => Real(w, p) = p}
<1>1. /\ config.layers = all /\ config.writable = writable /\ config.world = w
      /\ config.workRoot = root
      /\ \A i \in DOMAIN all : ~Within(Real(w, all[i]), root)
  <2> HIDE DEF all, writable, root
  <2>1. config = IF \/ Len(inputs) > 1
                       /\ (The(PickOf(s.layers, "continue"), FALSE)
                            \/ The(PickOf(s.layers, "input"), FALSE))
                       /\ out = Unset
                    \/ \E i \in DOMAIN all : Within(Real(w, all[i]), root)
                 THEN NoReactConfig
                 ELSE [ok |-> TRUE, layers |-> all, writable |-> writable,
                       continue |-> The(PickOf(s.layers, "continue"), FALSE),
                       carryover |-> s.carryover, workRoot |-> root, world |-> w]
    BY Zenon DEF ReactResolve, all, writable, root
  <2>2. NoReactConfig.ok = FALSE
    BY DEF NoReactConfig
  <2> HIDE DEF inputs, w, out, dirs, given, canonical, o, D
  <2>3. ~ \E i \in DOMAIN all : Within(Real(w, all[i]), root)
    BY <2>1, <2>2
  <2>4. config = [ok |-> TRUE, layers |-> all, writable |-> writable,
                  continue |-> The(PickOf(s.layers, "continue"), FALSE),
                  carryover |-> s.carryover, workRoot |-> root, world |-> w]
    BY <2>1, <2>2
  <2> QED BY <2>3, <2>4
<1>2. DOMAIN s.world = {"links", "folded", "directories", "default", "environ"}
  BY DEF SessionIsSane
<1>3. /\ \A p : Real(w, p) = Real(s.world, p)
      /\ \A p : Real(w, Real(w, p)) = Real(w, p)
      /\ w.default = s.world.default
  BY <1>2, MadeKeeps, RealOfRealPath
<1>4. \A p \in PathsOf(s) : Canonical(w, p) \in D
  <2> TAKE p \in PathsOf(s)
  <2>1. p \in Places(s) /\ Real(w, p) \in Places(s)
    BY <1>3 DEF Places
  <2>2. CASE Exists(w, p)
    BY <2>1, <2>2, <1>3 DEF Canonical
  <2>3. CASE ~Exists(w, p)
    BY <2>1, <2>3 DEF Canonical
  <2> QED BY <2>2, <2>3
<1>5. given \in Seq(PathsOf(s)) /\ (out = Unset => Len(given) > 0)
  <2>1. CASE dirs = Unset
    <3>1. s.world.default \in PathsOf(s)
      BY DEF PathsOf
    <3>2. given = IF out = Unset THEN <<s.world.default>> ELSE <<>>
      BY <2>1, <1>3 DEF ListedDirectories, The
    <3> HIDE DEF given, out
    <3> QED BY <3>1, <3>2
  <2>2. CASE dirs # Unset
    <3>1. given \in dirs
      BY <2>2 DEF ListedDirectories, The, Unset
    <3> HIDE DEF given
    <3>2. given \in Seq(ToSet(given)) /\ given # <<>>
      BY <3>1 DEF SessionIsSane
    <3>3. ToSet(given) \subseteq PathsOf(s)
      BY <3>1 DEF PathsOf
    <3> HIDE DEF out, dirs
    <3> QED BY <3>2, <3>3
  <2> QED BY <2>1, <2>2
<1>6. /\ canonical \in Seq(D) /\ Spaced(w, canonical)
      /\ out = Unset => Len(canonical) > 0
  <2> HIDE DEF w, out, dirs, given, D
  <2> QED BY <1>4, <1>5, CanonicalSpaced
<1>7. D \subseteq Places(s) /\ \A p \in D : Exists(w, p) => Real(w, p) = p
  OBVIOUS
<1>8. /\ all \in Seq(D) /\ Len(all) > 0 /\ all[Len(all)] = writable /\ Spaced(w, all)
  <2>1. CASE out = Unset
    <3>1. inputs = canonical /\ writable = inputs[Len(inputs)]
      BY <2>1
    <3> HIDE DEF inputs, writable, canonical, w, D
    <3>2. Len(inputs) > 0 /\ inputs \in Seq(D)
      BY <1>6, <2>1, <3>1
    <3>3. Len(inputs) \in DOMAIN inputs
      BY <3>2
    <3>4. all = inputs
      BY <3>1, <3>3
    <3> QED BY <1>6, <3>1, <3>2, <3>4
  <2>2. CASE out # Unset
    <3>1. inputs = Without(w, canonical, o) /\ writable = o
      BY <2>2
    <3>2. o \in D
      <4>1. The(out, <<>>) \in out
        BY <2>2 DEF The, Unset
      <4>2. The(out, <<>>) \in PathsOf(s)
        BY <4>1 DEF PathsOf
      <4> QED BY <4>2, <1>3 DEF Places
    <3> HIDE DEF inputs, writable, canonical, w, D, o
    <3>3. /\ inputs \in Seq(D) /\ Spaced(w, inputs)
          /\ \A i \in DOMAIN inputs : Identity(w, inputs[i]) # Identity(w, o)
      BY <1>6, <3>1, WithoutSpaced
    <3>4. all = Append(inputs, o)
      BY <3>1, <3>3
    <3>5. Append(inputs, o) \in Seq(D) /\ Spaced(w, Append(inputs, o))
      BY <3>2, <3>3, SpacedAppend
    <3> HIDE DEF all
    <3> QED BY <3>1, <3>2, <3>3, <3>4, <3>5
  <2> QED BY <2>1, <2>2
<1> HIDE DEF D, all, writable
<1>9. all \in Seq(Places(s)) /\ \A i \in DOMAIN all : all[i] \in D
  BY <1>7, <1>8
<1>10. root = Real(s.world, s.root)
  BY <1>3
<1> HIDE DEF root, w
<1>11. w = Made(s.world, PickOf(s.layers, "out"))
  BY DEF w
<1> QED BY <1>1, <1>7, <1>8, <1>9, <1>10, <1>11 DEF Configured

\* A prefix of a longer path that is no prefix of the path is the longer path.
LEMMA PrefixOfAppend ==
  ASSUME NEW E, NEW p \in Seq(E), NEW q \in Seq(E), NEW e \in E,
         IsPrefix(p, Append(q, e)), ~IsPrefix(p, q)
  PROVE  p = Append(q, e)
<1>1. Len(p) <= Len(q) + 1 /\ SubSeq(p, 1, Len(p)) = SubSeq(Append(q, e), 1, Len(p))
  BY DEF IsPrefix
<1>2. SubSeq(p, 1, Len(p)) = p
  OBVIOUS
<1>3. CASE Len(p) <= Len(q)
  <2>1. SubSeq(Append(q, e), 1, Len(p)) = SubSeq(q, 1, Len(p))
    BY <1>3
  <2> QED BY <2>1, <1>1, <1>3 DEF IsPrefix
<1>4. CASE Len(p) = Len(q) + 1
  <2>1. SubSeq(Append(q, e), 1, Len(p)) = Append(q, e)
    BY <1>4
  <2> QED BY <2>1, <1>1, <1>2
<1> QED BY <1>1, <1>3, <1>4

\* Every path is its own prefix.
LEMMA PrefixOfItself ==
  ASSUME NEW E, NEW p \in Seq(E)
  PROVE  IsPrefix(p, p)
BY DEF IsPrefix

\* The world a session's phases run in: the layers, once each, and the
\* directories of its own, which are none of them.
Ready(config) ==
  LET world == SessionWorld(config) own == Session(config) IN
  /\ \A n : EnvKey(world, n) = EnvKey(config.world, n)
  /\ Real(world, own) = own /\ Exists(world, own)
  /\ Real(world, Isolated) = Isolated /\ Exists(world, Isolated)
  /\ Spaced(world, config.layers)
  /\ \A i \in DOMAIN config.layers :
       /\ Exists(world, config.layers[i]) = Exists(config.world, config.layers[i])
       /\ Exists(world, config.layers[i]) => Real(world, config.layers[i]) = config.layers[i]
       /\ Identity(world, config.layers[i]) # Identity(world, own)

\* A sane session is ready, and its own directory overlaps no layer.
LEMMA SessionReady ==
  ASSUME NEW s, SessionIsSane(s), NEW config, Configured(s, config)
  PROVE  SessionIsUsable(config) /\ Ready(config)
<1> DEFINE W == config.world
           L == config.layers
           S == SessionWorld(config)
           own == Session(config)
           root == config.workRoot
           Name == STRING
           Keys == {"links", "folded", "directories", "default", "environ"}
<1>1. DOMAIN s.world = Keys /\ W = Made(s.world, PickOf(s.layers, "out"))
  BY DEF SessionIsSane, Configured
<1>2. /\ DOMAIN W = Keys
      /\ \A p : Real(W, p) = Real(s.world, p)
      /\ \A p : Identity(W, p) = Identity(s.world, p)
  BY <1>1, MadeKeeps
<1>3. S = Made(W, {root, own, Isolated})
  BY DEF SessionWorld
<1> HIDE DEF W, S
<1>4. /\ \A p : Real(S, p) = Real(W, p)
      /\ \A p : Identity(S, p) = Identity(W, p)
      /\ \A n : EnvKey(S, n) = EnvKey(W, n)
      /\ S.directories = W.directories \cup {Real(W, p) : p \in {root, own, Isolated}}
  BY <1>2, <1>3, MadeKeeps
<1>5. /\ root = Real(s.world, s.root) /\ own = Append(root, "session")
      /\ root \in Seq(Name) /\ "session" \in Name
      /\ Real(W, root) = root
  <2>1. root = Real(s.world, s.root) /\ own = Append(root, "session")
    BY DEF Configured, Session
  <2>2. root \in Seq(Name) /\ own \in Seq(Name)
    BY <2>1 DEF SessionIsSane, IsFresh
  <2>3. Real(W, root) = root
    BY <2>1, <1>2, RealOfRealPath
  <2> HIDE DEF root, own, Name
  <2>4. own[Len(own)] = "session" /\ own[Len(own)] \in Name
    BY <2>1, <2>2
  <2> QED BY <2>1, <2>2, <2>3, <2>4
<1>6. IsFresh(s, own) /\ IsFresh(s, Isolated)
  BY <1>5 DEF SessionIsSane
<1>7. Real(W, own) = own /\ Real(W, Isolated) = Isolated
  BY <1>6, <1>2 DEF IsFresh
<1> HIDE DEF root, own, Name
<1>8. S.directories = W.directories \cup {root, own, Isolated}
  BY <1>4, <1>5, <1>7
<1>9. /\ Real(S, own) = own /\ Exists(S, own)
      /\ Real(S, Isolated) = Isolated /\ Exists(S, Isolated)
  BY <1>4, <1>7, <1>8 DEF Exists
<1>10. L \in Seq(Places(s)) /\ Spaced(W, L)
  BY DEF Configured, W
<1> HIDE DEF L
<1>11. Spaced(S, L)
  BY <1>4, <1>10 DEF Spaced
<1>12. ASSUME NEW i \in DOMAIN L
       PROVE  /\ Exists(S, L[i]) = Exists(W, L[i])
              /\ Exists(S, L[i]) => Real(S, L[i]) = L[i]
              /\ Identity(S, L[i]) # Identity(S, own)
              /\ ~Overlap(Real(W, L[i]), own)
  <2>1. L[i] \in Places(s)
    BY <1>10
  <2>2. PICK p \in PathsOf(s) : L[i] = p \/ L[i] = Real(s.world, p)
    BY <2>1 DEF Places
  <2> DEFINE q == Real(W, L[i])
  <2>3. q = Real(s.world, p)
    BY <2>2, <1>2, RealOfRealPath
  <2>4. q \in Seq(Name)
    BY <2>2, <2>3 DEF SessionIsSane, Name
  <2>5. ~Within(q, root)
    BY DEF Configured, L, W, root
  <2> HIDE DEF q
  <2>6. /\ ~Within(own, q) /\ ~Within(Isolated, q)
        /\ Identity(s.world, q) # Identity(s.world, own)
        /\ Identity(s.world, p) # Identity(s.world, own)
        /\ Identity(s.world, q) # Identity(s.world, Isolated)
    BY <2>2, <2>3, <1>6 DEF IsFresh
  <2>7. q # root
    BY <2>4, <2>5, PrefixOfItself DEF Within
  <2>8. q # own /\ q # Isolated
    BY <2>6
  <2>9. Exists(S, L[i]) = Exists(W, L[i])
    BY <2>7, <2>8, <1>4, <1>8 DEF Exists, q
  <2>10. Exists(W, L[i]) => Real(W, L[i]) = L[i]
    BY DEF Configured, L, W
  <2>11. Identity(S, L[i]) # Identity(S, own)
    BY <2>2, <2>3, <2>6, <1>2, <1>4
  <2>12. ~Within(q, own)
    <3>2. SUFFICES ASSUME Within(q, own) PROVE FALSE
      OBVIOUS
    <3>3. q = Append(root, "session")
      BY <3>2, <2>4, <2>5, <1>5, PrefixOfAppend DEF Within
    <3> QED BY <3>3, <2>8, <1>5
  <2>13. ~Overlap(Real(W, L[i]), own)
    BY <2>6, <2>12 DEF Overlap, q
  <2> QED BY <2>9, <2>10, <2>11, <2>13, <1>4
<1>13. SessionIsUsable(config)
  BY <1>12 DEF SessionIsUsable, L, W, own
<1> QED BY <1>4, <1>9, <1>11, <1>12, <1>13 DEF Ready, L, W, own, S

\* What each phase is told to read and write.
LEMMA Routings ==
  ASSUME NEW config
  PROVE  LET r(phase) == Routing(config, phase)
             Told(phase, dirs, out, continue) ==
               r(phase).dirs = dirs /\ r(phase).out = out /\ r(phase).continue = continue
             own == Session(config)
         IN /\ Told("check", <<Isolated>>, Unset, FALSE)
            /\ Told("thought", config.layers, {own}, TRUE)
            /\ config.carryover => Told("observe", config.layers, {own}, TRUE)
            /\ ~config.carryover =>
                  Told("observe", Append(config.layers, own), Unset, FALSE)
            /\ config.continue => Told("final", config.layers, {config.writable}, config.continue)
            /\ ~config.continue => Told("final", config.layers, Unset, config.continue)
BY DEF Routing

\* The options of a phase: its directories, its model and nothing else.
LEMMA PhaseCommand ==
  ASSUME NEW config, NEW layers, NEW phase
  PROVE  LET o == PhaseOptions(config, layers, phase)
             r == Routing(config, phase)
             llm == PhaseLlm(layers, phase)
         IN /\ o["dirs"] = {r.dirs} /\ o["out"] = r.out
            /\ o["continue"] = IF r.continue THEN {TRUE} ELSE Unset
            /\ o["input"] = Unset
            /\ \A n \in {"key", "keyEnv", "profile"} : o[n] = llm[n]
<1>1. DOMAIN PhaseLlm(layers, phase) = ProfileOptions \cup {"profile"}
  BY DEF PhaseLlm
<1>2. ProfileOptions = {"model", "baseUrl", "key", "keyEnv", "temperature", "extraBody"}
  BY DEF ProfileOptions
<1>3. {"dirs", "out", "continue", "input", "key", "keyEnv", "profile"} \subseteq OptionNames
  BY DEF OptionNames, ProfileOptions, DirectoryOptions
<1> QED BY <1>1, <1>2, <1>3 DEF PhaseOptions

\* Nothing of the [promptpile] table reaches a phase.
LEMMA PhaseTable ==
  ASSUME NEW profile
  PROVE  /\ \A n \in {"dirs", "out", "continue", "input"} : TomlLayer(NoOptions, profile)[n] = Unset
         /\ \A n \in {"key", "keyEnv"} : TomlLayer(NoOptions, profile)[n] = profile[n]
         /\ NoOptions["profile"] = Unset
<1>1. ProfileOptions = {"model", "baseUrl", "key", "keyEnv", "temperature", "extraBody"}
  BY DEF ProfileOptions
<1>2. {"dirs", "out", "continue", "input", "key", "keyEnv", "profile"} \subseteq OptionNames
  BY DEF OptionNames, ProfileOptions, DirectoryOptions
<1>3. \A n \in OptionNames : NoOptions[n] = Unset
  BY DEF NoOptions
<1> QED BY <1>1, <1>2, <1>3 DEF TomlLayer, Pick

\* The only value of an option.
LEMMA TheOnly ==
  ASSUME NEW v, NEW d
  PROVE  The({v}, d) = v
BY DEF The, Unset

\* What a phase that is told to read dirs and to write to out reads, where it
\* writes and whose key it uses.
RunsAs(config, layers, profiles, phase, dirs, out, continue) ==
  LET world == SessionWorld(config)
      llm   == PhaseLlm(layers, phase)
      run   == PhaseRun(config, layers, profiles, phase)
      read  == LayersOf(world, dirs, out)
  IN /\ run.ok <=> /\ KeysAreConsistent(world, llm)
                   /\ ProfileExists(llm, NoOptions, profiles)
                   /\ \A i \in DOMAIN dirs : Exists(world, dirs[i])
                   /\ read # <<>>
                   /\ ~(Len(read) > 1 /\ continue /\ out = Unset)
     /\ run.ok =>
          /\ run.inputs = read
          /\ run.output = IF out # Unset \/ continue THEN {read[Len(read)]} ELSE Unset
          /\ run.key = KeyIn(world, KeySource(llm, ProfileOf(llm, NoOptions, profiles)))

\* Every phase runs as its routing tells it to.
LEMMA PhaseRuns ==
  ASSUME NEW config, NEW layers, NEW profiles, NEW phase
  PROVE  LET r == Routing(config, phase)
         IN RunsAs(config, layers, profiles, phase, r.dirs, r.out, r.continue)
<1> DEFINE world == SessionWorld(config)
           r     == Routing(config, phase)
           llm   == PhaseLlm(layers, phase)
           o     == PhaseOptions(config, layers, phase)
           run   == PhaseRun(config, layers, profiles, phase)
           read  == LayersOf(world, r.dirs, r.out)
           toml  == TomlLayer(NoOptions, ProfileOf(o, NoOptions, profiles))
           merged == [n \in OptionNames |-> Pick(o[n], toml[n])]
           listed == ListedDirectories(world, merged["dirs"], merged["out"])
           layersRead == LayersOf(world, listed, merged["out"])
           writes == The(merged["continue"], FALSE) \/ The(merged["input"], FALSE)
           bad == ~KeysAreConsistent(world, o) \/ ~ProfileExists(o, NoOptions, profiles)
           worse == \/ \E i \in DOMAIN listed : ~Exists(world, listed[i])
                    \/ layersRead = <<>>
                    \/ FALSE /\ ~writes
                    \/ Len(layersRead) > 1 /\ writes /\ merged["out"] = Unset
           anchor == layersRead[Len(layersRead)]
           result == [ok |-> TRUE, inputs |-> layersRead,
                      output |-> IF merged["out"] # Unset \/ writes THEN {anchor} ELSE Unset,
                      anchor |-> anchor, key |-> KeyIn(world, KeySource(o, toml)),
                      options |-> merged, pile |-> PileTarget(o, toml)]
<1>1. run = IF bad THEN Failed ELSE IF worse THEN Failed ELSE result
  BY Zenon DEF PhaseRun, Resolve
<1>2. /\ o["dirs"] = {r.dirs} /\ o["out"] = r.out
      /\ o["continue"] = IF r.continue THEN {TRUE} ELSE Unset
      /\ o["input"] = Unset
      /\ \A n \in {"key", "keyEnv", "profile"} : o[n] = llm[n]
  BY PhaseCommand
<1>3. /\ \A n \in {"dirs", "out", "continue", "input"} : toml[n] = Unset
      /\ \A n \in {"key", "keyEnv"} : toml[n] = ProfileOf(o, NoOptions, profiles)[n]
      /\ NoOptions["profile"] = Unset
  BY PhaseTable
<1> HIDE DEF r, o, toml, llm, world, run
<1>4. /\ merged["dirs"] = {r.dirs} /\ merged["out"] = r.out
      /\ merged["continue"] = IF r.continue THEN {TRUE} ELSE Unset
      /\ merged["input"] = Unset
  <2>1. \A n \in {"dirs", "out", "continue", "input"} : merged[n] = o[n]
    <3>1. {"dirs", "out", "continue", "input"} \subseteq OptionNames
      BY DEF OptionNames, ProfileOptions, DirectoryOptions
    <3> QED BY <3>1, <1>3 DEF Pick
  <2> HIDE DEF merged
  <2> QED BY <2>1, <1>2
<1> HIDE DEF merged
<1>5. listed = r.dirs /\ (writes <=> r.continue)
  <2>1. listed = r.dirs
    BY <1>4, TheOnly DEF ListedDirectories
  <2>2. The(merged["input"], FALSE) = FALSE
    BY <1>4 DEF The
  <2>3. CASE r.continue
    <3>1. The(merged["continue"], FALSE) = TRUE
      BY <1>4, <2>3, TheOnly
    <3> QED BY <2>1, <2>3, <3>1
  <2>4. CASE ~r.continue
    <3>1. The(merged["continue"], FALSE) = FALSE
      BY <1>4, <2>4 DEF The
    <3> QED BY <2>1, <2>2, <2>4, <3>1
  <2> QED BY <2>3, <2>4
<1>6. Selected(o, NoOptions) = Selected(llm, NoOptions)
  BY <1>2 DEF Selected
<1>7. /\ KeysAreConsistent(world, o) = KeysAreConsistent(world, llm)
      /\ ProfileExists(o, NoOptions, profiles) = ProfileExists(llm, NoOptions, profiles)
      /\ ProfileOf(o, NoOptions, profiles) = ProfileOf(llm, NoOptions, profiles)
  BY <1>2, <1>6 DEF KeysAreConsistent, ProfileExists, ProfileOf
<1>8. KeySource(o, toml) = KeySource(llm, ProfileOf(llm, NoOptions, profiles))
  <2>1. \A n \in {"key", "keyEnv"} : toml[n] = ProfileOf(llm, NoOptions, profiles)[n]
    BY <1>3, <1>7
  <2> QED BY <2>1, <1>2 DEF KeySource
<1> HIDE DEF listed, writes
<1>9. layersRead = read
  BY <1>4, <1>5
<1> HIDE DEF layersRead, read
<1>10. Failed.ok = FALSE
  BY DEF Failed
<1>11. run.ok <=> ~bad /\ ~worse
  <2> HIDE DEF bad, worse
  <2>1. result.ok = TRUE
    OBVIOUS
  <2> HIDE DEF result
  <2> QED BY <1>1, <1>10, <2>1
<1>12. run.ok => run = result
  <2> HIDE DEF bad, worse, result
  <2> QED BY <1>1, <1>10
<1>13. ~bad <=> KeysAreConsistent(world, llm) /\ ProfileExists(llm, NoOptions, profiles)
  BY <1>7
<1>14. ~worse <=> /\ \A i \in DOMAIN r.dirs : Exists(world, r.dirs[i])
                  /\ read # <<>>
                  /\ ~(Len(read) > 1 /\ r.continue /\ r.out = Unset)
  BY <1>4, <1>5, <1>9
<1>15. /\ result.inputs = read
       /\ result.output = IF r.out # Unset \/ r.continue THEN {read[Len(read)]} ELSE Unset
       /\ result.key = KeyIn(world, KeySource(llm, ProfileOf(llm, NoOptions, profiles)))
  BY <1>4, <1>5, <1>8, <1>9
<1> HIDE DEF bad, worse, result
<1>16. run.ok <=> ( /\ KeysAreConsistent(world, llm)
                    /\ ProfileExists(llm, NoOptions, profiles)
                    /\ \A i \in DOMAIN r.dirs : Exists(world, r.dirs[i])
                    /\ read # <<>>
                    /\ ~(Len(read) > 1 /\ r.continue /\ r.out = Unset))
  BY <1>11, <1>13, <1>14
<1>17. run.ok => /\ run.inputs = read
                 /\ run.output = IF r.out # Unset \/ r.continue THEN {read[Len(read)]} ELSE Unset
                 /\ run.key = KeyIn(world, KeySource(llm, ProfileOf(llm, NoOptions, profiles)))
  BY <1>12, <1>15
<1> QED BY <1>16, <1>17 DEF RunsAs, world, r, llm, run, read

\* The layers promptpile makes of the directories each phase names.
LEMMA PhaseReads ==
  ASSUME NEW D, NEW config, Ready(config),
         config.layers \in Seq(D), Len(config.layers) > 0,
         config.layers[Len(config.layers)] = config.writable
  PROVE  LET world == SessionWorld(config)
             own   == Session(config)
             L     == config.layers
         IN /\ LayersOf(world, <<Isolated>>, Unset) = <<Isolated>>
            /\ (\A i \in DOMAIN L : Exists(world, L[i])) =>
                  /\ LayersOf(world, L, Unset) = L
                  /\ LayersOf(world, L, {own}) = Append(L, own)
                  /\ LayersOf(world, Append(L, own), Unset) = Append(L, own)
                  /\ LayersOf(world, L, {config.writable}) = L
            /\ (\A i \in DOMAIN Append(L, own) : Exists(world, Append(L, own)[i]))
                  <=> (\A i \in DOMAIN L : Exists(world, L[i]))
<1> DEFINE world == SessionWorld(config)
           own   == Session(config)
           L     == config.layers
           E     == D \cup {own}
           q     == Append(L, own)
<1>1. /\ Real(world, own) = own /\ Exists(world, own)
      /\ Real(world, Isolated) = Isolated /\ Exists(world, Isolated)
      /\ Spaced(world, L)
      /\ \A i \in DOMAIN L : Exists(world, L[i]) => Real(world, L[i]) = L[i]
      /\ \A i \in DOMAIN L : Identity(world, L[i]) # Identity(world, own)
  BY DEF Ready
<1> HIDE DEF world, own, L
<1>2. /\ L \in Seq(E) /\ Len(L) \in Nat /\ Len(L) > 0 /\ DOMAIN L = 1..Len(L)
      /\ L[Len(L)] = config.writable
  BY DEF L
<1>3. LayersOf(world, <<Isolated>>, Unset) = <<Isolated>>
  <2>1. <<Isolated>> \in Seq({Isolated}) /\ DOMAIN <<Isolated>> = {1} /\ <<Isolated>>[1] = Isolated
    OBVIOUS
  <2>2. Spaced(world, <<Isolated>>)
    BY <2>1 DEF Spaced
  <2>3. Distinct(world, <<Isolated>>) = <<Isolated>>
    <3>1. \A i \in DOMAIN <<Isolated>> : Real(world, <<Isolated>>[i]) = <<Isolated>>[i]
      BY <2>1, <1>1
    <3> QED BY <2>1, <2>2, <3>1, DistinctSame
  <2> QED BY <2>3 DEF LayersOf
<1>4. /\ q \in Seq(E) /\ DOMAIN q = 1..(Len(L) + 1) /\ q[Len(L)+1] = own
      /\ \A i \in 1..Len(L) : q[i] = L[i]
      /\ Spaced(world, q)
  <2>1. own \in E
    OBVIOUS
  <2> HIDE DEF E
  <2>2. Spaced(world, Append(L, own))
    BY <1>1, <1>2, <2>1, SpacedAppend
  <2> QED BY <1>2, <2>1, <2>2
<1> HIDE DEF q, E
<1>5. (\A i \in DOMAIN q : Exists(world, q[i])) <=> (\A i \in DOMAIN L : Exists(world, L[i]))
  <2>1. \A i \in DOMAIN L : i \in DOMAIN q /\ q[i] = L[i]
    BY <1>2, <1>4
  <2>2. \A i \in DOMAIN q : i \in DOMAIN L \/ q[i] = own
    BY <1>2, <1>4
  <2> QED BY <2>1, <2>2, <1>1
<1>6. ASSUME \A i \in DOMAIN L : Exists(world, L[i])
      PROVE  /\ LayersOf(world, L, Unset) = L
             /\ LayersOf(world, L, {own}) = q
             /\ LayersOf(world, q, Unset) = q
             /\ LayersOf(world, L, {config.writable}) = L
  <2>1. \A i \in DOMAIN L : Real(world, L[i]) = L[i]
    BY <1>1, <1>6
  <2>2. Distinct(world, L) = L
    BY <1>1, <1>2, <2>1, DistinctSame
  <2>3. \A i \in DOMAIN q : Real(world, q[i]) = q[i]
    BY <2>1, <1>1, <1>2, <1>4
  <2>4. Distinct(world, q) = q
    BY <1>4, <2>3, DistinctSame
  <2>5. /\ Without(world, L, own) = L
        /\ Append(Without(world, L, config.writable), config.writable) = L
    BY <1>1, <1>2, WithoutSpaced
  <2>6. Real(world, config.writable) = config.writable
    BY <1>2, <2>1
  <2>7. \A p : {p} # Unset
    BY DEF Unset
  <2>8. LayersOf(world, L, Unset) = L /\ LayersOf(world, q, Unset) = q
    BY <2>2, <2>4 DEF LayersOf
  <2>9. LayersOf(world, L, {own}) = q
    BY <2>2, <2>5, <2>7, <1>1, TheOnly DEF LayersOf, q
  <2>10. LayersOf(world, L, {config.writable}) = L
    BY <2>2, <2>5, <2>6, <2>7, TheOnly DEF LayersOf
  <2> QED BY <2>8, <2>9, <2>10
<1> QED BY <1>3, <1>5, <1>6 DEF world, own, L, q

\* What each phase reads and writes when it runs, and when it does.
LEMMA PhasesAgree ==
  ASSUME NEW D, NEW config, Ready(config),
         config.layers \in Seq(D), Len(config.layers) > 0,
         config.layers[Len(config.layers)] = config.writable,
         NEW layers, NEW profiles
  PROVE  PhasesKeepTo(config, layers, profiles) /\ PhasesResolve(config, layers, profiles)
<1> DEFINE world == SessionWorld(config)
           own   == Session(config)
           L     == config.layers
           run(phase) == PhaseRun(config, layers, profiles, phase)
           q     == Append(L, own)
           there == \A i \in DOMAIN L : Exists(world, L[i])
           set(phase) == /\ KeysAreConsistent(world, PhaseLlm(layers, phase))
                         /\ ProfileExists(PhaseLlm(layers, phase), NoOptions, profiles)
<1>1. /\ LayersOf(world, <<Isolated>>, Unset) = <<Isolated>>
      /\ there => /\ LayersOf(world, L, Unset) = L
                  /\ LayersOf(world, L, {own}) = q
                  /\ LayersOf(world, q, Unset) = q
                  /\ LayersOf(world, L, {config.writable}) = L
      /\ (\A i \in DOMAIN q : Exists(world, q[i])) <=> there
  BY PhaseReads
<1>2. \A p : {p} # Unset
  BY DEF Unset
<1>3. there <=> \A i \in DOMAIN L : Exists(config.world, L[i])
  BY DEF Ready
<1>4. \A phase : set(phase) <=> /\ KeysAreConsistent(config.world, PhaseLlm(layers, phase))
                                /\ ProfileExists(PhaseLlm(layers, phase), NoOptions, profiles)
  <2>1. \A n : EnvKey(world, n) = EnvKey(config.world, n)
    BY DEF Ready
  <2> HIDE DEF world
  <2> QED BY <2>1 DEF KeysAreConsistent
<1>5. Exists(world, Isolated)
  BY DEF Ready
<1>6. /\ L # <<>> /\ q # <<>> /\ Len(q) = Len(L) + 1 /\ q[Len(q)] = own
      /\ L[Len(L)] = config.writable
  OBVIOUS
<1> DEFINE Runs(phase, dirs, out, continue) ==
             RunsAs(config, layers, profiles, phase, dirs, out, continue)
           Means(phase, dirs, out, continue, read) ==
             LET all == \A i \in DOMAIN dirs : Exists(world, dirs[i]) IN
             /\ run(phase).ok <=> set(phase) /\ all /\ read # <<>>
                                  /\ ~(Len(read) > 1 /\ continue /\ out = Unset)
             /\ run(phase).ok => /\ run(phase).inputs = read
                                 /\ run(phase).output = IF out # Unset \/ continue
                                                        THEN {read[Len(read)]} ELSE Unset
<1>7. /\ Runs("check", <<Isolated>>, Unset, FALSE)
      /\ Runs("thought", L, {own}, TRUE)
      /\ config.carryover => Runs("observe", L, {own}, TRUE)
      /\ ~config.carryover => Runs("observe", q, Unset, FALSE)
      /\ config.continue => Runs("final", L, {config.writable}, TRUE)
      /\ ~config.continue => Runs("final", L, Unset, FALSE)
  <2>1. \A phase : LET r == Routing(config, phase) IN Runs(phase, r.dirs, r.out, r.continue)
    BY PhaseRuns
  <2> HIDE DEF Runs
  <2> DEFINE told(phase) == Routing(config, phase)
             Told(phase, dirs, out, continue) ==
               told(phase).dirs = dirs /\ told(phase).out = out
                 /\ told(phase).continue = continue
  <2>told. /\ Told("check", <<Isolated>>, Unset, FALSE)
           /\ Told("thought", L, {own}, TRUE)
           /\ config.carryover => Told("observe", L, {own}, TRUE)
           /\ ~config.carryover => Told("observe", q, Unset, FALSE)
           /\ config.continue => Told("final", L, {config.writable}, config.continue)
           /\ ~config.continue => Told("final", L, Unset, config.continue)
    BY Routings
  <2>runs. ASSUME NEW phase, NEW dirs, NEW out, NEW continue, Told(phase, dirs, out, continue)
        PROVE  Runs(phase, dirs, out, continue)
    <3> HIDE DEF told
    <3> QED BY <2>1, <2>runs DEF told
  <2> HIDE DEF Told, q, own, L
  <2>2. Runs("check", <<Isolated>>, Unset, FALSE)
    BY <2>told, <2>runs
  <2>3. Runs("thought", L, {own}, TRUE)
    BY <2>told, <2>runs
  <2>4. config.carryover => Runs("observe", L, {own}, TRUE)
    BY <2>told, <2>runs
  <2>5. ~config.carryover => Runs("observe", q, Unset, FALSE)
    BY <2>told, <2>runs
  <2>6. config.continue => Runs("final", L, {config.writable}, config.continue)
    BY <2>told, <2>runs
  <2>7. ~config.continue => Runs("final", L, Unset, config.continue)
    BY <2>told, <2>runs
  <2>8. ASSUME config.continue, Runs("final", L, {config.writable}, config.continue)
        PROVE  Runs("final", L, {config.writable}, TRUE)
    BY <2>8 DEF Runs, RunsAs
  <2>9. ASSUME ~config.continue, Runs("final", L, Unset, config.continue)
        PROVE  Runs("final", L, Unset, FALSE)
    BY <2>9 DEF Runs, RunsAs
  <2> QED BY <2>2, <2>3, <2>4, <2>5, <2>6, <2>7, <2>8, <2>9
<1>8. /\ Means("check", <<Isolated>>, Unset, FALSE, LayersOf(world, <<Isolated>>, Unset))
      /\ Means("thought", L, {own}, TRUE, LayersOf(world, L, {own}))
      /\ config.carryover => Means("observe", L, {own}, TRUE, LayersOf(world, L, {own}))
      /\ ~config.carryover => Means("observe", q, Unset, FALSE, LayersOf(world, q, Unset))
      /\ config.continue => Means("final", L, {config.writable}, TRUE,
                                  LayersOf(world, L, {config.writable}))
      /\ ~config.continue => Means("final", L, Unset, FALSE, LayersOf(world, L, Unset))
  <2>1. ASSUME NEW phase, NEW dirs, NEW out, NEW continue, Runs(phase, dirs, out, continue)
        PROVE  Means(phase, dirs, out, continue, LayersOf(world, dirs, out))
    BY <2>1 DEF RunsAs
  <2> HIDE DEF Means, Runs, world, own, L, q
  <2> QED BY <1>7, <2>1
<1> HIDE DEF set, world, own, L, q, run
<1>9. /\ run("check").ok <=> set("check")
      /\ run("check").ok => run("check").inputs = <<Isolated>> /\ run("check").output = Unset
  <2>1. DOMAIN <<Isolated>> = {1} /\ <<Isolated>>[1] = Isolated /\ Len(<<Isolated>>) = 1
        /\ <<Isolated>> # <<>>
    OBVIOUS
  <2> QED BY <2>1, <1>1, <1>5, <1>8
<1> HIDE DEF there
<1>10. \A phase \in {"thought", "observe"} :
         /\ run(phase).ok <=> set(phase) /\ there
         /\ run(phase).ok => /\ run(phase).inputs = q
                             /\ run(phase).output \subseteq {own}
  <2>1. ASSUME NEW phase, Means(phase, L, {own}, TRUE, LayersOf(world, L, {own}))
        PROVE  /\ run(phase).ok <=> set(phase) /\ there
               /\ run(phase).ok => /\ run(phase).inputs = q
                                   /\ run(phase).output \subseteq {own}
    BY <2>1, <1>1, <1>2, <1>6 DEF there
  <2>2. ASSUME NEW phase, Means(phase, q, Unset, FALSE, LayersOf(world, q, Unset))
        PROVE  /\ run(phase).ok <=> set(phase) /\ there
               /\ run(phase).ok => /\ run(phase).inputs = q
                                   /\ run(phase).output \subseteq {own}
    BY <2>2, <1>1, <1>6 DEF there, Unset
  <2> HIDE DEF Means
  <2> QED BY <2>1, <2>2, <1>8
<1>11. /\ run("final").ok <=> set("final") /\ there
       /\ run("final").ok => /\ run("final").inputs = L
                             /\ run("final").output = IF config.continue
                                                      THEN {config.writable} ELSE Unset
  <2>1. CASE config.continue
    BY <2>1, <1>1, <1>2, <1>6, <1>8 DEF there
  <2>2. CASE ~config.continue
    BY <2>2, <1>1, <1>6, <1>8 DEF there
  <2> QED BY <2>1, <2>2
<1>12. Phases = {"thought", "observe", "check", "final"}
  BY DEF Phases
<1> HIDE DEF Means
<1>13. PhasesKeepTo(config, layers, profiles)
  BY <1>9, <1>10, <1>11, <1>12 DEF PhasesKeepTo, run, own, L, q
<1>14. PhasesResolve(config, layers, profiles)
  BY <1>3, <1>4, <1>9, <1>10, <1>11, <1>12 DEF PhasesResolve, run, L
<1> QED BY <1>13, <1>14

\* Whose key a phase uses.
LEMMA PhaseKeys ==
  ASSUME NEW config, NEW layers, NEW profiles, NEW phase,
         \A n : EnvKey(SessionWorld(config), n) = EnvKey(config.world, n)
  PROVE  LET llm == PhaseLlm(layers, phase) IN
         KeyIn(SessionWorld(config), KeySource(llm, ProfileOf(llm, NoOptions, profiles)))
            = PhaseKey(config.world, layers, profiles, phase)
<1> DEFINE llm == PhaseLlm(layers, phase)
           own == layers.phases[phase]
           cli == layers.cli["key"]
           profile == ProfileOf(llm, NoOptions, profiles)
           world == SessionWorld(config)
           env(names) == UNION {EnvKey(config.world, n) : n \in names}
<1>1. /\ llm["key"] = IF cli # Unset THEN cli ELSE own["key"]
      /\ llm["keyEnv"] = IF llm["key"] = Unset THEN own["keyEnv"] ELSE Unset
  <2>1. {"key", "keyEnv"} \subseteq ProfileOptions
    BY DEF ProfileOptions
  <2> QED BY <2>1 DEF PhaseLlm, Pick
<1>2. PhaseKey(config.world, layers, profiles, phase) =
        CASE cli # Unset -> cli
          [] OTHER -> CASE own["key"] # Unset -> own["key"]
                        [] own["key"] = Unset /\ own["keyEnv"] # Unset -> env(own["keyEnv"])
                        [] OTHER -> Pick(profile["key"], env(profile["keyEnv"]))
  BY Zenon DEF PhaseKey
<1>3. \A names : UNION {EnvKey(world, n) : n \in names} = env(names)
  OBVIOUS
<1> HIDE DEF llm, own, cli, profile, env, world
<1>4. \A k, d : KeyIn(world, <<"direct", d>>) = d
                 /\ (k \in {"env", "configured"} => KeyIn(world, <<k, d>>) = env(d))
  BY <1>3 DEF KeyIn
<1>5. KeyIn(world, KeySource(llm, profile)) =
        IF llm["keyEnv"] # Unset THEN env(llm["keyEnv"])
        ELSE IF llm["key"] # Unset THEN llm["key"]
        ELSE IF profile["key"] # Unset THEN profile["key"] ELSE env(profile["keyEnv"])
  BY <1>4 DEF KeySource, Pick
<1>6. KeyIn(world, KeySource(llm, profile)) = PhaseKey(config.world, layers, profiles, phase)
  <2> HIDE DEF KeyIn, PhaseKey
  <2>1. CASE cli # Unset
    BY <2>1, <1>1, <1>2, <1>5
  <2>2. CASE cli = Unset /\ own["key"] # Unset
    BY <2>2, <1>1, <1>2, <1>5
  <2>3. CASE cli = Unset /\ own["key"] = Unset /\ own["keyEnv"] # Unset
    BY <2>3, <1>1, <1>2, <1>5
  <2>4. CASE cli = Unset /\ own["key"] = Unset /\ own["keyEnv"] = Unset
    BY <2>4, <1>1, <1>2, <1>5 DEF Pick
  <2> QED BY <2>1, <2>2, <2>3, <2>4
<1> QED BY <1>6 DEF llm, profile, world

\* A session that ReactResolve accepts is run as it was configured ...
THEOREM PhasesAsConfigured ==
  ASSUME NEW s, SessionIsSane(s), NEW config,
         config = ReactResolve(s.world, s.layers, s.carryover, s.root), config.ok
  PROVE  /\ SessionIsUsable(config)
         /\ PhasesKeepTo(config, s.layers, s.profiles)
         /\ PhasesResolve(config, s.layers, s.profiles)
         /\ \A phase \in Phases :
              LET run == PhaseRun(config, s.layers, s.profiles, phase)
              IN run.ok => run.key = PhaseKey(config.world, s.layers, s.profiles, phase)
<1>1. Configured(s, config)
  BY SessionLayers
<1>2. SessionIsUsable(config) /\ Ready(config)
  BY <1>1, SessionReady
<1>3. PhasesKeepTo(config, s.layers, s.profiles) /\ PhasesResolve(config, s.layers, s.profiles)
  <2>1. /\ config.layers \in Seq(Places(s)) /\ Len(config.layers) > 0
        /\ config.layers[Len(config.layers)] = config.writable
    BY <1>1 DEF Configured
  <2> QED BY <1>2, <2>1, PhasesAgree
<1>4. \A n : EnvKey(SessionWorld(config), n) = EnvKey(config.world, n)
  BY <1>2 DEF Ready
<1>5. \A phase : LET run == PhaseRun(config, s.layers, s.profiles, phase)
                 IN run.ok => run.key = PhaseKey(config.world, s.layers, s.profiles, phase)
  <2> TAKE phase
  <2>1. KeyIn(SessionWorld(config), KeySource(PhaseLlm(s.layers, phase),
              ProfileOf(PhaseLlm(s.layers, phase), NoOptions, s.profiles)))
          = PhaseKey(config.world, s.layers, s.profiles, phase)
    BY <1>4, PhaseKeys
  <2> DEFINE r == Routing(config, phase)
  <2>2. RunsAs(config, s.layers, s.profiles, phase, r.dirs, r.out, r.continue)
    BY PhaseRuns
  <2> HIDE DEF r
  <2> QED BY <2>1, <2>2 DEF RunsAs
<1> QED BY <1>2, <1>3, <1>5

\* ... whatever session it is.
THEOREM SessionsRunAsConfigured == AnyInput => []PhasesRunAsConfigured
<1>1. NoInput => PhasesRunAsConfigured
  BY DEF NoInput, Nothing, PhasesRunAsConfigured
<1>2. PhasesRunAsConfigured /\ [TakeInput]_input => PhasesRunAsConfigured'
  <2> SUFFICES ASSUME TakeInput PROVE PhasesRunAsConfigured'
    BY DEF PhasesRunAsConfigured
  <2>1. CASE TakeSession
    <3>1. PICK s \in Sessions :
            input' = [of |-> "session", layers |-> s.layers, profiles |-> s.profiles,
                      config |-> ReactResolve(s.world, s.layers, s.carryover, s.root)]
      BY <2>1 DEF TakeSession
    <3>2. SessionIsSane(s)
      BY SessionsAssumption
    <3>3. /\ input'.layers = s.layers /\ input'.profiles = s.profiles
          /\ input'.config = ReactResolve(s.world, s.layers, s.carryover, s.root)
      BY <3>1
    <3> QED BY <3>2, <3>3, PhasesAsConfigured DEF PhasesRunAsConfigured
  <2>2. CASE ~TakeSession
    <3>1. input'.of # "session"
      BY <2>2 DEF TakeInput, TakeRange, TakeTranscript, TakeTargets, TakeArchives
    <3> QED BY <3>1 DEF PhasesRunAsConfigured
  <2> QED BY <2>1, <2>2
<1> QED BY <1>1, <1>2, PTL DEF AnyInput

------------------------------------------------------------------------------
(* Reading a range: RangeRead *)

\* Texts, and lists of their pieces.
Char == {"a", "n", "r", "B"}

\* A text.
Text == Seq(Char)

\* Lists of pieces are not empty.
PieceLists == Seq(Text) \ {<<>>}

\* The step of Pieces.
AddPiece(pieces, c) ==
  IF c = "n" THEN Append(pieces, <<>>)
  ELSE [pieces EXCEPT ![Len(pieces)] = Append(@, c)]

\* A step leads from pieces to pieces.
LEMMA AddPieceType ==
  ASSUME NEW p \in PieceLists, NEW c \in Char
  PROVE  /\ AddPiece(p, c) \in PieceLists
         /\ c = "n" => AddPiece(p, c) = Append(p, <<>>)
         /\ c # "n" => /\ Len(AddPiece(p, c)) = Len(p)
                       /\ AddPiece(p, c)[Len(p)] = Append(p[Len(p)], c)
                       /\ \A i \in 1..(Len(p) - 1) : AddPiece(p, c)[i] = p[i]
<1>1. p \in Seq(Text) /\ p # <<>> /\ <<>> \in Text
  BY DEF PieceLists, Text
<1>2. Len(p) \in 1..Len(p)
  BY <1>1
<1>3. CASE c = "n"
  BY <1>1, <1>3, AppendProperties DEF AddPiece, PieceLists
<1>4. CASE c # "n"
  <2>1. p[Len(p)] \in Text
    BY <1>1, <1>2, ElementOfSeq
  <2>2. Append(p[Len(p)], c) \in Text
    BY <2>1 DEF Text
  <2>3. AddPiece(p, c) = [p EXCEPT ![Len(p)] = Append(p[Len(p)], c)]
    BY <1>4 DEF AddPiece
  <2> HIDE DEF AddPiece
  <2>4. /\ AddPiece(p, c) \in Seq(Text)
        /\ Len(AddPiece(p, c)) = Len(p)
        /\ \A j \in 1..Len(p) : AddPiece(p, c)[j] = IF j = Len(p) THEN Append(p[Len(p)], c) ELSE p[j]
    BY <1>1, <1>2, <2>2, <2>3, ExceptSeq
  <2>5. AddPiece(p, c) # <<>>
    BY <1>1, <1>2, <2>4
  <2>6. \A i \in 1..(Len(p)-1) : i \in 1..Len(p) /\ i # Len(p)
    BY <1>1
  <2> QED BY <1>2, <1>4, <2>4, <2>5, <2>6 DEF PieceLists
<1> QED BY <1>3, <1>4

\* Pieces, step by step.
LEMMA PiecesSteps ==
  ASSUME NEW text \in Text
  PROVE  \E F \in [0..Len(text) -> PieceLists] :
            /\ F[0] = <<<<>>>>
            /\ \A i \in 1..Len(text) : F[i] = AddPiece(F[i-1], text[i])
            /\ Pieces(text) = F[Len(text)]
<1> DEFINE n == Len(text)
           V == PieceLists
           base == <<<<>>>>
           g == [p \in V \X (1..n) |-> AddPiece(p[1], text[p[2]])]
           Body(f) == [s \in SUBSET (DOMAIN text) |->
                         IF s = {} THEN base ELSE AddPiece(f[s \ {Max(s)}], text[Max(s)])]
           iter == CHOOSE f : f = Body(f)
<1>1. Pieces(text) = iter[DOMAIN text]
  BY DEF FoldLeft, MapThenFoldSet, Pieces, AddPiece
<1>2. n \in Nat /\ DOMAIN text = 1..n /\ base \in V
  BY DEF PieceLists, Text
<1>3. \A v \in V, i \in 1..n : AddPiece(v, text[i]) \in V
  <2>1. \A i \in 1..n : text[i] \in Char
    BY DEF Text
  <2> QED BY <2>1, AddPieceType
<1>4. \A v \in V, i \in 1..n : g[<<v, i>>] = AddPiece(v, text[i])
  OBVIOUS
<1> HIDE DEF n, V, g, base
<1>5. Closed(n, V, g)
  BY <1>3, <1>4 DEF Closed
<1>6. PICK f : FoldsTo(f, n, V, base, g)
  BY <1>2, <1>5, FoldExists
<1>7. \A s \in SUBSET (1..n) : s # {} => Max(s) \in 1..n
  BY <1>2, MaxIn
<1>8. f = Body(f)
  BY <1>2, <1>4, <1>6, <1>7 DEF FoldsTo
<1>9. iter = Body(iter)
  <2> HIDE DEF Body
  <2> QED BY <1>8
<1> HIDE DEF iter
<1>10. Unfolds(iter, n, V, base, g)
  BY <1>2, <1>4, <1>7, <1>9 DEF Unfolds
<1>11. PICK F : Ladder(F, n, V, base, g) /\ iter[1..n] = F[n]
  BY <1>2, <1>5, <1>10, FoldLadder
<1>12. \A i \in 1..n : F[i] = AddPiece(F[i-1], text[i])
  <2>1. \A i \in 1..n : F[i-1] \in V
    BY <1>2, <1>11 DEF Ladder
  <2> QED BY <2>1, <1>4, <1>11 DEF Ladder
<1>13. Pieces(text) = F[n]
  BY <1>1, <1>2, <1>11
<1> HIDE DEF Body
<1> QED BY <1>11, <1>12, <1>13 DEF n, V, base, Ladder

\* The pieces of a text with one more character.
LEMMA PiecesAppend ==
  ASSUME NEW text \in Text, NEW x \in Char
  PROVE  /\ Pieces(text) \in PieceLists
         /\ Pieces(Append(text, x)) = AddPiece(Pieces(text), x)
<1> DEFINE b == Append(text, x)
           n == Len(text)
<1>1. /\ b \in Seq(Char) /\ Len(b) = n + 1 /\ b[n+1] = x
      /\ \A i \in 1..n : b[i] = text[i]
  BY AppendProperties DEF Text
<1>2. PICK F \in [0..n -> PieceLists] :
            /\ F[0] = <<<<>>>>
            /\ \A i \in 1..n : F[i] = AddPiece(F[i-1], text[i])
            /\ Pieces(text) = F[n]
  BY PiecesSteps
<1> HIDE DEF b
<1>3. PICK G \in [0..Len(b) -> PieceLists] :
            /\ G[0] = <<<<>>>>
            /\ \A i \in 1..Len(b) : G[i] = AddPiece(G[i-1], b[i])
            /\ Pieces(b) = G[Len(b)]
  BY <1>1, PiecesSteps
<1> DEFINE T == {i \in Nat : i <= n => F[i] = G[i]}
<1>4. n \in Nat
  OBVIOUS
<1>5. 0 \in T
  BY <1>2, <1>3
<1>6. ASSUME NEW i \in Nat, i \in T PROVE i + 1 \in T
  <2> SUFFICES ASSUME i + 1 <= n PROVE F[i+1] = G[i+1]
    OBVIOUS
  <2>1. i + 1 \in 1..n /\ i + 1 \in 1..Len(b) /\ (i + 1) - 1 = i
    BY <1>1, <1>4
  <2>2. F[i] = G[i]
    BY <1>4, <1>6, <2>1
  <2> QED BY <1>1, <1>2, <1>3, <2>1, <2>2
<1> HIDE DEF T
<1>7. n \in T
  BY <1>4, <1>5, <1>6, NatSetInduction
<1>8. F[n] = G[n]
  BY <1>4, <1>7 DEF T
<1>9. G[n+1] = AddPiece(G[n], b[n+1])
  <2>1. n + 1 \in 1..Len(b) /\ (n + 1) - 1 = n
    BY <1>1, <1>4
  <2> QED BY <1>3, <2>1
<1>10. F[n] \in PieceLists
  BY <1>2, <1>4
<1> QED BY <1>1, <1>2, <1>3, <1>8, <1>9, <1>10 DEF b

\* The characters of lines.
Sum(lines) == FoldLeft(LAMBDA n, line : n + Len(line), 0, lines)

\* Sum, step by step.
LEMMA SumSteps ==
  ASSUME NEW lines \in Seq(Text)
  PROVE  \E F \in [0..Len(lines) -> Nat] :
            /\ F[0] = 0
            /\ \A i \in 1..Len(lines) : F[i] = (F[i-1] + Len(lines[i]))
            /\ Sum(lines) = F[Len(lines)]
<1> DEFINE n == Len(lines)
           V == Nat
           base == 0
           g == [p \in V \X (1..n) |-> (p[1] + Len(lines[p[2]]))]
           Body(f) == [s \in SUBSET (DOMAIN lines) |->
                         IF s = {} THEN base ELSE (f[s \ {Max(s)}] + Len(lines[Max(s)]))]
           iter == CHOOSE f : f = Body(f)
<1>1. Sum(lines) = iter[DOMAIN lines]
  BY DEF FoldLeft, MapThenFoldSet, Sum
<1>2. n \in Nat /\ DOMAIN lines = 1..n /\ base \in V
  OBVIOUS
<1>3. \A v \in V, i \in 1..n : (v + Len(lines[i])) \in V
  <2>1. \A i \in 1..n : lines[i] \in Text
    OBVIOUS
  <2> QED BY <2>1 DEF Text
<1>4. \A v \in V, i \in 1..n : g[<<v, i>>] = (v + Len(lines[i]))
  OBVIOUS
<1> HIDE DEF n, V, g, base
<1>5. Closed(n, V, g)
  BY <1>3, <1>4 DEF Closed
<1>6. PICK f : FoldsTo(f, n, V, base, g)
  BY <1>2, <1>5, FoldExists
<1>7. \A s \in SUBSET (1..n) : s # {} => Max(s) \in 1..n
  BY <1>2, MaxIn
<1>8. f = Body(f)
  BY <1>2, <1>4, <1>6, <1>7 DEF FoldsTo
<1>9. iter = Body(iter)
  <2> HIDE DEF Body
  <2> QED BY <1>8
<1> HIDE DEF iter
<1>10. Unfolds(iter, n, V, base, g)
  BY <1>2, <1>4, <1>7, <1>9 DEF Unfolds
<1>11. PICK F : Ladder(F, n, V, base, g) /\ iter[1..n] = F[n]
  BY <1>2, <1>5, <1>10, FoldLadder
<1>12. \A i \in 1..n : F[i] = (F[i-1] + Len(lines[i]))
  <2>1. \A i \in 1..n : F[i-1] \in V
    BY <1>2, <1>11 DEF Ladder
  <2> QED BY <2>1, <1>4, <1>11 DEF Ladder
<1>13. Sum(lines) = F[n]
  BY <1>1, <1>2, <1>11
<1> HIDE DEF Body
<1> QED BY <1>11, <1>12, <1>13 DEF n, V, base, Ladder

\* The sum with one more line.
LEMMA SumAppend ==
  ASSUME NEW lines \in Seq(Text), NEW x \in Text
  PROVE  /\ Sum(lines) \in Nat
         /\ Sum(Append(lines, x)) = (Sum(lines) + Len(x))
<1> DEFINE b == Append(lines, x)
           n == Len(lines)
<1>1. /\ b \in Seq(Text) /\ Len(b) = n + 1 /\ b[n+1] = x
      /\ \A i \in 1..n : b[i] = lines[i]
  BY AppendProperties
<1>2. PICK F \in [0..n -> Nat] :
            /\ F[0] = 0
            /\ \A i \in 1..n : F[i] = (F[i-1] + Len(lines[i]))
            /\ Sum(lines) = F[n]
  BY SumSteps
<1> HIDE DEF b
<1>3. PICK G \in [0..Len(b) -> Nat] :
            /\ G[0] = 0
            /\ \A i \in 1..Len(b) : G[i] = (G[i-1] + Len(b[i]))
            /\ Sum(b) = G[Len(b)]
  BY <1>1, SumSteps
<1> DEFINE T == {i \in Nat : i <= n => F[i] = G[i]}
<1>4. n \in Nat
  OBVIOUS
<1>5. 0 \in T
  BY <1>2, <1>3
<1>6. ASSUME NEW i \in Nat, i \in T PROVE i + 1 \in T
  <2> SUFFICES ASSUME i + 1 <= n PROVE F[i+1] = G[i+1]
    OBVIOUS
  <2>1. i + 1 \in 1..n /\ i + 1 \in 1..Len(b) /\ (i + 1) - 1 = i
    BY <1>1, <1>4
  <2>2. F[i] = G[i]
    BY <1>4, <1>6, <2>1
  <2> QED BY <1>1, <1>2, <1>3, <2>1, <2>2
<1> HIDE DEF T
<1>7. n \in T
  BY <1>4, <1>5, <1>6, NatSetInduction
<1>8. F[n] = G[n]
  BY <1>4, <1>7 DEF T
<1>9. G[n+1] = (G[n] + Len(b[n+1]))
  <2>1. n + 1 \in 1..Len(b) /\ (n + 1) - 1 = n
    BY <1>1, <1>4
  <2> QED BY <1>3, <2>1
<1>10. F[n] \in Nat
  BY <1>2, <1>4
<1> QED BY <1>1, <1>2, <1>3, <1>8, <1>9, <1>10 DEF b

\* Induction over sequences, for a set instead of a predicate.
LEMMA SeqSetInduction ==
  ASSUME NEW S, NEW T, <<>> \in T,
         \A s \in Seq(S), x \in S : s \in T => Append(s, x) \in T
  PROVE  Seq(S) \subseteq T
<1> DEFINE U == {k \in Nat : \A s \in Seq(S) : Len(s) = k => s \in T}
<1>1. 0 \in U
  BY EmptySeq
<1>2. ASSUME NEW k \in Nat, k \in U PROVE k + 1 \in U
  <2> SUFFICES ASSUME NEW s \in Seq(S), Len(s) = k + 1 PROVE s \in T
    OBVIOUS
  <2>1. s # <<>>
    BY EmptySeq
  <2>2. PICK u \in Seq(S), x \in S : s = Append(u, x)
    BY <2>1, SequenceEmptyOrAppend
  <2>3. Len(u) = k
    BY <2>2, AppendProperties
  <2> QED BY <1>2, <2>2, <2>3
<1> HIDE DEF U
<1>3. \A k \in Nat : k \in U
  BY <1>1, <1>2, NatSetInduction
<1> QED BY <1>3 DEF U

\* A text without characters is one piece.
LEMMA PiecesEmpty == Pieces(<<>>) = <<<<>>>>
<1>1. <<>> \in Text /\ Len(<<>>) = 0
  BY DEF Text
<1> QED BY <1>1, PiecesSteps

\* A text is a list of pieces.
LEMMA PiecesType ==
  ASSUME NEW t \in Text
  PROVE  /\ Pieces(t) \in Seq(Text) /\ Pieces(t) # <<>> /\ Pieces(t) \in PieceLists
         /\ Len(Pieces(t)) \in Nat /\ Len(Pieces(t)) >= 1
         /\ \A i \in 1..Len(Pieces(t)) : Pieces(t)[i] \in Text
<1>1. "a" \in Char
  BY DEF Char
<1>2. Pieces(t) \in PieceLists
  BY <1>1, PiecesAppend
<1> QED BY <1>2 DEF PieceLists

\* Two parts of one piece.
Glue(x, y) == x \o y

\* u is p followed by q, the last piece of p and the first of q being one.
Joined(p, q, u) ==
  /\ Len(u) = Len(p) + Len(q) - 1
  /\ \A i \in 1..(Len(p) - 1) : u[i] = p[i]
  /\ u[Len(p)] = Glue(p[Len(p)], q[1])
  /\ \A i \in 2..Len(q) : u[Len(p) - 1 + i] = q[i]

\* One more character.
LEMMA GlueAppend ==
  ASSUME NEW x \in Text, NEW y \in Text, NEW c \in Char
  PROVE  Append(Glue(x, y), c) = Glue(x, Append(y, c))
<1>1. Append(x \o y, c) = (x \o y) \o <<c>> /\ Append(y, c) = y \o <<c>> /\ <<c>> \in Text
  BY ConcatProperties, AppendIsConcat DEF Text
<1> QED BY <1>1, ConcatAssociative DEF Glue, Text

\* One more character goes to the last piece, or begins a new one.
LEMMA JoinedAppend ==
  ASSUME NEW p \in PieceLists, NEW q \in PieceLists, NEW u \in PieceLists,
         Joined(p, q, u), NEW c \in Char
  PROVE  Joined(p, AddPiece(q, c), AddPiece(u, c))
<1>1. /\ Len(p) \in Nat /\ Len(q) \in Nat /\ Len(u) \in Nat
      /\ Len(p) >= 1 /\ Len(q) >= 1 /\ Len(u) = Len(p) + Len(q) - 1
  BY DEF PieceLists, Joined
<1>2. /\ p \in Seq(Text) /\ q \in Seq(Text) /\ u \in Seq(Text) /\ <<>> \in Text
  BY DEF PieceLists, Text
<1> DEFINE m == Len(p) k == Len(q) n == Len(u)
<1>5. /\ n = m + k - 1 /\ u[m] = Glue(p[m], q[1])
      /\ \A i \in 1..(m - 1) : u[i] = p[i]
      /\ \A i \in 2..k : u[m - 1 + i] = q[i]
  BY DEF Joined
<1> DEFINE q2 == AddPiece(q, c) u2 == AddPiece(u, c) k2 == Len(q2) n2 == Len(u2)
<1>6. SUFFICES /\ n2 = m + k2 - 1 /\ u2[m] = Glue(p[m], q2[1])
               /\ \A i \in 1..(m - 1) : u2[i] = p[i]
               /\ \A i \in 2..k2 : u2[m - 1 + i] = q2[i]
  BY DEF Joined
<1>7. m \in Nat /\ k \in Nat /\ n \in Nat /\ m >= 1 /\ k >= 1
  BY <1>1
<1>3. CASE c = "n"
  <2>1. q2 = Append(q, <<>>) /\ u2 = Append(u, <<>>)
    BY <1>3, AddPieceType
  <2>2. /\ k2 = k + 1 /\ n2 = n + 1
        /\ q2[k + 1] = <<>> /\ u2[n + 1] = <<>>
        /\ \A i \in 1..k : q2[i] = q[i]
        /\ \A i \in 1..n : u2[i] = u[i]
    BY <1>2, <2>1, AppendProperties
  <2> HIDE DEF q2, u2, k2, n2, m, k, n
  <2>3. ASSUME NEW i \in 1..(m-1) PROVE u2[i] = p[i]
    <3>1. i \in 1..n
      BY <1>5, <1>7
    <3> QED BY <1>5, <2>2, <3>1
  <2>4. u2[m] = Glue(p[m], q2[1])
    <3>1. m \in 1..n /\ 1 \in 1..k
      BY <1>5, <1>7
    <3> QED BY <1>5, <2>2, <3>1
  <2>5. ASSUME NEW i \in 2..k2 PROVE u2[m - 1 + i] = q2[i]
    <3>1. CASE i <= k
      <4>1. i \in 2..k /\ i \in 1..k /\ m - 1 + i \in 1..n
        BY <1>5, <1>7, <3>1
      <4> QED BY <1>5, <2>2, <4>1
    <3>2. CASE i = k + 1
      <4>1. m - 1 + i = n + 1
        BY <1>5, <1>7, <3>2
      <4> QED BY <2>2, <3>2, <4>1
    <3> QED BY <1>7, <2>2, <3>1, <3>2
  <2> QED BY <1>5, <1>7, <2>2, <2>3, <2>4, <2>5
<1>4. CASE c # "n"
  <2>2. /\ k2 = k /\ n2 = n
        /\ q2[k] = Append(q[k], c) /\ u2[n] = Append(u[n], c)
        /\ \A i \in 1..(k - 1) : q2[i] = q[i]
        /\ \A i \in 1..(n - 1) : u2[i] = u[i]
    BY <1>4, AddPieceType
  <2>6. p[m] \in Text /\ q[1] \in Text
    BY <1>1, <1>2, ElementOfSeq
  <2> HIDE DEF q2, u2, k2, n2, m, k, n
  <2>3. ASSUME NEW i \in 1..(m-1) PROVE u2[i] = p[i]
    <3>1. i \in 1..(n - 1)
      BY <1>5, <1>7
    <3> QED BY <1>5, <2>2, <3>1
  <2>4. u2[m] = Glue(p[m], q2[1])
    <3>1. CASE k = 1
      <4>1. n = m
        BY <1>5, <1>7, <3>1
      <4>2. Append(Glue(p[m], q[1]), c) = Glue(p[m], Append(q[1], c))
        BY <2>6, GlueAppend
      <4>3. u2[m] = Append(u[m], c) /\ q2[1] = Append(q[1], c)
        BY <2>2, <3>1, <4>1
      <4> QED BY <1>5, <4>2, <4>3
    <3>2. CASE k # 1
      <4>1. m \in 1..(n-1) /\ 1 \in 1..(k-1)
        BY <1>5, <1>7, <3>2
      <4> QED BY <1>5, <2>2, <4>1
    <3> QED BY <3>1, <3>2
  <2>5. ASSUME NEW i \in 2..k2 PROVE u2[m - 1 + i] = q2[i]
    <3>0. i \in 2..k
      BY <2>2
    <3>1. CASE i < k
      <4>1. i \in 1..(k-1) /\ m - 1 + i \in 1..(n-1)
        BY <1>5, <1>7, <3>1
      <4> QED BY <1>5, <2>2, <3>0, <4>1
    <3>2. CASE i = k
      <4>1. m - 1 + i = n
        BY <1>5, <1>7, <3>2
      <4>2. u[n] = q[k]
        BY <1>5, <3>0, <3>2, <4>1
      <4> QED BY <2>2, <3>2, <4>1, <4>2
    <3> QED BY <1>7, <3>0, <3>1, <3>2
  <2> QED BY <1>5, <2>2, <2>3, <2>4, <2>5
<1> QED BY <1>3, <1>4

\* Nothing more leaves the pieces as they are.
LEMMA JoinedEmpty ==
  ASSUME NEW p \in PieceLists
  PROVE  Joined(p, <<<<>>>>, p)
<1> DEFINE m == Len(p) q == <<<<>>>>
<1>1. p \in Seq(Text) /\ m \in Nat /\ m >= 1
  BY DEF PieceLists
<1>2. p[m] \in Text
  <2>1. m \in 1..m
    BY <1>1
  <2> QED BY <1>1, <2>1, ElementOfSeq
<1>3. Len(q) = 1 /\ q[1] = <<>>
  OBVIOUS
<1> HIDE DEF m, q
<1>4. Glue(p[m], <<>>) = p[m]
  BY <1>2, ConcatEmptySeq DEF Glue, Text
<1>5. m = m + Len(q) - 1 /\ ~\E i : i \in 2..Len(q)
  BY <1>1, <1>3
<1> QED BY <1>3, <1>4, <1>5 DEF Joined, m, q

\* The pieces of a text in two parts are those of the parts, joined at the seam.
LEMMA PiecesJoined ==
  ASSUME NEW a \in Text, NEW t \in Text
  PROVE  a \o t \in Text /\ Joined(Pieces(a), Pieces(t), Pieces(a \o t))
<1> DEFINE T == {s \in Text : a \o s \in Text /\ Joined(Pieces(a), Pieces(s), Pieces(a \o s))}
<1>1. <<>> \in T
  <2>1. a \o <<>> = a /\ <<>> \in Text
    BY ConcatEmptySeq DEF Text
  <2>2. /\ Pieces(<<>>) = <<<<>>>> /\ Len(Pieces(<<>>)) = 1 /\ Pieces(<<>>)[1] = <<>>
    BY PiecesEmpty
  <2>4. Joined(Pieces(a), Pieces(<<>>), Pieces(a))
    BY PiecesType, PiecesEmpty, JoinedEmpty
  <2> QED BY <2>1, <2>4
<1>2. ASSUME NEW s \in Seq(Char), NEW c \in Char, s \in T PROVE Append(s, c) \in T
  <2>1. s \in Text /\ a \o s \in Text /\ Append(s, c) \in Text
    BY <1>2 DEF Text
  <2>2. a \o Append(s, c) = Append(a \o s, c)
    BY <2>1, AppendIsConcat, ConcatAssociative, ConcatProperties DEF Text
  <2>3. Append(a \o s, c) \in Text
    BY <2>1 DEF Text
  <2>4. /\ Pieces(Append(s, c)) = AddPiece(Pieces(s), c)
        /\ Pieces(Append(a \o s, c)) = AddPiece(Pieces(a \o s), c)
    BY <2>1, PiecesAppend
  <2>5. Joined(Pieces(a), AddPiece(Pieces(s), c), AddPiece(Pieces(a \o s), c))
    <3>1. Pieces(a) \in PieceLists /\ Pieces(s) \in PieceLists /\ Pieces(a \o s) \in PieceLists
      BY <2>1, PiecesType
    <3>2. Joined(Pieces(a), Pieces(s), Pieces(a \o s))
      BY <1>2
    <3> QED BY <3>1, <3>2, JoinedAppend
  <2> QED BY <2>1, <2>2, <2>3, <2>4, <2>5
<1> HIDE DEF T
<1>3. Seq(Char) \subseteq T
  BY <1>1, <1>2, SeqSetInduction
<1> QED BY <1>3 DEF T, Text

\* A text without newlines.
Plain(t) == \A k \in 1..Len(t) : t[k] # "n"

\* Such a text is one piece.
LEMMA PlainIsOnePiece ==
  ASSUME NEW t \in Text, Plain(t)
  PROVE  Pieces(t) = <<t>>
<1> DEFINE T == {s \in Text : Plain(s) => Pieces(s) = <<s>>}
<1>1. <<>> \in T
  BY PiecesEmpty DEF Text
<1>2. ASSUME NEW s \in Seq(Char), NEW c \in Char, s \in T PROVE Append(s, c) \in T
  <2> SUFFICES ASSUME Plain(Append(s, c)) PROVE Pieces(Append(s, c)) = <<Append(s, c)>>
    BY DEF Text
  <2>1. /\ Len(Append(s, c)) = Len(s) + 1 /\ Append(s, c)[Len(s) + 1] = c
        /\ \A k \in 1..Len(s) : Append(s, c)[k] = s[k]
    BY AppendProperties
  <2>2. Plain(s) /\ c # "n"
    <3>1. Len(s) \in Nat
      OBVIOUS
    <3>2. Len(s) + 1 \in 1..(Len(s) + 1) /\ \A k \in 1..Len(s) : k \in 1..(Len(s) + 1)
      BY <3>1
    <3> QED BY <2>1, <3>2 DEF Plain
  <2>3. Pieces(s) = <<s>>
    BY <1>2, <2>2
  <2>4. Pieces(Append(s, c)) = AddPiece(<<s>>, c)
    BY <2>3, PiecesAppend DEF Text
  <2>5. AddPiece(<<s>>, c) = <<Append(s, c)>>
    BY <2>2 DEF AddPiece
  <2> QED BY <2>4, <2>5
<1> HIDE DEF T
<1>3. Seq(Char) \subseteq T
  BY <1>1, <1>2, SeqSetInduction
<1> QED BY <1>3 DEF T, Text

\* The pieces of a text have no newlines, and the last ends as the text does.
PiecesArePlain(t) ==
  LET p == Pieces(t) last == p[Len(p)]
  IN /\ \A i \in 1..Len(p) : Plain(p[i])
     /\ last # <<>> => t # <<>> /\ t[Len(t)] = last[Len(last)]

\* This holds of every text.
LEMMA PiecesPlain ==
  ASSUME NEW t \in Text
  PROVE  PiecesArePlain(t)
<1> DEFINE T == {s \in Text : PiecesArePlain(s)}
<1>1. <<>> \in T
  BY PiecesEmpty DEF Text, PiecesArePlain, Plain
<1>2. ASSUME NEW s \in Seq(Char), NEW c \in Char, s \in T PROVE Append(s, c) \in T
  <2> DEFINE p == Pieces(s) u == Append(s, c) p2 == Pieces(u)
  <2>1. /\ u \in Text /\ u # <<>> /\ Len(u) = Len(s) + 1 /\ u[Len(s) + 1] = c /\ s \in Text
    BY AppendProperties DEF Text
  <2>2. p2 = AddPiece(p, c)
    BY <2>1, PiecesAppend
  <2>3. /\ p \in PieceLists /\ p \in Seq(Text) /\ Len(p) \in Nat /\ Len(p) >= 1
        /\ \A i \in 1..Len(p) : p[i] \in Text
    BY <2>1, PiecesType
  <2>4. PiecesArePlain(s)
    BY <1>2
  <2> HIDE DEF u, p, p2
  <2>5. \A i \in 1..Len(p) : Plain(p[i])
    BY <2>4 DEF PiecesArePlain, p
  <2>6. CASE c = "n"
    <3>1. p2 = Append(p, <<>>)
      BY <2>2, <2>3, <2>6, AddPieceType
    <3>2. /\ Len(p2) = Len(p) + 1 /\ p2[Len(p) + 1] = <<>>
          /\ \A i \in 1..Len(p) : p2[i] = p[i]
      <4>1. <<>> \in Text
        BY DEF Text
      <4> QED BY <2>3, <3>1, <4>1, AppendProperties
    <3>3. Plain(<<>>)
      BY DEF Plain
    <3>4. ASSUME NEW i \in 1..Len(p2) PROVE Plain(p2[i])
      BY <2>3, <2>5, <3>2, <3>3
    <3> QED BY <2>1, <3>2, <3>4 DEF PiecesArePlain, p2, u
  <2>7. CASE c # "n"
    <3>1. /\ Len(p2) = Len(p)
          /\ p2[Len(p)] = Append(p[Len(p)], c)
          /\ \A i \in 1..(Len(p) - 1) : p2[i] = p[i]
      BY <2>2, <2>3, <2>7, AddPieceType
    <3> DEFINE l == p[Len(p)] l2 == Append(l, c)
    <3>2. l \in Text /\ Plain(l)
      <4>1. Len(p) \in 1..Len(p)
        BY <2>3
      <4> QED BY <2>3, <2>5, <4>1
    <3> HIDE DEF l
    <3>3. /\ Len(l) \in Nat /\ Len(l2) = Len(l) + 1 /\ l2[Len(l) + 1] = c
          /\ \A k \in 1..Len(l) : l2[k] = l[k]
      BY <3>2, AppendProperties DEF Text
    <3> HIDE DEF l2
    <3>4. Plain(l2)
      BY <2>7, <3>2, <3>3 DEF Plain
    <3>5. p2[Len(p)] = l2
      BY <3>1 DEF l, l2
    <3>6. ASSUME NEW i \in 1..Len(p2) PROVE Plain(p2[i])
      BY <2>3, <2>5, <3>1, <3>4, <3>5
    <3>7. p2[Len(p2)] = l2 /\ l2[Len(l2)] = c
      BY <3>1, <3>3, <3>5
    <3> QED BY <2>1, <3>6, <3>7 DEF PiecesArePlain, p2, u
  <2> QED BY <2>6, <2>7
<1> HIDE DEF T
<1>3. Seq(Char) \subseteq T
  BY <1>1, <1>2, SeqSetInduction
<1> QED BY <1>3 DEF T, Text

\* A text that does not begin with a newline has a first piece.
LEMMA FirstPiece ==
  ASSUME NEW t \in Text, t # <<>>, Head(t) # "n"
  PROVE  Pieces(t)[1] # <<>>
<1> DEFINE h == <<Head(t)>> r == Tail(t)
<1>1. h \in Text /\ r \in Text /\ t = h \o r
  BY DEF Text
<1>2. Plain(h)
  BY DEF Plain
<1>3. Pieces(h) = <<h>>
  BY <1>1, <1>2, PlainIsOnePiece
<1>4. Joined(<<h>>, Pieces(r), Pieces(t))
  <2> HIDE DEF h, r
  <2> QED BY <1>1, <1>3, PiecesJoined
<1>5. Pieces(t)[1] = h \o Pieces(r)[1]
  <2> HIDE DEF h, r
  <2> QED BY <1>4 DEF Joined, Glue
<1>6. Pieces(r)[1] \in Text
  <2> HIDE DEF h, r
  <2> QED BY <1>1, PiecesType
<1> HIDE DEF r
<1>7. h \o Pieces(r)[1] # <<>>
  <2>1. Len(h) = 1
    OBVIOUS
  <2> HIDE DEF h
  <2> QED BY <1>1, <1>6, <2>1, ConcatProperties, EmptySeq DEF Text
<1> QED BY <1>5, <1>7

\* There is a value for each prefix, each one step of g from the one before.
LEMMA LadderExists ==
  ASSUME NEW n \in Nat, NEW V, NEW base \in V, NEW g, Closed(n, V, g)
  PROVE  \E F : Ladder(F, n, V, base, g)
<1>1. PICK f : FoldsTo(f, n, V, base, g)
  BY FoldExists
<1>2. \A s \in SUBSET (1..n) : s # {} => Max(s) \in 1..n
  BY MaxIn
<1>3. Unfolds(f, n, V, base, g)
  BY <1>1, <1>2 DEF Unfolds, FoldsTo
<1> QED BY <1>3, FoldLadder

\* FlattenSeq, step by step.
LEMMA FlattenSteps ==
  ASSUME NEW S, NEW cs \in Seq(Seq(S))
  PROVE  \E F \in [0..Len(cs) -> Seq(S)] :
            /\ F[0] = <<>>
            /\ \A i \in 1..Len(cs) : F[i] = Glue(F[i-1], cs[i])
            /\ FlattenSeq(cs) = F[Len(cs)]
<1> DEFINE n == Len(cs)
           g == [p \in Seq(S) \X (1..n) |-> Glue(p[1], cs[p[2]])]
           Body(f) == [i \in 1..n |-> IF i = 1 THEN cs[i] ELSE f[i-1] \o cs[i]]
           iter == CHOOSE f : f = Body(f)
<1>1. n \in Nat /\ (n = 0 => cs = <<>>) /\ <<>> \in Seq(S)
  OBVIOUS
<1>2. \A i \in 1..n : cs[i] \in Seq(S)
  BY ElementOfSeq
<1>3. \A v \in Seq(S), x \in Seq(S) : Glue(v, x) \in Seq(S)
  BY ConcatProperties DEF Glue
<1>4. \A v \in Seq(S), i \in 1..n : g[<<v, i>>] = Glue(v, cs[i])
  OBVIOUS
<1>5. FlattenSeq(cs) = IF n = 0 THEN cs ELSE iter[n]
  BY DEF FlattenSeq
<1> HIDE DEF n, g
<1>6. Closed(n, Seq(S), g)
  BY <1>2, <1>3, <1>4 DEF Closed
<1>7. PICK F : Ladder(F, n, Seq(S), <<>>, g)
  BY <1>1, <1>6, LadderExists
<1>8. F \in [0..n -> Seq(S)] /\ F[0] = <<>>
  BY <1>7 DEF Ladder
<1>9. \A i \in 1..n : F[i-1] \in Seq(S)
  BY <1>1, <1>8
<1>10. \A i \in 1..n : F[i] = Glue(F[i-1], cs[i])
  BY <1>4, <1>7, <1>9 DEF Ladder
<1> DEFINE f == [i \in 1..n |-> F[i]]
<1>11. f = Body(f)
  <2>1. ASSUME NEW i \in 1..n PROVE F[i] = IF i = 1 THEN cs[i] ELSE f[i-1] \o cs[i]
    <3>1. CASE i = 1
      <4>1. Glue(<<>>, cs[i]) = cs[i]
        BY <1>2, ConcatEmptySeq DEF Glue
      <4>2. i - 1 = 0
        BY <3>1
      <4> QED BY <1>8, <1>10, <3>1, <4>1, <4>2
    <3>2. CASE i # 1
      <4>1. i - 1 \in 1..n
        BY <1>1, <3>2
      <4>2. f[i-1] = F[i-1]
        BY <4>1
      <4> HIDE DEF f
      <4> QED BY <1>10, <3>2, <4>2 DEF Glue
    <3> QED BY <3>1, <3>2
  <2> QED BY <2>1
<1>12. iter = Body(iter)
  <2> HIDE DEF f
  <2> QED BY <1>11
<1> HIDE DEF iter, f
<1> DEFINE T == {i \in Nat : i \in 1..n => iter[i] = F[i]}
<1>13. 0 \in T
  OBVIOUS
<1>14. ASSUME NEW i \in Nat, i \in T PROVE i + 1 \in T
  <2> SUFFICES ASSUME i + 1 \in 1..n PROVE iter[i+1] = F[i+1]
    OBVIOUS
  <2>1. iter[i+1] = IF i + 1 = 1 THEN cs[i+1] ELSE iter[(i+1)-1] \o cs[i+1]
    BY <1>12
  <2>2. F[i+1] = Glue(F[(i+1)-1], cs[i+1])
    BY <1>10
  <2>3. (i + 1) - 1 = i
    OBVIOUS
  <2>4. CASE i = 0
    <3>1. Glue(<<>>, cs[i+1]) = cs[i+1]
      BY <1>2, ConcatEmptySeq DEF Glue
    <3>2. iter[i+1] = cs[i+1]
      BY <2>1, <2>4
    <3>3. F[(i+1)-1] = <<>>
      BY <1>8, <2>3, <2>4
    <3> QED BY <2>2, <3>1, <3>2, <3>3
  <2>5. CASE i # 0
    <3>1. i \in 1..n /\ i + 1 # 1
      BY <1>1, <2>5
    <3>2. iter[i] = F[i]
      BY <1>14, <3>1
    <3> HIDE DEF Body
    <3> QED BY <2>1, <2>2, <2>3, <3>1, <3>2 DEF Glue
  <2> QED BY <2>4, <2>5
<1> HIDE DEF T, Body
<1>15. n \in T
  BY <1>1, <1>13, <1>14, NatSetInduction
<1>16. FlattenSeq(cs) = F[n]
  <2>1. CASE n = 0
    BY <1>1, <1>5, <1>8, <2>1
  <2>2. CASE n # 0
    <3>1. n \in 1..n
      BY <1>1, <2>2
    <3> QED BY <1>5, <1>15, <2>2, <3>1 DEF T
  <2> QED BY <2>1, <2>2
<1> QED BY <1>8, <1>10, <1>16 DEF n

\* One more part.
LEMMA FlattenAppend ==
  ASSUME NEW S, NEW cs \in Seq(Seq(S)), NEW x \in Seq(S)
  PROVE  /\ FlattenSeq(cs) \in Seq(S)
         /\ FlattenSeq(Append(cs, x)) = Glue(FlattenSeq(cs), x)
<1> DEFINE b == Append(cs, x)
           n == Len(cs)
<1>1. /\ b \in Seq(Seq(S)) /\ Len(b) = n + 1 /\ b[n+1] = x
      /\ \A i \in 1..n : b[i] = cs[i]
  BY AppendProperties
<1>2. PICK F \in [0..n -> Seq(S)] :
            /\ F[0] = <<>>
            /\ \A i \in 1..n : F[i] = Glue(F[i-1], cs[i])
            /\ FlattenSeq(cs) = F[n]
  BY FlattenSteps
<1> HIDE DEF b
<1>3. PICK G \in [0..Len(b) -> Seq(S)] :
            /\ G[0] = <<>>
            /\ \A i \in 1..Len(b) : G[i] = Glue(G[i-1], b[i])
            /\ FlattenSeq(b) = G[Len(b)]
  BY <1>1, FlattenSteps
<1> DEFINE T == {i \in Nat : i <= n => F[i] = G[i]}
<1>4. n \in Nat
  OBVIOUS
<1>5. 0 \in T
  BY <1>2, <1>3
<1>6. ASSUME NEW i \in Nat, i \in T PROVE i + 1 \in T
  <2> SUFFICES ASSUME i + 1 <= n PROVE F[i+1] = G[i+1]
    OBVIOUS
  <2>1. i + 1 \in 1..n /\ i + 1 \in 1..Len(b) /\ (i + 1) - 1 = i
    BY <1>1, <1>4
  <2>2. F[i] = G[i]
    BY <1>4, <1>6, <2>1
  <2> QED BY <1>1, <1>2, <1>3, <2>1, <2>2
<1> HIDE DEF T
<1>7. n \in T
  BY <1>4, <1>5, <1>6, NatSetInduction
<1>8. F[n] = G[n]
  BY <1>4, <1>7 DEF T
<1>9. G[n+1] = Glue(G[n], b[n+1])
  <2>1. n + 1 \in 1..Len(b) /\ (n + 1) - 1 = n
    BY <1>1, <1>4
  <2> QED BY <1>3, <2>1
<1>10. F[n] \in Seq(S)
  <2>1. n \in 0..n
    BY <1>4
  <2> HIDE DEF n
  <2> QED BY <1>2, <2>1
<1> QED BY <1>1, <1>2, <1>3, <1>8, <1>9, <1>10 DEF b

\* One more text.
LEMMA TextsAppend ==
  ASSUME NEW cs \in Seq(Text), NEW x \in Text
  PROVE  /\ FlattenSeq(cs) \in Text
         /\ FlattenSeq(Append(cs, x)) = Glue(FlattenSeq(cs), x)
BY FlattenAppend DEF Text

\* No chunks make no text.
LEMMA FlattenEmpty == FlattenSeq(<<>>) = <<>>
BY DEF FlattenSeq

\* The chunks of a stream.
Chunk == Text \ {<<>>}

\* What chunks read so far make, as readFileInRange counts it.
TextOf(chunks) == WithoutBom(FlattenSeq(chunks))

\* Chunks are texts.
LEMMA ChunksAreTexts ==
  ASSUME NEW cs \in Seq(Chunk)
  PROVE  cs \in Seq(Text) /\ FlattenSeq(cs) \in Text
<1>1. cs \in Seq(Text)
  <2>1. Chunk \subseteq Text
    BY DEF Chunk
  <2> QED BY <2>1, SeqMonotonic
<1>2. <<>> \in Text
  BY DEF Text
<1> QED BY <1>1, <1>2, TextsAppend

\* Two parts of a text.
LEMMA GlueText ==
  ASSUME NEW x \in Text, NEW y \in Text
  PROVE  /\ Glue(x, y) \in Text /\ Len(Glue(x, y)) = Len(x) + Len(y)
         /\ Len(x) \in Nat /\ Len(y) \in Nat
         /\ x = <<>> => Glue(x, y) = y
         /\ y = <<>> => Glue(x, y) = x
         /\ x # <<>> => /\ Glue(x, y) # <<>> /\ Head(Glue(x, y)) = Head(x)
                        /\ Tail(Glue(x, y)) = Glue(Tail(x), y)
         /\ y # <<>> => Glue(x, y) # <<>> /\ Glue(x, y)[Len(Glue(x, y))] = y[Len(y)]
<1>1. /\ x \o y \in Text /\ Len(x \o y) = Len(x) + Len(y)
      /\ \A i \in 1 .. Len(x) + Len(y) :
           (x \o y)[i] = IF i <= Len(x) THEN x[i] ELSE y[i - Len(x)]
  BY ConcatProperties DEF Text
<1>2. Len(x) \in Nat /\ Len(y) \in Nat
  BY DEF Text
<1>3. /\ x = <<>> => x \o y = y
      /\ y = <<>> => x \o y = x
  BY ConcatEmptySeq DEF Text
<1>4. ASSUME x # <<>>
      PROVE  x \o y # <<>> /\ Head(x \o y) = Head(x) /\ Tail(x \o y) = Tail(x) \o y
  <2>1. Len(x) \in Nat \ {0} /\ Tail(x) \in Text /\ Len(Tail(x)) = Len(x) - 1
        /\ \A i \in 1..Len(Tail(x)) : Tail(x)[i] = x[i+1]
    BY <1>4, EmptySeq, HeadTailProperties DEF Text
  <2>2. Len(x \o y) # 0
    BY <1>1, <1>2, <2>1
  <2>3. x \o y # <<>>
    BY <2>2, EmptySeq
  <2>4. Head(x \o y) = (x \o y)[1] /\ Head(x) = x[1]
    BY <1>1, <1>4, <2>3 DEF Text
  <2>5. (x \o y)[1] = x[1]
    BY <1>1, <1>2, <2>1
  <2>6. /\ Tail(x \o y) \in Text /\ Len(Tail(x \o y)) = Len(x \o y) - 1
        /\ \A i \in 1..Len(Tail(x \o y)) : Tail(x \o y)[i] = (x \o y)[i+1]
    BY <1>1, <2>3, HeadTailProperties DEF Text
  <2>7. /\ Tail(x) \o y \in Text /\ Len(Tail(x) \o y) = Len(Tail(x)) + Len(y)
        /\ \A i \in 1 .. Len(Tail(x)) + Len(y) :
             (Tail(x) \o y)[i] = IF i <= Len(Tail(x)) THEN Tail(x)[i] ELSE y[i - Len(Tail(x))]
    BY <2>1, ConcatProperties DEF Text
  <2>8. Len(Tail(x \o y)) = Len(Tail(x) \o y)
    BY <1>1, <1>2, <2>1, <2>6, <2>7
  <2>9. ASSUME NEW i \in 1..Len(Tail(x \o y)) PROVE Tail(x \o y)[i] = (Tail(x) \o y)[i]
    <3>1. i + 1 \in 1..(Len(x) + Len(y)) /\ i \in 1..(Len(Tail(x)) + Len(y))
      BY <1>1, <1>2, <2>1, <2>6
    <3>2. Tail(x \o y)[i] = IF i + 1 <= Len(x) THEN x[i+1] ELSE y[(i+1) - Len(x)]
      BY <1>1, <2>6, <3>1
    <3>3. (Tail(x) \o y)[i] = IF i <= Len(Tail(x)) THEN Tail(x)[i] ELSE y[i - Len(Tail(x))]
      BY <2>7, <3>1
    <3>4. (i + 1 <= Len(x)) = (i <= Len(Tail(x))) /\ (i+1) - Len(x) = i - Len(Tail(x))
      BY <1>2, <2>1
    <3>5. i <= Len(Tail(x)) => i \in 1..Len(Tail(x))
      BY <2>1
    <3> QED BY <2>1, <3>2, <3>3, <3>4, <3>5
  <2>10. Tail(x \o y) = Tail(x) \o y
    BY <2>6, <2>7, <2>8, <2>9, SeqEqual DEF Text
  <2> QED BY <2>3, <2>4, <2>5, <2>10
<1>5. ASSUME y # <<>>
      PROVE  x \o y # <<>> /\ (x \o y)[Len(x \o y)] = y[Len(y)]
  <2>1. Len(y) \in Nat \ {0}
    BY <1>5, EmptySeq DEF Text
  <2>2. Len(x) + Len(y) \in 1..(Len(x) + Len(y)) /\ ~(Len(x) + Len(y) <= Len(x))
        /\ (Len(x) + Len(y)) - Len(x) = Len(y) /\ Len(x) + Len(y) # 0
    BY <1>2, <2>1
  <2>3. x \o y # <<>>
    BY <1>1, <2>2, EmptySeq
  <2> QED BY <1>1, <2>2, <2>3
<1> QED BY <1>1, <1>2, <1>3, <1>4, <1>5 DEF Glue

\* A text without its byte order mark.
LEMMA WithoutBomText ==
  ASSUME NEW x \in Text
  PROVE  /\ WithoutBom(x) \in Text /\ Len(WithoutBom(x)) <= Len(x)
         /\ Len(WithoutBom(x)) # Len(x) => x # <<>> /\ Head(x) = "B"
         /\ \A y \in Text : x # <<>> => WithoutBom(Glue(x, y)) = Glue(WithoutBom(x), y)
         /\ WithoutBom(x) # <<>> => /\ x # <<>>
                                   /\ WithoutBom(x)[Len(WithoutBom(x))] = x[Len(x)]
<1>1. CASE x # <<>> /\ Head(x) = "B"
  <2>1. /\ Tail(x) \in Text /\ Len(Tail(x)) = Len(x) - 1 /\ Len(x) \in Nat
        /\ \A i \in 1 .. Len(Tail(x)) : Tail(x)[i] = x[i+1]
    BY <1>1, HeadTailProperties DEF Text
  <2>2. WithoutBom(x) = Tail(x)
    BY <1>1 DEF WithoutBom
  <2>3. ASSUME NEW y \in Text PROVE WithoutBom(Glue(x, y)) = Glue(WithoutBom(x), y)
    BY <1>1, <2>2, GlueText DEF WithoutBom
  <2>4. ASSUME Tail(x) # <<>> PROVE Tail(x)[Len(Tail(x))] = x[Len(x)]
    <3>1. Len(Tail(x)) \in Nat \ {0}
      BY <2>1, <2>4, EmptySeq DEF Text
    <3>2. Len(Tail(x)) \in 1..Len(Tail(x)) /\ Len(Tail(x)) + 1 = Len(x)
      BY <2>1, <3>1
    <3> QED BY <2>1, <3>2
  <2>5. /\ WithoutBom(x) \in Text /\ Len(WithoutBom(x)) <= Len(x)
        /\ WithoutBom(x) # <<>> => x # <<>> /\ WithoutBom(x)[Len(WithoutBom(x))] = x[Len(x)]
    BY <1>1, <2>1, <2>2, <2>4
  <2> QED BY <1>1, <2>3, <2>5
<1>2. CASE ~(x # <<>> /\ Head(x) = "B")
  <2>1. WithoutBom(x) = x /\ Len(x) \in Nat
    BY <1>2 DEF WithoutBom, Text
  <2>2. ASSUME NEW y \in Text, x # <<>> PROVE WithoutBom(Glue(x, y)) = Glue(WithoutBom(x), y)
    BY <1>2, <2>1, <2>2, GlueText DEF WithoutBom
  <2> QED BY <2>1, <2>2
<1> QED BY <1>1, <1>2

\* Chunks that were read make a text, which begins and ends as they do.
LEMMA FlattenEnds ==
  ASSUME NEW cs \in Seq(Chunk), cs # <<>>
  PROVE  /\ FlattenSeq(cs) # <<>>
         /\ Head(FlattenSeq(cs)) = Head(Head(cs))
         /\ FlattenSeq(cs)[Len(FlattenSeq(cs))] = cs[Len(cs)][Len(cs[Len(cs)])]
<1> DEFINE Ends(s) == /\ FlattenSeq(s) # <<>>
                      /\ Head(FlattenSeq(s)) = Head(Head(s))
                      /\ FlattenSeq(s)[Len(FlattenSeq(s))] = s[Len(s)][Len(s[Len(s)])]
           T == {s \in Seq(Chunk) : s # <<>> => Ends(s)}
<1>1. <<>> \in T
  BY EmptySeq
<1>2. ASSUME NEW s \in Seq(Chunk), NEW c \in Chunk, s \in T PROVE Append(s, c) \in T
  <2> DEFINE b == Append(s, c)
  <2>1. /\ b \in Seq(Chunk) /\ b # <<>> /\ Len(b) = Len(s) + 1 /\ b[Len(s) + 1] = c
        /\ Head(b) = IF s = <<>> THEN c ELSE Head(s)
    BY AppendProperties, HeadTailAppend
  <2>2. /\ FlattenSeq(b) = Glue(FlattenSeq(s), c) /\ FlattenSeq(s) \in Text
        /\ c \in Text /\ c # <<>>
    BY ChunksAreTexts, TextsAppend DEF Chunk
  <2> HIDE DEF b
  <2>3. /\ FlattenSeq(b) # <<>>
        /\ FlattenSeq(b)[Len(FlattenSeq(b))] = c[Len(c)]
    <3>1. /\ Glue(FlattenSeq(s), c) # <<>>
          /\ Glue(FlattenSeq(s), c)[Len(Glue(FlattenSeq(s), c))] = c[Len(c)]
      BY ONLY <2>2, GlueText
    <3> QED BY ONLY <2>2, <3>1
  <2>4. CASE s = <<>>
    <3>1. FlattenSeq(b) = c
      BY <2>2, <2>4, FlattenEmpty, GlueText
    <3> QED BY <2>1, <2>3, <2>4, <3>1 DEF b
  <2>5. CASE s # <<>>
    <3>1. FlattenSeq(s) # <<>> /\ Head(FlattenSeq(s)) = Head(Head(s))
      BY <1>2, <2>5
    <3>2. Head(FlattenSeq(b)) = Head(FlattenSeq(s))
      BY <2>2, <3>1, GlueText
    <3> QED BY <2>1, <2>3, <2>5, <3>1, <3>2 DEF b
  <2> QED BY <2>4, <2>5
<1> HIDE DEF T
<1>3. cs \in T
  BY <1>1, <1>2, SeqSetInduction
<1> QED BY <1>3 DEF T

\* What one more chunk adds to the text.
LEMMA TextGrows ==
  ASSUME NEW cs \in Seq(Chunk), NEW c \in Chunk
  PROVE  LET more == IF cs = <<>> THEN WithoutBom(c) ELSE c
         IN /\ TextOf(cs) \in Text /\ more \in Text
            /\ cs = <<>> => TextOf(cs) = <<>>
            /\ TextOf(Append(cs, c)) = Glue(TextOf(cs), more)
<1>1. /\ FlattenSeq(cs) \in Text /\ c \in Text
      /\ FlattenSeq(Append(cs, c)) = Glue(FlattenSeq(cs), c)
  BY ChunksAreTexts, TextsAppend DEF Chunk
<1>2. CASE cs = <<>>
  <2>1. FlattenSeq(cs) = <<>> /\ TextOf(cs) = <<>>
    BY <1>2, FlattenEmpty DEF TextOf, WithoutBom
  <2>2. FlattenSeq(Append(cs, c)) = c
    BY <1>1, <2>1, GlueText
  <2>3. <<>> \in Text /\ WithoutBom(c) \in Text
    BY <1>1, WithoutBomText DEF Text
  <2>4. Glue(<<>>, WithoutBom(c)) = WithoutBom(c)
    BY <2>3, GlueText
  <2> QED BY <1>2, <2>1, <2>2, <2>3, <2>4 DEF TextOf
<1>3. CASE cs # <<>>
  <2>1. FlattenSeq(cs) # <<>>
    BY <1>3, FlattenEnds
  <2>2. WithoutBom(Glue(FlattenSeq(cs), c)) = Glue(WithoutBom(FlattenSeq(cs)), c)
        /\ WithoutBom(FlattenSeq(cs)) \in Text
    BY <1>1, <2>1, WithoutBomText
  <2> QED BY <1>1, <1>3, <2>2 DEF TextOf
<1> QED BY <1>2, <1>3

\* The text ends as the last chunk does.
LEMMA TextEnds ==
  ASSUME NEW cs \in Seq(Chunk), TextOf(cs) # <<>>
  PROVE  /\ cs # <<>>
         /\ TextOf(cs)[Len(TextOf(cs))] = cs[Len(cs)][Len(cs[Len(cs)])]
<1>1. FlattenSeq(cs) \in Text
  BY ChunksAreTexts
<1>2. FlattenSeq(cs) # <<>> /\ TextOf(cs)[Len(TextOf(cs))] = FlattenSeq(cs)[Len(FlattenSeq(cs))]
  BY <1>1, WithoutBomText DEF TextOf
<1>3. cs # <<>>
  BY <1>2, FlattenEmpty
<1> QED BY <1>2, <1>3, FlattenEnds

\* What lines take up, each with its newline.
Weight(lines) == Sum(lines) + Len(lines)

\* The last newline does not count.
LEMMA SizeIsWeight ==
  ASSUME NEW l \in Seq(Text)
  PROVE  /\ Weight(l) \in Nat
         /\ l = <<>> => Size(l) = 0
         /\ l # <<>> => Size(l) = Weight(l) - 1
         /\ \A x \in Text : /\ Weight(Append(l, x)) = Weight(l) + Len(x) + 1
                            /\ Size(Append(l, x)) = Weight(l) + Len(x)
                            /\ Append(l, x) \in Seq(Text)
<1>1. Size(l) = Sum(l) + (IF l = <<>> THEN 0 ELSE Len(l) - 1)
  BY DEF Size, Sum
<1>2. Sum(<<>>) = 0
  <2>1. <<>> \in Seq(Text) /\ Len(<<>>) = 0
    OBVIOUS
  <2> QED BY <2>1, SumSteps
<1>3. Sum(l) \in Nat /\ Len(l) \in Nat
  <2>1. <<>> \in Text
    BY DEF Text
  <2> QED BY <2>1, SumAppend
<1>4. ASSUME NEW x \in Text
      PROVE  /\ Weight(Append(l, x)) = Weight(l) + Len(x) + 1
             /\ Size(Append(l, x)) = Weight(l) + Len(x)
             /\ Append(l, x) \in Seq(Text)
  <2> DEFINE b == Append(l, x)
  <2>1. b \in Seq(Text) /\ b # <<>> /\ Len(b) = Len(l) + 1
    BY AppendProperties
  <2>2. Sum(b) = Sum(l) + Len(x)
    BY SumAppend
  <2>3. Size(b) = Sum(b) + (IF b = <<>> THEN 0 ELSE Len(b) - 1)
    BY DEF Size, Sum
  <2>4. Len(x) \in Nat
    BY DEF Text
  <2> HIDE DEF b
  <2>5. Weight(b) = Weight(l) + Len(x) + 1 /\ Size(b) = Weight(l) + Len(x)
    BY <1>3, <2>1, <2>2, <2>3, <2>4 DEF Weight
  <2> QED BY <2>1, <2>5 DEF b
<1> QED BY <1>1, <1>2, <1>3, <1>4 DEF Weight

\* Only a carriage return at the end goes.
LEMMA WithoutCrText ==
  ASSUME NEW x \in Text
  PROVE  /\ WithoutCr(x) \in Text /\ Len(x) \in Nat /\ Len(WithoutCr(x)) \in Nat
         /\ Len(WithoutCr(x)) <= Len(x) /\ Len(x) <= Len(WithoutCr(x)) + 1
         /\ Len(WithoutCr(x)) # Len(x) => x # <<>> /\ x[Len(x)] = "r"
<1>1. Len(x) \in Nat
  BY DEF Text
<1>2. CASE x # <<>> /\ x[Len(x)] = "r"
  <2>1. Len(x) \in Nat \ {0}
    BY <1>2, EmptySeq DEF Text
  <2>2. WithoutCr(x) = SubSeq(x, 1, Len(x) - 1)
    BY <1>2 DEF WithoutCr, Front
  <2>3. \A i \in 1..(Len(x) - 1) : x[i] \in Char
    BY <2>1 DEF Text
  <2>4. SubSeq(x, 1, Len(x) - 1) \in Text /\ Len(SubSeq(x, 1, Len(x) - 1)) = Len(x) - 1
    <3>1. 1 \in Int /\ Len(x) - 1 \in Int
      BY <2>1
    <3>2. /\ SubSeq(x, 1, Len(x) - 1) \in Seq(Char)
          /\ Len(SubSeq(x, 1, Len(x) - 1)) = IF 1 <= Len(x) - 1 THEN (Len(x) - 1) - 1 + 1 ELSE 0
      BY <2>3, <3>1, SubSeqProperties
    <3>3. (IF 1 <= Len(x) - 1 THEN (Len(x) - 1) - 1 + 1 ELSE 0) = Len(x) - 1
      <4>1. \A k \in Nat \ {0} : (IF 1 <= k - 1 THEN (k - 1) - 1 + 1 ELSE 0) = k - 1
        OBVIOUS
      <4> QED BY ONLY <2>1, <4>1
    <3> QED BY ONLY <3>2, <3>3 DEF Text
  <2> QED BY <1>2, <2>1, <2>2, <2>4
<1>3. CASE ~(x # <<>> /\ x[Len(x)] = "r")
  BY <1>1, <1>3 DEF WithoutCr
<1> QED BY <1>2, <1>3

\* A request as RangeIsSane has it.
RequestIsSane(r) ==
  r.offset \in Nat /\ r.lines \in Nat /\ r.bytes \in Nat /\ r.cut \in BOOLEAN

\* How many of the first k pieces are in the range, and the lines they are.
Count(r, k) ==
  LET last == IF EndLine(r) < k THEN EndLine(r) ELSE k
  IN IF r.offset < last THEN last - r.offset ELSE 0

\* The lines of a text in the range, when k of them are complete.
LinesOf(pieces, r, k) == [i \in 1..Count(r, k) |-> WithoutCr(pieces[r.offset + i])]

\* The count, piece by piece.
LEMMA CountStep ==
  ASSUME NEW r, RequestIsSane(r), NEW k \in Nat
  PROVE  /\ Count(r, k) \in Nat /\ (Count(r, k) = 0 \/ r.offset + Count(r, k) <= k)
         /\ r.offset <= k /\ k <= EndLine(r) => Count(r, k) = k - r.offset
         /\ r.offset <= k /\ k < EndLine(r) => Count(r, k + 1) = Count(r, k) + 1
         /\ ~(r.offset <= k /\ k < EndLine(r)) => Count(r, k + 1) = Count(r, k)
         /\ EndLine(r) \in Nat /\ EndLine(r) >= r.offset
BY DEF RequestIsSane, Count, EndLine

\* The lines are lines.
LEMMA LinesType ==
  ASSUME NEW r, RequestIsSane(r), NEW P \in Seq(Text), NEW k \in 0..Len(P)
  PROVE  /\ LinesOf(P, r, k) \in Seq(Text) /\ Len(LinesOf(P, r, k)) = Count(r, k)
         /\ \A i \in 1..Count(r, k) : /\ LinesOf(P, r, k)[i] = WithoutCr(P[r.offset + i])
                                      /\ r.offset + i \in 1..k
<1>1. Count(r, k) \in Nat /\ (Count(r, k) = 0 \/ r.offset + Count(r, k) <= k) /\ r.offset \in Nat
  BY CountStep DEF RequestIsSane
<1>2. ASSUME NEW i \in 1..Count(r, k)
      PROVE  r.offset + i \in 1..k /\ WithoutCr(P[r.offset + i]) \in Text
  <2>1. r.offset + i \in 1..k /\ r.offset + i \in 1..Len(P)
    BY <1>1
  <2>2. P[r.offset + i] \in Text
    BY <2>1, ElementOfSeq
  <2> QED BY <2>1, <2>2, WithoutCrText
<1> DEFINE n == Count(r, k) F == [i \in 1..n |-> WithoutCr(P[r.offset + i])]
<1>3. F \in Seq(Text) /\ Len(F) = n /\ \A i \in 1..n : F[i] = WithoutCr(P[r.offset + i])
  <2>1. F \in [1..n -> Text] /\ n \in Nat
    BY <1>1, <1>2
  <2>2. \A i \in 1..n : F[i] = WithoutCr(P[r.offset + i])
    OBVIOUS
  <2> HIDE DEF F, n
  <2> QED BY <2>1, <2>2
<1> QED BY <1>2, <1>3 DEF LinesOf

\* One more piece is one more line, if it is in the range.
LEMMA LinesStep ==
  ASSUME NEW r, RequestIsSane(r), NEW P \in Seq(Text), NEW k \in 0..(Len(P) - 1)
  PROVE  /\ r.offset <= k /\ k < EndLine(r)
              => LinesOf(P, r, k + 1) = Append(LinesOf(P, r, k), WithoutCr(P[k + 1]))
         /\ ~(r.offset <= k /\ k < EndLine(r))
              => LinesOf(P, r, k + 1) = LinesOf(P, r, k)
<1>1. k \in Nat /\ k \in 0..Len(P) /\ k + 1 \in 0..Len(P) /\ k + 1 \in 1..Len(P) /\ r.offset \in Nat
  BY DEF RequestIsSane
<1>2. CASE r.offset <= k /\ k < EndLine(r)
  <2> DEFINE l == LinesOf(P, r, k) m == LinesOf(P, r, k + 1) x == WithoutCr(P[k + 1])
             n == Count(r, k)
  <2>1. /\ Count(r, k + 1) = n + 1 /\ n \in Nat /\ n = k - r.offset
    <3>1. EndLine(r) \in Nat
      BY <1>1, CountStep
    <3>2. k <= EndLine(r)
      BY <1>1, <1>2, <3>1
    <3> QED BY <1>1, <1>2, <3>2, CountStep
  <2>2. x \in Text
    BY <1>1, ElementOfSeq, WithoutCrText
  <2>3. /\ l \in Seq(Text) /\ Len(l) = n
        /\ \A i \in 1..n : l[i] = WithoutCr(P[r.offset + i])
    BY <1>1, LinesType
  <2>4. /\ m \in Seq(Text) /\ Len(m) = n + 1
        /\ \A i \in 1..(n+1) : m[i] = WithoutCr(P[r.offset + i])
    BY <1>1, <2>1, LinesType
  <2>8. r.offset + (n + 1) = k + 1
    BY <1>1, <2>1
  <2>9. m[n + 1] = x
    <3>1. n + 1 \in 1..(n+1)
      BY <2>1
    <3> QED BY <2>4, <2>8, <3>1
  <2> HIDE DEF l, m, x, n
  <2>5. /\ Append(l, x) \in Seq(Text) /\ Len(Append(l, x)) = n + 1
        /\ \A i \in 1..n : Append(l, x)[i] = l[i]
        /\ Append(l, x)[n + 1] = x
    BY <2>2, <2>3, AppendProperties
  <2>6. ASSUME NEW i \in 1..Len(m) PROVE m[i] = Append(l, x)[i]
    <3>1. CASE i = n + 1
      BY <2>5, <2>9, <3>1
    <3>2. CASE i # n + 1
      <4>1. i \in 1..n /\ i \in 1..(n+1)
        BY <2>1, <2>4, <3>2
      <4> QED BY <2>3, <2>4, <2>5, <4>1
    <3> QED BY <3>1, <3>2
  <2>7. m = Append(l, x)
    BY <2>4, <2>5, <2>6, SeqEqual
  <2> QED BY <1>2, <2>7 DEF l, m, x
<1>3. CASE ~(r.offset <= k /\ k < EndLine(r))
  BY <1>1, <1>3, CountStep DEF LinesOf
<1> QED BY <1>2, <1>3

\* Lines depend on the pieces before only.
LEMMA LinesSame ==
  ASSUME NEW r, RequestIsSane(r), NEW P \in Seq(Text), NEW Q \in Seq(Text),
         NEW k \in Nat, k <= Len(P), k <= Len(Q), \A i \in 1..k : P[i] = Q[i]
  PROVE  LinesOf(P, r, k) = LinesOf(Q, r, k)
<1>1. k \in 0..Len(P) /\ k \in 0..Len(Q)
  OBVIOUS
<1>2. \A i \in 1..Count(r, k) : WithoutCr(P[r.offset + i]) = WithoutCr(Q[r.offset + i])
  BY <1>1, LinesType
<1> QED BY <1>2 DEF LinesOf

\* Fewer pieces make a prefix of the lines.
LEMMA LinesPrefix ==
  ASSUME NEW r, RequestIsSane(r), NEW P \in Seq(Text), NEW e \in Nat,
         r.offset <= e, e < EndLine(r), e < Len(P)
  PROVE  LET all == LinesOf(P, r, Len(P)) n == e - r.offset
         IN /\ n \in Nat /\ n < Len(all)
            /\ LinesOf(P, r, e) = SubSeq(all, 1, n)
            /\ all[n + 1] = WithoutCr(P[e + 1])
<1> DEFINE all == LinesOf(P, r, Len(P)) n == e - r.offset l == LinesOf(P, r, e)
<1>1. r.offset \in Nat /\ EndLine(r) \in Nat /\ n \in Nat /\ e \in 0..Len(P) /\ Len(P) \in 0..Len(P)
  BY DEF RequestIsSane, EndLine
<1>2. Count(r, e) = n /\ Count(r, Len(P)) > n /\ Count(r, Len(P)) \in Nat
  BY <1>1 DEF Count, RequestIsSane
<1>3. /\ all \in Seq(Text) /\ Len(all) = Count(r, Len(P))
      /\ \A i \in 1..Count(r, Len(P)) : all[i] = WithoutCr(P[r.offset + i])
  BY <1>1, LinesType
<1>4. /\ l \in Seq(Text) /\ Len(l) = n
      /\ \A i \in 1..n : l[i] = WithoutCr(P[r.offset + i])
  BY <1>1, <1>2, LinesType
<1>5. r.offset + (n + 1) = e + 1
  BY <1>1
<1> HIDE DEF all, l, n
<1>6. all[n + 1] = WithoutCr(P[e + 1])
  <2>1. n + 1 \in 1..Count(r, Len(P))
    BY <1>1, <1>2
  <2> QED BY <1>3, <1>5, <2>1
<1>7. \A i \in 1..n : all[i] \in Text /\ all[i] = l[i]
  <2> TAKE i \in 1..n
  <2>1. i \in 1..Count(r, Len(P))
    BY <1>1, <1>2
  <2> QED BY <1>3, <1>4, <2>1, ElementOfSeq
<1>8. /\ SubSeq(all, 1, n) \in Seq(Text) /\ Len(SubSeq(all, 1, n)) = n
      /\ \A i \in 1..n : SubSeq(all, 1, n)[i] = all[i]
  <2>1. 1 \in Int /\ n \in Int /\ n - 1 + 1 = n
    BY <1>1
  <2>2. /\ SubSeq(all, 1, n) \in Seq(Text)
        /\ Len(SubSeq(all, 1, n)) = IF 1 <= n THEN n - 1 + 1 ELSE 0
        /\ \A i \in 1 .. n - 1 + 1 : SubSeq(all, 1, n)[i] = all[1 + i - 1]
    BY <1>7, <2>1, SubSeqProperties
  <2>3. \A i \in 1..n : 1 + i - 1 = i
    BY <1>1
  <2> QED BY <1>1, <2>1, <2>2, <2>3
<1>9. l = SubSeq(all, 1, n)
  BY <1>4, <1>7, <1>8, SeqEqual
<1> QED BY <1>1, <1>2, <1>3, <1>6, <1>9 DEF all, l, n

\* A longer prefix weighs more.
LEMMA PrefixesWeigh ==
  ASSUME NEW l \in Seq(Text), NEW m \in 0..Len(l), NEW n \in 0..Len(l), m <= n
  PROVE  /\ SubSeq(l, 1, m) \in Seq(Text) /\ SubSeq(l, 1, n) \in Seq(Text)
         /\ Weight(SubSeq(l, 1, m)) <= Weight(SubSeq(l, 1, n))
         /\ m < Len(l) => Append(SubSeq(l, 1, m), l[m + 1]) = SubSeq(l, 1, m + 1)
<1>1. \A k \in 0..Len(l) : SubSeq(l, 1, k) \in Seq(Text)
  <2> TAKE k \in 0..Len(l)
  <2>1. 1 \in Int /\ k \in Int /\ \A i \in 1..k : l[i] \in Text
    BY ElementOfSeq
  <2> QED BY <2>1, SubSeqProperties
<1>2. ASSUME NEW k \in 0..Len(l), k < Len(l)
      PROVE  /\ Append(SubSeq(l, 1, k), l[k + 1]) = SubSeq(l, 1, k + 1)
             /\ Weight(SubSeq(l, 1, k)) <= Weight(SubSeq(l, 1, k + 1))
             /\ Weight(SubSeq(l, 1, k + 1)) \in Nat /\ Weight(SubSeq(l, 1, k)) \in Nat
  <2>1. k + 1 \in 1..Len(l) /\ k + 1 \in 0..Len(l) /\ (k + 1) - 1 = k
    BY <1>2
  <2>2. l[k + 1] \in Text
    BY <2>1, ElementOfSeq
  <2>3. SubSeq(l, 1, k + 1) = SubSeq(l, 1, k) \o <<l[k + 1]>>
    <3>1. 1 \in 1..Len(l) /\ k + 1 \in 1..Len(l)
      BY <2>1
    <3> QED BY <2>1, <3>1, SubSeqRecursiveSecond
  <2>4. Append(SubSeq(l, 1, k), l[k + 1]) = SubSeq(l, 1, k) \o <<l[k + 1]>>
    BY <1>1, <2>2, AppendIsConcat
  <2>5. Weight(Append(SubSeq(l, 1, k), l[k + 1])) = Weight(SubSeq(l, 1, k)) + Len(l[k + 1]) + 1
        /\ Weight(SubSeq(l, 1, k)) \in Nat
    BY <1>1, <2>2, SizeIsWeight
  <2>6. Len(l[k + 1]) \in Nat
    BY <2>2, WithoutCrText
  <2>7. Append(SubSeq(l, 1, k), l[k + 1]) = SubSeq(l, 1, k + 1)
    BY ONLY <2>3, <2>4
  <2>8. Weight(SubSeq(l, 1, k + 1)) = Weight(SubSeq(l, 1, k)) + Len(l[k + 1]) + 1
    BY ONLY <2>5, <2>7
  <2> DEFINE w == Weight(SubSeq(l, 1, k)) w2 == Weight(SubSeq(l, 1, k + 1))
  <2>9. w \in Nat /\ w2 = w + Len(l[k+1]) + 1
    BY ONLY <2>5, <2>8
  <2> HIDE DEF w, w2
  <2>10. w <= w2 /\ w2 \in Nat
    BY ONLY <2>6, <2>9
  <2> QED BY ONLY <2>7, <2>9, <2>10 DEF w, w2
<1> DEFINE W(k) == Weight(SubSeq(l, 1, k))
           T == {k \in Nat : \A i \in 0..Len(l) : i <= k /\ k <= Len(l) => W(i) <= W(k)}
<1>3. \A k \in 0..Len(l) : W(k) \in Nat
  BY <1>1, SizeIsWeight
<1>4. 0 \in T
  <2>1. \A i \in 0..Len(l) : i <= 0 => i = 0
    OBVIOUS
  <2>2. 0 \in 0..Len(l)
    OBVIOUS
  <2> QED BY <1>3, <2>1, <2>2
<1>5. ASSUME NEW k \in Nat, k \in T PROVE k + 1 \in T
  <2> SUFFICES ASSUME NEW i \in 0..Len(l), i <= k + 1, k + 1 <= Len(l) PROVE W(i) <= W(k + 1)
    OBVIOUS
  <2>1. k \in 0..Len(l) /\ k < Len(l) /\ k + 1 \in 0..Len(l)
    OBVIOUS
  <2>2. W(k) <= W(k + 1) /\ W(k) \in Nat /\ W(k + 1) \in Nat /\ W(i) \in Nat
    BY <1>2, <1>3, <2>1
  <2>3. i = k + 1 \/ i <= k
    OBVIOUS
  <2>4. i <= k => W(i) <= W(k)
    BY <1>5, <2>1
  <2> HIDE DEF W, T
  <2> QED BY <2>2, <2>3, <2>4
<1> HIDE DEF T
<1>6. n \in T
  BY <1>4, <1>5, NatSetInduction
<1> QED BY <1>1, <1>2, <1>6 DEF T

\* The states of a stream.
States ==
  [first : BOOLEAN, at : Nat, end : Nat, lines : Seq(Text), partial : Text,
   truncated : BOOLEAN, read : Nat, failed : BOOLEAN]

\* A line leaves everything but the selection alone.
LEMMA StreamLineType ==
  ASSUME NEW r, NEW s \in States, NEW line \in Text
  PROVE  LET t == StreamLine(s, line, r)
         IN /\ t \in States /\ t.at = s.at + 1
            /\ t.first = s.first /\ t.partial = s.partial
            /\ t.read = s.read /\ t.failed = s.failed
            /\ ~InRange(s, r) => /\ t.lines = s.lines /\ t.end = s.end
                                 /\ t.truncated = s.truncated
            /\ InRange(s, r) /\ Fits(s, line, r) =>
                  /\ t.lines = Append(s.lines, line) /\ t.end = s.end
                  /\ t.truncated = s.truncated
            /\ InRange(s, r) /\ ~Fits(s, line, r) =>
                  /\ t.lines = s.lines /\ t.end = s.at /\ t.truncated
<1>1. Append(s.lines, line) \in Seq(Text)
  BY DEF States
<1> DEFINE l2 == Append(s.lines, line)
<1>2. ASSUME NEW u \in States
      PROVE  LET t == [u EXCEPT !.at = @ + 1]
             IN /\ t \in States /\ t.at = u.at + 1
                /\ t.first = u.first /\ t.partial = u.partial
                /\ t.read = u.read /\ t.failed = u.failed
                /\ t.lines = u.lines /\ t.end = u.end /\ t.truncated = u.truncated
  <2> DEFINE k == u.at + 1
  <2>1. k \in Nat
    BY DEF States
  <2> HIDE DEF k
  <2>2. LET t == [u EXCEPT !.at = k]
        IN /\ t \in States /\ t.at = k
           /\ t.first = u.first /\ t.partial = u.partial
           /\ t.read = u.read /\ t.failed = u.failed
           /\ t.lines = u.lines /\ t.end = u.end /\ t.truncated = u.truncated
    BY <2>1 DEF States
  <2> QED BY <2>2 DEF k
<1>3. CASE ~InRange(s, r)
  <2>1. StreamLine(s, line, r) = [s EXCEPT !.at = @ + 1]
    BY <1>3 DEF StreamLine
  <2> QED BY <1>2, <1>3, <2>1
<1>4. CASE InRange(s, r) /\ Fits(s, line, r)
  <2> DEFINE u == [s EXCEPT !.lines = l2]
  <2>1. /\ u \in States /\ u.at = s.at /\ u.first = s.first /\ u.partial = s.partial
        /\ u.read = s.read /\ u.failed = s.failed
        /\ u.lines = l2 /\ u.end = s.end /\ u.truncated = s.truncated
    <3> HIDE DEF l2
    <3> QED BY <1>1 DEF States, l2
  <2>2. StreamLine(s, line, r) = [u EXCEPT !.at = @ + 1]
    BY <1>4 DEF StreamLine
  <2> HIDE DEF u
  <2> QED BY <1>2, <1>4, <2>1, <2>2
<1>5. CASE InRange(s, r) /\ ~Fits(s, line, r)
  <2> DEFINE u == [s EXCEPT !.truncated = TRUE, !.end = s.at]
  <2>1. /\ u \in States /\ u.at = s.at /\ u.first = s.first /\ u.partial = s.partial
        /\ u.read = s.read /\ u.failed = s.failed
        /\ u.lines = s.lines /\ u.end = s.at /\ u.truncated
    BY DEF States
  <2>2. StreamLine(s, line, r) = [u EXCEPT !.at = @ + 1]
    BY <1>5 DEF StreamLine
  <2> HIDE DEF u
  <2> QED BY <1>2, <1>5, <2>1, <2>2
<1> QED BY <1>3, <1>4, <1>5

\* So does what is left of a chunk.
LEMMA StreamFragmentType ==
  ASSUME NEW r, NEW s \in States, NEW f \in Text
  PROVE  LET t == StreamFragment(s, f, r)
         IN /\ t \in States /\ t.at = s.at /\ t.lines = s.lines
            /\ t.first = s.first /\ t.read = s.read /\ t.failed = s.failed
            /\ f = <<>> \/ ~InRange(s, r) => t = s
            /\ f # <<>> /\ InRange(s, r) /\ Fits(s, f, r) =>
                  t.partial = f /\ t.end = s.end /\ t.truncated = s.truncated
            /\ f # <<>> /\ InRange(s, r) /\ ~Fits(s, f, r) =>
                  t.partial = s.partial /\ t.end = s.at /\ t.truncated
<1>1. CASE f = <<>> \/ ~InRange(s, r)
  BY <1>1 DEF StreamFragment
<1>2. CASE f # <<>> /\ InRange(s, r) /\ Fits(s, f, r)
  BY <1>2 DEF StreamFragment, States
<1>3. CASE f # <<>> /\ InRange(s, r) /\ ~Fits(s, f, r)
  BY <1>3 DEF StreamFragment, States
<1> QED BY <1>1, <1>2, <1>3

\* The complete lines of a chunk, one after the other.
TakeLine(s, piece, r) == StreamLine(s, WithoutCr(piece), r)

\* The state after the lines of a chunk.
Lined(s, pieces, r) ==
  FoldLeft(LAMBDA t, line : StreamLine(t, WithoutCr(line), r), s, pieces)

\* Lined, step by step.
LEMMA LinedSteps ==
  ASSUME NEW r, NEW s0 \in States, NEW pieces \in Seq(Text)
  PROVE  \E F \in [0..Len(pieces) -> States] :
            /\ F[0] = s0
            /\ \A i \in 1..Len(pieces) : F[i] = TakeLine(F[i-1], pieces[i], r)
            /\ Lined(s0, pieces, r) = F[Len(pieces)]
<1> DEFINE n == Len(pieces)
           V == States
           base == s0
           g == [p \in V \X (1..n) |-> TakeLine(p[1], pieces[p[2]], r)]
           Body(f) == [s \in SUBSET (DOMAIN pieces) |->
                         IF s = {} THEN base ELSE TakeLine(f[s \ {Max(s)}], pieces[Max(s)], r)]
           iter == CHOOSE f : f = Body(f)
<1>1. Lined(s0, pieces, r) = iter[DOMAIN pieces]
  BY DEF FoldLeft, MapThenFoldSet, Lined, TakeLine
<1>2. n \in Nat /\ DOMAIN pieces = 1..n /\ base \in V
  OBVIOUS
<1>3. \A v \in V, i \in 1..n : TakeLine(v, pieces[i], r) \in V
  <2>1. \A i \in 1..n : pieces[i] \in Text
    OBVIOUS
  <2>2. \A x \in Text : WithoutCr(x) \in Text
    BY WithoutCrText
  <2> QED BY <2>1, <2>2, StreamLineType DEF TakeLine
<1>4. \A v \in V, i \in 1..n : g[<<v, i>>] = TakeLine(v, pieces[i], r)
  OBVIOUS
<1> HIDE DEF n, V, g, base
<1>5. Closed(n, V, g)
  BY <1>3, <1>4 DEF Closed
<1>6. PICK f : FoldsTo(f, n, V, base, g)
  BY <1>2, <1>5, FoldExists
<1>7. \A s \in SUBSET (1..n) : s # {} => Max(s) \in 1..n
  BY <1>2, MaxIn
<1>8. f = Body(f)
  BY <1>2, <1>4, <1>6, <1>7 DEF FoldsTo
<1>9. iter = Body(iter)
  <2> HIDE DEF Body
  <2> QED BY <1>8
<1> HIDE DEF iter
<1>10. Unfolds(iter, n, V, base, g)
  BY <1>2, <1>4, <1>7, <1>9 DEF Unfolds
<1>11. PICK F : Ladder(F, n, V, base, g) /\ iter[1..n] = F[n]
  BY <1>2, <1>5, <1>10, FoldLadder
<1>12. \A i \in 1..n : F[i] = TakeLine(F[i-1], pieces[i], r)
  <2>1. \A i \in 1..n : F[i-1] \in V
    BY <1>2, <1>11 DEF Ladder
  <2> QED BY <2>1, <1>4, <1>11 DEF Ladder
<1>13. Lined(s0, pieces, r) = F[n]
  BY <1>1, <1>2, <1>11
<1> HIDE DEF Body
<1> QED BY <1>11, <1>12, <1>13 DEF n, V, base, Ladder

\* What a chunk adds to the text, and the state its lines begin with.
More(s, chunk) == IF s.first THEN WithoutBom(chunk) ELSE chunk

\* The state a chunk is taken up in.
Begun(s, text) == [s EXCEPT !.first = FALSE, !.read = s.read + Len(text), !.partial = <<>>]

\* All but the last piece are complete lines.
LEMMA FrontOfPieces ==
  ASSUME NEW p \in PieceLists
  PROVE  /\ Front(p) \in Seq(Text) /\ Len(Front(p)) = Len(p) - 1
         /\ \A i \in 1..(Len(p) - 1) : Front(p)[i] = p[i]
         /\ Last(p) = p[Len(p)] /\ Last(p) \in Text
         /\ Len(p) \in Nat /\ Len(p) >= 1
<1>1. p \in Seq(Text) /\ Len(p) \in Nat /\ Len(p) >= 1
  BY DEF PieceLists
<1>2. \A i \in 1..(Len(p) - 1) : p[i] \in Text
  BY <1>1, ElementOfSeq
<1>3. Len(p) \in 1..Len(p)
  BY <1>1
<1> DEFINE n == Len(p) - 1
<1>4. 1 \in Int /\ n \in Int /\ n \in Nat
  BY <1>1
<1>5. /\ SubSeq(p, 1, n) \in Seq(Text)
      /\ Len(SubSeq(p, 1, n)) = IF 1 <= n THEN n - 1 + 1 ELSE 0
      /\ \A i \in 1 .. n - 1 + 1 : SubSeq(p, 1, n)[i] = p[1 + i - 1]
  BY <1>2, <1>4, SubSeqProperties
<1>6. Front(p) = SubSeq(p, 1, n)
  BY DEF Front
<1> HIDE DEF n
<1>7. /\ (IF 1 <= n THEN n - 1 + 1 ELSE 0) = n
      /\ n - 1 + 1 = n
      /\ \A i \in 1..n : 1 + i - 1 = i
  BY <1>4
<1>8. /\ Front(p) \in Seq(Text) /\ Len(Front(p)) = n
      /\ \A i \in 1..n : Front(p)[i] = p[i]
  BY ONLY <1>5, <1>6, <1>7
<1>9. Last(p) = p[Len(p)] /\ Last(p) \in Text
  BY <1>1, <1>3, ElementOfSeq DEF Last
<1> QED BY <1>1, <1>8, <1>9 DEF n

\* What a chunk does.
LEMMA StreamDataIs ==
  ASSUME NEW r, NEW s \in States, NEW chunk \in Chunk
  PROVE  LET text == More(s, chunk)
             p    == Pieces(Glue(s.partial, text))
             t    == Lined(Begun(s, text), Front(p), r)
         IN /\ text \in Text /\ Begun(s, text) \in States /\ p \in PieceLists
            /\ t \in States /\ Last(p) \in Text
            /\ StreamData(s, chunk, r) =
                 IF s.failed \/ (~Limited(r) /\ s.read + Len(text) > r.bytes)
                 THEN [s EXCEPT !.failed = TRUE]
                 ELSE StreamFragment(t, Last(p), r)
<1> DEFINE text == More(s, chunk)
           b    == Begun(s, text)
           p    == Pieces(Glue(s.partial, text))
           t    == Lined(b, Front(p), r)
<1>1. text \in Text /\ Len(text) \in Nat
  <2>1. chunk \in Text
    BY DEF Chunk
  <2> QED BY <2>1, WithoutBomText, WithoutCrText DEF More
<1>2. b \in States
  <2> HIDE DEF text
  <2>1. <<>> \in Text
    BY DEF Text
  <2>2. s.read + Len(text) \in Nat
    BY <1>1 DEF States
  <2> DEFINE m == s.read + Len(text)
  <2> HIDE DEF m
  <2>3. [s EXCEPT !.first = FALSE, !.read = m, !.partial = <<>>] \in States
    BY <2>1, <2>2 DEF States, m
  <2> QED BY <2>3 DEF Begun, m
<1>3. p \in PieceLists
  <2>1. s.partial \in Text
    BY DEF States
  <2> HIDE DEF text
  <2> QED BY <1>1, <2>1, GlueText, PiecesType
<1>4. /\ Front(p) \in Seq(Text) /\ Last(p) \in Text
  <2> HIDE DEF p
  <2> QED BY <1>3, FrontOfPieces
<1>5. t \in States
  <2> HIDE DEF b, p
  <2>1. PICK F \in [0..Len(Front(p)) -> States] : Lined(b, Front(p), r) = F[Len(Front(p))]
    BY <1>2, <1>4, LinedSteps
  <2>2. Len(Front(p)) \in 0..Len(Front(p))
    BY <1>4
  <2> QED BY <2>1, <2>2
<1>6. StreamData(s, chunk, r) =
        IF s.failed \/ (~Limited(r) /\ s.read + Len(text) > r.bytes)
        THEN [s EXCEPT !.failed = TRUE]
        ELSE StreamFragment(t, Last(p), r)
  BY DEF StreamData, More, Begun, Lined, Glue
<1> QED BY <1>1, <1>2, <1>3, <1>4, <1>5, <1>6

\* A chunk leads from states to states.
LEMMA StreamDataType ==
  ASSUME NEW r, NEW s \in States, NEW chunk \in Chunk
  PROVE  StreamData(s, chunk, r) \in States
<1> DEFINE text == More(s, chunk)
           p    == Pieces(Glue(s.partial, text))
           t    == Lined(Begun(s, text), Front(p), r)
<1>1. t \in States /\ Last(p) \in Text
      /\ StreamData(s, chunk, r) =
                 IF s.failed \/ (~Limited(r) /\ s.read + Len(text) > r.bytes)
                 THEN [s EXCEPT !.failed = TRUE]
                 ELSE StreamFragment(t, Last(p), r)
  BY StreamDataIs
<1> HIDE DEF t, p, text
<1>2. StreamFragment(t, Last(p), r) \in States
  BY <1>1, StreamFragmentType
<1>3. [s EXCEPT !.failed = TRUE] \in States
  BY DEF States
<1> QED BY <1>1, <1>2, <1>3

\* The chunks, one after the other.
Streamed(chunks, r) ==
  FoldLeft(LAMBDA s, chunk : StreamData(s, chunk, r), StreamStart(r), chunks)

\* Streamed, step by step.
LEMMA StreamSteps ==
  ASSUME NEW r, RequestIsSane(r), NEW chunks \in Seq(Chunk)
  PROVE  \E F \in [0..Len(chunks) -> States] :
            /\ F[0] = StreamStart(r)
            /\ \A i \in 1..Len(chunks) : F[i] = StreamData(F[i-1], chunks[i], r)
            /\ Streamed(chunks, r) = F[Len(chunks)]
<1> DEFINE n == Len(chunks)
           V == States
           base == StreamStart(r)
           g == [p \in V \X (1..n) |-> StreamData(p[1], chunks[p[2]], r)]
           Body(f) == [s \in SUBSET (DOMAIN chunks) |->
                         IF s = {} THEN base ELSE StreamData(f[s \ {Max(s)}], chunks[Max(s)], r)]
           iter == CHOOSE f : f = Body(f)
<1>1. Streamed(chunks, r) = iter[DOMAIN chunks]
  BY DEF FoldLeft, MapThenFoldSet, Streamed
<1>2. n \in Nat /\ DOMAIN chunks = 1..n /\ base \in V
  BY DEF StreamStart, States, RequestIsSane, EndLine, Text
<1>3. \A v \in V, i \in 1..n : StreamData(v, chunks[i], r) \in V
  <2>1. \A i \in 1..n : chunks[i] \in Chunk
    OBVIOUS
  <2> QED BY <2>1, StreamDataType
<1>4. \A v \in V, i \in 1..n : g[<<v, i>>] = StreamData(v, chunks[i], r)
  OBVIOUS
<1> HIDE DEF n, V, g, base
<1>5. Closed(n, V, g)
  BY <1>3, <1>4 DEF Closed
<1>6. PICK f : FoldsTo(f, n, V, base, g)
  BY <1>2, <1>5, FoldExists
<1>7. \A s \in SUBSET (1..n) : s # {} => Max(s) \in 1..n
  BY <1>2, MaxIn
<1>8. f = Body(f)
  BY <1>2, <1>4, <1>6, <1>7 DEF FoldsTo
<1>9. iter = Body(iter)
  <2> HIDE DEF Body
  <2> QED BY <1>8
<1> HIDE DEF iter
<1>10. Unfolds(iter, n, V, base, g)
  BY <1>2, <1>4, <1>7, <1>9 DEF Unfolds
<1>11. PICK F : Ladder(F, n, V, base, g) /\ iter[1..n] = F[n]
  BY <1>2, <1>5, <1>10, FoldLadder
<1>12. \A i \in 1..n : F[i] = StreamData(F[i-1], chunks[i], r)
  <2>1. \A i \in 1..n : F[i-1] \in V
    BY <1>2, <1>11 DEF Ladder
  <2> QED BY <2>1, <1>4, <1>11 DEF Ladder
<1>13. Streamed(chunks, r) = F[n]
  BY <1>1, <1>2, <1>11
<1> HIDE DEF Body
<1> QED BY <1>11, <1>12, <1>13 DEF n, V, base, Ladder

\* Where a selection was cut off: the lines before are what the range has there,
\* and they fit; the line there does not, without its carriage return or, when
\* it is the last so far or `split' holds, with it.
CutAt(lines, e, P, j, r, split) ==
  /\ r.offset <= e /\ e < EndLine(r) /\ e <= j /\ e < Len(P)
  /\ lines = LinesOf(P, r, e)
  /\ Size(lines) <= r.bytes
  /\ Weight(lines) + Len(P[e + 1]) > r.bytes
  /\ \/ Weight(lines) + Len(WithoutCr(P[e + 1])) > r.bytes
     \/ e + 1 = Len(P)
     \/ split

\* What a stream has selected after the first j pieces of a text.
HasSelected(s, P, j, r, split) ==
  /\ s.at = j
  /\ ~s.truncated => /\ s.end = EndLine(r) /\ s.lines = LinesOf(P, r, j)
                     /\ r.cut => Size(s.lines) <= r.bytes
  /\ s.truncated => r.cut /\ CutAt(s.lines, s.end, P, j, r, split)

\* It depends on the selection only.
LEMMA SelectionIs ==
  ASSUME NEW s, NEW t, NEW P, NEW j, NEW r, NEW split, HasSelected(s, P, j, r, split),
         t.at = s.at, t.lines = s.lines, t.end = s.end, t.truncated = s.truncated
  PROVE  HasSelected(t, P, j, r, split)
BY DEF HasSelected

\* A piece that is taken as a line.
LEMMA LineSelects ==
  ASSUME NEW r, RequestIsSane(r), NEW P \in PieceLists, NEW j \in 0..(Len(P) - 1),
         NEW split, NEW s \in States, HasSelected(s, P, j, r, split),
         NEW piece \in Text, InRange(s, r) => piece = P[j + 1]
  PROVE  HasSelected(TakeLine(s, piece, r), P, j + 1, r, split)
<1> DEFINE line == WithoutCr(piece) t == StreamLine(s, line, r)
<1>1. line \in Text
  BY WithoutCrText
<1>2. /\ P \in Seq(Text) /\ Len(P) \in Nat /\ j \in Nat /\ j < Len(P) /\ j + 1 \in 1..Len(P)
      /\ r.offset \in Nat /\ EndLine(r) \in Nat
  BY DEF PieceLists, RequestIsSane, EndLine
<1>3. P[j + 1] \in Text
  BY <1>2, ElementOfSeq
<1>4. s.at = j
  BY DEF HasSelected
<1> HIDE DEF t, line
<1>5. /\ t.at = j + 1
      /\ ~InRange(s, r) => /\ t.lines = s.lines /\ t.end = s.end
                           /\ t.truncated = s.truncated
      /\ InRange(s, r) /\ Fits(s, line, r) =>
            /\ t.lines = Append(s.lines, line) /\ t.end = s.end
            /\ t.truncated = s.truncated
      /\ InRange(s, r) /\ ~Fits(s, line, r) =>
            /\ t.lines = s.lines /\ t.end = j /\ t.truncated
  BY <1>1, <1>4, StreamLineType DEF t
<1>6. InRange(s, r) <=> r.offset <= j /\ j < s.end
  BY <1>2, <1>4 DEF InRange
<1>7. CASE s.truncated
  <2>1. r.cut /\ CutAt(s.lines, s.end, P, j, r, split)
    BY <1>7 DEF HasSelected
  <2>2. s.end <= j /\ s.end \in Nat
    BY <2>1 DEF CutAt, States
  <2>3. ~InRange(s, r)
    BY <1>2, <1>6, <2>2
  <2>4. CutAt(s.lines, s.end, P, j + 1, r, split)
    <3>1. s.end <= j + 1
      BY <1>2, <2>2
    <3> QED BY <2>1, <3>1 DEF CutAt
  <2>5. HasSelected(t, P, j + 1, r, split)
    BY <1>5, <1>7, <2>1, <2>3, <2>4 DEF HasSelected
  <2> QED BY <2>5 DEF t, line, TakeLine
<1>8. CASE ~s.truncated /\ ~InRange(s, r)
  <2>1. s.end = EndLine(r) /\ s.lines = LinesOf(P, r, j) /\ (r.cut => Size(s.lines) <= r.bytes)
    BY <1>8 DEF HasSelected
  <2>2. LinesOf(P, r, j + 1) = LinesOf(P, r, j)
    BY <1>2, <1>6, <1>8, <2>1, LinesStep
  <2>3. HasSelected(t, P, j + 1, r, split)
    BY <1>5, <1>8, <2>1, <2>2 DEF HasSelected
  <2> QED BY <2>3 DEF t, line, TakeLine
<1>9. CASE ~s.truncated /\ InRange(s, r)
  <2>1. s.end = EndLine(r) /\ s.lines = LinesOf(P, r, j) /\ (r.cut => Size(s.lines) <= r.bytes)
    BY <1>9 DEF HasSelected
  <2>2. r.offset <= j /\ j < EndLine(r)
    BY <1>6, <1>9, <2>1
  <2>3. line = WithoutCr(P[j + 1])
    BY <1>9 DEF line
  <2>4. LinesOf(P, r, j + 1) = Append(s.lines, line)
    BY <1>2, <2>1, <2>2, <2>3, LinesStep
  <2>5. Fits(s, line, r) <=> (r.cut => Size(Append(s.lines, line)) <= r.bytes)
    BY DEF Fits, Limited
  <2>6. CASE Fits(s, line, r)
    <3>1. HasSelected(t, P, j + 1, r, split)
      BY <1>5, <1>9, <2>1, <2>4, <2>5, <2>6 DEF HasSelected
    <3> QED BY <3>1 DEF t, line, TakeLine
  <2>7. CASE ~Fits(s, line, r)
    <3>1. r.cut /\ ~(Size(Append(s.lines, line)) <= r.bytes)
      BY <2>5, <2>7
    <3>2. s.lines \in Seq(Text)
      BY DEF States
    <3>3. Size(Append(s.lines, line)) = Weight(s.lines) + Len(line) /\ Weight(s.lines) \in Nat
      BY <1>1, <3>2, SizeIsWeight
    <3>4. Len(line) <= Len(P[j + 1]) /\ Len(line) \in Nat /\ Len(P[j + 1]) \in Nat
      BY <1>3, <2>3, WithoutCrText
    <3>5. Weight(s.lines) + Len(line) > r.bytes /\ Weight(s.lines) + Len(P[j + 1]) > r.bytes
      <4>1. r.bytes \in Nat
        BY DEF RequestIsSane
      <4>2. ~(Weight(s.lines) + Len(line) <= r.bytes)
        BY <3>1, <3>3
      <4> QED BY <3>3, <3>4, <4>1, <4>2
    <3>6. CutAt(s.lines, j, P, j + 1, r, split)
      <4>1. j <= j + 1 /\ j < Len(P)
        BY <1>2
      <4> QED BY <2>1, <2>2, <2>3, <3>1, <3>5, <4>1 DEF CutAt
    <3>7. HasSelected(t, P, j + 1, r, split)
      BY <1>5, <1>9, <2>7, <3>1, <3>6 DEF HasSelected
    <3> QED BY <3>7 DEF t, line, TakeLine
  <2> QED BY <2>6, <2>7
<1> QED BY <1>7, <1>8, <1>9

\* What waits is the last piece, as long as it is wanted.
Waits(s, P, r) == s.partial = IF InRange(s, r) THEN P[Len(P)] ELSE <<>>

\* What follows the last newline of a chunk.
LEMMA FragmentSelects ==
  ASSUME NEW r, RequestIsSane(r), NEW P \in PieceLists,
         NEW split, NEW s \in States, HasSelected(s, P, Len(P) - 1, r, split),
         s.partial = <<>>,
         NEW piece \in Text, InRange(s, r) => piece = P[Len(P)]
  PROVE  /\ HasSelected(StreamFragment(s, piece, r), P, Len(P) - 1, r, split)
         /\ Waits(StreamFragment(s, piece, r), P, r)
<1> DEFINE t == StreamFragment(s, piece, r) j == Len(P) - 1
<1>1. /\ P \in Seq(Text) /\ Len(P) \in Nat /\ j \in Nat /\ j + 1 = Len(P) /\ j < Len(P)
      /\ r.offset \in Nat /\ EndLine(r) \in Nat
  BY DEF PieceLists, RequestIsSane, EndLine
<1>2. s.at = j
  BY DEF HasSelected
<1> HIDE DEF t, j
<1>3. /\ t.at = s.at /\ t.lines = s.lines
      /\ piece = <<>> \/ ~InRange(s, r) => t = s
      /\ piece # <<>> /\ InRange(s, r) /\ Fits(s, piece, r) =>
            t.partial = piece /\ t.end = s.end /\ t.truncated = s.truncated
      /\ piece # <<>> /\ InRange(s, r) /\ ~Fits(s, piece, r) =>
            t.partial = s.partial /\ t.end = s.at /\ t.truncated
  BY StreamFragmentType DEF t
<1>4. InRange(s, r) <=> r.offset <= j /\ j < s.end
  BY <1>1, <1>2 DEF InRange
<1>5. HasSelected(s, P, j, r, split)
  BY DEF j
<1>6. CASE piece = <<>> \/ ~InRange(s, r)
  <2>1. t = s
    BY <1>3, <1>6
  <2>2. Waits(s, P, r)
    BY <1>6 DEF Waits
  <2> QED BY <1>5, <2>1, <2>2 DEF t, j
<1>7. CASE piece # <<>> /\ InRange(s, r) /\ Fits(s, piece, r)
  <2>1. t.partial = piece /\ t.end = s.end /\ t.truncated = s.truncated
    BY <1>3, <1>7
  <2>2. HasSelected(t, P, j, r, split)
    BY <1>3, <1>5, <2>1, SelectionIs
  <2>3. InRange(t, r)
    BY <1>3, <1>7, <2>1 DEF InRange
  <2>4. Waits(t, P, r)
    BY <1>7, <2>1, <2>3 DEF Waits
  <2> QED BY <2>2, <2>4 DEF t, j
<1>8. CASE piece # <<>> /\ InRange(s, r) /\ ~Fits(s, piece, r)
  <2>1. t.partial = <<>> /\ t.end = j /\ t.truncated
    BY <1>2, <1>3, <1>8
  <2>2. ~s.truncated
    <3>1. ASSUME s.truncated PROVE FALSE
      <4>1. CutAt(s.lines, s.end, P, j, r, split)
        BY <1>5, <3>1 DEF HasSelected
      <4>2. s.end <= j /\ s.end \in Nat
        BY <4>1 DEF CutAt, States
      <4> QED BY <1>1, <1>4, <1>8, <4>2
    <3> QED BY <3>1
  <2>3. s.end = EndLine(r) /\ s.lines = LinesOf(P, r, j) /\ (r.cut => Size(s.lines) <= r.bytes)
    BY <1>5, <2>2 DEF HasSelected
  <2>4. r.cut /\ ~(Size(Append(s.lines, piece)) <= r.bytes)
    BY <1>8 DEF Fits, Limited
  <2>5. /\ Size(Append(s.lines, piece)) = Weight(s.lines) + Len(piece)
        /\ Weight(s.lines) \in Nat /\ Len(piece) \in Nat
    <3>1. s.lines \in Seq(Text)
      BY DEF States
    <3> QED BY <3>1, SizeIsWeight, WithoutCrText
  <2>6. Weight(s.lines) + Len(P[j + 1]) > r.bytes
    <3>1. r.bytes \in Nat
      BY DEF RequestIsSane
    <3>2. piece = P[j + 1]
      BY <1>1, <1>8
    <3> QED BY <2>4, <2>5, <3>1, <3>2
  <2>7. CutAt(s.lines, j, P, j, r, split)
    <3>1. j <= j /\ r.offset <= j /\ j < EndLine(r)
      BY <1>1, <1>4, <1>8, <2>3
    <3> QED BY <1>1, <2>3, <2>4, <2>6, <3>1 DEF CutAt
  <2>8. HasSelected(t, P, j, r, split)
    BY <1>2, <1>3, <2>1, <2>4, <2>7 DEF HasSelected
  <2>9. ~InRange(t, r)
    BY <1>1, <1>2, <1>3, <2>1 DEF InRange
  <2>10. Waits(t, P, r)
    BY <2>1, <2>9 DEF Waits
  <2> QED BY <2>8, <2>10 DEF t, j
<1> QED BY <1>6, <1>7, <1>8

\* What was selected stays so when the text goes on, unless a newline follows
\* the carriage return the last piece ends in.
LEMMA SelectionGrows ==
  ASSUME NEW r, RequestIsSane(r), NEW P \in PieceLists, NEW text \in Text,
         NEW P2 \in PieceLists, Joined(P, Pieces(text), P2),
         NEW split \in BOOLEAN, NEW split2 \in BOOLEAN, split => split2,
         (/\ text # <<>> /\ Head(text) = "n"
          /\ P[Len(P)] # <<>> /\ P[Len(P)][Len(P[Len(P)])] = "r") => split2,
         NEW s \in States, HasSelected(s, P, Len(P) - 1, r, split)
  PROVE  HasSelected(s, P2, Len(P) - 1, r, split2)
<1> DEFINE m == Len(P) q == Pieces(text) j == m - 1
<1>1. /\ P \in Seq(Text) /\ P2 \in Seq(Text) /\ m \in Nat /\ m >= 1 /\ Len(P2) \in Nat
      /\ j \in Nat /\ j + 1 = m
  BY DEF PieceLists
<1>2. Len(q) \in Nat /\ Len(q) >= 1 /\ q[1] \in Text /\ 1 \in 1..Len(q)
  <2>1. Len(q) \in Nat /\ Len(q) >= 1 /\ \A i \in 1..Len(q) : q[i] \in Text
    BY PiecesType
  <2> QED BY <2>1
<1> HIDE DEF q
<1>3. /\ Len(P2) = m + Len(q) - 1
      /\ \A i \in 1..(m - 1) : P2[i] = P[i]
      /\ P2[m] = Glue(P[m], q[1])
  BY DEF Joined, q
<1>4. m <= Len(P2) /\ m \in 1..m /\ m \in 1..Len(P2) /\ Len(P2) >= m
  BY <1>1, <1>2, <1>3
<1>5. P[m] \in Text
  BY <1>1, <1>4, ElementOfSeq
<1> HIDE DEF m, j
<1>6. ASSUME NEW k \in Nat, k <= j
      PROVE  LinesOf(P2, r, k) = LinesOf(P, r, k)
  <2>1. k <= Len(P) /\ k <= Len(P2)
    BY <1>1, <1>4, <1>6 DEF m
  <2>2. \A i \in 1..k : P2[i] = P[i]
    <3>1. \A i \in 1..k : i \in 1..(m-1)
      BY <1>1, <1>6
    <3> QED BY <1>3, <3>1
  <2> QED BY <1>1, <2>1, <2>2, LinesSame
<1>7. HasSelected(s, P, j, r, split)
  BY DEF j, m
<1>8. CASE ~s.truncated
  <2>1. j <= j
    BY <1>1
  <2>2. LinesOf(P2, r, j) = LinesOf(P, r, j)
    BY <1>1, <1>6, <2>1
  <2>3. HasSelected(s, P2, j, r, split2)
    BY <1>7, <1>8, <2>2 DEF HasSelected
  <2> QED BY <2>3 DEF j, m
<1>9. CASE s.truncated
  <2> DEFINE e == s.end l == s.lines w == Weight(s.lines)
  <2>1. r.cut /\ CutAt(l, e, P, j, r, split) /\ s.at = j
    BY <1>7, <1>9 DEF HasSelected
  <2>2. l \in Seq(Text) /\ e \in Nat
    BY DEF States
  <2>3. w \in Nat /\ r.bytes \in Nat
    BY <2>2, SizeIsWeight DEF RequestIsSane
  <2> HIDE DEF e, l
  <2>4. /\ r.offset <= e /\ e < EndLine(r) /\ e <= j /\ e < m
        /\ l = LinesOf(P, r, e) /\ Size(l) <= r.bytes
    BY <2>1 DEF CutAt, m
  <2>5. w + Len(P[e + 1]) > r.bytes
    BY <2>1 DEF CutAt, l
  <2>6. \/ w + Len(WithoutCr(P[e + 1])) > r.bytes
        \/ e + 1 = m
        \/ split
    BY <2>1 DEF CutAt, l, m
  <2> HIDE DEF w
  <2>7. LinesOf(P2, r, e) = LinesOf(P, r, e) /\ e < Len(P2)
    BY <1>1, <1>4, <1>6, <2>2, <2>4
  <2>8. /\ w + Len(P2[e + 1]) > r.bytes
        /\ \/ w + Len(WithoutCr(P2[e + 1])) > r.bytes
           \/ e + 1 = Len(P2)
           \/ split2
    <3>1. CASE e + 1 # m
      <4>1. e + 1 \in 1..(m - 1)
        BY <1>1, <2>2, <2>4, <3>1
      <4>2. P2[e + 1] = P[e + 1]
        BY <1>3, <4>1
      <4> QED BY <2>5, <2>6, <3>1, <4>2
    <3>2. CASE e + 1 = m
      <4> DEFINE x == P[m] y == q[1] z == Glue(x, y)
      <4>1. /\ x \in Text /\ y \in Text /\ z \in Text
            /\ Len(z) = Len(x) + Len(y) /\ Len(x) \in Nat /\ Len(y) \in Nat
            /\ y = <<>> => z = x
        BY <1>2, <1>5, GlueText
      <4>2. /\ Len(WithoutCr(x)) \in Nat /\ Len(WithoutCr(z)) \in Nat
            /\ Len(WithoutCr(x)) <= Len(x) /\ Len(z) <= Len(WithoutCr(z)) + 1
            /\ Len(WithoutCr(x)) # Len(x) => x # <<>> /\ x[Len(x)] = "r"
        BY <4>1, WithoutCrText
      <4>3. P2[e + 1] = z /\ P[e + 1] = x
        BY <1>3, <3>2
      <4>11. w + Len(x) > r.bytes
        BY <2>5, <4>3
      <4>12. (/\ text # <<>> /\ Head(text) = "n"
              /\ x # <<>> /\ x[Len(x)] = "r") => split2
        BY DEF m
      <4> HIDE DEF x, y, z
      <4>4. w + Len(z) > r.bytes
        BY <2>3, <4>1, <4>11
      <4>5. y = <<>> => Len(WithoutCr(z)) = Len(WithoutCr(x))
        BY <4>1
      <4>6. y # <<>> => Len(y) >= 1
        <5>1. y # <<>> => Len(y) # 0
          BY <4>1, EmptySeq DEF Text
        <5> QED BY <4>1, <5>1
      <4>7. y # <<>> => w + Len(WithoutCr(z)) > r.bytes
        BY <2>3, <4>1, <4>2, <4>6, <4>11
      <4>8. CASE w + Len(WithoutCr(x)) > r.bytes
        BY <4>3, <4>4, <4>5, <4>7, <4>8
      <4>9. CASE ~(w + Len(WithoutCr(x)) > r.bytes)
        <5>1. x # <<>> /\ x[Len(x)] = "r"
          <6>1. Len(WithoutCr(x)) # Len(x)
            BY <4>9, <4>11
          <6> QED BY <4>2, <6>1
        <5>2. CASE text = <<>>
          <6>1. Len(q) = 1
            BY <5>2, PiecesEmpty DEF q
          <6>2. Len(P2) = m
            BY <1>1, <1>3, <6>1
          <6> QED BY <3>2, <4>3, <4>4, <6>2
        <5>3. CASE text # <<>> /\ Head(text) = "n"
          BY <4>3, <4>4, <4>12, <5>1, <5>3
        <5>4. CASE text # <<>> /\ Head(text) # "n"
          <6>1. y # <<>>
            BY <5>4, FirstPiece DEF y, q
          <6> QED BY <4>3, <4>4, <4>7, <6>1
        <5> QED BY <5>2, <5>3, <5>4
      <4> QED BY <4>8, <4>9
    <3> QED BY <3>1, <3>2
  <2>9. CutAt(l, e, P2, j, r, split2)
    BY <2>4, <2>7, <2>8 DEF CutAt, w, l
  <2>10. HasSelected(s, P2, j, r, split2)
    BY <1>9, <2>1, <2>9 DEF HasSelected, l, e
  <2> QED BY <2>10 DEF j, m
<1> QED BY <1>8, <1>9

\* A line leaves the rest of the state alone.
LEMMA LineKeeps ==
  ASSUME NEW r, NEW s \in States, NEW line \in Text
  PROVE  /\ StreamLine(s, line, r).partial = s.partial
         /\ StreamLine(s, line, r).first = s.first
         /\ StreamLine(s, line, r).read = s.read
         /\ StreamLine(s, line, r).failed = s.failed
<1> DEFINE t == StreamLine(s, line, r)
<1> HIDE DEF t
<1>1. t.first = s.first /\ t.partial = s.partial /\ t.read = s.read /\ t.failed = s.failed
  <2>1. /\ t \in States /\ t.at = s.at + 1
        /\ t.first = s.first /\ t.partial = s.partial
        /\ t.read = s.read /\ t.failed = s.failed
        /\ ~InRange(s, r) => /\ t.lines = s.lines /\ t.end = s.end
                             /\ t.truncated = s.truncated
        /\ InRange(s, r) /\ Fits(s, line, r) =>
              /\ t.lines = Append(s.lines, line) /\ t.end = s.end
              /\ t.truncated = s.truncated
        /\ InRange(s, r) /\ ~Fits(s, line, r) =>
              /\ t.lines = s.lines /\ t.end = s.at /\ t.truncated
    BY StreamLineType DEF t
  <2> QED BY <2>1
<1> QED BY <1>1 DEF t

\* The pieces of a chunk are taken one after the other.
LEMMA LinesSelect ==
  ASSUME NEW r, RequestIsSane(r), NEW P \in PieceLists, NEW Q \in PieceLists,
         NEW j \in Nat, Len(P) = j + Len(Q), NEW split,
         NEW b \in States, b.partial = <<>>, HasSelected(b, P, j, r, split),
         InRange(b, r) => Q[1] = P[j + 1],
         \A i \in 2..Len(Q) : Q[i] = P[j + i]
  PROVE  LET t == Lined(b, Front(Q), r)
         IN /\ t \in States /\ HasSelected(t, P, Len(P) - 1, r, split)
            /\ t.partial = <<>> /\ t.first = b.first /\ t.read = b.read
            /\ t.failed = b.failed
            /\ InRange(t, r) => Last(Q) = P[Len(P)]
<1> DEFINE n == Len(Q) - 1 fq == Front(Q)
<1>8. Len(Q) \in Nat /\ Len(Q) >= 1
  BY FrontOfPieces
<1>1. /\ fq \in Seq(Text) /\ Len(fq) = n
      /\ \A i \in 1..n : fq[i] = Q[i]
      /\ Last(Q) = Q[Len(Q)]
      /\ Len(Q) \in Nat /\ Len(Q) >= 1 /\ n \in Nat /\ n + 1 = Len(Q)
  <2>1. n \in Nat /\ n + 1 = Len(Q)
    BY <1>8
  <2> QED BY ONLY <1>8, <2>1, FrontOfPieces, Q \in PieceLists
<1> HIDE DEF n, fq
<1>9. PICK F \in [0..Len(fq) -> States] :
            /\ F[0] = b
            /\ \A i \in 1..Len(fq) : F[i] = TakeLine(F[i-1], fq[i], r)
            /\ Lined(b, fq, r) = F[Len(fq)]
  <2>1. fq \in Seq(Text)
    BY <1>1
  <2> QED BY <2>1, LinedSteps
<1>2. /\ F \in [0..n -> States]
      /\ F[0] = b
      /\ \A i \in 1..n : F[i] = TakeLine(F[i-1], fq[i], r)
      /\ Lined(b, fq, r) = F[n]
  BY <1>1, <1>9
<1> DEFINE S(i) == /\ HasSelected(F[i], P, j + i, r, split)
                   /\ F[i].partial = <<>> /\ F[i].first = b.first
                   /\ F[i].read = b.read /\ F[i].failed = b.failed
           T == {i \in Nat : i <= n => S(i)}
<1>3. 0 \in T
  BY <1>2
<1>4. ASSUME NEW i \in Nat, i \in T PROVE i + 1 \in T
  <2> SUFFICES ASSUME i + 1 <= n PROVE S(i + 1)
    OBVIOUS
  <2>1. i + 1 \in 1..n /\ (i + 1) - 1 = i /\ i \in 0..n /\ i <= n /\ i + 1 \in 1..Len(Q)
    BY <1>1
  <2>2. S(i)
    BY <1>4, <2>1
  <2>3. F[i] \in States
    BY <1>2, <2>1
  <2>4. F[i + 1] = TakeLine(F[i], Q[i + 1], r)
    BY <1>1, <1>2, <2>1
  <2>5. Q[i + 1] \in Text
    BY <2>1, ElementOfSeq DEF PieceLists
  <2>6. InRange(F[i], r) => Q[i + 1] = P[(j + i) + 1]
    <3>1. CASE i = 0
      <4>1. F[i] = b /\ i + 1 = 1 /\ (j + i) + 1 = j + 1
        BY <1>2, <3>1
      <4> QED BY <4>1
    <3>2. CASE i # 0
      <4>1. i + 1 \in 2..Len(Q) /\ (j + i) + 1 = j + (i + 1)
        BY <2>1, <3>2
      <4> QED BY <4>1
    <3> QED BY <3>1, <3>2
  <2>7. j + i \in 0..(Len(P) - 1) /\ j + i + 1 = j + (i + 1)
    BY <1>1, <2>1
  <2>8. HasSelected(F[i + 1], P, j + (i + 1), r, split)
    <3>1. HasSelected(F[i], P, j + i, r, split)
      BY <2>2
    <3> HIDE DEF T, S
    <3>2. HasSelected(TakeLine(F[i], Q[i + 1], r), P, (j + i) + 1, r, split)
      BY <2>3, <2>5, <2>6, <2>7, <3>1, LineSelects
    <3> QED BY <2>4, <2>7, <3>2
  <2>9. /\ F[i + 1].partial = F[i].partial /\ F[i + 1].first = F[i].first
        /\ F[i + 1].read = F[i].read /\ F[i + 1].failed = F[i].failed
    <3>1. WithoutCr(Q[i + 1]) \in Text
      BY <2>5, WithoutCrText
    <3> DEFINE l == WithoutCr(Q[i + 1]) s == F[i] t == StreamLine(s, l, r)
    <3>2. l \in Text /\ s \in States
      BY <2>3, <3>1
    <3>3. F[i + 1] = t
      BY <2>4 DEF TakeLine
    <3> HIDE DEF T, S, l, s
    <3>4. t.partial = s.partial /\ t.first = s.first /\ t.read = s.read /\ t.failed = s.failed
      BY ONLY <3>2, LineKeeps
    <3> QED BY ONLY <3>3, <3>4 DEF s
  <2> QED BY <2>2, <2>8, <2>9
<1> HIDE DEF T
<1>5. S(n) /\ F[n] \in States
  <2>1. n \in T
    BY <1>1, <1>3, <1>4, NatSetInduction
  <2>2. n \in 0..n /\ n <= n
    BY <1>1
  <2> QED BY <1>1, <1>2, <2>1, <2>2 DEF T
<1>6. InRange(F[n], r) => Last(Q) = P[Len(P)]
  <2>1. CASE n = 0
    <3>1. F[n] = b
      BY <1>2, <2>1
    <3>2. Len(Q) = 1
      BY <1>1, <2>1
    <3>3. Len(P) = j + 1
      BY <3>2
    <3> QED BY <1>1, <3>1, <3>2, <3>3
  <2>2. CASE n # 0
    <3>1. Len(Q) \in 2..Len(Q) /\ Len(P) = j + Len(Q)
      BY <1>1, <2>2
    <3>2. Q[Len(Q)] = P[j + Len(Q)]
      BY <3>1
    <3> QED BY <1>1, <3>1, <3>2
  <2> QED BY <2>1, <2>2
<1>7. j + n = Len(P) - 1
  BY <1>1
<1> QED BY <1>2, <1>5, <1>6, <1>7 DEF fq

\* A chunk ends in a carriage return, and the next begins with its newline.
SplitsInner(cs) ==
  \E i \in 1..(Len(cs) - 1) : cs[i][Len(cs[i])] = "r" /\ Head(cs[i + 1]) = "n"

\* What a stream knows after some chunks.
Reads(s, cs, r) ==
  LET text == TextOf(cs) P == Pieces(text)
  IN /\ s.failed => ~r.cut /\ Len(text) > r.bytes
     /\ ~s.failed => /\ s.first = (cs = <<>>) /\ s.read = Len(text)
                     /\ r.cut \/ Len(text) <= r.bytes
                     /\ HasSelected(s, P, Len(P) - 1, r, SplitsInner(cs))
                     /\ Waits(s, P, r)

\* One more chunk can split one more line.
LEMMA SplitGrows ==
  ASSUME NEW cs \in Seq(Chunk), NEW c \in Chunk
  PROVE  LET more == IF cs = <<>> THEN WithoutBom(c) ELSE c
             P    == Pieces(TextOf(cs))
             cs2  == Append(cs, c)
         IN /\ SplitsInner(cs) => SplitsInner(cs2)
            /\ (/\ more # <<>> /\ Head(more) = "n"
                /\ P[Len(P)] # <<>> /\ P[Len(P)][Len(P[Len(P)])] = "r") => SplitsInner(cs2)
<1> DEFINE cs2 == Append(cs, c) n == Len(cs)
<1>1. /\ n \in Nat /\ Len(cs2) = n + 1 /\ cs2[n + 1] = c
      /\ \A i \in 1..n : cs2[i] = cs[i]
  BY AppendProperties
<1> HIDE DEF cs2, n
<1>2. ASSUME SplitsInner(cs) PROVE SplitsInner(cs2)
  <2>1. PICK i \in 1..(n - 1) : cs[i][Len(cs[i])] = "r" /\ Head(cs[i + 1]) = "n"
    BY <1>2 DEF SplitsInner, n
  <2>2. i \in 1..(Len(cs2) - 1) /\ i \in 1..n /\ i + 1 \in 1..n
    BY <1>1
  <2>3. cs2[i] = cs[i] /\ cs2[i + 1] = cs[i + 1]
    BY <1>1, <2>2
  <2> QED BY <2>1, <2>2, <2>3 DEF SplitsInner
<1> DEFINE more == IF cs = <<>> THEN WithoutBom(c) ELSE c
           T    == TextOf(cs)
           P    == Pieces(T)
           last == P[Len(P)]
<1>3. ASSUME more # <<>>, Head(more) = "n", last # <<>>, last[Len(last)] = "r"
      PROVE  SplitsInner(cs2)
  <2>1. T \in Text
    BY TextGrows
  <2>2. T # <<>> /\ T[Len(T)] = "r"
    <3>1. PiecesArePlain(T)
      BY <2>1, PiecesPlain
    <3> QED BY <1>3, <3>1 DEF PiecesArePlain
  <2>3. cs # <<>> /\ cs[n][Len(cs[n])] = "r"
    BY <2>2, TextEnds DEF n
  <2>4. n # 0
    BY <2>3, EmptySeq DEF n
  <2>5. n \in 1..(Len(cs2) - 1) /\ n \in 1..n
    BY <1>1, <2>4
  <2>6. cs2[n] = cs[n] /\ Head(cs2[n + 1]) = "n"
    BY <1>1, <1>3, <2>3, <2>5
  <2> QED BY <2>3, <2>5, <2>6 DEF SplitsInner
<1> QED BY <1>2, <1>3 DEF cs2

\* The pieces a chunk is cut into are those the text goes on with.
LEMMA ChunkPieces ==
  ASSUME NEW T \in Text, NEW more \in Text, NEW partial,
         partial = <<>> \/ partial = Pieces(T)[Len(Pieces(T))]
  PROVE  LET P == Pieces(T) P2 == Pieces(Glue(T, more)) Q == Pieces(Glue(partial, more))
             j == Len(P) - 1
         IN /\ P \in PieceLists /\ P2 \in PieceLists /\ Q \in PieceLists
            /\ Joined(P, Pieces(more), P2)
            /\ j \in Nat /\ Len(P2) = j + Len(Q)
            /\ partial = P[Len(P)] => Q[1] = P2[j + 1]
            /\ \A i \in 2..Len(Q) : Q[i] = P2[j + i]
<1> DEFINE P == Pieces(T) P2 == Pieces(Glue(T, more)) Q == Pieces(Glue(partial, more))
           q == Pieces(more) j == Len(P) - 1
<1>1. /\ P \in PieceLists /\ Len(P) \in Nat /\ Len(P) >= 1 /\ q \in PieceLists
      /\ Len(q) \in Nat /\ Len(q) >= 1
      /\ \A i \in 1..Len(P) : P[i] \in Text
  BY PiecesType
<1>2. P[Len(P)] \in Text /\ Plain(P[Len(P)])
  <2>1. Len(P) \in 1..Len(P)
    BY <1>1
  <2>2. PiecesArePlain(T)
    BY PiecesPlain
  <2> QED BY <1>1, <2>1, <2>2 DEF PiecesArePlain
<1>3. partial \in Text /\ Plain(partial)
  <2>1. <<>> \in Text /\ Plain(<<>>)
    BY DEF Text, Plain
  <2> QED BY <1>2, <2>1
<1>4. Glue(T, more) \in Text /\ Glue(partial, more) \in Text
  BY <1>3, GlueText
<1>5. P2 \in PieceLists /\ Q \in PieceLists
  BY <1>4, PiecesType
<1>6. Joined(P, q, P2)
  BY PiecesJoined DEF Glue
<1>7. Joined(<<partial>>, q, Q)
  <2>1. Pieces(partial) = <<partial>>
    BY <1>3, PlainIsOnePiece
  <2>2. Joined(Pieces(partial), q, Q)
    BY <1>3, PiecesJoined DEF Glue
  <2> QED BY <2>1, <2>2
<1> HIDE DEF P, P2, Q, q
<1>8. /\ Len(P2) = Len(P) + Len(q) - 1
      /\ P2[Len(P)] = Glue(P[Len(P)], q[1])
      /\ \A i \in 2..Len(q) : P2[Len(P) - 1 + i] = q[i]
  BY <1>6 DEF Joined
<1>9. /\ Len(Q) = Len(q) /\ Q[1] = Glue(partial, q[1])
      /\ \A i \in 2..Len(q) : Q[i] = q[i]
  <2> DEFINE one == <<partial>>
  <2>1. Len(one) = 1 /\ one[1] = partial
    OBVIOUS
  <2> HIDE DEF one
  <2>2. /\ Len(Q) = Len(one) + Len(q) - 1
        /\ Q[Len(one)] = Glue(one[Len(one)], q[1])
        /\ \A i \in 2..Len(q) : Q[Len(one) - 1 + i] = q[i]
    BY <1>7 DEF Joined, one
  <2>3. \A i \in 2..Len(q) : 1 - 1 + i = i
    BY <1>1
  <2>4. 1 + Len(q) - 1 = Len(q)
    BY <1>1
  <2> QED BY <2>1, <2>2, <2>3, <2>4
<1>10. j \in Nat /\ Len(P2) = j + Len(Q) /\ j + 1 = Len(P)
  BY <1>1, <1>8, <1>9
<1>11. partial = P[Len(P)] => Q[1] = P2[j + 1]
  BY <1>8, <1>9, <1>10
<1>12. \A i \in 2..Len(Q) : Q[i] = P2[j + i]
  BY <1>8, <1>9
<1> HIDE DEF j
<1>13. P[Len(P)] = Pieces(T)[Len(Pieces(T))]
  BY DEF P
<1> QED BY <1>1, <1>5, <1>6, <1>10, <1>11, <1>12 DEF P, P2, Q, q, j

\* What the lines of a chunk begin with.
LEMMA BegunIs ==
  ASSUME NEW s \in States, NEW text \in Text
  PROVE  LET b == Begun(s, text)
         IN /\ b \in States /\ b.first = FALSE /\ b.read = s.read + Len(text)
            /\ b.partial = <<>> /\ b.failed = s.failed /\ b.at = s.at
            /\ b.lines = s.lines /\ b.end = s.end /\ b.truncated = s.truncated
<1>1. <<>> \in Text /\ Len(text) \in Nat
  BY DEF Text
<1> DEFINE m == s.read + Len(text)
<1>2. m \in Nat
  BY <1>1 DEF States
<1> HIDE DEF m
<1>3. LET b == [s EXCEPT !.first = FALSE, !.read = m, !.partial = <<>>]
      IN /\ b \in States /\ b.first = FALSE /\ b.read = m
         /\ b.partial = <<>> /\ b.failed = s.failed /\ b.at = s.at
         /\ b.lines = s.lines /\ b.end = s.end /\ b.truncated = s.truncated
  BY <1>1, <1>2 DEF States
<1> QED BY <1>3 DEF Begun, m

\* A chunk that is within the limit.
LEMMA ChunkIsTaken ==
  ASSUME NEW r, RequestIsSane(r), NEW cs \in Seq(Chunk), NEW c \in Chunk,
         NEW s \in States, Reads(s, cs, r), ~s.failed,
         r.cut \/ Len(TextOf(Append(cs, c))) <= r.bytes
  PROVE  Reads(StreamData(s, c, r), Append(cs, c), r)
<1> DEFINE more == IF cs = <<>> THEN WithoutBom(c) ELSE c
           T == TextOf(cs)
           cs2 == Append(cs, c)
           T2 == TextOf(cs2)
           P == Pieces(T)
           P2 == Pieces(T2)
           Q == Pieces(Glue(s.partial, more))
           b == Begun(s, more)
           t == Lined(b, Front(Q), r)
           u == StreamFragment(t, Last(Q), r)
           j == Len(P) - 1
           split == SplitsInner(cs)
           split2 == SplitsInner(cs2)
<1>1. /\ T \in Text /\ more \in Text /\ T2 = Glue(T, more) /\ T2 \in Text
      /\ Len(T2) = Len(T) + Len(more) /\ Len(T) \in Nat /\ Len(more) \in Nat
  <2>1. T \in Text /\ more \in Text /\ T2 = Glue(T, more)
    BY TextGrows
  <2> HIDE DEF T, more, T2
  <2> QED BY <2>1, GlueText
<1>2. cs2 # <<>>
  BY AppendProperties
<1>3. /\ s.first = (cs = <<>>) /\ s.read = Len(T)
      /\ HasSelected(s, P, j, r, split) /\ Waits(s, P, r)
  BY DEF Reads
<1>4. split \in BOOLEAN /\ split2 \in BOOLEAN
  BY DEF SplitsInner
<1>5. /\ split => split2
      /\ (/\ more # <<>> /\ Head(more) = "n"
          /\ P[Len(P)] # <<>> /\ P[Len(P)][Len(P[Len(P)])] = "r") => split2
  BY SplitGrows
<1>6. More(s, c) = more
  BY <1>3 DEF More
<1> HIDE DEF more, T, cs2, T2, split, split2
<1>7. s.partial = <<>> \/ s.partial = P[Len(P)]
  BY <1>3 DEF Waits
<1>8. /\ P \in PieceLists /\ P2 \in PieceLists /\ Q \in PieceLists
      /\ Joined(P, Pieces(more), P2)
      /\ j \in Nat /\ Len(P2) = j + Len(Q)
      /\ s.partial = P[Len(P)] => Q[1] = P2[j + 1]
      /\ \A i \in 2..Len(Q) : Q[i] = P2[j + i]
  BY <1>1, <1>7, ChunkPieces
<1> HIDE DEF P, P2, Q
<1>9. HasSelected(s, P2, j, r, split2)
  BY <1>1, <1>3, <1>4, <1>5, <1>8, SelectionGrows
<1>10. /\ b \in States /\ b.first = FALSE /\ b.read = s.read + Len(more)
       /\ b.partial = <<>> /\ b.failed = s.failed /\ b.at = s.at
       /\ b.lines = s.lines /\ b.end = s.end /\ b.truncated = s.truncated
  BY <1>1, BegunIs
<1> HIDE DEF b
<1>11. HasSelected(b, P2, j, r, split2)
  BY <1>9, <1>10, SelectionIs
<1>12. InRange(b, r) => Q[1] = P2[j + 1]
  <2>1. InRange(b, r) => InRange(s, r)
    BY <1>10 DEF InRange
  <2> QED BY <1>3, <1>8, <2>1 DEF Waits
<1> HIDE DEF j
<1>13. /\ t \in States /\ HasSelected(t, P2, Len(P2) - 1, r, split2)
       /\ t.partial = <<>> /\ t.first = b.first /\ t.read = b.read
       /\ t.failed = b.failed
       /\ InRange(t, r) => Last(Q) = P2[Len(P2)]
  BY <1>8, <1>10, <1>11, <1>12, LinesSelect
<1>14. Last(Q) \in Text
  BY <1>8, FrontOfPieces
<1> HIDE DEF t
<1>15. HasSelected(u, P2, Len(P2) - 1, r, split2) /\ Waits(u, P2, r)
  BY <1>8, <1>13, <1>14, FragmentSelects
<1>16. u.first = t.first /\ u.read = t.read /\ u.failed = t.failed
  <2>1. /\ u \in States /\ u.at = t.at /\ u.lines = t.lines
        /\ u.first = t.first /\ u.read = t.read /\ u.failed = t.failed
        /\ Last(Q) = <<>> \/ ~InRange(t, r) => u = t
        /\ Last(Q) # <<>> /\ InRange(t, r) /\ Fits(t, Last(Q), r) =>
              u.partial = Last(Q) /\ u.end = t.end /\ u.truncated = t.truncated
        /\ Last(Q) # <<>> /\ InRange(t, r) /\ ~Fits(t, Last(Q), r) =>
              u.partial = t.partial /\ u.end = t.at /\ u.truncated
    BY <1>13, <1>14, StreamFragmentType
  <2> QED BY <2>1
<1> HIDE DEF u
<1>17. StreamData(s, c, r) = u
  <2>1. StreamData(s, c, r) =
                 IF s.failed \/ (~Limited(r) /\ s.read + Len(More(s, c)) > r.bytes)
                 THEN [s EXCEPT !.failed = TRUE]
                 ELSE StreamFragment(Lined(Begun(s, More(s, c)),
                                           Front(Pieces(Glue(s.partial, More(s, c)))), r),
                                     Last(Pieces(Glue(s.partial, More(s, c)))), r)
    BY StreamDataIs
  <2>2. s.read + Len(more) = Len(T2)
    BY <1>1, <1>3
  <2>3. ~(~Limited(r) /\ s.read + Len(more) > r.bytes)
    <3>1. r.cut \/ Len(T2) <= r.bytes
      BY DEF T2, cs2
    <3>2. Len(T2) \in Nat /\ r.bytes \in Nat
      BY <1>1 DEF RequestIsSane
    <3> QED BY <2>2, <3>1, <3>2 DEF Limited
  <2> QED BY <1>6, <2>1, <2>3 DEF u, t, b, Q
<1>18. u.first = FALSE /\ u.read = Len(T2) /\ ~u.failed
  BY <1>1, <1>3, <1>10, <1>13, <1>16
<1>19. r.cut \/ Len(T2) <= r.bytes
  BY DEF T2, cs2
<1>20. Reads(u, cs2, r)
  BY <1>2, <1>15, <1>18, <1>19 DEF Reads, P2, T2, split2
<1> QED BY <1>17, <1>20 DEF cs2

\* Any chunk.
LEMMA ChunkSelects ==
  ASSUME NEW r, RequestIsSane(r), NEW cs \in Seq(Chunk), NEW c \in Chunk,
         NEW s \in States, Reads(s, cs, r)
  PROVE  Reads(StreamData(s, c, r), Append(cs, c), r)
<1> DEFINE more == IF cs = <<>> THEN WithoutBom(c) ELSE c
           T == TextOf(cs)
           T2 == TextOf(Append(cs, c))
<1>1. /\ Len(T2) = Len(T) + Len(more) /\ Len(T) \in Nat /\ Len(more) \in Nat
  <2>1. T \in Text /\ more \in Text /\ T2 = Glue(T, more)
    BY TextGrows
  <2> HIDE DEF T, more, T2
  <2> QED BY <2>1, GlueText
<1>2. r.bytes \in Nat /\ r.cut \in BOOLEAN
  BY DEF RequestIsSane
<1>3. StreamData(s, c, r) =
                 IF s.failed \/ (~Limited(r) /\ s.read + Len(More(s, c)) > r.bytes)
                 THEN [s EXCEPT !.failed = TRUE]
                 ELSE StreamFragment(Lined(Begun(s, More(s, c)),
                                           Front(Pieces(Glue(s.partial, More(s, c)))), r),
                                     Last(Pieces(Glue(s.partial, More(s, c)))), r)
  BY StreamDataIs
<1> DEFINE f == [s EXCEPT !.failed = TRUE]
<1>4. f.failed
  BY DEF States
<1>5. ASSUME StreamData(s, c, r) = f, ~r.cut, Len(T2) > r.bytes
      PROVE  Reads(StreamData(s, c, r), Append(cs, c), r)
  <2> HIDE DEF f
  <2> QED BY <1>4, <1>5 DEF Reads
<1>6. CASE s.failed
  <2>1. ~r.cut /\ Len(T) > r.bytes
    BY <1>6 DEF Reads
  <2>2. Len(T2) > r.bytes
    <3> HIDE DEF T, T2, more
    <3> QED BY <1>1, <1>2, <2>1
  <2> QED BY <1>3, <1>5, <1>6, <2>1, <2>2
<1>7. CASE ~s.failed /\ ~r.cut /\ Len(T2) > r.bytes
  <2>1. s.first = (cs = <<>>) /\ s.read = Len(T)
    BY <1>7 DEF Reads
  <2>2. More(s, c) = more
    BY <2>1 DEF More
  <2>3. s.read + Len(more) > r.bytes
    <3> HIDE DEF T, T2, more
    <3> QED BY <1>1, <1>7, <2>1
  <2> QED BY <1>3, <1>5, <1>7, <2>2, <2>3 DEF Limited
<1>8. CASE ~s.failed /\ (r.cut \/ ~(Len(T2) > r.bytes))
  <2>1. r.cut \/ Len(T2) <= r.bytes
    <3> HIDE DEF T, T2, more
    <3> QED BY <1>1, <1>2, <1>8
  <2> QED BY <1>8, <2>1, ChunkIsTaken
<1> QED BY <1>6, <1>7, <1>8

\* A sequence up to some place.
LEMMA PrefixOf ==
  ASSUME NEW S, NEW l \in Seq(S)
  PROVE  /\ SubSeq(l, 1, 0) = <<>> /\ SubSeq(l, 1, Len(l)) = l
         /\ \A k \in 0..Len(l) : /\ SubSeq(l, 1, k) \in Seq(S) /\ Len(SubSeq(l, 1, k)) = k
                                 /\ \A i \in 1..k : SubSeq(l, 1, k)[i] = l[i]
<1>1. ASSUME NEW k \in 0..Len(l)
      PROVE  /\ SubSeq(l, 1, k) \in Seq(S) /\ Len(SubSeq(l, 1, k)) = k
             /\ \A i \in 1..k : SubSeq(l, 1, k)[i] = l[i]
  <2>1. 1 \in Int /\ k \in Int /\ \A i \in 1..k : l[i] \in S
    BY ElementOfSeq
  <2>2. /\ SubSeq(l, 1, k) \in Seq(S)
        /\ Len(SubSeq(l, 1, k)) = IF 1 <= k THEN k - 1 + 1 ELSE 0
        /\ \A i \in 1 .. k - 1 + 1 : SubSeq(l, 1, k)[i] = l[1 + i - 1]
    BY <2>1, SubSeqProperties
  <2>3. /\ (IF 1 <= k THEN k - 1 + 1 ELSE 0) = k /\ k - 1 + 1 = k
        /\ \A i \in 1..k : 1 + i - 1 = i
    OBVIOUS
  <2> QED BY ONLY <2>2, <2>3
<1>2. 0 \in 0..Len(l) /\ Len(l) \in 0..Len(l)
  OBVIOUS
<1>3. SubSeq(l, 1, 0) = <<>>
  BY <1>1, <1>2, EmptySeq
<1>4. SubSeq(l, 1, Len(l)) = l
  <2> DEFINE p == SubSeq(l, 1, Len(l))
  <2>1. p \in Seq(S) /\ Len(p) = Len(l) /\ \A i \in 1..Len(l) : p[i] = l[i]
    BY <1>1, <1>2
  <2> HIDE DEF p
  <2>2. p = l
    BY <2>1, SeqEqual
  <2> QED BY <2>2 DEF p
<1> QED BY <1>1, <1>3, <1>4

\* Before the first chunk.
LEMMA StartReads ==
  ASSUME NEW r, RequestIsSane(r)
  PROVE  StreamStart(r) \in States /\ Reads(StreamStart(r), <<>>, r)
<1> DEFINE s == StreamStart(r)
<1>1. r.offset \in Nat /\ EndLine(r) \in Nat /\ r.bytes \in Nat /\ <<>> \in Text /\ <<>> \in Seq(Text)
  BY DEF RequestIsSane, EndLine, Text
<1>2. /\ s \in States /\ s.first = TRUE /\ s.at = 0 /\ s.end = EndLine(r) /\ s.lines = <<>>
      /\ s.partial = <<>> /\ s.truncated = FALSE /\ s.read = 0 /\ s.failed = FALSE
  BY <1>1 DEF StreamStart, States
<1> HIDE DEF s
<1>3. TextOf(<<>>) = <<>> /\ Pieces(TextOf(<<>>)) = <<<<>>>>
  BY FlattenEmpty, PiecesEmpty DEF TextOf, WithoutBom
<1> DEFINE P == <<<<>>>>
<1>4. Len(P) = 1 /\ Len(P) - 1 = 0 /\ P[Len(P)] = <<>> /\ Len(<<>>) = 0
  OBVIOUS
<1>5. LinesOf(P, r, 0) = <<>>
  <2>1. Count(r, 0) = 0
    BY <1>1 DEF Count
  <2>2. LinesOf(P, r, 0) \in Seq(Text) /\ Len(LinesOf(P, r, 0)) = Count(r, 0)
    <3>1. P \in Seq(Text) /\ 0 \in 0..Len(P)
      BY <1>1, <1>4
    <3> HIDE DEF P
    <3> QED BY <3>1, LinesType
  <2> QED BY <2>1, <2>2, EmptySeq
<1>6. Size(<<>>) = 0
  BY <1>1, SizeIsWeight
<1> HIDE DEF P
<1>7. HasSelected(s, P, 0, r, SplitsInner(<<>>))
  BY <1>1, <1>2, <1>5, <1>6 DEF HasSelected
<1>8. Waits(s, P, r)
  BY <1>2, <1>4 DEF Waits
<1>9. 0 <= r.bytes
  BY <1>1
<1>10. Reads(s, <<>>, r)
  BY <1>2, <1>3, <1>4, <1>7, <1>8, <1>9 DEF Reads, P
<1> QED BY <1>2, <1>10 DEF s

\* After all chunks.
LEMMA StreamReads ==
  ASSUME NEW r, RequestIsSane(r), NEW cs \in Seq(Chunk)
  PROVE  Streamed(cs, r) \in States /\ Reads(Streamed(cs, r), cs, r)
<1> DEFINE n == Len(cs)
<1>1. PICK F \in [0..n -> States] :
            /\ F[0] = StreamStart(r)
            /\ \A i \in 1..n : F[i] = StreamData(F[i-1], cs[i], r)
            /\ Streamed(cs, r) = F[n]
  BY StreamSteps
<1> DEFINE p(k) == SubSeq(cs, 1, k)
           T == {k \in Nat : k <= n => Reads(F[k], p(k), r)}
<1>2. n \in Nat /\ cs \in Seq(Text)
  BY ChunksAreTexts
<1>3. p(0) = <<>> /\ p(n) = cs /\ \A k \in 0..n : p(k) \in Seq(Chunk)
  BY PrefixOf
<1>4. \A k \in 0..n : k < n => Append(p(k), cs[k + 1]) = p(k + 1)
  <2> TAKE k \in 0..n
  <2>1. k <= k
    BY <1>2
  <2> QED BY <1>2, <2>1, PrefixesWeigh
<1> HIDE DEF p, n
<1>5. 0 \in T
  BY <1>1, <1>3, StartReads
<1>6. ASSUME NEW k \in Nat, k \in T PROVE k + 1 \in T
  <2> SUFFICES ASSUME k + 1 <= n PROVE Reads(F[k + 1], p(k + 1), r)
    OBVIOUS
  <2>1. k \in 0..n /\ k < n /\ k <= n /\ k + 1 \in 1..n /\ (k + 1) - 1 = k
    BY <1>2
  <2>2. F[k] \in States /\ cs[k + 1] \in Chunk
    BY <1>1, <2>1, ElementOfSeq DEF n
  <2>3. F[k + 1] = StreamData(F[k], cs[k + 1], r)
    BY <1>1, <2>1
  <2>4. Reads(F[k], p(k), r) /\ p(k) \in Seq(Chunk)
    BY <1>3, <1>6, <2>1
  <2>5. Reads(StreamData(F[k], cs[k + 1], r), Append(p(k), cs[k + 1]), r)
    BY <2>2, <2>4, ChunkSelects
  <2> QED BY <1>4, <2>1, <2>3, <2>5
<1> HIDE DEF T
<1>7. n \in T
  BY <1>2, <1>5, <1>6, NatSetInduction
<1>8. Reads(F[n], cs, r)
  BY <1>2, <1>3, <1>7 DEF T
<1>9. F[n] \in States
  BY <1>1, <1>2
<1> QED BY <1>1, <1>8, <1>9

\* Numbers that have a bound have a largest.
LEMMA LargestExists ==
  ASSUME NEW n \in Nat, NEW S \in SUBSET (0..n), S # {}
  PROVE  \E k \in S : \A m \in S : m <= k
<1> DEFINE T == {k \in Nat : \A U \in SUBSET (0..k) : U # {} => \E x \in U : \A m \in U : m <= x}
<1>1. 0 \in T
  <2> SUFFICES ASSUME NEW U \in SUBSET (0..0), U # {} PROVE \E x \in U : \A m \in U : m <= x
    OBVIOUS
  <2>1. \A m \in U : m = 0
    OBVIOUS
  <2>2. 0 \in U
    BY <2>1
  <2> QED BY <2>1, <2>2
<1>2. ASSUME NEW k \in Nat, k \in T PROVE k + 1 \in T
  <2> SUFFICES ASSUME NEW U \in SUBSET (0..(k + 1)), U # {}
               PROVE  \E x \in U : \A m \in U : m <= x
    OBVIOUS
  <2>1. CASE k + 1 \in U
    BY <2>1
  <2>2. CASE k + 1 \notin U
    <3>1. U \in SUBSET (0..k)
      BY <2>2
    <3> QED BY <1>2, <3>1
  <2> QED BY <2>1, <2>2
<1> HIDE DEF T
<1>3. n \in T
  BY <1>1, <1>2, NatSetInduction
<1> QED BY <1>3 DEF T

\* What is left of lines at a limit.
Fitting(l, r) == {n \in 0..Len(l) : Limited(r) => Size(SubSeq(l, 1, n)) <= r.bytes}

\* As many lines as fit.
Kept(l, r) == SubSeq(l, 1, CHOOSE n \in Fitting(l, r) : \A m \in Fitting(l, r) : m <= n)

\* It is the longest prefix that fits.
LEMMA KeptIs ==
  ASSUME NEW r, NEW l, NEW n \in Fitting(l, r), Len(l) \in Nat
  PROVE  \E k \in Fitting(l, r) : /\ n <= k /\ Kept(l, r) = SubSeq(l, 1, k)
                                  /\ (\A m \in Fitting(l, r) : m <= n) => k = n
<1> DEFINE F == Fitting(l, r) k == CHOOSE x \in F : \A m \in F : m <= x
<1>1. F \in SUBSET (0..Len(l)) /\ F # {}
  BY DEF Fitting
<1> HIDE DEF F
<1>2. \E x \in F : \A m \in F : m <= x
  BY <1>1, LargestExists
<1>3. k \in F /\ \A m \in F : m <= k
  BY <1>2
<1>4. Kept(l, r) = SubSeq(l, 1, k)
  BY DEF Kept, F
<1> HIDE DEF k
<1>5. n \in F
  BY DEF F
<1>6. n <= k
  BY <1>3, <1>5
<1>7. (\A m \in F : m <= n) => k = n
  <2>1. k \in Nat /\ n \in Nat
    BY <1>1, <1>3, <1>5
  <2> QED BY <1>3, <1>6, <2>1
<1> QED BY <1>3, <1>4, <1>6, <1>7 DEF F

\* What the whole text is read as.
LEMMA FastReadIs ==
  ASSUME NEW r, NEW text
  PROVE  LET P == Pieces(WithoutBom(text)) all == LinesOf(P, r, Len(P))
         IN FastRead(text, r) =
              IF ~Limited(r) /\ Len(text) > r.bytes
              THEN [kind |-> "too_large", lines |-> <<>>, total |-> 0, truncated |-> FALSE]
              ELSE [kind |-> "read", lines |-> Kept(all, r), total |-> Len(P),
                    truncated |-> Kept(all, r) # all]
BY DEF FastRead, LinesOf, Count, Kept, Fitting

\* What a stream has selected at its end.
LEMMA EndSelects ==
  ASSUME NEW r, RequestIsSane(r), NEW cs \in Seq(Chunk), NEW s \in States,
         Reads(s, cs, r), ~s.failed
  PROVE  LET P == Pieces(TextOf(cs)) t == TakeLine(s, s.partial, r)
         IN P \in PieceLists /\ t \in States /\ HasSelected(t, P, Len(P), r, SplitsInner(cs))
<1> DEFINE P == Pieces(TextOf(cs)) split == SplitsInner(cs) j == Len(P) - 1
<1>1. cs = <<>> \/ cs # <<>>
  OBVIOUS
<1>2. TextOf(cs) \in Text
  BY ChunksAreTexts, WithoutBomText DEF TextOf
<1>3. P \in PieceLists /\ Len(P) \in Nat /\ Len(P) >= 1
  BY <1>2, PiecesType
<1>4. HasSelected(s, P, j, r, split) /\ Waits(s, P, r)
  BY DEF Reads
<1> HIDE DEF P, split
<1>5. j \in 0..(Len(P) - 1) /\ j + 1 = Len(P)
  BY <1>3
<1>6. s.partial \in Text
  BY DEF States
<1>7. InRange(s, r) => s.partial = P[j + 1]
  BY <1>4, <1>5 DEF Waits
<1> HIDE DEF j
<1>8. HasSelected(TakeLine(s, s.partial, r), P, j + 1, r, split)
  BY <1>3, <1>4, <1>5, <1>6, <1>7, LineSelects
<1>9. TakeLine(s, s.partial, r) \in States
  <2> DEFINE line == WithoutCr(s.partial) t == StreamLine(s, line, r)
  <2>1. line \in Text
    BY <1>6, WithoutCrText
  <2> HIDE DEF line, t
  <2>2. /\ t \in States /\ t.at = s.at + 1
        /\ t.first = s.first /\ t.partial = s.partial
        /\ t.read = s.read /\ t.failed = s.failed
        /\ ~InRange(s, r) => /\ t.lines = s.lines /\ t.end = s.end
                             /\ t.truncated = s.truncated
        /\ InRange(s, r) /\ Fits(s, line, r) =>
              /\ t.lines = Append(s.lines, line) /\ t.end = s.end
              /\ t.truncated = s.truncated
        /\ InRange(s, r) /\ ~Fits(s, line, r) =>
              /\ t.lines = s.lines /\ t.end = s.at /\ t.truncated
    BY <2>1, StreamLineType DEF t
  <2> QED BY <2>2 DEF t, line, TakeLine
<1> QED BY <1>3, <1>5, <1>8, <1>9 DEF P, split

\* A selection that was not cut off is all that fits.
LEMMA WholeIsKept ==
  ASSUME NEW r, NEW all \in Seq(Text), r.cut => Size(all) <= r.bytes
  PROVE  Kept(all, r) = all
<1>1. Len(all) \in Nat /\ SubSeq(all, 1, Len(all)) = all
  BY PrefixOf
<1>2. Len(all) \in Fitting(all, r)
  <2>1. Len(all) \in 0..Len(all)
    BY <1>1
  <2>2. Limited(r) => Size(SubSeq(all, 1, Len(all))) <= r.bytes
    BY <1>1 DEF Limited
  <2> QED BY <2>1, <2>2 DEF Fitting
<1>3. \A m \in Fitting(all, r) : m <= Len(all)
  BY DEF Fitting
<1>4. \E k \in Fitting(all, r) : Kept(all, r) = SubSeq(all, 1, k) /\ k = Len(all)
  BY <1>1, <1>2, <1>3, KeptIs
<1> QED BY <1>1, <1>4

\* The first n lines fit: they are kept, and no more if the next does not.
LEMMA PrefixIsKept ==
  ASSUME NEW r, r.cut, r.bytes \in Nat, NEW all \in Seq(Text), NEW n \in 0..(Len(all) - 1),
         Size(SubSeq(all, 1, n)) <= r.bytes
  PROVE  /\ IsPrefix(SubSeq(all, 1, n), Kept(all, r))
         /\ Weight(SubSeq(all, 1, n)) + Len(all[n + 1]) > r.bytes
              => Kept(all, r) = SubSeq(all, 1, n) /\ Kept(all, r) # all
<1> DEFINE p(k) == SubSeq(all, 1, k) F == Fitting(all, r)
<1>1. /\ Len(all) \in Nat /\ n \in 0..Len(all) /\ n + 1 \in 0..Len(all) /\ n + 1 \in 1..Len(all)
      /\ n < Len(all) /\ n <= n /\ n \in Nat
  OBVIOUS
<1>2. \A k \in 0..Len(all) : /\ p(k) \in Seq(Text) /\ Len(p(k)) = k
                             /\ \A i \in 1..k : p(k)[i] = all[i]
  BY PrefixOf
<1>3. n \in F
  BY <1>1 DEF Fitting
<1>4. PICK k \in F : /\ n <= k /\ Kept(all, r) = p(k)
                     /\ (\A m \in F : m <= n) => k = n
  BY <1>1, <1>3, KeptIs
<1>5. k \in 0..Len(all)
  BY DEF Fitting
<1>6. IsPrefix(p(n), p(k))
  <2>1. SubSeq(p(k), 1, n) = p(n)
    <3> DEFINE a == p(k)
    <3>1. a \in Seq(Text) /\ Len(a) = k /\ n \in 0..Len(a)
      BY <1>1, <1>2, <1>4, <1>5
    <3>2. \A i \in 1..n : a[i] = all[i]
      BY <1>1, <1>2, <1>4, <1>5
    <3> DEFINE b == SubSeq(a, 1, n) d == p(n)
    <3>3. d \in Seq(Text) /\ Len(d) = n /\ \A i \in 1..n : d[i] = all[i]
      BY <1>1, <1>2
    <3> HIDE DEF a, d
    <3>4. b \in Seq(Text) /\ Len(b) = n /\ \A i \in 1..n : b[i] = a[i]
      BY <3>1, PrefixOf
    <3> HIDE DEF b
    <3>5. b = d
      BY <3>2, <3>3, <3>4, SeqEqual
    <3> QED BY <3>5 DEF a, b, d
  <2>2. Len(p(n)) = n /\ Len(p(k)) = k
    BY <1>1, <1>2, <1>5
  <2> HIDE DEF p
  <2> QED BY <1>4, <2>1, <2>2 DEF IsPrefix
<1>7. ASSUME Weight(p(n)) + Len(all[n + 1]) > r.bytes
      PROVE  Kept(all, r) = p(n) /\ Kept(all, r) # all
  <2>1. all[n + 1] \in Text
    BY <1>1, ElementOfSeq
  <2>2. Append(p(n), all[n + 1]) = p(n + 1)
    BY <1>1, PrefixesWeigh
  <2>3. /\ Weight(p(n + 1)) = Weight(p(n)) + Len(all[n + 1]) + 1
        /\ Weight(p(n)) \in Nat
    <3> DEFINE a == p(n) x == all[n + 1]
    <3>1. a \in Seq(Text) /\ x \in Text
      BY <1>1, <1>2, <2>1
    <3> HIDE DEF a, x
    <3>2. Weight(a) \in Nat /\ Weight(Append(a, x)) = Weight(a) + Len(x) + 1
      BY <3>1, SizeIsWeight
    <3> QED BY <2>2, <3>2 DEF a, x
  <2>4. Len(all[n + 1]) \in Nat
    BY <2>1, WithoutCrText
  <2>5. ASSUME NEW m \in F, ~(m <= n) PROVE FALSE
    <3>1. m \in 0..Len(all) /\ Size(p(m)) <= r.bytes
      BY DEF Fitting, Limited
    <3>2. n + 1 <= m /\ m # 0
      BY <1>1, <2>5, <3>1
    <3>3. Weight(p(n + 1)) <= Weight(p(m))
      BY <1>1, <3>1, <3>2, PrefixesWeigh
    <3>4. p(m) \in Seq(Text) /\ p(m) # <<>>
      <4>1. p(m) \in Seq(Text) /\ Len(p(m)) = m
        BY <1>2, <3>1
      <4> HIDE DEF p
      <4> QED BY <3>2, <4>1, EmptySeq
    <3>5. Size(p(m)) = Weight(p(m)) - 1 /\ Weight(p(m)) \in Nat
      BY <3>4, SizeIsWeight
    <3> DEFINE w == Weight(p(m)) v == Weight(p(n)) c == Len(all[n + 1]) z == Size(p(m))
               v1 == Weight(p(n + 1))
    <3>6. v + c > r.bytes /\ v1 = v + c + 1 /\ v1 <= w /\ z = w - 1 /\ z <= r.bytes
          /\ v \in Nat /\ c \in Nat /\ w \in Nat
      BY <1>7, <2>3, <2>4, <3>1, <3>3, <3>5
    <3> HIDE DEF w, v, c, z, v1
    <3> QED BY <3>6
  <2>6. k = n
    BY <1>4, <2>5
  <2>7. Len(p(n)) = n
    BY <1>1, <1>2
  <2> HIDE DEF p
  <2> QED BY <1>1, <1>4, <2>6, <2>7
<1> QED BY <1>4, <1>6, <1>7

\* What is read of a file that is too large.
TooLarge == [kind |-> "too_large", lines |-> <<>>, total |-> 0, truncated |-> FALSE]

\* The pieces of a text that was not too large, against what was selected.
LEMMA EndsAlike ==
  ASSUME NEW r, RequestIsSane(r), NEW cs \in Seq(Chunk), NEW t \in States,
         LET P == Pieces(TextOf(cs)) IN HasSelected(t, P, Len(P), r, SplitsInner(cs))
  PROVE  LET P == Pieces(TextOf(cs)) all == LinesOf(P, r, Len(P)) kept == Kept(all, r)
         IN /\ t.at = Len(P)
            /\ \/ t.lines = kept /\ t.truncated = (kept # all)
               \/ r.cut /\ SplitsLineEnd(cs) /\ t.truncated /\ IsPrefix(t.lines, kept)
<1> DEFINE T == TextOf(cs) P == Pieces(T) all == LinesOf(P, r, Len(P)) kept == Kept(all, r)
           split == SplitsInner(cs)
<1>1. T \in Text
  BY ChunksAreTexts, WithoutBomText DEF TextOf
<1>2. P \in PieceLists /\ Len(P) \in Nat /\ Len(P) >= 1 /\ P \in Seq(Text)
  BY <1>1, PiecesType
<1>3. HasSelected(t, P, Len(P), r, split)
  OBVIOUS
<1>4. PiecesArePlain(T)
  BY <1>1, PiecesPlain
<1>5. LET last == P[Len(P)] IN last # <<>> => T # <<>> /\ T[Len(T)] = last[Len(last)]
  BY <1>4 DEF PiecesArePlain
<1>6. all \in Seq(Text)
  <2>1. Len(P) \in 0..Len(P)
    BY <1>2
  <2> HIDE DEF P
  <2> QED BY <1>2, <2>1, LinesType
<1>7. t.at = Len(P)
  BY <1>3 DEF HasSelected
<1> HIDE DEF P
<1>8. CASE ~t.truncated
  <2>1. t.lines = all /\ (r.cut => Size(all) <= r.bytes)
    BY <1>3, <1>8 DEF HasSelected
  <2> HIDE DEF all
  <2>2. kept = all
    BY <1>6, <2>1, WholeIsKept
  <2>3. t.truncated = FALSE
    BY <1>8 DEF States
  <2> QED BY <1>7, <2>1, <2>2, <2>3 DEF P, all
<1>9. CASE t.truncated
  <2> DEFINE e == t.end n == e - r.offset x == P[e + 1] w == Weight(t.lines)
  <2>1. r.cut /\ CutAt(t.lines, e, P, Len(P), r, split)
    BY <1>3, <1>9 DEF HasSelected
  <2>2. e \in Nat /\ r.bytes \in Nat
    BY DEF States, RequestIsSane
  <2> HIDE DEF e
  <2>3. /\ r.offset <= e /\ e < EndLine(r) /\ e < Len(P)
        /\ t.lines = LinesOf(P, r, e) /\ Size(t.lines) <= r.bytes
        /\ w + Len(x) > r.bytes
        /\ w + Len(WithoutCr(x)) > r.bytes \/ e + 1 = Len(P) \/ split
    BY <2>1 DEF CutAt
  <2>4. /\ n \in Nat /\ n < Len(all)
        /\ t.lines = SubSeq(all, 1, n)
        /\ all[n + 1] = WithoutCr(x)
    BY <1>2, <2>2, <2>3, LinesPrefix
  <2>5. n \in 0..(Len(all) - 1)
    BY <1>6, <2>4
  <2>6. x \in Text
    <3>1. e + 1 \in 1..Len(P)
      BY <1>2, <2>2, <2>3
    <3> QED BY <1>2, <3>1, ElementOfSeq
  <2>7. t.truncated = TRUE
    BY <1>9 DEF States
  <2> HIDE DEF all, n, x
  <2>8. /\ IsPrefix(t.lines, kept)
        /\ w + Len(WithoutCr(x)) > r.bytes => kept = t.lines /\ kept # all
    <3>1. Size(SubSeq(all, 1, n)) <= r.bytes
      BY <2>3, <2>4
    <3>2. /\ IsPrefix(SubSeq(all, 1, n), kept)
          /\ Weight(SubSeq(all, 1, n)) + Len(all[n + 1]) > r.bytes
               => kept = SubSeq(all, 1, n) /\ kept # all
      BY <1>6, <2>1, <2>2, <2>5, <3>1, PrefixIsKept
    <3> QED BY <2>4, <3>2
  <2> HIDE DEF kept, w
  <2>9. CASE w + Len(WithoutCr(x)) > r.bytes
    <3>1. t.lines = kept /\ t.truncated = (kept # all)
      BY <2>7, <2>8, <2>9
    <3> QED BY <1>7, <3>1 DEF kept, all, P
  <2>10. CASE ~(w + Len(WithoutCr(x)) > r.bytes)
    <3>1. x # <<>> /\ x[Len(x)] = "r"
      <4>1. Len(WithoutCr(x)) # Len(x)
        BY <2>3, <2>10
      <4> QED BY <2>6, <4>1, WithoutCrText
    <3>2. SplitsLineEnd(cs)
      <4>1. CASE split
        <5>1. PICK i \in 1..(Len(cs) - 1) : cs[i][Len(cs[i])] = "r" /\ Head(cs[i + 1]) = "n"
          BY <4>1 DEF SplitsInner
        <5>2. i \in DOMAIN cs
          OBVIOUS
        <5> QED BY <5>1, <5>2 DEF SplitsLineEnd
      <4>2. CASE e + 1 = Len(P)
        <5>1. x = P[Len(P)]
          BY <4>2 DEF x
        <5>2. T # <<>> /\ T[Len(T)] = "r"
          BY <1>5, <3>1, <5>1
        <5>3. cs # <<>> /\ cs[Len(cs)][Len(cs[Len(cs)])] = "r"
          BY <5>2, TextEnds
        <5>4. Len(cs) \in DOMAIN cs
          BY <5>3, EmptySeq
        <5> QED BY <5>3, <5>4 DEF SplitsLineEnd
      <4> QED BY <2>3, <2>10, <4>1, <4>2
    <3> QED BY <1>7, <1>9, <2>1, <2>8, <3>2 DEF kept, all, P
  <2> QED BY <2>9, <2>10
<1> QED BY <1>8, <1>9

\* What is streamed against what is read at once.
LEMMA ChunksDoNotShow ==
  ASSUME NEW r, RequestIsSane(r), NEW cs \in Seq(Chunk)
  PROVE  ChunksAreInvisible(cs, r)
<1> DEFINE s == Streamed(cs, r) text == FlattenSeq(cs) T == TextOf(cs)
           P == Pieces(T) all == LinesOf(P, r, Len(P)) kept == Kept(all, r)
           t == TakeLine(s, s.partial, r)
           streamed == StreamRead(cs, r) whole == FastRead(text, r)
<1>1. s \in States /\ Reads(s, cs, r)
  BY StreamReads
<1>2. streamed = IF s.failed THEN TooLarge
                 ELSE [kind |-> "read", lines |-> t.lines, total |-> t.at,
                       truncated |-> t.truncated]
  BY DEF StreamRead, StreamResult, Streamed, TakeLine, TooLarge
<1>3. whole = IF ~r.cut /\ Len(text) > r.bytes THEN TooLarge
              ELSE [kind |-> "read", lines |-> kept, total |-> Len(P),
                    truncated |-> kept # all]
  BY FastReadIs DEF TooLarge, Limited, TextOf
<1>4. text \in Text /\ T \in Text /\ T = WithoutBom(text)
      /\ Len(text) \in Nat /\ Len(T) \in Nat /\ Len(T) <= Len(text) /\ r.bytes \in Nat
  <2>1. text \in Text
    BY ChunksAreTexts
  <2>2. T = WithoutBom(text)
    BY DEF TextOf
  <2> HIDE DEF T, text
  <2> QED BY <2>1, <2>2, WithoutBomText, WithoutCrText DEF RequestIsSane
<1>5. ChunksAreInvisible(cs, r) =
        \/ streamed = whole
        \/ whole.kind = "too_large" /\ Head(Head(cs)) = "B"
        \/ /\ Limited(r) /\ SplitsLineEnd(cs)
           /\ streamed.truncated
           /\ IsPrefix(streamed.lines, whole.lines)
           /\ streamed.total = whole.total
  BY DEF ChunksAreInvisible
<1> HIDE DEF streamed, whole
<1>6. CASE s.failed
  <2>1. ~r.cut /\ Len(T) > r.bytes
    BY <1>1, <1>6 DEF Reads
  <2>2. Len(text) > r.bytes
    <3> HIDE DEF T, text
    <3> QED BY <1>4, <2>1
  <2>3. streamed = whole
    BY <1>2, <1>3, <1>6, <2>1, <2>2
  <2> QED BY <1>5, <2>3
<1>7. CASE ~s.failed /\ ~r.cut /\ Len(text) > r.bytes
  <2>1. Len(T) <= r.bytes
    BY <1>1, <1>7 DEF Reads
  <2>2. Len(T) # Len(text)
    <3> HIDE DEF T, text
    <3> QED BY <1>4, <1>7, <2>1
  <2>3. text # <<>> /\ Head(text) = "B"
    <3> HIDE DEF T, text
    <3> QED BY <1>4, <2>2, WithoutBomText
  <2>4. Head(Head(cs)) = "B"
    <3>1. cs # <<>>
      BY <2>3, FlattenEmpty
    <3> QED BY <2>3, <3>1, FlattenEnds
  <2>5. whole.kind = "too_large"
    BY <1>3, <1>7 DEF TooLarge
  <2> QED BY <1>5, <2>4, <2>5
<1>8. CASE ~s.failed /\ ~(~r.cut /\ Len(text) > r.bytes)
  <2>1. t \in States /\ HasSelected(t, P, Len(P), r, SplitsInner(cs))
    BY <1>1, <1>8, EndSelects
  <2> HIDE DEF t, s
  <2>2. /\ t.at = Len(P)
        /\ \/ t.lines = kept /\ t.truncated = (kept # all)
           \/ r.cut /\ SplitsLineEnd(cs) /\ t.truncated /\ IsPrefix(t.lines, kept)
    BY <2>1, EndsAlike
  <2>3. streamed = [kind |-> "read", lines |-> t.lines, total |-> t.at,
                    truncated |-> t.truncated]
    BY <1>2, <1>8
  <2>4. whole = [kind |-> "read", lines |-> kept, total |-> Len(P),
                 truncated |-> kept # all]
    BY <1>3, <1>8
  <2> HIDE DEF kept, all, P
  <2> QED BY <1>5, <2>2, <2>3, <2>4 DEF Limited
<1> QED BY <1>6, <1>7, <1>8

\* Whatever chunks a file arrives in, what is read of it is the same, except
\* where ChunksAreInvisible has the result say so: for every request and
\* every way to cut every file into chunks (read-file-in-range.ts:77-304).
THEOREM RangesAreChunkFree == AnyInput => []RangeIsChunkFree
<1>1. NoInput => RangeIsChunkFree
  BY DEF NoInput, Nothing, RangeIsChunkFree
<1>2. RangeIsChunkFree /\ [TakeInput]_input => RangeIsChunkFree'
  <2> SUFFICES ASSUME RangeIsChunkFree, [TakeInput]_input
               PROVE  RangeIsChunkFree'
    OBVIOUS
  <2>1. CASE UNCHANGED input
    BY <2>1 DEF RangeIsChunkFree
  <2>2. CASE TakeRange
    <3>1. PICK r \in Ranges : input' = [of |-> "range", chunks |-> r.chunks, request |-> r.request]
      BY <2>2 DEF TakeRange
    <3>2. RequestIsSane(r.request) /\ r.chunks \in Seq(Chunk)
      BY RangesAssumption DEF RangeIsSane, RequestIsSane, Chunk, Text, Char
    <3>3. ChunksAreInvisible(r.chunks, r.request)
      BY <3>2, ChunksDoNotShow
    <3>4. input'.chunks = r.chunks /\ input'.request = r.request
      BY <3>1
    <3> QED BY <3>3, <3>4 DEF RangeIsChunkFree
  <2>3. CASE TakeTranscript \/ TakeTargets \/ TakeSession \/ TakeArchives
    BY <2>3 DEF TakeTranscript, TakeTargets, TakeSession, TakeArchives, RangeIsChunkFree
  <2> QED BY <2>1, <2>2, <2>3 DEF TakeInput
<1> QED BY <1>1, <1>2, PTL DEF AnyInput

------------------------------------------------------------------------------
(* Calls and their answers: Transcript *)

\* Where a part begins in the whole.
PlacedAt(whole, part, o) ==
  /\ o \in Nat
  /\ o + Len(part) <= Len(whole)
  /\ \A k \in 1..Len(part) : whole[o + k] = part[k]

\* A part of a part.
LEMMA PlacedWithin ==
  ASSUME NEW S, NEW w \in Seq(S), NEW m \in Seq(S), NEW p \in Seq(S),
         NEW o, NEW q, PlacedAt(w, m, o), PlacedAt(m, p, q)
  PROVE  PlacedAt(w, p, o + q)
<1>1. o \in Nat /\ q \in Nat /\ Len(w) \in Nat /\ Len(m) \in Nat /\ Len(p) \in Nat
  BY DEF PlacedAt
<1>2. o + Len(m) <= Len(w) /\ q + Len(p) <= Len(m)
  BY DEF PlacedAt
<1>3. ASSUME NEW k \in 1..Len(p) PROVE w[(o + q) + k] = p[k]
  <2>1. q + k \in 1..Len(m) /\ o + (q + k) = (o + q) + k
    BY <1>1, <1>2
  <2>2. w[o + (q + k)] = m[q + k] /\ m[q + k] = p[k]
    BY <2>1 DEF PlacedAt
  <2> QED BY <2>1, <2>2
<1> QED BY <1>1, <1>2, <1>3 DEF PlacedAt

\* Every element of the whole lies in a part that is there from end to end.
LEMMA FlattenFinds ==
  ASSUME NEW S, NEW cs \in Seq(Seq(S))
  PROVE  /\ FlattenSeq(cs) \in Seq(S)
         /\ \A i \in 1..Len(FlattenSeq(cs)) :
               \E a \in 1..Len(cs), o \in Nat :
                  PlacedAt(FlattenSeq(cs), cs[a], o) /\ i - o \in 1..Len(cs[a])
<1> DEFINE Finds(w, s) == \A i \in 1..Len(w) : \E a \in 1..Len(s), o \in Nat :
                            PlacedAt(w, s[a], o) /\ i - o \in 1..Len(s[a])
           T == {s \in Seq(Seq(S)) : FlattenSeq(s) \in Seq(S) /\ Finds(FlattenSeq(s), s)}
<1>1. <<>> \in T
  <2>1. FlattenSeq(<<>>) = <<>> /\ Len(<<>>) = 0
    BY FlattenEmpty
  <2>2. <<>> \in Seq(Seq(S)) /\ <<>> \in Seq(S) /\ 1..0 = {}
    OBVIOUS
  <2> QED BY <2>1, <2>2
<1>2. ASSUME NEW s \in Seq(Seq(S)), NEW x \in Seq(S), s \in T PROVE Append(s, x) \in T
  <2> DEFINE b == Append(s, x)
             u == FlattenSeq(s)
             w == FlattenSeq(b)
  <2>1. /\ b \in Seq(Seq(S)) /\ Len(b) = Len(s) + 1 /\ b[Len(s) + 1] = x
        /\ \A k \in 1..Len(s) : b[k] = s[k]
    BY AppendProperties
  <2>2. u \in Seq(S) /\ w = u \o x /\ Finds(u, s)
    BY <1>2, FlattenAppend DEF Glue
  <2>3. /\ w \in Seq(S) /\ Len(w) = Len(u) + Len(x)
        /\ \A i \in 1 .. Len(u) + Len(x) : w[i] = IF i <= Len(u) THEN u[i] ELSE x[i - Len(u)]
    BY <2>2, ConcatProperties
  <2>4. Len(s) \in Nat /\ Len(u) \in Nat /\ Len(x) \in Nat
    BY <2>2
  <2> HIDE DEF b, u, w
  <2>5. ASSUME NEW i \in 1..Len(w), i <= Len(u)
        PROVE  \E a \in 1..Len(b), o \in Nat : PlacedAt(w, b[a], o) /\ i - o \in 1..Len(b[a])
    <3>1. PICK a \in 1..Len(s), o \in Nat : PlacedAt(u, s[a], o) /\ i - o \in 1..Len(s[a])
      BY <2>2, <2>4, <2>5
    <3>2. a \in 1..Len(b) /\ b[a] = s[a] /\ s[a] \in Seq(S)
      BY <2>1, <2>4
    <3>3. PlacedAt(w, u, 0)
      <4>1. \A k \in 1..Len(u) : k \in 1 .. Len(u) + Len(x) /\ k <= Len(u) /\ 0 + k = k
        BY <2>4
      <4> QED BY <2>3, <2>4, <4>1 DEF PlacedAt
    <3>4. PlacedAt(w, s[a], 0 + o)
      <4>1. u \in Seq(S) /\ w \in Seq(S) /\ s[a] \in Seq(S) /\ PlacedAt(u, s[a], o)
        BY <2>2, <2>3, <3>1, <3>2
      <4> QED BY ONLY <3>3, <4>1, PlacedWithin
    <3>5. 0 + o = o
      OBVIOUS
    <3> QED BY <3>1, <3>2, <3>4, <3>5
  <2>6. ASSUME NEW i \in 1..Len(w), ~(i <= Len(u))
        PROVE  \E a \in 1..Len(b), o \in Nat : PlacedAt(w, b[a], o) /\ i - o \in 1..Len(b[a])
    <3>1. Len(s) + 1 \in 1..Len(b)
      BY <2>1, <2>4
    <3>2. PlacedAt(w, x, Len(u))
      <4>1. ASSUME NEW k \in 1..Len(x) PROVE w[Len(u) + k] = x[k]
        <5>1. Len(u) + k \in 1 .. Len(u) + Len(x) /\ ~(Len(u) + k <= Len(u)) /\ (Len(u) + k) - Len(u) = k
          BY <2>4
        <5> QED BY <2>3, <5>1
      <4> QED BY <2>3, <2>4, <4>1 DEF PlacedAt
    <3>3. i - Len(u) \in 1..Len(x)
      BY <2>3, <2>4, <2>6
    <3> QED BY <2>1, <2>4, <3>1, <3>2, <3>3
  <2>7. Finds(w, b)
    BY <2>5, <2>6
  <2> QED BY <2>1, <2>3, <2>7 DEF b, w
<1> HIDE DEF T
<1>3. cs \in T
  BY <1>1, <1>2, SeqSetInduction
<1> QED BY <1>3 DEF T

\* A finite set of numbers has a greatest.
LEMMA MaxOfNumbers ==
  ASSUME NEW S \in SUBSET Nat, IsFiniteSet(S), S # {}
  PROVE  Max(S) \in S /\ \A y \in S : y <= Max(S)
<1> DEFINE Greatest(s, x) == x \in s /\ \A y \in s : x >= y
           T == {s \in SUBSET S : s # {} => \E x \in s : Greatest(s, x)}
<1>1. ASSUME NEW s \in SUBSET S, \A r \in SUBSET s : r # s => r \in T
      PROVE  s \in T
  <2> SUFFICES ASSUME s # {} PROVE \E x \in s : Greatest(s, x)
    OBVIOUS
  <2>1. PICK x \in s : TRUE
    OBVIOUS
  <2>2. s \ {x} \in T
    BY <1>1
  <2>3. CASE s \ {x} = {}
    <3>1. s = {x} /\ x \in Nat
      BY <2>3
    <3> QED BY <3>1
  <2>4. CASE s \ {x} # {}
    <3>1. PICK m \in s \ {x} : Greatest(s \ {x}, m)
      BY <2>2, <2>4
    <3>2. m \in Nat /\ x \in Nat
      OBVIOUS
    <3>3. CASE m >= x
      BY <3>1, <3>3
    <3>4. CASE ~(m >= x)
      <4>1. \A y \in s : x >= y
        <5>1. TAKE y \in s
        <5>2. y \in Nat
          OBVIOUS
        <5>3. y # x => m >= y
          BY <3>1
        <5> QED BY <3>2, <3>4, <5>2, <5>3
      <4> QED BY <4>1
    <3> QED BY <3>3, <3>4
  <2> QED BY <2>3, <2>4
<1> HIDE DEF T
<1>2. S \in T
  BY <1>1, SubsetInduction
<1>3. PICK x \in S : \A y \in S : x >= y
  BY <1>2 DEF T
<1>4. Max(S) \in S /\ \A y \in S : Max(S) >= y
  BY <1>3 DEF Max
<1> QED BY <1>4

\* A later element is a greater one.
Increasing(s) == \A i, j \in 1..Len(s) : i < j => s[i] < s[j]

\* s lists the numbers of S.
Lists(s, S) ==
  /\ s \in Seq(S)
  /\ Increasing(s)
  /\ \A x \in S : \E i \in 1..Len(s) : s[i] = x

\* A finite set of numbers can be listed.
LEMMA SortedLists ==
  ASSUME NEW S \in SUBSET Nat, IsFiniteSet(S)
  PROVE  Lists(Sorted(S), S)
<1> DEFINE Rising(q, s) == /\ q \in [1..Cardinality(s) -> s]
                           /\ \A i, j \in 1..Cardinality(s) : i < j => q[i] < q[j]
           T == {s \in SUBSET S : \E q : Rising(q, s)}
<1>1. ASSUME NEW s \in SUBSET S, \A r \in SUBSET s : r # s => r \in T
      PROVE  s \in T
  <2>1. IsFiniteSet(s) /\ s \in SUBSET Nat
    BY FS_Subset
  <2>2. CASE s = {}
    <3>1. Cardinality(s) = 0
      BY <2>2, FS_EmptySet
    <3>2. 1..Cardinality(s) = {}
      BY <3>1
    <3>3. Rising([i \in {} |-> 0], s)
      BY <3>2
    <3> QED BY <3>3
  <2>3. CASE s # {}
    <3> DEFINE m == Max(s)
               r == s \ {m}
               c == Cardinality(s)
    <3>1. m \in s /\ \A y \in s : y <= m
      BY <2>1, <2>3, MaxOfNumbers
    <3>2. Cardinality(r) = c - 1 /\ c \in Nat /\ Cardinality(r) \in Nat
      <4>1. IsFiniteSet(r) /\ Cardinality(r) = c - 1
        BY <2>1, <3>1, FS_RemoveElement
      <4> QED BY <2>1, <4>1, FS_CardinalityType
    <3>3. PICK q : Rising(q, r)
      BY <1>1, <3>1
    <3> DEFINE u == [i \in 1..c |-> IF i = c THEN m ELSE q[i]]
    <3> HIDE DEF m, c
    <3>4. \A i \in 1..c : i # c => i \in 1..Cardinality(r)
      BY <3>2
    <3>5. \A i \in 1..c : u[i] \in s
      BY <3>1, <3>3, <3>4
    <3>6. ASSUME NEW i \in 1..c, NEW j \in 1..c, i < j PROVE u[i] < u[j]
      <4>0. i # c
        BY <3>2, <3>6
      <4>1. u[i] = q[i] /\ i \in 1..Cardinality(r) /\ q[i] \in r
        BY <3>3, <3>4, <4>0
      <4>2. CASE j = c
        <5>1. u[j] = m /\ q[i] <= m /\ q[i] # m /\ q[i] \in Nat /\ m \in Nat
          BY <2>1, <3>1, <4>1, <4>2
        <5> HIDE DEF u
        <5> QED BY <4>1, <5>1
      <4>3. CASE j # c
        BY <3>3, <3>4, <3>6, <4>0, <4>1, <4>3
      <4> QED BY <4>2, <4>3
    <3>7. u \in [1..c -> s]
      BY <3>5
    <3> HIDE DEF u
    <3>8. Rising(u, s)
      BY <3>6, <3>7 DEF c
    <3> QED BY <3>8
  <2> QED BY <2>2, <2>3
<1> HIDE DEF T
<1>2. S \in T
  BY <1>1, SubsetInduction
<1> DEFINE n == Cardinality(S)
           q == Sorted(S)
<1>3. n \in Nat
  BY FS_CardinalityType
<1>4. q \in [1..n -> S] /\ \A i, j \in DOMAIN q : i < j => q[i] < q[j]
  BY <1>2 DEF T, Sorted
<1>5. q \in Seq(S) /\ Len(q) = n /\ DOMAIN q = 1..n
  BY <1>3, <1>4
<1> HIDE DEF n, q
<1>6. q \in Injection(1..n, S)
  <2>1. ASSUME NEW i \in 1..n, NEW j \in 1..n, q[i] = q[j] PROVE i = j
    <3>1. q[i] \in Nat /\ q[j] \in Nat
      BY <1>4
    <3>2. ~(i < j) /\ ~(j < i)
      BY <1>4, <1>5, <2>1, <3>1
    <3> QED BY <1>3, <3>2
  <2> QED BY <1>4, <2>1 DEF Injection, IsInjective
<1>7. q \in Surjection(1..n, S)
  <2>1. Cardinality(1..n) = n
    BY <1>3, FS_Interval
  <2> QED BY <1>6, <2>1, FS_Injection DEF n
<1>8. \A x \in S : \E i \in 1..n : q[i] = x
  BY <1>7 DEF Surjection
<1> QED BY <1>4, <1>5, <1>8 DEF Lists, Increasing, q

\* Of two lists of the same numbers one begins as the other.
LEMMA ListsAgree ==
  ASSUME NEW S \in SUBSET Nat, NEW s, NEW u, Lists(s, S), Lists(u, S)
  PROVE  Len(s) <= Len(u) /\ \A j \in 1..Len(s) : s[j] = u[j]
<1>0. s \in Seq(S) /\ u \in Seq(S)
  BY DEF Lists
<1>1. Len(s) \in Nat /\ Len(u) \in Nat
  BY <1>0
<1>2. /\ \A i \in 1..Len(s) : s[i] \in S /\ s[i] \in Nat
      /\ \A i \in 1..Len(u) : u[i] \in S /\ u[i] \in Nat
  <2>1. /\ \A i \in 1..Len(s) : s[i] \in S
        /\ \A i \in 1..Len(u) : u[i] \in S
    BY ONLY <1>0, ElementOfSeq
  <2> QED BY <2>1
<1>3. /\ \A x \in S : \E i \in 1..Len(s) : s[i] = x
      /\ \A x \in S : \E i \in 1..Len(u) : u[i] = x
      /\ \A i, j \in 1..Len(s) : i < j => s[i] < s[j]
      /\ \A i, j \in 1..Len(u) : i < j => u[i] < u[j]
  BY DEF Lists, Increasing
<1> DEFINE T == {k \in Nat : k <= Len(s) =>
                   k <= Len(u) /\ \A j \in 1..k : s[j] = u[j]}
<1>4. 0 \in T
  BY <1>1
<1>5. ASSUME NEW k \in Nat, k \in T PROVE k + 1 \in T
  <2> SUFFICES ASSUME k + 1 <= Len(s)
               PROVE  k + 1 <= Len(u) /\ \A j \in 1..(k+1) : s[j] = u[j]
    OBVIOUS
  <2>1. k <= Len(u) /\ \A j \in 1..k : s[j] = u[j]
    BY <1>1, <1>5
  <2>2. k + 1 \in 1..Len(s) /\ \A j \in 1..k : j \in 1..Len(s) /\ j \in 1..Len(u) /\ j < k + 1
    BY <1>1, <2>1
  <2>3. PICK a \in 1..Len(u) : u[a] = s[k + 1]
    BY <1>2, <1>3, <2>2
  <2>4. ~(a <= k)
    <3> SUFFICES ASSUME a <= k PROVE FALSE
      OBVIOUS
    <3>1. a \in 1..k
      OBVIOUS
    <3>2. s[a] < s[k + 1] /\ s[a] = u[a]
      BY <1>3, <2>1, <2>2, <3>1
    <3>3. s[a] \in Nat /\ s[k+1] \in Nat
      BY <1>2, <2>2, <3>1
    <3> QED BY <2>3, <3>2, <3>3
  <2>5. k + 1 \in 1..Len(u)
    BY <1>1, <2>4
  <2>6. PICK b \in 1..Len(s) : s[b] = u[k + 1]
    BY <1>2, <1>3, <2>5
  <2>7. ~(b <= k)
    <3> SUFFICES ASSUME b <= k PROVE FALSE
      OBVIOUS
    <3>1. b \in 1..k
      OBVIOUS
    <3>2. u[b] < u[k + 1] /\ s[b] = u[b]
      BY <1>3, <2>1, <2>2, <2>5, <3>1
    <3>3. u[b] \in Nat /\ u[k+1] \in Nat
      BY <1>2, <2>2, <2>5, <3>1
    <3> QED BY <2>6, <3>2, <3>3
  <2>8. s[k+1] <= s[b] /\ u[k+1] <= u[a]
    <3>1. s[k+1] \in Nat /\ s[b] \in Nat /\ u[k+1] \in Nat /\ u[a] \in Nat
      BY <1>2, <2>2, <2>5
    <3>2. k + 1 = b \/ k + 1 < b
      BY <2>7
    <3>3. k + 1 = a \/ k + 1 < a
      BY <2>4
    <3>4. s[k+1] = s[b] \/ s[k+1] < s[b]
      BY <1>3, <2>2, <3>2
    <3>5. u[k+1] = u[a] \/ u[k+1] < u[a]
      BY <1>3, <2>5, <3>3
    <3> QED BY <3>1, <3>4, <3>5
  <2>9. s[k+1] = u[k+1]
    <3>1. s[k+1] \in Nat /\ u[k+1] \in Nat
      BY <1>2, <2>2, <2>5
    <3> QED BY <2>3, <2>6, <2>8, <3>1
  <2>10. \A j \in 1..(k+1) : j = k + 1 \/ j \in 1..k
    OBVIOUS
  <2>11. k + 1 <= Len(u)
    BY <2>5
  <2> QED BY <2>1, <2>9, <2>10, <2>11
<1> HIDE DEF T
<1>6. Len(s) \in T
  BY <1>1, <1>4, <1>5, NatSetInduction
<1> QED BY <1>1, <1>6 DEF T

\* There is only one list of a set of numbers.
LEMMA ListIsUnique ==
  ASSUME NEW S \in SUBSET Nat, NEW s, NEW u, Lists(s, S), Lists(u, S)
  PROVE  s = u
<1>1. /\ Len(s) <= Len(u) /\ \A j \in 1..Len(s) : s[j] = u[j]
      /\ Len(u) <= Len(s)
  BY ListsAgree
<1>2. s \in Seq(S) /\ u \in Seq(S) /\ Len(s) \in Nat /\ Len(u) \in Nat
  BY DEF Lists
<1>3. Len(s) = Len(u)
  BY <1>1, <1>2
<1> QED BY <1>1, <1>2, <1>3, SeqEqual

\* Calls, and the pieces they arrive in.
Ids == SUBSET STRING

\* The pieces of the arguments.
Args == Seq(STRING)

\* A call.
Call == [id : Ids, args : Args]

\* A piece of a call.
Delta == [index : Nat, id : Ids, args : Args]

\* What mergeStreamToolCalls keeps: a call for some indices.
CallMaps == UNION {[D -> Call] : D \in SUBSET Nat}

\* The step of WithId.
KeepCall(kept, c) == IF c.id # NoId THEN Append(kept, c) ELSE kept

\* WithId, step by step.
LEMMA WithIdSteps ==
  ASSUME NEW calls \in Seq(Call)
  PROVE  \E F \in [0..Len(calls) -> Seq(Call)] :
            /\ F[0] = <<>>
            /\ \A i \in 1..Len(calls) : F[i] = KeepCall(F[i-1], calls[i])
            /\ WithId(calls) = F[Len(calls)]
<1> DEFINE n == Len(calls)
           V == Seq(Call)
           base == <<>>
           g == [p \in V \X (1..n) |-> KeepCall(p[1], calls[p[2]])]
           Body(f) == [s \in SUBSET (DOMAIN calls) |->
                         IF s = {} THEN base ELSE KeepCall(f[s \ {Max(s)}], calls[Max(s)])]
           iter == CHOOSE f : f = Body(f)
<1>1. WithId(calls) = iter[DOMAIN calls]
  BY DEF FoldLeft, MapThenFoldSet, WithId, KeepCall
<1>2. n \in Nat /\ DOMAIN calls = 1..n /\ base \in V
  OBVIOUS
<1>3. \A v \in V, i \in 1..n : KeepCall(v, calls[i]) \in V
  <2>1. \A i \in 1..n : calls[i] \in Call
    OBVIOUS
  <2>2. \A v \in Seq(Call), x \in Call : Append(v, x) \in Seq(Call)
    BY AppendProperties
  <2> QED BY <2>1, <2>2 DEF KeepCall
<1>4. \A v \in V, i \in 1..n : g[<<v, i>>] = KeepCall(v, calls[i])
  OBVIOUS
<1> HIDE DEF n, V, g, base
<1>5. Closed(n, V, g)
  BY <1>3, <1>4 DEF Closed
<1>6. PICK f : FoldsTo(f, n, V, base, g)
  BY <1>2, <1>5, FoldExists
<1>7. \A s \in SUBSET (1..n) : s # {} => Max(s) \in 1..n
  BY <1>2, MaxIn
<1>8. f = Body(f)
  BY <1>2, <1>4, <1>6, <1>7 DEF FoldsTo
<1>9. iter = Body(iter)
  <2> HIDE DEF Body
  <2> QED BY <1>8
<1> HIDE DEF iter
<1>10. Unfolds(iter, n, V, base, g)
  BY <1>2, <1>4, <1>7, <1>9 DEF Unfolds
<1>11. PICK F : Ladder(F, n, V, base, g) /\ iter[1..n] = F[n]
  BY <1>2, <1>5, <1>10, FoldLadder
<1>12. \A i \in 1..n : F[i] = KeepCall(F[i-1], calls[i])
  <2>1. \A i \in 1..n : F[i-1] \in V
    BY <1>2, <1>11 DEF Ladder
  <2> QED BY <2>1, <1>4, <1>11 DEF Ladder
<1>13. WithId(calls) = F[n]
  BY <1>1, <1>2, <1>11
<1> HIDE DEF Body
<1> QED BY <1>11, <1>12, <1>13 DEF n, V, base, Ladder

\* With one more call.
LEMMA WithIdAppend ==
  ASSUME NEW calls \in Seq(Call), NEW x \in Call
  PROVE  /\ WithId(calls) \in Seq(Call)
         /\ WithId(Append(calls, x)) = KeepCall(WithId(calls), x)
<1> DEFINE b == Append(calls, x)
           n == Len(calls)
<1>1. /\ b \in Seq(Call) /\ Len(b) = n + 1 /\ b[n+1] = x
      /\ \A i \in 1..n : b[i] = calls[i]
  BY AppendProperties
<1>2. PICK F \in [0..n -> Seq(Call)] :
            /\ F[0] = <<>>
            /\ \A i \in 1..n : F[i] = KeepCall(F[i-1], calls[i])
            /\ WithId(calls) = F[n]
  BY WithIdSteps
<1> HIDE DEF b
<1>3. PICK G \in [0..Len(b) -> Seq(Call)] :
            /\ G[0] = <<>>
            /\ \A i \in 1..Len(b) : G[i] = KeepCall(G[i-1], b[i])
            /\ WithId(b) = G[Len(b)]
  BY <1>1, WithIdSteps
<1> DEFINE T == {i \in Nat : i <= n => F[i] = G[i]}
<1>4. n \in Nat
  OBVIOUS
<1>5. 0 \in T
  BY <1>2, <1>3
<1>6. ASSUME NEW i \in Nat, i \in T PROVE i + 1 \in T
  <2> SUFFICES ASSUME i + 1 <= n PROVE F[i+1] = G[i+1]
    OBVIOUS
  <2>1. i + 1 \in 1..n /\ i + 1 \in 1..Len(b) /\ (i + 1) - 1 = i
    BY <1>1, <1>4
  <2>2. F[i] = G[i]
    BY <1>4, <1>6, <2>1
  <2> QED BY <1>1, <1>2, <1>3, <2>1, <2>2
<1> HIDE DEF T
<1>7. n \in T
  BY <1>4, <1>5, <1>6, NatSetInduction
<1>8. F[n] = G[n]
  BY <1>4, <1>7 DEF T
<1>9. G[n+1] = KeepCall(G[n], b[n+1])
  <2>1. n + 1 \in 1..Len(b) /\ (n + 1) - 1 = n
    BY <1>1, <1>4
  <2> QED BY <1>3, <2>1
<1>10. F[n] \in Seq(Call)
  BY <1>2, <1>4
<1> QED BY <1>1, <1>2, <1>3, <1>8, <1>9, <1>10 DEF b

\* The calls by their index, before they are put in order.
Collected(deltas) == FoldLeft(TakeDelta, <<>>, deltas)

\* A piece of a call that is not there begins it.
CallOf(calls, i) == IF i \in DOMAIN calls THEN calls[i] ELSE [id |-> NoId, args |-> <<>>]

\* A step leads from calls to calls.
LEMMA TakeDeltaType ==
  ASSUME NEW v \in CallMaps, NEW d \in Delta
  PROVE  /\ TakeDelta(v, d) \in CallMaps
         /\ DOMAIN TakeDelta(v, d) = DOMAIN v \cup {d.index}
         /\ \A i \in DOMAIN v : i # d.index => TakeDelta(v, d)[i] = v[i]
         /\ TakeDelta(v, d)[d.index] =
              [id |-> IF d.id # NoId THEN d.id ELSE CallOf(v, d.index).id,
               args |-> CallOf(v, d.index).args \o d.args]
<1>1. PICK D \in SUBSET Nat : v \in [D -> Call]
  BY DEF CallMaps
<1>2. d.index \in Nat /\ d.id \in Ids /\ d.args \in Args
  BY DEF Delta
<1>3. CallOf(v, d.index) \in Call
  <2>1. [id |-> NoId, args |-> <<>>] \in Call
    BY DEF Call, Ids, Args, NoId
  <2> QED BY <1>1, <2>1 DEF CallOf
<1> DEFINE c == CallOf(v, d.index)
           new == [id |-> IF d.id # NoId THEN d.id ELSE c.id, args |-> c.args \o d.args]
           next == [i \in DOMAIN v \cup {d.index} |-> IF i # d.index THEN v[i] ELSE new]
<1>4. TakeDelta(v, d) = next
  BY DEF TakeDelta, CallOf
<1>5. new \in Call
  <2>1. c.id \in Ids /\ c.args \in Args
    BY <1>3 DEF Call
  <2>2. c.args \o d.args \in Args
    BY <1>2, <2>1, ConcatProperties DEF Args
  <2> HIDE DEF c
  <2> QED BY <1>2, <2>1, <2>2 DEF Call
<1> HIDE DEF c, new
<1>6. next \in [D \cup {d.index} -> Call]
  BY <1>1, <1>5
<1>7. D \cup {d.index} \in SUBSET Nat
  BY <1>2
<1>8. next \in CallMaps
  BY <1>6, <1>7 DEF CallMaps
<1>9. /\ DOMAIN next = DOMAIN v \cup {d.index}
      /\ \A i \in DOMAIN v : i # d.index => next[i] = v[i]
      /\ next[d.index] = new
  OBVIOUS
<1> HIDE DEF next
<1> QED BY <1>4, <1>8, <1>9 DEF new, c

\* Collected, step by step.
LEMMA CollectedSteps ==
  ASSUME NEW deltas \in Seq(Delta)
  PROVE  \E F \in [0..Len(deltas) -> CallMaps] :
            /\ F[0] = <<>>
            /\ \A i \in 1..Len(deltas) : F[i] = TakeDelta(F[i-1], deltas[i])
            /\ Collected(deltas) = F[Len(deltas)]
<1> DEFINE n == Len(deltas)
           V == CallMaps
           base == <<>>
           g == [p \in V \X (1..n) |-> TakeDelta(p[1], deltas[p[2]])]
           Body(f) == [s \in SUBSET (DOMAIN deltas) |->
                         IF s = {} THEN base ELSE TakeDelta(f[s \ {Max(s)}], deltas[Max(s)])]
           iter == CHOOSE f : f = Body(f)
<1>1. Collected(deltas) = iter[DOMAIN deltas]
  BY DEF FoldLeft, MapThenFoldSet, Collected
<1>2. n \in Nat /\ DOMAIN deltas = 1..n /\ base \in V
  <2>1. <<>> \in CallMaps
    <3>1. <<>> \in [{} -> Call] /\ {} \in SUBSET Nat
      OBVIOUS
    <3> QED BY <3>1 DEF CallMaps
  <2> QED BY <2>1
<1>3. \A v \in V, i \in 1..n : TakeDelta(v, deltas[i]) \in V
  <2>1. \A i \in 1..n : deltas[i] \in Delta
    OBVIOUS
  <2> QED BY <2>1, TakeDeltaType
<1>4. \A v \in V, i \in 1..n : g[<<v, i>>] = TakeDelta(v, deltas[i])
  OBVIOUS
<1> HIDE DEF n, V, g, base
<1>5. Closed(n, V, g)
  BY <1>3, <1>4 DEF Closed
<1>6. PICK f : FoldsTo(f, n, V, base, g)
  BY <1>2, <1>5, FoldExists
<1>7. \A s \in SUBSET (1..n) : s # {} => Max(s) \in 1..n
  BY <1>2, MaxIn
<1>8. f = Body(f)
  BY <1>2, <1>4, <1>6, <1>7 DEF FoldsTo
<1>9. iter = Body(iter)
  <2> HIDE DEF Body
  <2> QED BY <1>8
<1> HIDE DEF iter
<1>10. Unfolds(iter, n, V, base, g)
  BY <1>2, <1>4, <1>7, <1>9 DEF Unfolds
<1>11. PICK F : Ladder(F, n, V, base, g) /\ iter[1..n] = F[n]
  BY <1>2, <1>5, <1>10, FoldLadder
<1>12. \A i \in 1..n : F[i] = TakeDelta(F[i-1], deltas[i])
  <2>1. \A i \in 1..n : F[i-1] \in V
    BY <1>2, <1>11 DEF Ladder
  <2> QED BY <2>1, <1>4, <1>11 DEF Ladder
<1>13. Collected(deltas) = F[n]
  BY <1>1, <1>2, <1>11
<1> HIDE DEF Body
<1> QED BY <1>11, <1>12, <1>13 DEF n, V, base, Ladder

\* With one more piece.
LEMMA CollectedAppend ==
  ASSUME NEW deltas \in Seq(Delta), NEW x \in Delta
  PROVE  /\ Collected(deltas) \in CallMaps
         /\ Collected(Append(deltas, x)) = TakeDelta(Collected(deltas), x)
<1> DEFINE b == Append(deltas, x)
           n == Len(deltas)
<1>1. /\ b \in Seq(Delta) /\ Len(b) = n + 1 /\ b[n+1] = x
      /\ \A i \in 1..n : b[i] = deltas[i]
  BY AppendProperties
<1>2. PICK F \in [0..n -> CallMaps] :
            /\ F[0] = <<>>
            /\ \A i \in 1..n : F[i] = TakeDelta(F[i-1], deltas[i])
            /\ Collected(deltas) = F[n]
  BY CollectedSteps
<1> HIDE DEF b
<1>3. PICK G \in [0..Len(b) -> CallMaps] :
            /\ G[0] = <<>>
            /\ \A i \in 1..Len(b) : G[i] = TakeDelta(G[i-1], b[i])
            /\ Collected(b) = G[Len(b)]
  BY <1>1, CollectedSteps
<1> DEFINE T == {i \in Nat : i <= n => F[i] = G[i]}
<1>4. n \in Nat
  OBVIOUS
<1>5. 0 \in T
  BY <1>2, <1>3
<1>6. ASSUME NEW i \in Nat, i \in T PROVE i + 1 \in T
  <2> SUFFICES ASSUME i + 1 <= n PROVE F[i+1] = G[i+1]
    OBVIOUS
  <2>1. i + 1 \in 1..n /\ i + 1 \in 1..Len(b) /\ (i + 1) - 1 = i
    BY <1>1, <1>4
  <2>2. F[i] = G[i]
    BY <1>4, <1>6, <2>1
  <2> QED BY <1>1, <1>2, <1>3, <2>1, <2>2
<1> HIDE DEF T
<1>7. n \in T
  BY <1>4, <1>5, <1>6, NatSetInduction
<1>8. F[n] = G[n]
  BY <1>4, <1>7 DEF T
<1>9. G[n+1] = TakeDelta(G[n], b[n+1])
  <2>1. n + 1 \in 1..Len(b) /\ (n + 1) - 1 = n
    BY <1>1, <1>4
  <2> QED BY <1>3, <2>1
<1>10. F[n] \in CallMaps
  BY <1>2, <1>4
<1> QED BY <1>1, <1>2, <1>3, <1>8, <1>9, <1>10 DEF b

\* Where the calls with an id are.
Identified(calls) == {i \in 1..Len(calls) : calls[i].id # NoId}

\* Which calls were kept.
Keeps(h, kept, calls) ==
  /\ Lists(h, Identified(calls))
  /\ Len(h) = Len(kept)
  /\ \A k \in 1..Len(kept) : kept[k] = calls[h[k]]

\* One number more, greater than the others.
LEMMA ListsMore ==
  ASSUME NEW S \in SUBSET Nat, NEW h, Lists(h, S), NEW n \in Nat, \A x \in S : x < n
  PROVE  Lists(Append(h, n), S \cup {n})
<1> DEFINE b == Append(h, n)
<1>1. h \in Seq(S)
  BY DEF Lists
<1>2. h \in Seq(S \cup {n}) /\ n \in S \cup {n}
  BY <1>1, SeqMonotonic
<1>3. /\ b \in Seq(S \cup {n}) /\ Len(b) = Len(h) + 1 /\ b[Len(h) + 1] = n
      /\ \A i \in 1..Len(h) : b[i] = h[i]
  BY <1>2, AppendProperties
<1>4. Len(h) \in Nat /\ \A i \in 1..Len(h) : h[i] \in S
  BY <1>1, ElementOfSeq
<1> HIDE DEF b
<1>5. ASSUME NEW i \in 1..Len(b), NEW j \in 1..Len(b), i < j PROVE b[i] < b[j]
  <2>1. i \in 1..Len(h)
    BY <1>3, <1>4, <1>5
  <2>2. b[i] = h[i] /\ h[i] < n
    BY <1>3, <1>4, <2>1
  <2>3. CASE j = Len(h) + 1
    BY <1>3, <2>2, <2>3
  <2>4. CASE j # Len(h) + 1
    <3>1. j \in 1..Len(h)
      BY <1>3, <1>4, <2>4
    <3>2. h[i] < h[j]
      BY <1>5, <2>1, <3>1 DEF Lists, Increasing
    <3> QED BY <1>3, <2>2, <3>1, <3>2
  <2> QED BY <2>3, <2>4
<1>6. ASSUME NEW x \in S \cup {n} PROVE \E i \in 1..Len(b) : b[i] = x
  <2>1. Len(h) + 1 \in 1..Len(b) /\ \A i \in 1..Len(h) : i \in 1..Len(b)
    BY <1>3, <1>4
  <2>2. CASE x = n
    BY <1>3, <2>1, <2>2
  <2>3. CASE x \in S
    <3>1. PICK i \in 1..Len(h) : h[i] = x
      BY <2>3 DEF Lists
    <3> QED BY <1>3, <2>1, <3>1
  <2> QED BY <2>2, <2>3
<1> QED BY <1>3, <1>5, <1>6 DEF Lists, Increasing, b

\* WithId keeps the calls with an id, in their order.
LEMMA WithIdKeeps ==
  ASSUME NEW calls \in Seq(Call)
  PROVE  WithId(calls) \in Seq(Call) /\ \E h : Keeps(h, WithId(calls), calls)
<1> DEFINE T == {s \in Seq(Call) : WithId(s) \in Seq(Call) /\ \E h : Keeps(h, WithId(s), s)}
<1>1. <<>> \in T
  <2>1. <<>> \in Seq(Call) /\ Len(<<>>) = 0 /\ 1..0 = {}
    OBVIOUS
  <2>2. WithId(<<>>) = <<>>
    BY <2>1, WithIdSteps
  <2>3. Identified(<<>>) = {} /\ <<>> \in Seq({})
    BY <2>1 DEF Identified
  <2>4. Lists(<<>>, Identified(<<>>))
    BY <2>1, <2>3 DEF Lists, Increasing
  <2>5. Keeps(<<>>, <<>>, <<>>)
    BY <2>1, <2>4 DEF Keeps
  <2> QED BY <2>1, <2>2, <2>5
<1>2. ASSUME NEW s \in Seq(Call), NEW x \in Call, s \in T PROVE Append(s, x) \in T
  <2> DEFINE b == Append(s, x)
             n == Len(s) + 1
  <2>1. /\ b \in Seq(Call) /\ Len(b) = n /\ b[n] = x
        /\ \A k \in 1..Len(s) : b[k] = s[k]
    BY AppendProperties
  <2>2. WithId(s) \in Seq(Call) /\ WithId(b) = KeepCall(WithId(s), x)
    BY <1>2, WithIdAppend
  <2>3. PICK h : Keeps(h, WithId(s), s)
    BY <1>2
  <2>4. Len(s) \in Nat /\ n \in Nat /\ n \in 1..n /\ n \notin 1..Len(s) /\ 1..n = 1..Len(s) \cup {n}
    OBVIOUS
  <2> HIDE DEF b, n
  <2>5. /\ Identified(s) \in SUBSET Nat
        /\ \A i \in Identified(s) : i \in 1..Len(s) /\ i < n
    BY <2>4 DEF Identified, n
  <2>6. Identified(b) = Identified(s) \cup (IF x.id # NoId THEN {n} ELSE {})
    BY <2>1, <2>4 DEF Identified
  <2>7. h \in Seq(Identified(s)) /\ Len(h) = Len(WithId(s)) /\ Len(h) \in Nat
    BY <2>3 DEF Keeps, Lists
  <2>8. \A k \in 1..Len(h) : h[k] \in Identified(s)
    BY ONLY <2>7, ElementOfSeq
  <2>9. \A k \in 1..Len(h) : WithId(s)[k] = b[h[k]]
    BY <2>1, <2>3, <2>5, <2>7, <2>8 DEF Keeps
  <2>10. CASE x.id = NoId
    <3>1. Identified(b) = Identified(s) /\ WithId(b) = WithId(s)
      BY <2>2, <2>6, <2>10 DEF KeepCall
    <3>2. Keeps(h, WithId(b), b)
      BY <2>3, <2>7, <2>9, <3>1 DEF Keeps
    <3> QED BY <2>1, <2>2, <3>1, <3>2 DEF b
  <2>11. CASE x.id # NoId
    <3>1. Identified(b) = Identified(s) \cup {n} /\ WithId(b) = Append(WithId(s), x)
      BY <2>2, <2>6, <2>11 DEF KeepCall
    <3> DEFINE g == Append(h, n)
               w == WithId(b)
    <3>2. Lists(h, Identified(s))
      BY <2>3 DEF Keeps
    <3>3. Lists(g, Identified(b))
      BY <2>4, <2>5, <3>1, <3>2, ListsMore
    <3>4. /\ w \in Seq(Call) /\ Len(w) = Len(h) + 1 /\ w[Len(h) + 1] = x
          /\ \A k \in 1..Len(h) : w[k] = WithId(s)[k]
      BY <2>2, <2>7, <3>1, AppendProperties
    <3>5. h \in Seq(Nat)
      BY <2>5, <2>7, SeqMonotonic
    <3>6. Len(g) = Len(h) + 1 /\ g[Len(h) + 1] = n /\ \A k \in 1..Len(h) : g[k] = h[k]
      BY <2>4, <3>5, AppendProperties
    <3> HIDE DEF g, w
    <3>7. ASSUME NEW k \in 1..Len(w) PROVE w[k] = b[g[k]]
      <4>1. CASE k = Len(h) + 1
        BY <2>1, <3>4, <3>6, <4>1
      <4>2. CASE k # Len(h) + 1
        <5>1. k \in 1..Len(h)
          BY <2>7, <3>4, <4>2
        <5> QED BY <2>9, <3>4, <3>6, <5>1
      <4> QED BY <4>1, <4>2
    <3>8. Keeps(g, w, b)
      BY <3>3, <3>4, <3>6, <3>7 DEF Keeps
    <3> QED BY <2>1, <3>4, <3>8 DEF b, w
  <2> QED BY <2>10, <2>11
<1> HIDE DEF T
<1>3. calls \in T
  BY <1>1, <1>2, SeqSetInduction
<1> QED BY <1>3 DEF T

\* What is kept has ids, so it is kept again.
LEMMA WithIdOnce ==
  ASSUME NEW calls \in Seq(Call)
  PROVE  WithId(WithId(calls)) = WithId(calls)
<1> DEFINE w == WithId(calls)
<1>1. PICK h : Keeps(h, w, calls)
  BY WithIdKeeps
<1>2. w \in Seq(Call) /\ Len(w) \in Nat /\ Len(h) = Len(w)
  BY <1>1, WithIdKeeps DEF Keeps
<1> HIDE DEF w
<1>3. ASSUME NEW k \in 1..Len(w) PROVE w[k].id # NoId
  <2>1. h \in Seq(Identified(calls)) /\ k \in 1..Len(h)
    BY <1>1, <1>2 DEF Keeps, Lists
  <2>2. h[k] \in Identified(calls)
    BY ONLY <2>1, ElementOfSeq
  <2> QED BY <1>1, <2>2 DEF Keeps, Identified
<1>4. Identified(w) = 1..Len(w)
  BY <1>3 DEF Identified
<1> DEFINE u == [k \in 1..Len(w) |-> k]
<1>5. Len(u) = Len(w)
  BY <1>2
<1>6. Lists(u, 1..Len(w))
  <2>1. u \in Seq(1..Len(w))
    BY <1>2
  <2> QED BY <1>2, <1>5, <2>1 DEF Lists, Increasing
<1>7. PICK g : Keeps(g, WithId(w), w)
  BY <1>2, WithIdKeeps
<1>8. 1..Len(w) \in SUBSET Nat
  OBVIOUS
<1> HIDE DEF u
<1>9. g = u
  <2>1. Lists(g, 1..Len(w))
    BY <1>4, <1>7 DEF Keeps
  <2> QED BY <1>6, <1>8, <2>1, ListIsUnique
<1>10. Len(WithId(w)) = Len(w) /\ WithId(w) \in Seq(Call)
  BY <1>2, <1>5, <1>7, <1>9, WithIdKeeps DEF Keeps
<1>11. \A k \in 1..Len(w) : WithId(w)[k] = w[k]
  BY <1>7, <1>9, <1>10 DEF Keeps, u
<1> QED BY <1>2, <1>10, <1>11, SeqEqual DEF w

\* Where the model gave the call of an index an id.
Given(deltas, index) ==
  {i \in DOMAIN deltas : deltas[i].index = index /\ deltas[i].id # NoId}

\* What a piece says of the call of an index.
PieceFor(d, index) == IF d.index = index THEN d.args ELSE <<>>

\* What one more piece adds to what was said.
LEMMA SpokenMore ==
  ASSUME NEW deltas \in Seq(Delta), NEW d \in Delta, NEW index \in Nat
  PROVE  /\ Spoken(deltas, index) \in Args
         /\ Spoken(Append(deltas, d), index) = Spoken(deltas, index) \o PieceFor(d, index)
<1> DEFINE b == Append(deltas, d)
           Pieces0(s) == [i \in DOMAIN s |-> PieceFor(s[i], index)]
<1>1. /\ b \in Seq(Delta) /\ Len(b) = Len(deltas) + 1 /\ b[Len(deltas) + 1] = d
      /\ \A i \in 1..Len(deltas) : b[i] = deltas[i]
  BY AppendProperties
<1> HIDE DEF b
<1>2. \A x \in Delta : PieceFor(x, index) \in Seq(STRING)
  <2>1. \A x \in Delta : x.args \in Seq(STRING)
    BY DEF Delta, Args
  <2>2. <<>> \in Seq(STRING)
    OBVIOUS
  <2> QED BY ONLY <2>1, <2>2 DEF PieceFor
<1>3. ASSUME NEW s \in Seq(Delta)
      PROVE  /\ Pieces0(s) \in Seq(Seq(STRING)) /\ Len(Pieces0(s)) = Len(s)
             /\ \A i \in 1..Len(s) : Pieces0(s)[i] = PieceFor(s[i], index)
             /\ Spoken(s, index) = FlattenSeq(Pieces0(s))
  <2>1. DOMAIN s = 1..Len(s) /\ Len(s) \in Nat /\ \A i \in 1..Len(s) : s[i] \in Delta
    OBVIOUS
  <2>2. \A i \in 1..Len(s) : PieceFor(s[i], index) \in Seq(STRING)
    BY <1>2, <2>1
  <2>3. Spoken(s, index) = FlattenSeq(Pieces0(s))
    BY DEF Spoken, PieceFor
  <2>4. Pieces0(s) = [i \in 1..Len(s) |-> PieceFor(s[i], index)]
    BY <2>1
  <2> HIDE DEF Pieces0
  <2> DEFINE q == [i \in 1..Len(s) |-> PieceFor(s[i], index)]
  <2>5. q \in Seq(Seq(STRING)) /\ Len(q) = Len(s) /\ \A i \in 1..Len(s) : q[i] = PieceFor(s[i], index)
    BY <2>1, <2>2
  <2> QED BY <2>3, <2>4, <2>5
<1> HIDE DEF Pieces0
<1>4. /\ Pieces0(deltas) \in Seq(Seq(STRING)) /\ Len(Pieces0(deltas)) = Len(deltas)
      /\ \A i \in 1..Len(deltas) : Pieces0(deltas)[i] = PieceFor(deltas[i], index)
      /\ Spoken(deltas, index) = FlattenSeq(Pieces0(deltas))
  BY <1>3
<1>5. /\ Pieces0(b) \in Seq(Seq(STRING)) /\ Len(Pieces0(b)) = Len(b)
      /\ \A i \in 1..Len(b) : Pieces0(b)[i] = PieceFor(b[i], index)
      /\ Spoken(b, index) = FlattenSeq(Pieces0(b))
  BY <1>1, <1>3
<1> DEFINE x == PieceFor(d, index)
           u == Append(Pieces0(deltas), x)
<1>6. x \in Seq(STRING)
  BY <1>2
<1> HIDE DEF x
<1>7. /\ u \in Seq(Seq(STRING)) /\ Len(u) = Len(deltas) + 1 /\ u[Len(deltas) + 1] = x
      /\ \A i \in 1..Len(deltas) : u[i] = Pieces0(deltas)[i]
  BY <1>4, <1>6, AppendProperties
<1> HIDE DEF u
<1>8. Pieces0(b) = u
  <2>1. Len(deltas) \in Nat
    OBVIOUS
  <2>2. ASSUME NEW i \in 1..Len(b) PROVE Pieces0(b)[i] = u[i]
    <3>1. CASE i = Len(deltas) + 1
      BY <1>1, <1>5, <1>7, <3>1 DEF x
    <3>2. CASE i # Len(deltas) + 1
      <4>1. i \in 1..Len(deltas)
        BY <1>1, <2>1, <3>2
      <4> QED BY <1>1, <1>4, <1>5, <1>7, <4>1
    <3> QED BY <3>1, <3>2
  <2> QED BY <1>1, <1>5, <1>7, <2>2, SeqEqual
<1>9. /\ FlattenSeq(Pieces0(deltas)) \in Seq(STRING)
      /\ FlattenSeq(u) = FlattenSeq(Pieces0(deltas)) \o x
  BY <1>4, <1>6, FlattenAppend DEF u, Glue
<1> QED BY <1>4, <1>5, <1>8, <1>9 DEF Args, b, x

\* Which id it makes the last one.
LEMMA SpokenIdMore ==
  ASSUME NEW deltas \in Seq(Delta), NEW d \in Delta, NEW index \in Nat
  PROVE  SpokenId(Append(deltas, d), index) =
           IF d.index = index /\ d.id # NoId THEN d.id ELSE SpokenId(deltas, index)
<1> DEFINE b == Append(deltas, d)
           n == Len(deltas) + 1
<1>1. /\ b \in Seq(Delta) /\ Len(b) = n /\ b[n] = d
      /\ \A i \in 1..Len(deltas) : b[i] = deltas[i]
  BY AppendProperties
<1>2. /\ DOMAIN b = 1..n /\ DOMAIN deltas = 1..Len(deltas) /\ Len(deltas) \in Nat
      /\ n \in Nat /\ 1..n = 1..Len(deltas) \cup {n} /\ n \notin 1..Len(deltas)
  BY <1>1
<1> DEFINE G == Given(deltas, index)
           H == Given(b, index)
<1>3. \A s : SpokenId(s, index) = IF Given(s, index) = {} THEN NoId ELSE s[Max(Given(s, index))].id
  BY DEF SpokenId, Given
<1> HIDE DEF b, n
<1>4. H = G \cup (IF d.index = index /\ d.id # NoId THEN {n} ELSE {})
  BY <1>1, <1>2 DEF Given
<1>5. G \subseteq 1..Len(deltas)
  BY <1>2 DEF Given
<1> HIDE DEF G, H
<1>6. CASE d.index = index /\ d.id # NoId
  <2>1. n \in H /\ \A y \in H : n >= y /\ y \in Nat
    BY <1>2, <1>4, <1>5, <1>6 DEF n
  <2>2. Max(H) = n
    <3>1. \A x \in H : (\A y \in H : x >= y) => x = n
      BY <1>2, <2>1
    <3> QED BY <2>1, <3>1 DEF Max
  <2>3. SpokenId(b, index) = d.id
    BY <1>1, <1>3, <2>1, <2>2 DEF H
  <2> QED BY <1>6, <2>3 DEF b
<1>7. CASE ~(d.index = index /\ d.id # NoId)
  <2>1. H = G
    BY <1>4, <1>7
  <2>2. SpokenId(b, index) = SpokenId(deltas, index)
    <3>1. CASE G = {}
      BY <1>3, <2>1, <3>1 DEF G, H
    <3>2. CASE G # {}
      <4>1. Max(G) \in 1..Len(deltas)
        BY <1>2, <1>5, <3>2, MaxIn
      <4>2. SpokenId(b, index) = b[Max(H)].id /\ SpokenId(deltas, index) = deltas[Max(G)].id
        BY <1>3, <2>1, <3>2 DEF G, H
      <4> QED BY <1>1, <2>1, <4>1, <4>2
    <3> QED BY <3>1, <3>2
  <2> QED BY <1>7, <2>2 DEF b
<1> QED BY <1>6, <1>7

\* The calls that were collected are the ones that were said.
LEMMA CollectedIsSpoken ==
  ASSUME NEW deltas \in Seq(Delta)
  PROVE  /\ Collected(deltas) \in CallMaps
         /\ DOMAIN Collected(deltas) = {deltas[j].index : j \in DOMAIN deltas}
         /\ \A index \in Nat :
              CallOf(Collected(deltas), index)
                = [id |-> SpokenId(deltas, index), args |-> Spoken(deltas, index)]
<1> DEFINE Says(s) == /\ Collected(s) \in CallMaps
                      /\ DOMAIN Collected(s) = {s[j].index : j \in DOMAIN s}
                      /\ \A index \in Nat :
                           CallOf(Collected(s), index)
                             = [id |-> SpokenId(s, index), args |-> Spoken(s, index)]
           T == {s \in Seq(Delta) : Says(s)}
<1>1. <<>> \in T
  <2>1. <<>> \in Seq(Delta) /\ Len(<<>>) = 0 /\ DOMAIN <<>> = {}
    OBVIOUS
  <2>2. Collected(<<>>) = <<>> /\ Collected(<<>>) \in CallMaps
    BY <2>1, CollectedSteps
  <2>3. ASSUME NEW index \in Nat
        PROVE  SpokenId(<<>>, index) = NoId /\ Spoken(<<>>, index) = <<>>
    <3>1. SpokenId(<<>>, index) = NoId
      BY <2>1 DEF SpokenId
    <3>2. [i \in DOMAIN <<>> |-> IF <<>>[i].index = index THEN <<>>[i].args ELSE <<>>] = <<>>
      BY <2>1
    <3> QED BY <3>1, <3>2, FlattenEmpty DEF Spoken
  <2>4. \A index \in Nat : CallOf(<<>>, index) = [id |-> NoId, args |-> <<>>]
    BY <2>1 DEF CallOf
  <2>5. {<<>>[j].index : j \in DOMAIN <<>>} = {}
    BY <2>1
  <2> QED BY <2>1, <2>2, <2>3, <2>4, <2>5
<1>2. ASSUME NEW s \in Seq(Delta), NEW d \in Delta, s \in T PROVE Append(s, d) \in T
  <2> DEFINE b == Append(s, d)
             n == Len(s) + 1
             v == Collected(s)
             w == Collected(b)
  <2>1. /\ b \in Seq(Delta) /\ Len(b) = n /\ b[n] = d
        /\ \A i \in 1..Len(s) : b[i] = s[i]
    BY AppendProperties
  <2>2. DOMAIN b = 1..n /\ DOMAIN s = 1..Len(s) /\ 1..n = 1..Len(s) \cup {n}
    BY <2>1
  <2>3. /\ v \in CallMaps /\ DOMAIN v = {s[j].index : j \in DOMAIN s}
        /\ w = TakeDelta(v, d)
    BY <1>2, CollectedAppend
  <2>4. \A index \in Nat : CallOf(v, index) = [id |-> SpokenId(s, index), args |-> Spoken(s, index)]
    BY <1>2
  <2> HIDE DEF b, n, v, w
  <2>5. /\ w \in CallMaps
        /\ DOMAIN w = DOMAIN v \cup {d.index}
        /\ \A i \in DOMAIN v : i # d.index => w[i] = v[i]
        /\ w[d.index] = [id |-> IF d.id # NoId THEN d.id ELSE CallOf(v, d.index).id,
                         args |-> CallOf(v, d.index).args \o d.args]
    BY <2>3, TakeDeltaType
  <2>6. DOMAIN w = {b[j].index : j \in DOMAIN b}
    <3>1. {b[j].index : j \in DOMAIN b} = {s[j].index : j \in DOMAIN s} \cup {d.index}
      BY <2>1, <2>2
    <3> QED BY <2>3, <2>5, <3>1
  <2>7. ASSUME NEW index \in Nat
        PROVE  CallOf(w, index) = [id |-> SpokenId(b, index), args |-> Spoken(b, index)]
    <3>1. /\ Spoken(s, index) \in Args
          /\ Spoken(b, index) = Spoken(s, index) \o PieceFor(d, index)
      BY SpokenMore DEF b
    <3>2. SpokenId(b, index) = IF d.index = index /\ d.id # NoId THEN d.id ELSE SpokenId(s, index)
      BY SpokenIdMore DEF b
    <3>3. CallOf(v, index).id = SpokenId(s, index) /\ CallOf(v, index).args = Spoken(s, index)
      BY <2>4
    <3>4. CASE d.index = index
      <4>1. CallOf(w, index) = [id |-> IF d.id # NoId THEN d.id ELSE SpokenId(s, index),
                                args |-> Spoken(s, index) \o d.args]
        BY <2>5, <3>3, <3>4 DEF CallOf
      <4> QED BY <3>1, <3>2, <3>4, <4>1 DEF PieceFor
    <3>5. CASE d.index # index
      <4>1. CallOf(w, index) = CallOf(v, index)
        BY <2>5, <3>5 DEF CallOf
      <4>2. Spoken(b, index) = Spoken(s, index)
        BY <3>1, <3>5, ConcatEmptySeq DEF PieceFor, Args
      <4> QED BY <2>4, <3>2, <3>5, <4>1, <4>2
    <3> QED BY <3>4, <3>5
  <2> QED BY <2>1, <2>5, <2>6, <2>7 DEF b, w
<1> HIDE DEF T
<1>3. deltas \in T
  BY <1>1, <1>2, SeqSetInduction
<1> QED BY <1>3 DEF T

\* The indices of the calls the model gave an id.
SpokenIndices(deltas) ==
  {i \in {deltas[j].index : j \in DOMAIN deltas} : SpokenId(deltas, i) # NoId}

\* The indices of a stream are a finite set of numbers.
LEMMA IndicesFinite ==
  ASSUME NEW deltas \in Seq(Delta)
  PROVE  /\ {deltas[j].index : j \in DOMAIN deltas} \in SUBSET Nat
         /\ IsFiniteSet({deltas[j].index : j \in DOMAIN deltas})
         /\ SpokenIndices(deltas) \in SUBSET Nat
         /\ IsFiniteSet(SpokenIndices(deltas))
<1> DEFINE n == Len(deltas)
           I == {deltas[j].index : j \in DOMAIN deltas}
           f == [j \in 1..n |-> deltas[j].index]
<1>1. n \in Nat /\ DOMAIN deltas = 1..n /\ \A j \in 1..n : deltas[j] \in Delta
  OBVIOUS
<1>2. I \in SUBSET Nat
  BY <1>1 DEF Delta
<1>3. I = {deltas[j].index : j \in 1..n}
  BY <1>1
<1>4. f \in Surjection(1..n, I)
  <2>1. f \in [1..n -> I]
    BY <1>3
  <2>2. \A x \in I : \E j \in 1..n : f[j] = x
    BY <1>3
  <2> QED BY <2>1, <2>2 DEF Surjection
<1> HIDE DEF f, I, n
<1>5. IsFiniteSet(1..n)
  BY <1>1, FS_Interval
<1>6. IsFiniteSet(I)
  BY <1>4, <1>5, FS_Surjection
<1>7. SpokenIndices(deltas) \in SUBSET I
  BY DEF SpokenIndices, I
<1>8. IsFiniteSet(SpokenIndices(deltas))
  BY <1>6, <1>7, FS_Subset
<1> QED BY <1>2, <1>6, <1>7, <1>8 DEF I

\* What mergeStreamToolCalls makes of a stream: the calls that were given an
\* id, in the order of their indices and with all that was said.
LEMMA MergedIsSpoken ==
  ASSUME NEW deltas \in Seq(Delta)
  PROVE  /\ MergeDeltas(deltas) \in Seq(Call)
         /\ WithId(MergeDeltas(deltas)) = MergeDeltas(deltas)
         /\ Len(MergeDeltas(deltas)) = Len(Sorted(SpokenIndices(deltas)))
         /\ \A k \in 1..Len(MergeDeltas(deltas)) :
              /\ MergeDeltas(deltas)[k].id = SpokenId(deltas, Sorted(SpokenIndices(deltas))[k])
              /\ MergeDeltas(deltas)[k].args = Spoken(deltas, Sorted(SpokenIndices(deltas))[k])
<1> DEFINE v == Collected(deltas)
           I == {deltas[j].index : j \in DOMAIN deltas}
           R == SpokenIndices(deltas)
           order == Sorted(DOMAIN v)
           all == [k \in DOMAIN order |-> v[order[k]]]
           w == WithId(all)
<1>1. /\ v \in CallMaps /\ DOMAIN v = I
      /\ \A index \in Nat :
           CallOf(v, index) = [id |-> SpokenId(deltas, index), args |-> Spoken(deltas, index)]
  BY CollectedIsSpoken
<1>2. I \in SUBSET Nat /\ IsFiniteSet(I) /\ R \in SUBSET Nat /\ IsFiniteSet(R)
  BY IndicesFinite
<1>3. MergeDeltas(deltas) = w
  BY DEF MergeDeltas, Collected
<1>4. R = {i \in I : SpokenId(deltas, i) # NoId}
  BY DEF SpokenIndices
<1> HIDE DEF v, I, R, order, w
<1>5. Lists(order, I)
  BY <1>1, <1>2, SortedLists DEF order
<1>6. /\ order \in Seq(I) /\ DOMAIN order = 1..Len(order) /\ Len(order) \in Nat
      /\ \A i \in 1..Len(order) : order[i] \in I
  <2>1. order \in Seq(I)
    BY <1>5 DEF Lists
  <2> QED BY ONLY <2>1, ElementOfSeq, LenProperties
<1>7. \A i \in I : /\ v[i] \in Call /\ i \in Nat
                   /\ v[i].id = SpokenId(deltas, i) /\ v[i].args = Spoken(deltas, i)
  <2>1. PICK D \in SUBSET Nat : v \in [D -> Call]
    BY <1>1 DEF CallMaps
  <2>2. ASSUME NEW i \in I PROVE v[i].id = SpokenId(deltas, i) /\ v[i].args = Spoken(deltas, i)
    <3>1. i \in Nat /\ CallOf(v, i) = v[i]
      BY <1>1, <1>2 DEF CallOf
    <3>2. v[i] = [id |-> SpokenId(deltas, i), args |-> Spoken(deltas, i)]
      BY <1>1, <3>1
    <3> QED BY <3>2
  <2> QED BY <1>1, <1>2, <2>1, <2>2
<1>8. all \in Seq(Call) /\ Len(all) = Len(order) /\ \A k \in 1..Len(all) : all[k] = v[order[k]]
  <2> DEFINE u == [k \in 1..Len(order) |-> v[order[k]]]
  <2>1. \A k \in 1..Len(order) : v[order[k]] \in Call
    BY <1>6, <1>7
  <2>2. u \in Seq(Call) /\ Len(u) = Len(order) /\ \A k \in 1..Len(u) : u[k] = v[order[k]]
    BY <1>6, <2>1
  <2>3. all = u
    BY <1>6
  <2> HIDE DEF all, u
  <2> QED BY <2>2, <2>3
<1> HIDE DEF all
<1>9. w \in Seq(Call) /\ WithId(w) = w
  BY <1>8, WithIdKeeps, WithIdOnce DEF w
<1>10. PICK h : Keeps(h, w, all)
  BY <1>8, WithIdKeeps DEF w
<1>11. /\ h \in Seq(Identified(all)) /\ Len(h) = Len(w) /\ Len(h) \in Nat
       /\ Increasing(h)
       /\ \A x \in Identified(all) : \E k \in 1..Len(h) : h[k] = x
       /\ \A k \in 1..Len(h) : w[k] = all[h[k]]
  <2>1. Lists(h, Identified(all)) /\ Len(h) = Len(w) /\ \A k \in 1..Len(h) : w[k] = all[h[k]]
    BY <1>10 DEF Keeps
  <2>2. h \in Seq(Identified(all))
    BY <2>1 DEF Lists
  <2>3. Len(h) \in Nat
    BY ONLY <2>2, LenProperties
  <2> QED BY <2>1, <2>2, <2>3 DEF Lists
<1>12. \A k \in 1..Len(h) : /\ h[k] \in 1..Len(order) /\ h[k] \in Identified(all)
                            /\ order[h[k]] \in R
  <2>1. \A k \in 1..Len(h) : h[k] \in Identified(all)
    BY ONLY <1>11, ElementOfSeq
  <2>2. ASSUME NEW i \in Identified(all) PROVE i \in 1..Len(order) /\ order[i] \in R
    <3>1. i \in 1..Len(order) /\ v[order[i]].id # NoId
      BY <1>8 DEF Identified
    <3> QED BY <1>4, <1>6, <1>7, <3>1
  <2> QED BY <2>1, <2>2
<1> DEFINE g == [k \in 1..Len(h) |-> order[h[k]]]
<1>13. g \in Seq(R) /\ Len(g) = Len(h) /\ \A k \in 1..Len(h) : g[k] = order[h[k]]
  BY <1>11, <1>12
<1> HIDE DEF g
<1>14. Lists(g, R)
  <2>1. ASSUME NEW i \in 1..Len(g), NEW j \in 1..Len(g), i < j PROVE g[i] < g[j]
    <3>1. h[i] < h[j]
      BY <1>11, <1>13, <2>1 DEF Increasing
    <3>2. h[i] \in 1..Len(order) /\ h[j] \in 1..Len(order)
      BY <1>12, <1>13
    <3>3. order[h[i]] < order[h[j]]
      BY <1>5, <3>1, <3>2 DEF Lists, Increasing
    <3> QED BY <1>13, <3>3
  <2>2. ASSUME NEW x \in R PROVE \E k \in 1..Len(g) : g[k] = x
    <3>1. x \in I /\ SpokenId(deltas, x) # NoId
      BY <1>4
    <3>2. PICK i \in 1..Len(order) : order[i] = x
      BY <1>5, <3>1 DEF Lists
    <3>3. i \in Identified(all)
      BY <1>7, <1>8, <3>1, <3>2 DEF Identified
    <3>4. PICK k \in 1..Len(h) : h[k] = i
      BY <1>11, <3>3
    <3> QED BY <1>13, <3>2, <3>4
  <2> QED BY <1>13, <2>1, <2>2 DEF Lists, Increasing
<1>15. g = Sorted(R)
  BY <1>2, <1>14, SortedLists, ListIsUnique
<1>16. ASSUME NEW k \in 1..Len(w)
       PROVE  w[k].id = SpokenId(deltas, g[k]) /\ w[k].args = Spoken(deltas, g[k])
  <2>1. k \in 1..Len(h) /\ g[k] = order[h[k]] /\ h[k] \in 1..Len(order)
    BY <1>11, <1>12, <1>13
  <2>2. w[k] = v[g[k]] /\ g[k] \in I
    BY <1>6, <1>8, <1>11, <2>1
  <2> QED BY <1>7, <2>2
<1> QED BY <1>3, <1>9, <1>11, <1>13, <1>15, <1>16 DEF R

\* Results, and messages.
Roles == STRING \cup {"assistant", "tool"}

\* What a message says of a result.
Contents == Seq(STRING \cup {"missing"})

\* A result in a file, which is never by chance the placeholder.
Row == [id : Ids, content : Args \ {Missing}]

\* A message of a request.
Msg == [role : Roles, calls : Seq(Call), answers : Ids, content : Contents]

\* The results a turn has.
RowsOf(turn) == IF turn.rows = {} THEN <<>> ELSE CHOOSE r \in turn.rows : TRUE

\* What a call is answered with.
AnswerTo(turn, id) ==
  IF RowFor(RowsOf(turn), id) = {} THEN Missing
  ELSE CHOOSE c \in RowFor(RowsOf(turn), id) : TRUE

\* The calls and results of a turn.
LEMMA TurnParts ==
  ASSUME NEW t, TurnIsSane(t)
  PROVE  CallsOf(t) \in Seq(Call) /\ RowsOf(t) \in Seq(Row)
<1>1. t.calls \subseteq Seq(Call) /\ t.rows \subseteq Seq(Row)
  BY DEF TurnIsSane, Call, Row, Ids, Args
<1>2. CallsOf(t) \in Seq(Call)
  <2>1. CASE t.calls = {}
    BY <2>1 DEF CallsOf
  <2>2. CASE t.calls # {}
    <3> DEFINE c == CHOOSE c \in t.calls : TRUE
    <3>1. c \in t.calls
      BY <2>2
    <3>2. CallsOf(t) = WithId(c)
      BY <2>2 DEF CallsOf, ReadCalls
    <3> HIDE DEF c
    <3> QED BY <1>1, <3>1, <3>2, WithIdKeeps
  <2> QED BY <2>1, <2>2
<1>3. RowsOf(t) \in Seq(Row)
  <2>1. <<>> \in Seq(Row)
    OBVIOUS
  <2>2. t.rows # {} => (CHOOSE r \in t.rows : TRUE) \in t.rows
    OBVIOUS
  <2> QED BY <1>1, <2>1, <2>2 DEF RowsOf
<1> QED BY <1>2, <1>3

\* An answer is a placeholder exactly when there is no result.
LEMMA AnswerToType ==
  ASSUME NEW t, TurnIsSane(t), NEW id
  PROVE  /\ AnswerTo(t, id) \in Contents
         /\ AnswerTo(t, id) = Missing <=> RowFor(RowsOf(t), id) = {}
<1> DEFINE rows == RowsOf(t)
           own == {i \in DOMAIN rows : rows[i].id = id}
           found == RowFor(rows, id)
<1>1. rows \in Seq(Row)
  BY TurnParts
<1>2. found = IF own = {} THEN {} ELSE {rows[Max(own)].content}
  BY DEF RowFor
<1> HIDE DEF rows
<1>3. Len(rows) \in Nat /\ own \in SUBSET (1..Len(rows))
  BY <1>1
<1>4. Missing \in Contents /\ Args \subseteq Contents
  <2>1. Missing \in Contents
    BY DEF Missing, Contents
  <2>2. Args \subseteq Contents
    BY SeqMonotonic DEF Args, Contents
  <2> QED BY <2>1, <2>2
<1>5. AnswerTo(t, id) = IF found = {} THEN Missing ELSE CHOOSE c \in found : TRUE
  BY DEF AnswerTo, rows
<1> HIDE DEF found, own
<1>6. CASE own = {}
  BY <1>2, <1>4, <1>5, <1>6 DEF found, rows
<1>7. CASE own # {}
  <2>1. Max(own) \in 1..Len(rows)
    BY <1>3, <1>7, MaxIn
  <2>2. rows[Max(own)] \in Row
    BY <1>1, <2>1, ElementOfSeq
  <2>3. rows[Max(own)].content \in Args \ {Missing}
    BY <2>2 DEF Row
  <2>4. AnswerTo(t, id) = rows[Max(own)].content /\ found # {}
    <3>1. found = {rows[Max(own)].content}
      BY <1>2, <1>7
    <3> QED BY <1>5, <3>1
  <2> QED BY <1>4, <2>3, <2>4 DEF found, rows
<1> QED BY <1>6, <1>7

\* A placeholder is reported, and nothing else is.
LEMMA AnswerReported ==
  ASSUME NEW t, TurnIsSane(t), NEW k \in 1..Len(CallsOf(t))
  PROVE  AnswerTo(t, CallsOf(t)[k].id) = Missing
           <=> \E d \in DiagnosticsOf(t) : d.id = CallsOf(t)[k].id
<1> DEFINE c == CallsOf(t)
           open == {j \in DOMAIN c : RowFor(RowsOf(t), c[j].id) = {}}
           reason == IF t.rows = {} THEN "result_file_missing" ELSE "tool_call_id_missing"
<1>1. DOMAIN c = 1..Len(c)
  BY TurnParts
<1>2. DiagnosticsOf(t) = {[id |-> c[j].id, reason |-> reason] : j \in open}
  BY DEF DiagnosticsOf, RowsOf
<1> HIDE DEF c, reason
<1>3. AnswerTo(t, c[k].id) = Missing <=> RowFor(RowsOf(t), c[k].id) = {}
  BY AnswerToType
<1>4. (\E d \in DiagnosticsOf(t) : d.id = c[k].id) <=> \E j \in open : c[j].id = c[k].id
  <2> HIDE DEF open
  <2>1. ASSUME NEW d \in DiagnosticsOf(t), d.id = c[k].id PROVE \E j \in open : c[j].id = c[k].id
    <3>1. PICK j \in open : d = [id |-> c[j].id, reason |-> reason]
      BY <1>2
    <3>2. d.id = c[j].id
      BY <3>1
    <3> QED BY <2>1, <3>2
  <2>2. ASSUME NEW j \in open, c[j].id = c[k].id PROVE \E d \in DiagnosticsOf(t) : d.id = c[k].id
    <3> DEFINE d == [id |-> c[j].id, reason |-> reason]
    <3>1. d \in DiagnosticsOf(t) /\ d.id = c[j].id
      BY <1>2
    <3> QED BY <2>2, <3>1
  <2> QED BY <2>1, <2>2
<1>5. (\E j \in open : c[j].id = c[k].id) <=> RowFor(RowsOf(t), c[k].id) = {}
  BY <1>1 DEF c
<1> QED BY <1>3, <1>4, <1>5 DEF c

\* The three parts of a turn's messages.
PlainPart(turn) == [k \in DOMAIN turn.plain |-> Message(turn.plain[k])]

\* A message without calls is one.
LEMMA MessageType ==
  ASSUME NEW role \in Roles
  PROVE  /\ Message(role) \in Msg /\ Message(role).calls = <<>> /\ Message(role).role = role
         /\ \A calls \in Seq(Call) :
              /\ [Message(role) EXCEPT !.calls = calls] \in Msg
              /\ [Message(role) EXCEPT !.calls = calls].calls = calls
              /\ [Message(role) EXCEPT !.calls = calls].role = role
<1>1. NoId \in Ids /\ <<>> \in Seq(Call) /\ <<>> \in Contents
  BY DEF NoId, Ids, Contents
<1> QED BY <1>1 DEF Message, Msg

\* A tool message.
LEMMA ToolMessageType ==
  ASSUME NEW id \in Ids, NEW content \in Contents
  PROVE  /\ ToolMessage(id, content) \in Msg
         /\ ToolMessage(id, content).calls = <<>>
         /\ ToolMessage(id, content).role = "tool"
         /\ ToolMessage(id, content).answers = id
         /\ ToolMessage(id, content).content = content
<1>1. <<>> \in Seq(Call)
  OBVIOUS
<1>2. "tool" \in Roles
  BY DEF Roles
<1> QED BY <1>1, <1>2 DEF ToolMessage, Message, Msg

\* What the parts are.
LEMMA PartsOfMessages ==
  ASSUME NEW t, TurnIsSane(t)
  PROVE  LET c == CallsOf(t) p == PlainPart(t)
             a == AssistantPart(t, c) q == ToolPart(t, c)
         IN /\ p \in Seq(Msg) /\ a \in Seq(Msg) /\ q \in Seq(Msg)
            /\ \A k \in 1..Len(p) : p[k].calls = <<>> /\ p[k].role \in ToSet(t.plain)
            /\ Len(a) = 0 \/ (Len(a) = 1 /\ a[1].calls = c /\ a[1].role = "assistant")
            /\ c # <<>> => Len(a) = 1 /\ Len(q) = Len(c)
            /\ \A k \in 1..Len(q) : q[k].calls = <<>>
            /\ c # <<>> => \A k \in 1..Len(c) :
                 q[k].answers = c[k].id /\ q[k].content = AnswerTo(t, c[k].id)
            /\ HasResultsOfCalls(t) /\ c = <<>> => Len(q) = 0
<1> DEFINE c == CallsOf(t)
           rows == RowsOf(t)
           p == PlainPart(t)
           a == AssistantPart(t, c)
           q == ToolPart(t, c)
<1>1. c \in Seq(Call) /\ rows \in Seq(Row)
  BY TurnParts
<1>2. /\ p \in Seq(Msg)
      /\ \A k \in 1..Len(p) : p[k].calls = <<>> /\ p[k].role \in ToSet(t.plain)
  <2> DEFINE s == t.plain
             u == [k \in 1..Len(s) |-> Message(s[k])]
  <2>1. s \in Seq(STRING)
    BY DEF TurnIsSane
  <2>2. ToSet(s) = {s[i] : i \in DOMAIN s}
    BY DEF ToSet
  <2>3. p = [k \in DOMAIN s |-> Message(s[k])]
    BY DEF PlainPart
  <2> HIDE DEF s, p
  <2>4. DOMAIN s = 1..Len(s) /\ Len(s) \in Nat /\ \A k \in 1..Len(s) : s[k] \in Roles /\ s[k] \in ToSet(s)
    BY <2>1, <2>2 DEF Roles
  <2>5. \A k \in 1..Len(s) : Message(s[k]) \in Msg /\ Message(s[k]).calls = <<>> /\ Message(s[k]).role = s[k]
    BY <2>4, MessageType
  <2>6. u \in Seq(Msg) /\ Len(u) = Len(s) /\ \A k \in 1..Len(s) : u[k] = Message(s[k])
    BY <2>4, <2>5
  <2>7. p = u
    BY <2>3, <2>4
  <2> HIDE DEF u
  <2> QED BY <2>4, <2>5, <2>6, <2>7 DEF s
<1>3. /\ a \in Seq(Msg)
      /\ Len(a) = 0 \/ (Len(a) = 1 /\ a[1].calls = c /\ a[1].role = "assistant")
      /\ c # <<>> => Len(a) = 1
  <2> HIDE DEF c
  <2> DEFINE m == [Message("assistant") EXCEPT !.calls = c]
  <2>1. m \in Msg /\ m.calls = c /\ m.role = "assistant"
    <3>1. "assistant" \in Roles
      BY DEF Roles
    <3> QED BY <1>1, <3>1, MessageType
  <2>2. a = IF t.body \/ c # <<>> \/ t.extra THEN <<m>> ELSE <<>>
    BY DEF AssistantPart
  <2> HIDE DEF m, a
  <2>3. /\ <<m>> \in Seq(Msg) /\ Len(<<m>>) = 1 /\ <<m>>[1] = m
        /\ <<>> \in Seq(Msg) /\ Len(<<>>) = 0
    BY <2>1
  <2> QED BY <2>1, <2>2, <2>3
<1>4. CASE c # <<>>
  <2> DEFINE u == [k \in 1..Len(c) |-> ToolMessage(c[k].id, AnswerTo(t, c[k].id))]
  <2> HIDE DEF c
  <2>1. DOMAIN c = 1..Len(c) /\ Len(c) \in Nat /\ \A k \in 1..Len(c) : c[k].id \in Ids
    <3>1. DOMAIN c = 1..Len(c) /\ Len(c) \in Nat /\ \A k \in 1..Len(c) : c[k] \in Call
      BY ONLY <1>1, ElementOfSeq, LenProperties
    <3>2. \A x \in Call : x.id \in Ids
      BY DEF Call
    <3> QED BY <3>1, <3>2
  <2>2. q = [k \in DOMAIN c |-> ToolMessage(c[k].id, AnswerTo(t, c[k].id))]
    BY <1>4 DEF ToolPart, AnswerTo, RowsOf
  <2>3. q = u
    BY <2>1, <2>2
  <2>4. \A k \in 1..Len(c) : AnswerTo(t, c[k].id) \in Contents
    BY AnswerToType
  <2>5. \A k \in 1..Len(c) :
           LET w == ToolMessage(c[k].id, AnswerTo(t, c[k].id))
           IN /\ w \in Msg /\ w.calls = <<>> /\ w.answers = c[k].id
              /\ w.content = AnswerTo(t, c[k].id)
    BY <2>1, <2>4, ToolMessageType
  <2> HIDE DEF q
  <2>6. u \in Seq(Msg) /\ Len(u) = Len(c)
        /\ \A k \in 1..Len(c) : u[k] = ToolMessage(c[k].id, AnswerTo(t, c[k].id))
    BY <2>1, <2>5
  <2> HIDE DEF u
  <2>7. /\ q \in Seq(Msg) /\ Len(q) = Len(c)
        /\ \A k \in 1..Len(c) : /\ q[k].calls = <<>> /\ q[k].answers = c[k].id
                                /\ q[k].content = AnswerTo(t, c[k].id)
    BY <2>3, <2>5, <2>6
  <2> HIDE DEF a, p
  <2> QED BY <1>2, <1>3, <1>4, <2>7 DEF a, c, p, q
<1>5. CASE c = <<>>
  <2> DEFINE u == [k \in 1..Len(rows) |-> ToolMessage(rows[k].id, rows[k].content)]
  <2> HIDE DEF c
  <2>1. q = [k \in DOMAIN rows |-> ToolMessage(rows[k].id, rows[k].content)]
    BY <1>5 DEF ToolPart, RowsOf
  <2> HIDE DEF rows, q
  <2>2. DOMAIN rows = 1..Len(rows) /\ Len(rows) \in Nat
        /\ \A k \in 1..Len(rows) : rows[k].id \in Ids /\ rows[k].content \in Contents
    <3>1. DOMAIN rows = 1..Len(rows) /\ Len(rows) \in Nat /\ \A k \in 1..Len(rows) : rows[k] \in Row
      BY ONLY <1>1, ElementOfSeq, LenProperties
    <3>2. \A r \in Row : r.id \in Ids /\ r.content \in Contents
      <4>1. Args \subseteq Contents
        BY SeqMonotonic DEF Args, Contents
      <4>2. \A r \in Row : r.id \in Ids /\ r.content \in Args
        BY DEF Row
      <4> QED BY ONLY <4>1, <4>2
    <3> QED BY <3>1, <3>2
  <2>3. q = u
    BY <2>1, <2>2
  <2>4. \A k \in 1..Len(rows) :
           LET w == ToolMessage(rows[k].id, rows[k].content)
           IN w \in Msg /\ w.calls = <<>>
    BY <2>2, ToolMessageType
  <2>5. u \in Seq(Msg) /\ Len(u) = Len(rows)
        /\ \A k \in 1..Len(rows) : u[k] = ToolMessage(rows[k].id, rows[k].content)
    BY <2>2, <2>4
  <2> HIDE DEF u
  <2>6. q \in Seq(Msg) /\ Len(q) = Len(rows) /\ \A k \in 1..Len(q) : q[k].calls = <<>>
    BY <2>3, <2>4, <2>5
  <2>7. HasResultsOfCalls(t) => Len(q) = 0
    <3> SUFFICES ASSUME HasResultsOfCalls(t) PROVE Len(rows) = 0
      BY <2>6
    <3>1. t.rows \subseteq {<<>>}
      BY <1>5 DEF HasResultsOfCalls, c
    <3>2. rows = <<>>
      BY <3>1 DEF rows, RowsOf
    <3> QED BY <3>2
  <2> HIDE DEF a, p
  <2> QED BY <1>2, <1>3, <1>5, <2>6, <2>7 DEF a, c, p, q
<1> QED BY <1>4, <1>5

\* Calls are followed by their answers.
CallsAnswered(m, i, turn) ==
  m[i].calls # <<>> =>
    /\ m[i].calls = CallsOf(turn)
    /\ \A k \in 1..Len(CallsOf(turn)) :
         /\ i + k <= Len(m)
         /\ m[i + k].answers = CallsOf(turn)[k].id
         /\ m[i + k].content = AnswerTo(turn, CallsOf(turn)[k].id)

\* A result follows its call.
AnswerCalled(m, j) ==
  m[j].role = "tool" => \E i \in 1..(j - 1) : j <= i + Len(m[i].calls)

\* Within a turn calls and answers stay together.
LEMMA TurnTogether ==
  ASSUME NEW t, TurnIsSane(t)
  PROVE  /\ MessagesOf(t) \in Seq(Msg)
         /\ \A j \in 1..Len(MessagesOf(t)) :
              /\ CallsAnswered(MessagesOf(t), j, t)
              /\ HasResultsOfCalls(t) => AnswerCalled(MessagesOf(t), j)
<1> DEFINE c == CallsOf(t)
           p == PlainPart(t)
           a == AssistantPart(t, c)
           q == ToolPart(t, c)
           m == MessagesOf(t)
           P == Len(p)
           A == Len(a)
           Q == Len(q)
<1>1. /\ p \in Seq(Msg) /\ a \in Seq(Msg) /\ q \in Seq(Msg)
      /\ \A k \in 1..P : p[k].calls = <<>> /\ p[k].role \in ToSet(t.plain)
      /\ A = 0 \/ (A = 1 /\ a[1].calls = c /\ a[1].role = "assistant")
      /\ c # <<>> => A = 1 /\ Q = Len(c)
      /\ \A k \in 1..Q : q[k].calls = <<>>
      /\ c # <<>> => \A k \in 1..Len(c) :
           q[k].answers = c[k].id /\ q[k].content = AnswerTo(t, c[k].id)
      /\ HasResultsOfCalls(t) /\ c = <<>> => Q = 0
  BY PartsOfMessages
<1>2. m = (p \o a) \o q
  BY DEF MessagesOf, PlainPart
<1>3. Len(c) \in Nat
  <2>1. c \in Seq(Call)
    BY TurnParts
  <2> QED BY <2>1, LenProperties
<1> HIDE DEF c, p, a, q, m
<1>4. P \in Nat /\ A \in Nat /\ Q \in Nat
  BY <1>1
<1>5. /\ p \o a \in Seq(Msg) /\ Len(p \o a) = P + A
      /\ \A i \in 1 .. P + A : (p \o a)[i] = IF i <= P THEN p[i] ELSE a[i - P]
  BY <1>1, ConcatProperties
<1>6. /\ m \in Seq(Msg) /\ Len(m) = (P + A) + Q
      /\ \A i \in 1 .. (P + A) + Q :
           m[i] = IF i <= P + A THEN (p \o a)[i] ELSE q[i - (P + A)]
  BY <1>1, <1>2, <1>5, ConcatProperties
<1> HIDE DEF P, A, Q
<1>7. \A i \in 1..P : i \in 1..Len(m) /\ m[i] = p[i]
  <2> TAKE i \in 1..P
  <2>1. i \in 1 .. P + A /\ i \in 1 .. (P + A) + Q /\ i <= P + A /\ i <= P
    BY <1>4
  <2> QED BY <1>5, <1>6, <2>1
<1>8. A = 1 => P + 1 \in 1..Len(m) /\ m[P + 1] = a[1]
  <2> SUFFICES ASSUME A = 1 PROVE P + 1 \in 1..Len(m) /\ m[P + 1] = a[1]
    OBVIOUS
  <2>1. /\ P + 1 \in 1 .. P + A /\ P + 1 \in 1 .. (P + A) + Q /\ P + 1 <= P + A
        /\ ~(P + 1 <= P) /\ (P + 1) - P = 1
    BY <1>4
  <2> QED BY <1>5, <1>6, <2>1
<1>9. \A k \in 1..Q : (P + A) + k \in 1..Len(m) /\ m[(P + A) + k] = q[k]
  <2> TAKE k \in 1..Q
  <2>1. /\ (P + A) + k \in 1 .. (P + A) + Q /\ ~((P + A) + k <= P + A)
        /\ ((P + A) + k) - (P + A) = k
    BY <1>4
  <2> QED BY <1>6, <2>1
<1>10. ASSUME NEW j \in 1..Len(m)
       PROVE  CallsAnswered(m, j, t) /\ (HasResultsOfCalls(t) => AnswerCalled(m, j))
  <2>1. CASE j <= P
    <3>1. j \in 1..P
      BY <1>4, <1>6, <2>1
    <3>2. m[j].calls = <<>> /\ m[j].role \in ToSet(t.plain)
      BY <1>1, <1>7, <3>1 DEF P
    <3> QED BY <3>2 DEF CallsAnswered, AnswerCalled, HasResultsOfCalls
  <2>2. CASE ~(j <= P) /\ j <= P + A
    <3>0. A = 0 \/ A = 1
      BY <1>1 DEF A
    <3>1. A = 1 /\ j = P + 1
      BY <1>4, <1>6, <2>2, <3>0
    <3>2. m[j].calls = c /\ m[j].role = "assistant"
      BY <1>1, <1>8, <3>1 DEF A
    <3>3. ASSUME c # <<>>, NEW k \in 1..Len(c)
          PROVE  j + k <= Len(m) /\ m[j + k].answers = c[k].id
                 /\ m[j + k].content = AnswerTo(t, c[k].id)
      <4>1. k \in 1..Q
        BY <1>1, <3>3 DEF Q
      <4>2. (P + A) + k = j + k /\ (P + A) + k \in 1..Len(m) /\ m[(P + A) + k] = q[k]
        BY <1>4, <1>9, <3>1, <4>1
      <4>3. q[k].answers = c[k].id /\ q[k].content = AnswerTo(t, c[k].id)
        BY <1>1, <3>3
      <4>4. j + k \in 1..Len(m)
        BY <4>2
      <4>5. j + k <= Len(m)
        BY <4>4
      <4> QED BY <4>2, <4>3, <4>5
    <3> QED BY <3>2, <3>3 DEF CallsAnswered, AnswerCalled, c
  <2>3. CASE ~(j <= P + A)
    <3> DEFINE k == j - (P + A)
    <3>1. k \in 1..Q /\ (P + A) + k = j
      BY <1>4, <1>6, <2>3
    <3>2. m[j].calls = <<>>
      BY <1>1, <1>9, <3>1 DEF Q
    <3>3. ASSUME HasResultsOfCalls(t) PROVE \E i \in 1..(j - 1) : j <= i + Len(m[i].calls)
      <4>1. c # <<>>
        <5>1. Q # 0
          BY <1>4, <3>1
        <5> QED BY <1>1, <3>3, <5>1 DEF Q
      <4>2. A = 1 /\ Q = Len(c)
        BY <1>1, <4>1 DEF A, Q
      <4>3. m[P + 1].calls = c
        BY <1>1, <1>8, <4>2 DEF A
      <4>4. P + 1 \in 1..(j - 1) /\ j <= (P + 1) + Len(c)
        BY <1>3, <1>4, <3>1, <4>2
      <4> QED BY <4>3, <4>4
    <3> QED BY <3>2, <3>3 DEF CallsAnswered, AnswerCalled
  <2> QED BY <2>1, <2>2, <2>3
<1> QED BY <1>6, <1>10 DEF m

\* The layers of a conversation.
LayersAreSane(layers) ==
  /\ \A t \in Turns(layers) : TurnIsSane(t)
  /\ layers \in Seq(ToSet(layers))
  /\ \A l \in DOMAIN layers :
        IsFiniteSet(DOMAIN layers[l]) /\ DOMAIN layers[l] \subseteq Nat

\* The messages of a layer.
LayerMessages(layer) ==
  LET order == Sorted(DOMAIN layer)
  IN FlattenSeq([k \in DOMAIN order |-> MessagesOf(layer[order[k]])])

\* Every message of a layer lies among those of its turn.
LEMMA LayerFinds ==
  ASSUME NEW layer, IsFiniteSet(DOMAIN layer), DOMAIN layer \subseteq Nat,
         \A i \in DOMAIN layer : TurnIsSane(layer[i])
  PROVE  /\ LayerMessages(layer) \in Seq(Msg)
         /\ \A i \in 1..Len(LayerMessages(layer)) :
              \E n \in DOMAIN layer, o \in Nat :
                 /\ PlacedAt(LayerMessages(layer), MessagesOf(layer[n]), o)
                 /\ i - o \in 1..Len(MessagesOf(layer[n]))
<1> DEFINE D == DOMAIN layer
           order == Sorted(D)
           parts == [k \in DOMAIN order |-> MessagesOf(layer[order[k]])]
           w == FlattenSeq(parts)
<1>1. LayerMessages(layer) = w
  BY DEF LayerMessages
<1>2. Lists(order, D)
  BY SortedLists
<1> HIDE DEF order, w
<1>3. order \in Seq(D)
  BY <1>2 DEF Lists
<1> HIDE DEF D
<1>4. DOMAIN order = 1..Len(order) /\ Len(order) \in Nat /\ \A k \in 1..Len(order) : order[k] \in D
  BY ONLY <1>3, ElementOfSeq, LenProperties
<1>5. \A n \in D : MessagesOf(layer[n]) \in Seq(Msg)
  BY TurnTogether DEF D
<1>6. /\ parts \in Seq(Seq(Msg)) /\ Len(parts) = Len(order)
      /\ \A k \in 1..Len(parts) : parts[k] = MessagesOf(layer[order[k]])
  <2> DEFINE u == [k \in 1..Len(order) |-> MessagesOf(layer[order[k]])]
  <2>1. \A k \in 1..Len(order) : MessagesOf(layer[order[k]]) \in Seq(Msg)
    BY <1>4, <1>5
  <2>2. /\ u \in Seq(Seq(Msg)) /\ Len(u) = Len(order)
        /\ \A k \in 1..Len(u) : u[k] = MessagesOf(layer[order[k]])
    BY <1>4, <2>1
  <2>3. parts = u
    BY <1>4
  <2> HIDE DEF parts, u
  <2> QED BY <2>2, <2>3
<1> HIDE DEF parts
<1>7. /\ w \in Seq(Msg)
      /\ \A i \in 1..Len(w) : \E k \in 1..Len(parts), o \in Nat :
            PlacedAt(w, parts[k], o) /\ i - o \in 1..Len(parts[k])
  BY <1>6, FlattenFinds DEF w
<1>8. ASSUME NEW i \in 1..Len(w)
      PROVE  \E n \in D, o \in Nat : /\ PlacedAt(w, MessagesOf(layer[n]), o)
                                     /\ i - o \in 1..Len(MessagesOf(layer[n]))
  <2>1. PICK k \in 1..Len(parts), o \in Nat : PlacedAt(w, parts[k], o) /\ i - o \in 1..Len(parts[k])
    BY <1>7
  <2>2. parts[k] = MessagesOf(layer[order[k]]) /\ order[k] \in D
    BY <1>4, <1>6
  <2> QED BY <2>1, <2>2
<1> QED BY <1>1, <1>7, <1>8 DEF D

\* Every message of a request lies among those of its turn.
LEMMA BuildFinds ==
  ASSUME NEW layers, LayersAreSane(layers)
  PROVE  /\ BuildMessages(layers) \in Seq(Msg)
         /\ \A i \in 1..Len(BuildMessages(layers)) :
              \E t \in Turns(layers), o \in Nat :
                 /\ PlacedAt(BuildMessages(layers), MessagesOf(t), o)
                 /\ i - o \in 1..Len(MessagesOf(t))
<1> DEFINE parts == [l \in DOMAIN layers |-> LayerMessages(layers[l])]
           w == FlattenSeq(parts)
<1>1. BuildMessages(layers) = w
  BY DEF BuildMessages, LayerMessages
<1>2. layers \in Seq(ToSet(layers))
  BY DEF LayersAreSane
<1>3. DOMAIN layers = 1..Len(layers) /\ Len(layers) \in Nat
  BY ONLY <1>2, LenProperties
<1>4. ASSUME NEW l \in DOMAIN layers
      PROVE  /\ IsFiniteSet(DOMAIN layers[l]) /\ DOMAIN layers[l] \subseteq Nat
             /\ \A n \in DOMAIN layers[l] : layers[l][n] \in Turns(layers) /\ TurnIsSane(layers[l][n])
  <2>1. \A n \in DOMAIN layers[l] : layers[l][n] \in Turns(layers)
    BY DEF Turns
  <2> QED BY <2>1 DEF LayersAreSane
<1> HIDE DEF w
<1>5. \A l \in 1..Len(layers) :
        /\ LayerMessages(layers[l]) \in Seq(Msg)
        /\ \A i \in 1..Len(LayerMessages(layers[l])) :
             \E n \in DOMAIN layers[l], o \in Nat :
                /\ PlacedAt(LayerMessages(layers[l]), MessagesOf(layers[l][n]), o)
                /\ i - o \in 1..Len(MessagesOf(layers[l][n]))
  <2> TAKE l \in 1..Len(layers)
  <2>1. /\ IsFiniteSet(DOMAIN layers[l]) /\ DOMAIN layers[l] \subseteq Nat
        /\ \A n \in DOMAIN layers[l] : TurnIsSane(layers[l][n])
    BY <1>3, <1>4
  <2> QED BY ONLY <2>1, LayerFinds
<1>6. /\ parts \in Seq(Seq(Msg)) /\ Len(parts) = Len(layers)
      /\ \A l \in 1..Len(parts) : parts[l] = LayerMessages(layers[l])
  <2> DEFINE u == [l \in 1..Len(layers) |-> LayerMessages(layers[l])]
  <2>1. \A l \in 1..Len(layers) : LayerMessages(layers[l]) \in Seq(Msg)
    BY <1>5
  <2>2. /\ u \in Seq(Seq(Msg)) /\ Len(u) = Len(layers)
        /\ \A l \in 1..Len(u) : u[l] = LayerMessages(layers[l])
    BY <1>3, <2>1
  <2>3. parts = u
    BY <1>3
  <2> HIDE DEF parts, u
  <2> QED BY <2>2, <2>3
<1> HIDE DEF parts
<1>7. /\ w \in Seq(Msg)
      /\ \A i \in 1..Len(w) : \E l \in 1..Len(parts), o \in Nat :
            PlacedAt(w, parts[l], o) /\ i - o \in 1..Len(parts[l])
  BY <1>6, FlattenFinds DEF w
<1>8. ASSUME NEW i \in 1..Len(w)
      PROVE  \E t \in Turns(layers), o \in Nat :
                PlacedAt(w, MessagesOf(t), o) /\ i - o \in 1..Len(MessagesOf(t))
  <2>1. PICK l \in 1..Len(parts), o \in Nat : PlacedAt(w, parts[l], o) /\ i - o \in 1..Len(parts[l])
    BY <1>7
  <2> DEFINE m == LayerMessages(layers[l])
  <2>2. l \in 1..Len(layers) /\ l \in DOMAIN layers /\ parts[l] = m
    BY <1>3, <1>6
  <2> HIDE DEF m
  <2>3. PICK n \in DOMAIN layers[l], q \in Nat :
           /\ PlacedAt(m, MessagesOf(layers[l][n]), q)
           /\ (i - o) - q \in 1..Len(MessagesOf(layers[l][n]))
    BY <1>5, <2>1, <2>2 DEF m
  <2> DEFINE t == layers[l][n]
  <2>4. t \in Turns(layers) /\ MessagesOf(t) \in Seq(Msg) /\ m \in Seq(Msg)
    BY <1>4, <1>5, <2>2, TurnTogether DEF m
  <2> HIDE DEF t
  <2>5. PlacedAt(w, MessagesOf(t), o + q)
    <3>1. PlacedAt(w, m, o) /\ PlacedAt(m, MessagesOf(t), q)
      BY <2>1, <2>2, <2>3 DEF t
    <3> QED BY <1>7, <2>4, <3>1, PlacedWithin
  <2>6. i - (o + q) \in 1..Len(MessagesOf(t)) /\ o + q \in Nat
    <3>1. (i - o) - q = i - (o + q) /\ o + q \in Nat
      OBVIOUS
    <3> QED BY <2>3, <3>1 DEF t
  <2> QED BY <2>4, <2>5, <2>6
<1> QED BY <1>1, <1>7, <1>8

\* The turn of an answer has the calls of its stream.
LEMMA TurnOfAnswer ==
  ASSUME NEW a, AnswerIsSane(a)
  PROVE  a.deltas \in Seq(Delta) /\ CallsOf(a.turn) = MergeDeltas(a.deltas)
<1> DEFINE m == MergeDeltas(a.deltas)
<1>1. a.deltas \in Seq(Delta)
  BY DEF AnswerIsSane, Delta, Ids, Args
<1>2. a.turn.calls = IF m = <<>> THEN {} ELSE {m}
  BY DEF AnswerIsSane, TurnOf
<1>3. WithId(m) = m
  BY <1>1, MergedIsSpoken
<1> HIDE DEF m
<1>4. (CHOOSE c \in {m} : TRUE) = m
  OBVIOUS
<1>5. CallsOf(a.turn) = m
  BY <1>2, <1>3, <1>4 DEF CallsOf, ReadCalls
<1> QED BY <1>1, <1>5 DEF m

\* Where a turn lies its calls are followed by their answers.
LEMMA RequestTogether ==
  ASSUME NEW layers, LayersAreSane(layers), NEW i \in 1..Len(BuildMessages(layers))
  PROVE  /\ \E t \in Turns(layers) : CallsAnswered(BuildMessages(layers), i, t)
         /\ (\A t \in Turns(layers) : HasResultsOfCalls(t)) => AnswerCalled(BuildMessages(layers), i)
<1> DEFINE w == BuildMessages(layers)
<1>1. w \in Seq(Msg)
  BY BuildFinds
<1>2. PICK t \in Turns(layers), o \in Nat :
         PlacedAt(w, MessagesOf(t), o) /\ i - o \in 1..Len(MessagesOf(t))
  BY BuildFinds
<1> DEFINE m == MessagesOf(t)
           j == i - o
<1>3. TurnIsSane(t)
  BY DEF LayersAreSane
<1>4. /\ m \in Seq(Msg) /\ CallsAnswered(m, j, t)
      /\ HasResultsOfCalls(t) => AnswerCalled(m, j)
  BY <1>2, <1>3, TurnTogether
<1>5. Len(CallsOf(t)) \in Nat
  BY <1>3, TurnParts
<1> HIDE DEF w, m
<1>6. Len(w) \in Nat /\ Len(m) \in Nat
  BY <1>1, <1>4
<1>7. /\ o + Len(m) <= Len(w)
      /\ \A k \in 1..Len(m) : w[o + k] = m[k]
  BY <1>2 DEF PlacedAt, m
<1>8. j \in 1..Len(m) /\ o + j = i /\ i \in Nat
  BY <1>2, <1>6 DEF m
<1>9. w[i] = m[j]
  BY <1>7, <1>8
<1> HIDE DEF j
<1>10. CallsAnswered(w, i, t)
  <2> SUFFICES ASSUME w[i].calls # <<>>
               PROVE  /\ w[i].calls = CallsOf(t)
                      /\ \A k \in 1..Len(CallsOf(t)) :
                           /\ i + k <= Len(w)
                           /\ w[i + k].answers = CallsOf(t)[k].id
                           /\ w[i + k].content = AnswerTo(t, CallsOf(t)[k].id)
    BY DEF CallsAnswered
  <2>1. /\ m[j].calls = CallsOf(t)
        /\ \A k \in 1..Len(CallsOf(t)) :
             /\ j + k <= Len(m)
             /\ m[j + k].answers = CallsOf(t)[k].id
             /\ m[j + k].content = AnswerTo(t, CallsOf(t)[k].id)
    BY <1>4, <1>9 DEF CallsAnswered
  <2>2. ASSUME NEW k \in 1..Len(CallsOf(t)) PROVE i + k <= Len(w) /\ w[i + k] = m[j + k]
    <3>1. j + k <= Len(m) /\ j \in Nat /\ k \in Nat /\ k >= 1
      BY <1>5, <1>8, <2>1
    <3>2. j + k \in 1..Len(m) /\ o + (j + k) = i + k
      <4>1. j >= 1 /\ o + j = i /\ j + k \in Nat
        BY <1>8, <3>1
      <4>2. j + k \in 1..Len(m)
        BY <1>6, <3>1, <4>1
      <4>3. o + (j + k) = (o + j) + k
        BY <3>1
      <4> QED BY <4>1, <4>2, <4>3
    <3>3. w[o + (j + k)] = m[j + k]
      BY <1>7, <3>2
    <3> QED BY <1>6, <1>7, <1>8, <3>1, <3>2, <3>3
  <2> QED BY <1>9, <2>1, <2>2
<1>11. ASSUME AnswerCalled(m, j) PROVE AnswerCalled(w, i)
  <2> SUFFICES ASSUME w[i].role = "tool" PROVE \E x \in 1..(i - 1) : i <= x + Len(w[x].calls)
    BY DEF AnswerCalled
  <2>1. PICK y \in 1..(j - 1) : j <= y + Len(m[y].calls)
    BY <1>9, <1>11 DEF AnswerCalled
  <2>2. y \in 1..Len(m) /\ o + y \in 1..(i - 1)
    BY <1>6, <1>8
  <2>3. w[o + y] = m[y]
    BY <1>7, <2>2
  <2>4. Len(m[y].calls) \in Nat
    <3>1. m[y] \in Msg
      BY <1>4, <2>2, ElementOfSeq DEF m
    <3>2. m[y].calls \in Seq(Call)
      BY <3>1 DEF Msg
    <3> QED BY <3>2
  <2>5. i <= (o + y) + Len(w[o + y].calls)
    <3>1. j \in Nat /\ y \in Nat /\ o + j = i
      BY <1>8
    <3> DEFINE n == Len(m[y].calls)
    <3>2. n \in Nat /\ j <= y + n /\ Len(w[o + y].calls) = n
      BY <2>1, <2>3, <2>4
    <3> HIDE DEF n
    <3>3. o + j <= (o + y) + n
      BY <3>1, <3>2
    <3> QED BY <3>1, <3>2, <3>3
  <2> QED BY <2>2, <2>5
<1> QED BY <1>4, <1>10, <1>11 DEF w, m

\* Whatever was streamed, and whatever results there are.
LEMMA EveryAnswerAnswersEveryCall ==
  ASSUME NEW a, AnswerIsSane(a)
  PROVE  AnswersEveryCall(a.layers, a.deltas, a.turn)
<1> DEFINE w == BuildMessages(a.layers)
           R == {i \in {a.deltas[j].index : j \in DOMAIN a.deltas} : SpokenId(a.deltas, i) # NoId}
           spoken == Sorted(R)
           calls == CallsOf(a.turn)
<1>1. a.deltas \in Seq(Delta) /\ calls = MergeDeltas(a.deltas)
  BY TurnOfAnswer
<1>2. LayersAreSane(a.layers)
  BY DEF LayersAreSane, AnswerIsSane
<1>3. R = SpokenIndices(a.deltas)
  BY DEF SpokenIndices
<1>4. /\ calls \in Seq(Call)
      /\ Len(calls) = Len(spoken)
      /\ \A k \in 1..Len(calls) :
           /\ calls[k].id = SpokenId(a.deltas, spoken[k])
           /\ calls[k].args = Spoken(a.deltas, spoken[k])
  <2> DEFINE M == MergeDeltas(a.deltas)
             U == Sorted(SpokenIndices(a.deltas))
  <2>1. /\ M \in Seq(Call) /\ Len(M) = Len(U)
        /\ \A k \in 1..Len(M) :
             /\ M[k].id = SpokenId(a.deltas, U[k])
             /\ M[k].args = Spoken(a.deltas, U[k])
    BY <1>1, MergedIsSpoken
  <2>2. calls = M /\ spoken = U
    BY <1>1, <1>3
  <2> HIDE DEF calls, M, U, spoken
  <2> QED BY <2>1, <2>2
<1>5. DOMAIN calls = 1..Len(calls)
  BY <1>4
<1>6. DOMAIN w = 1..Len(w)
  <2>1. w \in Seq(Msg)
    BY <1>2, BuildFinds
  <2> HIDE DEF w
  <2> QED BY <2>1
<1> HIDE DEF w, calls, spoken, R
<1>7. ASSUME NEW i \in 1..Len(w), w[i].calls # <<>>
      PROVE  \E t \in Turns(a.layers) :
                /\ w[i].calls = CallsOf(t)
                /\ \A k \in DOMAIN CallsOf(t) :
                      /\ i + k <= Len(w)
                      /\ w[i + k].answers = CallsOf(t)[k].id
                      /\ w[i + k].content = Missing <=>
                            \E d \in DiagnosticsOf(t) : d.id = CallsOf(t)[k].id
  <2>1. PICK t \in Turns(a.layers) : CallsAnswered(w, i, t)
    BY <1>2, RequestTogether DEF w
  <2>2. TurnIsSane(t)
    BY <1>2 DEF LayersAreSane
  <2>3. CallsOf(t) \in Seq(Call)
    BY <2>2, TurnParts
  <2>4. DOMAIN CallsOf(t) = 1..Len(CallsOf(t))
    BY ONLY <2>3, LenProperties
  <2>5. /\ w[i].calls = CallsOf(t)
        /\ \A k \in 1..Len(CallsOf(t)) :
             /\ i + k <= Len(w)
             /\ w[i + k].answers = CallsOf(t)[k].id
             /\ w[i + k].content = AnswerTo(t, CallsOf(t)[k].id)
    BY <1>7, <2>1 DEF CallsAnswered
  <2>6. \A k \in 1..Len(CallsOf(t)) :
           AnswerTo(t, CallsOf(t)[k].id) = Missing
             <=> \E d \in DiagnosticsOf(t) : d.id = CallsOf(t)[k].id
    BY <2>2, AnswerReported
  <2>7. \A k \in DOMAIN CallsOf(t) :
           /\ i + k <= Len(w)
           /\ w[i + k].answers = CallsOf(t)[k].id
           /\ w[i + k].content = Missing <=>
                 \E d \in DiagnosticsOf(t) : d.id = CallsOf(t)[k].id
    BY ONLY <2>4, <2>5, <2>6
  <2> QED BY <2>5, <2>7
<1>8. ASSUME \A t \in Turns(a.layers) : HasResultsOfCalls(t), NEW j \in 1..Len(w), w[j].role = "tool"
      PROVE  \E i \in 1..(j - 1) : j <= i + Len(w[i].calls)
  <2>1. AnswerCalled(w, j)
    BY <1>2, <1>8, RequestTogether DEF w
  <2> QED BY <1>8, <2>1 DEF AnswerCalled
<1> QED BY <1>4, <1>5, <1>6, <1>7, <1>8 DEF AnswersEveryCall, w, calls, spoken, R

\* Whatever a model streams, in whatever pieces, and whatever results its
\* executors leave, the next request has the calls as they were said, each
\* followed by its result or a placeholder that is reported, in every turn of
\* every layer (ai-client.ts:188-235, file-handler.ts:197-345).
THEOREM AnswersStayWithTheirCalls == AnyInput => []EveryCallHasItsAnswer
<1>1. NoInput => EveryCallHasItsAnswer
  BY DEF NoInput, Nothing, EveryCallHasItsAnswer
<1>2. EveryCallHasItsAnswer /\ [TakeInput]_input => EveryCallHasItsAnswer'
  <2> SUFFICES ASSUME EveryCallHasItsAnswer, [TakeInput]_input
               PROVE  EveryCallHasItsAnswer'
    OBVIOUS
  <2>1. CASE UNCHANGED input
    BY <2>1 DEF EveryCallHasItsAnswer
  <2>2. CASE TakeTranscript
    <3>1. PICK a \in Answers :
             input' = [of |-> "transcript", deltas |-> a.deltas, turn |-> a.turn,
                       layers |-> a.layers]
      BY <2>2 DEF TakeTranscript
    <3>2. AnswersEveryCall(a.layers, a.deltas, a.turn)
      BY AnswersAssumption, EveryAnswerAnswersEveryCall
    <3>3. input'.layers = a.layers /\ input'.deltas = a.deltas /\ input'.turn = a.turn
      BY <3>1
    <3> QED BY <3>2, <3>3 DEF EveryCallHasItsAnswer
  <2>3. CASE TakeRange \/ TakeTargets \/ TakeSession \/ TakeArchives
    BY <2>3 DEF TakeRange, TakeTargets, TakeSession, TakeArchives, EveryCallHasItsAnswer
  <2> QED BY <2>1, <2>2, <2>3 DEF TakeInput
<1> QED BY <1>1, <1>2, PTL DEF AnyInput

------------------------------------------------------------------------------
(* Searching archives: ArchiveSearch *)

\* Sorted has as many elements as there are numbers.
LEMMA SortedLength ==
  ASSUME NEW S \in SUBSET Nat, IsFiniteSet(S)
  PROVE  Len(Sorted(S)) = Cardinality(S)
<1> DEFINE n == Cardinality(S)
           Rises(q) == \A i, j \in DOMAIN q : i < j => q[i] < q[j]
<1>1. n \in Nat
  BY FS_CardinalityType
<1>2. Lists(Sorted(S), S)
  BY SortedLists
<1> DEFINE s == Sorted(S)
<1>3. s \in Seq(S) /\ Len(s) \in Nat /\ DOMAIN s = 1..Len(s)
  BY <1>2 DEF Lists
<1> HIDE DEF s
<1>4. s \in Bijection(1..Len(s), S)
  <2>1. s \in [1..Len(s) -> S]
    BY <1>3
  <2>2. \A x \in S : \E i \in 1..Len(s) : s[i] = x
    BY <1>2 DEF Lists, s
  <2>3. ASSUME NEW i \in 1..Len(s), NEW j \in 1..Len(s), s[i] = s[j] PROVE i = j
    <3>1. s[i] \in Nat /\ s[j] \in Nat
      BY <2>1
    <3>2. ~(i < j) /\ ~(j < i)
      BY <1>2, <2>3, <3>1 DEF Lists, Increasing, s
    <3> QED BY <1>3, <3>2
  <2> QED BY <1>3, <2>1, <2>2, <2>3 DEF Bijection, Injection, Surjection, IsInjective
<1>5. ExistsBijection(1..Len(s), S)
  BY <1>4 DEF ExistsBijection
<1>6. Cardinality(S) = Len(s)
  BY <1>3, <1>5, FS_CountingElements
<1> QED BY <1>6 DEF s

\* A file is what parseArtifact recognises.
SearchLine == [found : BOOLEAN, long : BOOLEAN, beyond : BOOLEAN]

\* A file that is searched.
FileIsSane(f) ==
  /\ f.turn \in Nat
  /\ f.kind \in {"message", "calls", "extra", "result"}
  /\ f.lines \in Seq(SearchLine)
  /\ \A i \in DOMAIN f.lines : f.lines[i].beyond => f.lines[i].long

\* Files have a rank.
LEMMA RankType ==
  ASSUME NEW f, FileIsSane(f)
  PROVE  Rank(f) \in 1..5
<1>1. \/ f.kind = "message" /\ f.role # "assistant"
      \/ f.kind = "message" /\ f.role = "assistant"
      \/ f.kind = "calls" \/ f.kind = "extra" \/ f.kind = "result"
  BY DEF FileIsSane
<1>2. CASE f.kind = "message" /\ f.role # "assistant"
  BY <1>2 DEF Rank
<1>3. CASE f.kind = "message" /\ f.role = "assistant"
  BY <1>3 DEF Rank
<1>4. CASE f.kind = "calls"
  BY <1>4 DEF Rank
<1>5. CASE f.kind = "extra"
  BY <1>5 DEF Rank
<1>6. CASE f.kind = "result"
  BY <1>6 DEF Rank
<1> QED BY <1>1, <1>2, <1>3, <1>4, <1>5, <1>6

\* s has every element of S once.
Enumerates(s, S) ==
  /\ s \in Seq(S)
  /\ \A i, j \in 1..Len(s) : s[i] = s[j] => i = j
  /\ \A x \in S : \E i \in 1..Len(s) : s[i] = x

\* The files of a turn can be put in the order of their ranks.
LEMMA RankedEnumerates ==
  ASSUME NEW F, IsFiniteSet(F), \A f \in F : FileIsSane(f)
  PROVE  Enumerates(ByRank(F), F)
<1> DEFINE Ranked(q, s) == /\ q \in [1..Cardinality(s) -> s]
                           /\ IsInjective(q)
                           /\ \A i, j \in DOMAIN q : i < j => Rank(q[i]) <= Rank(q[j])
           T == {s \in SUBSET F : \E q : Ranked(q, s)}
<1>1. ASSUME NEW s \in SUBSET F, \A r \in SUBSET s : r # s => r \in T
      PROVE  s \in T
  <2>1. IsFiniteSet(s)
    BY FS_Subset
  <2>2. CASE s = {}
    <3>1. Cardinality(s) = 0
      BY <2>2, FS_EmptySet
    <3>2. 1..Cardinality(s) = {}
      BY <3>1
    <3>3. Ranked([i \in {} |-> 0], s)
      BY <3>2 DEF IsInjective
    <3> QED BY <3>3
  <2>3. CASE s # {}
    <3> DEFINE ranks == {Rank(f) : f \in s}
    <3>1. ranks \in SUBSET (1..5) /\ ranks # {}
      BY <2>3, RankType
    <3>2. PICK top \in ranks : \A y \in ranks : y <= top
      <4>1. IsFiniteSet(ranks) /\ ranks \in SUBSET Nat
        <5>1. IsFiniteSet(1..5)
          <6>1. 1 \in Int /\ 5 \in Int
            OBVIOUS
          <6> QED BY ONLY <6>1, FS_Interval
        <5> QED BY <3>1, <5>1, FS_Subset
      <4> HIDE DEF ranks
      <4> QED BY <3>1, <4>1, MaxOfNumbers
    <3>3. PICK m \in s : Rank(m) = top
      OBVIOUS
    <3>4. \A f \in s : Rank(f) <= Rank(m) /\ Rank(f) \in Nat
      BY <3>1, <3>2, <3>3
    <3> DEFINE r == s \ {m}
               c == Cardinality(s)
    <3>5. Cardinality(r) = c - 1 /\ c \in Nat /\ Cardinality(r) \in Nat
      <4>1. IsFiniteSet(r) /\ Cardinality(r) = c - 1
        BY <2>1, FS_RemoveElement
      <4> QED BY <2>1, <4>1, FS_CardinalityType
    <3>6. PICK q : Ranked(q, r)
      BY <1>1
    <3> DEFINE u == [i \in 1..c |-> IF i = c THEN m ELSE q[i]]
    <3> HIDE DEF c, ranks
    <3>7. \A i \in 1..c : i # c => i \in 1..Cardinality(r)
      BY <3>5
    <3>8. DOMAIN q = 1..Cardinality(r) /\ \A i \in 1..Cardinality(r) : q[i] \in r
      BY <3>6
    <3>9. \A i \in 1..c : /\ i = c => u[i] = m
                          /\ i # c => u[i] = q[i] /\ u[i] \in r /\ i \in DOMAIN q
      BY <3>7, <3>8
    <3>10. \A i, j \in DOMAIN q : /\ q[i] = q[j] => i = j
                                  /\ i < j => Rank(q[i]) <= Rank(q[j])
      BY <3>6 DEF IsInjective
    <3>11. u \in [1..c -> s]
      BY <3>9
    <3> HIDE DEF u, r
    <3>12. ASSUME NEW i \in 1..c, NEW j \in 1..c
           PROVE  /\ u[i] = u[j] => i = j
                  /\ i < j => Rank(u[i]) <= Rank(u[j])
      <4>1. CASE i # c /\ j # c
        BY <3>9, <3>10, <4>1
      <4>2. CASE j = c
        <5>1. u[j] = m /\ Rank(u[i]) <= Rank(m)
          BY <3>4, <3>9, <3>11, <4>2
        <5>2. u[i] = m => i = c
          BY <3>9 DEF r
        <5> QED BY <4>2, <5>1, <5>2
      <4>3. CASE i = c /\ j # c
        <5>1. u[i] = m /\ u[j] # m
          BY <3>9, <4>3 DEF r
        <5>2. ~(i < j)
          BY <3>5, <4>3
        <5> QED BY <5>1, <5>2
      <4> QED BY <4>1, <4>2, <4>3
    <3>13. DOMAIN u = 1..c
      BY <3>11
    <3>14. Ranked(u, s)
      BY <3>11, <3>12, <3>13 DEF c, IsInjective
    <3> QED BY <3>14
  <2> QED BY <2>2, <2>3
<1> HIDE DEF T
<1>2. F \in T
  BY <1>1, SubsetInduction
<1> DEFINE n == Cardinality(F)
           q == ByRank(F)
<1>3. n \in Nat
  BY FS_CardinalityType
<1>4. q \in [1..n -> F] /\ IsInjective(q)
  BY <1>2 DEF T, ByRank
<1>5. q \in Seq(F) /\ Len(q) = n /\ DOMAIN q = 1..n
  BY <1>3, <1>4
<1> HIDE DEF n, q
<1>6. q \in Injection(1..n, F)
  BY <1>4 DEF Injection
<1>7. q \in Surjection(1..n, F)
  <2>1. Cardinality(1..n) = n
    BY <1>3, FS_Interval
  <2> QED BY <1>6, <2>1, FS_Injection DEF n
<1>8. \A x \in F : \E i \in 1..n : q[i] = x
  BY <1>7 DEF Surjection
<1> QED BY <1>4, <1>5, <1>8 DEF Enumerates, IsInjective, q

\* A group of a search: the files of a turn, each once.
GroupOf(g, F) ==
  /\ g.turn \in Nat
  /\ Enumerates(g.files, {f \in F : f.turn = g.turn})

\* The newest turn first.
GroupsOf(gs, F) ==
  /\ DOMAIN gs = 1..Len(gs)
  /\ gs \in Seq({g \in [turn : Nat, files : Seq(F)] : GroupOf(g, F)})
  /\ \A i, j \in 1..Len(gs) : i < j => gs[j].turn < gs[i].turn
  /\ \A f \in F : \E i \in 1..Len(gs) : gs[i].turn = f.turn

\* Every turn with a file that is searched is a group.
LEMMA GroupsInOrder ==
  ASSUME NEW F, IsFiniteSet(F), \A f \in F : FileIsSane(f)
  PROVE  GroupsOf(Groups(F), F)
<1> DEFINE turns == {f.turn : f \in F}
           up == Sorted(turns)
           n == Len(up)
           down == Reverse(up)
           gs == Groups(F)
<1>1. turns \in SUBSET Nat
  BY DEF FileIsSane
<1>2. IsFiniteSet(turns)
  <2> DEFINE h == [f \in F |-> f.turn]
  <2>1. h \in Surjection(F, turns)
    BY DEF Surjection
  <2> HIDE DEF h, turns
  <2> QED BY <2>1, FS_Surjection
<1>3. Lists(up, turns)
  BY <1>1, <1>2, SortedLists
<1>4. up \in Seq(turns) /\ n \in Nat
  BY <1>3 DEF Lists
<1>5. down = [i \in 1..n |-> up[(n - i) + 1]]
  BY DEF Reverse
<1> HIDE DEF turns, up, n, down
<1>6. ASSUME NEW i \in 1..n PROVE (n - i) + 1 \in 1..n /\ down[i] = up[(n - i) + 1] /\ down[i] \in turns
  <2>1. (n - i) + 1 \in 1..n
    BY <1>4
  <2>2. up[(n - i) + 1] \in turns
    BY <1>4, <2>1 DEF n
  <2> QED BY <1>5, <2>1, <2>2
<1>7. DOMAIN down = 1..n
  BY <1>5
<1> DEFINE Of(k) == {f \in F : f.turn = down[k]}
<1>8. gs = [k \in 1..n |-> [turn |-> down[k], files |-> ByRank(Of(k))]]
  BY <1>7 DEF Groups, down, up, turns
<1> HIDE DEF gs
<1>9. ASSUME NEW k \in 1..n
      PROVE  /\ gs[k].turn = down[k]
             /\ gs[k] \in [turn : Nat, files : Seq(F)]
             /\ GroupOf(gs[k], F)
  <2>1. IsFiniteSet(Of(k)) /\ \A f \in Of(k) : FileIsSane(f)
    <3>1. Of(k) \in SUBSET F
      OBVIOUS
    <3> QED BY <3>1, FS_Subset
  <2>2. Enumerates(ByRank(Of(k)), Of(k))
    <3> HIDE DEF Of
    <3> QED BY <2>1, RankedEnumerates
  <2>3. down[k] \in Nat
    BY <1>1, <1>6
  <2>4. ByRank(Of(k)) \in Seq(F)
    <3>1. Of(k) \in SUBSET F
      OBVIOUS
    <3> HIDE DEF Of
    <3>2. ByRank(Of(k)) \in Seq(Of(k))
      BY <2>2 DEF Enumerates
    <3> QED BY ONLY <3>1, <3>2
  <2>5. gs[k] = [turn |-> down[k], files |-> ByRank(Of(k))]
    BY <1>8
  <2>6. gs[k].turn = down[k] /\ gs[k].files = ByRank(Of(k))
    BY <2>5
  <2>7. Enumerates(gs[k].files, {f \in F : f.turn = gs[k].turn})
    BY <2>2, <2>6
  <2>8. gs[k] \in [turn : Nat, files : Seq(F)]
    BY <2>3, <2>4, <2>5
  <2> QED BY <2>3, <2>6, <2>7, <2>8 DEF GroupOf
<1> HIDE DEF Of
<1>10. /\ gs \in Seq({g \in [turn : Nat, files : Seq(F)] : GroupOf(g, F)})
       /\ Len(gs) = n /\ DOMAIN gs = 1..n
  <2> DEFINE G == {g \in [turn : Nat, files : Seq(F)] : GroupOf(g, F)}
  <2>1. \A k \in 1..n : gs[k] \in G
    BY <1>9
  <2>2. gs = [k \in 1..n |-> gs[k]]
    BY <1>8
  <2> HIDE DEF G
  <2>3. gs \in [1..n -> G]
    BY <2>1, <2>2
  <2> QED BY <1>4, <2>3 DEF G
<1>11. ASSUME NEW i \in 1..n, NEW j \in 1..n, i < j PROVE gs[j].turn < gs[i].turn
  <2>1. gs[i].turn = up[(n - i) + 1] /\ gs[j].turn = up[(n - j) + 1]
    <3>1. gs[i].turn = down[i] /\ gs[j].turn = down[j]
      BY <1>9
    <3> QED BY <1>6, <3>1
  <2>2. (n - j) + 1 < (n - i) + 1 /\ (n - j) + 1 \in 1..n /\ (n - i) + 1 \in 1..n
    BY <1>4, <1>11
  <2>3. \A a, b \in 1..n : a < b => up[a] < up[b]
    BY <1>3 DEF Lists, Increasing, n
  <2> QED BY <2>1, <2>2, <2>3
<1>12. ASSUME NEW f \in F PROVE \E i \in 1..n : gs[i].turn = f.turn
  <2>1. f.turn \in turns
    BY DEF turns
  <2>2. PICK a \in 1..n : up[a] = f.turn
    BY <1>3, <2>1 DEF Lists, n
  <2>3. (n - a) + 1 \in 1..n /\ (n - ((n - a) + 1)) + 1 = a
    BY <1>4
  <2>4. gs[(n - a) + 1].turn = up[a]
    <3>1. gs[(n - a) + 1].turn = down[(n - a) + 1]
      BY <1>9, <2>3
    <3>2. down[(n - a) + 1] = up[(n - ((n - a) + 1)) + 1]
      BY <1>6, <2>3
    <3> QED BY <2>3, <3>1, <3>2
  <2> QED BY <2>2, <2>3, <2>4
<1> QED BY <1>10, <1>11, <1>12 DEF GroupsOf, gs

\* What reading a file leaves: matches are lines that were found, each once;
\* with no more matches than a turn may have every found line is among them,
\* and the query is nowhere else unless a line was cut.
FileSearched(f, r) ==
  /\ r.cutLine \in BOOLEAN
  /\ r.matches \in Seq({f} \X Nat)
  /\ \A k \in 1..Len(r.matches) : \E i \in FoundIn(f) : r.matches[k] = <<f, i>>
  /\ \A k, l \in 1..Len(r.matches) : r.matches[k] = r.matches[l] => k = l
  /\ FoundIn(f) # {} => r.matches # <<>>
  /\ Len(r.matches) <= MaxPerTurn =>
       \A i \in FoundIn(f) : \E k \in 1..Len(r.matches) : r.matches[k] = <<f, i>>
  /\ Len(r.matches) <= MaxPerTurn /\ ~r.cutLine => HitsOf(f) = FoundIn(f)

\* A file is read to its end or to one match too many.
LEMMA FileIsSearched ==
  ASSUME NEW f, FileIsSane(f)
  PROVE  FileSearched(f, SearchFile(f))
<1> DEFINE D == DOMAIN f.lines
           read == {i \in D : FoundUpTo(f, i - 1) <= MaxPerTurn}
           X == FoundIn(f) \cap read
           s == Sorted(X)
           r == SearchFile(f)
<1>1. f.lines \in Seq(SearchLine) /\ Len(f.lines) \in Nat /\ D = 1..Len(f.lines)
  BY DEF FileIsSane
<1>2. /\ D \in SUBSET Nat /\ FoundIn(f) \in SUBSET D /\ IsFiniteSet(FoundIn(f))
      /\ X \in SUBSET Nat /\ X \in SUBSET FoundIn(f) /\ IsFiniteSet(X)
  <2>1. D \in SUBSET Nat /\ FoundIn(f) \in SUBSET D
    BY <1>1 DEF FoundIn
  <2>2. IsFiniteSet(D)
    <3>1. 1 \in Int /\ Len(f.lines) \in Int
      BY <1>1
    <3>2. IsFiniteSet(1..Len(f.lines))
      BY ONLY <3>1, FS_Interval
    <3> QED BY <1>1, <3>2
  <2>3. IsFiniteSet(FoundIn(f))
    BY ONLY <2>1, <2>2, FS_Subset
  <2>4. X \in SUBSET FoundIn(f)
    OBVIOUS
  <2>5. IsFiniteSet(X)
    BY ONLY <2>3, <2>4, FS_Subset
  <2> QED BY <2>1, <2>3, <2>4, <2>5
<1>3. \A i \in D : f.lines[i] \in SearchLine
  BY <1>1, ElementOfSeq
<1>4. r = [matches |-> [k \in DOMAIN s |-> <<f, s[k]>>],
           cutLine |-> \E i \in read : f.lines[i].long]
  BY DEF SearchFile, ReadUntil
<1>5. Lists(s, X) /\ Len(s) = Cardinality(X)
  BY <1>2, SortedLists, SortedLength
<1>6. s \in Seq(X) /\ Len(s) \in Nat /\ DOMAIN s = 1..Len(s)
  BY <1>5 DEF Lists
<1>7. MaxPerTurn \in Nat /\ MaxPerTurn # 0
  BY SearchAssumption
<1>8. Cardinality(X) \in Nat
  BY <1>2, FS_CardinalityType
<1>9. ASSUME Cardinality(X) <= MaxPerTurn PROVE read = D
  <2> DEFINE T == {n \in Nat : \A i \in D : i <= n => i \in read}
  <2>1. 0 \in T
    BY <1>1
  <2>2. ASSUME NEW n \in Nat, n \in T PROVE n + 1 \in T
    <3> DEFINE upTo == {j \in FoundIn(f) : j <= n}
    <3>1. upTo \in SUBSET X
      BY <1>2, <2>2
    <3>2. Cardinality(upTo) <= Cardinality(X) /\ Cardinality(upTo) \in Nat
      <4> HIDE DEF upTo, X
      <4>1. IsFiniteSet(upTo) /\ Cardinality(upTo) <= Cardinality(X)
        BY <1>2, <3>1, FS_Subset
      <4> QED BY <4>1, FS_CardinalityType
    <3>3. FoundUpTo(f, n) = Cardinality(upTo)
      BY DEF FoundUpTo
    <3>4. FoundUpTo(f, n) <= MaxPerTurn
      <4> HIDE DEF upTo, X
      <4> QED BY <1>7, <1>8, <1>9, <3>2, <3>3
    <3>5. \A i \in D : i = n + 1 => i \in read
      <4>1. (n + 1) - 1 = n
        OBVIOUS
      <4> QED BY <3>4, <4>1
    <3>6. \A i \in D : i <= n + 1 => i <= n \/ i = n + 1
      BY <1>2
    <3> QED BY <2>2, <3>5, <3>6
  <2> HIDE DEF T
  <2>3. Len(f.lines) \in T
    BY <1>1, <2>1, <2>2, NatSetInduction
  <2> QED BY <1>1, <2>3 DEF T
<1>10. \A i \in D : f.lines[i].found \in BOOLEAN
  BY <1>3 DEF SearchLine
<1> DEFINE m == [k \in DOMAIN s |-> <<f, s[k]>>]
<1>11. r.matches = m /\ r.cutLine \in BOOLEAN /\ (r.cutLine <=> \E i \in read : f.lines[i].long)
  <2> HIDE DEF m, r, read
  <2>1. r = [matches |-> m, cutLine |-> \E i \in read : f.lines[i].long]
    BY <1>4 DEF m
  <2> QED BY <2>1
<1> HIDE DEF read, X, s, r
<1>12. /\ m \in Seq({f} \X Nat) /\ Len(m) = Len(s) /\ DOMAIN m = 1..Len(s)
       /\ \A k \in 1..Len(s) : m[k] = <<f, s[k]>> /\ s[k] \in X /\ s[k] \in Nat
  <2>1. \A k \in 1..Len(s) : s[k] \in X
    BY <1>6, ElementOfSeq
  <2>2. m \in [1..Len(s) -> {f} \X Nat]
    BY <1>2, <1>6, <2>1
  <2> QED BY <1>2, <1>6, <2>1, <2>2
<1> HIDE DEF m
<1>13. \A k \in 1..Len(m) : \E i \in FoundIn(f) : m[k] = <<f, i>>
  BY <1>2, <1>12
<1>14. ASSUME NEW k \in 1..Len(m), NEW l \in 1..Len(m), m[k] = m[l] PROVE k = l
  <2>1. s[k] = s[l] /\ s[k] \in Nat
    BY <1>12, <1>14
  <2>2. ~(k < l) /\ ~(l < k)
    BY <1>5, <1>12, <2>1 DEF Lists, Increasing
  <2> QED BY <1>6, <1>12, <2>2
<1>15. Len(m) <= MaxPerTurn => read = D
  BY <1>5, <1>9, <1>12
<1>16. Len(m) <= MaxPerTurn =>
         \A i \in FoundIn(f) : \E k \in 1..Len(m) : m[k] = <<f, i>>
  <2>1. Len(m) <= MaxPerTurn => X = FoundIn(f)
    BY <1>2, <1>15 DEF X
  <2>2. \A x \in X : \E k \in 1..Len(s) : s[k] = x
    BY <1>5 DEF Lists
  <2> QED BY <1>12, <2>1, <2>2
<1>17. FoundIn(f) # {} => m # <<>>
  <2> SUFFICES ASSUME FoundIn(f) # {}, m = <<>> PROVE FALSE
    OBVIOUS
  <2>1. Len(m) = 0
    OBVIOUS
  <2>2. Len(m) <= MaxPerTurn /\ 1..Len(m) = {}
    BY <1>7, <2>1
  <2> QED BY <1>16, <2>2
<1>18. Len(m) <= MaxPerTurn /\ ~r.cutLine => HitsOf(f) = FoundIn(f)
  <2> SUFFICES ASSUME Len(m) <= MaxPerTurn, ~r.cutLine PROVE HitsOf(f) = FoundIn(f)
    OBVIOUS
  <2>1. \A i \in D : ~f.lines[i].long
    BY <1>11, <1>15
  <2>2. \A i \in D : ~f.lines[i].beyond
    BY <2>1, <1>3 DEF FileIsSane, SearchLine
  <2> QED BY <2>2 DEF HitsOf, FoundIn
<1> QED BY <1>11, <1>12, <1>13, <1>14, <1>16, <1>17, <1>18 DEF FileSearched, r

\* FirstOf, element by element.
LEMMA FirstOfElements ==
  ASSUME NEW S, NEW s \in Seq(S), NEW n \in Nat
  PROVE  /\ FirstOf(s, n) \in Seq(S)
         /\ Len(FirstOf(s, n)) = IF n < Len(s) THEN n ELSE Len(s)
         /\ \A k \in 1..Len(FirstOf(s, n)) : k \in 1..Len(s) /\ FirstOf(s, n)[k] = s[k]
         /\ Len(s) <= n => FirstOf(s, n) = s
<1> DEFINE m == IF n < Len(s) THEN n ELSE Len(s)
           u == FirstOf(s, n)
<1>1. Len(s) \in Nat /\ m \in Nat /\ m <= Len(s)
  OBVIOUS
<1>2. u = SubSeq(s, 1, m)
  BY DEF FirstOf
<1>3. \A i \in 1..m : i \in 1..Len(s) /\ s[i] \in S
  <2>1. \A i \in 1..m : i \in 1..Len(s)
    BY <1>1
  <2> QED BY <2>1, ElementOfSeq
<1> HIDE DEF m, u
<1>4. 1 \in Int /\ m \in Int /\ (IF 1 <= m THEN m - 1 + 1 ELSE 0) = m /\ m - 1 + 1 = m
      /\ \A i \in 1..m : 1 + i - 1 = i
  BY <1>1
<1>5. /\ SubSeq(s, 1, m) \in Seq(S)
      /\ Len(SubSeq(s, 1, m)) = IF 1 <= m THEN m - 1 + 1 ELSE 0
      /\ \A i \in 1..(m - 1 + 1) : SubSeq(s, 1, m)[i] = s[1 + i - 1]
  BY ONLY <1>3, <1>4, SubSeqProperties
<1>6. u \in Seq(S) /\ Len(u) = m /\ \A k \in 1..m : u[k] = s[k]
  BY <1>2, <1>4, <1>5
<1>7. Len(s) <= n => u = s
  <2> SUFFICES ASSUME Len(s) <= n PROVE u = s
    OBVIOUS
  <2>1. m = Len(s)
    BY <1>1 DEF m
  <2> QED BY <1>6, <2>1, SeqEqual
<1> QED BY <1>3, <1>6, <1>7 DEF u, m

\* What is known in the middle of a turn.
TurnState(F) ==
  {s \in [matches : Seq(F \X Nat), cut : BOOLEAN, over : BOOLEAN] :
     Len(s.matches) <= MaxPerTurn}

\* Before the first file.
NothingFound == [matches |-> <<>>, cut |-> FALSE, over |-> FALSE]

\* The room there is for the matches of a file.
RoomIn(s) == MaxPerTurn - Len(s.matches)

\* One file further.
LEMMA TakeFileStep ==
  ASSUME NEW F, \A f \in F : FileIsSane(f), NEW v \in TurnState(F), NEW f \in F
  PROVE  /\ TakeFile(v, f) \in TurnState(F)
         /\ RoomIn(v) \in Nat /\ Len(v.matches) + RoomIn(v) = MaxPerTurn
         /\ v.over => TakeFile(v, f) = v
         /\ ~v.over =>
              /\ TakeFile(v, f).matches = v.matches \o FirstOf(SearchFile(f).matches, RoomIn(v))
              /\ TakeFile(v, f).cut <=>
                   v.cut \/ SearchFile(f).cutLine \/ Len(SearchFile(f).matches) > RoomIn(v)
              /\ TakeFile(v, f).over <=> Len(SearchFile(f).matches) > RoomIn(v)
<1> DEFINE r == SearchFile(f)
           room == MaxPerTurn - Len(v.matches)
           kept == FirstOf(r.matches, room)
           next == [matches |-> v.matches \o kept,
                    cut |-> v.cut \/ r.cutLine \/ Len(r.matches) > room,
                    over |-> Len(r.matches) > room]
<1>1. /\ v.matches \in Seq(F \X Nat) /\ v.cut \in BOOLEAN /\ v.over \in BOOLEAN
      /\ Len(v.matches) <= MaxPerTurn /\ Len(v.matches) \in Nat /\ MaxPerTurn \in Nat
  <2>1. v.matches \in Seq(F \X Nat) /\ v.cut \in BOOLEAN /\ v.over \in BOOLEAN
        /\ Len(v.matches) <= MaxPerTurn
    BY DEF TurnState
  <2> QED BY <2>1, LenProperties, SearchAssumption
<1>2. room \in Nat /\ Len(v.matches) + room = MaxPerTurn
  BY <1>1
<1>3. TakeFile(v, f) = IF v.over THEN v ELSE next
  BY DEF TakeFile
<1>4. r.cutLine \in BOOLEAN /\ r.matches \in Seq(F \X Nat)
  <2>1. FileSearched(f, r)
    BY FileIsSearched
  <2>2. {f} \X Nat \in SUBSET (F \X Nat)
    OBVIOUS
  <2> HIDE DEF r
  <2>3. r.matches \in Seq({f} \X Nat) /\ r.cutLine \in BOOLEAN
    BY <2>1 DEF FileSearched
  <2>4. Seq({f} \X Nat) \subseteq Seq(F \X Nat)
    BY ONLY <2>2
  <2> QED BY <2>3, <2>4
<1> HIDE DEF r, room
<1>5. kept \in Seq(F \X Nat) /\ Len(kept) <= room /\ Len(kept) \in Nat
  <2>1. /\ kept \in Seq(F \X Nat)
        /\ Len(kept) = IF room < Len(r.matches) THEN room ELSE Len(r.matches)
    BY ONLY <1>2, <1>4, FirstOfElements
  <2>2. Len(r.matches) \in Nat
    BY ONLY <1>4, LenProperties
  <2> HIDE DEF kept
  <2> QED BY <1>2, <2>1, <2>2
<1> HIDE DEF kept
<1>6. v.matches \o kept \in Seq(F \X Nat) /\ Len(v.matches \o kept) = Len(v.matches) + Len(kept)
  BY <1>1, <1>5, ConcatProperties
<1>7. Len(v.matches \o kept) <= MaxPerTurn
  BY <1>1, <1>2, <1>5, <1>6
<1>8. (Len(r.matches) > room) \in BOOLEAN /\ (v.cut \/ r.cutLine \/ Len(r.matches) > room) \in BOOLEAN
  OBVIOUS
<1>9. /\ next.matches = v.matches \o kept
      /\ next.cut = (v.cut \/ r.cutLine \/ Len(r.matches) > room)
      /\ next.over = (Len(r.matches) > room)
      /\ next \in [matches : Seq(F \X Nat), cut : BOOLEAN, over : BOOLEAN]
  BY <1>6, <1>8
<1> HIDE DEF next
<1>10. next \in TurnState(F)
  BY <1>7, <1>9 DEF TurnState
<1> QED BY <1>2, <1>3, <1>9, <1>10 DEF RoomIn, room, kept, r

\* SearchTurn, step by step.
LEMMA SearchTurnSteps ==
  ASSUME NEW All, \A f \in All : FileIsSane(f), NEW files \in Seq(All)
  PROVE  \E F \in [0..Len(files) -> TurnState(All)] :
            /\ F[0] = NothingFound
            /\ \A i \in 1..Len(files) : F[i] = TakeFile(F[i-1], files[i])
            /\ SearchTurn(files) = F[Len(files)]
<1> DEFINE n == Len(files)
           V == TurnState(All)
           base == NothingFound
           g == [p \in V \X (1..n) |-> TakeFile(p[1], files[p[2]])]
           Body(f) == [s \in SUBSET (DOMAIN files) |->
                         IF s = {} THEN base ELSE TakeFile(f[s \ {Max(s)}], files[Max(s)])]
           iter == CHOOSE f : f = Body(f)
<1>1. SearchTurn(files) = iter[DOMAIN files]
  BY DEF FoldLeft, MapThenFoldSet, SearchTurn, NothingFound
<1>2. n \in Nat /\ DOMAIN files = 1..n /\ base \in V
  <2>1. /\ NothingFound.matches = <<>>
        /\ NothingFound \in [matches : Seq(All \X Nat), cut : BOOLEAN, over : BOOLEAN]
    BY DEF NothingFound
  <2>2. Len(NothingFound.matches) <= MaxPerTurn
    BY <2>1, SearchAssumption
  <2>3. NothingFound \in TurnState(All)
    BY <2>1, <2>2 DEF TurnState
  <2> QED BY <2>3
<1>3. \A v \in V, i \in 1..n : TakeFile(v, files[i]) \in V
  <2>1. \A i \in 1..n : files[i] \in All
    OBVIOUS
  <2> QED BY <2>1, TakeFileStep
<1>4. \A v \in V, i \in 1..n : g[<<v, i>>] = TakeFile(v, files[i])
  OBVIOUS
<1> HIDE DEF n, V, g, base
<1>5. Closed(n, V, g)
  BY <1>3, <1>4 DEF Closed
<1>6. PICK f : FoldsTo(f, n, V, base, g)
  BY <1>2, <1>5, FoldExists
<1>7. \A s \in SUBSET (1..n) : s # {} => Max(s) \in 1..n
  BY <1>2, MaxIn
<1>8. f = Body(f)
  BY <1>2, <1>4, <1>6, <1>7 DEF FoldsTo
<1>9. iter = Body(iter)
  <2> HIDE DEF Body
  <2> QED BY <1>8
<1> HIDE DEF iter
<1>10. Unfolds(iter, n, V, base, g)
  BY <1>2, <1>4, <1>7, <1>9 DEF Unfolds
<1>11. PICK F : Ladder(F, n, V, base, g) /\ iter[1..n] = F[n]
  BY <1>2, <1>5, <1>10, FoldLadder
<1>12. \A i \in 1..n : F[i] = TakeFile(F[i-1], files[i])
  <2>1. \A i \in 1..n : F[i-1] \in V
    BY <1>2, <1>11 DEF Ladder
  <2> QED BY <2>1, <1>4, <1>11 DEF Ladder
<1>13. SearchTurn(files) = F[n]
  BY <1>1, <1>2, <1>11
<1> HIDE DEF Body
<1> QED BY <1>11, <1>12, <1>13 DEF n, V, base, Ladder

\* With one more file.
LEMMA SearchTurnAppend ==
  ASSUME NEW All, \A f \in All : FileIsSane(f), NEW files \in Seq(All), NEW x \in All
  PROVE  /\ SearchTurn(files) \in TurnState(All)
         /\ SearchTurn(Append(files, x)) = TakeFile(SearchTurn(files), x)
<1> DEFINE b == Append(files, x)
           n == Len(files)
<1>1. /\ b \in Seq(All) /\ Len(b) = n + 1 /\ b[n+1] = x
      /\ \A i \in 1..n : b[i] = files[i]
  BY AppendProperties
<1>2. PICK F \in [0..n -> TurnState(All)] :
            /\ F[0] = NothingFound
            /\ \A i \in 1..n : F[i] = TakeFile(F[i-1], files[i])
            /\ SearchTurn(files) = F[n]
  BY SearchTurnSteps
<1> HIDE DEF b
<1>3. PICK G \in [0..Len(b) -> TurnState(All)] :
            /\ G[0] = NothingFound
            /\ \A i \in 1..Len(b) : G[i] = TakeFile(G[i-1], b[i])
            /\ SearchTurn(b) = G[Len(b)]
  BY <1>1, SearchTurnSteps
<1> DEFINE T == {i \in Nat : i <= n => F[i] = G[i]}
<1>4. n \in Nat
  OBVIOUS
<1>5. 0 \in T
  BY <1>2, <1>3
<1>6. ASSUME NEW i \in Nat, i \in T PROVE i + 1 \in T
  <2> SUFFICES ASSUME i + 1 <= n PROVE F[i+1] = G[i+1]
    OBVIOUS
  <2>1. i + 1 \in 1..n /\ i + 1 \in 1..Len(b) /\ (i + 1) - 1 = i
    BY <1>1, <1>4
  <2>2. F[i] = G[i]
    BY <1>4, <1>6, <2>1
  <2> QED BY <1>1, <1>2, <1>3, <2>1, <2>2
<1> HIDE DEF T
<1>7. n \in T
  BY <1>4, <1>5, <1>6, NatSetInduction
<1>8. F[n] = G[n]
  BY <1>4, <1>7 DEF T
<1>9. G[n+1] = TakeFile(G[n], b[n+1])
  <2>1. n + 1 \in 1..Len(b) /\ (n + 1) - 1 = n
    BY <1>1, <1>4
  <2> QED BY <1>3, <2>1
<1>10. F[n] \in TurnState(All)
  BY <1>2, <1>4
<1> QED BY <1>1, <1>2, <1>3, <1>8, <1>9, <1>10 DEF b

\* What has been found in the first files of a turn.
FilesSearched(v, files) ==
  /\ \A k \in 1..Len(v.matches) : \E a \in 1..Len(files) :
        \E i \in FoundIn(files[a]) : v.matches[k] = <<files[a], i>>
  /\ v.over => v.cut /\ Len(v.matches) = MaxPerTurn
  /\ (\A a, b \in 1..Len(files) : files[a] = files[b] => a = b) =>
        \A k, l \in 1..Len(v.matches) : v.matches[k] = v.matches[l] => k = l
  /\ ~v.cut => \A a \in 1..Len(files) : \A i \in HitsOf(files[a]) :
        \E k \in 1..Len(v.matches) : v.matches[k] = <<files[a], i>>
  /\ (\E a \in 1..Len(files) : FoundIn(files[a]) # {}) => Len(v.matches) # 0

\* The step from some files to one more.
LEMMA OneFileFurther ==
  ASSUME NEW All, \A f \in All : FileIsSane(f), NEW v \in TurnState(All),
         NEW files \in Seq(All), NEW f \in All, FilesSearched(v, files)
  PROVE  FilesSearched(TakeFile(v, f), Append(files, f))
<1> DEFINE more == Append(files, f)
           n == Len(files)
           r == SearchFile(f)
           room == RoomIn(v)
           kept == FirstOf(r.matches, room)
           w == TakeFile(v, f)
<1>1. /\ Len(more) = n + 1 /\ more[n + 1] = f /\ n \in Nat
      /\ \A a \in 1..n : more[a] = files[a] /\ a \in 1..Len(more)
      /\ n + 1 \in 1..Len(more)
      /\ \A a \in 1..Len(more) : a \in 1..n \/ a = n + 1
  <2>1. /\ Len(more) = n + 1 /\ more[n + 1] = f /\ n \in Nat
        /\ \A a \in 1..n : more[a] = files[a]
    BY AppendProperties
  <2> HIDE DEF more, n
  <2> QED BY <2>1
<1>2. /\ room \in Nat /\ Len(v.matches) + room = MaxPerTurn
      /\ v.over => w = v
      /\ ~v.over => /\ w.matches = v.matches \o kept
                    /\ w.cut <=> v.cut \/ r.cutLine \/ Len(r.matches) > room
                    /\ w.over <=> Len(r.matches) > room
  <2>1. /\ RoomIn(v) \in Nat /\ Len(v.matches) + RoomIn(v) = MaxPerTurn
        /\ v.over => TakeFile(v, f) = v
        /\ ~v.over =>
             /\ TakeFile(v, f).matches = v.matches \o FirstOf(SearchFile(f).matches, RoomIn(v))
             /\ TakeFile(v, f).cut <=>
                  v.cut \/ SearchFile(f).cutLine \/ Len(SearchFile(f).matches) > RoomIn(v)
             /\ TakeFile(v, f).over <=> Len(SearchFile(f).matches) > RoomIn(v)
    BY TakeFileStep
  <2> QED BY <2>1
<1>3. FileSearched(f, r)
  BY FileIsSearched
<1>4. /\ v.matches \in Seq(All \X Nat) /\ Len(v.matches) \in Nat
      /\ MaxPerTurn \in Nat /\ MaxPerTurn # 0
  <2>1. v.matches \in Seq(All \X Nat)
    BY DEF TurnState
  <2> QED BY <2>1, LenProperties, SearchAssumption
<1> HIDE DEF more, r, w, room, n
<1>5. r.matches \in Seq({f} \X Nat) /\ Len(r.matches) \in Nat
  <2>1. r.matches \in Seq({f} \X Nat)
    BY <1>3 DEF FileSearched
  <2> QED BY <2>1, LenProperties
<1>6. /\ kept \in Seq({f} \X Nat)
      /\ Len(kept) = IF room < Len(r.matches) THEN room ELSE Len(r.matches)
      /\ \A k \in 1..Len(kept) : k \in 1..Len(r.matches) /\ kept[k] = r.matches[k]
      /\ Len(r.matches) <= room => kept = r.matches
  <2> DEFINE S == {f} \X Nat
             ms == r.matches
  <2>1. ms \in Seq(S) /\ room \in Nat
    BY <1>2, <1>5
  <2> HIDE DEF S, ms
  <2>2. /\ FirstOf(ms, room) \in Seq(S)
        /\ Len(FirstOf(ms, room)) = IF room < Len(ms) THEN room ELSE Len(ms)
        /\ \A k \in 1..Len(FirstOf(ms, room)) : k \in 1..Len(ms) /\ FirstOf(ms, room)[k] = ms[k]
        /\ Len(ms) <= room => FirstOf(ms, room) = ms
    BY ONLY <2>1, FirstOfElements
  <2> QED BY <2>2 DEF S, ms
<1>7. CASE v.over
  <2>1. w = v /\ v.cut /\ Len(v.matches) = MaxPerTurn
    BY <1>2, <1>7 DEF FilesSearched
  <2>2. \A k \in 1..Len(v.matches) : \E a \in 1..Len(more) :
          \E i \in FoundIn(more[a]) : v.matches[k] = <<more[a], i>>
    BY <1>1 DEF FilesSearched, n
  <2>3. (\A a, b \in 1..Len(more) : more[a] = more[b] => a = b) =>
           (\A a, b \in 1..n : files[a] = files[b] => a = b)
    BY <1>1
  <2>4. (\A a, b \in 1..n : files[a] = files[b] => a = b) =>
            \A k, l \in 1..Len(v.matches) : v.matches[k] = v.matches[l] => k = l
    BY DEF FilesSearched, n
  <2>5. Len(v.matches) # 0
    BY <1>4, <2>1
  <2>6. FilesSearched(w, more)
    <3>1. FilesSearched(v, more)
      <4>1. (\A a, b \in 1..Len(more) : more[a] = more[b] => a = b) =>
               \A k, l \in 1..Len(v.matches) : v.matches[k] = v.matches[l] => k = l
        BY <2>3, <2>4
      <4> QED BY ONLY <2>1, <2>2, <4>1, <2>5 DEF FilesSearched
    <3> QED BY <2>1, <3>1
  <2> QED BY <2>6 DEF more, w
<1>8. CASE ~v.over
  <2> DEFINE m == v.matches \o kept
             p == Len(v.matches)
  <2>1. w.matches = m /\ (w.cut <=> v.cut \/ r.cutLine \/ Len(r.matches) > room)
        /\ (w.over <=> Len(r.matches) > room)
    BY <1>2, <1>8
  <2> HIDE DEF kept
  <2>2. /\ Len(m) = p + Len(kept) /\ Len(kept) \in Nat /\ p \in Nat
        /\ \A k \in 1..p : m[k] = v.matches[k]
        /\ \A k \in 1..Len(kept) : m[p + k] = kept[k]
    <3> DEFINE S == (All \cup {f}) \X Nat
    <3>1. v.matches \in Seq(S) /\ kept \in Seq(S)
      <4>1. Seq(All \X Nat) \subseteq Seq(S) /\ Seq({f} \X Nat) \subseteq Seq(S)
        OBVIOUS
      <4> HIDE DEF S
      <4> QED BY <1>4, <1>6, <4>1
    <3> HIDE DEF S
    <3>2. Len(kept) \in Nat /\ p \in Nat
      BY <3>1, LenProperties
    <3>3. /\ Len(m) = p + Len(kept)
          /\ \A k \in 1..(p + Len(kept)) : m[k] = IF k <= p THEN v.matches[k] ELSE kept[k - p]
      BY ONLY <3>1, ConcatProperties
    <3> HIDE DEF m, p
    <3>4. \A k \in 1..p : k \in 1..(p + Len(kept)) /\ k <= p
      BY <3>2
    <3>5. \A k \in 1..Len(kept) : p + k \in 1..(p + Len(kept)) /\ ~(p + k <= p) /\ (p + k) - p = k
      BY <3>2
    <3> QED BY <3>2, <3>3, <3>4, <3>5
  <2> HIDE DEF m
  <2>3. /\ \A k \in 1..p : k \in 1..Len(m)
        /\ \A k \in 1..Len(kept) : p + k \in 1..Len(m)
        /\ \A k \in 1..Len(m) : k \in 1..p \/ (k - p \in 1..Len(kept) /\ p + (k - p) = k /\ k > p)
    <3> HIDE DEF p
    <3> QED BY <2>2
  <2>4. \A k \in 1..Len(kept) : \E i \in FoundIn(f) : kept[k] = <<f, i>>
    BY <1>3, <1>6 DEF FileSearched
  <2>5. \A k \in 1..p : \E a \in 1..n : \E i \in FoundIn(files[a]) : m[k] = <<files[a], i>>
    BY <2>2 DEF FilesSearched, n
  <2>6. \A k \in 1..Len(m) : \E a \in 1..Len(more) :
          \E i \in FoundIn(more[a]) : m[k] = <<more[a], i>>
    <3> SUFFICES ASSUME NEW k \in 1..Len(m)
                 PROVE  \E a \in 1..Len(more) : \E i \in FoundIn(more[a]) : m[k] = <<more[a], i>>
      OBVIOUS
    <3>1. CASE k \in 1..p
      BY <1>1, <2>5, <3>1
    <3>2. CASE ~(k \in 1..p)
      <4>1. k - p \in 1..Len(kept) /\ m[p + (k - p)] = kept[k - p] /\ p + (k - p) = k
        BY <2>2, <2>3, <3>2
      <4>2. \E i \in FoundIn(f) : m[k] = <<f, i>>
        BY <2>4, <4>1
      <4> QED BY <1>1, <4>2
    <3> QED BY <3>1, <3>2
  <2>7. w.over => w.cut /\ Len(m) = MaxPerTurn
    BY <1>2, <1>4, <1>5, <1>6, <2>1, <2>2
  <2>8. ASSUME \A a, b \in 1..Len(more) : more[a] = more[b] => a = b
        PROVE  \A k, l \in 1..Len(m) : m[k] = m[l] => k = l
    <3>1. \A a \in 1..n : files[a] # f
      BY <1>1, <2>8
    <3>2. \A a, b \in 1..n : files[a] = files[b] => a = b
      BY <1>1, <2>8
    <3>3. \A k, l \in 1..p : m[k] = m[l] => k = l
      BY <2>2, <3>2 DEF FilesSearched, n
    <3>4. \A k, l \in 1..Len(kept) : kept[k] = kept[l] => k = l
      BY <1>3, <1>6 DEF FileSearched
    <3>5. ASSUME NEW k \in 1..p, NEW l \in 1..Len(kept) PROVE m[k] # m[p + l]
      <4>1. PICK a \in 1..n : \E i \in FoundIn(files[a]) : m[k] = <<files[a], i>>
        BY <2>5
      <4>2. PICK i : m[k] = <<files[a], i>>
        BY <4>1
      <4>3. PICK j : m[p + l] = <<f, j>>
        BY <2>2, <2>4
      <4>4. files[a] # f
        BY <3>1
      <4> QED BY <4>2, <4>3, <4>4
    <3>6. ASSUME NEW k \in 1..Len(m), NEW l \in 1..Len(m), m[k] = m[l] PROVE k = l
      <4>1. CASE k \in 1..p /\ l \in 1..p
        BY <3>3, <3>6, <4>1
      <4>2. CASE k \in 1..p /\ ~(l \in 1..p)
        <5>1. l - p \in 1..Len(kept) /\ p + (l - p) = l
          BY <2>3, <4>2
        <5>2. m[k] # m[p + (l - p)]
          BY <3>5, <4>2, <5>1
        <5> QED BY <3>6, <5>1, <5>2
      <4>3. CASE ~(k \in 1..p) /\ l \in 1..p
        <5>1. k - p \in 1..Len(kept) /\ p + (k - p) = k
          BY <2>3, <4>3
        <5>2. m[l] # m[p + (k - p)]
          BY <3>5, <4>3, <5>1
        <5> QED BY <3>6, <5>1, <5>2
      <4>4. CASE ~(k \in 1..p) /\ ~(l \in 1..p)
        <5>1. /\ k - p \in 1..Len(kept) /\ p + (k - p) = k
              /\ l - p \in 1..Len(kept) /\ p + (l - p) = l
          BY <2>3, <4>4
        <5>2. kept[k - p] = kept[l - p]
          BY <2>2, <3>6, <5>1
        <5>3. k - p = l - p
          BY <3>4, <5>1, <5>2
        <5> QED BY <5>1, <5>3
      <4> QED BY <4>1, <4>2, <4>3, <4>4
    <3> QED BY <3>6
  <2>9. ASSUME ~w.cut, NEW a \in 1..Len(more), NEW i \in HitsOf(more[a])
        PROVE  \E k \in 1..Len(m) : m[k] = <<more[a], i>>
    <3>1. ~v.cut /\ ~r.cutLine /\ Len(r.matches) <= room
      BY <1>2, <1>5, <2>1, <2>9
    <3>2. CASE a \in 1..n
      <4>1. PICK k \in 1..p : v.matches[k] = <<files[a], i>>
        BY <1>1, <2>9, <3>1, <3>2 DEF FilesSearched, n
      <4> QED BY <1>1, <2>2, <2>3, <3>2, <4>1
    <3>3. CASE a = n + 1
      <4>1. kept = r.matches /\ Len(r.matches) <= MaxPerTurn
        BY <1>2, <1>4, <1>5, <1>6, <3>1
      <4>2. i \in FoundIn(f)
        BY <1>1, <1>3, <2>9, <3>1, <3>3, <4>1 DEF FileSearched
      <4>3. PICK k \in 1..Len(kept) : kept[k] = <<f, i>>
        BY <1>3, <4>1, <4>2 DEF FileSearched
      <4>4. p + k \in 1..Len(m) /\ m[p + k] = kept[k]
        BY <2>2, <2>3
      <4>5. m[p + k] = <<more[a], i>>
        BY <1>1, <3>3, <4>3, <4>4
      <4> HIDE DEF p
      <4> QED BY <4>4, <4>5
    <3> QED BY <1>1, <3>2, <3>3
  <2>10. ASSUME NEW a \in 1..Len(more), FoundIn(more[a]) # {}
         PROVE  Len(m) # 0
    <3>1. CASE a \in 1..n
      <4>1. p # 0
        BY <1>1, <2>10, <3>1 DEF FilesSearched, n
      <4> HIDE DEF p
      <4> QED BY <2>2, <4>1
    <3>2. CASE a = n + 1
      <4>1. Len(r.matches) # 0
        <5>1. r.matches # <<>>
          BY <1>1, <1>3, <2>10, <3>2 DEF FileSearched
        <5> QED BY <1>5, <5>1, EmptySeq
      <4>2. room # 0 \/ p # 0
        BY <1>2, <1>4
      <4> HIDE DEF p
      <4> QED BY <1>2, <1>5, <1>6, <2>2, <4>1, <4>2
    <3> QED BY <1>1, <3>1, <3>2
  <2>11. FilesSearched(w, more)
    <3>1. \A a \in 1..Len(more) : FoundIn(more[a]) # {} => Len(m) # 0
      BY <2>10
    <3>2. ~w.cut => \A a \in 1..Len(more) : \A i \in HitsOf(more[a]) :
             \E k \in 1..Len(m) : m[k] = <<more[a], i>>
      BY <2>9
    <3>3. w.matches = m
      BY <2>1
    <3> QED BY <2>6, <2>7, <2>8, <3>1, <3>2, <3>3 DEF FilesSearched
  <2> QED BY <2>11 DEF more, w
<1> QED BY <1>7, <1>8

\* The files of a turn.
LEMMA TurnIsSearched ==
  ASSUME NEW All, \A f \in All : FileIsSane(f), NEW files \in Seq(All)
  PROVE  SearchTurn(files) \in TurnState(All) /\ FilesSearched(SearchTurn(files), files)
<1> DEFINE T == {s \in Seq(All) : SearchTurn(s) \in TurnState(All) /\ FilesSearched(SearchTurn(s), s)}
<1>1. <<>> \in T
  <2>1. <<>> \in Seq(All) /\ Len(<<>>) = 0 /\ 1..0 = {}
    OBVIOUS
  <2>2. PICK F \in [0..Len(<<>>) -> TurnState(All)] :
           F[0] = NothingFound /\ SearchTurn(<<>>) = F[Len(<<>>)]
    BY <2>1, SearchTurnSteps
  <2>3. SearchTurn(<<>>) = NothingFound /\ NothingFound \in TurnState(All)
    <3>1. 0 \in 0..Len(<<>>)
      BY <2>1
    <3> QED BY <2>1, <2>2, <3>1
  <2>4. NothingFound.matches = <<>> /\ NothingFound.over = FALSE
    BY DEF NothingFound
  <2>5. FilesSearched(NothingFound, <<>>)
    BY <2>1, <2>4 DEF FilesSearched
  <2> QED BY <2>1, <2>3, <2>5
<1>2. ASSUME NEW s \in Seq(All), NEW f \in All, s \in T PROVE Append(s, f) \in T
  <2>1. SearchTurn(s) \in TurnState(All) /\ FilesSearched(SearchTurn(s), s)
    BY <1>2
  <2>2. SearchTurn(Append(s, f)) = TakeFile(SearchTurn(s), f)
    BY SearchTurnAppend
  <2>3. TakeFile(SearchTurn(s), f) \in TurnState(All)
    BY <2>1, TakeFileStep
  <2>4. FilesSearched(TakeFile(SearchTurn(s), f), Append(s, f))
    BY <2>1, OneFileFurther
  <2>5. Append(s, f) \in Seq(All)
    BY AppendProperties
  <2> QED BY <2>2, <2>3, <2>4, <2>5
<1> HIDE DEF T
<1>3. files \in T
  BY <1>1, <1>2, SeqSetInduction
<1> QED BY <1>3 DEF T

\* A group, and what is reported of it.
Group(All) == [turn : Nat, files : Seq(All)]

\* What is reported of a group.
Result(All) == [turn : Nat, matches : Seq(All \X Nat)]

\* What is known in the middle of a search.
SearchState(All, limit) ==
  {s \in [results : Seq(Result(All)), truncated : BOOLEAN, total : 0..MaxInAll, over : BOOLEAN] :
     Len(s.results) <= limit}

\* Before the first group.
NothingReported == [results |-> <<>>, truncated |-> FALSE, total |-> 0, over |-> FALSE]

\* The matches of a group there is room for, and why a search ends with it.
Reportable(s, group) == FirstOf(SearchTurn(group.files).matches, MaxInAll - s.total)

\* There are more matches than room for matches.
Stops(s, group) == Len(SearchTurn(group.files).matches) > MaxInAll - s.total

\* There is no room for another result.
IsFull(s, group, limit) == Reportable(s, group) # <<>> /\ Len(s.results) >= limit

\* The matches that are reported are the first that were found.
MatchesKept(ms, s, group) ==
  /\ Len(ms) <= Len(SearchTurn(group.files).matches)
  /\ \A k \in 1..Len(ms) : /\ k \in 1..Len(SearchTurn(group.files).matches)
                           /\ ms[k] = SearchTurn(group.files).matches[k]
  /\ ~Stops(s, group) => ms = SearchTurn(group.files).matches

\* The result of a group is appended when there is one and room for it.
GroupTaken(next, s, group, limit) ==
  /\ s.over => next = s
  /\ ~s.over =>
       /\ next.results =
            IF Reportable(s, group) = <<>> \/ IsFull(s, group, limit) THEN s.results
            ELSE Append(s.results, [turn |-> group.turn, matches |-> Reportable(s, group)])
       /\ next.truncated <=>
            s.truncated \/ Stops(s, group) \/ IsFull(s, group, limit) \/ SearchTurn(group.files).cut
       /\ next.over <=> Stops(s, group) \/ IsFull(s, group, limit)

\* One group further.
LEMMA TakeGroupStep ==
  ASSUME NEW All, \A f \in All : FileIsSane(f), NEW limit \in Nat,
         NEW v \in SearchState(All, limit), NEW g \in Group(All)
  PROVE  /\ TakeGroup(v, g, limit) \in SearchState(All, limit)
         /\ GroupTaken(TakeGroup(v, g, limit), v, g, limit)
         /\ MatchesKept(Reportable(v, g), v, g)
         /\ Reportable(v, g) \in Seq(All \X Nat)
<1> DEFINE found == SearchTurn(g.files)
           room == MaxInAll - v.total
           kept == FirstOf(found.matches, room)
           stop == Len(found.matches) > room
           full == kept # <<>> /\ Len(v.results) >= limit
           results == IF kept = <<>> \/ full THEN v.results
                      ELSE Append(v.results, [turn |-> g.turn, matches |-> kept])
           next == [results |-> results,
                    truncated |-> v.truncated \/ stop \/ full \/ found.cut,
                    total |-> v.total + Len(kept),
                    over |-> stop \/ full]
<1>1. /\ v.results \in Seq(Result(All)) /\ v.truncated \in BOOLEAN /\ v.over \in BOOLEAN
      /\ Len(v.results) <= limit /\ Len(v.results) \in Nat /\ v.total \in 0..MaxInAll
  <2>1. /\ v.results \in Seq(Result(All)) /\ v.truncated \in BOOLEAN /\ v.over \in BOOLEAN
        /\ Len(v.results) <= limit /\ v.total \in 0..MaxInAll
    BY DEF SearchState
  <2> QED BY <2>1, LenProperties
<1>2. room \in Nat /\ v.total + room = MaxInAll /\ v.total \in Nat /\ MaxInAll \in Nat
  BY <1>1, SearchAssumption
<1>3. TakeGroup(v, g, limit) = IF v.over THEN v ELSE next
  BY DEF TakeGroup
<1>4. g.turn \in Nat /\ g.files \in Seq(All)
  BY DEF Group
<1>5. found \in TurnState(All)
  BY <1>4, TurnIsSearched
<1> HIDE DEF found, room
<1>6. found.matches \in Seq(All \X Nat) /\ found.cut \in BOOLEAN /\ Len(found.matches) \in Nat
  <2>1. found.matches \in Seq(All \X Nat) /\ found.cut \in BOOLEAN
    BY <1>5 DEF TurnState
  <2> QED BY <2>1, LenProperties
<1>7. /\ kept \in Seq(All \X Nat)
      /\ Len(kept) = IF room < Len(found.matches) THEN room ELSE Len(found.matches)
      /\ \A k \in 1..Len(kept) : k \in 1..Len(found.matches) /\ kept[k] = found.matches[k]
      /\ Len(found.matches) <= room => kept = found.matches
  <2> DEFINE S == All \X Nat
             ms == found.matches
  <2>1. ms \in Seq(S) /\ room \in Nat
    BY <1>2, <1>6
  <2> HIDE DEF S, ms
  <2>2. /\ FirstOf(ms, room) \in Seq(S)
        /\ Len(FirstOf(ms, room)) = IF room < Len(ms) THEN room ELSE Len(ms)
        /\ \A k \in 1..Len(FirstOf(ms, room)) : k \in 1..Len(ms) /\ FirstOf(ms, room)[k] = ms[k]
        /\ Len(ms) <= room => FirstOf(ms, room) = ms
    BY ONLY <2>1, FirstOfElements
  <2> QED BY <2>2 DEF S, ms
<1> HIDE DEF kept
<1>8. Len(kept) \in Nat /\ Len(kept) <= room /\ Len(kept) <= Len(found.matches)
  BY <1>2, <1>6, <1>7
<1>9. v.total + Len(kept) \in 0..MaxInAll
  BY <1>2, <1>8
<1>10. results \in Seq(Result(All)) /\ Len(results) <= limit
  <2>1. CASE kept = <<>> \/ full
    BY <1>1, <2>1
  <2>2. CASE ~(kept = <<>> \/ full)
    <3> DEFINE new == [turn |-> g.turn, matches |-> kept]
    <3>1. new \in Result(All)
      BY <1>4, <1>7 DEF Result
    <3> HIDE DEF new
    <3>2. results = Append(v.results, new)
      BY <2>2 DEF new
    <3>3. Append(v.results, new) \in Seq(Result(All)) /\ Len(Append(v.results, new)) = Len(v.results) + 1
      BY ONLY <1>1, <3>1, AppendProperties
    <3>4. Len(v.results) + 1 <= limit
      BY <1>1, <2>2
    <3> HIDE DEF results
    <3> QED BY <3>2, <3>3, <3>4
  <2> QED BY <2>1, <2>2
<1> HIDE DEF results
<1>11. stop \in BOOLEAN /\ full \in BOOLEAN
  OBVIOUS
<1> HIDE DEF stop, full
<1>12. /\ next.results = results
       /\ next.truncated = (v.truncated \/ stop \/ full \/ found.cut)
       /\ next.over = (stop \/ full)
       /\ next \in [results : Seq(Result(All)), truncated : BOOLEAN, total : 0..MaxInAll, over : BOOLEAN]
  <2>1. (v.truncated \/ stop \/ full \/ found.cut) \in BOOLEAN /\ (stop \/ full) \in BOOLEAN
    OBVIOUS
  <2> QED BY <1>9, <1>10, <2>1
<1> HIDE DEF next
<1>13. next \in SearchState(All, limit)
  BY <1>10, <1>12 DEF SearchState
<1>14. /\ kept = Reportable(v, g) /\ stop = Stops(v, g) /\ full = IsFull(v, g, limit)
       /\ results = IF Reportable(v, g) = <<>> \/ IsFull(v, g, limit) THEN v.results
                    ELSE Append(v.results, [turn |-> g.turn, matches |-> Reportable(v, g)])
  BY DEF kept, stop, full, results, found, room, Reportable, Stops, IsFull
<1>15. ~stop => kept = found.matches
  <2>1. stop <=> Len(found.matches) > room
    BY DEF stop
  <2> QED BY <1>2, <1>6, <1>7, <2>1
<1>16. v.over => TakeGroup(v, g, limit) = v
  BY <1>3
<1>17. ~v.over => TakeGroup(v, g, limit) = next
  BY <1>3
<1>18. TakeGroup(v, g, limit) \in SearchState(All, limit)
  BY <1>13, <1>16, <1>17
<1>19. MatchesKept(Reportable(v, g), v, g)
  BY <1>7, <1>8, <1>14, <1>15 DEF found, MatchesKept
<1>20. GroupTaken(TakeGroup(v, g, limit), v, g, limit)
  <2> SUFFICES ASSUME ~v.over PROVE GroupTaken(TakeGroup(v, g, limit), v, g, limit)
    BY <1>16 DEF GroupTaken
  <2>1. TakeGroup(v, g, limit) = next
    BY <1>17
  <2>2. next.truncated = (v.truncated \/ Stops(v, g) \/ IsFull(v, g, limit) \/ SearchTurn(g.files).cut)
    BY <1>12, <1>14 DEF found
  <2>3. next.over = (Stops(v, g) \/ IsFull(v, g, limit))
    BY <1>12, <1>14
  <2>4. next.results = IF Reportable(v, g) = <<>> \/ IsFull(v, g, limit) THEN v.results
                       ELSE Append(v.results, [turn |-> g.turn, matches |-> Reportable(v, g)])
    BY <1>12, <1>14
  <2>5. GroupTaken(next, v, g, limit)
    BY <2>2, <2>3, <2>4 DEF GroupTaken
  <2> QED BY <2>1, <2>5
<1>21. Reportable(v, g) \in Seq(All \X Nat)
  BY <1>7, <1>14
<1> QED BY <1>18, <1>19, <1>20, <1>21

\* SearchGroups, step by step.
LEMMA SearchGroupsSteps ==
  ASSUME NEW All, \A f \in All : FileIsSane(f), NEW limit \in Nat,
         NEW groups \in Seq(Group(All))
  PROVE  \E F \in [0..Len(groups) -> SearchState(All, limit)] :
            /\ F[0] = NothingReported
            /\ \A i \in 1..Len(groups) : F[i] = TakeGroup(F[i-1], groups[i], limit)
            /\ SearchGroups(groups, limit) = F[Len(groups)]
<1> DEFINE n == Len(groups)
           V == SearchState(All, limit)
           base == NothingReported
           g == [p \in V \X (1..n) |-> TakeGroup(p[1], groups[p[2]], limit)]
           Body(f) == [s \in SUBSET (DOMAIN groups) |->
                         IF s = {} THEN base ELSE TakeGroup(f[s \ {Max(s)}], groups[Max(s)], limit)]
           iter == CHOOSE f : f = Body(f)
<1>1. SearchGroups(groups, limit) = iter[DOMAIN groups]
  BY DEF FoldLeft, MapThenFoldSet, SearchGroups, NothingReported
<1>2. n \in Nat /\ DOMAIN groups = 1..n /\ base \in V
  <2>1. 0 \in 0..MaxInAll
    BY SearchAssumption
  <2>2. /\ NothingReported.results = <<>>
        /\ NothingReported \in [results : Seq(Result(All)), truncated : BOOLEAN,
                                total : 0..MaxInAll, over : BOOLEAN]
    BY <2>1 DEF NothingReported
  <2>3. Len(NothingReported.results) <= limit
    BY <2>2
  <2>4. NothingReported \in SearchState(All, limit)
    BY <2>2, <2>3 DEF SearchState
  <2> QED BY <2>4
<1>3. \A v \in V, i \in 1..n : TakeGroup(v, groups[i], limit) \in V
  <2>1. \A i \in 1..n : groups[i] \in Group(All)
    OBVIOUS
  <2> QED BY <2>1, TakeGroupStep
<1>4. \A v \in V, i \in 1..n : g[<<v, i>>] = TakeGroup(v, groups[i], limit)
  OBVIOUS
<1> HIDE DEF n, V, g, base
<1>5. Closed(n, V, g)
  BY <1>3, <1>4 DEF Closed
<1>6. PICK f : FoldsTo(f, n, V, base, g)
  BY <1>2, <1>5, FoldExists
<1>7. \A s \in SUBSET (1..n) : s # {} => Max(s) \in 1..n
  BY <1>2, MaxIn
<1>8. f = Body(f)
  BY <1>2, <1>4, <1>6, <1>7 DEF FoldsTo
<1>9. iter = Body(iter)
  <2> HIDE DEF Body
  <2> QED BY <1>8
<1> HIDE DEF iter
<1>10. Unfolds(iter, n, V, base, g)
  BY <1>2, <1>4, <1>7, <1>9 DEF Unfolds
<1>11. PICK F : Ladder(F, n, V, base, g) /\ iter[1..n] = F[n]
  BY <1>2, <1>5, <1>10, FoldLadder
<1>12. \A i \in 1..n : F[i] = TakeGroup(F[i-1], groups[i], limit)
  <2>1. \A i \in 1..n : F[i-1] \in V
    BY <1>2, <1>11 DEF Ladder
  <2> QED BY <2>1, <1>4, <1>11 DEF Ladder
<1>13. SearchGroups(groups, limit) = F[n]
  BY <1>1, <1>2, <1>11
<1> HIDE DEF Body
<1> QED BY <1>11, <1>12, <1>13 DEF n, V, base, Ladder

\* With one more group.
LEMMA SearchGroupsAppend ==
  ASSUME NEW All, \A f \in All : FileIsSane(f), NEW limit \in Nat,
         NEW groups \in Seq(Group(All)), NEW x \in Group(All)
  PROVE  /\ SearchGroups(groups, limit) \in SearchState(All, limit)
         /\ SearchGroups(Append(groups, x), limit) = TakeGroup(SearchGroups(groups, limit), x, limit)
<1> DEFINE b == Append(groups, x)
           n == Len(groups)
<1>1. /\ b \in Seq(Group(All)) /\ Len(b) = n + 1 /\ b[n+1] = x
      /\ \A i \in 1..n : b[i] = groups[i]
  BY AppendProperties
<1>2. PICK F \in [0..n -> SearchState(All, limit)] :
            /\ F[0] = NothingReported
            /\ \A i \in 1..n : F[i] = TakeGroup(F[i-1], groups[i], limit)
            /\ SearchGroups(groups, limit) = F[n]
  BY SearchGroupsSteps
<1> HIDE DEF b
<1>3. PICK G \in [0..Len(b) -> SearchState(All, limit)] :
            /\ G[0] = NothingReported
            /\ \A i \in 1..Len(b) : G[i] = TakeGroup(G[i-1], b[i], limit)
            /\ SearchGroups(b, limit) = G[Len(b)]
  BY <1>1, SearchGroupsSteps
<1> DEFINE T == {i \in Nat : i <= n => F[i] = G[i]}
<1>4. n \in Nat
  OBVIOUS
<1>5. 0 \in T
  BY <1>2, <1>3
<1>6. ASSUME NEW i \in Nat, i \in T PROVE i + 1 \in T
  <2> SUFFICES ASSUME i + 1 <= n PROVE F[i+1] = G[i+1]
    OBVIOUS
  <2>1. i + 1 \in 1..n /\ i + 1 \in 1..Len(b) /\ (i + 1) - 1 = i
    BY <1>1, <1>4
  <2>2. F[i] = G[i]
    BY <1>4, <1>6, <2>1
  <2> QED BY <1>1, <1>2, <1>3, <2>1, <2>2
<1> HIDE DEF T
<1>7. n \in T
  BY <1>4, <1>5, <1>6, NatSetInduction
<1>8. F[n] = G[n]
  BY <1>4, <1>7 DEF T
<1>9. G[n+1] = TakeGroup(G[n], b[n+1], limit)
  <2>1. n + 1 \in 1..Len(b) /\ (n + 1) - 1 = n
    BY <1>1, <1>4
  <2> QED BY <1>3, <2>1
<1>10. F[n] \in SearchState(All, limit)
  BY <1>2, <1>4
<1> QED BY <1>1, <1>2, <1>3, <1>8, <1>9, <1>10 DEF b

\* Matches are lines of the files of a turn in which the query was found.
FoundThere(ms, files) ==
  \A j \in 1..Len(ms) : \E b \in 1..Len(files) :
     \E i \in FoundIn(files[b]) : ms[j] = <<files[b], i>>

\* Matches have every line of the files of a turn with the query, once.
AllThere(ms, files) ==
  /\ \A b \in 1..Len(files) : \A i \in HitsOf(files[b]) :
        \E j \in 1..Len(ms) : ms[j] = <<files[b], i>>
  /\ (\A a, b \in 1..Len(files) : files[a] = files[b] => a = b) =>
        \A j, k \in 1..Len(ms) : ms[j] = ms[k] => j = k

\* A result is what was found in a group, all of it unless that is said.
IsResultOf(result, group, truncated) ==
  /\ result.turn = group.turn
  /\ Len(result.matches) \in 1..MaxPerTurn
  /\ FoundThere(result.matches, group.files)
  /\ ~truncated => AllThere(result.matches, group.files)

\* There is a result for a turn.
IsReported(v, turn) == \E k \in 1..Len(v.results) : v.results[k].turn = turn

\* What has been reported of the first groups.
GroupsSearched(v, gs) ==
  /\ \A k \in 1..Len(v.results) : \E a \in 1..Len(gs) :
        IsResultOf(v.results[k], gs[a], v.truncated)
  /\ \A k, l \in 1..Len(v.results) : k < l => v.results[l].turn < v.results[k].turn
  /\ v.over => v.truncated
  /\ \A a \in 1..Len(gs) :
        /\ \E b \in 1..Len(gs[a].files) : FoundIn(gs[a].files[b]) # {}
        /\ ~IsReported(v, gs[a].turn)
        => v.over /\ \A k \in 1..Len(v.results) : gs[a].turn < v.results[k].turn
  /\ ~v.truncated => \A a \in 1..Len(gs) :
        (\E b \in 1..Len(gs[a].files) : HitsOf(gs[a].files[b]) # {}) =>
           IsReported(v, gs[a].turn)

\* What is reported of a group.
LEMMA KeptIsResult ==
  ASSUME NEW All, \A f \in All : FileIsSane(f), NEW limit \in Nat,
         NEW v \in SearchState(All, limit), NEW g \in Group(All), NEW cut \in BOOLEAN,
         Stops(v, g) \/ SearchTurn(g.files).cut => cut
  PROVE  /\ Reportable(v, g) # <<>> =>
              IsResultOf([turn |-> g.turn, matches |-> Reportable(v, g)], g, cut)
         /\ (\E b \in 1..Len(g.files) : FoundIn(g.files[b]) # {}) /\ Reportable(v, g) = <<>> =>
              Stops(v, g)
         /\ (\E b \in 1..Len(g.files) : HitsOf(g.files[b]) # {}) /\ Reportable(v, g) = <<>> => cut
<1> DEFINE found == SearchTurn(g.files)
           kept == Reportable(v, g)
           files == g.files
<1>1. files \in Seq(All)
  BY DEF Group
<1>2. found \in TurnState(All) /\ FilesSearched(found, files)
  BY <1>1, TurnIsSearched
<1>3. MatchesKept(kept, v, g) /\ kept \in Seq(All \X Nat) /\ Len(kept) \in Nat
  <2>1. MatchesKept(Reportable(v, g), v, g) /\ Reportable(v, g) \in Seq(All \X Nat)
    BY TakeGroupStep
  <2> QED BY <2>1, LenProperties
<1>4. /\ found.matches \in Seq(All \X Nat) /\ Len(found.matches) \in Nat
      /\ Len(found.matches) <= MaxPerTurn /\ MaxPerTurn \in Nat
  <2>1. found.matches \in Seq(All \X Nat) /\ Len(found.matches) <= MaxPerTurn
    BY <1>2 DEF TurnState
  <2> QED BY <2>1, LenProperties, SearchAssumption
<1>5. Stops(v, g) \/ found.cut => cut
  OBVIOUS
<1> HIDE DEF found, kept, files
<1>6. kept = <<>> <=> Len(kept) = 0
  BY <1>3, EmptySeq
<1>7. FoundThere(kept, files)
  <2>1. \A k \in 1..Len(found.matches) : \E b \in 1..Len(files) :
           \E i \in FoundIn(files[b]) : found.matches[k] = <<files[b], i>>
    BY <1>2 DEF FilesSearched
  <2>2. \A k \in 1..Len(kept) : k \in 1..Len(found.matches) /\ kept[k] = found.matches[k]
    BY <1>3 DEF MatchesKept, found
  <2>3. \A j \in 1..Len(kept) : \E b \in 1..Len(files) :
           \E i \in FoundIn(files[b]) : kept[j] = <<files[b], i>>
    BY <2>1, <2>2
  <2> QED BY <2>3 DEF FoundThere
<1>8. ~cut => AllThere(kept, files)
  <2> SUFFICES ASSUME ~cut PROVE AllThere(kept, files)
    OBVIOUS
  <2>1. kept = found.matches /\ ~found.cut
    BY <1>3, <1>5 DEF MatchesKept, found
  <2> QED BY <1>2, <2>1 DEF FilesSearched, AllThere
<1>9. kept # <<>> => IsResultOf([turn |-> g.turn, matches |-> kept], g, cut)
  <2> SUFFICES ASSUME kept # <<>> PROVE IsResultOf([turn |-> g.turn, matches |-> kept], g, cut)
    OBVIOUS
  <2> DEFINE res == [turn |-> g.turn, matches |-> kept]
  <2>1. res.turn = g.turn /\ res.matches = kept
    OBVIOUS
  <2>2. Len(kept) \in 1..MaxPerTurn
    BY <1>3, <1>4, <1>6 DEF MatchesKept, found
  <2> HIDE DEF res
  <2>3. IsResultOf(res, g, cut)
    BY <1>7, <1>8, <2>1, <2>2 DEF IsResultOf, files
  <2> QED BY <2>3 DEF res
<1>10. (\E b \in 1..Len(files) : FoundIn(files[b]) # {}) /\ kept = <<>> => Stops(v, g)
  <2> SUFFICES ASSUME \E b \in 1..Len(files) : FoundIn(files[b]) # {}, kept = <<>>, ~Stops(v, g)
               PROVE  FALSE
    OBVIOUS
  <2>1. Len(found.matches) # 0
    BY <1>2 DEF FilesSearched
  <2> QED BY <1>3, <1>6, <2>1 DEF MatchesKept, found
<1>11. (\E b \in 1..Len(files) : HitsOf(files[b]) # {}) /\ kept = <<>> => cut
  <2> SUFFICES ASSUME NEW b \in 1..Len(files), NEW i \in HitsOf(files[b]), kept = <<>>, ~cut
               PROVE  FALSE
    OBVIOUS
  <2>1. \E j \in 1..Len(kept) : kept[j] = <<files[b], i>>
    BY <1>8 DEF AllThere
  <2>2. 1..Len(kept) = {}
    BY <1>4, <1>6
  <2> QED BY <2>1, <2>2
<1> QED BY <1>9, <1>10, <1>11 DEF kept, files

\* The step from some groups to an older one.
LEMMA OneGroupFurther ==
  ASSUME NEW All, \A f \in All : FileIsSane(f), NEW limit \in Nat,
         NEW v \in SearchState(All, limit), NEW gs \in Seq(Group(All)), NEW g \in Group(All),
         \A a \in 1..Len(gs) : g.turn < gs[a].turn, GroupsSearched(v, gs)
  PROVE  GroupsSearched(TakeGroup(v, g, limit), Append(gs, g))
<1> DEFINE more == Append(gs, g)
           n == Len(gs)
           w == TakeGroup(v, g, limit)
           kept == Reportable(v, g)
           full == IsFull(v, g, limit)
           new == [turn |-> g.turn, matches |-> kept]
           Seen(h) == \E b \in 1..Len(h.files) : FoundIn(h.files[b]) # {}
           Hit(h) == \E b \in 1..Len(h.files) : HitsOf(h.files[b]) # {}
<1>1. /\ Len(more) = n + 1 /\ more[n + 1] = g /\ n \in Nat
      /\ \A a \in 1..n : more[a] = gs[a] /\ a \in 1..Len(more)
      /\ n + 1 \in 1..Len(more)
      /\ \A a \in 1..Len(more) : a \in 1..n \/ a = n + 1
  <2>1. /\ Len(more) = n + 1 /\ more[n + 1] = g /\ n \in Nat
        /\ \A a \in 1..n : more[a] = gs[a]
    BY AppendProperties
  <2> HIDE DEF more, n
  <2> QED BY <2>1
<1>2. /\ w \in SearchState(All, limit)
      /\ v.over => w = v
      /\ ~v.over => /\ w.results = IF kept = <<>> \/ full THEN v.results ELSE Append(v.results, new)
                    /\ w.truncated <=> v.truncated \/ Stops(v, g) \/ full \/ SearchTurn(g.files).cut
                    /\ w.over <=> Stops(v, g) \/ full
  <2>1. w \in SearchState(All, limit) /\ GroupTaken(w, v, g, limit)
    BY TakeGroupStep
  <2> HIDE DEF w
  <2> QED BY <2>1 DEF GroupTaken
<1>3. v.results \in Seq(Result(All)) /\ Len(v.results) \in Nat
  <2>1. v.results \in Seq(Result(All))
    BY DEF SearchState
  <2> QED BY <2>1, LenProperties
<1>4. w.truncated \in BOOLEAN
  BY <1>2 DEF SearchState
<1>5. /\ \A k \in 1..Len(v.results) : \E a \in 1..n : IsResultOf(v.results[k], gs[a], v.truncated)
      /\ \A k, l \in 1..Len(v.results) : k < l => v.results[l].turn < v.results[k].turn
      /\ v.over => v.truncated
      /\ \A a \in 1..n : Seen(gs[a]) /\ ~IsReported(v, gs[a].turn)
           => v.over /\ \A k \in 1..Len(v.results) : gs[a].turn < v.results[k].turn
      /\ ~v.truncated => \A a \in 1..n : Hit(gs[a]) => IsReported(v, gs[a].turn)
  BY DEF GroupsSearched
<1>6. \A k \in 1..Len(v.results) : g.turn < v.results[k].turn
  <2> SUFFICES ASSUME NEW k \in 1..Len(v.results) PROVE g.turn < v.results[k].turn
    OBVIOUS
  <2>1. PICK a \in 1..n : IsResultOf(v.results[k], gs[a], v.truncated)
    BY <1>5
  <2>2. v.results[k].turn = gs[a].turn
    BY <2>1 DEF IsResultOf
  <2> QED BY <2>2
<1>7. ASSUME v.truncated => w.truncated, NEW r, NEW h, IsResultOf(r, h, v.truncated)
      PROVE  IsResultOf(r, h, w.truncated)
  BY <1>7 DEF IsResultOf
<1> HIDE DEF more, w, n, Seen, Hit
<1>8. CASE v.over
  <2>1. w = v
    BY <1>2, <1>8
  <2>2. \A k \in 1..Len(v.results) : \E a \in 1..Len(more) : IsResultOf(v.results[k], more[a], v.truncated)
    BY <1>1, <1>5
  <2>3. \A a \in 1..Len(more) : Seen(more[a]) /\ ~IsReported(v, more[a].turn)
           => v.over /\ \A k \in 1..Len(v.results) : more[a].turn < v.results[k].turn
    BY <1>1, <1>5, <1>6, <1>8
  <2>4. GroupsSearched(v, more)
    BY <1>5, <1>8, <2>2, <2>3 DEF GroupsSearched, Seen
  <2> QED BY <2>1, <2>4 DEF w, more
<1>9. CASE ~v.over
  <2>1. /\ w.results = IF kept = <<>> \/ full THEN v.results ELSE Append(v.results, new)
        /\ w.truncated <=> v.truncated \/ Stops(v, g) \/ full \/ SearchTurn(g.files).cut
        /\ w.over <=> Stops(v, g) \/ full
    BY <1>2, <1>9
  <2>2. Stops(v, g) \/ SearchTurn(g.files).cut => w.truncated
    BY <2>1
  <2>3. /\ kept # <<>> => IsResultOf(new, g, w.truncated)
        /\ Seen(g) /\ kept = <<>> => Stops(v, g)
        /\ Hit(g) /\ kept = <<>> => w.truncated
    <3>1. /\ Reportable(v, g) # <<>> =>
                IsResultOf([turn |-> g.turn, matches |-> Reportable(v, g)], g, w.truncated)
          /\ (\E b \in 1..Len(g.files) : FoundIn(g.files[b]) # {}) /\ Reportable(v, g) = <<>> =>
                Stops(v, g)
          /\ (\E b \in 1..Len(g.files) : HitsOf(g.files[b]) # {}) /\ Reportable(v, g) = <<>> => w.truncated
      BY <1>4, <2>2, KeptIsResult
    <3> QED BY <3>1 DEF Seen, Hit
  <2>4. w.over => w.truncated
    BY <2>1
  <2>5. \A a \in 1..n : Seen(gs[a]) => IsReported(v, gs[a].turn)
    BY <1>5, <1>9
  <2>6. \A k \in 1..Len(v.results) : \E a \in 1..Len(more) :
           IsResultOf(v.results[k], more[a], w.truncated)
    BY <1>1, <1>5, <1>7, <2>1
  <2>7. CASE kept = <<>> \/ full
    <3>1. w.results = v.results
      BY <2>1, <2>7
    <3>2. \A turn : IsReported(w, turn) <=> IsReported(v, turn)
      BY <3>1 DEF IsReported
    <3>3. Seen(g) => w.over
      BY <2>1, <2>3, <2>7
    <3>4. \A a \in 1..Len(more) : Seen(more[a]) /\ ~IsReported(w, more[a].turn)
             => w.over /\ \A k \in 1..Len(w.results) : more[a].turn < w.results[k].turn
      BY <1>1, <1>6, <2>5, <3>1, <3>2, <3>3
    <3>5. ~w.truncated => \A a \in 1..Len(more) : Hit(more[a]) => IsReported(w, more[a].turn)
      <4>1. ~w.truncated => ~Hit(g)
        BY <2>1, <2>3, <2>7
      <4> QED BY <1>1, <1>5, <2>1, <3>2, <4>1
    <3>6. \A k \in 1..Len(w.results) : \E a \in 1..Len(more) :
             IsResultOf(w.results[k], more[a], w.truncated)
      BY <2>6, <3>1
    <3>7. \A k, l \in 1..Len(w.results) : k < l => w.results[l].turn < w.results[k].turn
      BY <1>5, <3>1
    <3>8. GroupsSearched(w, more)
      BY ONLY <2>4, <3>4, <3>5, <3>6, <3>7 DEF GroupsSearched, Seen, Hit
    <3> QED BY <3>8 DEF w, more
  <2>8. CASE ~(kept = <<>> \/ full)
    <3> DEFINE p == Len(v.results)
    <3>1. w.results = Append(v.results, new)
      BY <2>1, <2>8
    <3> HIDE DEF new
    <3>2. /\ Len(w.results) = p + 1 /\ w.results[p + 1] = new
          /\ \A k \in 1..p : w.results[k] = v.results[k]
      <4> DEFINE S == Result(All) \cup {new}
      <4>1. v.results \in Seq(S) /\ new \in S
        <5>1. Result(All) \subseteq S
          OBVIOUS
        <5> HIDE DEF S
        <5>2. v.results \in Seq(S)
          BY <1>3, <5>1
        <5> QED BY <5>2 DEF S
      <4> HIDE DEF S
      <4> QED BY <3>1, <4>1, AppendProperties
    <3>3. /\ \A k \in 1..p : k \in 1..Len(w.results)
          /\ p + 1 \in 1..Len(w.results)
          /\ \A k \in 1..Len(w.results) : k \in 1..p \/ k = p + 1
      <4> HIDE DEF p
      <4>1. p \in Nat
        BY <1>3 DEF p
      <4> QED BY <3>2, <4>1
    <3>4. new.turn = g.turn
      BY DEF new
    <3>5. IsReported(w, g.turn)
      BY <3>2, <3>3, <3>4 DEF IsReported
    <3>6. \A turn : IsReported(v, turn) => IsReported(w, turn)
      BY <3>2, <3>3 DEF IsReported
    <3>7. \A a \in 1..Len(more) : Seen(more[a]) => IsReported(w, more[a].turn)
      BY <1>1, <2>5, <3>5, <3>6
    <3>8. ~w.truncated => \A a \in 1..Len(more) : Hit(more[a]) => IsReported(w, more[a].turn)
      BY <1>1, <1>5, <2>1, <3>5, <3>6
    <3>9. \A k \in 1..Len(w.results) : \E a \in 1..Len(more) :
             IsResultOf(w.results[k], more[a], w.truncated)
      <4>1. IsResultOf(w.results[p + 1], more[n + 1], w.truncated)
        BY <1>1, <2>3, <2>8, <3>2
      <4> QED BY <1>1, <2>6, <3>2, <3>3, <4>1
    <3>10. ASSUME NEW k \in 1..Len(w.results), NEW l \in 1..Len(w.results), k < l
           PROVE  w.results[l].turn < w.results[k].turn
      <4>0. p \in Nat
        BY <1>3
      <4>1. k \in 1..p
        BY <3>3, <3>10, <4>0
      <4>2. w.results[k] = v.results[k] /\ g.turn < v.results[k].turn
        BY <1>6, <3>2, <4>1
      <4>3. CASE l \in 1..p
        BY <1>5, <3>2, <3>10, <4>1, <4>3
      <4>4. CASE l = p + 1
        BY <3>2, <3>4, <4>2, <4>4
      <4> QED BY <3>3, <4>3, <4>4
    <3>11. GroupsSearched(w, more)
      BY ONLY <2>4, <3>7, <3>8, <3>9, <3>10 DEF GroupsSearched, Seen, Hit
    <3> QED BY <3>11 DEF w, more
  <2> QED BY <2>7, <2>8
<1> QED BY <1>8, <1>9

\* Every group from the newest on.
LEMMA GroupsAreSearched ==
  ASSUME NEW All, \A f \in All : FileIsSane(f), NEW limit \in Nat,
         NEW gs \in Seq(Group(All)),
         \A a, b \in 1..Len(gs) : a < b => gs[b].turn < gs[a].turn
  PROVE  /\ SearchGroups(gs, limit) \in SearchState(All, limit)
         /\ GroupsSearched(SearchGroups(gs, limit), gs)
<1> DEFINE Falls(s) == \A a, b \in 1..Len(s) : a < b => s[b].turn < s[a].turn
           T == {s \in Seq(Group(All)) : SearchGroups(s, limit) \in SearchState(All, limit)
                   /\ (Falls(s) => GroupsSearched(SearchGroups(s, limit), s))}
<1>1. <<>> \in T
  <2>1. <<>> \in Seq(Group(All)) /\ Len(<<>>) = 0 /\ 1..0 = {}
    OBVIOUS
  <2>2. PICK F \in [0..Len(<<>>) -> SearchState(All, limit)] :
           F[0] = NothingReported /\ SearchGroups(<<>>, limit) = F[Len(<<>>)]
    BY <2>1, SearchGroupsSteps
  <2>3. SearchGroups(<<>>, limit) = NothingReported /\ NothingReported \in SearchState(All, limit)
    <3>1. 0 \in 0..Len(<<>>)
      BY <2>1
    <3> QED BY <2>1, <2>2, <3>1
  <2>4. NothingReported.results = <<>> /\ NothingReported.over = FALSE
    BY DEF NothingReported
  <2>5. GroupsSearched(NothingReported, <<>>)
    BY <2>1, <2>4 DEF GroupsSearched
  <2> QED BY <2>1, <2>3, <2>5
<1>2. ASSUME NEW s \in Seq(Group(All)), NEW g \in Group(All), s \in T PROVE Append(s, g) \in T
  <2> DEFINE v == SearchGroups(s, limit)
             more == Append(s, g)
             n == Len(s)
  <2>1. /\ Len(more) = n + 1 /\ more[n + 1] = g /\ n \in Nat /\ more \in Seq(Group(All))
        /\ \A a \in 1..n : more[a] = s[a]
    BY AppendProperties
  <2>2. v \in SearchState(All, limit) /\ (Falls(s) => GroupsSearched(v, s))
    BY <1>2
  <2>3. SearchGroups(Append(s, g), limit) = TakeGroup(v, g, limit)
    BY SearchGroupsAppend
  <2>4. TakeGroup(v, g, limit) \in SearchState(All, limit)
    <3> HIDE DEF v
    <3> QED BY <2>2, TakeGroupStep
  <2>5. ASSUME Falls(more) PROVE GroupsSearched(TakeGroup(v, g, limit), more)
    <3> HIDE DEF v
    <3>0. \A a \in 1..n : a \in 1..Len(more) /\ n + 1 \in 1..Len(more) /\ a < n + 1
      <4> HIDE DEF more, n
      <4> QED BY <2>1
    <3>1. \A a \in 1..n : g.turn < s[a].turn
      <4> SUFFICES ASSUME NEW a \in 1..n PROVE g.turn < s[a].turn
        OBVIOUS
      <4>1. more[n + 1].turn < more[a].turn
        BY <2>5, <3>0
      <4> QED BY <2>1, <4>1
    <3>2. Falls(s)
      BY <2>1, <2>5, <3>0
    <3> QED BY <2>2, <3>1, <3>2, OneGroupFurther
  <2> QED BY <2>1, <2>3, <2>4, <2>5
<1> HIDE DEF T
<1>3. gs \in T
  BY <1>1, <1>2, SeqSetInduction
<1> QED BY <1>3 DEF T

\* The lines of the files of a turn that contain the query.
HitsIn(files, turn) ==
  UNION {{<<f, i>> : i \in HitsOf(f)} : f \in {g \in files : g.turn = turn}}

\* A result lies within the lines with the query, and is all of them unless
\* that is said.
LEMMA ResultHits ==
  ASSUME NEW All, NEW g \in Group(All), GroupOf(g, All), NEW r \in Result(All),
         NEW cut \in BOOLEAN, IsResultOf(r, g, cut)
  PROVE  /\ ToSet(r.matches) \subseteq HitsIn(All, r.turn)
         /\ ~cut => ToSet(r.matches) = HitsIn(All, r.turn) /\ IsInjective(r.matches)
<1> DEFINE Of == {f \in All : f.turn = g.turn}
           m == r.matches
           files == g.files
<1>1. /\ files \in Seq(Of)
      /\ \A a, b \in 1..Len(files) : files[a] = files[b] => a = b
      /\ \A x \in Of : \E b \in 1..Len(files) : files[b] = x
  BY DEF GroupOf, Enumerates
<1>2. \A b \in 1..Len(files) : files[b] \in Of
  <2> HIDE DEF Of, files
  <2> QED BY ONLY <1>1, ElementOfSeq
<1>3. r.turn = g.turn /\ FoundThere(m, files) /\ (~cut => AllThere(m, files))
  BY DEF IsResultOf
<1>4. DOMAIN m = 1..Len(m)
  <2>1. m \in Seq(All \X Nat)
    BY DEF Result
  <2> HIDE DEF m
  <2> QED BY ONLY <2>1, LenProperties
<1>5. \A p : p \in HitsIn(All, r.turn) <=> \E f \in Of : \E i \in HitsOf(f) : p = <<f, i>>
  BY <1>3 DEF HitsIn
<1>6. \A p : p \in ToSet(m) <=> \E j \in 1..Len(m) : m[j] = p
  BY <1>4 DEF ToSet
<1> HIDE DEF Of, m, files
<1>7. ToSet(m) \subseteq HitsIn(All, r.turn)
  <2> SUFFICES ASSUME NEW j \in 1..Len(m) PROVE m[j] \in HitsIn(All, r.turn)
    BY <1>6
  <2>1. PICK b \in 1..Len(files) : \E i \in FoundIn(files[b]) : m[j] = <<files[b], i>>
    BY <1>3 DEF FoundThere
  <2>2. FoundIn(files[b]) \subseteq HitsOf(files[b])
    BY DEF FoundIn, HitsOf
  <2> QED BY <1>2, <1>5, <2>1, <2>2
<1>8. ASSUME ~cut PROVE ToSet(m) = HitsIn(All, r.turn) /\ IsInjective(m)
  <2>1. /\ \A b \in 1..Len(files) : \A i \in HitsOf(files[b]) :
             \E j \in 1..Len(m) : m[j] = <<files[b], i>>
        /\ \A j, k \in 1..Len(m) : m[j] = m[k] => j = k
    BY <1>1, <1>3, <1>8 DEF AllThere
  <2>2. IsInjective(m)
    BY <1>4, <2>1 DEF IsInjective
  <2>3. ASSUME NEW f \in Of, NEW i \in HitsOf(f) PROVE <<f, i>> \in ToSet(m)
    <3>1. PICK b \in 1..Len(files) : files[b] = f
      BY <1>1
    <3> QED BY <1>6, <2>1, <3>1
  <2>4. HitsIn(All, r.turn) \subseteq ToSet(m)
    BY <1>5, <2>3
  <2> QED BY <1>7, <2>2, <2>4
<1> QED BY <1>7, <1>8 DEF m

\* What there is to search is finite, and files are what they are.
LEMMA SearchableIsFinite ==
  ASSUME NEW s, SearchIsSane(s)
  PROVE  /\ IsFiniteSet(Searchable(s.archives, s.request))
         /\ \A f \in Searchable(s.archives, s.request) : FileIsSane(f)
<1> DEFINE archives == s.archives
           declared == {Declared(a) : a \in archives}
<1>1. IsFiniteSet(archives) /\ \A a \in archives : IsFiniteSet(a.files)
  BY DEF SearchIsSane
<1>2. \A a \in archives : \A f \in a.files : FileIsSane(f)
  BY DEF SearchIsSane, FileIsSane, SearchLine
<1>3. IsFiniteSet(declared)
  <2> DEFINE h == [a \in archives |-> Declared(a)]
  <2>1. h \in Surjection(archives, declared)
    BY DEF Surjection
  <2> HIDE DEF h, declared
  <2> QED BY <1>1, <2>1, FS_Surjection
<1>4. \A d \in declared : IsFiniteSet(d)
  <2> SUFFICES ASSUME NEW a \in archives PROVE IsFiniteSet(Declared(a))
    OBVIOUS
  <2>1. Declared(a) \in SUBSET a.files
    BY DEF Declared
  <2> QED BY <1>1, <2>1, FS_Subset
<1>5. IsFiniteSet(UNION declared)
  <2> HIDE DEF declared
  <2> QED BY <1>3, <1>4, FS_UNION
<1>6. Searchable(s.archives, s.request) \in SUBSET (UNION declared)
  BY DEF Searchable
<1>7. IsFiniteSet(Searchable(s.archives, s.request))
  <2> HIDE DEF declared
  <2> QED BY <1>5, <1>6, FS_Subset
<1>8. \A f \in UNION declared : FileIsSane(f)
  BY <1>2 DEF Declared
<1> HIDE DEF declared
<1> QED BY <1>6, <1>7, <1>8

\* Whatever is in the archives, and whatever is asked for.
LEMMA SearchTells ==
  ASSUME NEW s, SearchIsSane(s)
  PROVE  SearchTellsWhatItLeavesOut(s.archives, s.request)
<1> DEFINE All == Searchable(s.archives, s.request)
           limit == s.request.limit
           gs == Groups(All)
           found == SearchArchive(s.archives, s.request)
           hits(turn) == UNION {{<<f, i>> : i \in HitsOf(f)} :
                                  f \in {g \in All : g.turn = turn}}
           seen(turn) == \E f \in All : f.turn = turn /\ FoundIn(f) # {}
           reported == {found.results[k].turn : k \in DOMAIN found.results}
<1>1. limit \in Nat
  BY DEF SearchIsSane
<1>2. IsFiniteSet(All) /\ \A f \in All : FileIsSane(f)
  BY SearchableIsFinite
<1>3. found = SearchGroups(gs, limit)
  BY DEF SearchArchive
<1> HIDE DEF All, limit, found
<1>4. GroupsOf(gs, All)
  BY <1>2, GroupsInOrder
<1> HIDE DEF gs
<1>5. /\ gs \in Seq(Group(All))
      /\ \A a \in 1..Len(gs) : gs[a] \in Group(All) /\ GroupOf(gs[a], All)
      /\ \A a, b \in 1..Len(gs) : a < b => gs[b].turn < gs[a].turn
      /\ \A f \in All : \E a \in 1..Len(gs) : gs[a].turn = f.turn
  <2> DEFINE G == {g \in [turn : Nat, files : Seq(All)] : GroupOf(g, All)}
  <2>1. gs \in Seq(G)
    BY <1>4 DEF GroupsOf
  <2>2. G \subseteq Group(All) /\ \A g \in G : GroupOf(g, All)
    BY DEF Group
  <2> HIDE DEF G
  <2>3. gs \in Seq(Group(All)) /\ \A a \in 1..Len(gs) : gs[a] \in G
    BY <2>1, <2>2, ElementOfSeq
  <2> QED BY <1>4, <2>2, <2>3 DEF GroupsOf
<1>6. found \in SearchState(All, limit) /\ GroupsSearched(found, gs)
  BY <1>1, <1>2, <1>3, <1>5, GroupsAreSearched
<1>7. /\ found.results \in Seq(Result(All)) /\ found.truncated \in BOOLEAN
      /\ Len(found.results) <= limit
  BY <1>6 DEF SearchState
<1>8. /\ DOMAIN found.results = 1..Len(found.results) /\ Len(found.results) \in Nat
      /\ \A k \in 1..Len(found.results) : found.results[k] \in Result(All)
  <2> DEFINE rs == found.results
  <2>1. rs \in Seq(Result(All))
    BY <1>7
  <2> HIDE DEF rs
  <2>2. DOMAIN rs = 1..Len(rs) /\ Len(rs) \in Nat /\ \A k \in 1..Len(rs) : rs[k] \in Result(All)
    BY ONLY <2>1, LenProperties, ElementOfSeq
  <2> QED BY <2>2 DEF rs
<1>9. /\ \A k \in 1..Len(found.results) : \E a \in 1..Len(gs) :
            IsResultOf(found.results[k], gs[a], found.truncated)
      /\ \A k, l \in 1..Len(found.results) : k < l => found.results[l].turn < found.results[k].turn
      /\ found.over => found.truncated
      /\ \A a \in 1..Len(gs) :
            /\ \E b \in 1..Len(gs[a].files) : FoundIn(gs[a].files[b]) # {}
            /\ ~IsReported(found, gs[a].turn)
            => found.over /\ \A k \in 1..Len(found.results) : gs[a].turn < found.results[k].turn
      /\ ~found.truncated => \A a \in 1..Len(gs) :
            (\E b \in 1..Len(gs[a].files) : HitsOf(gs[a].files[b]) # {}) =>
               IsReported(found, gs[a].turn)
  BY <1>6 DEF GroupsSearched
<1>10. \A turn : IsReported(found, turn) <=> turn \in reported
  BY <1>8 DEF IsReported
<1>11. \A f \in All : \E a \in 1..Len(gs) : /\ gs[a].turn = f.turn
                                            /\ \E b \in 1..Len(gs[a].files) : gs[a].files[b] = f
  <2> SUFFICES ASSUME NEW f \in All
               PROVE  \E a \in 1..Len(gs) : /\ gs[a].turn = f.turn
                                            /\ \E b \in 1..Len(gs[a].files) : gs[a].files[b] = f
    OBVIOUS
  <2>1. PICK a \in 1..Len(gs) : gs[a].turn = f.turn
    BY <1>5
  <2>2. GroupOf(gs[a], All)
    BY <1>5
  <2>3. \E b \in 1..Len(gs[a].files) : gs[a].files[b] = f
    BY <2>1, <2>2 DEF GroupOf, Enumerates
  <2> QED BY <2>1, <2>3
<1>12. \A turn : hits(turn) = HitsIn(All, turn)
  BY DEF HitsIn
<1> HIDE DEF hits, reported
<1>13. ASSUME NEW k \in DOMAIN found.results
       PROVE  /\ Len(found.results[k].matches) \in 1..MaxPerTurn
              /\ ToSet(found.results[k].matches) \subseteq hits(found.results[k].turn)
              /\ k > 1 => found.results[k - 1].turn > found.results[k].turn
              /\ ~found.truncated =>
                    /\ ToSet(found.results[k].matches) = hits(found.results[k].turn)
                    /\ IsInjective(found.results[k].matches)
  <2>0. k \in 1..Len(found.results)
    BY <1>8
  <2> DEFINE r == found.results[k]
  <2>1. PICK a \in 1..Len(gs) : IsResultOf(r, gs[a], found.truncated)
    BY <1>9, <2>0
  <2>2. r \in Result(All) /\ gs[a] \in Group(All) /\ GroupOf(gs[a], All)
    BY <1>5, <1>8, <2>0
  <2>3. k > 1 => found.results[k - 1].turn > found.results[k].turn
    <3> SUFFICES ASSUME k > 1 PROVE found.results[k - 1].turn > found.results[k].turn
      OBVIOUS
    <3>1. k - 1 \in 1..Len(found.results) /\ k - 1 < k
      BY <1>8, <2>0
    <3>2. found.results[k].turn < found.results[k - 1].turn
      BY <1>9, <2>0, <3>1
    <3> QED BY <3>2
  <2> HIDE DEF r
  <2>4. /\ ToSet(r.matches) \subseteq HitsIn(All, r.turn)
        /\ ~found.truncated => ToSet(r.matches) = HitsIn(All, r.turn) /\ IsInjective(r.matches)
    BY <1>7, <2>1, <2>2, ResultHits
  <2>5. Len(r.matches) \in 1..MaxPerTurn
    BY <2>1 DEF IsResultOf
  <2>6. hits(r.turn) = HitsIn(All, r.turn)
    BY <1>12
  <2> QED BY <2>3, <2>4, <2>5, <2>6 DEF r
<1>14. ASSUME NEW f \in All, seen(f.turn), f.turn \notin reported
       PROVE  found.truncated /\ \A turn \in reported : turn > f.turn
  <2>1. PICK h \in All : h.turn = f.turn /\ FoundIn(h) # {}
    BY <1>14
  <2>2. PICK a \in 1..Len(gs) : /\ gs[a].turn = h.turn
                                /\ \E b \in 1..Len(gs[a].files) : gs[a].files[b] = h
    BY <1>11
  <2>3. \E b \in 1..Len(gs[a].files) : FoundIn(gs[a].files[b]) # {}
    BY <2>1, <2>2
  <2>4. gs[a].turn = f.turn
    BY <2>1, <2>2
  <2>5. ~IsReported(found, gs[a].turn)
    BY <1>10, <1>14, <2>4
  <2>6. found.truncated /\ \A k \in 1..Len(found.results) : gs[a].turn < found.results[k].turn
    BY <1>9, <2>3, <2>5
  <2>7. \A turn \in reported : f.turn < turn
    BY <1>8, <2>4, <2>6 DEF reported
  <2> QED BY <2>6, <2>7
<1>15. ASSUME ~found.truncated, NEW f \in All, HitsOf(f) # {} PROVE f.turn \in reported
  <2>1. PICK a \in 1..Len(gs) : /\ gs[a].turn = f.turn
                                /\ \E b \in 1..Len(gs[a].files) : gs[a].files[b] = f
    BY <1>11
  <2>2. \E b \in 1..Len(gs[a].files) : HitsOf(gs[a].files[b]) # {}
    BY <1>15, <2>1
  <2>3. IsReported(found, gs[a].turn)
    BY <1>9, <1>15, <2>2
  <2> QED BY <1>10, <2>1, <2>3
<1>16. Len(found.results) <= s.request.limit
  BY <1>7 DEF limit
<1> QED BY <1>13, <1>14, <1>15, <1>16
        DEF SearchTellsWhatItLeavesOut, found, All, hits, reported

\* Whatever the limits are that a search stops at: one that does not say so
\* has left nothing out, and one that does is in order, within its limits,
\* reports only what is there and skips no turn for an older one
\* (index.ts:352-436, node-literal-search.ts:51-175).
THEOREM SearchesSayWhatTheyLeaveOut == AnyInput => []SearchIsCompleteOrSaysSo
<1>1. NoInput => SearchIsCompleteOrSaysSo
  BY DEF NoInput, Nothing, SearchIsCompleteOrSaysSo
<1>2. SearchIsCompleteOrSaysSo /\ [TakeInput]_input => SearchIsCompleteOrSaysSo'
  <2> SUFFICES ASSUME SearchIsCompleteOrSaysSo, [TakeInput]_input
               PROVE  SearchIsCompleteOrSaysSo'
    OBVIOUS
  <2>1. CASE UNCHANGED input
    BY <2>1 DEF SearchIsCompleteOrSaysSo
  <2>2. CASE TakeArchives
    <3>1. PICK s \in Searches :
             input' = [of |-> "search", request |-> s.request, archives |-> s.archives]
      BY <2>2 DEF TakeArchives
    <3>2. SearchTellsWhatItLeavesOut(s.archives, s.request)
      BY SearchesAssumption, SearchTells
    <3>3. input'.request = s.request /\ input'.archives = s.archives
      BY <3>1
    <3> QED BY <3>2, <3>3 DEF SearchIsCompleteOrSaysSo
  <2>3. CASE TakeRange \/ TakeTranscript \/ TakeTargets \/ TakeSession
    BY <2>3 DEF TakeRange, TakeTranscript, TakeTargets, TakeSession, SearchIsCompleteOrSaysSo
  <2> QED BY <2>1, <2>2, <2>3 DEF TakeInput
<1> QED BY <1>1, <1>2, PTL DEF AnyInput
==============================================================================
