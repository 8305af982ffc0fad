---------------------------- MODULE HistoryProofs -----------------------------
(***************************************************************************)
(* Theorems about a job over the registries E4 to E6, for every set of     *)
(* directories and everything their files may hold.                        *)
(***************************************************************************)
EXTENDS HistoryChain, NaturalFacts, FiniteSetTheorems, TLAPS

-----------------------------------------------------------------------------
(* Inclusion paths.  What check_inclusion has computed after so many       *)
(* siblings, and the hashes so many steps below a root, are recursive      *)
(* functions whose values no given set contains.  The first stages of both *)
(* exist by induction, any two of them agree, and so make up a function.   *)

Joined(sibling, hash) ==
  IF sibling.side = "left" THEN E5!node_hash(sibling.hash, hash)
  ELSE E5!node_hash(hash, sibling.hash)

Opened(hashes) == UNION {{tree[2], tree[3]} : tree \in {t \in hashes : t[1] = "node"}}

Stage(leaf, path, root, f, n) ==
  IF n = 0 THEN <<leaf, {root}>>
  ELSE <<Joined(path[n], f[n - 1][1]), Opened(f[n - 1][2])>>

Stages(leaf, path, root, n, g) == g = [i \in 0..n |-> Stage(leaf, path, root, g, i)]

\* A stage depends on the one before alone.
LEMMA StageIsLocal ==
  ASSUME NEW leaf, NEW path, NEW root, NEW g, NEW h, NEW i \in Nat,
         i # 0 => g[i - 1] = h[i - 1]
  PROVE  Stage(leaf, path, root, g, i) = Stage(leaf, path, root, h, i)
BY DEF Stage

\* The longer of two runs of stages goes on where the shorter ends.
LEMMA StagesAgree ==
  ASSUME NEW leaf, NEW path, NEW root, NEW m \in Nat, NEW n \in Nat, m <= n,
         NEW g, Stages(leaf, path, root, m, g), NEW h, Stages(leaf, path, root, n, h)
  PROVE  \A i \in 0..m : g[i] = h[i]
<1>1. /\ \A i \in 0..m : g[i] = Stage(leaf, path, root, g, i)
      /\ \A i \in 0..n : h[i] = Stage(leaf, path, root, h, i)
  BY DEF Stages
<1> DEFINE S == {i \in Nat : i \in 0..m => g[i] = h[i]}
<1>2. 0 \in S
  <2>1. g[0] = Stage(leaf, path, root, g, 0) /\ h[0] = Stage(leaf, path, root, h, 0)
    BY <1>1
  <2> QED
    BY <2>1, StageIsLocal
<1>3. ASSUME NEW i \in Nat, i \in S PROVE i + 1 \in S
  <2> SUFFICES ASSUME i + 1 \in 0..m PROVE g[i + 1] = h[i + 1]
    OBVIOUS
  <2>1. i \in 0..m /\ i + 1 \in 0..n /\ i + 1 \in Nat /\ (i + 1) - 1 = i
    OBVIOUS
  <2>2. g[i] = h[i]
    BY <1>3, <2>1
  <2>3. Stage(leaf, path, root, g, i + 1) = Stage(leaf, path, root, h, i + 1)
    BY <2>1, <2>2, StageIsLocal
  <2> QED
    BY <1>1, <2>1, <2>3
<1>4. \A i \in Nat : i \in S
  <2> HIDE DEF S
  <2> QED
    BY <1>2, <1>3, SetInduction
<1> QED
  BY <1>4

\* There are runs of any length.
LEMMA StagesExist ==
  ASSUME NEW leaf, NEW path, NEW root
  PROVE  \A n \in Nat : \E g : Stages(leaf, path, root, n, g)
<1> DEFINE S == {n \in Nat : \E g : Stages(leaf, path, root, n, g)}
<1>1. 0 \in S
  <2> DEFINE g == [i \in 0..0 |-> <<leaf, {root}>>]
  <2>1. \A i \in 0..0 : <<leaf, {root}>> = Stage(leaf, path, root, g, i)
    BY DEF Stage
  <2>2. Stages(leaf, path, root, 0, g)
    BY <2>1 DEF Stages
  <2> QED
    BY <2>2
<1>2. ASSUME NEW n \in Nat, n \in S PROVE n + 1 \in S
  <2>1. PICK g : Stages(leaf, path, root, n, g)
    BY <1>2
  <2>2. \A i \in 0..n : g[i] = Stage(leaf, path, root, g, i)
    BY <2>1 DEF Stages
  <2> DEFINE h == [i \in 0..(n + 1) |-> Stage(leaf, path, root, g, i)]
  <2>3. \A i \in 0..n : h[i] = g[i]
    BY <2>2
  <2>4. ASSUME NEW i \in 0..(n + 1)
        PROVE  Stage(leaf, path, root, g, i) = Stage(leaf, path, root, h, i)
    <3>1. i # 0 => i - 1 \in 0..n /\ i \in Nat
      OBVIOUS
    <3>2. i # 0 => g[i - 1] = h[i - 1]
      BY <2>3, <3>1
    <3> HIDE DEF h
    <3> QED
      BY <3>2, StageIsLocal
  <2>5. h = [i \in 0..(n + 1) |-> Stage(leaf, path, root, h, i)]
    BY <2>4
  <2>6. Stages(leaf, path, root, n + 1, h)
    <3> HIDE DEF h
    <3> QED
      BY <2>5 DEF Stages
  <2> QED
    BY <2>6
<1>3. \A n \in Nat : n \in S
  <2> HIDE DEF S
  <2> QED
    BY <1>1, <1>2, SetInduction
<1> QED
  BY <1>3

AllStages(leaf, path, root, f) ==
  /\ f[0] = <<leaf, {root}>>
  /\ \A n \in Nat : f[n + 1] = <<Joined(path[n + 1], f[n][1]), Opened(f[n][2])>>

\* So both recursions have a function that satisfies them.
LEMMA StagesTogether ==
  ASSUME NEW leaf, NEW path, NEW root
  PROVE  \E f : AllStages(leaf, path, root, f)
<1> DEFINE run(n) == CHOOSE g : Stages(leaf, path, root, n, g)
           f == [n \in Nat |-> run(n)[n]]
<1>1. \A n \in Nat : Stages(leaf, path, root, n, run(n))
  BY StagesExist
<1> HIDE DEF run
<1>2. \A n \in Nat : \A i \in 0..n : run(n)[i] = Stage(leaf, path, root, run(n), i)
  BY <1>1 DEF Stages
<1>3. f[0] = <<leaf, {root}>>
  <2>1. run(0)[0] = Stage(leaf, path, root, run(0), 0)
    <3>1. 0 \in Nat /\ 0 \in 0..0
      OBVIOUS
    <3> QED
      BY <1>2, <3>1
  <2> QED
    BY <2>1 DEF Stage
<1>4. ASSUME NEW n \in Nat
      PROVE  f[n + 1] = <<Joined(path[n + 1], f[n][1]), Opened(f[n][2])>>
  <2>1. Stages(leaf, path, root, n, run(n)) /\ Stages(leaf, path, root, n + 1, run(n + 1))
    BY <1>1
  <2>2. n + 1 \in Nat /\ n <= n + 1 /\ n \in 0..n /\ n + 1 \in 0..(n + 1)
    OBVIOUS
  <2>3. run(n)[n] = run(n + 1)[n]
    BY <2>1, <2>2, StagesAgree
  <2>4. run(n + 1)[n + 1] = Stage(leaf, path, root, run(n + 1), n + 1)
    BY <1>2, <2>2
  <2>5. n + 1 # 0 /\ (n + 1) - 1 = n
    OBVIOUS
  <2> QED
    BY <2>2, <2>3, <2>4, <2>5 DEF Stage
<1>5. AllStages(leaf, path, root, f)
  <2> HIDE DEF f
  <2> QED
    BY <1>3, <1>4 DEF AllStages
<1> QED
  BY <1>5

\* The climb from a leaf is what its definition says.
LEMMA ClimbedEquations ==
  ASSUME NEW leaf, NEW path
  PROVE  /\ E5!Climbed(leaf, path)[0] = leaf
         /\ \A n \in Nat : E5!Climbed(leaf, path)[n + 1]
                             = Joined(path[n + 1], E5!Climbed(leaf, path)[n])
<1> DEFINE body(f, n) ==
             IF n = 0 THEN leaf
             ELSE IF path[n].side = "left" THEN E5!node_hash(path[n].hash, f[n - 1])
             ELSE E5!node_hash(f[n - 1], path[n].hash)
<1>0. PICK f : AllStages(leaf, path, leaf, f)
  BY StagesTogether
<1>1. /\ f[0] = <<leaf, {leaf}>>
      /\ \A n \in Nat : f[n + 1] = <<Joined(path[n + 1], f[n][1]), Opened(f[n][2])>>
  BY <1>0 DEF AllStages
<1> DEFINE g == [n \in Nat |-> f[n][1]]
<1>2. \A n \in Nat : f[n][1] = body(g, n)
  <2> SUFFICES ASSUME NEW n \in Nat PROVE f[n][1] = body(g, n)
    OBVIOUS
  <2>1. CASE n = 0
    BY <1>1, <2>1
  <2>2. CASE n # 0
    <3>1. n - 1 \in Nat /\ (n - 1) + 1 = n
      BY <2>2
    <3>2. f[n][1] = Joined(path[n], f[n - 1][1])
      BY <1>1, <3>1
    <3> QED
      BY <2>2, <3>1, <3>2 DEF Joined
  <2> QED
    BY <2>1, <2>2
<1>3. g = [n \in Nat |-> body(g, n)]
  BY <1>2
<1>4. E5!Climbed(leaf, path) = [n \in Nat |-> body(E5!Climbed(leaf, path), n)]
  <2> HIDE DEF g
  <2> QED
    BY <1>3, Zenon DEF E5!Climbed
<1> HIDE DEF body
<1>5. \A n \in Nat : E5!Climbed(leaf, path)[n] = body(E5!Climbed(leaf, path), n)
  BY <1>4, Zenon
<1>6. E5!Climbed(leaf, path)[0] = leaf
  BY <1>5 DEF body
<1>7. ASSUME NEW n \in Nat
      PROVE  E5!Climbed(leaf, path)[n + 1] = Joined(path[n + 1], E5!Climbed(leaf, path)[n])
  <2>1. n + 1 \in Nat /\ n + 1 # 0 /\ (n + 1) - 1 = n
    OBVIOUS
  <2> QED
    BY <1>5, <2>1 DEF body, Joined
<1> QED
  BY <1>6, <1>7

\* And so are the levels below a root.
LEMMA BeneathEquations ==
  ASSUME NEW root
  PROVE  /\ Beneath(root)[0] = {root}
         /\ \A n \in Nat : Beneath(root)[n + 1] = Opened(Beneath(root)[n])
<1> DEFINE body(f, n) ==
             IF n = 0 THEN {root}
             ELSE UNION {{tree[2], tree[3]} : tree \in {t \in f[n - 1] : t[1] = "node"}}
<1>0. PICK f : AllStages(root, root, root, f)
  BY StagesTogether
<1>1. /\ f[0] = <<root, {root}>>
      /\ \A n \in Nat : f[n + 1] = <<Joined(root[n + 1], f[n][1]), Opened(f[n][2])>>
  BY <1>0 DEF AllStages
<1> DEFINE g == [n \in Nat |-> f[n][2]]
<1>2. \A n \in Nat : f[n][2] = body(g, n)
  <2> SUFFICES ASSUME NEW n \in Nat PROVE f[n][2] = body(g, n)
    OBVIOUS
  <2>1. CASE n = 0
    BY <1>1, <2>1
  <2>2. CASE n # 0
    <3>1. n - 1 \in Nat /\ (n - 1) + 1 = n
      BY <2>2
    <3>2. f[n][2] = Opened(f[n - 1][2])
      BY <1>1, <3>1
    <3>3. g[n - 1] = f[n - 1][2]
      BY <3>1
    <3> HIDE DEF g
    <3> QED
      BY <2>2, <3>2, <3>3 DEF Opened
  <2> QED
    BY <2>1, <2>2
<1>3. g = [n \in Nat |-> body(g, n)]
  BY <1>2
<1>4. Beneath(root) = [n \in Nat |-> body(Beneath(root), n)]
  <2> HIDE DEF g
  <2> QED
    BY <1>3, Zenon DEF Beneath
<1> HIDE DEF body
<1>5. \A n \in Nat : Beneath(root)[n] = body(Beneath(root), n)
  BY <1>4, Zenon
<1>6. Beneath(root)[0] = {root}
  BY <1>5 DEF body
<1>7. ASSUME NEW n \in Nat PROVE Beneath(root)[n + 1] = Opened(Beneath(root)[n])
  <2>1. n + 1 \in Nat /\ n + 1 # 0 /\ (n + 1) - 1 = n
    OBVIOUS
  <2> QED
    BY <1>5, <2>1 DEF body, Opened
<1> QED
  BY <1>6, <1>7

\* A leaf from which a path leads to a root is below it, as deep as the path is
\* long: the climb, read from its end, is a descent.
LEMMA ClimbIsCommitted ==
  ASSUME NEW leaf, NEW path, Len(path) \in Nat
  PROVE  leaf \in Beneath(E5!Climb(leaf, path))[Len(path)]
<1> DEFINE size == Len(path)
           at(n) == E5!Climbed(leaf, path)[n]
           level(n) == Beneath(at(size))[n]
           S == {n \in Nat : n <= size => at(size - n) \in level(n)}
<1>1. 0 \in S
  <2>1. level(0) = {at(size)}
    BY BeneathEquations
  <2> QED
    BY <2>1
<1>2. ASSUME NEW n \in Nat, n \in S PROVE n + 1 \in S
  <2> SUFFICES ASSUME n + 1 <= size PROVE at(size - (n + 1)) \in level(n + 1)
    OBVIOUS
  <2>1. PICK k \in Nat : k = size - (n + 1)
    <3>1. size - (n + 1) \in Nat
      OBVIOUS
    <3> QED
      BY <3>1
  <2>0. k + 1 = size - n /\ n <= size
    BY <2>1
  <2>2. at(size - n) = Joined(path[size - n], at(k))
    <3>1. at(k + 1) = Joined(path[k + 1], at(k))
      BY ClimbedEquations
    <3> QED
      BY <2>0, <3>1
  <2>3. level(n + 1) = Opened(level(n))
    BY BeneathEquations
  <2>4. at(size - n) \in level(n)
    BY <1>2, <2>0
  <2> HIDE DEF at, level
  <2>5. /\ at(size - n)[1] = "node"
        /\ at(k) \in {at(size - n)[2], at(size - n)[3]}
    BY <2>2 DEF Joined, E5!node_hash
  <2>6. at(k) \in Opened(level(n))
    BY <2>4, <2>5 DEF Opened
  <2> QED
    BY <2>1, <2>3, <2>6
<1>3. \A n \in Nat : n \in S
  <2> HIDE DEF S
  <2> QED
    BY <1>1, <1>2, SetInduction
<1>4. at(0) \in level(size)
  <2>1. size \in S /\ size - size = 0
    BY <1>3
  <2> QED
    BY <2>1
<1> QED
  BY <1>4, ClimbedEquations DEF E5!Climb

-----------------------------------------------------------------------------
(* The inductive invariant.  Of every program: as long as it has found     *)
(* nothing, all that its past methods looked at is sound, and what E6 has  *)
(* counted as anchored is what its loop says.                              *)

E4Inv ==
  e4_errors = {} =>
    /\ e4_phase # "load" => E4!Read("trust")
    /\ e4_phase = "done" => \A d \in DOMAIN E4!TrustDecisions : E4!DecisionSound(d)

E5Past(next) ==
  CASE next = "logs" -> {"inclusion", "consistency", "witnessing", "history", "done"}
    [] next = "inclusion" -> {"consistency", "witnessing", "history", "done"}
    [] next = "consistency" -> {"witnessing", "history", "done"}
    [] next = "witnessing" -> {"history", "done"}

E5Inv ==
  e5_errors = {} =>
    /\ e5_phase # "load" => E5!Read("transparency")
    /\ e5_phase \in E5Past("logs") =>
         /\ \A e \in DOMAIN E5!Entries : E5!EntrySound(e)
         /\ \A c \in DOMAIN E5!Checkpoints : E5!WellFormed(c)
         /\ E5!IndexConflicts = {} /\ E5!Forks = {}
    /\ e5_phase \in E5Past("inclusion") =>
         \A i \in DOMAIN E5!Inclusions : E5!InclusionSound(i)
    /\ e5_phase \in E5Past("consistency") =>
         \A p \in DOMAIN E5!Consistencies : E5!ConsistencySound(p)
    /\ e5_phase \in E5Past("witnessing") =>
         \A d \in DOMAIN E5!WitnessDecisions : E5!WitnessDecisionSound(d)

E6Past(next) ==
  CASE next = "comparisons" -> {"forks", "cross-log", "accountability", "done"}
    [] next = "cross-log" -> {"accountability", "done"}
    [] next = "accountability" -> {"done"}

E6Inv ==
  /\ DOMAIN e6_counted = {"compared", "anchored", "accountability"}
  /\ \A d \in e6_counted.anchored : E6!Anchored(d)
  /\ e6_errors = {} =>
       /\ e6_phase # "load" =>
            E6!Read("gossip") /\ E6!Read("transparency") /\ E6!Read("trust")
       /\ e6_phase \in E6Past("comparisons") =>
            \A c \in DOMAIN E6!Comparisons : E6!ComparisonSound(c)
       /\ e6_phase \in E6Past("cross-log") =>
            /\ \A l \in DOMAIN E6!Links : E6!LinkSound(l)
            /\ E6!AnchorCycles = {}
       /\ e6_phase \in E6Past("accountability") =>
            \A d \in DOMAIN E6!Accountability : E6!AccountabilitySound(d)

Given == \E f \in Files : reg = RegistryIn(f)

Inv == Given /\ E4Inv /\ E5Inv /\ E6Inv

-----------------------------------------------------------------------------
\* No program writes the files.
LEMMA RegistryFixed == [Next]_vars => reg' = reg
BY DEF Next, vars, RunE4, RunE5, RunE6, E4!Next, E5!Next, E6!Next,
       E4!Load, E4!CheckRefs, E4!CheckDelegationGraph, E4!CheckDecisions,
       E5!Load, E5!CheckLogsEntriesCheckpoints, E5!CheckInclusion, E5!CheckConsistency,
       E5!CheckWitnessing, E5!CheckTrustHistory, E6!Load, E6!CheckPeersViews,
       E6!CheckComparisons, E6!CheckForks, E6!CheckCrossLog, E6!CheckAccountability

\* Before the first step no program has found or counted anything.
LEMMA Initially == Init => Inv
BY DEF Init, Inv, Given, E4!Start, E5!Start, E6!Start, E4Inv, E5Inv, E6Inv, E5Past, E6Past

\* What E4 thinks of a decision depends on the files alone.
LEMMA E4SoundStays ==
  ASSUME reg' = reg
  PROVE  \A d : E4!DecisionSound(d)' <=> E4!DecisionSound(d)
<1>1. \A a, s : E4!Outcome(a, s)' = E4!Outcome(a, s)
  <2>1. \A k, a, s : E4!MadeBy(k, a, s)' <=> E4!MadeBy(k, a, s)
    BY DEF E4!MadeBy, E4!Signatures, E4!Keys, E4!Attestations
  <2> QED
    BY <2>1 DEF E4!Outcome, E4!Signatures, E4!Keys, E4!Attestations, E4!SUITE, E4!None
<1>2. \A a : E4!Signed(a)' = E4!Signed(a)
  BY DEF E4!Signed, E4!Signatures, E4!Attestations
<1>3. \A a : E4!Outcomes(a)' = E4!Outcomes(a)
  BY <1>1, <1>2 DEF E4!Outcomes
<1>4. \A p, k : E4!Admits(p, k)' <=> E4!Admits(p, k)
  BY DEF E4!Admits, E4!TrustPolicies, E4!Roots, E4!Keys
<1>5. \A a, p : E4!ValidSignatures(a, p)' = E4!ValidSignatures(a, p)
  BY <1>1, <1>2, <1>4 DEF E4!ValidSignatures, E4!Signatures, E4!TrustPolicies
<1>6. \A a, p : E4!Signers(a, p)' = E4!Signers(a, p)
  BY <1>5 DEF E4!Signers, E4!Signatures, E4!TrustPolicies, E4!Keys
<1>7. \A a, p : E4!RootAuth(a, p)' = E4!RootAuth(a, p)
  BY <1>3, <1>6 DEF E4!RootAuth, E4!TrustPolicies
<1> QED
  BY <1>7 DEF E4!DecisionSound, E4!Resolved, E4!Computed, E4!Partial, E4!TrustDecisions,
     E4!TrustPolicies, E4!Attestations, E4!Delegations, E4!DecisionStates

\* A step of another program leaves what is known of E4 alone.
LEMMA E4Stays == ASSUME E4Inv, reg' = reg, UNCHANGED <<e4_phase, e4_errors>> PROVE E4Inv'
BY E4SoundStays DEF E4Inv, E4!TrustDecisions, E4!Read

\* Only the last method of E4 adds what it looked at to what is known.
LEMMA E4Step == ASSUME E4Inv, E4!Next, reg' = reg PROVE E4Inv'
<1> USE E4SoundStays DEF E4!TrustDecisions, E4!Read, E4!Flawed
<1>1. CASE E4!Load
  BY <1>1 DEF E4!Load, E4Inv
<1>2. CASE E4!CheckRefs
  BY <1>2 DEF E4!CheckRefs, E4Inv
<1>3. CASE E4!CheckDelegationGraph
  BY <1>3 DEF E4!CheckDelegationGraph, E4Inv
<1>4. CASE E4!CheckDecisions
  <2>1. e4_errors' = {} => /\ e4_errors = {}
                           /\ \A d \in DOMAIN E4!TrustDecisions : E4!DecisionSound(d)
    BY <1>4 DEF E4!CheckDecisions
  <2> QED
    BY <1>4, <2>1 DEF E4!CheckDecisions, E4Inv
<1> QED
  BY <1>1, <1>2, <1>3, <1>4 DEF E4!Next

\* E5 in the same way.
LEMMA E5SoundStays ==
  ASSUME reg' = reg
  PROVE  /\ \A e : E5!EntrySound(e)' <=> E5!EntrySound(e)
         /\ \A c : E5!WellFormed(c)' <=> E5!WellFormed(c)
         /\ E5!IndexConflicts' = E5!IndexConflicts
         /\ E5!Forks' = E5!Forks
         /\ \A i : E5!InclusionSound(i)' <=> E5!InclusionSound(i)
         /\ \A p : E5!ConsistencySound(p)' <=> E5!ConsistencySound(p)
         /\ \A d : E5!WitnessDecisionSound(d)' <=> E5!WitnessDecisionSound(d)
<1>1. \A e : E5!EntrySound(e)' <=> E5!EntrySound(e)
  BY DEF E5!EntrySound, E5!Entries, E5!Logs, E5!NoBytes
<1>2. \A c : E5!WellFormed(c)' <=> E5!WellFormed(c)
  BY DEF E5!WellFormed, E5!Checkpoints, E5!NoHash
<1>3. E5!IndexConflicts' = E5!IndexConflicts
  BY DEF E5!IndexConflicts, E5!Entries
<1>4. E5!Forks' = E5!Forks
  BY <1>2 DEF E5!Forks, E5!Checkpoints
<1>5. \A i : E5!InclusionSound(i)' <=> E5!InclusionSound(i)
  BY DEF E5!InclusionSound, E5!Inclusions, E5!Entries, E5!Checkpoints, E5!NoBytes, E5!NoHash
<1>6. \A p : E5!ConsistencySound(p)' <=> E5!ConsistencySound(p)
  <2>1. \A p : E5!ConsistencyProved(p)' <=> E5!ConsistencyProved(p)
    BY DEF E5!ConsistencyProved, E5!Consistencies, E5!Entries, E5!Checkpoints, E5!NoBytes
  <2> QED
    BY <2>1 DEF E5!ConsistencySound, E5!Evaluated, E5!Consistencies, E5!CONSISTENCY_PROFILE
<1>7. \A d : E5!WitnessDecisionSound(d)' <=> E5!WitnessDecisionSound(d)
  <2>1. \A o, d : E5!Observes(o, d)' <=> E5!Observes(o, d)
    BY DEF E5!Observes, E5!Observations, E5!WitnessDecisions
  <2>2. \A o, by : E5!Counts(o, by)' = E5!Counts(o, by)
    BY DEF E5!Counts, E5!Observations, E5!Witnesses
  <2>3. E5!AuthenticatedE4' = E5!AuthenticatedE4
    BY DEF E5!AuthenticatedE4, E5!Read
  <2>4. \A d, policy : E5!QuorumOf(d, policy)' <=> E5!QuorumOf(d, policy)
    BY <2>1, <2>2, <2>3 DEF E5!QuorumOf, E5!WitnessDecisions, E5!Observations, E5!Witnesses,
       E5!None
  <2> QED
    BY <2>4 DEF E5!WitnessDecisionSound, E5!Claimed, E5!Witnessed, E5!WitnessDecisions,
       E5!WitnessPolicies, E5!Checkpoints
<1> QED
  BY <1>1, <1>2, <1>3, <1>4, <1>5, <1>6, <1>7

\* A step of another program leaves what is known of E5 alone.
LEMMA E5Stays == ASSUME E5Inv, reg' = reg, UNCHANGED <<e5_phase, e5_errors>> PROVE E5Inv'
BY E5SoundStays DEF E5Inv, E5!Entries, E5!Checkpoints, E5!Inclusions, E5!Consistencies,
   E5!WitnessDecisions, E5!Read

\* Each method of E5 adds what it looked at to what is known.
LEMMA E5Step == ASSUME E5Inv, E5!Next, reg' = reg PROVE E5Inv'
<1> USE E5SoundStays DEF E5!Entries, E5!Checkpoints, E5!Inclusions, E5!Consistencies,
        E5!WitnessDecisions, E5!Read, E5!Flawed, E5Past
<1>1. CASE E5!Load
  BY <1>1 DEF E5!Load, E5Inv
<1>2. CASE E5!CheckLogsEntriesCheckpoints
  <2>1. e5_errors' = {} => /\ e5_errors = {}
                           /\ \A e \in DOMAIN E5!Entries : E5!EntrySound(e)
                           /\ \A c \in DOMAIN E5!Checkpoints : E5!WellFormed(c)
                           /\ E5!IndexConflicts = {} /\ E5!Forks = {}
    BY <1>2 DEF E5!CheckLogsEntriesCheckpoints, E5!CheckpointSound
  <2> QED
    BY <1>2, <2>1 DEF E5!CheckLogsEntriesCheckpoints, E5Inv
<1>3. CASE E5!CheckInclusion
  <2>1. e5_errors' = {} => /\ e5_errors = {}
                           /\ \A i \in DOMAIN E5!Inclusions : E5!InclusionSound(i)
    BY <1>3 DEF E5!CheckInclusion
  <2> QED
    BY <1>3, <2>1 DEF E5!CheckInclusion, E5Inv
<1>4. CASE E5!CheckConsistency
  <2>1. e5_errors' = {} => /\ e5_errors = {}
                           /\ \A p \in DOMAIN E5!Consistencies : E5!ConsistencySound(p)
    BY <1>4 DEF E5!CheckConsistency
  <2> QED
    BY <1>4, <2>1 DEF E5!CheckConsistency, E5Inv
<1>5. CASE E5!CheckWitnessing
  <2>1. e5_errors' = {} => /\ e5_errors = {}
                           /\ \A d \in DOMAIN E5!WitnessDecisions : E5!WitnessDecisionSound(d)
    BY <1>5 DEF E5!CheckWitnessing
  <2> QED
    BY <1>5, <2>1 DEF E5!CheckWitnessing, E5Inv
<1>6. CASE E5!CheckTrustHistory
  BY <1>6 DEF E5!CheckTrustHistory, E5Inv
<1> QED
  BY <1>1, <1>2, <1>3, <1>4, <1>5, <1>6 DEF E5!Next

\* And E6.
LEMMA E6SoundStays ==
  ASSUME reg' = reg
  PROVE  /\ \A c : E6!ComparisonSound(c)' <=> E6!ComparisonSound(c)
         /\ \A l : E6!LinkSound(l)' <=> E6!LinkSound(l)
         /\ E6!AnchorCycles' = E6!AnchorCycles
         /\ \A d : E6!Anchored(d)' <=> E6!Anchored(d)
         /\ \A d : E6!AccountabilitySound(d)' <=> E6!AccountabilitySound(d)
<1>0. /\ E6!Checkpoints' = E6!Checkpoints /\ E6!Entries' = E6!Entries
      /\ E6!Inclusions' = E6!Inclusions /\ E6!Consistencies' = E6!Consistencies
      /\ E6!TrustDecisions' = E6!TrustDecisions /\ E6!Attestations' = E6!Attestations
      /\ E6!TrustPolicies' = E6!TrustPolicies /\ E6!Signatures' = E6!Signatures
      /\ E6!Keys' = E6!Keys
  BY DEF E6!Checkpoints, E6!Entries, E6!Inclusions, E6!Consistencies, E6!TrustDecisions,
     E6!Attestations, E6!TrustPolicies, E6!Signatures, E6!Keys, E6!Section, E6!Read, E6!None
<1>1. \A v : E6!Binds(v)' <=> E6!Binds(v)
  BY <1>0 DEF E6!Binds, E6!Views
<1>2. \A v : E6!SoleSigner(v)' = E6!SoleSigner(v)
  BY <1>0, <1>1 DEF E6!SoleSigner, E6!Views, E6!None
<1>3. \A c : E6!BothBind(c)' <=> E6!BothBind(c)
  BY <1>1 DEF E6!BothBind, E6!Comparisons
<1>4. \A c : E6!Derived(c)' = E6!Derived(c)
  <2>1. \A c : E6!Identity(c)' = E6!Identity(c)
    BY <1>0 DEF E6!Identity
  <2>2. \A proof, left, right : E6!Refers(proof, left, right)' <=> E6!Refers(proof, left, right)
    BY <1>0 DEF E6!Refers
  <2> QED
    BY <1>0, <2>1, <2>2 DEF E6!Derived, E6!Comparisons, E6!Views, E6!ComparisonPolicies
<1>5. \A c : E6!ComparisonSound(c)' <=> E6!ComparisonSound(c)
  BY <1>3, <1>4 DEF E6!ComparisonSound, E6!Comparisons, E6!Views, E6!ComparisonPolicies
<1>6. \A l : E6!LinkResolves(l)' <=> E6!LinkResolves(l)
  BY <1>0 DEF E6!LinkResolves, E6!Links
<1>7. \A l : E6!LinkSound(l)' <=> E6!LinkSound(l)
  BY <1>0, <1>6 DEF E6!LinkSound, E6!Links, E6!canonical_target
<1>8. E6!AnchorCycles' = E6!AnchorCycles
  <2>1. E6!Anchors' = E6!Anchors
    BY <1>6 DEF E6!Anchors, E6!Links
  <2> QED
    BY <2>1 DEF E6!AnchorCycles
<1>9. \A d : E6!Anchored(d)' <=> E6!Anchored(d)
  <2>1. \A links : E6!LogsOf(links)' = E6!LogsOf(links)
    BY <1>0 DEF E6!LogsOf, E6!Links
  <2>2. \A policy, links : E6!Satisfied(policy, links)' <=> E6!Satisfied(policy, links)
    BY <1>1, <2>1 DEF E6!Satisfied, E6!Links, E6!Views
  <2> QED
    BY <2>2 DEF E6!Anchored, E6!CrossDecisions, E6!CrossPolicies, E6!Links
<1>10. \A d : E6!AccountabilitySound(d)' <=> E6!AccountabilitySound(d)
  <2>1. \A c : E6!Conflicting(c)' <=> E6!Conflicting(c)
    BY DEF E6!Conflicting, E6!Comparisons
  <2>2. \A fork, policy : E6!Attribution(fork, policy)' = E6!Attribution(fork, policy)
    BY <1>2, <1>3, <2>1 DEF E6!Attribution, E6!Comparisons, E6!Views, E6!None
  <2> QED
    BY <2>2 DEF E6!AccountabilitySound, E6!Accountability, E6!AccountabilityPolicies,
       E6!ForkEvidence
<1> QED
  BY <1>5, <1>7, <1>8, <1>9, <1>10

\* A step of another program leaves what is known of E6 alone.
LEMMA E6Stays ==
  ASSUME E6Inv, reg' = reg, UNCHANGED <<e6_phase, e6_errors, e6_counted>> PROVE E6Inv'
BY E6SoundStays DEF E6Inv, E6!Comparisons, E6!Links, E6!Accountability, E6!Read

\* Each method of E6 adds what it looked at to what is known.
LEMMA E6Step == ASSUME E6Inv, E6!Next, reg' = reg PROVE E6Inv'
<1> USE E6SoundStays DEF E6!Comparisons, E6!Links, E6!Accountability, E6!Read, E6!Flawed, E6Past
<1>1. CASE E6!Load
  BY <1>1 DEF E6!Load, E6Inv
<1>2. CASE E6!CheckPeersViews
  BY <1>2 DEF E6!CheckPeersViews, E6Inv
<1>3. CASE E6!CheckComparisons
  <2>1. e6_errors' = {} => /\ e6_errors = {}
                           /\ \A c \in DOMAIN E6!Comparisons : E6!ComparisonSound(c)
    BY <1>3 DEF E6!CheckComparisons
  <2> QED
    BY <1>3, <2>1 DEF E6!CheckComparisons, E6Inv
<1>4. CASE E6!CheckForks
  BY <1>4 DEF E6!CheckForks, E6Inv
<1>5. CASE E6!CheckCrossLog
  <2>1. e6_errors' = {} => /\ e6_errors = {}
                           /\ \A l \in DOMAIN E6!Links : E6!LinkSound(l)
                           /\ E6!AnchorCycles = {}
    BY <1>5 DEF E6!CheckCrossLog
  <2>2. \A d \in e6_counted'.anchored : E6!Anchored(d)
    BY <1>5 DEF E6!CheckCrossLog, E6Inv
  <2> QED
    BY <1>5, <2>1, <2>2 DEF E6!CheckCrossLog, E6Inv
<1>6. CASE E6!CheckAccountability
  <2>1. e6_errors' = {} => /\ e6_errors = {}
                           /\ \A d \in DOMAIN E6!Accountability : E6!AccountabilitySound(d)
    BY <1>6 DEF E6!CheckAccountability
  <2> QED
    BY <1>6, <2>1 DEF E6!CheckAccountability, E6Inv
<1> QED
  BY <1>1, <1>2, <1>3, <1>4, <1>5, <1>6 DEF E6!Next

\* The inductive invariant holds throughout.
THEOREM InvHolds == Spec => []Inv
<1>1. ASSUME Inv, [Next]_vars PROVE Inv'
  <2>1. reg' = reg
    BY <1>1, RegistryFixed
  <2>2. Given'
    BY <1>1, <2>1 DEF Inv, Given
  <2>3. CASE UNCHANGED vars
    BY <1>1, <2>1, <2>2, <2>3, E4Stays, E5Stays, E6Stays DEF Inv, vars, e4_all, e5_all, e6_all
  <2>4. CASE RunE4
    BY <1>1, <2>1, <2>2, <2>4, E4Step, E5Stays, E6Stays DEF Inv, RunE4, e5_all, e6_all
  <2>5. CASE RunE5
    BY <1>1, <2>1, <2>2, <2>5, E4Stays, E5Step, E6Stays DEF Inv, RunE5, e4_all, e6_all
  <2>6. CASE RunE6
    BY <1>1, <2>1, <2>2, <2>6, E4Stays, E5Stays, E6Step DEF Inv, RunE6, e4_all, e5_all
  <2> QED
    BY <1>1, <2>3, <2>4, <2>5, <2>6 DEF Next
<1> QED
  BY Initially, <1>1, PTL DEF Spec

-----------------------------------------------------------------------------
(* What an accepting E5 and E6 say of the registry.                        *)

\* E6 looks at the sections E5 and E4 look at.
LEMMA SameSections ==
  ASSUME Inv, E6!Conformant
  PROVE  /\ E6!Checkpoints = E5!Checkpoints /\ E6!Entries = E5!Entries
         /\ E6!Inclusions = E5!Inclusions /\ E6!Consistencies = E5!Consistencies
         /\ E6!TrustDecisions = E4!TrustDecisions /\ E6!Attestations = E4!Attestations
         /\ E6!TrustPolicies = E4!TrustPolicies /\ E6!Signatures = E4!Signatures
         /\ E6!Keys = E4!Keys
<1>1. E6!Read("transparency") /\ E6!Read("trust")
  BY DEF Inv, E6Inv, E6!Conformant
<1> QED
  BY <1>1 DEF E6!Section, E6!Checkpoints, E6!Entries, E6!Inclusions, E6!Consistencies,
     E6!TrustDecisions, E6!Attestations, E6!TrustPolicies, E6!Signatures, E6!Keys,
     E5!Checkpoints, E5!Entries, E5!Inclusions, E5!Consistencies, E4!TrustDecisions,
     E4!Attestations, E4!TrustPolicies, E4!Signatures, E4!Keys

\* What the loops of an accepting E5 have found.
LEMMA AcceptedHistory ==
  ASSUME Inv, E5!Conformant
  PROVE  /\ \A e \in DOMAIN E5!Entries : E5!EntrySound(e)
         /\ \A c \in DOMAIN E5!Checkpoints : E5!WellFormed(c)
         /\ E5!IndexConflicts = {} /\ E5!Forks = {}
         /\ \A i \in DOMAIN E5!Inclusions : E5!InclusionSound(i)
         /\ \A p \in DOMAIN E5!Consistencies : E5!ConsistencySound(p)
         /\ \A d \in DOMAIN E5!WitnessDecisions : E5!WitnessDecisionSound(d)
BY DEF Inv, E5Inv, E5Past, E5!Conformant

\* What the loops of an accepting E6 have found.
LEMMA AcceptedGossip ==
  ASSUME Inv, E6!Conformant
  PROVE  /\ \A c \in DOMAIN E6!Comparisons : E6!ComparisonSound(c)
         /\ \A l \in DOMAIN E6!Links : E6!LinkSound(l)
         /\ E6!AnchorCycles = {}
         /\ \A d \in DOMAIN E6!Accountability : E6!AccountabilitySound(d)
BY DEF Inv, E6Inv, E6Past, E6!Conformant

\* The sections as the registry they were read from has them.
LEMMA TypedHistory ==
  ASSUME Inv
  PROVE  /\ \A c \in DOMAIN E5!Checkpoints : E5!Checkpoints[c].size \in Int
         /\ \A i \in DOMAIN E5!Inclusions :
              E5!Inclusions[i].path \in Seq(Range(E5!Inclusions[i].path))
         /\ \A p \in DOMAIN E5!Consistencies :
              E5!Consistencies[p].entries \in Seq(Range(E5!Consistencies[p].entries))
         /\ \A p \in DOMAIN E5!WitnessPolicies : E5!WitnessPolicies[p].minimum \in Int
         /\ \A d \in DOMAIN E5!WitnessDecisions :
              IsFiniteSet(E5!WitnessDecisions[d].observations)
BY RegistryAssumption DEF Inv, Given, E5!Checkpoints, E5!Inclusions, E5!Consistencies,
   E5!WitnessPolicies, E5!WitnessDecisions

-----------------------------------------------------------------------------
(* Anchors: E6 takes the proof a link names as given, E5 has evaluated it. *)

\* The source of a link that both accept commits to the target.
LEMMA LinkCommits ==
  ASSUME Inv, E5!Conformant, E6!Conformant, NEW l \in DOMAIN E6!Links
  PROVE  LET link == E6!Links[l]
             depth == Len(E5!Inclusions[link.proof].path)
         IN  /\ E5!leaf_hash(E6!canonical_target(link.target)) \in Beneath(Root(link.source))[depth]
             /\ E5!Checkpoints[link.source].log # E5!Checkpoints[link.target].log
<1> DEFINE link == E6!Links[l]
           proof == E5!Inclusions[link.proof]
           entry == E5!Entries[link.entry]
<1>1. E6!LinkSound(l)
  BY AcceptedGossip
<1>2. /\ link.proof \in DOMAIN E5!Inclusions
      /\ E5!Checkpoints[link.target].log # E5!Checkpoints[link.source].log
      /\ proof.entry = link.entry /\ proof.checkpoint = link.source
      /\ entry.bytes = E6!canonical_target(link.target)
  BY <1>1, SameSections DEF E6!LinkSound, E6!LinkResolves
<1>3. E5!InclusionSound(link.proof)
  BY <1>2, AcceptedHistory
<1>4. E5!Climb(E5!leaf_hash(entry.bytes), proof.path) = Root(link.source)
  BY <1>2, <1>3 DEF E5!InclusionSound, Root
<1>5. Len(proof.path) \in Nat
  BY <1>2, TypedHistory
<1>6. E5!leaf_hash(entry.bytes)
        \in Beneath(E5!Climb(E5!leaf_hash(entry.bytes), proof.path))[Len(proof.path)]
  BY <1>5, ClimbIsCommitted
<1> QED
  BY <1>2, <1>4, <1>6

\* Links both ways are a cycle of two, which is an error.
LEMMA NoneBothWays ==
  ASSUME Inv, E6!Conformant, NEW links, links \subseteq DOMAIN E6!Links,
         LET pairs == {<<E6!Links[l].source, E6!Links[l].target>> : l \in links}
         IN  \A p \in pairs : <<p[2], p[1]>> \in pairs
  PROVE  links = {}
<1> SUFFICES ASSUME NEW l \in links PROVE FALSE
  OBVIOUS
<1> DEFINE s == E6!Links[l].source
           t == E6!Links[l].target
<1>1. \A m \in links : <<E6!Links[m].source, E6!Links[m].target>> \in E6!Anchors
  BY AcceptedGossip DEF E6!Anchors, E6!LinkSound
<1> DEFINE pairs == {<<E6!Links[k].source, E6!Links[k].target>> : k \in links}
<1>2. PICK m \in links : E6!Links[m].source = t /\ E6!Links[m].target = s
  <2>1. <<s, t>> \in pairs
    OBVIOUS
  <2>2. \A p \in pairs : <<p[2], p[1]>> \in pairs
    OBVIOUS
  <2> HIDE DEF s, t, pairs
  <2>3. <<t, s>> \in pairs
    BY <2>1, <2>2
  <2>4. PICK k \in links : <<t, s>> = <<E6!Links[k].source, E6!Links[k].target>>
    BY <2>3 DEF pairs
  <2> QED
    BY <2>4
<1>3. <<s, t>> \in E6!Anchors /\ <<t, s>> \in E6!Anchors
  BY <1>1, <1>2
<1>4. {s, t} \in SUBSET {a[1] : a \in E6!Anchors}
  <2>1. <<s, t>>[1] = s /\ <<t, s>>[1] = t
    OBVIOUS
  <2> HIDE DEF s, t
  <2> QED
    BY <1>3, <2>1
<1>5. \A x \in {s, t} : \E y \in {s, t} : <<x, y>> \in E6!Anchors
  BY <1>3
<1>6. <<"cycle", {s, t}>> \in E6!AnchorCycles
  <2> HIDE DEF s, t
  <2> QED
    BY <1>4, <1>5 DEF E6!AnchorCycles
<1> QED
  BY <1>6, AcceptedGossip

\* What E6 counts as anchored is in the log, as deep as the proof is long, and
\* nothing is anchored in both directions.
THEOREM Anchors == Spec => []AnchorsAreCommitted
<1>1. ASSUME Inv PROVE AnchorsAreCommitted
  <2> SUFFICES ASSUME E5!Conformant, E6!Conformant, NEW d \in e6_counted.anchored
               PROVE  LET decision == E6!CrossDecisions[d]
                      IN  /\ \A l \in decision.links :
                               LET link == E6!Links[l]
                                   depth == Len(E5!Inclusions[link.proof].path)
                               IN  /\ E5!leaf_hash(E6!canonical_target(link.target))
                                         \in Beneath(Root(link.source))[depth]
                                   /\ E5!Checkpoints[link.source].log
                                        # E5!Checkpoints[link.target].log
                          /\ E6!CrossPolicies[decision.policy].reciprocal => decision.links = {}
    BY DEF AnchorsAreCommitted
  <2>1. E6!Anchored(d)
    BY <1>1 DEF Inv, E6Inv
  <2>2. /\ E6!CrossDecisions[d].links \subseteq DOMAIN E6!Links
        /\ E6!Satisfied(E6!CrossPolicies[E6!CrossDecisions[d].policy], E6!CrossDecisions[d].links)
    BY <2>1 DEF E6!Anchored
  <2>3. E6!CrossPolicies[E6!CrossDecisions[d].policy].reciprocal => E6!CrossDecisions[d].links = {}
    BY <1>1, <2>2, NoneBothWays DEF E6!Satisfied
  <2> QED
    BY <1>1, <2>2, <2>3, LinkCommits
<1> QED
  BY <1>1, InvHolds, PTL

-----------------------------------------------------------------------------
(* Histories: two proofs that E5 evaluates list the same entries of a log. *)

Reached == {E5!Consistencies[p].older : p \in Proved} \cup
           {E5!Consistencies[p].newer : p \in Proved}

\* The checkpoint is a root of the entries the proof lists, one after the other.
Rooted(c, p) ==
  LET entries == E5!Consistencies[p].entries
      log == E5!Checkpoints[c].log
  IN  /\ Size(c) \in Nat /\ Len(entries) \in Nat /\ Size(c) <= Len(entries)
      /\ Root(c) = E5!merkle_root(Payloads(p, Size(c)))
      /\ \A n \in 1 .. Len(entries) :
           /\ entries[n] \in DOMAIN E5!Entries
           /\ E5!Entries[entries[n]].log = log /\ E5!Entries[entries[n]].index = n - 1

\* Both checkpoints of a proof that E5 evaluates are roots of what it lists.
LEMMA BothRooted ==
  ASSUME Inv, E5!Conformant, NEW p \in Proved
  PROVE  /\ Rooted(E5!Consistencies[p].older, p) /\ Rooted(E5!Consistencies[p].newer, p)
         /\ E5!Checkpoints[E5!Consistencies[p].older].log
              = E5!Checkpoints[E5!Consistencies[p].newer].log
<1> DEFINE proof == E5!Consistencies[p]
           entries == proof.entries
           old == proof.older
           new == proof.newer
           payloads == [n \in DOMAIN entries |-> E5!Entries[entries[n]].bytes]
<1>1. p \in DOMAIN E5!Consistencies /\ E5!ConsistencyProved(p)
  BY AcceptedHistory DEF Proved, E5!ConsistencySound
<1>2. /\ entries \in Seq(Range(entries))
      /\ Len(entries) \in Nat /\ DOMAIN entries = 1 .. Len(entries)
  BY <1>1, TypedHistory
<1>3. /\ {old, new} \subseteq DOMAIN E5!Checkpoints
      /\ E5!Checkpoints[old].log = E5!Checkpoints[new].log
      /\ Size(old) <= Size(new) /\ Len(entries) = Size(new)
      /\ \A n \in DOMAIN entries :
           /\ entries[n] \in DOMAIN E5!Entries
           /\ E5!Entries[entries[n]].log = E5!Checkpoints[new].log
           /\ E5!Entries[entries[n]].index = n - 1
      /\ E5!merkle_root(E5!Prefix(payloads, Size(old))) = Root(old)
      /\ E5!merkle_root(payloads) = Root(new)
  BY <1>1 DEF E5!ConsistencyProved, Size, Root
<1>4. Size(old) \in Nat /\ Size(new) \in Nat
  BY <1>3, AcceptedHistory, TypedHistory DEF E5!WellFormed, Size
<1>5. E5!Prefix(payloads, Size(old)) = Payloads(p, Size(old))
  <2>1. payloads \in Seq(Range(payloads)) /\ Len(payloads) = Len(entries)
    BY <1>2 DEF Range
  <2>2. SubSeq(payloads, 1, Size(old)) = [n \in 1 .. Size(old) |-> payloads[n]]
    BY <2>1, <1>3, <1>4
  <2>3. \A n \in 1 .. Size(old) : payloads[n] = E5!Entries[entries[n]].bytes
    BY <1>2, <1>3, <1>4
  <2> QED
    BY <1>4, <2>2, <2>3 DEF E5!Prefix, Payloads
<1>6. payloads = Payloads(p, Size(new))
  BY <1>2, <1>3 DEF Payloads
<1>7. /\ Root(old) = E5!merkle_root(Payloads(p, Size(old)))
      /\ Root(new) = E5!merkle_root(Payloads(p, Size(new)))
  BY <1>3, <1>5, <1>6
<1> QED
  BY <1>2, <1>3, <1>4, <1>7 DEF Rooted

\* Of one log no two entries have one index.
LEMMA OneEntryEach ==
  ASSUME Inv, E5!Conformant, NEW e \in DOMAIN E5!Entries, NEW f \in DOMAIN E5!Entries,
         E5!Entries[e].log = E5!Entries[f].log, E5!Entries[e].index = E5!Entries[f].index
  PROVE  e = f
<1>1. E5!Entries[e].index >= 0
  BY AcceptedHistory DEF E5!EntrySound
<1>2. e # f => <<"index", e>> \in E5!IndexConflicts
  BY <1>1 DEF E5!IndexConflicts
<1> QED
  BY <1>2, AcceptedHistory

\* So what one proof lists is what the other does, as far as both go.
LEMMA SamePayloads ==
  ASSUME Inv, E5!Conformant, NEW p \in Proved, NEW q \in Proved, NEW c, NEW d,
         Rooted(c, p), Rooted(d, q), E5!Checkpoints[c].log = E5!Checkpoints[d].log,
         Size(c) <= Size(d)
  PROVE  Payloads(p, Size(c)) = Payloads(q, Size(c))
<1>1. ASSUME NEW n \in 1 .. Size(c)
      PROVE  E5!Consistencies[p].entries[n] = E5!Consistencies[q].entries[n]
  <2>1. n \in 1 .. Len(E5!Consistencies[p].entries) /\ n \in 1 .. Len(E5!Consistencies[q].entries)
    BY DEF Rooted
  <2> DEFINE e == E5!Consistencies[p].entries[n]
             f == E5!Consistencies[q].entries[n]
  <2>2. /\ e \in DOMAIN E5!Entries /\ f \in DOMAIN E5!Entries
        /\ E5!Entries[e].log = E5!Entries[f].log /\ E5!Entries[e].index = E5!Entries[f].index
    BY <2>1 DEF Rooted
  <2> QED
    BY <2>2, OneEntryEach
<1> QED
  BY <1>1 DEF Payloads

\* Any two checkpoints of a log that proofs are about are roots of one sequence.
LEMMA Reaches ==
  ASSUME Inv, E5!Conformant, NEW c \in Reached, NEW d \in Reached,
         E5!Checkpoints[c].log = E5!Checkpoints[d].log, Size(c) <= Size(d)
  PROVE  Extends(c, d)
<1>1. PICK p \in Proved : c \in {E5!Consistencies[p].older, E5!Consistencies[p].newer}
  BY DEF Reached
<1>2. PICK q \in Proved : d \in {E5!Consistencies[q].older, E5!Consistencies[q].newer}
  BY DEF Reached
<1>3. Rooted(c, p) /\ Rooted(d, q)
  BY <1>1, <1>2, BothRooted
<1>4. Payloads(p, Size(c)) = Payloads(q, Size(c))
  BY <1>3, SamePayloads
<1> QED
  BY <1>3, <1>4 DEF Extends, Rooted

\* Every log has one history, and what E6 calls compatible by reference to a
\* proof is, where E5 has evaluated that proof.
THEOREM History == Spec => []OneHistory
<1>1. ASSUME Inv PROVE OneHistory
  <2> DEFINE seen(v) == E6!Views[v].checkpoint
  <2>1. ASSUME E5!Conformant, E6!Conformant, NEW x \in DOMAIN E6!Comparisons,
               E6!Comparisons[x].state = "compatible-by-e5-reference",
               E6!Comparisons[x].proof \in Proved
        PROVE  \/ Extends(seen(E6!Comparisons[x].left), seen(E6!Comparisons[x].right))
               \/ Extends(seen(E6!Comparisons[x].right), seen(E6!Comparisons[x].left))
    <3> DEFINE left == seen(E6!Comparisons[x].left)
               right == seen(E6!Comparisons[x].right)
               p == E6!Comparisons[x].proof
    <3>1. E6!Derived(x) = "compatible-by-e5-reference"
      BY <1>1, <2>1, AcceptedGossip DEF E6!ComparisonSound
    <3>2. E6!Refers(p, left, right)
      BY <3>1 DEF E6!Derived
    <3>3. {E5!Consistencies[p].older, E5!Consistencies[p].newer} = {left, right}
      BY <1>1, <2>1, <3>2, SameSections DEF E6!Refers
    <3>4. left \in Reached /\ right \in Reached
      BY <2>1, <3>3 DEF Reached
    <3>5. Size(left) \in Nat /\ Size(right) \in Nat
      BY <1>1, <2>1, <3>3, BothRooted DEF Rooted
    <3>6. E5!Checkpoints[left].log = E5!Checkpoints[right].log
      BY <1>1, <2>1, <3>3, BothRooted
    <3>7. Size(left) <= Size(right) \/ Size(right) <= Size(left)
      BY <3>5
    <3> HIDE DEF left, right
    <3>8. Extends(left, right) \/ Extends(right, left)
      BY <1>1, <2>1, <3>4, <3>6, <3>7, Reaches
    <3> QED
      BY <3>8 DEF left, right
  <2>2. E5!Conformant =>
          \A c, d \in Reached :
            E5!Checkpoints[c].log = E5!Checkpoints[d].log /\ Size(c) <= Size(d) => Extends(c, d)
    BY <1>1, Reaches
  <2> QED
    BY <2>1, <2>2 DEF OneHistory, Reached
<1> QED
  BY <1>1, InvHolds, PTL

-----------------------------------------------------------------------------
(* Signatures: E5 and E6 go by what the file of E4 declares.               *)

\* The program's count is the number of elements.
LEMMA SameCardinality ==
  ASSUME NEW S
  PROVE  E4!Cardinality(S) = Cardinality(S) /\ E5!Cardinality(S) = Cardinality(S)
         /\ E6!Cardinality(S) = Cardinality(S)
BY DEF E4!Cardinality, E5!Cardinality, E6!Cardinality, Cardinality

\* The keys and signatures of the registry that was read.
LEMMA TypedTrust ==
  ASSUME Inv
  PROVE  /\ IsFiniteSet(DOMAIN E4!Keys)
         /\ \A a \in DOMAIN E4!Attestations :
              E4!Attestations[a].signatures \in Seq(Range(E4!Attestations[a].signatures))
         /\ \A p \in DOMAIN E4!TrustPolicies : E4!TrustPolicies[p].count \in Int
BY RegistryAssumption DEF Inv, Given, E4!Keys, E4!Attestations, E4!TrustPolicies

\* What an authenticated decision of a file that E4 accepts is about, and that
\* enough have signed it.
LEMMA AuthenticatedDecision ==
  ASSUME Inv, E4!Conformant, NEW d \in DOMAIN E4!TrustDecisions,
         E4!TrustDecisions[d].state = "authenticated"
  PROVE  LET a == E4!TrustDecisions[d].attestation
             p == E4!TrustDecisions[d].policy
         IN  /\ a \in DOMAIN E4!Attestations /\ p \in DOMAIN E4!TrustPolicies
             /\ Cardinality(E4!Signers(a, p)) >= E4!TrustPolicies[p].count
<1> DEFINE a == E4!TrustDecisions[d].attestation
           p == E4!TrustDecisions[d].policy
<1>1. E4!DecisionSound(d)
  BY DEF Inv, E4Inv, E4!Conformant
<1>2. a \in DOMAIN E4!Attestations /\ p \in DOMAIN E4!TrustPolicies
  BY <1>1 DEF E4!DecisionSound, E4!Resolved
<1>3. E4!RootAuth(a, p) = "authenticated"
  BY <1>1 DEF E4!DecisionSound, E4!Computed
<1>4. E4!Cardinality(E4!Signers(a, p)) >= E4!TrustPolicies[p].count
  BY <1>3 DEF E4!RootAuth
<1> QED
  BY <1>2, <1>4, SameCardinality

\* A valid signature has been made with the key it names.
LEMMA ValidIsMade ==
  ASSUME NEW a, NEW p, NEW s \in E4!ValidSignatures(a, p)
  PROVE  /\ s \in E4!Range(E4!Attestations[a].signatures) /\ s \in DOMAIN E4!Signatures
         /\ E4!Signatures[s].key \in DOMAIN E4!Keys /\ E4!Admits(p, E4!Signatures[s].key)
         /\ E4!MadeBy(E4!Signatures[s].key, a, s)
<1>1. /\ s \in E4!Signed(a) /\ E4!Outcome(a, s) = "valid" /\ E4!Admits(p, E4!Signatures[s].key)
  BY DEF E4!ValidSignatures
<1>2. E4!Signatures[s].key \in DOMAIN E4!Keys /\ E4!MadeBy(E4!Signatures[s].key, a, s)
  BY <1>1 DEF E4!Outcome
<1> QED
  BY <1>1, <1>2 DEF E4!Signed

\* The number of a part of a finite set.
LEMMA PartIsFewer ==
  ASSUME NEW S, NEW T, IsFiniteSet(T), S \subseteq T, NEW n \in Int, n <= Cardinality(S)
  PROVE  n <= Cardinality(T)
BY FS_Subset, FS_CardinalityType

\* What a function makes of a finite set is finite.
LEMMA FiniteImage ==
  ASSUME NEW S, IsFiniteSet(S), NEW f
  PROVE  IsFiniteSet({f[x] : x \in S})
<1> DEFINE T == {f[x] : x \in S}
           g == [x \in S |-> f[x]]
<1>1. g \in Surjection(S, T)
  BY DEF Surjection
<1> HIDE DEF g, T
<1>2. IsFiniteSet(T)
  BY <1>1, FS_Surjection
<1> QED
  BY <1>2 DEF T

\* Enough roots have signed what E4 lets pass as authenticated.
LEMMA AuthenticatedIsBacked ==
  ASSUME Inv, E4!Conformant, NEW d \in DOMAIN E4!TrustDecisions,
         E4!TrustDecisions[d].state = "authenticated"
  PROVE  Backed(d)
<1> DEFINE a == E4!TrustDecisions[d].attestation
           p == E4!TrustDecisions[d].policy
           principals == {E4!Keys[k].principal : k \in Attesters(a, p)}
           signers == E4!Signers(a, p)
           count == E4!TrustPolicies[p].count
<1>1. count <= Cardinality(signers) /\ count \in Int
  <2>1. p \in DOMAIN E4!TrustPolicies /\ Cardinality(signers) >= count
    BY AuthenticatedDecision
  <2>2. count \in Int
    BY <2>1, TypedTrust
  <2> QED
    BY <2>1, <2>2
<1>2. IsFiniteSet(Attesters(a, p)) /\ IsFiniteSet(principals)
  <2>1. IsFiniteSet(Attesters(a, p))
    BY TypedTrust, FS_Subset DEF Attesters
  <2> DEFINE f == [k \in Attesters(a, p) |-> E4!Keys[k].principal]
  <2>2. principals = {f[k] : k \in Attesters(a, p)}
    OBVIOUS
  <2>3. IsFiniteSet({f[k] : k \in Attesters(a, p)})
    <3> HIDE DEF f
    <3> QED
      BY <2>1, FiniteImage
  <2> QED
    BY <2>1, <2>2, <2>3
<1>3. \A s \in E4!ValidSignatures(a, p) : E4!Signatures[s].key \in Attesters(a, p)
  BY ValidIsMade DEF Attesters, E4!Range, Range
<1>4. CASE E4!TrustPolicies[p].distinct_by = "key"
  <2>1. signers \subseteq Attesters(a, p)
    BY <1>3, <1>4 DEF E4!Signers
  <2>2. count <= Cardinality(Attesters(a, p))
    BY <1>1, <1>2, <2>1, PartIsFewer
  <2> QED
    BY <1>4, <2>2 DEF Backed
<1>5. CASE E4!TrustPolicies[p].distinct_by # "key"
  <2>1. signers \subseteq principals
    BY <1>3, <1>5 DEF E4!Signers
  <2>2. count <= Cardinality(principals)
    <3> HIDE DEF principals, signers, count
    <3> QED
      BY <1>1, <1>2, <2>1, PartIsFewer
  <2> QED
    BY <1>5, <2>2 DEF Backed
<1> QED
  BY <1>4, <1>5

\* What AuthenticationIsSigned says of a witness quorum.
SignedBacked(d) ==
  {o \in E5!WitnessDecisions[d].observations :
     /\ E5!Observations[o].checkpoint = E5!WitnessDecisions[d].checkpoint
     /\ Backed(E5!Observations[o].e4)}

\* A quorum that has to be authenticated is one of observations that are signed.
LEMMA QuorumIsSigned ==
  ASSUME Inv, E4!Conformant, E5!Conformant, NEW d \in DOMAIN E5!WitnessDecisions,
         E5!WitnessDecisions[d].state = "witnessed",
         E5!WitnessPolicies[E5!WitnessDecisions[d].policy].authenticated
  PROVE  LET policy == E5!WitnessPolicies[E5!WitnessDecisions[d].policy]
         IN  policy.minimum
               <= Cardinality({E5!Counts(o, policy.distinct_by) : o \in SignedBacked(d)})
<1> DEFINE policy == E5!WitnessPolicies[E5!WitnessDecisions[d].policy]
           by == policy.distinct_by
           listed == E5!WitnessDecisions[d].observations
           seen == {o \in listed : /\ E5!Observes(o, d)
                                   /\ E5!Observations[o].witness \in DOMAIN E5!Witnesses}
           vals == {E5!Counts(o, by) : o \in seen}
           counts == {E5!Counts(o, by) : o \in SignedBacked(d)}
<1>1. E5!WitnessDecisions[d].policy \in DOMAIN E5!WitnessPolicies /\ E5!QuorumOf(d, policy)
  BY AcceptedHistory DEF E5!WitnessDecisionSound, E5!Claimed, E5!Witnessed
<1>2. /\ \A o \in seen : E5!Observations[o].e4 \in E5!AuthenticatedE4
      /\ policy.minimum <= Cardinality(vals)
  <2>1. policy.minimum <= E5!Cardinality(vals)
    BY <1>1 DEF E5!QuorumOf
  <2>2. \A o \in seen : E5!Observations[o].e4 \in E5!AuthenticatedE4
    BY <1>1 DEF E5!QuorumOf
  <2> HIDE DEF vals, policy
  <2> QED
    BY <2>1, <2>2, SameCardinality
<1>3. seen \subseteq SignedBacked(d)
  <2> SUFFICES ASSUME NEW o \in seen PROVE o \in SignedBacked(d)
    OBVIOUS
  <2>1. E5!Observations[o].e4 \in DOMAIN E4!TrustDecisions
        /\ E4!TrustDecisions[E5!Observations[o].e4].state = "authenticated"
    BY <1>2 DEF E5!AuthenticatedE4, E4!TrustDecisions
  <2>2. Backed(E5!Observations[o].e4)
    BY <2>1, AuthenticatedIsBacked
  <2> QED
    BY <2>2 DEF SignedBacked, E5!Observes
<1>4. vals \subseteq counts
  BY <1>3
<1>5. IsFiniteSet(counts)
  <2>1. IsFiniteSet(SignedBacked(d))
    BY TypedHistory, FS_Subset DEF SignedBacked
  <2> DEFINE f == [o \in SignedBacked(d) |-> E5!Counts(o, by)]
  <2>2. counts = {f[o] : o \in SignedBacked(d)}
    OBVIOUS
  <2>3. IsFiniteSet({f[o] : o \in SignedBacked(d)})
    <3> HIDE DEF f
    <3> QED
      BY <2>1, FiniteImage
  <2> QED
    BY <2>2, <2>3
<1>6. policy.minimum \in Int
  BY <1>1, TypedHistory
<1>7. policy.minimum <= Cardinality(counts)
  <2> HIDE DEF policy, counts, vals
  <2> QED
    BY <1>2, <1>4, <1>5, <1>6, PartIsFewer
<1> QED
  BY <1>7

\* The attestations of checkpoint c whose signatures one principal alone has made.
SignedBy(principal, c) ==
  {a \in DOMAIN E4!Attestations :
     /\ c \in E4!Attestations[a].bindings
     /\ E4!Attestations[a].signatures # <<>>
     /\ \A s \in Range(E4!Attestations[a].signatures) :
          \E k \in DOMAIN E4!Keys :
            E4!Keys[k].principal = principal /\ E4!MadeBy(k, a, s)}

\* The one whom E6 takes to have signed a view alone has.
LEMMA SoleSignerSigned ==
  ASSUME Inv, E4!Conformant, E6!Conformant, NEW v, E6!SoleSigner(v) # E6!None
  PROVE  SignedBy(E6!SoleSigner(v), E6!Views[v].checkpoint) # {}
<1> DEFINE d == E6!Views[v].e4
           a == E4!TrustDecisions[d].attestation
           p == E4!TrustDecisions[d].policy
           signatures == E4!Attestations[a].signatures
           s == signatures[1]
           k == E4!Signatures[s].key
<1>1. /\ d \in DOMAIN E4!TrustDecisions /\ E4!TrustDecisions[d].state = "authenticated"
      /\ a \in DOMAIN E4!Attestations
      /\ E6!Views[v].checkpoint \in E4!Attestations[a].bindings
      /\ E4!TrustPolicies[p].count = 1 /\ E6!Len(signatures) = 1
      /\ E6!SoleSigner(v) = E4!Keys[k].principal
  BY SameSections DEF E6!SoleSigner, E6!Binds
<1>2. signatures \in Seq(Range(signatures)) /\ Len(signatures) = 1
  BY <1>1, TypedTrust
<1>3. /\ E4!Range(signatures) = {s} /\ Range(signatures) = {s} /\ signatures # <<>>
  <2>1. DOMAIN signatures = {1}
    BY <1>2
  <2>2. <<>> # signatures
    BY <1>2
  <2> HIDE DEF signatures
  <2> QED
    BY <2>1, <2>2 DEF E4!Range, Range
<1>4. PICK x : x \in E4!ValidSignatures(a, p)
  <2>1. Cardinality(E4!Signers(a, p)) >= 1
    BY <1>1, AuthenticatedDecision
  <2>2. E4!Signers(a, p) # {}
    BY <2>1, FS_EmptySet
  <2> QED
    BY <2>2 DEF E4!Signers
<1>5. x \in E4!Range(signatures) /\ k \in DOMAIN E4!Keys /\ E4!MadeBy(k, a, s)
  <2>1. /\ x \in E4!Range(signatures) /\ E4!Signatures[x].key \in DOMAIN E4!Keys
        /\ E4!MadeBy(E4!Signatures[x].key, a, x)
    BY <1>4, ValidIsMade
  <2>2. x = s
    BY <1>3, <2>1
  <2> QED
    BY <2>1, <2>2
<1>6. a \in SignedBy(E6!SoleSigner(v), E6!Views[v].checkpoint)
  BY <1>1, <1>3, <1>5 DEF SignedBy
<1> QED
  BY <1>6

\* Whom E6 holds to have equivocated has signed both sides of a fork that E5 reports.
LEMMA EquivocatorSigned ==
  ASSUME Inv, E4!Conformant, E6!Conformant, NEW d \in DOMAIN E6!Accountability,
         E6!Accountability[d].state = "single-principal-equivocation"
  PROVE  LET cmp == E6!Comparisons[E6!ForkEvidence[E6!Accountability[d].fork].comparison]
             left == E6!Views[cmp.left].checkpoint
             right == E6!Views[cmp.right].checkpoint
             principal == E6!Accountability[d].principal
         IN  /\ Size(left) = Size(right) /\ Root(left) # Root(right)
             /\ SignedBy(principal, left) # {} /\ SignedBy(principal, right) # {}
             /\ e5_phase = "done" => e5_errors # {}
<1> DEFINE fork == E6!ForkEvidence[E6!Accountability[d].fork]
           policy == E6!AccountabilityPolicies[E6!Accountability[d].policy]
           c == fork.comparison
           cmp == E6!Comparisons[c]
           left == E6!Views[cmp.left].checkpoint
           right == E6!Views[cmp.right].checkpoint
           signers == {E6!SoleSigner(cmp.left), E6!SoleSigner(cmp.right)}
<1>1. <<E6!Accountability[d].state, E6!Accountability[d].principal>>
        = E6!Attribution(fork, policy)
  BY AcceptedGossip DEF E6!AccountabilitySound
<1>2. /\ E6!Conflicting(c)
      /\ E6!Cardinality(signers) = 1 /\ E6!None \notin signers
      /\ E6!Accountability[d].principal = E6!SoleSigner(cmp.left)
  BY <1>1 DEF E6!Attribution
<1>3. E6!SoleSigner(cmp.right) = E6!SoleSigner(cmp.left)
  <2>1. IsFiniteSet({E6!SoleSigner(cmp.left)})
    BY FS_Singleton
  <2>2. Cardinality(signers) = 1
    BY <1>2, SameCardinality
  <2>3. IsFiniteSet(signers)
    BY <2>1, FS_AddElement
  <2>4. \E x : signers = {x}
    <3> HIDE DEF signers
    <3> QED
      BY <2>2, <2>3, FS_Singleton
  <2> QED
    BY <2>4
<1>4. E6!Derived(c) = "direct-conflict"
  BY <1>2, AcceptedGossip DEF E6!Conflicting, E6!ComparisonSound
<1>5. /\ left \in DOMAIN E5!Checkpoints /\ right \in DOMAIN E5!Checkpoints
      /\ E5!Checkpoints[left].log = E5!Checkpoints[right].log
      /\ Size(left) = Size(right) /\ Root(left) # Root(right)
  BY <1>4, SameSections DEF E6!Derived, E6!Identity, Size, Root
<1>6. E5!Conformant => FALSE
  <2> SUFFICES ASSUME E5!Conformant PROVE FALSE
    OBVIOUS
  <2>1. E5!WellFormed(left) /\ E5!WellFormed(right) /\ E5!Forks = {}
    BY <1>5, AcceptedHistory
  <2>2. <<"fork", E5!Checkpoints[left].log>> \in E5!Forks
    BY <1>5, <2>1 DEF E5!Forks, Size, Root
  <2> QED
    BY <2>1, <2>2
<1>7. SignedBy(E6!SoleSigner(cmp.left), left) # {} /\ SignedBy(E6!SoleSigner(cmp.left), right) # {}
  BY <1>2, <1>3, SoleSignerSigned
<1> QED
  BY <1>2, <1>5, <1>6, <1>7 DEF E5!Conformant

\* Nobody is believed or blamed without a signature, although E5 and E6 verify none.
THEOREM Authentication == Spec => []AuthenticationIsSigned
<1>1. ASSUME Inv PROVE AuthenticationIsSigned
  BY <1>1, QuorumIsSigned, EquivocatorSigned DEF AuthenticationIsSigned, SignedBacked, SignedBy
<1> QED
  BY <1>1, InvHolds, PTL
=============================================================================
