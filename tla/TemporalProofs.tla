---------------------------- MODULE TemporalProofs -----------------------------
(***************************************************************************)
(* Theorems about the E11 checker and its hardening profile, for every set *)
(* of files and every registry they may hold.                              *)
(***************************************************************************)
EXTENDS TemporalHardening, NaturalFacts, FiniteSetTheorems, TLAPS

-----------------------------------------------------------------------------
(* The clock.  E11 defines what a lease is worth at an instant; the program *)
(* compares the ends of an interval.                                        *)

IsLease(lease) ==
  lease.issued \in Int /\ lease.from \in Int /\ lease.until \in Int

IsPolicy(policy) ==
  policy.grace_ticks \in Int /\ \A age \in policy.max_ages : age \in Int

(***************************************************************************)
(* The comparisons at the end of expected_state decide, for any integers,  *)
(* whether all instants of a non-empty interval agree, and on what.        *)
(***************************************************************************)
THEOREM WindowIsPointwise ==
  ASSUME NEW lo \in Int, NEW hi \in Int, lo <= hi,
         NEW lease, IsLease(lease), NEW policy, IsPolicy(policy)
  PROVE  /\ Window(lo, hi, lease, policy) # "indeterminate" =>
              \A t \in lo..hi :
                StateAt(t, lease, policy) = Window(lo, hi, lease, policy)
         /\ Window(lo, hi, lease, policy) = "indeterminate" =>
              StateAt(lo, lease, policy) # StateAt(hi, lease, policy)
<1> DEFINE lapses == {lease.issued + age : age \in policy.max_ages}
           stale(t) == \E age \in policy.max_ages : t > lease.issued + age
<1> /\ lease.issued \in Int /\ lease.from \in Int /\ lease.until \in Int
    /\ policy.grace_ticks \in Int
    /\ \A age \in policy.max_ages : age \in Int
  BY DEF IsLease, IsPolicy
<1>1. /\ (\E x \in lapses : lo > x) <=> stale(lo)
      /\ (\E x \in lapses : lo <= x /\ x < hi) => stale(hi)
      /\ stale(lo) => \A t \in lo..hi : stale(t)
      /\ \A t \in lo..hi :
           stale(t) /\ ~stale(lo) => \E x \in lapses : lo <= x /\ x < hi
  <2>1. /\ \A x \in lapses : \E age \in policy.max_ages : x = lease.issued + age
        /\ \A age \in policy.max_ages : lease.issued + age \in lapses
    OBVIOUS
  <2>2. \A x \in lapses : x \in Int
    BY <2>1
  <2> HIDE DEF lapses
  <2>3. (\E x \in lapses : lo > x) <=> stale(lo)
    BY <2>1
  <2>4. ASSUME NEW x \in lapses, lo <= x, x < hi PROVE stale(hi)
    BY <2>1, <2>4
  <2>5. ASSUME NEW age \in policy.max_ages, lo > lease.issued + age, NEW t \in lo..hi
        PROVE  t > lease.issued + age
    BY <2>5
  <2>6. ASSUME NEW t \in lo..hi, NEW age \in policy.max_ages,
               t > lease.issued + age, ~stale(lo)
        PROVE  lo <= lease.issued + age /\ lease.issued + age < hi
    BY <2>6
  <2> QED
    BY <2>1, <2>3, <2>4, <2>5, <2>6
<1>2. CASE stale(lo)
  BY <1>1, <1>2 DEF Window, StateAt
<1>3. CASE ~stale(lo) /\ \E x \in lapses : lo <= x /\ x < hi
  <2>1. Window(lo, hi, lease, policy) = "indeterminate"
    BY <1>1, <1>3 DEF Window
  <2>2. StateAt(hi, lease, policy) = "stale" /\ StateAt(lo, lease, policy) # "stale"
    BY <1>1, <1>3 DEF StateAt
  <2> QED
    BY <2>1, <2>2
<1>4. CASE ~stale(lo) /\ ~\E x \in lapses : lo <= x /\ x < hi
  <2>1. \A t \in lo..hi : ~stale(t)
    BY <1>1, <1>4
  <2>2. \A t \in lo..hi :
          StateAt(t, lease, policy) =
            IF t < lease.from THEN "not-yet-valid"
            ELSE IF t < lease.until THEN "valid"
            ELSE IF policy.allow_grace /\ t < lease.until + policy.grace_ticks
                   THEN "grace-valid"
            ELSE "expired"
    BY <2>1 DEF StateAt
  <2>3. Window(lo, hi, lease, policy) =
          IF hi < lease.from THEN "not-yet-valid"
          ELSE IF lo < lease.from /\ lease.from <= hi THEN "indeterminate"
          ELSE IF lo < lease.until /\ hi < lease.until THEN "valid"
          ELSE IF lo < lease.until /\ lease.until <= hi THEN "indeterminate"
          ELSE IF policy.allow_grace /\ lo >= lease.until
                    /\ hi < lease.until + policy.grace_ticks
            THEN "grace-valid"
          ELSE IF policy.allow_grace /\ lo < lease.until + policy.grace_ticks
                    /\ lease.until + policy.grace_ticks <= hi
            THEN "indeterminate"
          ELSE "expired"
    BY <1>1, <1>4 DEF Window
  <2> lo \in lo..hi /\ hi \in lo..hi
    OBVIOUS
  <2> HIDE DEF stale, lapses
  <2> QED
    BY <2>2, <2>3
<1> QED
  BY <1>2, <1>3, <1>4

-----------------------------------------------------------------------------
(* Lineages.                                                                *)

Predecessor(x) == IF x \in Leases THEN reg.leases[x].predecessor ELSE None

\* A lineage is what its recursive definition says: a function of that kind
\* exists, since its values are taken from a given set.
LEMMA AncestorEquations ==
  ASSUME NEW l
  PROVE  /\ Ancestor(l)[0] = l
         /\ \A n \in Nat : Ancestor(l)[n + 1] = Predecessor(Ancestor(l)[n])
<1> DEFINE C == {l, None} \cup {reg.leases[x].predecessor : x \in Leases}
           step == [x \in C |-> Predecessor(x)]
           body(f, n) == IF n = 0 THEN l
                         ELSE IF f[n - 1] \in Leases THEN reg.leases[f[n - 1]].predecessor
                         ELSE None
<1>1. l \in C /\ step \in [C -> C]
  BY DEF Predecessor
<1>2. PICK f \in [Nat -> C] : f[0] = l /\ \A n \in Nat : f[n + 1] = step[f[n]]
  <2> HIDE DEF C, step
  <2> QED
    BY <1>1, RecursionExists
<1>3. \A n \in Nat : f[n] = body(f, n)
  <2> SUFFICES ASSUME NEW n \in Nat PROVE f[n] = body(f, n)
    OBVIOUS
  <2>1. CASE n = 0
    BY <1>2, <2>1
  <2>2. CASE n # 0
    <3>1. n - 1 \in Nat /\ f[n - 1] \in C
      BY <1>2, <2>2
    <3>2. f[(n - 1) + 1] = step[f[n - 1]]
      BY <1>2, <3>1
    <3> QED
      BY <2>2, <3>1, <3>2 DEF Predecessor
  <2> QED
    BY <2>1, <2>2
<1>4. f = [n \in Nat |-> body(f, n)]
  BY <1>2, <1>3
<1>5. Ancestor(l) = [n \in Nat |-> body(Ancestor(l), n)]
  BY <1>4, Zenon DEF Ancestor
<1> HIDE DEF body
<1>6. \A n \in Nat : Ancestor(l)[n] = body(Ancestor(l), n)
  BY <1>5, Zenon
<1>7. Ancestor(l)[0] = l
  BY <1>6 DEF body
<1>8. ASSUME NEW n \in Nat PROVE Ancestor(l)[n + 1] = Predecessor(Ancestor(l)[n])
  <2>1. n + 1 \in Nat /\ n + 1 # 0 /\ (n + 1) - 1 = n
    OBVIOUS
  <2> QED
    BY <1>6, <2>1 DEF body, Predecessor
<1> QED
  BY <1>7, <1>8

\* Where two lineages meet they go on together.
LEMMA LineagesMerge ==
  ASSUME NEW l, NEW m, NEW i \in Nat, NEW j \in Nat, Ancestor(l)[i] = Ancestor(m)[j]
  PROVE  \A n \in Nat : Ancestor(l)[i + n] = Ancestor(m)[j + n]
<1> DEFINE S == {n \in Nat : Ancestor(l)[i + n] = Ancestor(m)[j + n]}
<1>1. 0 \in S
  OBVIOUS
<1>2. ASSUME NEW n \in Nat, n \in S PROVE n + 1 \in S
  <2>1. /\ i + n \in Nat /\ i + (n + 1) = (i + n) + 1
        /\ j + n \in Nat /\ j + (n + 1) = (j + n) + 1
    OBVIOUS
  <2>2. Ancestor(l)[(i + n) + 1] = Ancestor(m)[(j + n) + 1]
    BY <1>2, <2>1, AncestorEquations
  <2> QED
    BY <2>1, <2>2
<1>3. \A n \in Nat : n \in S
  <2> HIDE DEF S
  <2> QED
    BY <1>1, <1>2, SetInduction
<1> QED
  BY <1>3

\* Nothing comes after the end of a lineage.
LEMMA LineageEnds ==
  ASSUME None \notin Leases, NEW l, NEW k \in Nat, Ancestor(l)[k] \notin Leases
  PROVE  \A n \in Nat : Ancestor(l)[k + n] \notin Leases
<1> DEFINE S == {n \in Nat : Ancestor(l)[k + n] \notin Leases}
<1>1. 0 \in S
  OBVIOUS
<1>2. ASSUME NEW n \in Nat, n \in S PROVE n + 1 \in S
  <2>1. k + n \in Nat /\ k + (n + 1) = (k + n) + 1
    OBVIOUS
  <2>2. Ancestor(l)[(k + n) + 1] = None
    BY <1>2, <2>1, AncestorEquations DEF Predecessor
  <2> QED
    BY <2>1, <2>2
<1>3. \A n \in Nat : n \in S
  <2> HIDE DEF S
  <2> QED
    BY <1>1, <1>2, SetInduction
<1> QED
  BY <1>3

Ends(l) == \E n \in Nat : Ancestor(l)[n] \notin Leases

\* A lineage that ends never returns to where it started: the first of its
\* positions past the end would come one turn earlier.
LEMMA EndingIsAcyclic ==
  ASSUME None \notin Leases, NEW l \in Leases, Ends(l), NEW p \in Nat, p # 0
  PROVE  Ancestor(l)[p] # l
<1> SUFFICES ASSUME Ancestor(l)[p] = l PROVE FALSE
  OBVIOUS
<1> DEFINE T == {n \in Nat : Ancestor(l)[n] \notin Leases}
<1>1. T \in SUBSET Nat /\ T # {}
  BY DEF Ends
<1>2. PICK n \in T : \A m \in T : n <= m
  <2> HIDE DEF T
  <2> QED
    BY <1>1, LeastElement, Zenon
<1>3. CASE n < p
  <2>1. p - n \in Nat /\ n + (p - n) = p
    BY <1>3
  <2>2. Ancestor(l)[n + (p - n)] \notin Leases
    BY <2>1, LineageEnds
  <2> QED
    BY <2>1, <2>2
<1>4. CASE ~(n < p)
  <2>1. n - p \in Nat /\ p + (n - p) = n /\ 0 + (n - p) = n - p
    BY <1>4
  <2>2. Ancestor(l)[p] = Ancestor(l)[0]
    BY AncestorEquations
  <2>3. \A k \in Nat : Ancestor(l)[p + k] = Ancestor(l)[0 + k]
    <3>1. 0 \in Nat
      OBVIOUS
    <3> QED
      BY <2>2, <3>1, LineagesMerge
  <2>4. n - p \in T
    BY <2>1, <2>3
  <2> QED
    BY <1>2, <2>1, <2>4
<1> QED
  BY <1>3, <1>4

\* Lineages depend on the registry alone.
LEMMA LineagesFixed ==
  ASSUME reg' = reg
  PROVE  \A l : Ancestor(l)' = Ancestor(l) /\ (Ends(l)' <=> Ends(l))
BY DEF Ancestor, Ends, Leases

-----------------------------------------------------------------------------
(* Typing. *)

\* The checker never writes the registry it checks.
LEMMA RegistryFixed == [Next]_vars => reg' = reg
BY DEF Next, vars, Load, EndLoop, FollowPredecessor, StopWalk, Report, Enter,
       Visit, CheckBase, CheckReplay, CheckRenewal, StartWalk, CheckDecision

\* No step changes what the sections list.
LEMMA SectionsFixed ==
  ASSUME reg' = reg
  PROVE  Leases' = Leases /\ \A p : Section(p)' = Section(p)
BY DEF Leases, Section

\* Every loop is followed by a phase of the program.
LEMMA NextPhase == \A p \in Loops : After(p) \in Phases
BY DEF Loops, BaseSections, Phases, After

\* Every step keeps the types.
LEMMA TypeStep == TypeOK /\ [Next]_vars => TypeOK'
<1> SUFFICES ASSUME TypeOK, [Next]_vars PROVE TypeOK'
  OBVIOUS
<1> reg' = reg /\ Leases' = Leases /\ \A p : Section(p)' = Section(p)
  BY RegistryFixed, SectionsFixed
<1>1. CASE Load
  BY <1>1 DEF TypeOK, Load, Enter, Phases, Loops, BaseSections
<1>2. CASE EndLoop
  BY <1>2, NextPhase DEF TypeOK, EndLoop, Enter
<1>3. CASE FollowPredecessor
  BY <1>3 DEF TypeOK, FollowPredecessor, NoWalk
<1>4. CASE StopWalk
  BY <1>4 DEF TypeOK, StopWalk
<1>5. CASE Report
  <2>1. report' \in [structural : {"pending", "conformant", "non-conformant"},
                     time_observation : {"not-evaluated", "verified"},
                     lease : {"not-evaluated", "verified"},
                     renewal : {"not-evaluated", "verified"},
                     replay : {"not-evaluated", "verified"},
                     temporal_validity : {"not-evaluated", "verified", "grace"}]
    BY <1>5 DEF Report, Cap
  <2> QED
    BY <1>5, <2>1 DEF TypeOK, Report, Phases, Section, BaseSections, NoWalk
<1>6. ASSUME NEW id \in todo, CheckBase(id) PROVE TypeOK'
  BY <1>6 DEF TypeOK, CheckBase, Visit
<1>7. ASSUME NEW id \in todo, CheckReplay(id) PROVE TypeOK'
  BY <1>7 DEF TypeOK, CheckReplay, Visit
<1>8. ASSUME NEW id \in todo, CheckRenewal(id) PROVE TypeOK'
  BY <1>8 DEF TypeOK, CheckRenewal, Visit, Section, BaseSections
<1>9. ASSUME NEW id \in todo, StartWalk(id) PROVE TypeOK'
  BY <1>9 DEF TypeOK, StartWalk, Visit, Section, BaseSections
<1>10. ASSUME NEW id \in todo, CheckDecision(id) PROVE TypeOK'
  BY <1>10 DEF TypeOK, CheckDecision, Visit, Section, BaseSections
<1>11. CASE UNCHANGED vars
  BY <1>11 DEF TypeOK, vars
<1> QED
  BY <1>1, <1>2, <1>3, <1>4, <1>5, <1>6, <1>7, <1>8, <1>9, <1>10, <1>11 DEF Next

(***************************************************************************)
(* The loops visit ids of their own sections, a walk starts at a lease of  *)
(* the registry, and the results are the ones result() can name.           *)
(***************************************************************************)
THEOREM TypeCorrect == Spec => []TypeOK
<1>1. Init => TypeOK
  BY DEF Init, TypeOK, Phases, Loops, BaseSections, Section
<1> QED
  BY <1>1, TypeStep, PTL DEF Spec

-----------------------------------------------------------------------------
(***************************************************************************)
(* The inductive invariant: whatever a loop has visited either left an     *)
(* error behind or is what the loop asks for.                              *)
(***************************************************************************)
PastDecisions == {"report", "done"}
PastLineages == {"decisions"} \cup PastDecisions
PastReplays == {"renewals", "lineages", "decisions"} \cup PastDecisions
PastLeases == {"replays"} \cup PastReplays
PastObservations == {"policies", "leases"} \cup PastLeases

ObservationChecked(o) ==
  phase \in PastObservations \/ (phase = "observations" /\ o \notin todo)
LeaseChecked(l) == phase \in PastLeases \/ (phase = "leases" /\ l \notin todo)
ReplayChecked(r) == phase \in PastReplays \/ (phase = "replays" /\ r \notin todo)
LineageChecked(l) ==
  phase \in PastLineages \/ (phase = "lineages" /\ l \notin todo /\ walk.lease # l)
DecisionChecked(d) ==
  phase \in PastDecisions \/ (phase = "decisions" /\ d \notin todo)

LeaseClean(l) == reg.leases[l].status = "active" => reg.leases[l].evidence = "ok"
ReplayClean(r) == reg.replays[r].evidence = "ok"

Given == /\ \E f \in Files : reg = RegistryIn(f)
         /\ phase = "load" => errors = {}

RecordsClean ==
  ~Failed =>
    /\ \A o \in DOMAIN reg.observations :
         ObservationChecked(o) => ObservationSound(o)
    /\ \A l \in Leases : LeaseChecked(l) => LeaseClean(l)
    /\ \A d \in DOMAIN reg.decisions : DecisionChecked(d) => DecisionSound(d)

\* Meaningful while the loop runs; afterwards the set is never read again.
KeysSeen ==
  \A r \in DOMAIN reg.replays :
    phase = "replays" /\ r \notin todo => reg.replays[r].key \in seen_replay

ReplaysClean ==
  ~Failed =>
    /\ \A r \in DOMAIN reg.replays : ReplayChecked(r) => ReplayClean(r)
    /\ \A q, r \in DOMAIN reg.replays :
         /\ ReplayChecked(q) /\ ReplayChecked(r)
         /\ reg.replays[q].key = reg.replays[r].key
         => q = r

\* The walk from a lease is on its lineage, and lineages walked to the end end.
WalkInv ==
  /\ walk # NoWalk =>
       /\ walk = [lease |-> walk.lease, at |-> walk.at, seen |-> walk.seen]
       /\ walk.lease \notin todo
       /\ \E k \in Nat : walk.at = Ancestor(walk.lease)[k]
  /\ ~Failed => \A l \in Leases : LineageChecked(l) => Ends(l)

ReportHonest == report.structural = "conformant" => phase = "done" /\ ~Failed

TemporalInv == /\ TypeOK
               /\ Given
               /\ RecordsClean
               /\ KeysSeen
               /\ ReplaysClean
               /\ WalkInv
               /\ ReportHonest

\* No record has the id that stands for none.
LEMMA NoneIsNoId ==
  ASSUME TemporalInv
  PROVE  /\ None \notin Leases /\ None \notin DOMAIN reg.replays
         /\ None \notin DOMAIN reg.decisions
BY RegistryAssumption DEF TemporalInv, Given, Leases

\* No step takes a finding back.
LEMMA ErrorsGrow ==
  ASSUME Given, [Next]_vars
  PROVE  errors \subseteq errors' /\ (~Failed' => ~Failed)
BY DEF Given, Failed, Next, vars, Load, EndLoop, FollowPredecessor, StopWalk,
       Report, Visit, CheckBase, CheckReplay, CheckRenewal, StartWalk,
       CheckDecision

\* Every step leaves the registry as it was read.
LEMMA GivenStep == TypeOK /\ Given /\ [Next]_vars => Given'
<1> SUFFICES ASSUME TypeOK, Given, [Next]_vars PROVE Given'
  OBVIOUS
<1>1. phase' = "load" => phase = "load" /\ errors' = errors
  BY DEF TypeOK, Next, vars, Load, EndLoop, FollowPredecessor, StopWalk, Report,
         Enter, After, Loops, BaseSections, Visit, CheckBase, CheckReplay,
         CheckRenewal, StartWalk, CheckDecision
<1> QED
  BY <1>1, RegistryFixed DEF Given

\* A record is newly checked only by the loop over its section.
LEMMA NewlyChecked ==
  ASSUME TypeOK, [Next]_vars
  PROVE  /\ \A o \in DOMAIN reg.observations : ObservationChecked(o)' =>
              ObservationChecked(o) \/ (phase = "observations" /\ CheckBase(o))
         /\ \A l \in Leases : LeaseChecked(l)' =>
              LeaseChecked(l) \/ (phase = "leases" /\ CheckBase(l))
         /\ \A r \in DOMAIN reg.replays : ReplayChecked(r)' =>
              ReplayChecked(r) \/ CheckReplay(r)
         /\ \A d \in DOMAIN reg.decisions : DecisionChecked(d)' =>
              DecisionChecked(d) \/ CheckDecision(d)
<1> USE DEF ObservationChecked, LeaseChecked, ReplayChecked, DecisionChecked,
            PastDecisions, PastReplays, PastLeases, PastObservations
<1> reg' = reg
  BY RegistryFixed
<1>1. CASE Load
  BY <1>1 DEF Load, Enter
<1>2. CASE EndLoop
  <2>1. \A p : Section(p)' = Section(p)
    BY SectionsFixed
  <2> QED
    BY <1>2, <2>1 DEF EndLoop, Enter, After, Loops, BaseSections, Section, Leases
<1>3. CASE FollowPredecessor \/ StopWalk \/ UNCHANGED vars
  BY <1>3 DEF FollowPredecessor, StopWalk, vars
<1>4. CASE Report
  BY <1>4 DEF Report
<1>5. ASSUME NEW id \in todo,
             \/ CheckBase(id) \/ CheckReplay(id) \/ CheckRenewal(id)
             \/ StartWalk(id) \/ CheckDecision(id)
      PROVE  /\ phase' = phase /\ todo' = todo \ {id}
             /\ phase = "observations" => CheckBase(id)
             /\ phase = "leases" => CheckBase(id)
             /\ phase = "replays" => CheckReplay(id)
             /\ phase = "decisions" => CheckDecision(id)
  BY <1>5 DEF CheckBase, CheckReplay, CheckRenewal, StartWalk, CheckDecision,
              Visit, BaseSections
<1>6. ASSUME NEW id \in todo,
             \/ CheckBase(id) \/ CheckReplay(id) \/ CheckRenewal(id)
             \/ StartWalk(id) \/ CheckDecision(id)
      PROVE  /\ \A o : ObservationChecked(o)' =>
                  ObservationChecked(o) \/ (phase = "observations" /\ CheckBase(o))
             /\ \A l : LeaseChecked(l)' =>
                  LeaseChecked(l) \/ (phase = "leases" /\ CheckBase(l))
             /\ \A r : ReplayChecked(r)' => ReplayChecked(r) \/ CheckReplay(r)
             /\ \A d : DecisionChecked(d)' => DecisionChecked(d) \/ CheckDecision(d)
  BY <1>5, <1>6
<1> QED
  BY <1>1, <1>2, <1>3, <1>4, <1>6 DEF Next

\* Evidence without a finding is in order.
LEMMA CleanEvidence ==
  ASSUME NEW loc, NEW evidence, EvidenceErrors(evidence, loc) = {}
  PROVE  evidence = "ok"
BY DEF EvidenceErrors

\* Every step keeps what is known of the records looked at,
LEMMA RecordsCleanStep == TemporalInv /\ [Next]_vars => RecordsClean'
<1> SUFFICES ASSUME TemporalInv, [Next]_vars, ~Failed' PROVE RecordsClean'
  BY DEF RecordsClean
<1> reg' = reg /\ ~Failed /\ errors' = {}
  BY RegistryFixed, ErrorsGrow DEF TemporalInv, Failed
<1>1. ASSUME NEW o \in DOMAIN reg.observations, ObservationChecked(o)'
      PROVE  ObservationSound(o)'
  <2>1. ObservationSound(o)' <=> ObservationSound(o)
    BY DEF ObservationSound
  <2>2. CASE ObservationChecked(o)
    BY <2>1, <2>2 DEF TemporalInv, RecordsClean
  <2>3. CASE phase = "observations" /\ CheckBase(o)
    <3>1. RecordErrors("observations", o) = {}
      BY <2>3 DEF CheckBase
    <3> QED
      BY <2>1, <3>1 DEF RecordErrors, Mark
  <2> QED
    BY <1>1, <2>2, <2>3, NewlyChecked DEF TemporalInv
<1>2. ASSUME NEW l \in Leases, LeaseChecked(l)'
      PROVE  LeaseClean(l)'
  <2>1. CASE LeaseChecked(l)
    BY <2>1 DEF TemporalInv, RecordsClean, LeaseClean
  <2>2. CASE phase = "leases" /\ CheckBase(l)
    <3>1. RecordErrors("leases", l) = {}
      BY <2>2 DEF CheckBase
    <3>2. reg.leases[l].status = "active" =>
            EvidenceErrors(reg.leases[l].evidence, <<"leases", l>>) = {}
      BY <3>1 DEF RecordErrors
    <3> QED
      BY <3>2, CleanEvidence DEF LeaseClean
  <2> QED
    BY <1>2, <2>1, <2>2, NewlyChecked DEF TemporalInv
<1>3. ASSUME NEW d \in DOMAIN reg.decisions, DecisionChecked(d)'
      PROVE  DecisionSound(d)'
  <2>1. DecisionSound(d)' <=> DecisionSound(d)
    BY DEF DecisionSound, ExpectedState, LeaseState, ReplayState, E10State,
           Depths, Ancestor, Leases
  <2>2. CASE DecisionChecked(d)
    BY <2>1, <2>2 DEF TemporalInv, RecordsClean
  <2>3. CASE CheckDecision(d)
    BY <2>1, <2>3 DEF CheckDecision, Mark
  <2> QED
    BY <1>3, <2>2, <2>3, NewlyChecked DEF TemporalInv
<1> QED
  BY <1>1, <1>2, <1>3, SectionsFixed DEF RecordsClean

\* ... that the keys of the replays looked at are taken,
LEMMA KeysSeenStep == TemporalInv /\ [Next]_vars => KeysSeen'
<1> SUFFICES ASSUME TemporalInv, [Next]_vars, phase' = "replays",
                    NEW r \in DOMAIN reg.replays, r \notin todo'
             PROVE  reg.replays[r].key \in seen_replay'
  BY RegistryFixed DEF KeysSeen
<1> reg' = reg
  BY RegistryFixed
<1>1. CASE Load \/ EndLoop
  BY <1>1 DEF Load, EndLoop, Enter, Section, BaseSections
<1>2. CASE FollowPredecessor \/ StopWalk \/ Report \/ UNCHANGED vars
  BY <1>2 DEF TemporalInv, KeysSeen, FollowPredecessor, StopWalk, Report, vars
<1>3. ASSUME NEW id \in todo, CheckReplay(id)
      PROVE  reg.replays[r].key \in seen_replay'
  BY <1>3 DEF TemporalInv, KeysSeen, CheckReplay, Visit
<1>4. ASSUME NEW id \in todo,
             CheckBase(id) \/ CheckRenewal(id) \/ StartWalk(id) \/ CheckDecision(id)
      PROVE  FALSE
  BY <1>4 DEF CheckBase, CheckRenewal, StartWalk, CheckDecision, Visit, BaseSections
<1> QED
  BY <1>1, <1>2, <1>3, <1>4 DEF Next

\* ... what is known of those replays,
LEMMA ReplaysCleanStep == TemporalInv /\ [Next]_vars => ReplaysClean'
<1> SUFFICES ASSUME TemporalInv, [Next]_vars, ~Failed' PROVE ReplaysClean'
  BY DEF ReplaysClean
<1> reg' = reg /\ ~Failed /\ errors' = {}
  BY RegistryFixed, ErrorsGrow DEF TemporalInv, Failed
<1>1. \A r \in DOMAIN reg.replays :
        CheckReplay(r) => ReplayClean(r) /\ reg.replays[r].key \notin seen_replay
  BY CleanEvidence DEF CheckReplay, ReplayErrors, Mark, FreshToken, ReplayClean
<1>2. \A r \in DOMAIN reg.replays :
        ReplayChecked(r)' => ReplayChecked(r) \/ CheckReplay(r)
  BY NewlyChecked DEF TemporalInv
<1>3. ASSUME NEW r \in DOMAIN reg.replays, ReplayChecked(r)'
      PROVE  ReplayClean(r)'
  BY <1>1, <1>2, <1>3 DEF TemporalInv, ReplaysClean, ReplayClean
<1>4. ASSUME NEW q \in DOMAIN reg.replays, NEW r \in DOMAIN reg.replays,
             ReplayChecked(q)', ReplayChecked(r)',
             reg.replays[q].key = reg.replays[r].key
      PROVE  q = r
  <2>1. ASSUME NEW x \in DOMAIN reg.replays, NEW y \in DOMAIN reg.replays,
               CheckReplay(x), ReplayChecked(y)
        PROVE  reg.replays[x].key # reg.replays[y].key
    BY <1>1, <2>1 DEF TemporalInv, KeysSeen, CheckReplay, Visit, ReplayChecked,
                      PastReplays, PastDecisions
  <2>2. CASE ReplayChecked(q) /\ ReplayChecked(r)
    BY <1>4, <2>2 DEF TemporalInv, ReplaysClean
  <2>3. CASE CheckReplay(q) /\ CheckReplay(r)
    BY <2>3 DEF CheckReplay, Visit
  <2> QED
    BY <1>2, <1>4, <2>1, <2>2, <2>3
<1> QED
  BY <1>3, <1>4 DEF ReplaysClean

\* ... of the walk along the predecessors of a lease,
LEMMA WalkStep == TemporalInv /\ [Next]_vars => WalkInv'
<1> SUFFICES ASSUME TemporalInv, [Next]_vars PROVE WalkInv'
  OBVIOUS
<1> /\ reg' = reg /\ Leases' = Leases /\ (~Failed' => ~Failed)
    /\ TypeOK /\ WalkInv /\ None \notin Leases
  BY RegistryFixed, SectionsFixed, ErrorsGrow, NoneIsNoId DEF TemporalInv
<1>0. \A l : Ancestor(l)' = Ancestor(l) /\ (Ends(l)' <=> Ends(l))
  BY LineagesFixed
<1> USE DEF LineageChecked, PastLineages, PastDecisions
<1>1. CASE Load
  BY <1>0, <1>1 DEF Load, Enter, WalkInv, TypeOK
<1>2. CASE EndLoop
  <2>1. walk = NoWalk /\ walk' = walk /\ errors' = errors
    BY <1>2 DEF EndLoop
  <2>2. \A l \in Leases : LineageChecked(l)' => LineageChecked(l)
    BY <1>2, <2>1 DEF EndLoop, Enter, After, Loops, BaseSections, Section, NoWalk
  <2> QED
    BY <1>0, <2>1, <2>2 DEF WalkInv, Failed
<1>3. CASE FollowPredecessor
  <2>1. /\ walk # NoWalk /\ walk.at \in Leases /\ phase = "lineages"
        /\ UNCHANGED <<phase, todo, errors>>
    BY <1>3 DEF FollowPredecessor, TypeOK
  <2>2. PICK k \in Nat : walk.at = Ancestor(walk.lease)[k]
    BY <2>1 DEF WalkInv
  <2>3. Ancestor(walk.lease)[k + 1] = reg.leases[walk.at].predecessor /\ k + 1 \in Nat
    BY <2>1, <2>2, AncestorEquations DEF Predecessor
  <2>4. CASE reg.leases[walk.at].predecessor = None
    <3>1. walk' = NoWalk
      BY <1>3, <2>4 DEF FollowPredecessor
    <3>2. Ends(walk.lease)
      BY <2>3, <2>4 DEF Ends
    <3> QED
      BY <1>0, <2>1, <3>1, <3>2 DEF WalkInv, Failed
  <2>5. CASE reg.leases[walk.at].predecessor # None
    <3>1. walk' = [lease |-> walk.lease, at |-> reg.leases[walk.at].predecessor,
                   seen |-> walk.seen \cup {walk.at}]
      BY <1>3, <2>1, <2>5 DEF FollowPredecessor, WalkInv
    <3>2. walk'.lease = walk.lease /\ walk'.at = Ancestor(walk.lease)[k + 1]
      BY <2>3, <3>1
    <3> QED
      BY <1>0, <2>1, <2>3, <3>1, <3>2 DEF WalkInv, Failed
  <2> QED
    BY <2>4, <2>5
<1>4. CASE StopWalk
  <2>1. /\ walk # NoWalk /\ walk' = NoWalk /\ phase = "lineages"
        /\ walk.at \notin Leases \/ Revisited
        /\ UNCHANGED <<phase, todo>>
    BY <1>4 DEF StopWalk, TypeOK
  <2>2. ~Failed' => ~Revisited
    BY <1>4 DEF StopWalk, CycleErrors, Mark, Failed
  <2>3. ~Failed' => Ends(walk.lease)
    BY <2>1, <2>2 DEF WalkInv, Ends
  <2> QED
    BY <1>0, <2>1, <2>3 DEF WalkInv
<1>5. ASSUME NEW id \in todo, StartWalk(id) PROVE WalkInv'
  <2>1. /\ walk = NoWalk /\ phase = "lineages" /\ todo' = todo \ {id}
        /\ walk' = [lease |-> id, at |-> id, seen |-> {}]
        /\ UNCHANGED <<phase, errors>>
    BY <1>5 DEF StartWalk, Visit
  <2>2. Ancestor(id)[0] = id /\ 0 \in Nat
    BY AncestorEquations
  <2>3. id \in Leases /\ NoWalk.lease = None
    BY <2>1 DEF TypeOK, Section, BaseSections, NoWalk
  <2> QED
    BY <1>0, <2>1, <2>2, <2>3 DEF WalkInv, Failed
<1>6. ASSUME NEW id \in todo,
             CheckBase(id) \/ CheckReplay(id) \/ CheckRenewal(id) \/ CheckDecision(id)
      PROVE  WalkInv'
  <2>1. walk' = walk /\ phase' = phase /\ phase # "lineages"
    BY <1>6 DEF CheckBase, CheckReplay, CheckRenewal, CheckDecision, Visit, BaseSections
  <2>2. walk = NoWalk
    BY <2>1 DEF TypeOK
  <2> QED
    BY <1>0, <2>1, <2>2 DEF WalkInv
<1>7. CASE Report \/ UNCHANGED vars
  <2>1. UNCHANGED <<walk, todo, errors>> /\ \A l : LineageChecked(l)' => LineageChecked(l)
    BY <1>7 DEF Report, vars
  <2> QED
    BY <1>0, <2>1 DEF WalkInv, Failed
<1> QED
  BY <1>1, <1>2, <1>3, <1>4, <1>5, <1>6, <1>7 DEF Next

\* ... and of the report.
LEMMA ReportHonestStep == TemporalInv /\ [Next]_vars => ReportHonest'
<1> SUFFICES ASSUME TemporalInv, [Next]_vars PROVE ReportHonest'
  OBVIOUS
<1>1. CASE Report
  BY <1>1 DEF ReportHonest, Report, Failed
<1>2. CASE phase = "done"
  <2>1. UNCHANGED vars
    BY <1>2 DEF Next, Load, EndLoop, Loops, BaseSections, FollowPredecessor, StopWalk,
                Report, CheckBase, CheckReplay, CheckRenewal, StartWalk,
                CheckDecision, TemporalInv, TypeOK
  <2> QED
    BY <2>1 DEF TemporalInv, ReportHonest, vars, Failed
<1>3. CASE ~Report /\ phase # "done"
  <2>1. report' = report
    BY <1>3 DEF Next, vars, Load, EndLoop, FollowPredecessor, StopWalk, Visit,
                CheckBase, CheckReplay, CheckRenewal, StartWalk, CheckDecision
  <2> QED
    BY <1>3, <2>1 DEF TemporalInv, ReportHonest
<1> QED
  BY <1>1, <1>2, <1>3

\* The invariant holds in the initial states, and every step keeps it.
LEMMA InitInv == Init => TemporalInv
<1> SUFFICES ASSUME Init PROVE TemporalInv
  OBVIOUS
<1>1. TypeOK
  BY DEF Init, TypeOK, Phases, Loops, BaseSections, Section
<1>2. Given /\ KeysSeen /\ ReportHonest
  BY DEF Init, Given, KeysSeen, ReportHonest
<1>3. RecordsClean /\ ReplaysClean /\ WalkInv
  BY DEF Init, RecordsClean, ReplaysClean, WalkInv, ObservationChecked, LeaseChecked,
         ReplayChecked, LineageChecked, DecisionChecked, PastObservations, PastLeases,
         PastReplays, PastLineages, PastDecisions
<1> QED
  BY <1>1, <1>2, <1>3 DEF TemporalInv

\* Every step keeps all of the invariant.
LEMMA InvStep == TemporalInv /\ [Next]_vars => TemporalInv'
BY TypeStep, GivenStep, RecordsCleanStep, KeysSeenStep, ReplaysCleanStep, WalkStep,
   ReportHonestStep DEF TemporalInv

(***************************************************************************)
(* Every reachable state of a run satisfies the inductive invariant.       *)
(***************************************************************************)
THEOREM InvariantHolds == Spec => []TemporalInv
BY InitInv, InvStep, PTL DEF Spec

-----------------------------------------------------------------------------
(* What a conformant registry is. *)

\* With no finding and all loops done, every record is what its loop asks for.
LEMMA ConformantIsClean ==
  ASSUME TemporalInv, Conformant
  PROVE  /\ \A o \in DOMAIN reg.observations : ObservationSound(o)
         /\ \A l \in Leases : LeaseClean(l)
         /\ \A r \in DOMAIN reg.replays : ReplayClean(r)
         /\ \A q, r \in DOMAIN reg.replays :
              reg.replays[q].key = reg.replays[r].key => q = r
         /\ \A l \in Leases : Ends(l)
         /\ \A d \in DOMAIN reg.decisions : DecisionSound(d)
BY DEF TemporalInv, Conformant, ReportHonest, RecordsClean, ReplaysClean, WalkInv,
       ObservationChecked, LeaseChecked, ReplayChecked, LineageChecked, DecisionChecked,
       PastObservations, PastLeases, PastReplays, PastLineages, PastDecisions

\* The registry that was read: what is compared as a number is one.
LEMMA TicksAreIntegers ==
  ASSUME TemporalInv
  PROVE  /\ \A o \in DOMAIN reg.observations :
              reg.observations[o].tick \in Int /\ reg.observations[o].uncertainty \in Int
         /\ \A p \in DOMAIN reg.policies :
              /\ IsPolicy(reg.policies[p])
              /\ reg.policies[p].max_depth \in Int
              /\ reg.policies[p].max_uncertainty \in Int
         /\ \A l \in Leases : IsLease(reg.leases[l])
BY RegistryAssumption DEF TemporalInv, Given, Leases, IsPolicy, IsLease

\* The state a decision that rests on a lease must declare is that of the
\* window, unless one of the premises before it fails.
LEMMA ExpectedOfLease ==
  ASSUME TemporalInv, NEW d \in DOMAIN reg.decisions, DecisionSound(d),
         reg.decisions[d].lease # None,
         \/ reg.decisions[d].state \notin {"unavailable", "replay-rejected", "indeterminate"}
         \/ /\ reg.decisions[d].state = "indeterminate"
            /\ reg.observations[reg.decisions[d].observation].uncertainty
                 <= reg.policies[reg.decisions[d].policy].max_uncertainty
  PROVE  LET obs == reg.observations[reg.decisions[d].observation]
         IN  reg.decisions[d].state =
               Window(obs.tick - obs.uncertainty, obs.tick + obs.uncertainty,
                      reg.leases[reg.decisions[d].lease],
                      reg.policies[reg.decisions[d].policy])
<1>1. /\ reg.decisions[d].state = ExpectedState(d)
      /\ reg.decisions[d].state \in TemporalStates
  BY DEF DecisionSound
<1>2. LeaseState(d, reg.policies[reg.decisions[d].policy])
        \in {"error", "unavailable", "admitted"}
  BY DEF LeaseState
<1>3. ReplayState(d) \in {"error", "replay-rejected", "unavailable", "admitted"}
  BY DEF ReplayState
<1> DEFINE dec == reg.decisions[d]
           policy == reg.policies[dec.policy]
           obs == reg.observations[dec.observation]
           window == Window(obs.tick - obs.uncertainty, obs.tick + obs.uncertainty,
                            reg.leases[dec.lease], policy)
<1>4. obs.uncertainty \in Int /\ policy.max_uncertainty \in Int
  BY TicksAreIntegers DEF DecisionSound
<1>5. dec.state = "indeterminate" => ~(obs.uncertainty > policy.max_uncertainty)
  BY <1>4
<1>6. ExpectedState(d) \in {"error", "unavailable", "replay-rejected", window}
        \/ (ExpectedState(d) = "indeterminate"
            /\ obs.uncertainty > policy.max_uncertainty)
  BY <1>2, <1>3 DEF ExpectedState
<1> QED
  BY <1>1, <1>5, <1>6 DEF TemporalStates

(***************************************************************************)
(* A conformant registry declares of a lease only what holds at every      *)
(* instant the observation may have been made at.                          *)
(***************************************************************************)
THEOREM EveryInstant == Spec => []SureOfEveryInstant
<1>1. TemporalInv => SureOfEveryInstant
  <2> SUFFICES ASSUME TemporalInv, Conformant,
                      NEW d \in DOMAIN reg.decisions, reg.decisions[d].lease # None
               PROVE  LET dec == reg.decisions[d]
                          obs == reg.observations[dec.observation]
                          policy == reg.policies[dec.policy]
                          instants == (obs.tick - obs.uncertainty)..(obs.tick + obs.uncertainty)
                          worth(t) == StateAt(t, reg.leases[dec.lease], policy)
                      IN  /\ dec.state \notin {"unavailable", "replay-rejected", "indeterminate"} =>
                               \A t \in instants : worth(t) = dec.state
                          /\ dec.state = "indeterminate"
                             /\ obs.uncertainty <= policy.max_uncertainty =>
                               \E t, u \in instants : worth(t) # worth(u)
    BY DEF SureOfEveryInstant
  <2> DEFINE dec == reg.decisions[d]
             obs == reg.observations[dec.observation]
             policy == reg.policies[dec.policy]
             lease == reg.leases[dec.lease]
             lo == obs.tick - obs.uncertainty
             hi == obs.tick + obs.uncertainty
  <2>1. DecisionSound(d) /\ ObservationSound(dec.observation)
    BY ConformantIsClean DEF DecisionSound
  <2>2. /\ dec.policy \in DOMAIN reg.policies
        /\ dec.observation \in DOMAIN reg.observations
        /\ dec.lease \in Leases
    BY <2>1 DEF DecisionSound
  <2>3. lo \in Int /\ hi \in Int /\ lo <= hi
    BY <2>1, <2>2, TicksAreIntegers DEF ObservationSound
  <2>4. IsLease(lease) /\ IsPolicy(policy)
    BY <2>2, TicksAreIntegers
  <2> HIDE DEF lo, hi, lease, policy
  <2>5. /\ Window(lo, hi, lease, policy) # "indeterminate" =>
             \A t \in lo..hi :
               StateAt(t, lease, policy) = Window(lo, hi, lease, policy)
        /\ Window(lo, hi, lease, policy) = "indeterminate" =>
             StateAt(lo, lease, policy) # StateAt(hi, lease, policy)
    BY <2>3, <2>4, WindowIsPointwise
  <2>6. lo \in lo..hi /\ hi \in lo..hi
    BY <2>3
  <2>7. \/ dec.state \notin {"unavailable", "replay-rejected", "indeterminate"}
        \/ dec.state = "indeterminate" /\ obs.uncertainty <= policy.max_uncertainty
        => dec.state = Window(lo, hi, lease, policy)
    BY <2>1, ExpectedOfLease DEF lo, hi, lease, policy
  <2> QED
    BY <2>5, <2>6, <2>7 DEF lo, hi, lease, policy
<1> QED
  BY <1>1, InvariantHolds, PTL

(***************************************************************************)
(* Every positive decision of a conformant registry is supported by the    *)
(* sections its policy points to, and its replay token is carried once.    *)
(***************************************************************************)
THEOREM Supported == Spec => []PositiveIsSupported
<1>1. TemporalInv => PositiveIsSupported
  <2> SUFFICES ASSUME TemporalInv, Conformant,
                      NEW d \in DOMAIN reg.decisions, reg.decisions[d].state \in Positive
               PROVE  LET dec == reg.decisions[d]
                          policy == reg.policies[dec.policy]
                          source == reg.sources[reg.observations[dec.observation].source]
                          lease == reg.leases[dec.lease]
                          token == reg.replays[dec.replay]
                      IN  /\ source.status = "active" /\ source.domain = policy.domain
                          /\ policy.require_e10 => reg.e10[dec.subject].state = "authorized"
                          /\ policy.require_lease => dec.lease # None
                          /\ dec.lease # None =>
                               /\ lease.status = "active" /\ lease.evidence = "ok"
                               /\ lease.subject = dec.subject /\ lease.domain = policy.domain
                               /\ \E n \in 0..policy.max_depth :
                                    /\ Ancestor(dec.lease)[n] \in Leases
                                    /\ reg.leases[Ancestor(dec.lease)[n]].predecessor = None
                          /\ policy.require_replay => dec.replay # None
                          /\ dec.replay # None =>
                               /\ token.state = "available" /\ token.evidence = "ok"
                               /\ token.subject = dec.subject
                               /\ \A r \in DOMAIN reg.replays :
                                    reg.replays[r].key = token.key => r = dec.replay
    BY DEF PositiveIsSupported
  <2> DEFINE dec == reg.decisions[d]
             policy == reg.policies[dec.policy]
  <2>1. /\ DecisionSound(d)
        /\ dec.state = ExpectedState(d)
        /\ dec.policy \in DOMAIN reg.policies
        /\ dec.lease \in Leases \cup {None}
        /\ dec.replay \in DOMAIN reg.replays \cup {None}
    BY ConformantIsClean DEF DecisionSound
  <2>2. ExpectedState(d) \in {"valid", "grace-valid"}
    BY <2>1 DEF Positive
  <2>3. LET source == reg.sources[reg.observations[dec.observation].source]
        IN  /\ source.status = "active" /\ source.domain = policy.domain
            /\ policy.require_e10 => E10State(dec.subject) = "authorized"
            /\ policy.require_lease => dec.lease # None
            /\ dec.lease # None => LeaseState(d, policy) = "admitted"
            /\ policy.require_replay => dec.replay # None
            /\ dec.replay # None => ReplayState(d) = "admitted"
    <3>1. LeaseState(d, policy) \in {"error", "unavailable", "admitted"}
      BY DEF LeaseState
    <3>2. ReplayState(d) \in {"error", "replay-rejected", "unavailable", "admitted"}
      BY DEF ReplayState
    <3> QED
      BY <2>2, <3>1, <3>2 DEF ExpectedState
  <2>4. policy.require_e10 => reg.e10[dec.subject].state = "authorized"
    BY <2>3 DEF E10State, None
  <2>5. ASSUME dec.lease # None
        PROVE  LET lease == reg.leases[dec.lease]
               IN  /\ lease.status = "active" /\ lease.evidence = "ok"
                   /\ lease.subject = dec.subject /\ lease.domain = policy.domain
                   /\ \E n \in 0..policy.max_depth :
                        /\ Ancestor(dec.lease)[n] \in Leases
                        /\ reg.leases[Ancestor(dec.lease)[n]].predecessor = None
    <3>1. LeaseState(d, policy) = "admitted"
      BY <2>3, <2>5
    <3>2. /\ reg.leases[dec.lease].status = "active"
          /\ reg.leases[dec.lease].subject = dec.subject
          /\ reg.leases[dec.lease].domain = policy.domain
          /\ Depths(dec.lease) # {}
          /\ ~\E n \in Depths(dec.lease) : n > policy.max_depth
      BY <3>1 DEF LeaseState
    <3>3. reg.leases[dec.lease].evidence = "ok"
      BY <2>1, <2>5, <3>2, ConformantIsClean DEF LeaseClean
    <3>4. PICK n \in Depths(dec.lease) : ~(n > policy.max_depth)
      BY <3>2
    <3>5. /\ n \in Int /\ n >= 0
          /\ Ancestor(dec.lease)[n] \in Leases
          /\ reg.leases[Ancestor(dec.lease)[n]].predecessor = None
      BY <3>4 DEF Depths
    <3>6. n \in 0..policy.max_depth
      BY <2>1, <3>4, <3>5, TicksAreIntegers
    <3> QED
      BY <3>2, <3>3, <3>5, <3>6
  <2>6. ASSUME dec.replay # None
        PROVE  LET token == reg.replays[dec.replay]
               IN  /\ token.state = "available" /\ token.evidence = "ok"
                   /\ token.subject = dec.subject
                   /\ \A r \in DOMAIN reg.replays :
                        reg.replays[r].key = token.key => r = dec.replay
    <3>1. ReplayState(d) = "admitted"
      BY <2>3, <2>6
    <3>2. dec.replay \in DOMAIN reg.replays
      BY <2>1, <2>6
    <3> QED
      BY <3>1, <3>2, ConformantIsClean DEF ReplayState, ReplayClean
  <2> QED
    BY <2>3, <2>4, <2>5, <2>6
<1> QED
  BY <1>1, InvariantHolds, PTL

-----------------------------------------------------------------------------
(* Lineages of a conformant registry. *)

\* The leases of the registry that was read are finitely many.
LEMMA LeasesAreFinite ==
  ASSUME TemporalInv
  PROVE  /\ IsFiniteSet(Leases) /\ Cardinality(Leases) \in Nat
         /\ IsFiniteSet(DOMAIN reg.renewals)
<1>1. IsFiniteSet(Leases) /\ IsFiniteSet(DOMAIN reg.renewals)
  BY RegistryAssumption DEF TemporalInv, Given, Leases
<1> QED
  BY <1>1, FS_CardinalityType

(***************************************************************************)
(* No lease of a conformant registry of any size descends from itself.     *)
(***************************************************************************)
THEOREM Acyclic == Spec => []AcyclicLineage
<1>1. TemporalInv => AcyclicLineage
  <2> SUFFICES ASSUME TemporalInv, Conformant, NEW l \in Leases,
                      NEW n \in 1..Cardinality(Leases)
               PROVE  Ancestor(l)[n] # l
    BY DEF AcyclicLineage
  <2>1. n \in Nat /\ n # 0
    BY LeasesAreFinite
  <2>2. Ends(l) /\ None \notin Leases
    BY ConformantIsClean, NoneIsNoId
  <2> QED
    BY <2>1, <2>2, EndingIsAcyclic
<1> QED
  BY <1>1, InvariantHolds, PTL

-----------------------------------------------------------------------------
(***************************************************************************)
(* Both programs.  A run of the profile that counted anything went over    *)
(* every fork, every predecessor edge and every decision; what it went     *)
(* over left an error behind or is what the profile asks for.              *)
(***************************************************************************)
Counted == binding_ok \cup chain_ok \cup replay_ok
HAtEnd == h_phase \in {"report", "done"} /\ Counted # {}
Ran == h_phase \in {"forks", "edges", "decisions"} \/ HAtEnd

HasEdge(x) == x \in Leases /\ reg.leases[x].predecessor # None

EdgeLooked(l) ==
  (h_phase = "edges" /\ l \notin h_todo) \/ h_phase = "decisions" \/ HAtEnd
DecisionLooked(d) ==
  (h_phase = "decisions" /\ d \notin h_todo /\ chain.decision # d) \/ HAtEnd

ReplayAgrees(d) == ReplayUsed(d) => ReplayAtObservation(d) /\ ReplayOfRevision(d)

\* Every edge of the lineage is approved exactly once.
ApprovedLine(l) ==
  \A i \in Nat : HasEdge(Ancestor(l)[i]) => ApprovedOnce(Ancestor(l)[i])

\* And so is the lineage the decision rests on.
LineApproved(d) == ApprovedLine(reg.decisions[d].lease)

\* The walk is on the lineage of its decision, and came along approved edges.
OnApprovedLine ==
  \E k \in Nat :
    /\ chain.at = Ancestor(reg.decisions[chain.decision].lease)[k]
    /\ \A i \in 0..(k - 1) :
         ApprovedOnce(Ancestor(reg.decisions[chain.decision].lease)[i])

HBegun ==
  /\ h_phase \in HPhases
  /\ h_phase \in {"files", "baseline"} => h_errors = {}
  /\ h_phase \in {"files", "baseline", "forks", "edges"} => Counted = {}
  /\ h_phase = "decisions" => h_todo \subseteq HDecisions
  /\ h_phase # "done" => "verified" \notin {h_report[r] : r \in DOMAIN h_report}
  /\ Hardened => ~HFailed /\ Counted # {}

HChain ==
  chain # NoChain =>
    /\ h_phase = "decisions"
    /\ chain = [decision |-> chain.decision, at |-> chain.at]
    /\ chain.decision \in HDecisions \ h_todo
    /\ ~HFailed => PremisesSound(chain.decision)
    /\ OnApprovedLine

HClean ==
  ~HFailed =>
    /\ Ran => Conformant
    /\ Ran /\ h_phase # "forks" => Forks = {}
    /\ \A l \in Leases : EdgeLooked(l) => EdgeSound(l)
    /\ \A d \in HDecisions : DecisionLooked(d) =>
         PremisesSound(d) /\ ReplayAgrees(d) /\ LineApproved(d)

HardeningInv == TemporalInv /\ HBegun /\ HChain /\ HClean

\* The profile starts with the base program, and with nothing found.
LEMMA HardeningStarts == HInit => HardeningInv
<1> SUFFICES ASSUME HInit PROVE HardeningInv
  OBVIOUS
<1>1. TemporalInv
  BY InitInv DEF HInit
<1>2. HBegun /\ HChain
  BY DEF HInit, HBegun, HChain, HPhases, Counted, Hardened
<1>3. HClean
  BY DEF HInit, HClean, Ran, HAtEnd, EdgeLooked, DecisionLooked
<1> QED
  BY <1>1, <1>2, <1>3 DEF HardeningInv

\* A step of the profile leaves the registry alone, and with it all that the
\* profile asks of forks, edges and decisions.
LEMMA BaselineKept ==
  ASSUME TemporalInv, [Next]_vars
  PROVE  /\ TemporalInv' /\ reg' = reg
         /\ Leases' = Leases /\ HDecisions' = HDecisions
         /\ (Forks = {}) <=> (Forks' = {})
         /\ \A l : /\ EdgeSound(l)' <=> EdgeSound(l)
                   /\ ApprovedOnce(l)' <=> ApprovedOnce(l)
                   /\ HasEdge(l)' <=> HasEdge(l)
                   /\ Ancestor(l)' = Ancestor(l)
         /\ \A d : /\ PremisesSound(d)' <=> PremisesSound(d)
                   /\ ReplayAgrees(d)' <=> ReplayAgrees(d)
                   /\ LineApproved(d)' <=> LineApproved(d)
<1>1. TemporalInv' /\ reg' = reg
  BY InvStep, RegistryFixed
<1>2. Leases' = Leases /\ HDecisions' = HDecisions
  BY <1>1 DEF Leases, HDecisions
<1>3. (Forks = {}) <=> (Forks' = {})
  BY <1>1 DEF Forks, Approved
<1>4. \A l : /\ EdgeSound(l)' <=> EdgeSound(l)
             /\ ApprovedOnce(l)' <=> ApprovedOnce(l)
             /\ HasEdge(l)' <=> HasEdge(l)
             /\ Ancestor(l)' = Ancestor(l)
  BY <1>1, LineagesFixed
     DEF EdgeSound, ApprovedOnce, ApprovedEdge, Approved, HasEdge, Leases
<1>5. \A d : PremisesSound(d)' <=> PremisesSound(d)
  BY <1>1 DEF PremisesSound, RequiresE10, BoundToE10, LeaseOfRevision, Leases
<1>6. \A d : ReplayAgrees(d)' <=> ReplayAgrees(d)
  BY <1>1 DEF ReplayAgrees, ReplayUsed, ReplayAtObservation, ReplayOfRevision,
              RequiresE10
<1>7. \A d : LineApproved(d)' <=> LineApproved(d)
  BY <1>1, <1>4 DEF LineApproved, ApprovedLine
<1> QED
  BY <1>1, <1>2, <1>3, <1>4, <1>5, <1>6, <1>7

\* Past the baseline the profile's own steps leave the E11 checker where it is.
LEMMA ProfileSteps ==
  ASSUME [HNext]_<<vars, h_vars>>
  PROVE  [Next]_vars /\ (~BaselineStep => UNCHANGED vars)
BY DEF HNext, HLoad, BaselineStep, BaselineDone, CountForks, CheckEdge, HEndLoop,
       StartDecision, FollowEdge, FinishDecision, HReport

\* Once the walk found every edge of a lineage approved, the lineage is.
LEMMA WalkedToTheEnd ==
  ASSUME None \notin Leases, NEW d, NEW k \in Nat,
         ~HasEdge(Ancestor(reg.decisions[d].lease)[k]),
         \A i \in 0..(k - 1) : ApprovedOnce(Ancestor(reg.decisions[d].lease)[i])
  PROVE  LineApproved(d)
<1> DEFINE l == reg.decisions[d].lease
<1> SUFFICES ASSUME NEW i \in Nat, HasEdge(Ancestor(l)[i])
             PROVE  ApprovedOnce(Ancestor(l)[i])
  BY DEF LineApproved, ApprovedLine
<1>1. CASE i < k
  BY <1>1
<1>2. CASE i = k
  BY <1>2
<1>3. CASE i > k
  <2>1. Ancestor(l)[k + 1] = None
    BY AncestorEquations DEF Predecessor, HasEdge
  <2>2. i - (k + 1) \in Nat /\ (k + 1) + (i - (k + 1)) = i /\ k + 1 \in Nat
    BY <1>3
  <2>3. Ancestor(l)[(k + 1) + (i - (k + 1))] \notin Leases
    BY <2>1, <2>2, LineageEnds
  <2> QED
    BY <2>2, <2>3 DEF HasEdge
<1> QED
  BY <1>1, <1>2, <1>3

\* Every step keeps that the profile has begun with what the base program said,
LEMMA HBegunStep ==
  HardeningInv /\ [HNext]_<<vars, h_vars>> => HBegun'
<1> SUFFICES ASSUME HardeningInv, [HNext]_<<vars, h_vars>> PROVE HBegun'
  OBVIOUS
<1> HBegun /\ HChain /\ TemporalInv
  BY DEF HardeningInv
<1>0. [Next]_vars
  BY ProfileSteps
<1> HDecisions' = HDecisions
  BY <1>0, BaselineKept
<1> USE DEF HBegun, HPhases, Counted, HFailed, Hardened
<1>1. CASE HLoad
  BY <1>1 DEF HLoad, Mark
<1>2. CASE BaselineStep \/ UNCHANGED <<vars, h_vars>>
  BY <1>2 DEF BaselineStep, h_vars
<1>3. CASE BaselineDone
  BY <1>3 DEF BaselineDone
<1>4. CASE CountForks
  BY <1>4 DEF CountForks
<1>5. ASSUME NEW l \in h_todo, CheckEdge(l) PROVE HBegun'
  BY <1>5 DEF CheckEdge
<1>6. CASE HEndLoop
  BY <1>6 DEF HEndLoop
<1>7. ASSUME NEW d \in h_todo, StartDecision(d) PROVE HBegun'
  BY <1>7 DEF StartDecision
<1>8. CASE FollowEdge \/ FinishDecision
  BY <1>8 DEF FollowEdge, FinishDecision, HChain
<1>9. CASE HReport
  <2>1. \/ HFailed \/ Counted = {}
        => "verified" \notin {HCap(binding_ok), HCap(chain_ok), HCap(replay_ok)}
    BY DEF HCap
  <2> QED
    BY <1>9, <2>1 DEF HReport
<1> QED
  BY <1>1, <1>2, <1>3, <1>4, <1>5, <1>6, <1>7, <1>8, <1>9 DEF HNext

\* ... what is known of the chain being walked,
LEMMA HChainStep ==
  HardeningInv /\ [HNext]_<<vars, h_vars>> => HChain'
<1> SUFFICES ASSUME HardeningInv, [HNext]_<<vars, h_vars>>, chain' # NoChain
             PROVE  HChain'
  BY DEF HChain
<1> HBegun /\ HChain
  BY DEF HardeningInv
<1>0. /\ reg' = reg /\ HDecisions' = HDecisions
      /\ \A l : Ancestor(l)' = Ancestor(l) /\ (ApprovedOnce(l)' <=> ApprovedOnce(l))
      /\ \A d : PremisesSound(d)' <=> PremisesSound(d)
  BY ProfileSteps, BaselineKept DEF HardeningInv
<1>1. CASE \E d \in h_todo : StartDecision(d)
  <2>1. PICK d \in h_todo : StartDecision(d)
    BY <1>1
  <2>2. /\ h_phase = "decisions" /\ h_phase' = h_phase /\ h_todo' = h_todo \ {d}
        /\ chain' = [decision |-> d, at |-> reg.decisions[d].lease]
        /\ h_errors' = h_errors \cup Mark(<<"decisions", d>>, PremisesSound(d))
    BY <2>1 DEF StartDecision
  <2>3. /\ d \in HDecisions /\ chain'.decision = d
        /\ chain'.at = reg.decisions[d].lease
    BY <2>2 DEF HBegun
  <2>4. ~HFailed' => PremisesSound(d)
    BY <2>2 DEF HFailed, Mark
  <2>5. /\ Ancestor(reg.decisions[d].lease)[0] = reg.decisions[d].lease
        /\ 0 \in Nat /\ 0..(0 - 1) = {}
    BY AncestorEquations
  <2>6. OnApprovedLine'
    BY <1>0, <2>3, <2>5 DEF OnApprovedLine
  <2> QED
    BY <1>0, <2>2, <2>3, <2>4, <2>6 DEF HChain
<1>2. CASE FollowEdge
  <2> DEFINE line == Ancestor(reg.decisions[chain.decision].lease)
  <2>1. /\ chain # NoChain /\ AtSuccessor /\ ApprovedOnce(chain.at)
        /\ chain' = [decision |-> chain.decision, at |-> reg.leases[chain.at].predecessor]
        /\ UNCHANGED <<h_phase, h_todo, h_errors>>
    BY <1>2 DEF FollowEdge, HChain
  <2>2. PICK k \in Nat : /\ chain.at = line[k]
                         /\ \A i \in 0..(k - 1) : ApprovedOnce(line[i])
    BY <2>1 DEF HChain, OnApprovedLine
  <2>3. line[k + 1] = reg.leases[chain.at].predecessor /\ k + 1 \in Nat
    <3>1. line[k + 1] = Predecessor(line[k])
      BY AncestorEquations
    <3>2. chain.at \in Leases /\ line[k] = chain.at
      BY <2>1, <2>2 DEF AtSuccessor
    <3> HIDE DEF line
    <3> QED
      BY <3>1, <3>2 DEF Predecessor
  <2>4. \A i \in 0..((k + 1) - 1) : i \in 0..(k - 1) \/ i = k
    OBVIOUS
  <2>5. \A i \in 0..((k + 1) - 1) : ApprovedOnce(line[i])
    BY <2>1, <2>2, <2>4
  <2>6. chain'.decision = chain.decision /\ chain'.at = line[k + 1]
    BY <2>1, <2>3
  <2>7. OnApprovedLine'
    BY <1>0, <2>3, <2>5, <2>6 DEF OnApprovedLine
  <2> QED
    BY <1>0, <2>1, <2>6, <2>7 DEF HChain, HFailed
<1>3. CASE UNCHANGED <<h_phase, h_todo, h_errors, chain>>
  <2>1. OnApprovedLine' <=> OnApprovedLine
    BY <1>0, <1>3 DEF OnApprovedLine
  <2> QED
    BY <1>0, <1>3, <2>1 DEF HChain, HFailed
<1>4. ~HLoad /\ ~BaselineDone /\ ~CountForks /\ ~HEndLoop /\ ~FinishDecision /\ ~HReport
      /\ \A l \in h_todo : ~CheckEdge(l)
  BY DEF HLoad, BaselineDone, CountForks, HEndLoop, FinishDecision, HReport, CheckEdge,
         HChain
<1>5. BaselineStep \/ UNCHANGED <<vars, h_vars>>
        => UNCHANGED <<h_phase, h_todo, h_errors, chain>>
  BY DEF BaselineStep, h_vars
<1> QED
  BY <1>1, <1>2, <1>3, <1>4, <1>5 DEF HNext

\* ... and of the decisions looked at.
LEMMA HCleanStep ==
  HardeningInv /\ [HNext]_<<vars, h_vars>> => HClean'
<1> SUFFICES ASSUME HardeningInv, [HNext]_<<vars, h_vars>>, ~HFailed'
             PROVE  HClean'
  BY DEF HClean
<1> HBegun /\ HChain /\ TemporalInv /\ None \notin Leases /\ None \notin HDecisions
  BY NoneIsNoId DEF HardeningInv, HDecisions
<1>0. /\ reg' = reg /\ Leases' = Leases /\ HDecisions' = HDecisions
      /\ (Forks = {}) <=> (Forks' = {})
      /\ \A l : EdgeSound(l)' <=> EdgeSound(l)
      /\ \A d : /\ PremisesSound(d)' <=> PremisesSound(d)
                /\ ReplayAgrees(d)' <=> ReplayAgrees(d)
                /\ LineApproved(d)' <=> LineApproved(d)
  BY ProfileSteps, BaselineKept
<1>a. ~BaselineStep => (Conformant' <=> Conformant)
  BY ProfileSteps DEF Conformant, vars
<1> USE DEF Ran, HAtEnd, EdgeLooked, DecisionLooked
<1>1. CASE HLoad \/ BaselineStep
  <2>1. h_phase' \in {"baseline", "report"} /\ Counted' = {}
    BY <1>1 DEF HLoad, BaselineStep, h_vars, HBegun, Counted
  <2> QED
    BY <2>1 DEF HClean
<1> SUFFICES ASSUME ~HLoad, ~BaselineStep PROVE HClean'
  BY <1>1
<1>2. ~HFailed /\ (Conformant' <=> Conformant)
  BY <1>a DEF HFailed, HNext, BaselineDone, CountForks, CheckEdge, HEndLoop,
              StartDecision, FollowEdge, FinishDecision, HReport, h_vars
<1> HClean
  BY DEF HardeningInv
<1> HIDE DEF Ran, HAtEnd, EdgeLooked, DecisionLooked
<1>b. SUFFICES /\ Ran' => Conformant
               /\ Ran' /\ h_phase' # "forks" => Forks = {}
               /\ \A l \in Leases : EdgeLooked(l)' => EdgeSound(l)
               /\ \A d \in HDecisions : DecisionLooked(d)' =>
                    PremisesSound(d) /\ ReplayAgrees(d) /\ LineApproved(d)
  BY <1>0, <1>2 DEF HClean
<1> USE DEF Ran, HAtEnd, EdgeLooked, DecisionLooked
<1>3. CASE BaselineDone
  <2>1. h_phase' = "forks" /\ Conformant
    BY <1>3 DEF BaselineDone, HFailed, Mark
  <2> QED
    BY <2>1
<1>4. CASE CountForks
  <2>1. /\ h_phase = "forks" /\ h_phase' = "edges" /\ h_todo' = Leases
        /\ h_errors' = h_errors \cup {<<"leases", l>> : l \in Forks}
    BY <1>4 DEF CountForks
  <2>2. Forks = {}
    BY <2>1 DEF HFailed
  <2> QED
    BY <1>2, <2>1, <2>2 DEF HClean
<1>5. ASSUME NEW l \in h_todo, CheckEdge(l)
      PROVE  /\ Ran' => Conformant
             /\ Ran' /\ h_phase' # "forks" => Forks = {}
             /\ \A m \in Leases : EdgeLooked(m)' => EdgeSound(m)
             /\ \A d \in HDecisions : ~DecisionLooked(d)'
  <2>1. /\ h_phase = "edges" /\ h_phase' = "edges" /\ h_todo' = h_todo \ {l}
        /\ h_errors' = h_errors \cup Mark(<<"leases", l>>, EdgeSound(l))
    BY <1>5 DEF CheckEdge
  <2>2. EdgeSound(l)
    BY <2>1 DEF HFailed, Mark
  <2> QED
    BY <1>2, <2>1, <2>2 DEF HClean
<1>6. CASE HEndLoop
  <2>1. /\ h_todo = {} /\ chain = NoChain /\ chain.decision = None
        /\ \/ h_phase = "edges" /\ h_phase' = "decisions" /\ h_todo' = HDecisions
           \/ h_phase = "decisions" /\ h_phase' = "report"
    BY <1>6 DEF HEndLoop, NoChain
  <2> QED
    BY <1>2, <2>1 DEF HClean
<1>7. ASSUME NEW d \in h_todo, StartDecision(d)
      PROVE  /\ Ran' => Conformant
             /\ Ran' /\ h_phase' # "forks" => Forks = {}
             /\ \A l \in Leases : EdgeLooked(l)' => EdgeSound(l)
             /\ \A e \in HDecisions : DecisionLooked(e)' =>
                  PremisesSound(e) /\ ReplayAgrees(e) /\ LineApproved(e)
  <2>1. /\ h_phase = "decisions" /\ h_phase' = "decisions" /\ h_todo' = h_todo \ {d}
        /\ chain = NoChain /\ chain.decision = None /\ d \in HDecisions
    BY <1>7 DEF StartDecision, NoChain, HBegun
  <2>2. DecisionSound(d)
    BY <1>2, <2>1, ConformantIsClean DEF HClean, HDecisions
  <2>3. chain'.decision = d
    BY <1>7, <2>2 DEF StartDecision, DecisionSound, Evaluable
  <2> QED
    BY <1>2, <2>1, <2>3 DEF HClean
<1>8. CASE FollowEdge
  <2>1. /\ UNCHANGED <<h_phase, h_todo, binding_ok, chain_ok, replay_ok>>
        /\ h_phase = "decisions" /\ chain'.decision = chain.decision
    BY <1>8 DEF FollowEdge, HChain
  <2> QED
    BY <1>2, <2>1 DEF HClean
<1>9. CASE FinishDecision
  <2> DEFINE d == chain.decision
  <2>1. /\ h_phase = "decisions" /\ UNCHANGED <<h_phase, h_todo>>
        /\ chain # NoChain /\ chain'.decision = None
        /\ h_errors' = h_errors \cup
             Mark(<<"decisions", d>>, ~AtSuccessor /\ ReplayAgrees(d))
    BY <1>9 DEF FinishDecision, HChain, NoChain, ReplayAgrees
  <2>2. ~AtSuccessor /\ ReplayAgrees(d)
    BY <2>1 DEF HFailed, Mark
  <2>3. PremisesSound(d)
    BY <1>2, <2>1 DEF HChain
  <2>4. PICK k \in Nat :
           /\ chain.at = Ancestor(reg.decisions[d].lease)[k]
           /\ \A i \in 0..(k - 1) : ApprovedOnce(Ancestor(reg.decisions[d].lease)[i])
    BY <2>1 DEF HChain, OnApprovedLine
  <2>5. ~HasEdge(Ancestor(reg.decisions[d].lease)[k])
    BY <2>2, <2>4 DEF AtSuccessor, HasEdge
  <2>6. LineApproved(d)
    BY <2>4, <2>5, WalkedToTheEnd
  <2> QED
    BY <1>2, <2>1, <2>2, <2>3, <2>6 DEF HClean
<1>10. CASE HReport \/ UNCHANGED <<vars, h_vars>>
  <2>1. /\ UNCHANGED <<h_todo, chain, binding_ok, chain_ok, replay_ok>>
        /\ h_phase' = h_phase \/ (h_phase = "report" /\ h_phase' = "done")
    BY <1>10 DEF HReport, h_vars
  <2> QED
    BY <1>2, <2>1 DEF HClean, Counted
<1> QED
  BY <1>3, <1>4, <1>5, <1>6, <1>7, <1>8, <1>9, <1>10 DEF HNext

\* The invariant of both programs holds throughout.
LEMMA HardeningHolds == HSpec => []HardeningInv
<1>1. HardeningInv /\ [HNext]_<<vars, h_vars>> => HardeningInv'
  BY HBegunStep, HChainStep, HCleanStep, ProfileSteps, BaselineKept DEF HardeningInv
<1> QED
  BY <1>1, HardeningStarts, PTL DEF HSpec

-----------------------------------------------------------------------------
(* What a hardened registry is. *)

\* With no finding of either program, every lease and decision is what both ask for.
LEMMA HardenedIsClean ==
  ASSUME HardeningInv, Hardened
  PROVE  /\ TemporalInv /\ Forks = {}
         /\ None \notin Leases /\ None \notin DOMAIN reg.replays
         /\ \A l \in Leases : EdgeSound(l)
         /\ \A d \in HDecisions : /\ DecisionSound(d) /\ PremisesSound(d)
                                  /\ ReplayAgrees(d) /\ LineApproved(d)
<1>1. ~HFailed /\ Counted # {} /\ h_phase = "done"
  BY DEF HardeningInv, HBegun, Hardened
<1>2. /\ Conformant /\ Forks = {}
      /\ \A l \in Leases : EdgeSound(l)
      /\ \A d \in HDecisions : PremisesSound(d) /\ ReplayAgrees(d) /\ LineApproved(d)
  BY <1>1 DEF HardeningInv, HClean, Ran, HAtEnd, EdgeLooked, DecisionLooked
<1>3. TemporalInv
  BY DEF HardeningInv
<1> QED
  BY <1>2, <1>3, NoneIsNoId, ConformantIsClean DEF HDecisions

(***************************************************************************)
(* Whatever the number of decisions, each of a hardened registry speaks of *)
(* one revision of its E10 decision, in its lease and in its token too.    *)
(***************************************************************************)
THEOREM OneRevisionHolds == HSpec => []OneRevision
<1>1. HardeningInv => OneRevision
  <2> SUFFICES ASSUME HardeningInv, Hardened, NEW d \in HDecisions
               PROVE  LET dec == reg.decisions[d]
                          revision == reg.e10[dec.subject].boundary
                      IN  /\ RequiresE10(d) =>
                               /\ dec.boundary = revision
                               /\ dec.lease # None =>
                                    reg.leases[dec.lease].boundary = revision
                               /\ dec.replay # None =>
                                    reg.replays[dec.replay].boundary = revision
                          /\ dec.replay # None =>
                               reg.replays[dec.replay].observation = dec.observation
    BY DEF OneRevision
  <2>1. DecisionSound(d) /\ PremisesSound(d) /\ ReplayAgrees(d)
    BY HardenedIsClean
  <2>2. /\ reg.decisions[d].lease # None => reg.decisions[d].lease \in Leases
        /\ reg.decisions[d].replay # None => ReplayUsed(d)
    BY <2>1 DEF DecisionSound, ReplayUsed
  <2> QED
    BY <2>1, <2>2 DEF PremisesSound, BoundToE10, LeaseOfRevision, ReplayAgrees,
                      ReplayAtObservation, ReplayOfRevision
<1> QED
  BY <1>1, HardeningHolds, PTL

\* Sound edges add up along a lineage.
LEMMA EdgesAddUp ==
  ASSUME TemporalInv, NEW l \in Leases, \A x \in Leases : EdgeSound(x),
         NEW n \in Nat, Ancestor(l)[n] \in Leases
  PROVE  /\ reg.leases[l].generation = reg.leases[Ancestor(l)[n]].generation + n
         /\ reg.leases[l].until >= reg.leases[Ancestor(l)[n]].until + n
         /\ reg.leases[l].issued >= reg.leases[Ancestor(l)[n]].issued
         /\ reg.leases[l].subject = reg.leases[Ancestor(l)[n]].subject
         /\ reg.leases[l].domain = reg.leases[Ancestor(l)[n]].domain
<1> DEFINE Older(k) ==
             Ancestor(l)[k] \in Leases =>
               /\ reg.leases[l].generation = reg.leases[Ancestor(l)[k]].generation + k
               /\ reg.leases[l].until >= reg.leases[Ancestor(l)[k]].until + k
               /\ reg.leases[l].issued >= reg.leases[Ancestor(l)[k]].issued
               /\ reg.leases[l].subject = reg.leases[Ancestor(l)[k]].subject
               /\ reg.leases[l].domain = reg.leases[Ancestor(l)[k]].domain
           S == {k \in Nat : Older(k)}
<1>1. \A x \in Leases : /\ reg.leases[x].generation \in Int
                        /\ reg.leases[x].until \in Int /\ reg.leases[x].issued \in Int
  BY RegistryAssumption DEF TemporalInv, Given, Leases
<1>2. 0 \in S
  BY <1>1, AncestorEquations
<1>3. ASSUME NEW k \in Nat, k \in S PROVE k + 1 \in S
  <2> SUFFICES ASSUME Ancestor(l)[k + 1] \in Leases PROVE Older(k + 1)
    OBVIOUS
  <2> DEFINE x == Ancestor(l)[k]
             old == reg.leases[Ancestor(l)[k + 1]]
  <2>1. x \in Leases /\ reg.leases[x].predecessor = Ancestor(l)[k + 1]
        /\ reg.leases[x].predecessor # None
    BY NoneIsNoId, AncestorEquations DEF Predecessor
  <2>2. /\ reg.leases[x].subject = old.subject /\ reg.leases[x].domain = old.domain
        /\ reg.leases[x].generation = old.generation + 1
        /\ reg.leases[x].issued >= old.issued
        /\ reg.leases[x].until > old.until
    BY <2>1 DEF EdgeSound
  <2>3. Older(k)
    BY <1>3
  <2> HIDE DEF old
  <2>4. /\ old.generation \in Int /\ old.until \in Int /\ old.issued \in Int
    BY <1>1 DEF old
  <2>5. /\ reg.leases[l].generation = old.generation + (k + 1)
        /\ reg.leases[l].until >= old.until + (k + 1)
        /\ reg.leases[l].issued >= old.issued
        /\ reg.leases[l].subject = old.subject /\ reg.leases[l].domain = old.domain
    BY <1>1, <2>1, <2>2, <2>3, <2>4
  <2> QED
    BY <2>5 DEF old
<1>4. \A k \in Nat : k \in S
  <2> HIDE DEF S
  <2> QED
    BY <1>2, <1>3, SetInduction
<1> QED
  BY <1>4

(***************************************************************************)
(* Along lineages of any length the generation counts the renewals of a    *)
(* hardened registry, and each of them lasts longer.                       *)
(***************************************************************************)
THEOREM LineagesGrow == HSpec => []LineageGrows
<1>1. HardeningInv => LineageGrows
  <2> SUFFICES ASSUME HardeningInv, Hardened, NEW l \in Leases,
                      NEW n \in 1..Cardinality(Leases), Ancestor(l)[n] \in Leases
               PROVE  LET old == reg.leases[Ancestor(l)[n]]
                          new == reg.leases[l]
                      IN  /\ new.generation = old.generation + n
                          /\ new.until >= old.until + n
                          /\ new.issued >= old.issued
                          /\ new.subject = old.subject /\ new.domain = old.domain
    BY DEF LineageGrows
  <2>1. n \in Nat
    BY HardenedIsClean, LeasesAreFinite
  <2> QED
    BY <2>1, HardenedIsClean, EdgesAddUp
<1> QED
  BY <1>1, HardeningHolds, PTL

\* Two leases renewed from one, each by the only renewal approved for it, are
\* one lease where no lease is a fork.
LEMMA OneSuccessor ==
  ASSUME TemporalInv, Forks = {}, NEW x, NEW y,
         HasEdge(x), HasEdge(y), ApprovedOnce(x), ApprovedOnce(y),
         reg.leases[x].predecessor = reg.leases[y].predecessor
  PROVE  x = y
<1> DEFINE old == reg.leases[x].predecessor
           from == {n \in Approved : reg.renewals[n].predecessor = old}
<1>1. IsFiniteSet(Approved)
  BY LeasesAreFinite, FS_Subset DEF Approved
<1>2. /\ from \subseteq Approved
      /\ ApprovedEdge(old, x) \subseteq from /\ ApprovedEdge(old, y) \subseteq from
  BY DEF ApprovedEdge
<1>3. /\ IsFiniteSet(from) /\ IsFiniteSet(ApprovedEdge(old, x))
      /\ IsFiniteSet(ApprovedEdge(old, y))
  BY <1>1, <1>2, FS_Subset
<1>4. PICK m : ApprovedEdge(old, x) = {m}
  BY <1>3, FS_Singleton DEF ApprovedOnce
<1>5. PICK n : ApprovedEdge(old, y) = {n}
  BY <1>3, FS_Singleton DEF ApprovedOnce
<1>6. m \in from /\ n \in from
  BY <1>2, <1>4, <1>5
<1>7. ~(Cardinality(from) > 1)
  BY <1>6 DEF Forks
<1> HIDE DEF from
<1>8. Cardinality(from) = 1
  <2>1. Cardinality(from) \in Nat /\ Cardinality(from) # 0
    BY <1>3, <1>6, FS_CardinalityType, FS_EmptySet
  <2> QED
    BY <1>7, <2>1
<1>9. m = n
  BY <1>3, <1>6, <1>8, FS_Singleton
<1>10. m \in ApprovedEdge(old, x) /\ m \in ApprovedEdge(old, y)
  BY <1>4, <1>5, <1>9
<1> QED
  BY <1>10 DEF ApprovedEdge

\* Where two approved lineages meet, the shorter one is part of the longer.
LEMMA ApprovedLinesMeet ==
  ASSUME TemporalInv, Forks = {}, NEW l, NEW m, ApprovedLine(l), ApprovedLine(m),
         NEW i \in Nat, NEW j \in Nat, i <= j,
         Ancestor(l)[i] = Ancestor(m)[j], Ancestor(m)[j] \in Leases
  PROVE  Ancestor(m)[j - i] = l
<1> DEFINE S == {k \in Nat : \A n \in Nat :
                   /\ k <= n /\ Ancestor(l)[k] = Ancestor(m)[n]
                   /\ Ancestor(m)[n] \in Leases
                   => Ancestor(m)[n - k] = l}
<1>1. 0 \in S
  BY AncestorEquations
<1>2. ASSUME NEW k \in Nat, k \in S PROVE k + 1 \in S
  <2> SUFFICES ASSUME NEW n \in Nat, k + 1 <= n,
                      Ancestor(l)[k + 1] = Ancestor(m)[n], Ancestor(m)[n] \in Leases
               PROVE  Ancestor(m)[n - (k + 1)] = l
    OBVIOUS
  <2>1. PICK p \in Nat : n = p + 1
    <3>1. n - 1 \in Nat /\ n = (n - 1) + 1
      OBVIOUS
    <3> QED
      BY <3>1
  <2> DEFINE x == Ancestor(l)[k]
             y == Ancestor(m)[p]
  <2>2. /\ x \in Leases /\ reg.leases[x].predecessor = Ancestor(m)[n]
        /\ y \in Leases /\ reg.leases[y].predecessor = Ancestor(m)[n]
        /\ Ancestor(m)[n] # None
    BY <2>1, NoneIsNoId, AncestorEquations DEF Predecessor
  <2>3. HasEdge(x) /\ HasEdge(y)
    BY <2>2 DEF HasEdge
  <2>4. x = y
    <3>1. ApprovedOnce(x) /\ ApprovedOnce(y)
      BY <2>3 DEF ApprovedLine
    <3> QED
      BY <2>2, <2>3, <3>1, OneSuccessor
  <2>5. k <= p /\ p - k = n - (k + 1)
    BY <2>1
  <2>6. Ancestor(m)[p - k] = l
    BY <1>2, <2>2, <2>4, <2>5
  <2> QED
    BY <2>5, <2>6
<1>3. \A k \in Nat : k \in S
  <2> HIDE DEF S
  <2> QED
    BY <1>1, <1>2, SetInduction
<1> QED
  BY <1>3

(***************************************************************************)
(* Renewal never splits a lease in two that decisions of a hardened        *)
(* registry rest on, however many renewals it records.                     *)
(***************************************************************************)
THEOREM OneLineHolds == HSpec => []OneLine
<1> DEFINE Ancestry(l) ==
             {Ancestor(l)[n] : n \in 0..(Cardinality(Leases) - 1)} \cap Leases
           Used == {reg.decisions[d].lease : d \in HDecisions} \ {None}
<1>1. HardeningInv => OneLine
  <2> SUFFICES ASSUME HardeningInv, Hardened, NEW l \in Used, NEW m \in Used,
                      NEW x \in Ancestry(l) \cap Ancestry(m)
               PROVE  l \in Ancestry(m) \/ m \in Ancestry(l)
    BY DEF OneLine
  <2>1. /\ TemporalInv /\ Forks = {} /\ Cardinality(Leases) \in Nat
        /\ \A d \in HDecisions : DecisionSound(d) /\ LineApproved(d)
    BY HardenedIsClean, LeasesAreFinite
  <2>2. /\ l \in Leases /\ m \in Leases
        /\ ApprovedLine(l) /\ ApprovedLine(m)
    BY <2>1 DEF DecisionSound, LineApproved
  <2>3. PICK i \in 0..(Cardinality(Leases) - 1) : x = Ancestor(l)[i]
    OBVIOUS
  <2>4. PICK j \in 0..(Cardinality(Leases) - 1) : x = Ancestor(m)[j]
    OBVIOUS
  <2>5. /\ i \in Nat /\ j \in Nat
        /\ Ancestor(l)[i] = Ancestor(m)[j] /\ Ancestor(m)[j] \in Leases
    BY <2>1, <2>3, <2>4
  <2>6. CASE i <= j
    <3>1. Ancestor(m)[j - i] = l
      BY <2>1, <2>2, <2>5, <2>6, ApprovedLinesMeet
    <3>2. j - i \in 0..(Cardinality(Leases) - 1)
      BY <2>1, <2>6
    <3> QED
      BY <2>2, <3>1, <3>2
  <2>7. CASE j <= i
    <3>1. Ancestor(l)[i - j] = m
      BY <2>1, <2>2, <2>5, <2>7, ApprovedLinesMeet
    <3>2. i - j \in 0..(Cardinality(Leases) - 1)
      BY <2>1, <2>7
    <3> QED
      BY <2>2, <3>1, <3>2
  <2> QED
    BY <2>5, <2>6, <2>7
<1> QED
  BY <1>1, HardeningHolds, PTL
==============================================================================
