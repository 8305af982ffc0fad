--------------------------- MODULE ContinuityProofs ---------------------------
(***************************************************************************)
(* Theorems about a job over the registries E7 to E9, for every set of     *)
(* directories and everything their files may hold.                        *)
(***************************************************************************)
EXTENDS ContinuityChain, NaturalFacts, FiniteSetTheorems, TLAPS

-----------------------------------------------------------------------------
(* The inductive invariant.  Of every program: as long as it has found     *)
(* nothing, all that its past methods looked at is sound, and what it has  *)
(* counted is what their loops say.  And the programs run in order.        *)

E7Past(next) ==
  CASE next = "incidents" -> {"actions", "transitions", "decisions", "done"}
    [] next = "actions" -> {"transitions", "decisions", "done"}
    [] next = "transitions" -> {"decisions", "done"}
    [] next = "decisions" -> {"done"}

E7Found ==
  /\ e7_phase # "load" => E7!Read("recovery")
  /\ e7_phase \in E7Past("incidents") =>
       /\ \A i \in DOMAIN E7!Incidents : E7!IncidentSound(i)
       /\ \A s \in DOMAIN E7!States : E7!StateSound(s)
       /\ \A e \in DOMAIN E7!Evidence : E7!EvidenceSound(e)
  /\ e7_phase \in E7Past("actions") => \A a \in DOMAIN E7!Actions : E7!ActionSound(a)
  /\ e7_phase \in E7Past("transitions") =>
       \A t \in DOMAIN E7!Transitions : E7!TransitionSound(t)
  /\ e7_phase \in E7Past("decisions") => \A d \in DOMAIN E7!Decisions : E7!DecisionSound(d)

E7Counts ==
  /\ e7_counted.transition =
       IF e7_phase \in E7Past("transitions")
       THEN {t \in DOMAIN E7!Transitions : E7!CountedTransition(t)} ELSE {}
  /\ e7_counted.continuity =
       IF e7_phase = "done"
       THEN E7!CountedDecisions({"continuity-established", "closed"}, E7!EstablishesContinuity)
       ELSE {}

E7Inv ==
  /\ e7_phase \in {"load", "incidents"} \cup E7Past("incidents")
  /\ e7_phase = "load" => e7_errors = {}
  /\ DOMAIN e7_counted = {"containment", "transition", "continuity", "closure"}
  /\ e7_errors = {} => E7Found /\ E7Counts

E7HInv ==
  /\ e7h_phase \in {"load", "evidence", "plans", "transitions", "rollbacks", "decisions", "done"}
  /\ e7h_phase = "load" => e7h_errors = {}
  /\ e7h_phase # "load" => e7_phase = "done"
  /\ e7h_errors = {} /\ E7!Read("recovery") =>
       /\ e7h_phase \in {"rollbacks", "decisions", "done"} =>
            \A t \in DOMAIN E7!Transitions : E7!TransitionBound(t)
       /\ e7h_phase = "done" => \A d \in DOMAIN E7!Decisions : E7!DecisionBounded(d)

E8Found ==
  /\ e8_phase # "load" => E8!Read("convergence")
  /\ e8_phase \in {"adoption", "cutover", "done"} =>
       /\ \A m \in DOMAIN E8!Migrations : E8!MigrationSound(m)
       /\ \A o \in DOMAIN E8!Observations : E8!ObservationSound(o)
  /\ e8_phase \in {"cutover", "done"} => \A d \in DOMAIN E8!Adoptions : E8!AdoptionSound(d)
  /\ e8_phase = "done" => \A c \in DOMAIN E8!Cutovers : E8!CutoverSound(c)

E8Counts ==
  /\ e8_verified =
       IF e8_phase \in {"cutover", "done"}
       THEN {d \in DOMAIN E8!Adoptions :
               E8!AdoptionSound(d) /\ E8!Adoptions[d].state \in E8!Positive}
       ELSE {}
  /\ e8_cutovers =
       IF e8_phase = "done" THEN {c \in DOMAIN E8!Cutovers : E8!CutoverSound(c)} ELSE {}

E8Inv ==
  /\ e8_phase \in {"load", "base", "adoption", "cutover", "done"}
  /\ e8_phase = "load" => e8_errors = {}
  /\ e8_phase # "load" => e7_phase = "done" /\ e7h_phase = "done"
  /\ e8_errors = {} => E8Found /\ E8Counts

E9Found ==
  /\ e9_phase # "load" => E9!Read("degraded")
  /\ e9_phase \in {"decisions", "done"} =>
       /\ \A c \in DOMAIN E9!Capabilities : E9!CapabilitySound(c)
       /\ \A m \in DOMAIN E9!Modes : E9!ModeSound(m)
       /\ \A o \in DOMAIN E9!Observations : E9!ObservationSound(o)
       /\ \A f \in DOMAIN E9!Fallbacks : E9!FallbackSound(f)
       /\ E9!MissingFiles(E9!Observations) = {} /\ E9!MissingFiles(E9!Fallbacks) = {}
  /\ e9_phase = "done" => \A d \in DOMAIN E9!Decisions : E9!DecisionSound(d)

E9Inv ==
  /\ e9_phase \in {"load", "base", "decisions", "done"}
  /\ e9_phase = "load" => e9_errors = {}
  /\ e9_phase # "load" => e8_phase = "done"
  /\ e9_errors = {} =>
       /\ E9Found
       /\ e9_positive =
            IF e9_phase = "done"
            THEN {d \in DOMAIN E9!Decisions :
                    E9!Decisions[d].state \notin E9!Skipped /\ E9!DecisionSound(d)}
            ELSE {}

E9HInv ==
  /\ e9h_phase \in {"load", "checks", "done"}
  /\ e9h_phase = "load" => e9h_errors = {}
  /\ e9h_phase # "load" => e9_phase = "done"
  /\ e9h_phase = "done" /\ e9h_errors = {} =>
       /\ \A o \in DOMAIN E9!Observations : E9!ObservationMaterial(o)
       /\ \A f \in DOMAIN E9!Fallbacks : E9!FallbackMaterial(f)
       /\ \A d \in DOMAIN E9!Decisions : E9!DecisionKept(d)

Given == \E f \in Files : reg = RegistryIn(f)

Inv == Given /\ E7Inv /\ E7HInv /\ E8Inv /\ E9Inv /\ E9HInv

-----------------------------------------------------------------------------
(* No program writes the files. *)
LEMMA RegistryFixed == [Next]_vars => reg' = reg
BY DEF Next, vars, RunE7, RunE8, RunE9, E7!HNext, E7!Next, E7!HChecks, E8!Next, E9!HNext,
       E9!Next, E9!HChecks, E7!Load, E7!CheckIncidentsStatesEvidence, E7!CheckActionsPlans,
       E7!CheckTransitionsRollbacks, E7!CheckDecisions, E7!HLoad, E7!HCheck, E7!HCheckEvidence,
       E7!HCheckPlans, E7!HCheckTransitions, E7!HCheckRollbacks, E7!HCheckDecisions,
       E8!Load, E8!CheckBase, E8!CheckAdoption, E8!CheckCutover, E9!Load, E9!CheckBase,
       E9!CheckDecisions, E9!HLoad, E9!HRunChecks

\* Before the first step no program has found or counted anything.
LEMMA Initially == Init => Inv
BY DEF Init, Inv, Given, E7!Start, E7!HStart, E8!Start, E9!Start, E9!HStart,
       E7Inv, E7HInv, E8Inv, E9Inv, E9HInv, E7Found, E7Counts, E8Found, E8Counts, E9Found, E7Past

\* What a program thinks of a record depends on the files alone.
LEMMA E7SoundStays ==
  ASSUME reg' = reg
  PROVE  /\ \A i : E7!IncidentSound(i)' <=> E7!IncidentSound(i)
         /\ \A s : E7!StateSound(s)' <=> E7!StateSound(s)
         /\ \A e : E7!EvidenceSound(e)' <=> E7!EvidenceSound(e)
         /\ \A a : E7!ActionSound(a)' <=> E7!ActionSound(a)
         /\ \A t : E7!TransitionSound(t)' <=> E7!TransitionSound(t)
         /\ \A d : E7!DecisionSound(d)' <=> E7!DecisionSound(d)
         /\ \A t : E7!CountedTransition(t)' <=> E7!CountedTransition(t)
         /\ \A d : E7!EstablishesContinuity(d)' <=> E7!EstablishesContinuity(d)
         /\ \A t : E7!TransitionBound(t)' <=> E7!TransitionBound(t)
         /\ \A d : E7!DecisionBounded(d)' <=> E7!DecisionBounded(d)
<1>1. \A i : E7!IncidentSound(i)' <=> E7!IncidentSound(i)
  BY DEF E7!IncidentSound, E7!Incidents, E7!IncidentStates
<1>2. \A s : E7!StateSound(s)' <=> E7!StateSound(s)
  BY DEF E7!StateSound, E7!States, E7!TrustStatuses
<1>3. \A e : E7!EvidenceSound(e)' <=> E7!EvidenceSound(e)
  BY DEF E7!EvidenceSound, E7!Evidence
<1>4. \A a : E7!ActionSound(a)' <=> E7!ActionSound(a)
  BY DEF E7!ActionSound, E7!Actions, E7!Incidents, E7!Evidence, E7!ActionKinds, E7!ActionStatuses
<1>5. \A t : E7!TransitionSound(t)' <=> E7!TransitionSound(t)
  BY DEF E7!TransitionSound, E7!Resolves, E7!Completed, E7!Transitions, E7!States, E7!Actions
<1>6. \A t : E7!CountedTransition(t)' <=> E7!CountedTransition(t)
  BY DEF E7!CountedTransition, E7!Resolves, E7!Transitions, E7!States
<1>7. \A d : E7!EstablishesContinuity(d)' <=> E7!EstablishesContinuity(d)
  BY DEF E7!EstablishesContinuity, E7!RestsOnTransition, E7!Decisions, E7!Transitions, E7!States,
         E7!Authenticated, E7!HistoryBound, E7!Read
<1>8. \A d : E7!DecisionSound(d)' <=> E7!DecisionSound(d)
  <2>1. \A d : E7!Contained(d)' <=> E7!Contained(d)
    BY DEF E7!Contained, E7!Completed, E7!Decisions, E7!Actions, E7!ContainmentKinds
  <2>2. \A d : E7!Closes(d)' <=> E7!Closes(d)
    BY <1>7 DEF E7!Closes, E7!Decisions, E7!Incidents
  <2>3. \A d : E7!Premises(d)' <=> E7!Premises(d)
    BY <1>7, <2>1, <2>2 DEF E7!Premises, E7!RestsOnTransition, E7!Decisions, E7!Transitions
  <2> QED
    BY <2>3 DEF E7!DecisionSound, E7!Decisions, E7!Incidents, E7!Actions, E7!RecoveryStates
<1>9. \A t : E7!TransitionBound(t)' <=> E7!TransitionBound(t)
  BY DEF E7!TransitionBound, E7!OfIncident, E7!Completed, E7!Transitions, E7!Incidents, E7!Actions,
         E7!TransitionStates, E7!Authenticated, E7!HistoryBound, E7!Forks, E7!Read
<1>10. \A d : E7!DecisionBounded(d)' <=> E7!DecisionBounded(d)
  BY DEF E7!DecisionBounded, E7!OfIncident, E7!TransitionOf, E7!ClosedBefore, E7!Decisions,
         E7!Transitions, E7!Incidents, E7!Actions, E7!Evidence, E7!None
<1> QED
  BY <1>1, <1>2, <1>3, <1>4, <1>5, <1>6, <1>7, <1>8, <1>9, <1>10

\* A step of another program leaves what is known of E7 alone.
LEMMA E7Stays == ASSUME E7Inv, reg' = reg, UNCHANGED <<e7_phase, e7_errors, e7_counted>> PROVE E7Inv'
BY E7SoundStays DEF E7Inv, E7Found, E7Counts, E7!CountedDecisions, E7!Incidents, E7!States,
   E7!Evidence, E7!Actions, E7!Transitions, E7!Decisions, E7!Read

\* ... and a step of another program what is known of its hardening profile.
LEMMA E7HStays ==
  ASSUME E7HInv, e7_phase = "done" => e7_phase' = "done", reg' = reg,
         UNCHANGED <<e7h_phase, e7h_errors>>
  PROVE  E7HInv'
BY E7SoundStays DEF E7HInv, E7!Transitions, E7!Decisions, E7!Read

\* Each method of E7 adds what it looked at to what is known.
LEMMA E7Step == ASSUME E7Inv, E7!Next, reg' = reg PROVE E7Inv'
<1> USE E7SoundStays DEF E7!Incidents, E7!States, E7!Evidence, E7!Actions, E7!Plans,
        E7!Transitions, E7!Rollbacks, E7!Decisions, E7!Read, E7!Flawed, E7Past
<1>1. CASE E7!Load
  BY <1>1 DEF E7!Load, E7Inv, E7Found, E7Counts, E7!RecoveryRegistry
<1>2. CASE E7!CheckIncidentsStatesEvidence
  <2> USE <1>2 DEF E7!CheckIncidentsStatesEvidence
  <2>1. e7_errors' = {} => /\ e7_errors = {}
                          /\ \A i \in DOMAIN E7!Incidents : E7!IncidentSound(i)
                          /\ \A s \in DOMAIN E7!States : E7!StateSound(s)
                          /\ \A e \in DOMAIN E7!Evidence : E7!EvidenceSound(e)
    OBVIOUS
  <2>2. ASSUME e7_errors' = {} PROVE E7Found'
    <3>1. \A i \in DOMAIN E7!Incidents' : E7!IncidentSound(i)'
      BY <2>1, <2>2
    <3>2. /\ \A s \in DOMAIN E7!States' : E7!StateSound(s)'
          /\ \A e \in DOMAIN E7!Evidence' : E7!EvidenceSound(e)'
      BY <2>1, <2>2
    <3> QED
      BY <2>1, <2>2, <3>1, <3>2 DEF E7Inv, E7Found
  <2>3. e7_errors' = {} => E7Counts'
    BY <2>1 DEF E7Inv, E7Counts
  <2> QED
    BY <2>2, <2>3 DEF E7Inv
<1>3. CASE E7!CheckActionsPlans
  <2> USE <1>3 DEF E7!CheckActionsPlans
  <2>1. e7_errors' = {} => /\ e7_errors = {}
                          /\ \A a \in DOMAIN E7!Actions : E7!ActionSound(a)
    OBVIOUS
  <2>2. e7_errors' = {} => E7Found'
    BY <2>1 DEF E7Inv, E7Found
  <2>3. e7_errors' = {} => E7Counts'
    BY <2>1 DEF E7Inv, E7Counts
  <2> QED
    BY <2>2, <2>3 DEF E7Inv
<1>4. CASE E7!CheckTransitionsRollbacks
  <2> USE <1>4 DEF E7!CheckTransitionsRollbacks
  <2>1. e7_errors' = {} => /\ e7_errors = {}
                          /\ \A t \in DOMAIN E7!Transitions : E7!TransitionSound(t)
    OBVIOUS
  <2>2. e7_errors' = {} => E7Found'
    BY <2>1 DEF E7Inv, E7Found
  <2>3. e7_errors' = {} => E7Counts'
    BY <2>1 DEF E7Inv, E7Counts
  <2> QED
    BY <2>2, <2>3 DEF E7Inv
<1>5. CASE E7!CheckDecisions
  <2> USE <1>5 DEF E7!CheckDecisions
  <2>1. e7_errors' = {} => /\ e7_errors = {}
                          /\ \A d \in DOMAIN E7!Decisions : E7!DecisionSound(d)
    OBVIOUS
  <2>2. e7_errors' = {} => E7Found'
    BY <2>1 DEF E7Inv, E7Found
  <2>3. e7_errors' = {} => E7Counts'
    BY <2>1 DEF E7Inv, E7Counts, E7!CountedDecisions
  <2> QED
    BY <2>2, <2>3 DEF E7Inv
<1> QED
  BY <1>1, <1>2, <1>3, <1>4, <1>5 DEF E7!Next

\* So does each method of the profile, which leaves the baseline alone.
LEMMA E7HStep == ASSUME E7HInv, e7_phase = "done", E7!HChecks PROVE E7HInv'
<1> USE E7SoundStays DEF E7!Evidence, E7!Plans, E7!Transitions, E7!Rollbacks, E7!Decisions,
        E7!HCheck, E7!Flawed, E7!e7_vars, E7!Read
<1>1. CASE E7!HLoad
  BY <1>1 DEF E7!HLoad, E7HInv
<1>2. CASE E7!HCheckEvidence
  BY <1>2 DEF E7!HCheckEvidence, E7HInv
<1>3. CASE E7!HCheckPlans
  BY <1>3 DEF E7!HCheckPlans, E7HInv
<1>4. CASE E7!HCheckTransitions
  BY <1>4 DEF E7!HCheckTransitions, E7HInv
<1>5. CASE E7!HCheckRollbacks
  BY <1>5 DEF E7!HCheckRollbacks, E7HInv
<1>6. CASE E7!HCheckDecisions
  BY <1>6 DEF E7!HCheckDecisions, E7HInv
<1> QED
  BY <1>1, <1>2, <1>3, <1>4, <1>5, <1>6 DEF E7!HChecks

\* E8, in the same way: only a cutover is judged by what was counted before.
LEMMA E8SoundStays ==
  ASSUME reg' = reg
  PROVE  /\ \A m : E8!MigrationSound(m)' <=> E8!MigrationSound(m)
         /\ \A o : E8!ObservationSound(o)' <=> E8!ObservationSound(o)
         /\ \A d : E8!AdoptionSound(d)' <=> E8!AdoptionSound(d)
         /\ e8_verified' = e8_verified => \A c : E8!CutoverSound(c)' <=> E8!CutoverSound(c)
<1>1. \A m : E8!MigrationSound(m)' <=> E8!MigrationSound(m)
  BY DEF E8!MigrationSound, E8!Migrations, E8!MigrationStates, E8!E7Transitions, E8!Read, E8!None
<1>2. \A o : E8!ObservationSound(o)' <=> E8!ObservationSound(o)
  BY DEF E8!ObservationSound, E8!Observations, E8!Migrations, E8!Parties
<1>3. \A d : E8!AdoptionSound(d)' <=> E8!AdoptionSound(d)
  <2>1. \A d : E8!SelectedObs(d)' = E8!SelectedObs(d)
    BY DEF E8!SelectedObs, E8!Adoptions, E8!Observations
  <2>2. \A o, p : E8!Satisfying(o, p)' <=> E8!Satisfying(o, p)
    BY DEF E8!Satisfying, E8!Invalid, E8!Observations, E8!Policies
  <2>3. \A d : E8!Good(d)' = E8!Good(d)
    BY <2>1, <2>2 DEF E8!Good, E8!Adoptions
  <2>4. \A o, by : E8!Group(o, by)' = E8!Group(o, by)
    BY DEF E8!Group, E8!Observations, E8!Parties, E8!None
  <2>5. \A d, by : E8!Groups(d, by)' = E8!Groups(d, by)
    BY <2>3, <2>4 DEF E8!Groups
  <2>6. \A d : E8!Quorum(d)' <=> E8!Quorum(d)
    BY <2>5 DEF E8!Quorum, E8!Policies, E8!Adoptions
  <2>7. \A d : E8!ListedExceptions(d)' = E8!ListedExceptions(d)
    BY DEF E8!ListedExceptions, E8!Adoptions, E8!Exceptions
  <2>8. \A d : /\ E8!Uncovered(d)' = E8!Uncovered(d)
               /\ E8!Excepted(d)' = E8!Excepted(d)
    BY <2>5, <2>7 DEF E8!Uncovered, E8!Excepted, E8!Required, E8!Parties, E8!Exceptions
  <2>9. \A d : E8!ExceptionsExact(d)' <=> E8!ExceptionsExact(d)
    BY <2>8 DEF E8!ExceptionsExact, E8!Required, E8!Parties, E8!Policies, E8!Adoptions
  <2> QED
    BY <2>1, <2>6, <2>7, <2>9 DEF E8!AdoptionSound, E8!Adoptions, E8!Migrations, E8!Policies,
       E8!AdoptionStates, E8!Positive
<1>4. ASSUME e8_verified' = e8_verified PROVE \A c : E8!CutoverSound(c)' <=> E8!CutoverSound(c)
  BY <1>4 DEF E8!CutoverSound, E8!Cutovers, E8!Migrations, E8!Adoptions, E8!Windows,
     E8!E7Continuity, E8!Read, E8!Positive
<1> QED
  BY <1>1, <1>2, <1>3, <1>4

\* Steps of the programs before and after E8 leave what is known of it alone.
LEMMA E8Stays ==
  ASSUME E8Inv, reg' = reg, e7_phase = "done" => e7_phase' = "done",
         e7h_phase = "done" => e7h_phase' = "done",
         UNCHANGED <<e8_phase, e8_errors, e8_verified, e8_cutovers>>
  PROVE  E8Inv'
BY E8SoundStays DEF E8Inv, E8Found, E8Counts, E8!Migrations, E8!Observations, E8!Adoptions,
   E8!Cutovers, E8!Read, E8!Positive

\* Each method of E8 adds what it looked at; it starts when E7 is through.
LEMMA E8Step ==
  ASSUME E8Inv, E8!Next, reg' = reg, e7h_phase = "done", E7HInv, UNCHANGED <<e7_phase, e7h_phase>>
  PROVE  E8Inv'
<1> USE E8SoundStays DEF E8!Parties, E8!Migrations, E8!Observations, E8!Windows, E8!Policies,
        E8!Exceptions, E8!Adoptions, E8!Cutovers, E8!Read, E8!Flawed, E8!Positive
<1>0. e7_phase = "done"
  BY DEF E7HInv
<1>1. CASE E8!Load
  BY <1>0, <1>1 DEF E8!Load, E8Inv, E8Found, E8Counts
<1>2. CASE E8!CheckBase
  <2> USE <1>2 DEF E8!CheckBase
  <2>1. e8_errors' = {} => /\ e8_errors = {}
                          /\ \A m \in DOMAIN E8!Migrations : E8!MigrationSound(m)
                          /\ \A o \in DOMAIN E8!Observations : E8!ObservationSound(o)
    OBVIOUS
  <2>2. e8_errors' = {} => E8Found'
    BY <2>1 DEF E8Inv, E8Found
  <2> QED
    BY <2>1, <2>2 DEF E8Inv, E8Counts
<1>3. CASE E8!CheckAdoption
  BY <1>3 DEF E8!CheckAdoption, E8Inv, E8Found, E8Counts
<1>4. CASE E8!CheckCutover
  BY <1>4 DEF E8!CheckCutover, E8Inv, E8Found, E8Counts
<1> QED
  BY <1>1, <1>2, <1>3, <1>4 DEF E8!Next

\* E9 and its profile, in the same way.
LEMMA E9SoundStays ==
  ASSUME reg' = reg
  PROVE  /\ \A c : E9!CapabilitySound(c)' <=> E9!CapabilitySound(c)
         /\ \A m : E9!ModeSound(m)' <=> E9!ModeSound(m)
         /\ \A o : E9!ObservationSound(o)' <=> E9!ObservationSound(o)
         /\ \A f : E9!FallbackSound(f)' <=> E9!FallbackSound(f)
         /\ E9!MissingFiles(E9!Observations)' = E9!MissingFiles(E9!Observations)
         /\ E9!MissingFiles(E9!Fallbacks)' = E9!MissingFiles(E9!Fallbacks)
         /\ \A d : E9!DecisionSound(d)' <=> E9!DecisionSound(d)
         /\ \A o : E9!ObservationMaterial(o)' <=> E9!ObservationMaterial(o)
         /\ \A f : E9!FallbackMaterial(f)' <=> E9!FallbackMaterial(f)
         /\ \A d : E9!DecisionKept(d)' <=> E9!DecisionKept(d)
<1>1. /\ \A m : E9!ModeSound(m)' <=> E9!ModeSound(m)
      /\ \A c : E9!CapabilitySound(c)' <=> E9!CapabilitySound(c)
  BY DEF E9!CapabilitySound, E9!Minimums, E9!Dependencies, E9!ModeSound, E9!Modes, E9!Capabilities, E9!ModeKinds, E9!Assurances
<1>2. /\ \A o : E9!ObservationSound(o)' <=> E9!ObservationSound(o)
      /\ \A f : E9!FallbackSound(f)' <=> E9!FallbackSound(f)
  BY DEF E9!ObservationSound, E9!FallbackSound, E9!Observations, E9!Fallbacks, E9!Dependencies,
     E9!ObservedStates, E9!FallbackStates
<1>3. /\ E9!MissingFiles(E9!Observations)' = E9!MissingFiles(E9!Observations)
      /\ E9!MissingFiles(E9!Fallbacks)' = E9!MissingFiles(E9!Fallbacks)
  BY DEF E9!MissingFiles, E9!Observations, E9!Fallbacks
<1>4. \A d : E9!DecisionSound(d)' <=> E9!DecisionSound(d)
  <2>1. \A d : E9!ObsMap(d)' = E9!ObsMap(d)
    BY DEF E9!ObsMap, E9!Usable, E9!FirstOf, E9!DependencyAt, E9!Decisions, E9!Observations
  <2>2. \A d, obs, policy : E9!SelectedFallbacks(d, obs, policy)' = E9!SelectedFallbacks(d, obs, policy)
    BY DEF E9!SelectedFallbacks, E9!StandsIn, E9!StateOf, E9!Decisions, E9!Fallbacks
  <2>3. \A d, obs, policy : E9!Replaced(d, obs, policy)' = E9!Replaced(d, obs, policy)
    BY <2>2 DEF E9!Replaced, E9!Fallbacks
  <2>4. \A c, d, policy, obs, replaced :
          E9!CapabilityServed(c, d, policy, obs, replaced)'
            <=> E9!CapabilityServed(c, d, policy, obs, replaced)
    BY DEF E9!CapabilityServed, E9!Capabilities, E9!Modes, E9!Decisions, E9!DepSatisfied, E9!StateOf
  <2>5. \A d, policy : E9!Used(d, policy)' = E9!Used(d, policy)
    BY DEF E9!Used, E9!Capabilities, E9!Decisions
  <2>6. \A d : E9!ObservationsSound(d)' <=> E9!ObservationsSound(d)
    BY DEF E9!ObservationsSound, E9!Usable, E9!FirstOf, E9!DependencyAt, E9!Decisions, E9!Observations
  <2>7. \A d, mode, policy, obs, replaced :
          /\ E9!ModeFits(d, mode, policy, obs, replaced)' <=> E9!ModeFits(d, mode, policy, obs, replaced)
          /\ E9!Reduced(d, mode, replaced)' <=> E9!Reduced(d, mode, replaced)
    BY DEF E9!ModeFits, E9!Reduced, E9!Decisions, E9!Direct, E9!StateOf, E9!E8Cutovers, E9!Read
  <2>8. \A dep, minimum, byPolicy, policy, obs, replaced :
          E9!DepSatisfied(dep, minimum, byPolicy, policy, obs, replaced)'
            <=> E9!DepSatisfied(dep, minimum, byPolicy, policy, obs, replaced)
    BY DEF E9!DepSatisfied, E9!StateOf
  <2>9. \A deps, obs, replaced : E9!Direct(deps, obs, replaced)' <=> E9!Direct(deps, obs, replaced)
    BY DEF E9!Direct, E9!StateOf
  <2>10. \A d : E9!PositiveSound(d)' <=> E9!PositiveSound(d)
    <3> SUFFICES ASSUME NEW d PROVE E9!PositiveSound(d)' <=> E9!PositiveSound(d)
      OBVIOUS
    <3> DEFINE policy == E9!Policies[E9!Decisions[d].policy]
               mode == E9!Modes[E9!Decisions[d].mode]
               obs == E9!ObsMap(d)
               replaced == E9!Replaced(d, obs, policy)
    <3>1. policy' = policy /\ mode' = mode /\ obs' = obs
      BY <2>1 DEF E9!Decisions, E9!Policies, E9!Modes
    <3>2. replaced' = replaced
      BY <3>1, <2>3
    <3> QED
      BY <3>1, <3>2, <2>2, <2>4, <2>5, <2>6, <2>7, <2>8, <2>9
         DEF E9!PositiveSound, E9!Decisions, E9!Policies, E9!Modes
  <2> QED
    BY <2>10 DEF E9!DecisionSound, E9!Decisions, E9!Skipped, E9!PositiveStates
<1>5. /\ \A o : E9!ObservationMaterial(o)' <=> E9!ObservationMaterial(o)
      /\ \A f : E9!FallbackMaterial(f)' <=> E9!FallbackMaterial(f)
  BY DEF E9!ObservationMaterial, E9!FallbackMaterial, E9!Observations, E9!Fallbacks
<1>6. \A d : E9!DecisionKept(d)' <=> E9!DecisionKept(d)
  BY DEF E9!DecisionKept, E9!KeepsMinimum, E9!LastObserved, E9!LastFallbacks, E9!Decisions,
     E9!Capabilities, E9!Observations, E9!Fallbacks, E9!Skipped
<1> QED
  BY <1>1, <1>2, <1>3, <1>4, <1>5, <1>6

\* Steps of other programs leave what is known of E9 alone,
LEMMA E9Stays ==
  ASSUME E9Inv, reg' = reg, e8_phase = "done" => e8_phase' = "done",
         UNCHANGED <<e9_phase, e9_errors, e9_positive>>
  PROVE  E9Inv'
BY E9SoundStays DEF E9Inv, E9Found, E9!Capabilities, E9!Modes, E9!Observations, E9!Fallbacks,
   E9!Decisions, E9!Read, E9!Skipped

\* and of its profile.
LEMMA E9HStays ==
  ASSUME E9HInv, reg' = reg, e9_phase = "done" => e9_phase' = "done",
         UNCHANGED <<e9h_phase, e9h_errors>>
  PROVE  E9HInv'
BY E9SoundStays DEF E9HInv, E9!Observations, E9!Fallbacks, E9!Decisions

\* Each method of E9 adds what it looked at; it starts when E8 is through.
LEMMA E9Step == ASSUME E9Inv, E9!Next, reg' = reg, e8_phase = "done", e8_phase' = "done" PROVE E9Inv'
<1> USE E9SoundStays DEF E9!Capabilities, E9!Modes, E9!Observations, E9!Fallbacks, E9!Policies,
        E9!Decisions, E9!Read, E9!Flawed, E9!Skipped
<1>1. CASE E9!Load
  BY <1>1 DEF E9!Load, E9Inv, E9Found
<1>2. CASE E9!CheckBase
  <2> USE <1>2 DEF E9!CheckBase
  <2>1. e9_errors' = {} => /\ e9_errors = {}
                          /\ \A c \in DOMAIN E9!Capabilities : E9!CapabilitySound(c)
                          /\ \A m \in DOMAIN E9!Modes : E9!ModeSound(m)
                          /\ \A o \in DOMAIN E9!Observations : E9!ObservationSound(o)
                          /\ \A f \in DOMAIN E9!Fallbacks : E9!FallbackSound(f)
                          /\ E9!MissingFiles(E9!Observations) = {}
                          /\ E9!MissingFiles(E9!Fallbacks) = {}
    OBVIOUS
  <2>2. ASSUME e9_errors' = {} PROVE E9Found'
    <3>1. /\ \A c \in DOMAIN E9!Capabilities' : E9!CapabilitySound(c)'
          /\ \A m \in DOMAIN E9!Modes' : E9!ModeSound(m)'
      BY <2>1, <2>2
    <3>2. /\ \A o \in DOMAIN E9!Observations' : E9!ObservationSound(o)'
          /\ \A f \in DOMAIN E9!Fallbacks' : E9!FallbackSound(f)'
      BY <2>1, <2>2
    <3> QED
      BY <2>1, <2>2, <3>1, <3>2 DEF E9Inv, E9Found
  <2> QED
    BY <2>1, <2>2 DEF E9Inv
<1>3. CASE E9!CheckDecisions
  <2> USE <1>3 DEF E9!CheckDecisions
  <2>1. e9_errors' = {} => /\ e9_errors = {}
                          /\ \A d \in DOMAIN E9!Decisions : E9!DecisionSound(d)
    OBVIOUS
  <2> QED
    BY <2>1 DEF E9Inv, E9Found
<1> QED
  BY <1>1, <1>2, <1>3 DEF E9!Next

\* The profile looks at everything in one go.
LEMMA E9HStep == ASSUME E9HInv, E9!HChecks, e9_phase = "done" PROVE E9HInv'
<1> USE E9SoundStays DEF E9!Modes, E9!Observations, E9!Fallbacks, E9!Decisions, E9!Flawed, E9!e9_vars
<1>1. CASE E9!HLoad
  BY <1>1 DEF E9!HLoad, E9HInv
<1>2. CASE E9!HRunChecks
  <2> USE <1>2 DEF E9!HRunChecks
  <2>1. e9h_errors' = {} => /\ \A o \in DOMAIN E9!Observations : E9!ObservationMaterial(o)
                           /\ \A f \in DOMAIN E9!Fallbacks : E9!FallbackMaterial(f)
                           /\ \A d \in DOMAIN E9!Decisions : E9!DecisionKept(d)
    OBVIOUS
  <2> QED
    BY <2>1 DEF E9HInv
<1> QED
  BY <1>1, <1>2 DEF E9!HChecks

-----------------------------------------------------------------------------
\* Every step of the job preserves what is known of all five programs.
LEMMA Step == Inv /\ [Next]_vars => Inv'
<1> SUFFICES ASSUME Inv, [Next]_vars PROVE Inv'
  OBVIOUS
<1>1. reg' = reg
  BY RegistryFixed
<1> USE <1>1 DEF Inv, Given, vars, e7_all, e8_all, e9_all
<1>2. CASE E7!Next /\ UNCHANGED <<E7!e7h_vars, e8_all, e9_all>>
  <2>1. e7_phase # "done" /\ e7h_phase = "load"
    BY <1>2 DEF E7HInv, E7!Next, E7!Load, E7!CheckIncidentsStatesEvidence, E7!CheckActionsPlans,
       E7!CheckTransitionsRollbacks, E7!CheckDecisions
  <2> QED
    BY <1>2, <2>1, E7Step, E7HStays, E8Stays, E9Stays, E9HStays DEF E7!e7h_vars
<1>3. CASE e7_phase = "done" /\ E7!HChecks /\ UNCHANGED <<e8_all, e9_all>>
  <2>1. UNCHANGED <<e7_phase, e7_errors, e7_counted>> /\ e7h_phase # "done"
    BY <1>3 DEF E7!HChecks, E7!HLoad, E7!HCheck, E7!HCheckEvidence, E7!HCheckPlans,
       E7!HCheckTransitions, E7!HCheckRollbacks, E7!HCheckDecisions, E7!e7_vars
  <2> QED
    BY <1>3, <2>1, E7Stays, E7HStep, E8Stays, E9Stays, E9HStays
<1>4. CASE RunE8
  <2>1. e8_phase # "done"
    BY <1>4 DEF RunE8, E8!Next, E8!Load, E8!CheckBase, E8!CheckAdoption, E8!CheckCutover
  <2> QED
    BY <1>4, <2>1, E7Stays, E7HStays, E8Step, E9Stays, E9HStays DEF RunE8
<1>5. CASE E9!Next /\ UNCHANGED <<E9!e9h_vars, e7_all, e8_all>> /\ e8_phase = "done"
  <2>1. e9_phase # "done"
    BY <1>5 DEF E9!Next, E9!Load, E9!CheckBase, E9!CheckDecisions
  <2> QED
    BY <1>5, <2>1, E7Stays, E7HStays, E8Stays, E9Step, E9HStays DEF E9!e9h_vars
<1>6. CASE e9_phase = "done" /\ E9!HChecks /\ UNCHANGED <<e7_all, e8_all>>
  <2>1. UNCHANGED <<e9_phase, e9_errors, e9_positive>>
    BY <1>6 DEF E9!HChecks, E9!HLoad, E9!HRunChecks, E9!e9_vars
  <2> QED
    BY <1>6, <2>1, E7Stays, E7HStays, E8Stays, E9Stays, E9HStep
<1>7. CASE UNCHANGED vars
  BY <1>7, E7Stays, E7HStays, E8Stays, E9Stays, E9HStays
<1> QED
  BY <1>2, <1>3, <1>4, <1>5, <1>6, <1>7 DEF Next, RunE7, RunE9, E7!HNext, E9!HNext

\* The invariant holds throughout a job.
LEMMA Invariant == Spec => []Inv
BY Initially, Step, PTL DEF Spec

-----------------------------------------------------------------------------
(* The chain of facts.  Each kind of fact rests on kinds that are counted  *)
(* by earlier methods, and a method counts one kind only.                  *)

Trusted == e7_counted.transition
Continued == e7_counted.continuity
Nominal == {d \in e9_positive : reg.degraded.decisions[d].state = "nominal-restored"}

\* The facts of each kind and what they refer to.  A transition refers to none.
LEMMA TransitionsAreFacts ==
  \A t \in DOMAIN reg.recovery.transitions :
    <<"transition", t>> \in DOMAIN Grounds /\ Grounds[<<"transition", t>>] = {}
BY DEF Grounds

\* An established continuity refers to its transition.
LEMMA ContinuitiesAreFacts ==
  \A d \in DOMAIN reg.recovery.decisions :
    /\ <<"continuity", d>> \in DOMAIN Grounds
    /\ Grounds[<<"continuity", d>>] = {<<"transition", reg.recovery.decisions[d].transition>>}
BY DEF Grounds

\* A convergence refers to the transition its migration carries out, if it does.
LEMMA AdoptionsAreFacts ==
  \A a \in DOMAIN reg.convergence.adoptions :
    /\ <<"adoption", a>> \in DOMAIN Grounds
    /\ \A g \in Grounds[<<"adoption", a>>] :
         LET m == reg.convergence.adoptions[a].migration
         IN  /\ m \in DOMAIN reg.convergence.migrations
             /\ reg.convergence.migrations[m].e7_transition # E8!None
             /\ g = <<"transition", reg.convergence.migrations[m].e7_transition>>
BY DEF Grounds, NoneIf

\* A cutover refers to the convergence and, where asked for, the continuity.
LEMMA CutoversAreFacts ==
  \A c \in DOMAIN reg.convergence.cutovers :
    /\ <<"cutover", c>> \in DOMAIN Grounds
    /\ \A g \in Grounds[<<"cutover", c>>] :
         \/ g = <<"adoption", reg.convergence.cutovers[c].adoption>>
         \/ /\ reg.convergence.cutovers[c].require_e7
            /\ g = <<"continuity", reg.convergence.cutovers[c].e7>>
BY DEF Grounds, NoneIf

\* A nominal restoration refers to the cutover its policy asks for.
LEMMA NominalsAreFacts ==
  \A d \in DOMAIN reg.degraded.decisions :
    /\ <<"nominal", d>> \in DOMAIN Grounds
    /\ \A g \in Grounds[<<"nominal", d>>] :
         LET p == reg.degraded.decisions[d].policy
         IN  /\ p \in DOMAIN reg.degraded.policies
             /\ reg.degraded.policies[p].require_e8
             /\ g = <<"cutover", reg.degraded.decisions[d].e8>>
BY DEF Grounds, NoneIf

GroundsCounted ==
  /\ \A t \in Trusted : t \in DOMAIN reg.recovery.transitions
  /\ \A d \in Continued :
       /\ d \in DOMAIN reg.recovery.decisions
       /\ Grounds[<<"continuity", d>>] \subseteq {"transition"} \X Trusted
  /\ \A a \in e8_verified :
       /\ a \in DOMAIN reg.convergence.adoptions
       /\ Grounds[<<"adoption", a>>] \subseteq {"transition"} \X Trusted
  /\ \A c \in e8_cutovers :
       /\ c \in DOMAIN reg.convergence.cutovers
       /\ Grounds[<<"cutover", c>>]
            \subseteq ({"adoption"} \X e8_verified) \cup ({"continuity"} \X Continued)
  /\ \A d \in Nominal :
       /\ d \in DOMAIN reg.degraded.decisions
       /\ Grounds[<<"nominal", d>>] \subseteq {"cutover"} \X e8_cutovers

\* In a job that has found nothing, what is counted rests on what was counted
\* before it.
LEMMA GroundsAreCounted == Inv /\ Intact => GroundsCounted
<1> SUFFICES ASSUME Inv, Intact PROVE GroundsCounted
  OBVIOUS
<1> USE DEF Trusted, Continued, Nominal
<1>0. /\ e7_errors = {} /\ e8_errors = {} /\ e9_errors = {}
      /\ E7Found /\ E7Counts /\ E8Found /\ E8Counts
  BY DEF Intact, Inv, E7Inv, E8Inv
<1>1. \A t \in Trusted : t \in DOMAIN reg.recovery.transitions
  BY <1>0 DEF E7Counts, E7!Transitions
<1>2. ASSUME NEW d \in Continued
      PROVE  /\ d \in DOMAIN reg.recovery.decisions
             /\ Grounds[<<"continuity", d>>] \subseteq {"transition"} \X Trusted
  <2>1. e7_phase = "done" /\ d \in DOMAIN reg.recovery.decisions /\ E7!EstablishesContinuity(d)
    BY <1>0, <1>2 DEF E7Counts, E7!CountedDecisions, E7!Decisions
  <2>2. E7!Decisions[d].transition \in Trusted
    BY <1>0, <2>1 DEF E7Counts, E7Found, E7Past, E7!EstablishesContinuity, E7!RestsOnTransition,
       E7!CountedTransition, E7!TransitionSound
  <2> QED
    BY <2>1, <2>2, ContinuitiesAreFacts DEF E7!Decisions
\* What E8 takes for a verified transition, or an established continuity, is one.
<1>3. ASSUME e8_phase # "load"
      PROVE  E8!E7Transitions \subseteq Trusted /\ E8!E7Continuity \subseteq Continued
  <2>1. e7_phase = "done"
    BY <1>3 DEF Inv, E8Inv
  <2>2. E8!E7Transitions \subseteq Trusted
    BY <1>0, <2>1 DEF E7Counts, E7Found, E7Past, E8!E7Transitions, E7!CountedTransition,
       E7!TransitionSound, E7!Transitions
  <2>3. \A d \in E8!E7Continuity :
          d \in DOMAIN E7!Decisions /\ E7!DecisionSound(d)
            /\ E7!Decisions[d].state \in {"continuity-established", "closed"}
    BY <1>0, <2>1 DEF E7Found, E7Past, E8!E7Continuity, E7!Decisions
  <2>4. \A d \in E8!E7Continuity : E7!EstablishesContinuity(d)
    BY <2>3 DEF E7!DecisionSound, E7!Premises, E7!Closes
  <2>5. E8!E7Continuity \subseteq Continued
    BY <1>0, <2>1, <2>3, <2>4 DEF E7Counts, E7!CountedDecisions, E7!DecisionSound
  <2> QED
    BY <2>2, <2>5
<1>4. ASSUME NEW a \in e8_verified
      PROVE  /\ a \in DOMAIN reg.convergence.adoptions
             /\ Grounds[<<"adoption", a>>] \subseteq {"transition"} \X Trusted
  <2>1. e8_phase \in {"cutover", "done"} /\ a \in DOMAIN reg.convergence.adoptions
    BY <1>0, <1>4 DEF E8Counts, E8!Adoptions
  <2>2. \A m \in DOMAIN E8!Migrations : E8!MigrationSound(m)
    BY <1>0, <2>1 DEF E8Found
  <2>3. \A m \in DOMAIN reg.convergence.migrations :
          reg.convergence.migrations[m].e7_transition \in Trusted \cup {E8!None}
    BY <1>3, <2>1, <2>2 DEF E8!MigrationSound, E8!Migrations
  <2> QED
    BY <2>1, <2>3, AdoptionsAreFacts
<1>5. ASSUME NEW c \in e8_cutovers
      PROVE  /\ c \in DOMAIN reg.convergence.cutovers
             /\ Grounds[<<"cutover", c>>]
                  \subseteq ({"adoption"} \X e8_verified) \cup ({"continuity"} \X Continued)
  <2>1. e8_phase = "done" /\ c \in DOMAIN reg.convergence.cutovers /\ E8!CutoverSound(c)
    BY <1>0, <1>5 DEF E8Counts, E8!Cutovers
  <2>2. /\ reg.convergence.cutovers[c].adoption \in e8_verified
        /\ reg.convergence.cutovers[c].require_e7
             => reg.convergence.cutovers[c].e7 \in Continued
    BY <1>3, <2>1 DEF E8!CutoverSound, E8!Cutovers
  <2> QED
    BY <2>1, <2>2, CutoversAreFacts
<1>6. ASSUME NEW d \in Nominal
      PROVE  /\ d \in DOMAIN reg.degraded.decisions
             /\ Grounds[<<"nominal", d>>] \subseteq {"cutover"} \X e8_cutovers
  <2>1. /\ e9_phase = "done" /\ d \in DOMAIN E9!Decisions
        /\ E9!Decisions[d].state = "nominal-restored" /\ E9!DecisionSound(d)
    BY <1>0, <1>6 DEF Inv, E9Inv, E9!Decisions
  <2>2. E9!PositiveSound(d)
    BY <2>1 DEF E9!DecisionSound, E9!Skipped
  <2>3. E9!Policies[E9!Decisions[d].policy].require_e8 => E9!Decisions[d].e8 \in E9!E8Cutovers
    BY <2>1, <2>2 DEF E9!PositiveSound, E9!ModeFits
  <2>4. E9!E8Cutovers \subseteq e8_cutovers
    BY <1>0, <2>1 DEF Inv, E9Inv, E8Found, E8Counts, E9!E8Cutovers, E8!Cutovers
  <2> QED
    BY <2>1, <2>3, <2>4, NominalsAreFacts DEF E9!Decisions, E9!Policies
<1> QED
  BY <1>1, <1>2, <1>4, <1>5, <1>6 DEF GroundsCounted

\* A step that finds nothing counts at most one kind of fact, and that for the
\* first time.
OneKind ==
  \/ UNCHANGED <<Trusted, Continued, e8_verified, e8_cutovers, Nominal>>
  \/ Trusted = {} /\ UNCHANGED <<Continued, e8_verified, e8_cutovers, Nominal>>
  \/ Continued = {} /\ UNCHANGED <<Trusted, e8_verified, e8_cutovers, Nominal>>
  \/ e8_verified = {} /\ UNCHANGED <<Trusted, Continued, e8_cutovers, Nominal>>
  \/ e8_cutovers = {} /\ UNCHANGED <<Trusted, Continued, e8_verified, Nominal>>
  \/ Nominal = {} /\ UNCHANGED <<Trusted, Continued, e8_verified, e8_cutovers>>

\* What was found wrong stays in the report.
LEMMA ErrorsStay == Inv /\ [Next]_vars /\ Intact' => Intact
<1> SUFFICES ASSUME Inv, [Next]_vars, Intact' PROVE Intact
  OBVIOUS
<1> USE DEF Inv, Intact, e7_all, e8_all, e9_all
<1>1. CASE RunE7
  BY <1>1 DEF RunE7, E7!HNext, E7!Next, E7!HChecks, E7!Load, E7!CheckIncidentsStatesEvidence,
     E7!CheckActionsPlans, E7!CheckTransitionsRollbacks, E7!CheckDecisions, E7!HLoad, E7!HCheck,
     E7!HCheckEvidence, E7!HCheckPlans, E7!HCheckTransitions, E7!HCheckRollbacks,
     E7!HCheckDecisions, E7!e7_vars, E7!e7h_vars, E7Inv, E7HInv
<1>2. CASE RunE8
  BY <1>2 DEF RunE8, E8!Next, E8!Load, E8!CheckBase, E8!CheckAdoption, E8!CheckCutover, E8Inv
<1>3. CASE RunE9
  BY <1>3 DEF RunE9, E9!HNext, E9!Next, E9!HChecks, E9!Load, E9!CheckBase, E9!CheckDecisions,
     E9!HLoad, E9!HRunChecks, E9!e9_vars, E9!e9h_vars, E9Inv, E9HInv
<1>4. CASE UNCHANGED vars
  BY <1>4 DEF vars
<1> QED
  BY <1>1, <1>2, <1>3, <1>4 DEF Next

\* Each method that counts something has counted nothing before.
LEMMA KindsAreCountedOnce == ASSUME Inv, [Next]_vars, Intact PROVE OneKind
<1>1. reg' = reg
  BY RegistryFixed
<1>2. /\ E7Counts /\ E8Counts
      /\ e9_phase # "done" => e9_positive = {}
  BY DEF Inv, Intact, E7Inv, E8Inv, E9Inv
<1> USE <1>1, <1>2 DEF OneKind, Trusted, Continued, Nominal, e7_all, e8_all, e9_all
<1>3. CASE RunE7
  <2>1. CASE E7!CheckTransitionsRollbacks
    <3>1. e7_counted.transition = {} /\ e7_counted'.continuity = e7_counted.continuity
      BY <2>1 DEF E7!CheckTransitionsRollbacks, E7Counts, E7Past, Inv, E7Inv
    <3> QED
      BY <1>3, <3>1 DEF RunE7
  <2>2. CASE E7!CheckDecisions
    <3>1. e7_counted.continuity = {} /\ e7_counted'.transition = e7_counted.transition
      BY <2>2 DEF E7!CheckDecisions, E7Counts, Inv, E7Inv
    <3> QED
      BY <1>3, <3>1 DEF RunE7
  <2>3. CASE UNCHANGED e7_counted
    BY <1>3, <2>3 DEF RunE7
  <2> QED
    BY <1>3, <2>1, <2>2, <2>3 DEF RunE7, E7!HNext, E7!Next, E7!HChecks, E7!Load,
       E7!CheckIncidentsStatesEvidence, E7!CheckActionsPlans, E7!HLoad, E7!HCheck,
       E7!HCheckEvidence, E7!HCheckPlans, E7!HCheckTransitions, E7!HCheckRollbacks,
       E7!HCheckDecisions, E7!e7_vars
<1>4. CASE RunE8
  BY <1>4 DEF RunE8, E8!Next, E8!Load, E8!CheckBase, E8!CheckAdoption, E8!CheckCutover, E8Counts
<1>5. CASE RunE9
  BY <1>5 DEF RunE9, E9!HNext, E9!Next, E9!HChecks, E9!Load, E9!CheckBase, E9!CheckDecisions,
     E9!HLoad, E9!HRunChecks, E9!e9_vars
<1>6. CASE UNCHANGED vars
  BY <1>6 DEF vars
<1> QED
  BY <1>3, <1>4, <1>5, <1>6 DEF Next

Established == IF Intact THEN Accepted ELSE {}

\* Every step of the job is one of the chain of facts, or none.
LEMMA FactStep ==
  Inv /\ Inv' /\ [Next]_vars => [Facts!Next]_<<Grounds, Established, Intact>>
<1> SUFFICES ASSUME Inv, Inv', [Next]_vars
             PROVE  [Facts!Next]_<<Grounds, Established, Intact>>
  OBVIOUS
<1>1. reg' = reg /\ Grounds' = Grounds
  BY RegistryFixed DEF Grounds
<1>2. CASE ~Intact'
  BY <1>1, <1>2 DEF Facts!Next, Facts!Break
<1>3. CASE Intact'
  <2>1. Intact
    BY <1>3, ErrorsStay
  <2>2. OneKind
    BY <2>1, KindsAreCountedOnce
  <2>3. Accepted \subseteq Accepted'
    BY <1>1, <2>2 DEF OneKind, Accepted, Trusted, Continued, Nominal
  <2>4. ASSUME NEW f \in Accepted' \ Accepted
        PROVE  f \in DOMAIN Grounds /\ Grounds[f] \subseteq Accepted
    <3> USE <1>1 DEF Accepted, Trusted, Continued, Nominal
    <3>1. PICK x : \/ f = <<"transition", x>> /\ x \in Trusted' \ Trusted
                   \/ f = <<"continuity", x>> /\ x \in Continued' \ Continued
                   \/ f = <<"adoption", x>> /\ x \in e8_verified' \ e8_verified
                   \/ f = <<"cutover", x>> /\ x \in e8_cutovers' \ e8_cutovers
                   \/ f = <<"nominal", x>> /\ x \in Nominal' \ Nominal
      BY <2>4
    <3>2. GroundsCounted'
      <4>1. (Inv /\ Intact)'
        BY <1>3
      <4> QED
        BY <4>1, GroundsAreCounted, PTL
    <3> USE <3>2 DEF GroundsCounted
    <3>3. CASE f = <<"transition", x>> /\ x \in Trusted' \ Trusted
      BY <3>3, TransitionsAreFacts
    <3>4. CASE f = <<"continuity", x>> /\ x \in Continued' \ Continued
      BY <2>2, <3>4, ContinuitiesAreFacts DEF OneKind
    <3>5. CASE f = <<"adoption", x>> /\ x \in e8_verified' \ e8_verified
      BY <2>2, <3>5, AdoptionsAreFacts DEF OneKind
    <3>6. CASE f = <<"cutover", x>> /\ x \in e8_cutovers' \ e8_cutovers
      BY <2>2, <3>6, CutoversAreFacts DEF OneKind
    <3>7. CASE f = <<"nominal", x>> /\ x \in Nominal' \ Nominal
      BY <2>2, <3>7, NominalsAreFacts DEF OneKind
    <3> QED
      BY <3>1, <3>3, <3>4, <3>5, <3>6, <3>7
  <2> QED
    BY <1>1, <1>3, <2>1, <2>3, <2>4 DEF Facts!Next, Facts!Establish, Established
<1> QED
  BY <1>2, <1>3

(***************************************************************************)
(* The job implements the chain of facts, whatever its files hold: nothing *)
(* is counted before what it refers to, in whichever file that is.         *)
(***************************************************************************)
THEOREM ChainImplementsFacts == Spec => FactsInOrder
<1>1. Init => Facts!Init
  BY DEF Init, E7!Start, E7!HStart, E8!Start, E9!Start, E9!HStart, Facts!Init, Intact, Accepted
<1> QED
  BY <1>1, Invariant, FactStep, PTL DEF Spec, FactsInOrder, Facts!Spec, Established

-----------------------------------------------------------------------------
(* What both E7 programs accept adds up to a recovery. *)

\* The states in which both E7 programs are content.
LEMMA ClosedIsRecovered == Inv => ClosureIsEarned
<1> SUFFICES ASSUME Inv, E7!Conformant, E7!HConformant,
                    NEW d \in DOMAIN E7!Decisions, E7!Decisions[d].state = "closed"
             PROVE  LET incident == E7!Decisions[d].incident
                        t == E7!Transitions[E7!Decisions[d].transition]
                        post == E7!States[t.to_state]
                    IN  /\ E7!Incidents[incident].state = "closed"
                        /\ t.incident = incident
                        /\ t.actions # {}
                        /\ \A a \in t.actions \cup E7!Decisions[d].actions : a \in DOMAIN E7!Actions
                        /\ \A a \in t.actions : E7!Done(a, incident)
                        /\ post.status = "active"
                        /\ post.epoch > E7!States[t.from_state].epoch
                        /\ \A s \in DOMAIN E7!States :
                             E7!States[s].epoch = post.epoch => s = t.to_state
  BY DEF ClosureIsEarned, E7!ClosureIsEarned
<1> DEFINE incident == E7!Decisions[d].incident
           t == E7!Transitions[E7!Decisions[d].transition]
           post == E7!States[t.to_state]
<1>1. /\ E7Found /\ e7_phase = "done" /\ e7h_phase = "done"
      /\ \A x \in DOMAIN E7!Transitions : E7!TransitionBound(x)
      /\ E7!DecisionBounded(d)
  BY DEF Inv, E7Inv, E7Found, E7HInv, E7!Conformant, E7!HConformant
<1>2. E7!DecisionSound(d) /\ E7!Closes(d)
  BY <1>1 DEF E7Found, E7Past, E7!DecisionSound, E7!Premises
<1>3. /\ E7!Decisions[d].transition \in DOMAIN E7!Transitions
      /\ t.status = "verified" /\ post.status = "active" /\ t.to_state \in DOMAIN E7!States
      /\ E7!Incidents[incident].state = "closed" /\ incident \in DOMAIN E7!Incidents
      /\ E7!Decisions[d].actions \subseteq DOMAIN E7!Actions
  BY <1>2 DEF E7!Closes, E7!EstablishesContinuity, E7!RestsOnTransition, E7!DecisionSound
<1>4. E7!TransitionSound(E7!Decisions[d].transition) /\ E7!TransitionBound(E7!Decisions[d].transition)
  BY <1>1, <1>3 DEF E7Found, E7Past
<1>5. t.incident = incident
  BY <1>1, <1>3 DEF E7!DecisionBounded, E7!TransitionOf
<1>6. /\ t.actions # {} /\ post.epoch > E7!States[t.from_state].epoch
      /\ \A a \in t.actions : /\ a \in DOMAIN E7!Actions
                             /\ E7!Actions[a].status = "completed"
                             /\ E7!Actions[a].incident = incident
  BY <1>4, <1>5 DEF E7!TransitionSound, E7!TransitionBound, E7!OfIncident, E7!Completed
<1>7. \A a \in t.actions : E7!Done(a, incident)
  BY <1>1, <1>6 DEF E7Found, E7Past, E7!Done, E7!ActionSound, E7!EvidenceSound
<1>8. \A s \in DOMAIN E7!States : E7!States[s].epoch = post.epoch => s = t.to_state
  BY <1>1, <1>3 DEF E7Found, E7Past, E7!StateSound
<1> QED
  BY <1>3, <1>5, <1>6, <1>7, <1>8

(***************************************************************************)
(* Closed incidents have been recovered from, whatever the registry holds. *)
(***************************************************************************)
THEOREM ClosuresAreEarned == Spec => []ClosureIsEarned
BY Invariant, ClosedIsRecovered, PTL

-----------------------------------------------------------------------------
(* What E8 accepts is complete, and open about the rest. *)

\* Adopted is what the loop of check_adoption counts.
LEMMA AdoptedIsCounted ==
  ASSUME Inv, E8!Conformant, NEW d \in DOMAIN E8!Adoptions,
         E8!Adoptions[d].policy \in DOMAIN E8!Policies,
         E8!SelectedObs(d) = E8!Adoptions[d].observations
  PROVE  /\ \A p : E8!Adopted(p, d) <=> p \in E8!Groups(d, "party")
         /\ E8!Groups(d, "party") \subseteq DOMAIN E8!Parties
<1>1. E8Found /\ e8_phase = "done"
  BY DEF Inv, E8Inv, E8!Conformant
<1>2. \A o \in DOMAIN E8!Observations : E8!Observations[o].evidence \subseteq {"sound", "missing", "bad"}
  BY RecordsAssumption DEF Inv, Given, E8!Observations
<1>3. ASSUME NEW p, E8!Adopted(p, d) PROVE p \in E8!Groups(d, "party")
  <2>1. PICK o \in E8!Adoptions[d].observations :
          /\ o \in DOMAIN E8!Observations
          /\ E8!Observations[o].party = p
          /\ E8!Observations[o].new_state = "accepted"
          /\ E8!Policies[E8!Adoptions[d].policy].require_old_rejected
               => E8!Observations[o].old_state = "rejected"
          /\ E8!Observations[o].evidence = {"sound"}
    BY <1>3 DEF E8!Adopted
  <2> QED
    BY <2>1 DEF E8!Groups, E8!Group, E8!Good, E8!Satisfying, E8!Invalid
<1>4. ASSUME NEW p \in E8!Groups(d, "party")
      PROVE  E8!Adopted(p, d) /\ p \in DOMAIN E8!Parties
  <2>1. PICK o \in E8!SelectedObs(d) :
          E8!Satisfying(o, E8!Adoptions[d].policy) /\ E8!Observations[o].party = p
    BY DEF E8!Groups, E8!Group, E8!Good
  <2>2. o \in DOMAIN E8!Observations /\ E8!ObservationSound(o)
    BY <1>1, <2>1 DEF E8!SelectedObs, E8Found
  <2>3. E8!Observations[o].evidence = {"sound"}
    BY <1>2, <2>1, <2>2 DEF E8!Satisfying, E8!Invalid
  <2> QED
    BY <2>1, <2>2, <2>3 DEF E8!Adopted, E8!SelectedObs, E8!Satisfying, E8!ObservationSound
<1> QED
  BY <1>3, <1>4

\* ConvergenceCheck counts with its own instance of FiniteSets.
LEMMA SameCardinality == \A S : E8!Cardinality(S) = Cardinality(S)
BY DEF E8!Cardinality, Cardinality

\* The states in which E8 is content.
LEMMA ConvergedIsComplete == Inv => ConvergenceIsComplete
<1> SUFFICES ASSUME Inv, E8!Conformant PROVE E8!ConvergenceIsComplete
  BY DEF ConvergenceIsComplete, E8!ConvergenceIsComplete
<1>1. E8Found /\ E8Counts /\ e8_phase = "done"
  BY DEF Inv, E8Inv, E8!Conformant
<1>2. ASSUME NEW d \in DOMAIN E8!Adoptions, E8!Adoptions[d].state \in E8!Positive
      PROVE  LET policy == E8!Policies[E8!Adoptions[d].policy]
                 open == {p \in E8!Required : ~E8!Adopted(p, d)}
                 named == {E8!Exceptions[x].party : x \in E8!Adoptions[d].exceptions}
             IN  /\ policy.require_all_required_parties => open = named \cap E8!Required
                 /\ E8!Adoptions[d].state = "converged" <=> named = {}
                 /\ \E p \in DOMAIN E8!Parties : E8!Adopted(p, d)
  <2> DEFINE policy == E8!Policies[E8!Adoptions[d].policy]
             open == {p \in E8!Required : ~E8!Adopted(p, d)}
             named == {E8!Exceptions[x].party : x \in E8!Adoptions[d].exceptions}
  <2>1. /\ E8!Adoptions[d].policy \in DOMAIN E8!Policies
        /\ E8!SelectedObs(d) = E8!Adoptions[d].observations
        /\ E8!ListedExceptions(d) = E8!Adoptions[d].exceptions
        /\ E8!Quorum(d) /\ E8!ExceptionsExact(d)
    BY <1>1, <1>2 DEF E8Found, E8!AdoptionSound
  <2>2. /\ \A p : E8!Adopted(p, d) <=> p \in E8!Groups(d, "party")
        /\ E8!Groups(d, "party") \subseteq DOMAIN E8!Parties
    BY <2>1, AdoptedIsCounted
  <2>3. open = E8!Uncovered(d) /\ named = E8!Excepted(d)
    BY <2>1, <2>2 DEF E8!Uncovered, E8!Excepted
  <2>4. policy.require_all_required_parties => open = named \cap E8!Required
    BY <2>1, <2>3 DEF E8!ExceptionsExact
  <2>5. E8!Adoptions[d].state = "converged" <=> named = {}
    BY <1>2, <2>1 DEF E8!ExceptionsExact, E8!Positive
  \* A quorum is not empty: policies ask for at least one.
  <2>6. E8!Groups(d, policy.distinct_by) # {}
    <3>1. policy.minimum \in Int
      BY <2>1, RecordsAssumption DEF Inv, Given, E8!Policies
    <3>2. Cardinality(E8!Groups(d, policy.distinct_by)) >= policy.minimum /\ policy.minimum >= 1
      BY <2>1, SameCardinality DEF E8!Quorum
    <3>3. Cardinality({}) = 0
      BY FS_EmptySet
    <3> HIDE DEF policy
    <3> QED
      BY <3>1, <3>2, <3>3
  <2>7. E8!Groups(d, "party") # {}
    BY <2>6 DEF E8!Groups
  <2> QED
    BY <2>2, <2>4, <2>5, <2>7
<1>3. \A c \in DOMAIN E8!Cutovers :
        LET cut == E8!Cutovers[c]
        IN  /\ E8!Adoptions[cut.adoption].state \in E8!Positive
            /\ E8!Adoptions[cut.adoption].migration = cut.migration
            /\ ~E8!Windows[cut.window].allow_old
            /\ E8!Windows[cut.window].migration = cut.migration
  BY <1>1 DEF E8Found, E8!CutoverSound
<1> QED
  BY <1>2, <1>3 DEF E8!ConvergenceIsComplete

(***************************************************************************)
(* Convergence is complete and exceptions are exposed, for every registry. *)
(***************************************************************************)
THEOREM ConvergencesAreComplete == Spec => []ConvergenceIsComplete
BY Invariant, ConvergedIsComplete, PTL

-----------------------------------------------------------------------------
(* What both E9 programs accept runs on what was seen, or on a substitute. *)

\* Both programs see the same observation of a dependency: the baseline takes
\* the first, the profile the last, and an accepted decision lists but one.
LEMMA SeenOnce ==
  ASSUME Inv, E9!Conformant, E9!HConformant,
         NEW d \in DOMAIN E9!Decisions, E9!ObservationsSound(d),
         NEW dep \in DOMAIN E9!ObsMap(d)
  PROVE  /\ \A states : E9!SeenAs(d, dep, states) <=> E9!ObsMap(d)[dep] \in states
         /\ E9!LastObserved(d, dep) = E9!ObsMap(d)[dep]
<1> DEFINE listed == E9!Decisions[d].observations
<1>1. E9Found /\ e9_phase = "done" /\ \A o \in DOMAIN E9!Observations : E9!ObservationMaterial(o)
  BY DEF Inv, E9Inv, E9HInv, E9!Conformant, E9!HConformant
<1>2. PICK n \in Nat : DOMAIN listed = 1..n
  BY RecordsAssumption DEF Inv, Given, E9!Decisions
<1>3. \A i \in DOMAIN listed : listed[i] \in DOMAIN E9!Observations
  BY DEF E9!ObservationsSound, E9!Usable
<1>4. \A i \in DOMAIN listed : E9!Observations[listed[i]].evidence = {"sound"}
  <2> SUFFICES ASSUME NEW i \in DOMAIN listed
               PROVE  E9!Observations[listed[i]].evidence = {"sound"}
    OBVIOUS
  <2> DEFINE o == listed[i]
  <2>1. o \in DOMAIN E9!Observations /\ E9!Observations[o].evidence # {}
    BY DEF E9!ObservationsSound, E9!Usable
  <2>2. E9!Observations[o].evidence \subseteq {"sound", "missing", "hollow", "bad"}
    BY <2>1, RecordsAssumption DEF Inv, Given, E9!Observations
  <2>3. "missing" \notin E9!Observations[o].evidence
    BY <1>1, <2>1 DEF E9Found, E9!MissingFiles
  <2>4. "bad" \notin E9!Observations[o].evidence /\ "hollow" \notin E9!Observations[o].evidence
    BY <1>1, <2>1 DEF E9!ObservationMaterial, E9!EvidenceMaterial
  <2> QED
    BY <2>1, <2>2, <2>3, <2>4
\* Two observations of one dependency would not both be first.
<1>5. \A i, j \in DOMAIN listed : E9!DependencyAt(d, i) = E9!DependencyAt(d, j) => i = j
  BY <1>2 DEF E9!ObservationsSound, E9!FirstOf
<1>6. PICK i \in DOMAIN listed :
        E9!DependencyAt(d, i) = dep /\ E9!ObsMap(d)[dep] = E9!Observations[listed[i]].state
  <2> DEFINE counted == {k \in DOMAIN listed : E9!Usable(d, k) /\ E9!FirstOf(d, k)}
             at == CHOOSE k \in counted : E9!DependencyAt(d, k) = dep
  <2>1. /\ dep \in {E9!DependencyAt(d, k) : k \in counted}
        /\ E9!ObsMap(d)[dep] = E9!Observations[listed[at]].state
    BY DEF E9!ObsMap
  <2>2. at \in counted /\ E9!DependencyAt(d, at) = dep
    BY <2>1
  <2> QED
    BY <2>1, <2>2
<1>7. \A k \in DOMAIN listed : E9!Observations[listed[k]].dependency = dep <=> k = i
  BY <1>5, <1>6 DEF E9!DependencyAt
<1>8. \A states : E9!SeenAs(d, dep, states) <=> E9!ObsMap(d)[dep] \in states
  <2>1. {o \in {listed[k] : k \in DOMAIN listed} : E9!Observations[o].dependency = dep} = {listed[i]}
    BY <1>7
  <2> QED
    BY <1>4, <1>6, <2>1 DEF E9!SeenAs
<1>9. E9!LastObserved(d, dep) = E9!ObsMap(d)[dep]
  <2> DEFINE of == {k \in DOMAIN listed : /\ listed[k] \in DOMAIN E9!Observations
                                         /\ E9!Observations[listed[k]].dependency = dep}
  <2>1. of = {i}
    BY <1>3, <1>7
  <2>2. (CHOOSE k \in of : \A j \in of : j <= k) = i
    BY <1>2, <2>1
  <2>3. E9!LastObserved(d, dep)
          = IF of = {} THEN "not selected"
            ELSE E9!Observations[listed[CHOOSE k \in of : \A j \in of : j <= k]].state
    BY DEF E9!LastObserved
  <2> QED
    BY <1>6, <2>1, <2>2, <2>3
<1> QED
  BY <1>8, <1>9

\* A replaced dependency has a substitute that meets the capability's minimum:
\* one that is merely degraded serves none that asks for an available one.
LEMMA ReplacedIsSupplied ==
  ASSUME Inv, E9!Conformant, E9!HConformant,
         NEW d \in DOMAIN E9!Decisions, E9!PositiveSound(d), E9!Decisions[d].state \notin E9!Skipped,
         NEW policy, policy = E9!Policies[E9!Decisions[d].policy],
         NEW c \in E9!Decisions[d].capabilities, c \in DOMAIN E9!Capabilities,
         NEW dep \in E9!Capabilities[c].required,
         dep \in DOMAIN E9!ObsMap(d), E9!ObsMap(d)[dep] # "available",
         dep \in E9!Replaced(d, E9!ObsMap(d), policy),
         NEW enough,
         enough = {"available"} \cup
                    (IF E9!Capabilities[c].minimum = "degraded" THEN {"degraded"} ELSE {})
  PROVE  /\ E9!SubstitutedBy(d, dep, enough)
         /\ E9!SeenAs(d, dep, {"unknown"}) => policy.unknown_disposition = "fallback"
<1> DEFINE obs == E9!ObsMap(d)
           listed == E9!Decisions[d].fallbacks
           Listed(i) == /\ listed[i] \in DOMAIN E9!Fallbacks
                        /\ E9!Fallbacks[listed[i]].state = "active"
                        /\ E9!Fallbacks[listed[i]].source = dep
           of == {i \in DOMAIN listed : Listed(i)}
<1>1. /\ E9Found /\ e9_phase = "done"
      /\ \A f \in DOMAIN E9!Fallbacks : E9!FallbackMaterial(f)
      /\ E9!DecisionKept(d)
  BY DEF Inv, E9Inv, E9HInv, E9!Conformant, E9!HConformant
<1>2. E9!ObservationsSound(d) /\ \A i \in DOMAIN listed : listed[i] \in E9!SelectedFallbacks(d, obs, policy)
  BY DEF E9!PositiveSound
<1>3. \A i \in DOMAIN listed : listed[i] \in DOMAIN E9!Fallbacks /\ E9!StandsIn(listed[i], obs, policy)
  BY <1>2 DEF E9!SelectedFallbacks
<1>4. PICK n \in Nat : DOMAIN listed = 1..n
  BY RecordsAssumption DEF Inv, Given, E9!Decisions
\* The last listed fallback of the dependency, which is the profile's choice.
<1>5. PICK i \in of : \A j \in of : j <= i
  <2>1. of # {}
    BY <1>3 DEF E9!Replaced, E9!SelectedFallbacks, E9!StandsIn
  <2> HIDE DEF of
  <2>2. of \in SUBSET (1..n)
    BY <1>4 DEF of
  <2> QED
    BY <1>4, <2>1, <2>2, GreatestIndex
<1> DEFINE f == listed[i]
           substitute == E9!Fallbacks[f].substitute
<1>6. /\ f \in DOMAIN E9!Fallbacks /\ E9!StandsIn(f, obs, policy)
      /\ E9!Fallbacks[f].source = dep /\ E9!Fallbacks[f].state = "active"
  BY <1>3, <1>5
<1>7. f \in E9!LastFallbacks(d, dep)
  BY <1>5 DEF E9!LastFallbacks
<1>8. substitute \in DOMAIN obs /\ obs[substitute] \in {"available", "degraded"}
  BY <1>6 DEF E9!StandsIn, E9!StateOf
<1>9. obs[substitute] \in enough
  <2>1. E9!Capabilities[c].minimum \in {"available", "degraded"}
    BY <1>1 DEF E9Found, E9!CapabilitySound, E9!Minimums
  <2>2. ASSUME E9!Capabilities[c].minimum = "available" PROVE obs[substitute] # "degraded"
    <3>1. E9!LastObserved(d, dep) # "available" /\ E9!LastObserved(d, substitute) = obs[substitute]
      BY <1>2, <1>8, SeenOnce
    <3> QED
      BY <1>1, <1>7, <2>2, <3>1 DEF E9!DecisionKept, E9!KeepsMinimum
  <2> QED
    BY <1>8, <2>1, <2>2
<1>10. E9!Fallbacks[f].evidence = {"sound"}
  <2>1. E9!Fallbacks[f].evidence # {}
    BY <1>1, <1>6 DEF E9Found, E9!FallbackSound
  <2>2. E9!Fallbacks[f].evidence \subseteq {"sound", "missing", "hollow", "bad"}
    BY <1>6, RecordsAssumption DEF Inv, Given, E9!Fallbacks
  <2>3. "missing" \notin E9!Fallbacks[f].evidence
    BY <1>1, <1>6 DEF E9Found, E9!MissingFiles
  <2>4. "bad" \notin E9!Fallbacks[f].evidence /\ "hollow" \notin E9!Fallbacks[f].evidence
    BY <1>1, <1>6 DEF E9!FallbackMaterial, E9!EvidenceMaterial
  <2> QED
    BY <2>1, <2>2, <2>3, <2>4
<1>11. E9!SubstitutedBy(d, dep, enough)
  <2>1. E9!SeenAs(d, substitute, enough)
    BY <1>2, <1>8, <1>9, SeenOnce
  <2> QED
    BY <1>5, <1>6, <1>10, <2>1 DEF E9!SubstitutedBy
<1>12. E9!SeenAs(d, dep, {"unknown"}) => policy.unknown_disposition = "fallback"
  <2>1. E9!SeenAs(d, dep, {"unknown"}) => obs[dep] = "unknown"
    BY <1>2, SeenOnce
  <2> QED
    BY <1>6, <2>1 DEF E9!StandsIn, E9!StateOf
<1> QED
  BY <1>11, <1>12

\* The states in which both E9 programs are content.
LEMMA AcceptedIsSupplied == Inv => EveryCapabilitySupplied
<1> SUFFICES ASSUME Inv, E9!Conformant, E9!HConformant PROVE E9!EveryCapabilitySupplied
  BY DEF EveryCapabilitySupplied, E9!EveryCapabilitySupplied
<1>1. E9Found /\ e9_phase = "done"
  BY DEF Inv, E9Inv, E9!Conformant
<1>2. ASSUME NEW d \in DOMAIN E9!Decisions, E9!Decisions[d].state \notin E9!Skipped,
             NEW c \in E9!Decisions[d].capabilities
      PROVE  LET policy == E9!Policies[E9!Decisions[d].policy]
             IN  /\ c \in policy.capabilities \ E9!Modes[policy.mode].denied
                 /\ \A dep \in E9!Capabilities[c].required :
                      LET enough == {"available"} \cup
                            (IF E9!Capabilities[c].minimum = "degraded" THEN {"degraded"} ELSE {})
                      IN  \/ E9!SeenAs(d, dep, {"available"})
                          \/ E9!SeenAs(d, dep, enough) /\ dep \in policy.allowed_degraded
                          \/ /\ E9!SubstitutedBy(d, dep, enough)
                             /\ E9!SeenAs(d, dep, {"unknown"})
                                  => policy.unknown_disposition = "fallback"
  <2> DEFINE policy == E9!Policies[E9!Decisions[d].policy]
             obs == E9!ObsMap(d)
             replaced == E9!Replaced(d, obs, policy)
             enough == {"available"} \cup
                         (IF E9!Capabilities[c].minimum = "degraded" THEN {"degraded"} ELSE {})
  <2>1. E9!PositiveSound(d)
    BY <1>1, <1>2 DEF E9Found, E9!DecisionSound
  <2>2. /\ policy.mode = E9!Decisions[d].mode /\ policy.mode \in DOMAIN E9!Modes
        /\ E9!ObservationsSound(d)
        /\ E9!CapabilityServed(c, d, policy, obs, replaced)
    BY <1>2, <2>1 DEF E9!PositiveSound
  <2>3. c \in DOMAIN E9!Capabilities /\ c \in policy.capabilities \ E9!Modes[policy.mode].denied
    BY <1>1, <2>2 DEF E9!CapabilityServed, E9Found, E9!ModeSound
  <2>4. ASSUME NEW dep \in E9!Capabilities[c].required
        PROVE  \/ E9!SeenAs(d, dep, {"available"})
               \/ E9!SeenAs(d, dep, enough) /\ dep \in policy.allowed_degraded
               \/ /\ E9!SubstitutedBy(d, dep, enough)
                  /\ E9!SeenAs(d, dep, {"unknown"}) => policy.unknown_disposition = "fallback"
    <3>1. E9!DepSatisfied(dep, E9!Capabilities[c].minimum, FALSE, policy, obs, replaced)
      BY <2>2, <2>4 DEF E9!CapabilityServed
    <3>2. dep \in DOMAIN obs
      BY <3>1 DEF E9!DepSatisfied, E9!StateOf
    <3>3. \A states : E9!SeenAs(d, dep, states) <=> obs[dep] \in states
      BY <2>2, <3>2, SeenOnce
    <3>4. CASE obs[dep] = "available"
      BY <3>3, <3>4
    <3>5. CASE obs[dep] # "available" /\ dep \in replaced
      BY <1>2, <2>1, <2>3, <2>4, <3>2, <3>5, ReplacedIsSupplied
    <3>6. CASE obs[dep] # "available" /\ dep \notin replaced
      <4>1. /\ obs[dep] = "degraded" /\ E9!Capabilities[c].minimum = "degraded"
            /\ dep \in policy.allowed_degraded
        BY <3>1, <3>2, <3>6 DEF E9!DepSatisfied, E9!StateOf
      <4> QED
        BY <3>3, <4>1
    <3> QED
      BY <3>4, <3>5, <3>6
  <2> QED
    BY <2>3, <2>4
<1> QED
  BY <1>2 DEF E9!EveryCapabilitySupplied

(***************************************************************************)
(* Every capability of an accepted decision is supplied, for every         *)
(* registry.                                                               *)
(***************************************************************************)
THEOREM CapabilitiesAreSupplied == Spec => []EveryCapabilitySupplied
BY Invariant, AcceptedIsSupplied, PTL
===============================================================================
