----------------------------- MODULE CommitProofs ------------------------------
(***************************************************************************)
(* Theorems about the E12 checker and its hardening profile, for every set *)
(* of files and every registry they may hold.                              *)
(***************************************************************************)
EXTENDS CommitHardening, NaturalFacts, FiniteSetTheorems, TLAPS

\* No handler writes the registry it checks.
LEMMA RegistryFixed == [Next]_vars => reg' = reg
BY DEF Next, vars, Load, EndLoop, CountHistorical, Report, Enter, Visit,
       CheckStore, CheckPolicy, CheckOperation, CheckAttempt, CheckConsumption,
       CheckIdempotency, CheckCommit, CheckDecision

\* The sections, being the registry's, do not change either.
LEMMA SectionsFixed ==
  ASSUME reg' = reg
  PROVE  /\ Stores' = Stores /\ Operations' = Operations
         /\ Attempts' = Attempts /\ Consumptions' = Consumptions
         /\ IdempotencyRecords' = IdempotencyRecords
         /\ Commits' = Commits /\ Decisions' = Decisions
         /\ Policies' = Policies
         /\ \A p : Section(p)' = Section(p)
BY DEF Stores, Operations, Attempts, Consumptions, IdempotencyRecords, Commits,
       Decisions, Policies, Section

\* A handler only visits ids of its own section.
LEMMA VisitedIsOfSection ==
  ASSUME TypeOK, NEW p, NEW id, Visit(p, id)
  PROVE  id \in Section(p) /\ todo' \subseteq Section(phase') /\ phase' = phase
BY DEF TypeOK, Visit, Section, Stores, Operations, Attempts, Consumptions,
       IdempotencyRecords, Commits, Decisions, Policies

\* Every loop is followed by a phase of the program.
LEMMA NextPhase == \A p \in Loops : After(p) \in Phases
BY DEF Loops, Phases, After

\* Every step keeps the types.
LEMMA TypeStep == TypeOK /\ [Next]_vars => TypeOK'
<1> SUFFICES ASSUME TypeOK, [Next]_vars PROVE TypeOK'
  OBVIOUS
<1> reg' = reg
  BY RegistryFixed
<1>1. CASE Load
  BY <1>1, SectionsFixed DEF TypeOK, Load, Enter, Phases, Section
<1>2. CASE EndLoop
  BY <1>2, SectionsFixed, NextPhase DEF TypeOK, EndLoop, Enter
<1>3. CASE CountHistorical
  BY <1>3, SectionsFixed DEF TypeOK, CountHistorical, Enter, Phases, Section
<1>4. CASE Report
  BY <1>4, SectionsFixed DEF TypeOK, Report, Phases, Section, Results, Cap
<1>5. ASSUME NEW id \in todo, CheckStore(id) PROVE TypeOK'
  BY <1>5, SectionsFixed, VisitedIsOfSection
     DEF TypeOK, CheckStore, Visit, Section
<1>6. ASSUME NEW id \in todo, CheckPolicy(id) PROVE TypeOK'
  BY <1>6, SectionsFixed, VisitedIsOfSection
     DEF TypeOK, CheckPolicy, Visit
<1>7. ASSUME NEW id \in todo, CheckOperation(id) PROVE TypeOK'
  BY <1>7, SectionsFixed, VisitedIsOfSection
     DEF TypeOK, CheckOperation, Visit, Section
<1>8. ASSUME NEW id \in todo, CheckAttempt(id) PROVE TypeOK'
  BY <1>8, SectionsFixed, VisitedIsOfSection
     DEF TypeOK, CheckAttempt, Visit, Section
<1>9. ASSUME NEW id \in todo, CheckConsumption(id) PROVE TypeOK'
  BY <1>9, SectionsFixed, VisitedIsOfSection
     DEF TypeOK, CheckConsumption, Visit, Section
<1>10. ASSUME NEW id \in todo, CheckIdempotency(id) PROVE TypeOK'
  BY <1>10, SectionsFixed, VisitedIsOfSection
     DEF TypeOK, CheckIdempotency, Visit, Section
<1>11. ASSUME NEW id \in todo, CheckCommit(id) PROVE TypeOK'
  BY <1>11, SectionsFixed, VisitedIsOfSection
     DEF TypeOK, CheckCommit, Visit, Section
<1>12. ASSUME NEW id \in todo, CheckDecision(id) PROVE TypeOK'
  BY <1>12, SectionsFixed, VisitedIsOfSection
     DEF TypeOK, CheckDecision, Visit, Section
<1>13. CASE UNCHANGED vars
  BY <1>13, SectionsFixed DEF TypeOK, vars
<1> QED
  BY <1>1, <1>2, <1>3, <1>4, <1>5, <1>6, <1>7, <1>8, <1>9, <1>10, <1>11,
     <1>12, <1>13 DEF Next

(***************************************************************************)
(* Every set a handler fills stays within the section it is about.         *)
(***************************************************************************)
THEOREM TypeCorrect == Spec => []TypeOK
<1>1. Init => TypeOK
  BY DEF Init, TypeOK, Phases, Section, Results
<1> QED
  BY <1>1, TypeStep, PTL DEF Spec

-----------------------------------------------------------------------------
(***************************************************************************)
(* The inductive invariant.  A checked record either left an error behind  *)
(* or is what its handler asked for, and what a handler asked for remains  *)
(* true, because the sets it looked at are complete by then or only grow.  *)
(***************************************************************************)
AfterHistorical == {"commits", "decisions", "report", "done"}
AfterCommits == AfterHistorical \ {"commits"}
AfterDecisions == {"report", "done"}
AfterIdempotency == AfterHistorical \cup {"historical"}
AfterConsumptions == AfterIdempotency \cup {"idempotency"}

ConsumptionChecked(c) ==
  phase \in AfterConsumptions \/ (phase = "consumptions" /\ c \notin todo)
IdempotencyChecked(i) ==
  phase \in AfterIdempotency \/ (phase = "idempotency" /\ i \notin todo)
CommitChecked(k) ==
  phase \in AfterCommits \/ (phase = "commits" /\ k \notin todo)
DecisionChecked(d) ==
  phase \in AfterDecisions \/ (phase = "decisions" /\ d \notin todo)

\* reg is one of the given files, and nothing is recorded before it is loaded.
Given == /\ \E f \in Files : reg = RegistryIn(f)
         /\ phase = "load" => errors = {}

\* A commit that needs an idempotency key has the one its attempt names.
OwnKey(k) ==
  LET com == reg.commits[k]
  IN  reg.policies[reg.operations[com.operation].policy].require_idempotency =>
        com.idempotency_record = reg.attempts[com.attempt].idempotency_record

\* The valid_* sets hold what their handlers accepted.
Premises ==
  /\ \A s \in valid_stores : StoreAccepted(s)
  /\ \A o \in valid_operations : OperationSound(o)
  /\ \A a \in revalidated_attempts :
       AttemptBound(a) /\ AttemptPositive(a) /\ Revalidates(a)
  /\ \A k \in valid_commits : reg.commits[k].state = "committed" /\ OwnKey(k)

\* What check_consumptions asks of a record, apart from its key.
TokenClean(c) ==
  LET rec == reg.consumptions[c]
  IN  Coherent(rec) /\ (rec.state = "consumed" =>
        Selects(rec.attempt, c) /\ StoreUsable(rec.store) /\ rec.evidence = "ok")

KeysSeen ==
  phase = "consumptions" =>
    \A c \in Consumptions \ todo : ConsumptionKey(c) \in seen_keys

TokensClean ==
  ~Failed =>
    /\ \A c \in Consumptions : ConsumptionChecked(c) => TokenClean(c)
    /\ \A b, c \in Consumptions :
         /\ ConsumptionChecked(b) /\ ConsumptionChecked(c)
         /\ ConsumptionKey(b) = ConsumptionKey(c)
         => b = c

IdempotencyClean ==
  ~Failed =>
    \A i \in IdempotencyRecords :
      LET rec == reg.idempotency_records[i]
      IN  IdempotencyChecked(i) /\ rec.state = "committed" =>
            StoreUsable(rec.store) /\ rec.evidence = "ok"

CommitsClean ==
  /\ phase \in AfterHistorical =>
       \A o \in MultiplyCommitted : <<"operation", o>> \in errors
  /\ ~Failed =>
       \A k \in HistoricalCommits :
         CommitChecked(k) => reg.commits[k].evidence = "ok"

DecisionsClean ==
  ~Failed => \A d \in Decisions : DecisionChecked(d) => DecisionSound(d)

\* Nothing is reported as conformant or verified after an error.
ReportHonest ==
  /\ phase # "done" => \A r \in DOMAIN report :
                         report[r] \notin {"conformant", "verified"}
  /\ (\E r \in DOMAIN report : report[r] \in {"conformant", "verified"})
       => ~Failed

CommitInv == /\ TypeOK
             /\ Given
             /\ Premises
             /\ KeysSeen
             /\ TokensClean
             /\ IdempotencyClean
             /\ CommitsClean
             /\ DecisionsClean
             /\ ReportHonest

-----------------------------------------------------------------------------
(* What a step may change. *)

\* No step takes a finding back.
LEMMA ErrorsGrow ==
  ASSUME Given, [Next]_vars
  PROVE  errors \subseteq errors' /\ (~Failed' => ~Failed)
BY DEF Given, Failed, Next, vars, Load, EndLoop, CountHistorical, Report, Enter,
       Visit, CheckStore, CheckPolicy, CheckOperation, CheckAttempt,
       CheckConsumption, CheckIdempotency, CheckCommit, CheckDecision

\* Each valid_* set has one writer.
LEMMA Writers ==
  ASSUME [Next]_vars
  PROVE  /\ valid_stores' = valid_stores \/ \E s \in todo : CheckStore(s)
         /\ valid_operations' = valid_operations
              \/ \E o \in todo : CheckOperation(o)
         /\ revalidated_attempts' = revalidated_attempts
              \/ \E a \in todo : CheckAttempt(a)
         /\ valid_consumptions' = valid_consumptions
              \/ \E c \in todo : CheckConsumption(c)
         /\ valid_idempotency' = valid_idempotency
              \/ \E i \in todo : CheckIdempotency(i)
         /\ valid_commits' = valid_commits \/ \E k \in todo : CheckCommit(k)
BY DEF Next, vars, Load, EndLoop, CountHistorical, Report, Visit,
       CheckStore, CheckPolicy, CheckOperation, CheckAttempt,
       CheckConsumption, CheckIdempotency, CheckCommit, CheckDecision

\* No step takes a store or an operation off the valid ones.
LEMMA ValidSetsGrow ==
  ASSUME [Next]_vars
  PROVE  /\ valid_stores \subseteq valid_stores'
         /\ valid_operations \subseteq valid_operations'
BY Writers DEF CheckStore, CheckOperation

\* A record is newly checked only by the handler of its section.
LEMMA NewlyChecked ==
  ASSUME TypeOK, [Next]_vars
  PROVE  /\ \A c \in Consumptions : ConsumptionChecked(c)' =>
              ConsumptionChecked(c) \/ CheckConsumption(c)
         /\ \A i \in IdempotencyRecords : IdempotencyChecked(i)' =>
              IdempotencyChecked(i) \/ CheckIdempotency(i)
         /\ \A k \in Commits : CommitChecked(k)' =>
              CommitChecked(k) \/ CheckCommit(k)
         /\ \A d \in Decisions : DecisionChecked(d)' =>
              DecisionChecked(d) \/ CheckDecision(d)
<1> USE DEF ConsumptionChecked, IdempotencyChecked, CommitChecked,
            DecisionChecked, AfterHistorical, AfterCommits, AfterDecisions,
            AfterIdempotency, AfterConsumptions
<1> reg' = reg
  BY RegistryFixed
<1>1. CASE Load
  BY <1>1 DEF Load, Enter
<1>2. CASE EndLoop
  BY <1>2, SectionsFixed DEF EndLoop, Enter, After, Loops, Phases, Section
<1>3. CASE CountHistorical
  BY <1>3, SectionsFixed DEF CountHistorical, Enter, Section
<1>4. CASE Report
  BY <1>4 DEF Report
<1>5. ASSUME NEW id \in todo,
             \/ CheckStore(id) \/ CheckPolicy(id) \/ CheckOperation(id)
             \/ CheckAttempt(id)
      PROVE  /\ phase' = phase
             /\ phase \in {"stores", "policies", "operations", "attempts"}
  BY <1>5 DEF CheckStore, CheckPolicy, CheckOperation, CheckAttempt, Visit
<1>6. ASSUME NEW id \in todo,
             \/ CheckConsumption(id) \/ CheckIdempotency(id)
             \/ CheckCommit(id) \/ CheckDecision(id)
      PROVE  phase' = phase /\ todo' = todo \ {id}
  BY <1>6 DEF CheckConsumption, CheckIdempotency, CheckCommit, CheckDecision, Visit
<1>7. CASE UNCHANGED vars
  BY <1>7 DEF vars
<1>8. ASSUME NEW id \in todo
      PROVE  /\ CheckConsumption(id) => phase = "consumptions"
             /\ CheckIdempotency(id) => phase = "idempotency"
             /\ CheckCommit(id) => phase = "commits"
             /\ CheckDecision(id) => phase = "decisions"
  BY DEF CheckConsumption, CheckIdempotency, CheckCommit, CheckDecision, Visit
<1> QED
  BY <1>1, <1>2, <1>3, <1>4, <1>5, <1>6, <1>7, <1>8 DEF Next

-----------------------------------------------------------------------------
(* Each part of the invariant is preserved. *)

\* Every step leaves the registry as it was read.
LEMMA GivenStep == Given /\ [Next]_vars => Given'
<1> SUFFICES ASSUME Given, [Next]_vars PROVE Given'
  OBVIOUS
<1>1. phase' = "load" => phase = "load" /\ errors' = errors
  BY DEF Next, vars, Load, EndLoop, CountHistorical, Report, Enter, Visit,
         After, Loops, Phases, CheckStore, CheckPolicy, CheckOperation,
         CheckAttempt, CheckConsumption, CheckIdempotency, CheckCommit,
         CheckDecision
<1> QED
  BY <1>1, RegistryFixed DEF Given

\* Every step keeps what a valid store, operation or attempt rests on,
LEMMA PremisesStep == CommitInv /\ [Next]_vars => Premises'
<1> SUFFICES ASSUME CommitInv, [Next]_vars PROVE Premises'
  OBVIOUS
<1> reg' = reg
  BY RegistryFixed
<1>1. \A s \in valid_stores' : StoreAccepted(s)'
  <2>1. \A s : StoreAccepted(s)' = StoreAccepted(s)
    BY DEF StoreAccepted
  <2> QED
    BY <2>1, Writers DEF CommitInv, Premises, CheckStore
<1>2. \A o \in valid_operations' : OperationSound(o)'
  <2>1. \A o : OperationSound(o)' = OperationSound(o)
    BY DEF OperationSound, TemporalView, Observation, TimeDomain, Policies
  <2> QED
    BY <2>1, Writers DEF CommitInv, Premises, CheckOperation
<1>3. \A a \in revalidated_attempts' :
        AttemptBound(a)' /\ AttemptPositive(a)' /\ Revalidates(a)'
  <2>1. \A a : /\ AttemptBound(a)' = AttemptBound(a)
               /\ AttemptPositive(a)' = AttemptPositive(a)
    BY DEF AttemptBound, AttemptPositive, Operations
  <2>2. \A a : Revalidates(a) => Revalidates(a)'
    BY ValidSetsGrow
       DEF Revalidates, TemporalView, Observation, TimeDomain, DefinitelyAfter,
           Earliest, Latest
  <2>3. \A a \in revalidated_attempts' :
          AttemptBound(a) /\ AttemptPositive(a) /\ Revalidates(a)
    BY Writers DEF CommitInv, Premises, CheckAttempt
  <2> QED
    BY <2>1, <2>2, <2>3
<1>4. \A k \in valid_commits' : reg'.commits[k].state = "committed" /\ OwnKey(k)'
  <2>1. \A k : OwnKey(k)' = OwnKey(k)
    BY DEF OwnKey
  <2>2. ASSUME NEW k, CheckCommit(k)
        PROVE  k \in valid_commits' => /\ k \in valid_commits \/ OwnKey(k)
                                       /\ k \in valid_commits
                                            \/ reg.commits[k].state = "committed"
    BY <2>2 DEF CheckCommit, CommitErrors, CommitIdempotency, OwnKey, Mark
  <2> QED
    BY <2>1, <2>2, Writers DEF CommitInv, Premises, CheckCommit
<1> QED
  BY <1>1, <1>2, <1>3, <1>4 DEF Premises

\* ... that the keys of the consumptions looked at are taken,
LEMMA KeysSeenStep == CommitInv /\ [Next]_vars => KeysSeen'
<1> SUFFICES ASSUME CommitInv, [Next]_vars, phase' = "consumptions",
                    NEW c \in Consumptions \ todo'
             PROVE  ConsumptionKey(c)' \in seen_keys'
  BY RegistryFixed, SectionsFixed DEF KeysSeen
<1> reg' = reg /\ ConsumptionKey(c)' = ConsumptionKey(c)
  BY RegistryFixed DEF ConsumptionKey
<1>1. CASE EndLoop \/ Load \/ CountHistorical
  BY <1>1 DEF EndLoop, Load, CountHistorical, Enter, Section
<1>2. CASE UNCHANGED vars \/ Report
  BY <1>2 DEF CommitInv, KeysSeen, vars, Report
<1>3. ASSUME NEW id \in todo, CheckConsumption(id)
      PROVE  ConsumptionKey(c)' \in seen_keys'
  BY <1>3 DEF CommitInv, KeysSeen, CheckConsumption, Visit
<1>4. ASSUME NEW id \in todo, \/ CheckStore(id) \/ CheckPolicy(id)
                              \/ CheckOperation(id) \/ CheckAttempt(id)
                              \/ CheckIdempotency(id) \/ CheckCommit(id)
                              \/ CheckDecision(id)
      PROVE FALSE
  BY <1>4 DEF CheckStore, CheckPolicy, CheckOperation, CheckAttempt,
              CheckIdempotency, CheckCommit, CheckDecision, Visit
<1> QED
  BY <1>1, <1>2, <1>3, <1>4 DEF Next

\* Evidence without a finding is in order.
LEMMA CleanEvidence ==
  ASSUME NEW loc, NEW evidence, EvidenceErrors(evidence, loc) = {}
  PROVE  evidence = "ok"
BY DEF EvidenceErrors

\* A consumption that added no finding is what check_consumptions asked for.
LEMMA CleanConsumption ==
  ASSUME NEW c, ConsumptionErrors(c) = {}
  PROVE  TokenClean(c) /\ ConsumptionKey(c) \notin seen_keys
BY CleanEvidence
   DEF ConsumptionErrors, TokenClean, Mark, FirstUse, Coherent

\* ... that the tokens of those are one each,
LEMMA TokensCleanStep == CommitInv /\ [Next]_vars => TokensClean'
<1> SUFFICES ASSUME CommitInv, [Next]_vars, ~Failed' PROVE TokensClean'
  BY DEF TokensClean
<1> reg' = reg /\ ~Failed /\ Consumptions' = Consumptions
  BY RegistryFixed, SectionsFixed, ErrorsGrow DEF CommitInv
<1>1. \A c : TokenClean(c) => TokenClean(c)'
  BY ValidSetsGrow DEF TokenClean, Coherent, Resolves, Selects, StoreUsable,
                       Operations, Attempts, Stores
<1>2. \A c : CheckConsumption(c) =>
        TokenClean(c) /\ ConsumptionKey(c) \notin seen_keys
  BY CleanConsumption DEF CheckConsumption, Failed
<1>3. \A c \in Consumptions : ConsumptionChecked(c)' =>
        ConsumptionChecked(c) \/ CheckConsumption(c)
  BY NewlyChecked DEF CommitInv
<1>4. \A c \in Consumptions : ConsumptionChecked(c)' => TokenClean(c)'
  BY <1>1, <1>2, <1>3 DEF CommitInv, TokensClean
<1>5. ASSUME NEW b \in Consumptions, NEW c \in Consumptions,
             ConsumptionChecked(b)', ConsumptionChecked(c)',
             ConsumptionKey(b) = ConsumptionKey(c)
      PROVE  b = c
  <2>1. ASSUME NEW x \in Consumptions, NEW y \in Consumptions,
               CheckConsumption(x), ConsumptionChecked(y)
        PROVE  ConsumptionKey(x) # ConsumptionKey(y)
    BY <1>2, <2>1 DEF CommitInv, KeysSeen, CheckConsumption, Visit,
                      ConsumptionChecked, AfterConsumptions, AfterIdempotency,
                      AfterHistorical
  <2>2. CASE ConsumptionChecked(b) /\ ConsumptionChecked(c)
    BY <1>5, <2>2 DEF CommitInv, TokensClean
  <2>3. CASE CheckConsumption(b) /\ CheckConsumption(c)
    BY <2>3 DEF CheckConsumption, Visit
  <2> QED
    BY <1>3, <1>5, <2>1, <2>2, <2>3
<1>6. \A c : ConsumptionKey(c)' = ConsumptionKey(c)
  BY DEF ConsumptionKey
<1> QED
  BY <1>4, <1>5, <1>6 DEF TokensClean

\* ... what is known of the idempotency records,
LEMMA IdempotencyCleanStep == CommitInv /\ [Next]_vars => IdempotencyClean'
<1> SUFFICES ASSUME CommitInv, [Next]_vars, ~Failed',
                    NEW i \in IdempotencyRecords, IdempotencyChecked(i)',
                    reg.idempotency_records[i].state = "committed"
             PROVE  /\ StoreUsable(reg.idempotency_records[i].store)'
                    /\ reg.idempotency_records[i].evidence = "ok"
  BY RegistryFixed, SectionsFixed DEF IdempotencyClean
<1> reg' = reg /\ ~Failed
  BY RegistryFixed, ErrorsGrow DEF CommitInv
<1>1. \A s : StoreUsable(s) => StoreUsable(s)'
  BY ValidSetsGrow DEF StoreUsable, Stores
<1>2. CASE IdempotencyChecked(i)
  BY <1>1, <1>2 DEF CommitInv, IdempotencyClean
<1>3. CASE CheckIdempotency(i)
  <2>1. IdempotencyErrors(i) = {}
    BY <1>3 DEF CheckIdempotency, Failed
  <2>2. /\ StoreUsable(reg.idempotency_records[i].store)
        /\ reg.idempotency_records[i].evidence = "ok"
    BY <2>1, CleanEvidence DEF IdempotencyErrors, Mark
  <2> QED
    BY <1>1, <2>2
<1> QED
  BY <1>2, <1>3, NewlyChecked DEF CommitInv

\* ... of the commits,
LEMMA CommitsCleanStep == CommitInv /\ [Next]_vars => CommitsClean'
<1> SUFFICES ASSUME CommitInv, [Next]_vars PROVE CommitsClean'
  OBVIOUS
<1> /\ reg' = reg
    /\ errors \subseteq errors' /\ (~Failed' => ~Failed)
  BY RegistryFixed, ErrorsGrow DEF CommitInv
<1>1. /\ MultiplyCommitted' = MultiplyCommitted
      /\ HistoricalCommits' = HistoricalCommits
  BY SectionsFixed DEF MultiplyCommitted, NamedTwice, HistoricalCommits
<1>2. ASSUME phase' \in AfterHistorical, NEW o \in MultiplyCommitted
      PROVE  <<"operation", o>> \in errors'
  <2>1. phase \in AfterHistorical \/ CountHistorical
    BY <1>2 DEF AfterHistorical, Next, vars, Load, EndLoop, Report, Enter,
         After, Loops, Phases, Visit, CheckStore, CheckPolicy, CheckOperation,
         CheckAttempt, CheckConsumption, CheckIdempotency, CheckCommit,
         CheckDecision
  <2> QED
    BY <1>2, <2>1 DEF CommitInv, CommitsClean, CountHistorical
<1>3. ASSUME ~Failed', NEW k \in HistoricalCommits, CommitChecked(k)'
      PROVE  reg.commits[k].evidence = "ok"
  <2>1. CASE CommitChecked(k)
    BY <1>3, <2>1 DEF CommitInv, CommitsClean
  <2>2. CASE CheckCommit(k)
    <3>1. CommitErrors(k) = {}
      BY <1>3, <2>2 DEF CheckCommit, Failed
    <3> QED
      BY <3>1, CleanEvidence
         DEF CommitErrors, Mark, Coherent, HistoricalCommits
  <2> QED
    BY <1>3, <2>1, <2>2, NewlyChecked DEF CommitInv, HistoricalCommits
<1> QED
  BY <1>1, <1>2, <1>3 DEF CommitsClean

\* ... of the decisions,
LEMMA DecisionsCleanStep == CommitInv /\ [Next]_vars => DecisionsClean'
<1> SUFFICES ASSUME CommitInv, [Next]_vars, ~Failed',
                    NEW d \in Decisions, DecisionChecked(d)'
             PROVE  DecisionSound(d)'
  BY RegistryFixed, SectionsFixed DEF DecisionsClean
<1> reg' = reg /\ ~Failed
  BY RegistryFixed, ErrorsGrow DEF CommitInv
<1>1. DecisionSound(d)
  <2>1. CASE DecisionChecked(d)
    BY <2>1 DEF CommitInv, DecisionsClean
  <2>2. CASE CheckDecision(d)
    BY <2>2 DEF CheckDecision, Mark, Failed
  <2> QED
    BY <2>1, <2>2, NewlyChecked DEF CommitInv
<1>2. phase \in {"decisions", "report", "done"}
  BY NewlyChecked DEF CommitInv, DecisionChecked, AfterDecisions,
                      CheckDecision, Visit
<1>3. UNCHANGED <<valid_operations, revalidated_attempts, valid_idempotency,
                  valid_commits>>
  BY <1>2, Writers DEF CheckOperation, CheckAttempt, CheckIdempotency,
                       CheckCommit, Visit
<1>4. DecisionBound(d)' = DecisionBound(d)
  BY SectionsFixed DEF DecisionBound, Coherent, Resolves
<1>5. /\ DecisionRevalidated(d)' = DecisionRevalidated(d)
      /\ CommitSafe(d)' = CommitSafe(d)
  BY <1>3 DEF DecisionRevalidated, CommitSafe
<1>6. IdempotentReplay(d)' = IdempotentReplay(d)
  BY <1>3, SectionsFixed DEF IdempotentReplay, NoNewEffect
<1> QED
  BY <1>1, <1>4, <1>5, <1>6, SectionsFixed DEF DecisionSound

\* ... and of the report.
LEMMA ReportHonestStep == CommitInv /\ [Next]_vars => ReportHonest'
<1> SUFFICES ASSUME CommitInv, [Next]_vars PROVE ReportHonest'
  OBVIOUS
<1>1. CASE Report
  BY <1>1 DEF Report, ReportHonest, Cap, Failed
<1>2. CASE report' = report /\ phase # "done" /\ phase' # "done"
  BY <1>2 DEF CommitInv, ReportHonest
<1>3. CASE UNCHANGED vars
  BY <1>3 DEF CommitInv, ReportHonest, vars, Failed
<1> QED
  BY <1>1, <1>2, <1>3
     DEF Next, Load, EndLoop, CountHistorical, Enter, After, Loops, Phases,
         Visit, CheckStore, CheckPolicy, CheckOperation, CheckAttempt,
         CheckConsumption, CheckIdempotency, CheckCommit, CheckDecision

\* The invariant holds in the initial states, and every step keeps it.
LEMMA InitInv == Init => CommitInv
BY DEF Init, CommitInv, TypeOK, Phases, Section, Results, Given, Premises,
       KeysSeen, TokensClean, IdempotencyClean, CommitsClean, DecisionsClean,
       ReportHonest, ConsumptionChecked, IdempotencyChecked, CommitChecked,
       DecisionChecked, AfterHistorical, AfterCommits, AfterDecisions,
       AfterIdempotency, AfterConsumptions

\* Every step keeps all of the invariant.
LEMMA InvStep == CommitInv /\ [Next]_vars => CommitInv'
BY TypeStep, GivenStep, PremisesStep, KeysSeenStep, TokensCleanStep,
   IdempotencyCleanStep, CommitsCleanStep, DecisionsCleanStep, ReportHonestStep
   DEF CommitInv

\* Every reachable state of a run satisfies the inductive invariant.
THEOREM InvariantHolds == Spec => []CommitInv
BY InitInv, InvStep, PTL DEF Spec

-----------------------------------------------------------------------------
(* What the invariant says of a finished run. *)

\* With no finding and all loops done, every record is what its loop asks for.
LEMMA ConformantRun ==
  ASSUME CommitInv, Conformant
  PROVE  /\ ~Failed
         /\ \A c \in Consumptions : TokenClean(c)
         /\ \A b, c \in Consumptions :
              ConsumptionKey(b) = ConsumptionKey(c) => b = c
         /\ MultiplyCommitted = {}
         /\ \A d \in Decisions : DecisionSound(d)
<1>1. phase = "done" /\ ~Failed
  BY DEF CommitInv, Conformant, ReportHonest, TypeOK, Results
<1> QED
  BY <1>1 DEF CommitInv, TokensClean, CommitsClean, DecisionsClean,
       ConsumptionChecked, DecisionChecked, AfterConsumptions,
       AfterIdempotency, AfterHistorical, AfterDecisions, Failed

(***************************************************************************)
(* A conformant registry commits an operation at most once: the count in   *)
(* check_commits suppresses everything else, although its error lands on   *)
(* an operation that is already in use.                                    *)
(***************************************************************************)
THEOREM OneCommit == Spec => []AtMostOneCommit
<1>1. CommitInv => AtMostOneCommit
  BY ConformantRun DEF AtMostOneCommit, MultiplyCommitted, NamedTwice,
                       HistoricalCommits
<1> QED
  BY <1>1, InvariantHolds, PTL

(***************************************************************************)
(* A conformant registry spends a token once, whatever the order in which  *)
(* check_consumptions meets the records.                                   *)
(***************************************************************************)
THEOREM OneSpend == Spec => []TokenSpentOnce
<1>1. CommitInv => TokenSpentOnce
  BY ConformantRun DEF TokenSpentOnce, Spent, TokenClean, Selects
<1> QED
  BY <1>1, InvariantHolds, PTL

(***************************************************************************)
(* A retry that check_decisions accepts in a conformant registry has no    *)
(* effect of its own and returns the only commit of its operation.         *)
(***************************************************************************)
THEOREM EffectFreeRetry == Spec => []RetryHasNoEffect
<1>1. CommitInv => RetryHasNoEffect
  <2> SUFFICES ASSUME CommitInv, Conformant, NEW d \in Replays
               PROVE  LET dec == reg.decisions[d]
                      IN  /\ \A c \in Spent :
                               reg.consumptions[c].attempt # dec.attempt
                          /\ \A k \in HistoricalCommits :
                               /\ reg.commits[k].attempt # dec.attempt
                               /\ reg.commits[k].operation
                                    = reg.commits[dec.commit].operation
                                    => k = dec.commit
                          /\ reg.commits[dec.commit].state = "committed"
    BY DEF RetryHasNoEffect
  <2> DEFINE dec == reg.decisions[d]
  <2>1. IdempotentReplay(d)
    BY ConformantRun DEF DecisionSound, Replays
  <2>2. /\ NoNewEffect(dec.attempt)
        /\ dec.commit \in valid_commits
    BY <2>1 DEF IdempotentReplay
  <2>3. dec.commit \in Commits /\ reg.commits[dec.commit].state = "committed"
    BY <2>2 DEF CommitInv, TypeOK, Premises
  <2>4. ASSUME NEW c \in Spent, reg.consumptions[c].attempt = dec.attempt
        PROVE  FALSE
    <3>1. c = None
      BY <2>2, <2>4, ConformantRun DEF Spent, TokenClean, Selects, NoNewEffect
    <3>2. None \notin Consumptions
      BY RegistryAssumption DEF CommitInv, Given, Consumptions
    <3> QED
      BY <3>1, <3>2 DEF Spent
  <2>5. ASSUME NEW k \in HistoricalCommits
        PROVE  /\ reg.commits[k].attempt # dec.attempt
               /\ reg.commits[k].operation = reg.commits[dec.commit].operation
                    => k = dec.commit
    BY <2>2, <2>3, ConformantRun
       DEF NoNewEffect, HistoricalCommits, MultiplyCommitted, NamedTwice,
           Historical
  <2> QED
    BY <2>3, <2>4, <2>5
<1> QED
  BY <1>1, InvariantHolds, PTL

\* Of two intervals one after the other, all of the first comes first.
LEMMA IntervalOrder ==
  ASSUME NEW a \in Int, NEW b \in Int, NEW c \in Int, NEW d \in Int, c >= b
  PROVE  \A x \in a..b, y \in c..d : x <= y
OBVIOUS

\* The attempt of an accepted positive decision was revalidated: what
\* check_attempts has made sure of, with intervals between integers.
LEMMA RevalidatedUse ==
  ASSUME CommitInv, Conformant, NEW d \in PositiveDecisions
  PROVE  LET att == reg.attempts[reg.decisions[d].attempt]
             op == reg.operations[att.operation]
             check == op.check_decision
             use == att.commit_decision
         IN  /\ OperationSound(att.operation)
             /\ check # use
             /\ \A t \in {check, use} :
                  /\ TemporalView(t, op.e10_decision, op.boundary)
                  /\ Earliest(t) \in Int /\ Latest(t) \in Int
             /\ TimeDomain(check) = TimeDomain(use)
             /\ Latest(check) <= Earliest(use)
<1> DEFINE att == reg.attempts[reg.decisions[d].attempt]
           op == reg.operations[att.operation]
           check == op.check_decision
           use == att.commit_decision
<1>1. /\ reg.decisions[d].attempt \in revalidated_attempts
      /\ Revalidates(reg.decisions[d].attempt)
  <2>1. DecisionRevalidated(d)
    BY ConformantRun DEF DecisionSound, PositiveDecisions, Positive
  <2> QED
    BY <2>1 DEF CommitInv, Premises, DecisionRevalidated
<1>2. OperationSound(att.operation)
  BY <1>1 DEF Revalidates, CommitInv, Premises
<1>3. /\ use # check
      /\ TemporalView(check, op.e10_decision, op.boundary)
      /\ TemporalView(use, op.e10_decision, op.boundary)
      /\ TimeDomain(use) = TimeDomain(check)
      /\ Earliest(use) >= Latest(check)
  BY <1>1 DEF Revalidates, DefinitelyAfter
<1>4. \A t \in {check, use} : Earliest(t) \in Int /\ Latest(t) \in Int
  <2>1. \A t \in {check, use} :
          reg.e11_decisions[t].observation \in DOMAIN reg.e11_observations
    BY <1>3 DEF TemporalView
  <2>2. \A o \in DOMAIN reg.e11_observations :
          /\ reg.e11_observations[o].tick \in Int
          /\ reg.e11_observations[o].uncertainty \in Int
    BY RegistryAssumption DEF CommitInv, Given
  <2>3. \A t \in {check, use} : /\ Observation(t).tick \in Int
                                /\ Observation(t).uncertainty \in Int
    BY <2>1, <2>2 DEF Observation
  <2> HIDE DEF check, use
  <2> QED
    BY <2>3 DEF Earliest, Latest
<1>5. Latest(check) <= Earliest(use)
  BY <1>3, <1>4
<1> QED
  BY <1>2, <1>3, <1>4, <1>5

(***************************************************************************)
(* A positive decision of a conformant registry rests on two temporal      *)
(* decisions whose uncertainty intervals do not overlap, in one domain.    *)
(***************************************************************************)
THEOREM ClosedToctou == Spec => []UseFollowsCheck
<1>1. CommitInv => UseFollowsCheck
  <2> SUFFICES ASSUME CommitInv, Conformant, NEW d \in PositiveDecisions
               PROVE  LET att == reg.attempts[reg.decisions[d].attempt]
                          op == reg.operations[att.operation]
                          check == op.check_decision
                          use == att.commit_decision
                      IN  /\ reg.e10_decisions[op.e10_decision].state = "authorized"
                          /\ check # use
                          /\ \A t \in {check, use} :
                               /\ reg.e11_decisions[t].subject = op.e10_decision
                               /\ reg.e11_decisions[t].boundary
                                    = reg.e10_decisions[op.e10_decision].boundary
                          /\ TimeDomain(check) = TimeDomain(use)
                          /\ \A x \in Earliest(check)..Latest(check),
                                y \in Earliest(use)..Latest(use) : x <= y
    BY DEF UseFollowsCheck
  <2> DEFINE att == reg.attempts[reg.decisions[d].attempt]
             op == reg.operations[att.operation]
             check == op.check_decision
             use == att.commit_decision
  <2>1. /\ OperationSound(att.operation)
        /\ check # use
        /\ \A t \in {check, use} : TemporalView(t, op.e10_decision, op.boundary)
        /\ TimeDomain(check) = TimeDomain(use)
    BY RevalidatedUse
  <2>2. \A x \in Earliest(check)..Latest(check),
           y \in Earliest(use)..Latest(use) : x <= y
    <3>1. /\ Earliest(check) \in Int /\ Latest(check) \in Int
          /\ Earliest(use) \in Int /\ Latest(use) \in Int
          /\ Earliest(use) >= Latest(check)
      BY RevalidatedUse
    <3> QED
      BY <3>1, IntervalOrder
  <2>3. /\ reg.e10_decisions[op.e10_decision].state = "authorized"
        /\ op.boundary = reg.e10_decisions[op.e10_decision].boundary
    BY <2>1 DEF OperationSound
  <2> QED
    BY <2>1, <2>2, <2>3 DEF TemporalView
<1> QED
  BY <1>1, InvariantHolds, PTL

(***************************************************************************)
(* No result is reported as verified while a record it may rest on lacks   *)
(* evidence, although has_error does not see missing evidence and lets the *)
(* record become valid.                                                    *)
(***************************************************************************)
THEOREM VerifiedIsBacked == Spec => []EvidenceBacked
<1>1. CommitInv => EvidenceBacked
  <2> SUFFICES ASSUME CommitInv, NEW r \in DOMAIN report \ {"structural"},
                      Verified(r)
               PROVE  EvidenceBacked
    BY DEF EvidenceBacked
  <2>1. phase = "done" /\ ~Failed
    BY DEF CommitInv, Verified, ReportHonest
  <2>2. \A s : StoreUsable(s) => reg.atomic_stores[s].evidence = "ok"
    BY DEF CommitInv, Premises, StoreUsable, StoreAccepted
  <2>3. \A c \in Consumptions : TokenClean(c)
    BY <2>1 DEF CommitInv, TokensClean, ConsumptionChecked, AfterConsumptions,
                AfterIdempotency, AfterHistorical
  <2>4. \A i \in IdempotencyRecords :
          reg.idempotency_records[i].state = "committed" =>
            /\ StoreUsable(reg.idempotency_records[i].store)
            /\ reg.idempotency_records[i].evidence = "ok"
    BY <2>1 DEF CommitInv, IdempotencyClean, IdempotencyChecked,
                AfterIdempotency, AfterHistorical
  <2>5. \A k \in HistoricalCommits : reg.commits[k].evidence = "ok"
    BY <2>1 DEF CommitInv, CommitsClean, CommitChecked, AfterCommits,
                AfterHistorical
  <2> QED
    BY <2>2, <2>3, <2>4, <2>5 DEF EvidenceBacked, TokenClean, Spent
<1> QED
  BY <1>1, InvariantHolds, PTL

-----------------------------------------------------------------------------
(***************************************************************************)
(* The run implements the ledger protocol.  What the refinement needs      *)
(* beyond CommitInv: a record becomes valid only when it is checked, and   *)
(* nothing is counted as a replay before the commits are known.            *)
(***************************************************************************)
Accounted ==
  /\ \A c \in valid_consumptions :
       ConsumptionChecked(c) /\ reg.consumptions[c].state = "consumed"
  /\ \A k \in valid_commits : CommitChecked(k) /\ Coherent(reg.commits[k])
  /\ phase \notin {"decisions", "report", "done"} => replayed = {}

\* A record that is checked stays checked.
LEMMA StaysChecked ==
  ASSUME TypeOK, [Next]_vars
  PROVE  /\ \A c : ConsumptionChecked(c) => ConsumptionChecked(c)'
         /\ \A k : CommitChecked(k) => CommitChecked(k)'
<1> USE DEF ConsumptionChecked, CommitChecked, AfterHistorical, AfterCommits,
            AfterIdempotency, AfterConsumptions
<1>1. CASE Load
  BY <1>1 DEF Load
<1>2. CASE EndLoop
  BY <1>2 DEF EndLoop, Enter, After, Loops, Phases
<1>3. CASE CountHistorical
  BY <1>3 DEF CountHistorical, Enter
<1>4. CASE Report
  BY <1>4 DEF Report
<1>5. ASSUME NEW p, NEW id \in todo, Visit(p, id)
      PROVE  phase' = phase /\ todo' \subseteq todo
  BY <1>5 DEF Visit
<1>6. ASSUME NEW id \in todo,
             \/ CheckStore(id) \/ CheckPolicy(id) \/ CheckOperation(id)
             \/ CheckAttempt(id) \/ CheckConsumption(id)
             \/ CheckIdempotency(id) \/ CheckCommit(id) \/ CheckDecision(id)
      PROVE  \E p : Visit(p, id)
  BY <1>6 DEF CheckStore, CheckPolicy, CheckOperation, CheckAttempt,
              CheckConsumption, CheckIdempotency, CheckCommit, CheckDecision
<1>7. CASE UNCHANGED vars
  BY <1>7 DEF vars
<1> QED
  BY <1>1, <1>2, <1>3, <1>4, <1>5, <1>6, <1>7 DEF Next

\* Every step keeps the account of what was consumed and committed.
LEMMA AccountedStep == CommitInv /\ Accounted /\ [Next]_vars => Accounted'
<1> SUFFICES ASSUME CommitInv, Accounted, [Next]_vars PROVE Accounted'
  OBVIOUS
<1> reg' = reg
  BY RegistryFixed
<1>1. \A c \in valid_consumptions' :
        ConsumptionChecked(c)' /\ reg.consumptions[c].state = "consumed"
  <2>1. \A c : CheckConsumption(c) => ConsumptionChecked(c)'
    BY DEF CheckConsumption, Visit, ConsumptionChecked
  <2>2. \A c \in valid_consumptions' : c \in valid_consumptions
          \/ (CheckConsumption(c) /\ reg.consumptions[c].state = "consumed")
    BY Writers DEF CheckConsumption
  <2> QED
    BY <2>1, <2>2, StaysChecked DEF Accounted, CommitInv
<1>2. \A k \in valid_commits' : CommitChecked(k)' /\ Coherent(reg.commits[k])
  <2>1. \A k : CheckCommit(k) => CommitChecked(k)'
    BY DEF CheckCommit, Visit, CommitChecked
  <2>2. \A k \in valid_commits' : k \in valid_commits
          \/ (CheckCommit(k) /\ <<"commit", k>> \notin CommitErrors(k))
    BY Writers DEF CheckCommit
  <2>3. \A k : <<"commit", k>> \notin CommitErrors(k) => Coherent(reg.commits[k])
    BY DEF CommitErrors, Mark
  <2> QED
    BY <2>1, <2>2, <2>3, StaysChecked DEF Accounted, CommitInv
<1>3. phase' \notin {"decisions", "report", "done"} => replayed' = {}
  BY DEF Accounted, Next, vars, Load, EndLoop, CountHistorical, Report, Enter,
         After, Loops, Phases, Visit, CheckStore, CheckPolicy, CheckOperation,
         CheckAttempt, CheckConsumption, CheckIdempotency, CheckCommit,
         CheckDecision
<1>4. \A rec : Coherent(rec)' = Coherent(rec)
  BY SectionsFixed DEF Coherent, Resolves
<1> QED
  BY <1>1, <1>2, <1>3, <1>4 DEF Accounted

\* A consumption that becomes valid spends a fresh token for a fresh attempt.
LEMMA SpendStep ==
  ASSUME CommitInv, Accounted, ~Failed, ~Failed', reg' = reg,
         NEW c \in todo, CheckConsumption(c), valid_consumptions' # valid_consumptions
  PROVE  LET s == [key |-> ConsumptionKey(c),
                   attempt |-> reg.consumptions[c].attempt]
         IN  /\ SpentNow' = SpentNow \cup {s}
             /\ \A t \in SpentNow : t.key # s.key /\ t.attempt # s.attempt
<1>1. /\ valid_consumptions' = valid_consumptions \cup {c}
      /\ reg.consumptions[c].state = "consumed"
      /\ c \notin valid_consumptions
      /\ phase = "consumptions"
  BY DEF CheckConsumption, Visit
<1>2. TokenClean(c) /\ ConsumptionKey(c) \notin seen_keys
  BY CleanConsumption DEF CheckConsumption, Failed
<1>3. ASSUME NEW b \in valid_consumptions
      PROVE  /\ ConsumptionKey(b) # ConsumptionKey(c)
             /\ reg.consumptions[b].attempt # reg.consumptions[c].attempt
  <2>1. /\ b \in Consumptions /\ b \notin todo /\ b # c
        /\ reg.consumptions[b].state = "consumed"
    BY <1>1, <1>3 DEF Accounted, CommitInv, TypeOK, ConsumptionChecked,
                      AfterConsumptions, AfterIdempotency, AfterHistorical
  <2>2. ConsumptionKey(b) \in seen_keys
    BY <1>1, <2>1 DEF CommitInv, KeysSeen
  <2>3. TokenClean(b)
    BY <1>3, <2>1 DEF Accounted, CommitInv, TokensClean
  <2> QED
    BY <1>1, <1>2, <2>1, <2>2, <2>3 DEF TokenClean, Selects
<1>4. \A b : ConsumptionKey(b)' = ConsumptionKey(b)
  BY DEF ConsumptionKey
<1> QED
  BY <1>1, <1>3, <1>4 DEF SpentNow

\* A commit that becomes valid is the first of its operation and its attempt.
LEMMA CommitStep ==
  ASSUME CommitInv, Accounted, ~Failed, ~Failed', reg' = reg,
         NEW k \in todo, CheckCommit(k), valid_commits' # valid_commits
  PROVE  LET c == [commit |-> k, operation |-> reg.commits[k].operation,
                   attempt |-> reg.commits[k].attempt]
         IN  /\ CommitsNow' = CommitsNow \cup {c}
             /\ \A d \in CommitsNow : /\ d.commit # c.commit
                                      /\ d.operation # c.operation
                                      /\ d.attempt # c.attempt
             /\ ReturnsNow = {}
<1>1. /\ valid_commits' = valid_commits \cup {k}
      /\ reg.commits[k].state = "committed"
      /\ k \notin valid_commits
      /\ phase = "commits"
      /\ k \in Commits
  BY DEF CheckCommit, Visit, CommitInv, TypeOK, Section
<1>2. Coherent(reg.commits[k])
  BY <1>1 DEF CheckCommit, CommitErrors, Mark, Failed
<1>3. MultiplyCommitted = {}
  BY <1>1 DEF CommitInv, CommitsClean, AfterHistorical, Failed
<1>4. ASSUME NEW j \in valid_commits
      PROVE  /\ j # k
             /\ reg.commits[j].operation # reg.commits[k].operation
             /\ reg.commits[j].attempt # reg.commits[k].attempt
  <2>1. /\ j \in Commits /\ j # k
        /\ reg.commits[j].state = "committed"
        /\ Coherent(reg.commits[j])
    BY <1>1, <1>4 DEF Accounted, CommitInv, TypeOK, Premises
  <2>2. reg.commits[j].operation # reg.commits[k].operation
    BY <1>1, <1>3, <2>1 DEF MultiplyCommitted, NamedTwice, Historical
  <2> QED
    BY <1>2, <2>1, <2>2 DEF Coherent
<1>5. ReturnsNow = {}
  BY <1>1 DEF Accounted, ReturnsNow
<1> QED
  BY <1>1, <1>4, <1>5 DEF CommitsNow

\* A decision counted as a replay returns an existing commit and did nothing.
LEMMA ReturnStep ==
  ASSUME CommitInv, Accounted, ~Failed, ~Failed', reg' = reg,
         NEW d \in todo, CheckDecision(d), replayed' # replayed
  PROVE  LET r == [attempt |-> reg.decisions[d].attempt,
                   commit |-> reg.decisions[d].commit]
         IN  /\ ReturnsNow' = ReturnsNow \cup {r}
             /\ \E c \in CommitsNow : c.commit = r.commit
             /\ \A c \in CommitsNow : c.attempt # r.attempt
             /\ \A s \in SpentNow : s.attempt # r.attempt
<1> DEFINE dec == reg.decisions[d]
<1>1. replayed' = replayed \cup {d} /\ IdempotentReplay(d)
  BY DEF CheckDecision, DecisionSound
<1>2. dec.commit \in valid_commits /\ NoNewEffect(dec.attempt)
  BY <1>1 DEF IdempotentReplay
<1>3. \A k \in valid_commits : reg.commits[k].attempt # dec.attempt
  BY <1>2 DEF NoNewEffect, CommitInv, TypeOK, Premises, Historical
<1>4. ASSUME NEW c \in valid_consumptions
      PROVE  reg.consumptions[c].attempt # dec.attempt
  <2>1. /\ c \in Consumptions
        /\ TokenClean(c)
        /\ reg.consumptions[c].state = "consumed"
    BY DEF Accounted, CommitInv, TypeOK, TokensClean
  <2>2. None \notin Consumptions
    BY RegistryAssumption DEF CommitInv, Given, Consumptions
  <2> QED
    BY <1>2, <2>1, <2>2 DEF TokenClean, Selects, NoNewEffect
<1>5. ReturnsNow' = ReturnsNow \cup {[attempt |-> dec.attempt,
                                      commit |-> dec.commit]}
  BY <1>1 DEF ReturnsNow
<1>6. \E c \in CommitsNow : c.commit = dec.commit
  <2> DEFINE c == [commit |-> dec.commit,
                   operation |-> reg.commits[dec.commit].operation,
                   attempt |-> reg.commits[dec.commit].attempt]
  <2>1. c \in CommitsNow
    BY <1>2 DEF CommitsNow
  <2> QED
    BY <2>1
<1>7. /\ \A c \in CommitsNow : c.attempt # dec.attempt
      /\ \A s \in SpentNow : s.attempt # dec.attempt
  BY <1>3, <1>4 DEF CommitsNow, SpentNow
<1> QED
  BY <1>5, <1>6, <1>7

\* A step that fills none of the three sets changes nothing of the ledger, and
\* a step fills at most one of them.
LEMMA OneSetAtATime ==
  ASSUME [Next]_vars
  PROVE  \/ UNCHANGED <<valid_consumptions, valid_commits, replayed>>
         \/ /\ UNCHANGED <<valid_commits, replayed>>
            /\ \E c \in todo : CheckConsumption(c)
         \/ /\ UNCHANGED <<valid_consumptions, replayed>>
            /\ \E k \in todo : CheckCommit(k)
         \/ /\ UNCHANGED <<valid_consumptions, valid_commits>>
            /\ \E d \in todo : CheckDecision(d)
BY DEF Next, vars, Load, EndLoop, CountHistorical, Report, Visit,
       CheckStore, CheckPolicy, CheckOperation, CheckAttempt,
       CheckConsumption, CheckIdempotency, CheckCommit, CheckDecision

\* Every step of the program is one of the ledger, or leaves it alone.
LEMMA LedgerStep ==
  CommitInv /\ Accounted /\ [Next]_vars => [Ledger!Next]_(Ledger!vars)
<1> SUFFICES ASSUME CommitInv, Accounted, [Next]_vars
             PROVE  [Ledger!Next]_(Ledger!vars)
  OBVIOUS
<1> reg' = reg
  BY RegistryFixed
<1>1. CASE Failed
  <2>1. Failed'
    BY <1>1, ErrorsGrow DEF CommitInv, Failed
  <2> QED
    BY <1>1, <2>1 DEF Ledger!vars
<1>2. CASE ~Failed /\ Failed'
  BY <1>2 DEF Ledger!Next, Ledger!Discard
<1>3. CASE ~Failed /\ ~Failed'
  <2>1. /\ valid_consumptions' = valid_consumptions => SpentNow' = SpentNow
        /\ valid_commits' = valid_commits => CommitsNow' = CommitsNow
        /\ replayed' = replayed => ReturnsNow' = ReturnsNow
    BY DEF SpentNow, CommitsNow, ReturnsNow, ConsumptionKey
  <2>2. CASE UNCHANGED <<SpentNow, CommitsNow, ReturnsNow>>
    BY <1>3, <2>2 DEF Ledger!vars
  <2>3. ASSUME NEW c \in todo, CheckConsumption(c),
               valid_consumptions' # valid_consumptions,
               UNCHANGED <<CommitsNow, ReturnsNow>>
        PROVE  Ledger!Spend
    <3> DEFINE s == [key |-> ConsumptionKey(c),
                     attempt |-> reg.consumptions[c].attempt]
    <3>1. /\ SpentNow' = SpentNow \cup {s}
          /\ \A t \in SpentNow : t.key # s.key /\ t.attempt # s.attempt
      BY <1>3, <2>3, SpendStep
    <3> HIDE DEF s
    <3> QED
      BY <1>3, <2>3, <3>1 DEF Ledger!Spend
  <2>4. ASSUME NEW k \in todo, CheckCommit(k), valid_commits' # valid_commits,
               UNCHANGED <<SpentNow, ReturnsNow>>
        PROVE  Ledger!Commit
    <3> DEFINE c == [commit |-> k, operation |-> reg.commits[k].operation,
                     attempt |-> reg.commits[k].attempt]
    <3>1. /\ CommitsNow' = CommitsNow \cup {c}
          /\ \A d \in CommitsNow : /\ d.commit # c.commit
                                   /\ d.operation # c.operation
                                   /\ d.attempt # c.attempt
          /\ ReturnsNow = {}
      BY <1>3, <2>4, CommitStep
    <3> HIDE DEF c
    <3> QED
      BY <1>3, <2>4, <3>1 DEF Ledger!Commit
  <2>5. ASSUME NEW d \in todo, CheckDecision(d), replayed' # replayed,
               UNCHANGED <<SpentNow, CommitsNow>>
        PROVE  Ledger!Return
    <3> DEFINE r == [attempt |-> reg.decisions[d].attempt,
                     commit |-> reg.decisions[d].commit]
    <3>1. /\ ReturnsNow' = ReturnsNow \cup {r}
          /\ \E c \in CommitsNow : c.commit = r.commit
          /\ \A c \in CommitsNow : c.attempt # r.attempt
          /\ \A t \in SpentNow : t.attempt # r.attempt
      BY <1>3, <2>5, ReturnStep
    <3> HIDE DEF r
    <3> QED
      BY <1>3, <2>5, <3>1 DEF Ledger!Return
  <2> QED
    BY <2>1, <2>2, <2>3, <2>4, <2>5, OneSetAtATime DEF Ledger!Next
<1> QED
  BY <1>1, <1>2, <1>3

(***************************************************************************)
(* As long as it finds no error, the checker accepts records in an order   *)
(* that is a run of the abstract ledger, and the first error discards it.  *)
(***************************************************************************)
THEOREM ImplementsLedger == Spec => LedgerSpec
<1>1. Init => Ledger!Init
  <2> SUFFICES ASSUME Init PROVE Ledger!Init
    OBVIOUS
  <2>1. ~Failed /\ SpentNow = {} /\ CommitsNow = {} /\ ReturnsNow = {}
    BY DEF Init, Failed, SpentNow, CommitsNow, ReturnsNow
  <2> QED
    BY <2>1 DEF Ledger!Init
<1>2. Init => Accounted
  BY DEF Init, Accounted
<1> QED
  BY <1>1, <1>2, InvariantHolds, AccountedStep, LedgerStep, PTL
     DEF Spec, LedgerSpec, Ledger!Spec

-----------------------------------------------------------------------------
(***************************************************************************)
(* Both programs.  The profile looks at nothing unless the baseline has    *)
(* accepted everything, reads the sets that run has left behind, and       *)
(* misses no positive decision.                                            *)
(***************************************************************************)
Looked(d) ==
  h_phase \in {"report", "done"} \/ (h_phase = "check" /\ d \notin h_todo)

HardeningClean(d) == HRefs(d) /\ FreshObservation(d) /\ DomainSound(d)

HardeningInv ==
  /\ CommitInv
  /\ h_phase \in {"baseline", "check", "report", "done"}
  /\ h_phase = "baseline" => ~HFailed
  /\ ~HFailed /\ h_phase # "baseline" => Conformant
  /\ ~HFailed => \A d \in PositiveDecisions : Looked(d) => HardeningClean(d)
  /\ h_report.hardening = "conformant" => h_phase = "done" /\ ~HFailed

\* The profile starts with the base program, and with nothing found.
LEMMA HardeningStarts == HInit => HardeningInv
<1> SUFFICES ASSUME HInit PROVE HardeningInv
  OBVIOUS
<1>1. CommitInv
  BY InitInv DEF HInit
<1> QED
  BY <1>1 DEF HInit, HardeningInv, HFailed, Looked

\* The profile's own steps leave what the baseline found alone.
LEMMA BaselineKept ==
  ASSUME UNCHANGED vars
  PROVE  /\ reg' = reg /\ (Conformant' <=> Conformant)
         /\ PositiveDecisions' = PositiveDecisions
         /\ \A d : HardeningClean(d)' <=> HardeningClean(d)
<1>1. reg' = reg /\ valid_stores' = valid_stores /\ (Conformant' <=> Conformant)
  BY DEF vars, Conformant
<1>2. /\ PositiveDecisions' = PositiveDecisions
      /\ Commits' = Commits /\ Consumptions' = Consumptions /\ Policies' = Policies
      /\ IdempotencyRecords' = IdempotencyRecords
      /\ Operations' = Operations /\ Attempts' = Attempts
  BY <1>1 DEF PositiveDecisions, Decisions, Commits, Consumptions, Policies,
              IdempotencyRecords, Operations, Attempts
<1>3. \A d : HRefs(d)' <=> HRefs(d)
  BY <1>1, <1>2 DEF HRefs, Resolves
<1>4. \A d : FreshObservation(d)' <=> FreshObservation(d)
  BY <1>1 DEF FreshObservation, ObservationOf
<1>5. \A d : (OneStore(d)' <=> OneStore(d)) /\ (ReplayStore(d)' <=> ReplayStore(d))
  BY <1>1, <1>2 DEF OneStore, ReplayStore, CommitStoreUsable
<1> QED
  BY <1>1, <1>2, <1>3, <1>4, <1>5 DEF HardeningClean, DomainSound

\* Every step of either program keeps the invariant of both.
LEMMA HardeningStep == HardeningInv /\ [HNext]_<<vars, h_vars>> => HardeningInv'
<1> SUFFICES ASSUME HardeningInv, [HNext]_<<vars, h_vars>> PROVE HardeningInv'
  OBVIOUS
<1> USE DEF HardeningInv, HFailed, Looked
<1>1. CommitInv'
  <2>1. [Next]_vars
    BY DEF HNext, BaselineStep, BaselineDone, HCheckDecision, HEndLoop, HReport, h_vars
  <2> QED
    BY <2>1, InvStep
<1>2. CASE BaselineStep
  BY <1>1, <1>2 DEF BaselineStep, h_vars
<1>3. CASE BaselineDone
  <2>1. CASE Conformant
    <3>1. /\ UNCHANGED vars /\ UNCHANGED <<h_errors, h_report>>
          /\ h_phase' = "check" /\ h_todo' = Decisions
      BY <1>3, <2>1 DEF BaselineDone
    <3> QED
      BY <1>1, <1>3, <3>1, <2>1, BaselineKept DEF PositiveDecisions, BaselineDone
  <2>2. CASE ~Conformant
    <3>1. h_phase' = "report" /\ h_errors' # {} /\ h_report' = h_report
      BY <1>3, <2>2 DEF BaselineDone
    <3> QED
      BY <1>1, <1>3, <3>1 DEF BaselineDone
  <2> QED
    BY <2>1, <2>2
<1>4. ASSUME NEW d \in h_todo, HCheckDecision(d) PROVE HardeningInv'
  <2>1. /\ UNCHANGED vars /\ h_phase = "check" /\ h_phase' = h_phase
        /\ h_todo' = h_todo \ {d} /\ h_report' = h_report
    BY <1>4 DEF HCheckDecision
  <2>2. h_errors' = {} => h_errors = {} /\ (d \in PositiveDecisions => HardeningClean(d))
    BY <1>4 DEF HCheckDecision, Mark, HardeningClean, PositiveDecisions
  <2> QED
    BY <1>1, <2>1, <2>2, BaselineKept
<1>5. CASE HEndLoop
  BY <1>1, <1>5, BaselineKept DEF HEndLoop
<1>6. CASE HReport
  BY <1>1, <1>6, BaselineKept DEF HReport
<1>7. CASE UNCHANGED <<vars, h_vars>>
  BY <1>1, <1>7, BaselineKept DEF h_vars
<1> QED
  BY <1>2, <1>3, <1>4, <1>5, <1>6, <1>7 DEF HNext

\* The invariant of both programs holds throughout.
LEMMA HardeningHolds == HSpec => []HardeningInv
BY HardeningStarts, HardeningStep, PTL DEF HSpec

\* With no finding of either program, every decision is what both ask for.
LEMMA HardenedRun ==
  ASSUME HardeningInv, Hardened
  PROVE  /\ CommitInv /\ Conformant
         /\ \A d \in PositiveDecisions :
              HardeningClean(d) /\ DecisionBound(d) /\ DecisionSound(d)
<1>1. h_phase = "done" /\ ~HFailed /\ CommitInv /\ Conformant
  BY DEF HardeningInv, Hardened
<1>2. \A d \in PositiveDecisions : HardeningClean(d) /\ DecisionSound(d)
  BY <1>1, ConformantRun DEF HardeningInv, Looked, PositiveDecisions
<1> QED
  BY <1>1, <1>2 DEF DecisionSound

(***************************************************************************)
(* In a registry of any size that the profile accepts, a positive decision *)
(* was revalidated by an observation of its own, not earlier than the      *)
(* first anywhere within the uncertainty of the two.                       *)
(***************************************************************************)
THEOREM SecondLook == HSpec => []SecondLookAtClock
<1>1. HardeningInv => SecondLookAtClock
  <2> SUFFICES ASSUME HardeningInv, Hardened, NEW d \in PositiveDecisions
               PROVE  LET att == reg.attempts[reg.decisions[d].attempt]
                          check == reg.operations[att.operation].check_decision
                          use == att.commit_decision
                      IN  /\ ObservationOf(check) # ObservationOf(use)
                          /\ Latest(check) <= Earliest(use)
    BY DEF SecondLookAtClock
  <2>1. FreshObservation(d) /\ DecisionBound(d)
    BY HardenedRun DEF HardeningClean
  <2>2. reg.attempts[reg.decisions[d].attempt].operation = reg.decisions[d].operation
    BY <2>1 DEF DecisionBound, Coherent
  <2> QED
    BY <2>1, <2>2, HardenedRun, RevalidatedUse DEF FreshObservation
<1> QED
  BY <1>1, HardeningHolds, PTL

(***************************************************************************)
(* In a registry of any size that the profile accepts, the commit, token   *)
(* and key behind a positive decision lie in one store that is active and  *)
(* evidenced.                                                              *)
(***************************************************************************)
THEOREM OneDomain == HSpec => []OneAtomicDomain
<1>1. HardeningInv => OneAtomicDomain
  <2> SUFFICES ASSUME HardeningInv, Hardened, NEW d \in PositiveDecisions
               PROVE  LET dec == reg.decisions[d]
                          com == reg.commits[dec.commit]
                          store == reg.atomic_stores[com.atomic_store]
                          policy == reg.policies[dec.policy]
                          key == reg.attempts[dec.attempt].idempotency_record
                      IN  /\ store.status = "active" /\ store.mode # "unknown"
                          /\ store.evidence = "ok"
                          /\ dec.state = "commit-safe" /\ policy.require_consumption =>
                               reg.consumptions[com.consumption].store = com.atomic_store
                          /\ policy.require_idempotency =>
                               reg.idempotency_records[key].store = com.atomic_store
    BY DEF OneAtomicDomain
  <2> DEFINE dec == reg.decisions[d]
             com == reg.commits[dec.commit]
             key == reg.attempts[dec.attempt].idempotency_record
  <2>1. /\ CommitInv /\ DomainSound(d) /\ DecisionBound(d) /\ DecisionSound(d)
        /\ dec.state \in Positive
    BY HardenedRun DEF HardeningClean, PositiveDecisions
  <2>2. com.atomic_store \in valid_stores
    BY <2>1 DEF DomainSound, OneStore, ReplayStore, CommitStoreUsable
  <2>3. StoreAccepted(com.atomic_store)
    BY <2>1, <2>2 DEF CommitInv, Premises
  <2>4. CASE dec.state = "commit-safe"
    <3>1. OneStore(d) /\ CommitSafe(d)
      BY <2>1, <2>4 DEF DomainSound, DecisionSound
    <3>2. /\ OwnKey(dec.commit)
          /\ com.operation = dec.operation /\ com.attempt = dec.attempt
      BY <2>1, <3>1 DEF CommitSafe, CommitInv, Premises
    <3>3. reg.operations[dec.operation].policy = dec.policy
      BY <2>1 DEF DecisionBound
    <3>4. reg.policies[dec.policy].require_idempotency => com.idempotency_record = key
      BY <3>2, <3>3 DEF OwnKey
    <3> QED
      BY <2>3, <3>1, <3>4 DEF StoreAccepted, OneStore
  <2>5. CASE dec.state = "idempotent-replay"
    <3>1. ReplayStore(d)
      BY <2>1, <2>5 DEF DomainSound
    <3> QED
      BY <2>3, <2>5, <3>1 DEF StoreAccepted, ReplayStore
  <2> QED
    BY <2>1, <2>4, <2>5 DEF Positive
<1> QED
  BY <1>1, HardeningHolds, PTL
==============================================================================
