--------------------------- MODULE AutomationProofs ----------------------------
(***************************************************************************)
(* Theorems about the E10 checker and its hardening profile, for every set *)
(* of files and every registry they may hold.                              *)
(***************************************************************************)
EXTENDS AutomationHardening, NaturalFacts, FiniteSetTheorems, SequenceTheorems, TLAPS

-----------------------------------------------------------------------------
(* Authority.  Walking an authority path cannot leave a set that contains   *)
(* the roots and is closed under delegation: the first principal that did   *)
(* would have been delegated by one that did not.                           *)

\* What verify_authority_path accepts is authority that some root has.
LEMMA AuthorityIsGrounded ==
  ASSUME NEW p, NEW scope, NEW record, NEW max_depth,
         record.path \in Seq(STRING), Authority(p, scope, record, max_depth)
  PROVE  Grounded(p, scope)
<1> DEFINE path == record.path
<1> SUFFICES ASSUME NEW S \in SUBSET Principals,
                    \A root \in Principals :
                      Active(root) /\ scope \in reg.principals[root].direct => root \in S,
                    \A g \in DOMAIN reg.delegations :
                      LET delegation == reg.delegations[g]
                      IN  /\ delegation.status = "active" /\ scope \in delegation.scopes
                          /\ delegation.delegator \in S /\ Active(delegation.delegate)
                          => delegation.delegate \in S
             PROVE  p \in S
  BY DEF Grounded
<1>1. CASE path = <<>>
  BY <1>1 DEF Authority, Active
<1>2. CASE path # <<>>
  <2>1. DelegatedTo(p, scope, path)
    BY <1>2 DEF Authority
  <2>2. Len(path) \in Nat /\ Len(path) >= 1
    BY <1>2
  <2> DEFINE Left == {n \in 1..(Len(path) + 1) : Along(path)[n] \notin S}
  <2>3. Left \in SUBSET Nat
    BY <2>2
  <2>4. /\ Along(path)[1] = reg.delegations[path[1]].delegator
        /\ \A n \in 1..Len(path) :
             Along(path)[n + 1] = reg.delegations[path[n]].delegate
    BY <2>2 DEF Along
  <2>5. ASSUME NEW n \in Left, \A m \in Left : n <= m PROVE FALSE
    <3>1. n # 1
      BY <2>1, <2>4, <2>5 DEF DelegatedTo, Active
    <3> DEFINE g == path[n - 1]
    <3>2. n - 1 \in 1..Len(path) /\ n - 1 \notin Left
      BY <2>2, <2>5, <3>1
    <3>3. Along(path)[n - 1] \in S
      BY <2>2, <3>2
    <3>4. reg.delegations[g].delegator = Along(path)[n - 1]
      <4>1. CASE n - 1 = 1
        BY <2>4, <4>1
      <4>2. CASE n - 1 # 1
        <5>1. n - 1 \in 2..Len(path) /\ (n - 1) - 1 \in 1..Len(path)
          BY <3>2, <4>2
        <5>2. reg.delegations[g].delegator = reg.delegations[path[(n - 1) - 1]].delegate
          BY <2>1, <5>1 DEF DelegatedTo, Contiguous
        <5>3. Along(path)[((n - 1) - 1) + 1] = reg.delegations[path[(n - 1) - 1]].delegate
          BY <2>4, <5>1
        <5> QED
          BY <5>2, <5>3, <2>5
      <4> QED
        BY <4>1, <4>2
    <3>5. /\ g \in DOMAIN reg.delegations
          /\ reg.delegations[g].status = "active"
          /\ scope \in reg.delegations[g].scopes
          /\ Active(reg.delegations[g].delegate)
      BY <2>1, <3>2 DEF DelegatedTo
    <3>6. reg.delegations[g].delegate \in S
      BY <3>3, <3>4, <3>5
    <3>7. Along(path)[n] = reg.delegations[g].delegate
      BY <2>4, <3>2, <2>5
    <3> QED
      BY <3>6, <3>7
  <2>6. Left = {}
    BY <2>3, <2>5, LeastElement, Zenon
  <2>7. Len(path) + 1 \in 1..(Len(path) + 1)
    BY <2>2
  <2> QED
    BY <2>1, <2>6, <2>7 DEF DelegatedTo
<1> QED
  BY <1>1, <1>2

-----------------------------------------------------------------------------
(***************************************************************************)
(* The inductive invariant: whatever a loop has visited either left an     *)
(* error behind or is what the loop asks for.                              *)
(***************************************************************************)
PastTraces == {"report", "done"}
PastExecutions == {"effects", "traces"} \cup PastTraces
PastDecisions == {"executions"} \cup PastExecutions
PastPolicies == {"proposals", "approvals", "decisions"} \cup PastDecisions

PolicyChecked(p) == phase \in PastPolicies \/ (phase = "policies" /\ p \notin todo)
DecisionChecked(d) ==
  \/ phase \in PastDecisions
  \/ phase = "decisions" /\ d \notin todo /\ quorum.decision # d
ExecutionChecked(x) ==
  phase \in PastExecutions \/ (phase = "executions" /\ x \notin todo)
TraceChecked(t) == phase \in PastTraces \/ (phase = "traces" /\ t \notin todo)

Refs(d) == Listed(reg.decisions[d].approvals)

\* V holds approvals of d that count, no two by one principal.
Quorate(d, V) ==
  /\ V \subseteq Refs(d) \cap DOMAIN reg.approvals
  /\ IsFiniteSet(V)
  /\ \A a \in V : reg.approvals[a].proposal = reg.decisions[d].proposal /\ Counts(a, d)
  /\ \A a, b \in V : reg.approvals[a].approver = reg.approvals[b].approver => a = b

DecisionClean(d) ==
  /\ Traceable(d)
  /\ PremisesSound(d)
  /\ Refs(d) \subseteq DOMAIN reg.approvals
  /\ \E V : Quorate(d, V) /\ Cardinality(V) >= Policy(d).required_approvals

ExecutionClean(x) ==
  LET execution == reg.executions[x]
  IN  /\ execution.decision \in AuthorizedDecisions
      /\ execution.executor = Proposal(execution.decision).executor
      /\ Authority(execution.executor, Proposal(execution.decision).scope, execution,
                   Policy(execution.decision).max_delegation_depth)

TraceClean(t) ==
  reg.traces[t].state = "trace-complete" =>
    /\ reg.traces[t].decision \in AuthorizedDecisions
    /\ reg.traces[t].execution \in DOMAIN reg.executions
    /\ OneChain(t)
    /\ Concerned(t) \subseteq reg.traces[t].participants

Given == /\ \E f \in Files : reg = RegistryIn(f)
         /\ phase = "load" => errors = {}

\* What the loop over the approvals of d has found when it has still to look at
\* those of `left', has met the principals of `seen' and counted those of V.
Found(d, left, seen, V) ==
  /\ Traceable(d) /\ PremisesSound(d)
  /\ Refs(d) \subseteq Listed(left) \cup DOMAIN reg.approvals
  /\ Listed(left) \subseteq Refs(d)
  /\ Quorate(d, V)
  /\ \A a \in V : reg.approvals[a].approver \in seen

QuorumInv ==
  quorum # NoQuorum =>
    /\ quorum = [decision |-> quorum.decision, left |-> quorum.left,
                 seen |-> quorum.seen, valid |-> quorum.valid]
    /\ phase = "decisions"
    /\ quorum.decision \in AuthorizedDecisions /\ quorum.decision \notin todo
    /\ quorum.left \in Seq(STRING)
    /\ ~Failed => Found(quorum.decision, quorum.left, quorum.seen, quorum.valid)

AuthorizedInv == authorized \subseteq AuthorizedDecisions

RecordsClean ==
  ~Failed =>
    /\ \A p \in DOMAIN reg.policies : PolicyChecked(p) => PolicySound(p)
    /\ \A d \in AuthorizedDecisions : DecisionChecked(d) => DecisionClean(d)
    /\ \A x \in DOMAIN reg.executions : ExecutionChecked(x) => ExecutionClean(x)
    /\ \A t \in DOMAIN reg.traces : TraceChecked(t) => TraceClean(t)

ReportHonest == report.structural = "conformant" => phase = "done" /\ ~Failed

AutomationInv == /\ TypeOK
                 /\ Given
                 /\ QuorumInv
                 /\ AuthorizedInv
                 /\ RecordsClean
                 /\ ReportHonest

-----------------------------------------------------------------------------
(* Facts about single steps. *)

\* The checker never writes the registry it checks.
LEMMA RegistryFixed == [Next]_vars => reg' = reg
BY DEF Next, vars, Load, EndLoop, RefuseApproval, JudgeApproval, EndQuorum, Report,
       Enter, Visit, CheckBase, CheckNegative, StartQuorum, CheckExecution,
       CheckEffect, CheckTrace

\* No step takes a finding back.
LEMMA ErrorsGrow ==
  ASSUME Given, [Next]_vars
  PROVE  errors \subseteq errors' /\ (~Failed' => ~Failed)
BY DEF Given, Failed, Next, vars, Load, EndLoop, RefuseApproval, JudgeApproval,
       EndQuorum, Report, Visit, CheckBase, CheckNegative, StartQuorum,
       CheckExecution, CheckEffect, CheckTrace

\* What is said of records depends on the registry alone.
LEMMA SameRegistry ==
  ASSUME reg' = reg
  PROVE  /\ \A p : Section(p)' = Section(p)
         /\ AuthorizedDecisions' = AuthorizedDecisions
         /\ \A d, left, seen, V : Found(d, left, seen, V)' <=> Found(d, left, seen, V)
         /\ \A p \in DOMAIN reg.policies : PolicySound(p)' <=> PolicySound(p)
         /\ \A d : DecisionClean(d)' <=> DecisionClean(d)
         /\ \A x : ExecutionClean(x)' <=> ExecutionClean(x)
         /\ \A t : TraceClean(t)' <=> TraceClean(t)
<1>1. /\ \A p : Section(p)' = Section(p)
      /\ AuthorizedDecisions' = AuthorizedDecisions
      /\ \A d : Refs(d)' = Refs(d)
      /\ \A d : Proposal(d)' = Proposal(d) /\ Policy(d)' = Policy(d)
  BY DEF Section, AuthorizedDecisions, Refs, Listed, Proposal, Policy
<1>2. \A p, scope, record, max_depth :
        Authority(p, scope, record, max_depth)' <=> Authority(p, scope, record, max_depth)
  BY DEF Authority, Active, Principals, DelegatedTo, Along, Contiguous
<1>3. \A d : (PremisesSound(d)' <=> PremisesSound(d)) /\ (Traceable(d)' <=> Traceable(d))
  BY <1>2 DEF PremisesSound, RevisionsGiven, BoundToCurrent, OnProposal, Current,
              ActorAuthority, E9Admits, Principals, Traceable
<1>4. \A a, d : Counts(a, d)' <=> Counts(a, d)
  BY <1>2 DEF Counts, ApprovalFits, ApprovalAuthority, Current
<1>5. \A d, V : Quorate(d, V)' <=> Quorate(d, V)
  BY <1>1, <1>4 DEF Quorate
<1>6. \A p \in DOMAIN reg.policies : PolicySound(p)' <=> PolicySound(p)
  BY DEF PolicySound
<1>7. \A d : DecisionClean(d)' <=> DecisionClean(d)
  BY <1>1, <1>3, <1>5 DEF DecisionClean
<1>8. \A x : ExecutionClean(x)' <=> ExecutionClean(x)
  BY <1>1, <1>2 DEF ExecutionClean
<1>9. \A t : TraceClean(t)' <=> TraceClean(t)
  BY <1>1 DEF TraceClean, OneChain, Concerned, Listed
<1>10. \A d, left, seen, V : Found(d, left, seen, V)' <=> Found(d, left, seen, V)
  BY <1>1, <1>3, <1>5 DEF Found
<1> QED
  BY <1>1, <1>6, <1>7, <1>8, <1>9, <1>10

\* The steps of the approval loop run inside a quorum.
LEMMA InQuorum ==
  ASSUME RefuseApproval \/ JudgeApproval \/ EndQuorum
  PROVE  quorum # NoQuorum
<1>1. NoQuorum.left = <<>>
  BY DEF NoQuorum
<1>2. CASE RefuseApproval
  BY <1>1, <1>2 DEF RefuseApproval
<1>3. CASE JudgeApproval
  BY <1>1, <1>3 DEF JudgeApproval
<1>4. CASE EndQuorum
  BY <1>4 DEF EndQuorum
<1> QED
  BY <1>2, <1>3, <1>4

\* Every loop is followed by a phase of the program.
LEMMA NextPhase == \A p \in Loops : After(p) \in Phases
BY DEF Loops, BaseSections, Phases, After

\* Every step keeps the types.
LEMMA TypeStep == TypeOK /\ QuorumInv /\ [Next]_vars => TypeOK'
<1> SUFFICES ASSUME TypeOK, QuorumInv, [Next]_vars PROVE TypeOK'
  OBVIOUS
<1> reg' = reg /\ \A p : Section(p)' = Section(p)
  BY RegistryFixed, SameRegistry
<1> USE DEF TypeOK
<1>1. CASE Load
  BY <1>1 DEF Load, Enter, Phases, Loops, BaseSections
<1>2. CASE EndLoop
  BY <1>2, NextPhase DEF EndLoop, Enter
<1>3. CASE RefuseApproval
  <2>1. quorum # NoQuorum
    BY <1>3, InQuorum
  <2>2. quorum'.decision = quorum.decision
    BY <1>3, <2>1 DEF RefuseApproval, QuorumInv
  <2> QED
    BY <1>3, <2>1, <2>2 DEF RefuseApproval
<1>4. CASE JudgeApproval
  <2>1. quorum # NoQuorum
    BY <1>4, InQuorum
  <2>2. quorum'.decision = quorum.decision
    BY <1>4, <2>1 DEF JudgeApproval, QuorumInv
  <2> QED
    BY <1>4, <2>1, <2>2 DEF JudgeApproval
<1>5. CASE EndQuorum
  BY <1>5 DEF EndQuorum, Section, Loops
<1>6. CASE Report
  <2>1. report' \in [structural : {"pending", "conformant", "non-conformant"},
                     delegation : {"not-evaluated", "verified"},
                     authorization : {"not-evaluated", "verified"},
                     execution : {"not-evaluated", "verified"},
                     effect : {"not-evaluated", "observed"},
                     accountability : {"not-evaluated", "verified"}]
    BY <1>6 DEF Report, Cap
  <2>2. Section("done") = Section("report")
    BY DEF Section, Loops, BaseSections
  <2> QED
    BY <1>6, <2>1, <2>2 DEF Report, Phases
<1>7. ASSUME NEW id \in todo, CheckBase(id) \/ CheckNegative(id) PROVE TypeOK'
  BY <1>7 DEF CheckBase, CheckNegative, Visit
<1>8. ASSUME NEW id \in todo, StartQuorum(id) PROVE TypeOK'
  BY <1>8 DEF StartQuorum, Visit
<1>9. ASSUME NEW id \in todo, CheckExecution(id) PROVE TypeOK'
  BY <1>9 DEF CheckExecution, Visit, Section, Loops
<1>10. ASSUME NEW id \in todo, CheckEffect(id) PROVE TypeOK'
  BY <1>10 DEF CheckEffect, Visit, Section, Loops
<1>11. ASSUME NEW id \in todo, CheckTrace(id) PROVE TypeOK'
  BY <1>11 DEF CheckTrace, Visit, Section, Loops
<1>12. CASE UNCHANGED vars
  BY <1>12 DEF vars
<1> QED
  BY <1>1, <1>2, <1>3, <1>4, <1>5, <1>6, <1>7, <1>8, <1>9, <1>10, <1>11, <1>12 DEF Next

\* Every step leaves the registry as it was read.
LEMMA GivenStep == TypeOK /\ Given /\ [Next]_vars => Given'
<1> SUFFICES ASSUME TypeOK, Given, [Next]_vars PROVE Given'
  OBVIOUS
<1>1. CASE RefuseApproval \/ JudgeApproval \/ EndQuorum
  <2>1. quorum # NoQuorum
    BY <1>1, InQuorum
  <2> QED
    BY <1>1, <2>1, RegistryFixed
       DEF TypeOK, Given, RefuseApproval, JudgeApproval, EndQuorum
<1>2. CASE ~(RefuseApproval \/ JudgeApproval \/ EndQuorum)
  <2>1. phase' = "load" => phase = "load" /\ errors' = errors
    BY <1>2 DEF Next, vars, Load, EndLoop, Report, Enter, After, Loops,
                BaseSections, Visit, CheckBase, CheckNegative, StartQuorum,
                CheckExecution, CheckEffect, CheckTrace
  <2> QED
    BY <2>1, RegistryFixed DEF Given
<1> QED
  BY <1>1, <1>2

\* A record is newly checked only by the action of its loop.
LEMMA NewlyChecked ==
  ASSUME AutomationInv, [Next]_vars
  PROVE  /\ \A p \in DOMAIN reg.policies : PolicyChecked(p)' =>
              PolicyChecked(p) \/ (phase = "policies" /\ CheckBase(p))
         /\ \A d \in AuthorizedDecisions : DecisionChecked(d)' =>
              \/ DecisionChecked(d)
              \/ EndQuorum /\ quorum.decision = d
              \/ CheckNegative(d)
         /\ \A x \in DOMAIN reg.executions : ExecutionChecked(x)' =>
              ExecutionChecked(x) \/ CheckExecution(x)
         /\ \A t \in DOMAIN reg.traces : TraceChecked(t)' =>
              TraceChecked(t) \/ CheckTrace(t)
<1> USE DEF PolicyChecked, DecisionChecked, ExecutionChecked, TraceChecked,
            PastPolicies, PastDecisions, PastExecutions, PastTraces
<1> reg' = reg /\ TypeOK /\ QuorumInv
  BY RegistryFixed DEF AutomationInv
<1>0. /\ None \notin DOMAIN reg.decisions
      /\ AuthorizedDecisions \subseteq DOMAIN reg.decisions
      /\ NoQuorum.decision = None
  BY RegistryAssumption DEF AutomationInv, Given, AuthorizedDecisions, NoQuorum
<1>1. CASE Load
  BY <1>1 DEF Load, Enter
<1>2. CASE EndLoop
  <2>1. \A p : Section(p)' = Section(p)
    BY SameRegistry
  <2> QED
    BY <1>0, <1>2, <2>1 DEF EndLoop, Enter, After, Loops, BaseSections, Section
<1>3. CASE RefuseApproval \/ JudgeApproval
  <2>1. quorum # NoQuorum
    BY <1>3, InQuorum
  <2>2. quorum'.decision = quorum.decision
    BY <1>3, <2>1 DEF RefuseApproval, JudgeApproval, QuorumInv
  <2> QED
    BY <1>3, <2>2 DEF RefuseApproval, JudgeApproval
<1>4. CASE EndQuorum
  BY <1>0, <1>4 DEF EndQuorum, QuorumInv
<1>5. CASE Report
  BY <1>5 DEF Report
<1>6. ASSUME NEW id \in todo, CheckBase(id) \/ CheckExecution(id) \/ CheckEffect(id)
                              \/ CheckTrace(id) \/ CheckNegative(id)
      PROVE  /\ phase' = phase /\ todo' = todo \ {id} /\ quorum' = quorum
             /\ phase = "policies" => CheckBase(id)
             /\ phase = "decisions" => CheckNegative(id) /\ quorum.decision = None
             /\ phase = "executions" => CheckExecution(id)
             /\ phase = "traces" => CheckTrace(id)
  BY <1>6, <1>0 DEF CheckBase, CheckExecution, CheckEffect, CheckTrace, CheckNegative,
                    Visit, BaseSections
<1>7. ASSUME NEW id \in todo, CheckBase(id) \/ CheckExecution(id) \/ CheckEffect(id)
                              \/ CheckTrace(id) \/ CheckNegative(id)
      PROVE  /\ \A p : PolicyChecked(p)' =>
                  PolicyChecked(p) \/ (phase = "policies" /\ CheckBase(p))
             /\ \A d \in AuthorizedDecisions : DecisionChecked(d)' =>
                  DecisionChecked(d) \/ CheckNegative(d)
             /\ \A x : ExecutionChecked(x)' => ExecutionChecked(x) \/ CheckExecution(x)
             /\ \A t : TraceChecked(t)' => TraceChecked(t) \/ CheckTrace(t)
  BY <1>0, <1>6, <1>7
<1>8. ASSUME NEW id \in todo, StartQuorum(id)
      PROVE  /\ phase' = phase /\ phase = "decisions" /\ todo' = todo \ {id}
             /\ quorum'.decision = id /\ quorum.decision = None
  BY <1>0, <1>8 DEF StartQuorum, Visit
<1>9. ASSUME NEW id \in todo, StartQuorum(id)
      PROVE  /\ \A p : PolicyChecked(p)' => PolicyChecked(p)
             /\ \A d \in AuthorizedDecisions : DecisionChecked(d)' => DecisionChecked(d)
             /\ \A x : ExecutionChecked(x)' => ExecutionChecked(x)
             /\ \A t : TraceChecked(t)' => TraceChecked(t)
  BY <1>0, <1>8, <1>9
<1>10. CASE UNCHANGED vars
  BY <1>10 DEF vars
<1> QED
  BY <1>1, <1>2, <1>3, <1>4, <1>5, <1>7, <1>9, <1>10 DEF Next

\* What a list holds is its first element and what the rest holds.
LEMMA ListedHeadTail ==
  ASSUME NEW list \in Seq(STRING), list # <<>>
  PROVE  /\ Tail(list) \in Seq(STRING)
         /\ Listed(list) = {Head(list)} \cup Listed(Tail(list))
<1>1. /\ Len(list) \in Nat /\ Len(list) >= 1
      /\ Tail(list) \in Seq(STRING)
      /\ Len(Tail(list)) = Len(list) - 1
      /\ \A i \in 1..Len(Tail(list)) : Tail(list)[i] = list[i + 1]
      /\ Head(list) = list[1]
  BY HeadTailProperties, LenProperties, EmptySeq
<1>2. ASSUME NEW n \in 1..Len(list), n # 1
      PROVE  list[n] \in Listed(Tail(list))
  <2>1. n - 1 \in 1..Len(Tail(list)) /\ Tail(list)[n - 1] = list[(n - 1) + 1]
    BY <1>1, <1>2
  <2> QED
    BY <2>1 DEF Listed
<1>3. ASSUME NEW n \in 1..Len(Tail(list))
      PROVE  Tail(list)[n] \in Listed(list)
  <2>1. n + 1 \in 1..Len(list) /\ Tail(list)[n] = list[n + 1]
    BY <1>1, <1>3
  <2> QED
    BY <2>1 DEF Listed
<1>4. Head(list) \in Listed(list)
  BY <1>1 DEF Listed
<1> QED
  BY <1>1, <1>2, <1>3, <1>4 DEF Listed

\* The lists of the registry that was read, and its numbers.
LEMMA ListsAreSequences ==
  ASSUME Given
  PROVE  /\ \A p \in DOMAIN reg.policies : reg.policies[p].required_approvals \in Int
         /\ \A a \in DOMAIN reg.approvals : reg.approvals[a].path \in Seq(STRING)
         /\ \A d \in DOMAIN reg.decisions : /\ reg.decisions[d].path \in Seq(STRING)
                                            /\ reg.decisions[d].approvals \in Seq(STRING)
         /\ \A x \in DOMAIN reg.executions : reg.executions[x].path \in Seq(STRING)
BY RegistryAssumption DEF Given

\* Every step keeps what is known of the quorum being counted.
LEMMA QuorumStep == AutomationInv /\ [Next]_vars => QuorumInv'
<1> SUFFICES ASSUME AutomationInv, [Next]_vars, quorum' # NoQuorum
             PROVE  QuorumInv'
  BY DEF QuorumInv, NoQuorum
<1> /\ reg' = reg /\ TypeOK /\ Given /\ QuorumInv
    /\ errors \subseteq errors' /\ (~Failed' => ~Failed)
  BY RegistryFixed, ErrorsGrow DEF AutomationInv
<1>0. ASSUME NEW d \in AuthorizedDecisions, NEW left \in Seq(STRING), NEW seen, NEW V,
             quorum' = [decision |-> d, left |-> left, seen |-> seen, valid |-> V],
             phase' = "decisions", d \notin todo',
             ~Failed' => Found(d, left, seen, V)
      PROVE  QuorumInv'
  <2>1. /\ AuthorizedDecisions' = AuthorizedDecisions
        /\ Found(d, left, seen, V)' <=> Found(d, left, seen, V)
    BY SameRegistry
  <2>2. /\ quorum'.decision = d /\ quorum'.left = left
        /\ quorum'.seen = seen /\ quorum'.valid = V
    BY <1>0
  <2> QED
    BY <1>0, <2>1, <2>2 DEF QuorumInv
<1>1. ASSUME NEW d \in todo, StartQuorum(d) PROVE QuorumInv'
  <2>1. d \in AuthorizedDecisions /\ d \in DOMAIN reg.decisions
    BY <1>1 DEF StartQuorum, Section, Loops, TypeOK, AuthorizedDecisions
  <2>2. quorum' = [decision |-> d, left |-> reg.decisions[d].approvals,
                   seen |-> {}, valid |-> {}]
    BY <1>1 DEF StartQuorum
  <2>3. ~Failed' => Traceable(d) /\ PremisesSound(d)
    BY <1>1 DEF StartQuorum, Mark, Failed
  <2>4. Quorate(d, {})
    BY FS_EmptySet DEF Quorate
  <2>5. reg.decisions[d].approvals \in Seq(STRING)
    BY <2>1, ListsAreSequences
  <2>6. phase' = "decisions" /\ d \notin todo'
    BY <1>1 DEF StartQuorum, Visit
  <2>7. ~Failed' => Found(d, reg.decisions[d].approvals, {}, {})
    BY <2>3, <2>4 DEF Found, Refs
  <2> QED
    BY <1>0, <2>1, <2>2, <2>5, <2>6, <2>7
<1>2. CASE RefuseApproval
  <2>1. quorum # NoQuorum /\ Failed'
    BY <1>2, InQuorum DEF RefuseApproval, Failed
  <2>2. Tail(quorum.left) \in Seq(STRING)
    BY <1>2, <2>1, ListedHeadTail DEF RefuseApproval, QuorumInv
  <2>3. quorum' = [decision |-> quorum.decision, left |-> Tail(quorum.left),
                   seen |-> quorum.seen, valid |-> quorum.valid]
    BY <1>2, <2>1 DEF RefuseApproval, QuorumInv
  <2>4. /\ quorum.decision \in AuthorizedDecisions
        /\ phase' = "decisions" /\ quorum.decision \notin todo'
    BY <1>2, <2>1 DEF RefuseApproval, QuorumInv
  <2> QED
    BY <1>0, <2>1, <2>2, <2>3, <2>4
<1>3. CASE JudgeApproval
  <2> DEFINE a == Head(quorum.left)
             d == quorum.decision
             seen == quorum.seen \cup {reg.approvals[a].approver}
             valid == quorum.valid \cup IF Counts(a, d) THEN {a} ELSE {}
  <2>1. /\ quorum # NoQuorum /\ quorum.left # <<>> /\ quorum.left \in Seq(STRING)
        /\ d \in AuthorizedDecisions
    BY <1>3, InQuorum DEF JudgeApproval, QuorumInv
  <2>2. /\ Tail(quorum.left) \in Seq(STRING)
        /\ Listed(quorum.left) = {a} \cup Listed(Tail(quorum.left))
    BY <2>1, ListedHeadTail
  <2>3. quorum' = [decision |-> d, left |-> Tail(quorum.left),
                   seen |-> seen, valid |-> valid]
    <3> HIDE DEF valid
    <3>1. quorum' = [quorum EXCEPT !.left = Tail(@),
                                   !.seen = @ \cup {reg.approvals[a].approver},
                                   !.valid = valid]
      BY <1>3 DEF JudgeApproval, valid
    <3> QED
      BY <2>1, <3>1 DEF QuorumInv
  <2>4. Admissible(a) /\ phase' = "decisions" /\ d \notin todo'
    BY <1>3, <2>1 DEF JudgeApproval, QuorumInv
  <2>5. ASSUME ~Failed
        PROVE  Found(d, Tail(quorum.left), seen, valid)
    <3>1. Found(d, quorum.left, quorum.seen, quorum.valid)
      BY <2>1, <2>5 DEF QuorumInv
    <3>2. /\ a \in DOMAIN reg.approvals /\ a \in Refs(d)
          /\ reg.approvals[a].proposal = reg.decisions[d].proposal
          /\ \A b \in quorum.valid : reg.approvals[b].approver # reg.approvals[a].approver
      BY <2>2, <2>4, <3>1 DEF Admissible, RepeatsApprover, Found
    <3>3. IsFiniteSet(quorum.valid \cup {a})
      BY <3>1, FS_AddElement DEF Found, Quorate
    <3>4. Quorate(d, valid)
      BY <3>1, <3>2, <3>3 DEF Found, Quorate
    <3>5. \A b \in valid : reg.approvals[b].approver \in seen
      BY <3>1 DEF Found
    <3> HIDE DEF a, d, seen, valid
    <3> QED
      BY <2>2, <3>1, <3>2, <3>4, <3>5 DEF Found, d
  <2> HIDE DEF a, d, seen, valid
  <2> QED
    BY <1>0, <2>1, <2>2, <2>3, <2>4, <2>5
<1>4. CASE UNCHANGED vars
  <2>1. quorum' = quorum /\ phase' = phase /\ todo' = todo /\ (Failed' <=> Failed)
    BY <1>4 DEF vars, Failed
  <2> QED
    BY <1>0, <2>1 DEF QuorumInv
<1>5. CASE Load \/ EndLoop \/ EndQuorum \/ Report
  BY <1>5 DEF Load, EndLoop, EndQuorum, Report, QuorumInv, Enter
<1>6. ASSUME NEW id \in todo, CheckBase(id) \/ CheckNegative(id) \/ CheckExecution(id)
                              \/ CheckEffect(id) \/ CheckTrace(id)
      PROVE  FALSE
  BY <1>6 DEF CheckBase, CheckNegative, CheckExecution, CheckEffect, CheckTrace, Visit
<1> QED
  BY <1>1, <1>2, <1>3, <1>4, <1>5, <1>6 DEF Next

\* ... of the decisions taken to be authorized,
LEMMA AuthorizedStep == AutomationInv /\ [Next]_vars => AuthorizedInv'
<1> SUFFICES ASSUME AutomationInv, [Next]_vars PROVE AuthorizedInv'
  OBVIOUS
<1>1. AuthorizedDecisions' = AuthorizedDecisions
  BY RegistryFixed, SameRegistry
<1>2. authorized' \subseteq authorized
        \cup IF EndQuorum THEN {quorum.decision} ELSE {}
  BY DEF Next, vars, Load, EndLoop, RefuseApproval, JudgeApproval, EndQuorum, Report,
         CheckBase, CheckNegative, StartQuorum, CheckExecution, CheckEffect, CheckTrace
<1>3. EndQuorum => quorum.decision \in AuthorizedDecisions
  BY InQuorum DEF AutomationInv, QuorumInv
<1> QED
  BY <1>1, <1>2, <1>3 DEF AutomationInv, AuthorizedInv

\* ... of the records looked at so far,
LEMMA RecordsCleanStep == AutomationInv /\ [Next]_vars => RecordsClean'
<1> SUFFICES ASSUME AutomationInv, [Next]_vars, ~Failed' PROVE RecordsClean'
  BY DEF RecordsClean
<1> /\ reg' = reg /\ ~Failed /\ errors' = {}
    /\ TypeOK /\ QuorumInv /\ AuthorizedInv /\ RecordsClean
  BY RegistryFixed, ErrorsGrow DEF AutomationInv, Failed
<1>0. /\ AuthorizedDecisions' = AuthorizedDecisions
      /\ \A p \in DOMAIN reg.policies : PolicySound(p)' <=> PolicySound(p)
      /\ \A d : DecisionClean(d)' <=> DecisionClean(d)
      /\ \A x : ExecutionClean(x)' <=> ExecutionClean(x)
      /\ \A t : TraceClean(t)' <=> TraceClean(t)
  BY SameRegistry
<1>1. ASSUME NEW p \in DOMAIN reg.policies, PolicyChecked(p)'
      PROVE  PolicySound(p)
  <2>1. CASE PolicyChecked(p)
    BY <2>1 DEF RecordsClean
  <2>2. CASE phase = "policies" /\ CheckBase(p)
    BY <2>2 DEF CheckBase, RecordErrors, Mark
  <2> QED
    BY <1>1, <2>1, <2>2, NewlyChecked
<1>2. ASSUME NEW d \in AuthorizedDecisions, DecisionChecked(d)'
      PROVE  DecisionClean(d)
  <2>1. CASE DecisionChecked(d)
    BY <2>1 DEF RecordsClean
  <2>2. CASE EndQuorum /\ quorum.decision = d
    <3>1. /\ quorum # NoQuorum /\ quorum.left = <<>>
          /\ Traceable(d) /\ PremisesSound(d) /\ Quorate(d, quorum.valid)
          /\ Refs(d) \subseteq Listed(quorum.left) \cup DOMAIN reg.approvals
      BY <2>2, InQuorum DEF EndQuorum, QuorumInv, Found
    <3>2. Listed(quorum.left) = {}
      BY <3>1 DEF Listed
    <3>3. QuorumMet
      BY <2>2 DEF EndQuorum, Mark
    <3>4. Cardinality(quorum.valid) >= Policy(d).required_approvals
      BY <2>2, <3>3 DEF QuorumMet, Policy
    <3> QED
      BY <3>1, <3>2, <3>4 DEF DecisionClean
  <2>3. CASE CheckNegative(d)
    <3>1. Traceable(d)
      BY <2>3 DEF CheckNegative, Mark
    <3> QED
      BY <1>2, <2>3, <3>1 DEF CheckNegative, AuthorizedDecisions
  <2> QED
    BY <1>2, <2>1, <2>2, <2>3, NewlyChecked
<1>3. ASSUME NEW x \in DOMAIN reg.executions, ExecutionChecked(x)'
      PROVE  ExecutionClean(x)
  <2>1. CASE ExecutionChecked(x)
    BY <2>1 DEF RecordsClean
  <2>2. CASE CheckExecution(x)
    <3>1. ExecutionSound(x)
      BY <2>2 DEF CheckExecution, ExecutionErrors, Mark
    <3> QED
      BY <3>1 DEF ExecutionSound, ExecutionClean, AuthorizedInv, Proposal, Policy
  <2> QED
    BY <1>3, <2>1, <2>2, NewlyChecked
<1>4. ASSUME NEW t \in DOMAIN reg.traces, TraceChecked(t)'
      PROVE  TraceClean(t)
  <2>1. CASE TraceChecked(t)
    BY <2>1 DEF RecordsClean
  <2>2. CASE CheckTrace(t)
    <3>1. reg.traces[t].state = "trace-complete" => TraceSound(t)
      BY <2>2 DEF CheckTrace, TraceErrors, Mark
    <3> QED
      BY <3>1 DEF TraceSound, TraceClean, AuthorizedInv, TypeOK
  <2> QED
    BY <1>4, <2>1, <2>2, NewlyChecked
<1> QED
  BY <1>0, <1>1, <1>2, <1>3, <1>4 DEF RecordsClean

\* ... and of the report.
LEMMA ReportHonestStep == AutomationInv /\ [Next]_vars => ReportHonest'
<1> SUFFICES ASSUME AutomationInv, [Next]_vars PROVE ReportHonest'
  OBVIOUS
<1> TypeOK /\ ReportHonest
  BY DEF AutomationInv
<1>1. CASE Report
  BY <1>1 DEF ReportHonest, Report, Failed
<1>2. CASE phase = "done"
  <2>1. todo = {}
    BY <1>2 DEF TypeOK, Section, Loops, BaseSections
  <2>2. ~(RefuseApproval \/ JudgeApproval \/ EndQuorum)
    BY <1>2, InQuorum DEF TypeOK
  <2>3. UNCHANGED vars
    BY <1>2, <2>1, <2>2 DEF Next, Load, EndLoop, Report, Loops, BaseSections
  <2> QED
    BY <2>3 DEF ReportHonest, vars, Failed
<1>3. CASE ~Report /\ phase # "done"
  <2>1. report' = report
    BY <1>3 DEF Next, vars, Load, EndLoop, RefuseApproval, JudgeApproval, EndQuorum,
                Visit, CheckBase, CheckNegative, StartQuorum, CheckExecution,
                CheckEffect, CheckTrace
  <2> QED
    BY <1>3, <2>1 DEF ReportHonest
<1> QED
  BY <1>1, <1>2, <1>3

\* The invariant holds in the initial states.
LEMMA InitInv == Init => AutomationInv
<1> SUFFICES ASSUME Init PROVE AutomationInv
  OBVIOUS
<1>1. TypeOK
  BY DEF Init, TypeOK, Phases, Loops, BaseSections, Section
<1>2. Given /\ QuorumInv /\ AuthorizedInv /\ ReportHonest
  BY DEF Init, Given, QuorumInv, AuthorizedInv, ReportHonest
<1>3. RecordsClean
  BY DEF Init, RecordsClean, PolicyChecked, DecisionChecked, ExecutionChecked,
         TraceChecked, PastPolicies, PastDecisions, PastExecutions, PastTraces
<1> QED
  BY <1>1, <1>2, <1>3 DEF AutomationInv

\* Every step keeps it.
LEMMA InvStep == AutomationInv /\ [Next]_vars => AutomationInv'
<1> SUFFICES ASSUME AutomationInv, [Next]_vars PROVE AutomationInv'
  OBVIOUS
<1>1. TypeOK' /\ Given'
  BY TypeStep, GivenStep DEF AutomationInv
<1>2. QuorumInv' /\ AuthorizedInv' /\ RecordsClean' /\ ReportHonest'
  BY QuorumStep, AuthorizedStep, RecordsCleanStep, ReportHonestStep
<1> QED
  BY <1>1, <1>2 DEF AutomationInv

(***************************************************************************)
(* Every reachable state of a run satisfies the inductive invariant.       *)
(***************************************************************************)
THEOREM InvariantHolds == Spec => []AutomationInv
BY InitInv, InvStep, PTL DEF Spec

(***************************************************************************)
(* The loops visit ids of their own sections, the approvals of a decision  *)
(* are judged within its loop, and the results are those run() can name.   *)
(***************************************************************************)
THEOREM TypeCorrect == Spec => []TypeOK
<1>1. AutomationInv => TypeOK
  BY DEF AutomationInv
<1> QED
  BY <1>1, InvariantHolds, PTL

-----------------------------------------------------------------------------
(* What a conformant registry is. *)

\* With no finding and all loops done, every record is what its loop asks for.
LEMMA ConformantIsClean ==
  ASSUME AutomationInv, Conformant
  PROVE  /\ \A p \in DOMAIN reg.policies : PolicySound(p)
         /\ \A d \in AuthorizedDecisions : DecisionClean(d)
         /\ \A x \in DOMAIN reg.executions : ExecutionClean(x)
         /\ \A t \in DOMAIN reg.traces : TraceClean(t)
         /\ Given
BY DEF AutomationInv, Conformant, ReportHonest, RecordsClean, PolicyChecked,
       DecisionChecked, ExecutionChecked, TraceChecked, PastPolicies, PastDecisions,
       PastExecutions, PastTraces

(***************************************************************************)
(* In a conformant registry of any size, whoever acts or executes has the  *)
(* scope from an active root, over active delegations of that scope.       *)
(***************************************************************************)
THEOREM Rooted == Spec => []AuthorityHasRoot
<1>1. AutomationInv => AuthorityHasRoot
  <2> SUFFICES ASSUME AutomationInv, Conformant
               PROVE  /\ \A d \in AuthorizedDecisions :
                           Grounded(Proposal(d).actor, Proposal(d).scope)
                      /\ \A x \in DOMAIN reg.executions :
                           Grounded(reg.executions[x].executor,
                                    Proposal(reg.executions[x].decision).scope)
    BY DEF AuthorityHasRoot
  <2>1. ASSUME NEW d \in AuthorizedDecisions
        PROVE  Grounded(Proposal(d).actor, Proposal(d).scope)
    <3>1. Authority(Proposal(d).actor, Proposal(d).scope, reg.decisions[d],
                    Policy(d).max_delegation_depth)
      BY ConformantIsClean DEF DecisionClean, PremisesSound, ActorAuthority, Proposal,
                               Policy
    <3>2. reg.decisions[d].path \in Seq(STRING)
      BY ConformantIsClean, ListsAreSequences DEF AuthorizedDecisions
    <3> QED
      BY <3>1, <3>2, AuthorityIsGrounded
  <2>2. ASSUME NEW x \in DOMAIN reg.executions
        PROVE  Grounded(reg.executions[x].executor,
                        Proposal(reg.executions[x].decision).scope)
    <3>1. Authority(reg.executions[x].executor,
                    Proposal(reg.executions[x].decision).scope, reg.executions[x],
                    Policy(reg.executions[x].decision).max_delegation_depth)
      BY ConformantIsClean DEF ExecutionClean
    <3>2. reg.executions[x].path \in Seq(STRING)
      BY ConformantIsClean, ListsAreSequences
    <3> QED
      BY <3>1, <3>2, AuthorityIsGrounded
  <2> QED
    BY <2>1, <2>2
<1> QED
  BY <1>1, InvariantHolds, PTL

\* An approval the checker counts was given by an admitted approver.
LEMMA CountedIsApprover ==
  ASSUME AutomationInv, Conformant, NEW d \in AuthorizedDecisions,
         NEW V, Quorate(d, V), NEW a \in V
  PROVE  reg.approvals[a].approver \in Approvers(d)
<1>1. /\ a \in Refs(d) /\ a \in DOMAIN reg.approvals
      /\ reg.approvals[a].proposal = reg.decisions[d].proposal
      /\ Counts(a, d)
  BY DEF Quorate
<1>2. reg.approvals[a].revisions = reg.decisions[d].revisions
  BY <1>1, ConformantIsClean
     DEF Counts, ApprovalFits, DecisionClean, PremisesSound, BoundToCurrent
<1>3. reg.approvals[a].path \in Seq(STRING)
  BY <1>1, ConformantIsClean, ListsAreSequences
<1>4. Grounded(reg.approvals[a].approver, Policy(d).approval_scope)
  BY <1>1, <1>3, AuthorityIsGrounded DEF Counts, ApprovalAuthority, Policy
<1>5. \/ Policy(d).allow_self_approval
      \/ reg.approvals[a].approver \notin {Proposal(d).actor, Proposal(d).executor}
  BY <1>1 DEF Counts, ApprovalFits, Policy, Proposal
<1> QED
  BY <1>1, <1>2, <1>4, <1>5 DEF Approvers, Refs, Counts

\* The approvers that a list names are finitely many.
LEMMA ApproversAreFinite ==
  ASSUME Given, NEW d \in DOMAIN reg.decisions
  PROVE  IsFiniteSet(Approvers(d))
<1> DEFINE list == reg.decisions[d].approvals
           indices == 1..Len(list)
           f == [n \in indices |-> reg.approvals[list[n]].approver]
           T == {f[n] : n \in indices}
<1>1. Len(list) \in Nat
  BY ListsAreSequences
<1>2. IsFiniteSet(indices)
  BY <1>1, FS_Interval
<1>3. f \in Surjection(indices, T)
  BY DEF Surjection
<1> HIDE DEF list, indices, f, T
<1>4. IsFiniteSet(T)
  BY <1>2, <1>3, FS_Surjection
<1>5. Approvers(d) \subseteq T
  BY DEF Approvers, Listed, list, indices, f, T
<1> QED
  BY <1>4, <1>5, FS_Subset

(***************************************************************************)
(* An authorized decision of a conformant registry of any size has as many *)
(* different approvers as its policy requires.                             *)
(***************************************************************************)
THEOREM Quorums == Spec => []QuorumOfPrincipals
<1>1. AutomationInv => QuorumOfPrincipals
  <2> SUFFICES ASSUME AutomationInv, Conformant, NEW d \in AuthorizedDecisions
               PROVE  Cardinality(Approvers(d)) >= Policy(d).required_approvals
    BY DEF QuorumOfPrincipals
  <2>1. DecisionClean(d)
    BY ConformantIsClean
  <2>2. PICK V : Quorate(d, V) /\ Cardinality(V) >= Policy(d).required_approvals
    BY <2>1 DEF DecisionClean
  <2> DEFINE f == [a \in V |-> reg.approvals[a].approver]
  <2>3. f \in Injection(V, Approvers(d))
    <3>1. f \in [V -> Approvers(d)]
      BY <2>2, CountedIsApprover
    <3>2. \A a, b \in V : f[a] = f[b] => a = b
      BY <2>2 DEF Quorate
    <3> QED
      BY <3>1, <3>2 DEF Injection, IsInjective
  <2>4. IsFiniteSet(Approvers(d))
    BY ConformantIsClean, ApproversAreFinite DEF AuthorizedDecisions
  <2>5. IsFiniteSet(V) /\ Cardinality(V) <= Cardinality(Approvers(d))
    BY <2>3, <2>4, FS_Injection
  <2>6. Cardinality(V) \in Nat /\ Cardinality(Approvers(d)) \in Nat
    BY <2>4, <2>5, FS_CardinalityType
  <2>7. Policy(d).required_approvals \in Int
    BY <2>1, ConformantIsClean, ListsAreSequences DEF DecisionClean, Traceable, Policy
  <2> QED
    BY <2>2, <2>5, <2>6, <2>7
<1> QED
  BY <1>1, InvariantHolds, PTL

(***************************************************************************)
(* A required E9 context is always one whose state the policy lists.       *)
(***************************************************************************)
THEOREM ContextAdmitted == Spec => []ContextIsAdmitted
<1>1. AutomationInv => ContextIsAdmitted
  <2> SUFFICES ASSUME AutomationInv, Conformant, NEW d \in AuthorizedDecisions,
                      Policy(d).require_e9_context
               PROVE  LET e9 == reg.contexts[reg.decisions[d].context].e9
                      IN  e9 \in DOMAIN reg.e9 /\ reg.e9[e9] \in Policy(d).allowed_e9_states
    BY DEF ContextIsAdmitted
  <2>1. E9Admits(d) /\ reg.decisions[d].policy \in DOMAIN reg.policies
    BY ConformantIsClean DEF DecisionClean, PremisesSound, Traceable
  <2>2. Policy(d).allowed_e9_states # {}
    BY <2>1, ConformantIsClean DEF PolicySound, Policy
  <2> QED
    BY <2>1, <2>2 DEF E9Admits, Policy
<1> QED
  BY <1>1, InvariantHolds, PTL

(***************************************************************************)
(* A complete trace of a conformant registry of any size is one chain from *)
(* an effect to an authorized decision, and names everybody on it.         *)
(***************************************************************************)
THEOREM TracesComplete == Spec => []TraceIsComplete
<1>1. AutomationInv => TraceIsComplete
  <2> SUFFICES ASSUME AutomationInv, Conformant,
                      NEW t \in DOMAIN reg.traces, reg.traces[t].state = "trace-complete"
               PROVE  LET trace == reg.traces[t]
                          execution == reg.executions[reg.effects[trace.effect].execution]
                      IN  /\ reg.effects[trace.effect].execution = trace.execution
                          /\ execution.decision = trace.decision
                          /\ trace.decision \in AuthorizedDecisions
                          /\ execution.executor = Proposal(trace.decision).executor
                          /\ Approvers(trace.decision)
                               \cup {execution.executor, Proposal(trace.decision).actor}
                               \subseteq trace.participants
    BY DEF TraceIsComplete
  <2> DEFINE trace == reg.traces[t]
  <2>1. /\ trace.decision \in AuthorizedDecisions
        /\ trace.execution \in DOMAIN reg.executions
        /\ OneChain(t)
        /\ Concerned(t) \subseteq trace.participants
    BY ConformantIsClean DEF TraceClean
  <2>2. ExecutionClean(trace.execution) /\ DecisionClean(trace.decision)
    BY <2>1, ConformantIsClean
  <2>3. Approvers(trace.decision) \subseteq Concerned(t)
    BY <2>2 DEF DecisionClean, Approvers, Concerned, Refs
  <2> QED
    BY <2>1, <2>2, <2>3 DEF OneChain, ExecutionClean, Concerned, Proposal
<1> QED
  BY <1>1, InvariantHolds, PTL

-----------------------------------------------------------------------------
(***************************************************************************)
(* Both programs.  What the profile records against a decision is that it  *)
(* is off the boundary of its proposal, and it misses no decision.         *)
(***************************************************************************)
OnBoundary(d) == References(d) /\ BoundDecision(d)

Compared(d) == h_phase = "done" \/ (h_phase = "decisions" /\ d \notin h_todo)

HardeningInv ==
  /\ AutomationInv
  /\ h_phase \in HPhases
  /\ h_phase = "baseline" => h_errors = {}
  /\ \A d \in DOMAIN reg.decisions :
       /\ <<"decisions", d>> \in h_errors => ~OnBoundary(d)
       /\ h_errors = {} /\ Compared(d) => OnBoundary(d)
  /\ h_report.structural = "conformant" => h_phase = "done" /\ h_errors = {}

\* The profile starts with the base program, and with nothing found.
LEMMA HardeningStarts == HInit => HardeningInv
<1> SUFFICES ASSUME HInit PROVE HardeningInv
  OBVIOUS
<1>1. AutomationInv
  BY InitInv DEF HInit
<1> QED
  BY <1>1 DEF HInit, HardeningInv, HPhases, Compared

\* A step of the profile leaves the registry, and what the baseline found, alone.
LEMMA BaselineKept ==
  ASSUME AutomationInv, [Next]_vars
  PROVE  /\ AutomationInv' /\ reg' = reg
         /\ \A d : OnBoundary(d)' <=> OnBoundary(d)
<1>1. AutomationInv' /\ reg' = reg
  BY InvStep, RegistryFixed
<1> QED
  BY <1>1 DEF OnBoundary, References, BoundDecision, Current

\* Every step of either program keeps the invariant of both.
LEMMA HardeningStep == HardeningInv /\ [HNext]_<<vars, h_vars>> => HardeningInv'
<1> SUFFICES ASSUME HardeningInv, [HNext]_<<vars, h_vars>> PROVE HardeningInv'
  OBVIOUS
<1> USE DEF HardeningInv, HPhases, Compared
<1>1. [Next]_vars
  BY DEF HNext, BaselineStep, HLoad, CheckBoundary, HReport, h_vars
<1>2. /\ AutomationInv' /\ reg' = reg
      /\ \A d : OnBoundary(d)' <=> OnBoundary(d)
  BY <1>1, BaselineKept
<1>3. CASE BaselineStep
  BY <1>2, <1>3 DEF BaselineStep, h_vars
<1>4. CASE HLoad
  BY <1>2, <1>4 DEF HLoad, Mark, RegistryFile
<1>5. ASSUME NEW d \in h_todo, CheckBoundary(d) PROVE HardeningInv'
  <2>1. /\ h_phase = "decisions" /\ h_phase' = h_phase /\ h_todo' = h_todo \ {d}
        /\ h_report' = h_report
        /\ h_errors' = h_errors \cup IF OnBoundary(d) THEN {} ELSE {<<"decisions", d>>}
    BY <1>5 DEF CheckBoundary, Mark, OnBoundary
  <2> QED
    BY <1>2, <2>1
<1>6. CASE HReport
  BY <1>2, <1>6 DEF HReport
<1>7. CASE UNCHANGED <<vars, h_vars>>
  BY <1>2, <1>7 DEF h_vars
<1> QED
  BY <1>3, <1>4, <1>5, <1>6, <1>7 DEF HNext

\* The invariant of both programs holds throughout.
LEMMA HardeningHolds == HSpec => []HardeningInv
BY HardeningStarts, HardeningStep, PTL DEF HSpec

(***************************************************************************)
(* In a registry of any size that the baseline accepts, the profile        *)
(* objects to no decision that authorizes anything.                        *)
(***************************************************************************)
THEOREM OnlyNegatives == HSpec => []OnlyNegativesAreAdded
<1>1. HardeningInv => OnlyNegativesAreAdded
  <2> SUFFICES ASSUME HardeningInv, Conformant, NEW d \in AuthorizedDecisions
               PROVE  <<"decisions", d>> \notin h_errors
    BY DEF OnlyNegativesAreAdded
  <2>1. DecisionClean(d)
    BY ConformantIsClean DEF HardeningInv
  <2>2. OnBoundary(d)
    BY <2>1 DEF DecisionClean, Traceable, PremisesSound, BoundToCurrent, OnProposal,
                OnBoundary, References, BoundDecision
  <2> QED
    BY <2>2 DEF HardeningInv, AuthorizedDecisions
<1> QED
  BY <1>1, HardeningHolds, PTL

(***************************************************************************)
(* In a registry of any size that both programs accept, two decisions      *)
(* about one proposal name one boundary and one set of revisions.          *)
(***************************************************************************)
THEOREM OneBoundary == HSpec => []OneBoundaryPerProposal
<1>1. HardeningInv => OneBoundaryPerProposal
  <2> SUFFICES ASSUME HardeningInv, HConformant,
                      NEW d \in DOMAIN reg.decisions, NEW e \in DOMAIN reg.decisions,
                      reg.decisions[d].proposal = reg.decisions[e].proposal
               PROVE  /\ reg.decisions[d].policy = reg.decisions[e].policy
                      /\ reg.decisions[d].context = reg.decisions[e].context
                      /\ reg.decisions[d].revisions = reg.decisions[e].revisions
    BY DEF OneBoundaryPerProposal
  <2>1. BoundDecision(d) /\ BoundDecision(e)
    BY DEF HardeningInv, HConformant, Compared, OnBoundary
  <2> QED
    BY <2>1 DEF BoundDecision
<1> QED
  BY <1>1, HardeningHolds, PTL
==============================================================================
