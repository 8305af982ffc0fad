----------------------------- MODULE PolicyProofs ------------------------------
(***************************************************************************)
(* Theorems about the E13 checker, and about the checker and its hardening *)
(* profile run one after the other, for every set of files and every       *)
(* registry they may hold.                                                 *)
(***************************************************************************)
EXTENDS PolicyHardening, NaturalFacts, FiniteSetTheorems, FunctionTheorems,
        SequenceTheorems, TLAPS

-----------------------------------------------------------------------------
(***************************************************************************)
(* The inductive invariant: whatever a loop has visited either left an     *)
(* error behind or is what the loop asks for.                              *)
(***************************************************************************)
PastDecisions == {"report", "done"}
PastEvaluations == {"decisions"} \cup PastDecisions
PastExceptions == {"evaluations"} \cup PastEvaluations
PastRequests == {"obligations", "exceptions"} \cup PastExceptions
PastProfiles == {"requests"} \cup PastRequests

ProfileChecked(p) == phase \in PastProfiles \/ (phase = "profiles" /\ p \notin todo)
ExceptionChecked(x) ==
  phase \in PastExceptions \/ (phase = "exceptions" /\ x \notin todo)
EvaluationChecked(e) ==
  phase \in PastEvaluations \/ (phase = "evaluations" /\ e \notin todo)
DecisionChecked(d) ==
  phase \in PastDecisions \/ (phase = "decisions" /\ d \notin todo)

\* What is left of DecisionSound once the request has met its decision.
DecisionClean(d) ==
  /\ Derivable(d)
  /\ reg.requests[reg.decisions[d].request].profile = reg.decisions[d].profile
  /\ reg.decisions[d].state = Derived(d)

EvaluationClean(e) ==
  /\ reg.evaluations[e].state \in {"satisfied", "failed"} =>
       reg.evaluations[e].evidence = "ok"
  /\ reg.evaluations[e].state = "waived" => WaiverBound(e)

Given == /\ \E f \in Files : reg = RegistryIn(f)
         /\ phase = "load" => errors = {}

RequestsInv == \A r \in valid_requests : r \in Requests /\ RequestSound(r)

ExceptionsInv ==
  /\ \A x \in Exceptions :
       ExceptionChecked(x) /\ Resolves(reg.exceptions[x]) /\ Active(x) => x \in active_for
  /\ \A x \in valid_exceptions : ExceptionChecked(x) /\ Active(x)
  /\ ~Failed => \A x \in Exceptions : ExceptionChecked(x) => ExceptionErrors(x) = {}
  /\ ~Failed /\ phase \in PastExceptions => MultiplyWaived = {}

EvaluationsInv ==
  /\ \A e, f \in eval_by_key : Key(e) = Key(f) => e = f
  /\ \A e \in eval_by_key : EvaluationChecked(e)
  /\ ~Failed => \A e \in Evaluations :
       EvaluationChecked(e) => e \in eval_by_key /\ EvaluationClean(e)

DecisionsInv ==
  ~Failed =>
    \A d \in Decisions : DecisionChecked(d) =>
      /\ DecisionClean(d)
      /\ reg.decisions[d].request \in seen_req
      /\ \A e \in Decisions :
           DecisionChecked(e) /\ reg.decisions[e].request = reg.decisions[d].request => e = d

ProfilesInv == ~Failed => \A p \in Profiles : ProfileChecked(p) => ProfileSound(p)

ReportHonest == report.structural = "conformant" => phase = "done" /\ ~Failed

PolicyInv == /\ TypeOK
             /\ Given
             /\ ProfilesInv
             /\ RequestsInv
             /\ ExceptionsInv
             /\ EvaluationsInv
             /\ DecisionsInv
             /\ ReportHonest

-----------------------------------------------------------------------------
(* Facts about single steps. *)

\* The checker never writes the registry it checks, and each set it keeps is
\* written by the loop over one section only.
LEMMA Frozen ==
  ASSUME [Next]_vars
  PROVE  /\ reg' = reg
         /\ phase # "requests" => valid_requests' = valid_requests
         /\ phase # "exceptions" => /\ valid_exceptions' = valid_exceptions
                                    /\ active_for' = active_for
         /\ phase # "evaluations" => eval_by_key' = eval_by_key
         /\ phase # "decisions" => seen_req' = seen_req
BY DEF Next, vars, Load, EndLoop, Report, Visit, CheckProfile, CheckRequest,
       CheckObligation, CheckException, CheckEvaluation, CheckDecision

\* No step takes a finding back.
LEMMA ErrorsGrow ==
  ASSUME Given, [Next]_vars
  PROVE  ~Failed' => ~Failed
BY DEF Given, Failed, Next, vars, Load, EndLoop, Report, Visit, CheckProfile,
       CheckRequest, CheckObligation, CheckException, CheckEvaluation, CheckDecision

\* What is said of records depends on the registry alone.
LEMMA SameRegistry ==
  ASSUME reg' = reg
  PROVE  /\ \A p : Section(p)' = Section(p)
         /\ \A p : ProfileSound(p)' <=> ProfileSound(p)
         /\ \A r : RequestSound(r)' <=> RequestSound(r)
         /\ \A x : ExceptionErrors(x)' = ExceptionErrors(x)
         /\ \A x : About(x)' = About(x) /\ (Active(x)' <=> Active(x))
         /\ \A e : Key(e)' = Key(e)
         /\ \A rec : Resolves(rec)' <=> Resolves(rec)
         /\ \A d : Bound(d)' <=> Bound(d)
         /\ \A r, p : DeriveBase(r, p)' = DeriveBase(r, p)
         /\ \A r : Due(r)' = Due(r)
<1> USE DEF Profiles, Requests, Obligations, Exceptions, Evaluations, Decisions
<1>1. \A p : Section(p)' = Section(p)
  BY DEF Section
<1>2. \A p : MembersOf(p)' = MembersOf(p)
  BY DEF MembersOf, Positions
<1>3. \A p : MemberPolicies(p)' = MemberPolicies(p)
  BY <1>2 DEF MemberPolicies
<1>4. \A p : ProfileSound(p)' <=> ProfileSound(p)
  BY <1>2, <1>3 DEF ProfileSound, Positions
<1>5. \A r : Resolved(r)' = Resolved(r)
  BY DEF Resolved, Positions
<1>6. \A r, i : E10Decision(r, i)' = E10Decision(r, i)
  BY DEF E10Decision
<1>7. \A r : Selected(r)' = Selected(r)
  BY <1>5, <1>6 DEF Selected
<1>8. \A r, p : SelectedOf(r, p)' = SelectedOf(r, p)
  BY <1>3, <1>6, <1>7 DEF SelectedOf
<1>9. \A r : RequestSound(r)' <=> RequestSound(r)
  BY <1>3, <1>5, <1>6 DEF RequestSound, UpstreamBound, PolicyRevision,
                          OneDecisionPerPolicy, Positions
<1>10. \A x : Active(x)' <=> Active(x)
  BY DEF Active
<1>11. \A rec : Resolves(rec)' <=> Resolves(rec)
  BY DEF Resolves
<1>12. \A x : ExceptionErrors(x)' = ExceptionErrors(x)
  BY <1>10, <1>11 DEF ExceptionErrors, OfOneProfile, WaiversAllowed, WaiverAuthorized,
                      EvidenceErrors, Mark
<1>13. \A r, p, i : Priority(r, p, i)' = Priority(r, p, i)
  BY <1>2, <1>6 DEF Priority
<1>14. \A r, p : First(r, p)' = First(r, p)
  BY <1>8, <1>13 DEF First, Ranked
<1>15. \A r, p : Combine(r, p)' = Combine(r, p)
  BY <1>6, <1>8, <1>14 DEF Combine, States
<1>16. \A r, p : Complete(r, p)' <=> Complete(r, p)
  BY <1>2, <1>6, <1>8 DEF Complete
<1>17. \A r, p : DeriveBase(r, p)' = DeriveBase(r, p)
  BY <1>6, <1>8, <1>15, <1>16 DEF DeriveBase, States
<1>18. \A r, o : Triggered(r, o)' <=> Triggered(r, o)
  BY <1>6, <1>7 DEF Triggered
<1>19. \A r : Due(r)' = Due(r)
  BY <1>18 DEF Due
<1>20. \A d : Bound(d)' <=> Bound(d)
  BY DEF Bound
<1>21. (\A x : About(x)' = About(x)) /\ \A e : Key(e)' = Key(e)
  BY DEF About, Key
<1> QED
  BY <1>1, <1>4, <1>9, <1>10, <1>11, <1>12, <1>17, <1>19, <1>20, <1>21

\* What is said of a checked decision depends on the sets of earlier loops too.
LEMMA SameSets ==
  ASSUME reg' = reg, eval_by_key' = eval_by_key, valid_requests' = valid_requests
  PROVE  \A d : DecisionClean(d)' <=> DecisionClean(d)
<1>1. \A r, o : Discharged(r, o)' <=> Discharged(r, o)
  BY DEF Discharged, Key
<1>2. \A r : Outstanding(r)' = Outstanding(r)
  BY <1>1, SameRegistry DEF Outstanding
<1>3. \A r : Blockers(r)' = Blockers(r)
  BY <1>2 DEF Blockers
<1>4. \A d : Derived(d)' = Derived(d)
  BY <1>3, SameRegistry DEF Derived
<1> QED
  BY <1>4, SameRegistry DEF DecisionClean, Derivable

\* Every step keeps the types.
LEMMA TypeStep == TypeOK /\ [Next]_vars => TypeOK'
<1> SUFFICES ASSUME TypeOK, [Next]_vars PROVE TypeOK'
  OBVIOUS
<1> reg' = reg /\ \A p : Section(p)' = Section(p)
  BY Frozen, SameRegistry
<1> /\ Profiles' = Profiles /\ Requests' = Requests /\ Obligations' = Obligations
    /\ Exceptions' = Exceptions /\ Evaluations' = Evaluations /\ Decisions' = Decisions
  BY DEF Profiles, Requests, Obligations, Exceptions, Evaluations, Decisions
<1> USE DEF TypeOK
<1>1. CASE Load
  BY <1>1 DEF Load, Enter, Phases
<1>2. CASE EndLoop
  <2>1. After(phase) \in Phases
    BY DEF After, Phases
  <2> QED
    BY <1>2, <2>1 DEF EndLoop, Enter
<1>3. CASE Report
  <2>1. report' \in Results
    BY <1>3 DEF Report, Cap, Results, Capability
  <2>2. Section("done") = Section("report")
    BY DEF Section
  <2> QED
    BY <1>3, <2>1, <2>2 DEF Report, Phases
<1>4. ASSUME NEW id \in todo, CheckProfile(id) \/ CheckObligation(id) PROVE TypeOK'
  BY <1>4 DEF CheckProfile, CheckObligation, Visit
<1>5. ASSUME NEW id \in todo, CheckRequest(id) PROVE TypeOK'
  BY <1>5 DEF CheckRequest, Visit, Section
<1>6. ASSUME NEW id \in todo, CheckException(id) PROVE TypeOK'
  <2>1. \A y : Active(y) /\ <<"exception", y>> \notin ExceptionErrors(y)
          => Resolves(reg.exceptions[y])
    BY DEF ExceptionErrors, Mark
  <2> QED
    BY <1>6, <2>1 DEF CheckException, Visit, Section
<1>7. ASSUME NEW id \in todo, CheckEvaluation(id) PROVE TypeOK'
  BY <1>7 DEF CheckEvaluation, Visit, Section
<1>8. ASSUME NEW id \in todo, CheckDecision(id) PROVE TypeOK'
  <2>1. id \in Decisions
    BY <1>8 DEF CheckDecision, Visit, Section
  <2>2. seen_req' \subseteq Requests
    BY <1>8 DEF CheckDecision, Bound
  <2>3. residual' \subseteq Decisions \X Obligations
    <3>1. {id} \X (Outstanding(reg.decisions[id].request)
                     \ Blockers(reg.decisions[id].request)) \subseteq Decisions \X Obligations
      BY <2>1 DEF Outstanding, Due
    <3> QED
      BY <1>8, <3>1 DEF CheckDecision
  <2> QED
    BY <1>8, <2>1, <2>2, <2>3 DEF CheckDecision, Visit
<1>9. CASE UNCHANGED vars
  BY <1>9 DEF vars
<1> QED
  BY <1>1, <1>2, <1>3, <1>4, <1>5, <1>6, <1>7, <1>8, <1>9 DEF Next

\* Every step leaves the registry as it was read.
LEMMA GivenStep == Given /\ [Next]_vars => Given'
<1> SUFFICES ASSUME Given, [Next]_vars PROVE Given'
  OBVIOUS
<1>1. phase' = "load" => phase = "load" /\ errors' = errors
  BY DEF Next, vars, Load, EndLoop, Report, Enter, After, Visit, CheckProfile,
         CheckRequest, CheckObligation, CheckException, CheckEvaluation, CheckDecision
<1> QED
  BY <1>1, Frozen DEF Given

\* A record is newly checked only by the action of its loop.
LEMMA NewlyChecked ==
  ASSUME TypeOK, [Next]_vars
  PROVE  /\ \A p \in Profiles : ProfileChecked(p)' => ProfileChecked(p) \/ CheckProfile(p)
         /\ \A x \in Exceptions :
              ExceptionChecked(x)' => ExceptionChecked(x) \/ CheckException(x)
         /\ \A e \in Evaluations :
              EvaluationChecked(e)' => EvaluationChecked(e) \/ CheckEvaluation(e)
         /\ \A d \in Decisions :
              DecisionChecked(d)' => DecisionChecked(d) \/ CheckDecision(d)
<1> USE DEF ProfileChecked, ExceptionChecked, EvaluationChecked, DecisionChecked,
            PastProfiles, PastRequests, PastExceptions, PastEvaluations, PastDecisions
<1> reg' = reg /\ \A p : Section(p)' = Section(p)
  BY Frozen, SameRegistry
<1>1. CASE Load \/ Report
  BY <1>1 DEF Load, Report, Enter, Section
<1>2. CASE EndLoop
  BY <1>2 DEF EndLoop, Enter, After, Section, Phases
<1>3. ASSUME NEW id \in todo,
             \/ CheckProfile(id) \/ CheckRequest(id) \/ CheckObligation(id)
             \/ CheckException(id) \/ CheckEvaluation(id) \/ CheckDecision(id)
      PROVE  /\ phase' = phase /\ todo' = todo \ {id}
             /\ phase = "profiles" => CheckProfile(id)
             /\ phase = "exceptions" => CheckException(id)
             /\ phase = "evaluations" => CheckEvaluation(id)
             /\ phase = "decisions" => CheckDecision(id)
  BY <1>3 DEF CheckProfile, CheckRequest, CheckObligation, CheckException,
              CheckEvaluation, CheckDecision, Visit
<1>4. CASE UNCHANGED vars
  BY <1>4 DEF vars
<1> QED
  BY <1>1, <1>2, <1>3, <1>4 DEF Next

\* What is checked stays checked.
LEMMA StillChecked ==
  ASSUME TypeOK, [Next]_vars
  PROVE  /\ \A x \in Exceptions : ExceptionChecked(x) => ExceptionChecked(x)'
         /\ \A e \in Evaluations : EvaluationChecked(e) => EvaluationChecked(e)'
<1> USE DEF ExceptionChecked, EvaluationChecked, PastExceptions, PastEvaluations,
            PastDecisions
<1>1. CASE Load \/ Report \/ EndLoop
  BY <1>1 DEF Load, Report, EndLoop, Enter, After
<1>2. ASSUME NEW id \in todo,
             \/ CheckProfile(id) \/ CheckRequest(id) \/ CheckObligation(id)
             \/ CheckException(id) \/ CheckEvaluation(id) \/ CheckDecision(id)
      PROVE  phase' = phase /\ todo' = todo \ {id}
  BY <1>2 DEF CheckProfile, CheckRequest, CheckObligation, CheckException,
              CheckEvaluation, CheckDecision, Visit
<1>3. CASE UNCHANGED vars
  BY <1>3 DEF vars
<1> QED
  BY <1>1, <1>2, <1>3 DEF Next

\* Every step keeps what is known of the profiles looked at,
LEMMA ProfilesStep == PolicyInv /\ [Next]_vars => ProfilesInv'
<1> SUFFICES ASSUME PolicyInv, [Next]_vars, ~Failed',
                    NEW p \in Profiles, ProfileChecked(p)'
             PROVE  ProfileSound(p)'
  BY Frozen DEF ProfilesInv, Profiles
<1>1. ~Failed /\ (ProfileSound(p)' <=> ProfileSound(p))
  BY ErrorsGrow, Frozen, SameRegistry DEF PolicyInv
<1>2. CASE ProfileChecked(p)
  BY <1>1, <1>2 DEF PolicyInv, ProfilesInv
<1>3. CASE CheckProfile(p)
  BY <1>1, <1>3 DEF CheckProfile, Mark, Failed
<1> QED
  BY <1>2, <1>3, NewlyChecked DEF PolicyInv

\* ... of the requests,
LEMMA RequestsStep == PolicyInv /\ [Next]_vars => RequestsInv'
<1> SUFFICES ASSUME PolicyInv, [Next]_vars, NEW r \in valid_requests'
             PROVE  r \in Requests' /\ RequestSound(r)'
  BY DEF RequestsInv
<1>1. Requests' = Requests /\ (RequestSound(r)' <=> RequestSound(r))
  BY Frozen, SameRegistry DEF Requests
<1>2. CASE r \in valid_requests
  BY <1>1, <1>2 DEF PolicyInv, RequestsInv
<1>3. CASE r \notin valid_requests
  <2>1. PICK id \in todo : CheckRequest(id)
    BY <1>3 DEF Next, vars, Load, EndLoop, Report, CheckProfile, CheckObligation,
                CheckException, CheckEvaluation, CheckDecision
  <2>2. id \in Requests
    BY <2>1 DEF CheckRequest, Visit, PolicyInv, TypeOK, Section
  <2> QED
    BY <1>1, <1>3, <2>1, <2>2 DEF CheckRequest
<1> QED
  BY <1>2, <1>3

\* ... of the exceptions,
LEMMA ExceptionsStep == PolicyInv /\ [Next]_vars => ExceptionsInv'
<1> SUFFICES ASSUME PolicyInv, [Next]_vars PROVE ExceptionsInv'
  OBVIOUS
<1> TypeOK /\ ExceptionsInv
  BY DEF PolicyInv
<1>0. /\ reg' = reg /\ Exceptions' = Exceptions
      /\ \A x : ExceptionErrors(x)' = ExceptionErrors(x)
      /\ \A x : About(x)' = About(x) /\ (Active(x)' <=> Active(x))
      /\ \A rec : Resolves(rec)' <=> Resolves(rec)
  BY Frozen, SameRegistry DEF Exceptions
<1>1. ASSUME NEW x \in Exceptions, ExceptionChecked(x)', Resolves(reg.exceptions[x]),
             Active(x)
      PROVE  x \in active_for'
  <2>1. CASE ExceptionChecked(x)
    <3>1. active_for \subseteq active_for'
      BY DEF Next, vars, Load, EndLoop, Report, CheckProfile, CheckRequest,
             CheckObligation, CheckException, CheckEvaluation, CheckDecision
    <3> QED
      BY <1>1, <2>1, <3>1 DEF ExceptionsInv
  <2>2. CASE CheckException(x)
    BY <1>1, <2>2 DEF CheckException
  <2> QED
    BY <1>1, <2>1, <2>2, NewlyChecked
<1>2. ASSUME NEW x \in valid_exceptions' PROVE ExceptionChecked(x)' /\ Active(x)
  <2>1. CASE x \in valid_exceptions
    BY <2>1, StillChecked DEF ExceptionsInv, TypeOK
  <2>2. CASE x \notin valid_exceptions
    <3>1. PICK id \in todo : CheckException(id)
      BY <2>2 DEF Next, vars, Load, EndLoop, Report, CheckProfile, CheckRequest,
                  CheckObligation, CheckEvaluation, CheckDecision
    <3>2. x = id /\ Active(x)
      BY <2>2, <3>1 DEF CheckException
    <3> QED
      BY <3>1, <3>2 DEF CheckException, Visit, ExceptionChecked
  <2> QED
    BY <2>1, <2>2
<1>3. ASSUME ~Failed', NEW x \in Exceptions, ExceptionChecked(x)'
      PROVE  ExceptionErrors(x) = {}
  <2>1. ~Failed
    BY <1>3, ErrorsGrow DEF PolicyInv
  <2>2. CASE ExceptionChecked(x)
    BY <2>1, <2>2 DEF ExceptionsInv
  <2>3. CASE CheckException(x)
    BY <1>3, <2>3 DEF CheckException, Failed
  <2> QED
    BY <1>3, <2>2, <2>3, NewlyChecked
<1>4. ASSUME ~Failed', phase' \in PastExceptions PROVE MultiplyWaived' = {}
  <2>1. ~Failed
    BY <1>4, ErrorsGrow DEF PolicyInv
  <2>2. CASE phase \in PastExceptions
    <3>1. active_for' = active_for
      BY <2>2, Frozen DEF PastExceptions, PastEvaluations, PastDecisions
    <3>2. MultiplyWaived' = MultiplyWaived
      BY <1>0, <3>1 DEF MultiplyWaived
    <3> QED
      BY <2>1, <2>2, <3>2 DEF ExceptionsInv
  <2>3. CASE phase \notin PastExceptions
    <3>1. EndLoop /\ phase = "exceptions"
      <4> USE DEF PastExceptions, PastEvaluations, PastDecisions
      <4>1. ~(Load \/ Report)
        BY <1>4, <2>3 DEF Load, Report, Enter
      <4>2. phase' # phase
        BY <1>4, <2>3
      <4>3. EndLoop
        BY <4>1, <4>2 DEF Next, vars, CheckProfile, CheckRequest, CheckObligation,
                          CheckException, CheckEvaluation, CheckDecision, Visit
      <4> QED
        BY <1>4, <2>3, <4>3 DEF EndLoop, Enter, After, Phases
    <3>2. \A r \in MultiplyWaived : <<"request", r>> \in errors'
      BY <3>1 DEF EndLoop
    <3>3. active_for' = active_for
      BY <3>1 DEF EndLoop
    <3>4. MultiplyWaived' = MultiplyWaived
      BY <1>0, <3>3 DEF MultiplyWaived
    <3> QED
      BY <1>4, <3>2, <3>4 DEF Failed
  <2> QED
    BY <2>2, <2>3
<1> QED
  BY <1>0, <1>1, <1>2, <1>3, <1>4 DEF ExceptionsInv

\* ... of the evaluations,
LEMMA EvaluationsStep == PolicyInv /\ [Next]_vars => EvaluationsInv'
<1> SUFFICES ASSUME PolicyInv, [Next]_vars PROVE EvaluationsInv'
  OBVIOUS
<1> TypeOK /\ EvaluationsInv
  BY DEF PolicyInv
<1>0. /\ reg' = reg /\ Evaluations' = Evaluations
      /\ \A e : Key(e)' = Key(e)
      /\ \A rec : Resolves(rec)' <=> Resolves(rec)
  BY Frozen, SameRegistry DEF Evaluations
<1>1. CASE phase # "evaluations"
  <2>1. /\ eval_by_key' = eval_by_key
        /\ \A e \in Evaluations : EvaluationChecked(e)' => EvaluationChecked(e)
    BY <1>1, Frozen, NewlyChecked DEF CheckEvaluation, Visit
  <2>2. ASSUME NEW e \in Evaluations, EvaluationChecked(e), ~Failed, EvaluationClean(e)
        PROVE  EvaluationClean(e)'
    <3>1. phase # "exceptions"
      BY <2>2 DEF EvaluationChecked, PastEvaluations, PastDecisions
    <3>2. valid_exceptions' = valid_exceptions
      BY <3>1, Frozen
    <3> QED
      BY <1>0, <2>2, <3>2, SameRegistry DEF EvaluationClean, WaiverBound
  <2> QED
    BY <1>0, <2>1, <2>2, StillChecked, ErrorsGrow DEF EvaluationsInv, TypeOK, PolicyInv
<1>2. CASE phase = "evaluations"
  <2>0. valid_exceptions' = valid_exceptions
    BY <1>2, Frozen
  <2>1. \A e : EvaluationClean(e)' <=> EvaluationClean(e)
    BY <1>0, <2>0, SameRegistry DEF EvaluationClean, WaiverBound
  <2>2. ASSUME NEW id \in todo, CheckEvaluation(id) PROVE EvaluationsInv'
    <3>1. id \in Evaluations /\ id \in todo /\ EvaluationChecked(id)'
      BY <2>2 DEF CheckEvaluation, Visit, TypeOK, Section, EvaluationChecked
    <3>2. ~Failed' => /\ ~Failed
                      /\ Resolves(reg.evaluations[id])
                      /\ EvaluationClean(id)
                      /\ \A other \in eval_by_key : Key(other) # Key(id)
      <4> SUFFICES ASSUME ~Failed'
                   PROVE  /\ ~Failed
                          /\ Resolves(reg.evaluations[id])
                          /\ EvaluationClean(id)
                          /\ \A other \in eval_by_key : Key(other) # Key(id)
        OBVIOUS
      <4>1. ~Failed /\ EvaluationErrors(id) = {}
        BY <2>2, ErrorsGrow DEF CheckEvaluation, Failed, PolicyInv
      <4>2. /\ Resolves(reg.evaluations[id])
            /\ \A other \in eval_by_key : Key(other) # Key(id)
            /\ reg.evaluations[id].state = "waived" => WaiverBound(id)
        BY <4>1 DEF EvaluationErrors, Mark
      <4>3. reg.evaluations[id].state \in {"satisfied", "failed"} =>
              reg.evaluations[id].evidence = "ok"
        BY <4>1, <4>2 DEF EvaluationErrors, EvidenceErrors
      <4> QED
        BY <4>1, <4>2, <4>3 DEF EvaluationClean
    <3>3. eval_by_key' \subseteq eval_by_key \cup {id}
      BY <2>2 DEF CheckEvaluation
    <3>4. \A e, f \in eval_by_key' : Key(e) = Key(f) => e = f
      BY <2>2 DEF CheckEvaluation, EvaluationsInv
    <3>5. \A e \in eval_by_key' : EvaluationChecked(e)'
      BY <3>1, <3>3, StillChecked DEF EvaluationsInv, TypeOK
    <3>6. ASSUME ~Failed', NEW e \in Evaluations, EvaluationChecked(e)'
          PROVE  e \in eval_by_key' /\ EvaluationClean(e)
      <4>1. eval_by_key' = eval_by_key \cup {id}
        BY <2>2, <3>2, <3>6 DEF CheckEvaluation
      <4>2. CASE e = id
        BY <3>2, <3>6, <4>1, <4>2
      <4>3. CASE e # id
        <5>1. EvaluationChecked(e)
          BY <2>2, <3>6, <4>3 DEF CheckEvaluation, Visit, EvaluationChecked
        <5> QED
          BY <3>2, <3>6, <4>1, <5>1 DEF EvaluationsInv
      <4> QED
        BY <4>2, <4>3
    <3> QED
      BY <1>0, <2>1, <3>4, <3>5, <3>6 DEF EvaluationsInv
  <2>3. CASE ~ \E id \in todo : CheckEvaluation(id)
    <3>1. /\ eval_by_key' = eval_by_key
          /\ \A e \in Evaluations : EvaluationChecked(e)' => EvaluationChecked(e)
      <4>1. \A e : CheckEvaluation(e) => e \in todo
        BY DEF CheckEvaluation, Visit
      <4>2. eval_by_key' = eval_by_key
        BY <2>3 DEF Next, vars, Load, EndLoop, Report, CheckProfile, CheckRequest,
                    CheckObligation, CheckException, CheckDecision
      <4> QED
        BY <2>3, <4>1, <4>2, NewlyChecked
    <3> QED
      BY <1>0, <2>1, <3>1, StillChecked, ErrorsGrow DEF EvaluationsInv, TypeOK, PolicyInv
  <2> QED
    BY <2>2, <2>3
<1> QED
  BY <1>1, <1>2

\* ... of the decisions,
LEMMA DecisionsStep == PolicyInv /\ [Next]_vars => DecisionsInv'
<1> SUFFICES ASSUME PolicyInv, [Next]_vars, ~Failed' PROVE DecisionsInv'
  BY DEF DecisionsInv
<1>0. /\ TypeOK /\ DecisionsInv /\ ~Failed
      /\ reg' = reg /\ Decisions' = Decisions
  BY Frozen, ErrorsGrow DEF PolicyInv, Decisions
<1>1. seen_req \subseteq seen_req'
  BY DEF Next, vars, Load, EndLoop, Report, CheckProfile, CheckRequest,
         CheckObligation, CheckException, CheckEvaluation, CheckDecision
<1>2. ASSUME NEW d \in Decisions, DecisionChecked(d)'
      PROVE  DecisionClean(d)' /\ reg.decisions[d].request \in seen_req'
  <2>1. CASE DecisionChecked(d)
    <3>1. phase \notin {"requests", "evaluations"}
      BY <2>1 DEF DecisionChecked, PastDecisions
    <3>2. DecisionClean(d)' <=> DecisionClean(d)
      BY <1>0, <3>1, Frozen, SameSets
    <3> QED
      BY <1>0, <1>1, <2>1, <3>2 DEF DecisionsInv
  <2>2. CASE CheckDecision(d)
    <3>1. phase = "decisions"
      BY <2>2 DEF CheckDecision, Visit
    <3>2. DecisionSound(d)
      BY <2>2 DEF CheckDecision, Mark, Failed
    <3>3. DecisionClean(d)' <=> DecisionClean(d)
      BY <1>0, <3>1, Frozen, SameSets
    <3> QED
      BY <2>2, <3>2, <3>3 DEF DecisionSound, DecisionClean, CheckDecision, Derivable
  <2> QED
    BY <1>0, <1>2, <2>1, <2>2, NewlyChecked
<1>3. ASSUME NEW d \in Decisions, NEW e \in Decisions,
             DecisionChecked(d)', DecisionChecked(e)',
             reg.decisions[e].request = reg.decisions[d].request
      PROVE  e = d
  <2>1. \A c \in Decisions : CheckDecision(c) => reg.decisions[c].request \notin seen_req
    BY DEF CheckDecision, Mark, Failed, DecisionSound
  <2>2. \A b, c \in Decisions : CheckDecision(b) /\ CheckDecision(c) => b = c
    BY DEF CheckDecision, Visit, TypeOK
  <2> QED
    BY <1>0, <1>3, <2>1, <2>2, NewlyChecked DEF DecisionsInv
<1> QED
  BY <1>0, <1>2, <1>3 DEF DecisionsInv

\* ... and of the report.
LEMMA ReportStep == PolicyInv /\ [Next]_vars => ReportHonest'
<1> SUFFICES ASSUME PolicyInv, [Next]_vars, report'.structural = "conformant"
             PROVE  phase' = "done" /\ ~Failed'
  BY DEF ReportHonest
<1>1. CASE Report
  BY <1>1 DEF Report, Failed
<1>2. CASE ~Report
  <2>1. report' = report
    BY <1>2 DEF Next, vars, Load, EndLoop, Visit, CheckProfile, CheckRequest,
                CheckObligation, CheckException, CheckEvaluation, CheckDecision
  <2>2. phase = "done" /\ ~Failed
    BY <2>1 DEF PolicyInv, ReportHonest
  <2> QED
    BY <1>2, <2>2 DEF Next, vars, Load, EndLoop, Visit, CheckProfile, CheckRequest,
                CheckObligation, CheckException, CheckEvaluation, CheckDecision, Failed
<1> QED
  BY <1>1, <1>2

\* Before the first step nothing has been looked at.
LEMMA InitInv == Init => PolicyInv
<1> SUFFICES ASSUME Init PROVE PolicyInv
  OBVIOUS
<1> USE DEF Init
<1>1. TypeOK
  BY DEF TypeOK, Phases, Section, NotEvaluated, Results, Capability
<1>2. Given /\ RequestsInv /\ ReportHonest
  BY DEF Given, RequestsInv, ReportHonest, NotEvaluated
<1>3. ProfilesInv /\ ExceptionsInv /\ EvaluationsInv /\ DecisionsInv
  BY DEF ProfilesInv, ExceptionsInv, EvaluationsInv, DecisionsInv, ProfileChecked,
         ExceptionChecked, EvaluationChecked, DecisionChecked, PastProfiles,
         PastRequests, PastExceptions, PastEvaluations, PastDecisions
<1> QED
  BY <1>1, <1>2, <1>3 DEF PolicyInv

\* The invariant every theorem below rests on.
THEOREM InvariantHolds == Spec => []PolicyInv
<1>1. PolicyInv /\ [Next]_vars => PolicyInv'
  <2> SUFFICES ASSUME PolicyInv, [Next]_vars PROVE PolicyInv'
    OBVIOUS
  <2>1. TypeOK' /\ Given'
    BY TypeStep, GivenStep DEF PolicyInv
  <2>2. ProfilesInv' /\ RequestsInv' /\ ExceptionsInv' /\ EvaluationsInv'
    BY ProfilesStep, RequestsStep, ExceptionsStep, EvaluationsStep
  <2>3. DecisionsInv' /\ ReportHonest'
    BY DecisionsStep, ReportStep
  <2> QED
    BY <2>1, <2>2, <2>3 DEF PolicyInv
<1> QED
  BY InitInv, <1>1, PTL DEF Spec

\* The sets the loops of the E13 checker fill hold ids of the registry, and a
\* loop only visits ids of its own section (run()).
THEOREM TypeCorrect == Spec => []TypeOK
<1>1. PolicyInv => TypeOK
  BY DEF PolicyInv
<1> QED
  BY <1>1, InvariantHolds, PTL

-----------------------------------------------------------------------------
(* What a conformant registry holds. *)

\* The place of a decision among those a request lists.
Entries(d) == Positions(reg.requests[reg.decisions[d].request].decisions)

\* With no finding and all loops done, every record is what its loop asks for.
LEMMA WhatIsConformant ==
  ASSUME PolicyInv, Conformant
  PROVE  /\ \A p \in Profiles : ProfileSound(p)
         /\ \A x \in Exceptions : ExceptionErrors(x) = {}
         /\ MultiplyWaived = {}
         /\ \A x \in Exceptions : Resolves(reg.exceptions[x]) /\ Active(x) => x \in active_for
         /\ \A x \in valid_exceptions : x \in Exceptions /\ Active(x)
         /\ eval_by_key = Evaluations
         /\ \A e, f \in Evaluations : Key(e) = Key(f) => e = f
         /\ \A e \in Evaluations : EvaluationClean(e)
         /\ \A d \in Decisions : DecisionClean(d)
         /\ \A d, e \in Decisions :
              reg.decisions[e].request = reg.decisions[d].request => e = d
<1> /\ phase = "done" /\ ~Failed
    /\ ProfilesInv /\ ExceptionsInv /\ EvaluationsInv /\ DecisionsInv /\ TypeOK
  BY DEF PolicyInv, ReportHonest, Conformant
<1> USE DEF PastProfiles, PastRequests, PastExceptions, PastEvaluations, PastDecisions
<1>1. \A p \in Profiles : ProfileSound(p)
  BY DEF ProfilesInv, ProfileChecked
<1>2. /\ \A x \in Exceptions : ExceptionErrors(x) = {}
      /\ MultiplyWaived = {}
      /\ \A x \in Exceptions : Resolves(reg.exceptions[x]) /\ Active(x) => x \in active_for
      /\ \A x \in valid_exceptions : x \in Exceptions /\ Active(x)
  BY DEF ExceptionsInv, ExceptionChecked, TypeOK
<1>3. /\ eval_by_key = Evaluations
      /\ \A e, f \in eval_by_key : Key(e) = Key(f) => e = f
      /\ \A e \in Evaluations : EvaluationClean(e)
  BY DEF EvaluationsInv, EvaluationChecked, TypeOK
<1>4. /\ \A d \in Decisions : DecisionClean(d)
      /\ \A d, e \in Decisions :
           reg.decisions[e].request = reg.decisions[d].request => e = d
  BY DEF DecisionsInv, DecisionChecked
<1> QED
  BY <1>1, <1>2, <1>3, <1>4

\* In a conformant registry the three ways in which the loops count the
\* decisions of a request come to the same.
LEMMA OneWayToCount ==
  ASSUME PolicyInv, Conformant, NEW d \in Decisions,
         NEW r, r = reg.decisions[d].request
  PROVE  /\ r \in Requests /\ RequestSound(r)
         /\ reg.requests[r].profile = reg.decisions[d].profile
         /\ reg.decisions[d].profile \in Profiles
         /\ reg.decisions[d].state = Derived(d)
         /\ Resolved(r) = Entries(d) /\ Selected(r) = Entries(d)
         /\ SelectedOf(r, reg.decisions[d].profile) = Entries(d)
         /\ Sources(d) = {E10Decision(r, i) : i \in Entries(d)}
<1> DEFINE p == reg.decisions[d].profile
<1>1. DecisionClean(d)
  BY WhatIsConformant
<1>2. r \in Requests /\ RequestSound(r) /\ p \in Profiles /\ reg.requests[r].profile = p
  BY <1>1 DEF DecisionClean, Derivable, Bound, PolicyInv, RequestsInv
<1>3. Resolved(r) = Entries(d)
  BY <1>2 DEF RequestSound, Entries
<1>4. \A i \in Entries(d) : i \in Nat
  <2>1. reg.requests[r].decisions \in Seq(STRING)
    BY <1>2, RegistryAssumption DEF PolicyInv, Given, Requests
  <2> QED
    BY <2>1 DEF Entries, Positions
<1>5. Selected(r) = Entries(d)
  <2>1. \A i, j \in Resolved(r) : E10Decision(r, i).policy = E10Decision(r, j).policy => i = j
    BY <1>2 DEF RequestSound, OneDecisionPerPolicy
  <2> QED
    BY <1>3, <1>4, <2>1 DEF Selected
<1>6. SelectedOf(r, p) = Entries(d)
  BY <1>2, <1>3, <1>5 DEF SelectedOf, RequestSound
<1>7. Sources(d) = {E10Decision(r, i) : i \in Entries(d)}
  BY DEF Sources, Entries, E10Decision
<1> QED
  BY <1>1, <1>2, <1>3, <1>5, <1>6, <1>7 DEF DecisionClean

\* A profile that no finding is about lists no policy twice: every member counts.
LEMMA EveryMemberCounts ==
  ASSUME PolicyInv, NEW p \in Profiles, ProfileSound(p)
  PROVE  MembersOf(p) = {reg.profiles[p].members[i] : i \in Positions(reg.profiles[p].members)}
<1> DEFINE members == reg.profiles[p].members
<1>1. members \in Seq([policy : STRING, required : BOOLEAN, priority : Int])
  BY RegistryAssumption DEF PolicyInv, Given, Profiles
<1>2. \A i \in Positions(members) : i \in Nat
  BY <1>1 DEF Positions
<1>3. \A i, j \in Positions(members) : members[i].policy = members[j].policy => i = j
  BY DEF ProfileSound
<1> QED
  BY <1>2, <1>3 DEF MembersOf

-----------------------------------------------------------------------------
(* One subject. *)

\* For every registry: a composed decision, whatever its outcome, is made of
\* decisions on one subject, context and set of revisions (check_requests).
THEOREM SubjectIsOne == Spec => []OneSubject
<1>1. ASSUME PolicyInv, Conformant, NEW d \in Decisions, NEW s \in Sources(d)
      PROVE  LET r == reg.requests[reg.decisions[d].request]
             IN  /\ reg.e10_proposals[s.proposal].subject = r.subject
                 /\ s.context = r.context
                 /\ s.revisions.proposal = reg.e10_proposals[s.proposal].revision
                 /\ s.revisions.policy = reg.e10_policies[s.policy]
                 /\ s.revisions.context = reg.e10_contexts[r.context]
  <2> DEFINE r == reg.decisions[d].request
  <2>1. PICK i \in Resolved(r) : s = E10Decision(r, i)
    BY <1>1, OneWayToCount
  <2>2. /\ UpstreamBound(r, i)
        /\ E10Decision(r, i).policy \in MemberPolicies(reg.decisions[d].profile)
    BY <1>1, <2>1, OneWayToCount DEF RequestSound
  <2>3. s.policy \in DOMAIN reg.e10_policies
    BY <1>1, <2>1, <2>2, OneWayToCount, WhatIsConformant DEF ProfileSound
  <2> DEFINE request == reg.requests[r]
             proposal == reg.e10_proposals[s.proposal]
  <2>4. /\ proposal.subject = request.subject
        /\ s.context = request.context
        /\ s.revisions = [proposal |-> proposal.revision,
                          policy   |-> PolicyRevision(s.policy),
                          context  |-> request.context_revision]
        /\ reg.e10_contexts[s.context] = request.context_revision
    BY <2>1, <2>2 DEF UpstreamBound
  <2>5. PolicyRevision(s.policy) = reg.e10_policies[s.policy]
    BY <2>3 DEF PolicyRevision
  <2> HIDE DEF proposal, request
  <2>6. /\ s.revisions.proposal = proposal.revision
        /\ s.revisions.policy = reg.e10_policies[s.policy]
        /\ s.revisions.context = request.context_revision
    BY <2>4, <2>5
  <2> QED
    BY <2>4, <2>6 DEF proposal, request
<1>2. PolicyInv => OneSubject
  BY <1>1 DEF OneSubject
<1> QED
  BY <1>2, InvariantHolds, PTL

-----------------------------------------------------------------------------
(* Obligations. *)

\* For every registry: no permission is composed over an obligation that is
\* neither satisfied nor properly waived (check_evaluations, check_decisions).
THEOREM NoOpenObligation == Spec => []ObligationsMet
<1>1. ASSUME PolicyInv, Conformant, NEW d \in Permitted, NEW o \in Obligations, Called(d, o)
      PROVE  LET r == reg.decisions[d].request
             IN  \E e \in Evaluations :
                   /\ Key(e) = <<r, o>>
                   /\ \A other \in Evaluations : Key(other) = <<r, o>> => other = e
                   /\ \/ /\ reg.evaluations[e].state = "satisfied"
                         /\ reg.evaluations[e].evidence = "ok"
                      \/ /\ reg.evaluations[e].state = "waived"
                         /\ reg.evaluations[e].exception \in Exceptions
                         /\ WaivedBy(reg.evaluations[e].exception, r, o)
                         /\ \A y \in Exceptions :
                              About(y) = <<r, o>> /\ Active(y)
                                => y = reg.evaluations[e].exception
  <2> DEFINE r == reg.decisions[d].request
  <2>0. d \in Decisions /\ reg.decisions[d].state = "permitted"
    BY DEF Permitted
  <2>1. /\ r \in Requests
        /\ reg.requests[r].profile = reg.decisions[d].profile
        /\ Derived(d) = "permitted"
        /\ Selected(r) = Entries(d)
        /\ Sources(d) = {E10Decision(r, i) : i \in Entries(d)}
    BY <1>1, <2>0, OneWayToCount
  <2>2. o \in Due(r)
    BY <1>1, <2>1 DEF Called, Due, Triggered
  <2>3. Blockers(r) = {}
    BY <2>1 DEF Derived
  <2>4. Discharged(r, o)
    BY <1>1, <2>2, <2>3 DEF Blockers, Outstanding, Called
  <2>5. PICK e \in Evaluations : /\ Key(e) = <<r, o>>
                                 /\ reg.evaluations[e].state \in {"satisfied", "waived"}
    BY <1>1, <2>4, WhatIsConformant DEF Discharged
  <2>6. /\ \A other \in Evaluations : Key(other) = <<r, o>> => other = e
        /\ EvaluationClean(e)
    BY <1>1, <2>5, WhatIsConformant
  <2>7. CASE reg.evaluations[e].state = "satisfied"
    BY <2>5, <2>6, <2>7 DEF EvaluationClean
  <2>8. CASE reg.evaluations[e].state = "waived"
    <3> DEFINE x == reg.evaluations[e].exception
               rec == reg.exceptions[x]
    <3>1. x \in valid_exceptions /\ About(x) = <<r, o>>
      BY <2>5, <2>6, <2>8 DEF EvaluationClean, WaiverBound
    <3>2. /\ x \in Exceptions /\ Active(x) /\ ExceptionErrors(x) = {}
          /\ rec.request = r /\ rec.obligation = o
      BY <1>1, <3>1, WhatIsConformant DEF About
    <3>3. /\ Resolves(rec) /\ OfOneProfile(rec)
          /\ WaiversAllowed(x) /\ WaiverAuthorized(x)
      BY <3>2 DEF ExceptionErrors, Mark
    <3>4. rec.evidence = "ok"
      BY <3>2, <3>3 DEF ExceptionErrors, EvidenceErrors
    <3>5. WaivedBy(x, r, o)
      BY <3>2, <3>3, <3>4 DEF WaivedBy, Active, OfOneProfile, WaiversAllowed,
                              WaiverAuthorized
    <3>6. ASSUME NEW y \in Exceptions, About(y) = <<r, o>>, Active(y) PROVE y = x
      <4>1. reg.exceptions[y].request = r /\ reg.exceptions[y].obligation = o
        BY <3>6 DEF About
      <4>2. Resolves(reg.exceptions[y])
        BY <1>1, <2>1, <4>1 DEF Resolves
      <4>3. x \in active_for /\ y \in active_for
        BY <1>1, <3>2, <3>3, <3>6, <4>2, WhatIsConformant
      <4>4. y # x => reg.exceptions[x].request \in MultiplyWaived
        BY <3>1, <3>6, <4>3 DEF MultiplyWaived
      <4> QED
        BY <1>1, <4>4, WhatIsConformant
    <3> QED
      BY <2>5, <2>6, <2>8, <3>2, <3>5, <3>6
  <2> QED
    BY <2>5, <2>7, <2>8
<1>2. PolicyInv => ObligationsMet
  BY <1>1 DEF ObligationsMet
<1> QED
  BY <1>2, InvariantHolds, PTL

-----------------------------------------------------------------------------
(* Permissions. *)

\* The position priority-order decides by exists: Ranked is a total order, so
\* the one that fewest others come before has none before it.
LEMMA FirstExists ==
  ASSUME NEW r, NEW p, SelectedOf(r, p) # {}, IsFiniteSet(SelectedOf(r, p)),
         \A i \in SelectedOf(r, p) : i \in Nat /\ Priority(r, p, i) \in Int
  PROVE  /\ First(r, p) \in SelectedOf(r, p)
         /\ \A j \in SelectedOf(r, p) : Ranked(r, p, First(r, p), j)
<1> DEFINE S == SelectedOf(r, p)
           Before(i) == {j \in S : ~Ranked(r, p, i, j)}
           Counts == {Cardinality(Before(i)) : i \in S}
<1>1. \A i \in S : IsFiniteSet(Before(i)) /\ Cardinality(Before(i)) \in Nat
  <2> SUFFICES ASSUME NEW i \in S
               PROVE  IsFiniteSet(Before(i)) /\ Cardinality(Before(i)) \in Nat
    OBVIOUS
  <2>1. Before(i) \in SUBSET S
    OBVIOUS
  <2>2. IsFiniteSet(Before(i))
    BY <2>1, FS_Subset
  <2> QED
    BY <2>2, FS_CardinalityType
<1>2. Counts \in SUBSET Nat /\ Counts # {}
  BY <1>1
<1>3. PICK n \in Counts : \A m \in Counts : n <= m
  BY <1>2, LeastElement, Zenon
<1>4. PICK i \in S : n = Cardinality(Before(i))
  BY <1>3
<1>5. ASSUME NEW j \in Before(i) PROVE FALSE
  <2>1. j \in S /\ ~Ranked(r, p, i, j)
    OBVIOUS
  <2>2. Before(j) \subseteq Before(i) /\ j \notin Before(j)
    BY <2>1 DEF Ranked
  <2>3. Before(j) # Before(i)
    BY <2>2
  <2>4. Cardinality(Before(j)) < Cardinality(Before(i))
    <3>1. /\ IsFiniteSet(Before(i))
          /\ Cardinality(Before(i)) \in Nat /\ Cardinality(Before(j)) \in Nat
      BY <1>1, <2>1
    <3>2. Before(j) \in SUBSET Before(i)
      BY <2>2
    <3> HIDE DEF Before
    <3>3. /\ Cardinality(Before(j)) <= Cardinality(Before(i))
          /\ Cardinality(Before(i)) # Cardinality(Before(j))
      BY <2>3, <3>1, <3>2, FS_Subset
    <3> QED
      BY <3>1, <3>3
  <2>5. Cardinality(Before(j)) \in Counts
    BY <2>1
  <2>6. Cardinality(Before(i)) <= Cardinality(Before(j))
    BY <1>3, <1>4, <2>5
  <2>7. Cardinality(Before(i)) \in Nat /\ Cardinality(Before(j)) \in Nat
    BY <1>1, <2>1
  <2> HIDE DEF Before
  <2> QED
    BY <2>4, <2>6, <2>7
<1>6. \A j \in S : Ranked(r, p, i, j)
  BY <1>5
<1> QED
  BY <1>6 DEF First

\* For every registry: a permission is what the profile's algorithm makes of
\* all decisions of the request (derive_base), no required policy is missing
\* and the request has no second composed decision (check_decisions).
THEOREM PermissionDerived == Spec => []PermissionIsDerived
<1>1. ASSUME PolicyInv, Conformant, NEW d \in Permitted
      PROVE  /\ Admits(d)
             /\ RequiredPolicies(d) \subseteq {s.policy : s \in Sources(d)}
             /\ \A e \in Decisions :
                  reg.decisions[e].request = reg.decisions[d].request => e = d
  <2> DEFINE r == reg.decisions[d].request
             p == reg.decisions[d].profile
             members == reg.profiles[p].members
  <2>0. d \in Decisions /\ reg.decisions[d].state = "permitted"
    BY DEF Permitted
  <2>1. /\ r \in Requests /\ p \in Profiles /\ reg.requests[r].profile = p
        /\ Derived(d) = "permitted"
        /\ SelectedOf(r, p) = Entries(d)
        /\ Sources(d) = {E10Decision(r, i) : i \in Entries(d)}
    BY <1>1, <2>0, OneWayToCount
  <2>2. ProfileSound(p)
    BY <1>1, <2>1, WhatIsConformant
  <2>3. MembersOf(p) = {members[i] : i \in Positions(members)}
    BY <1>1, <2>1, <2>2, EveryMemberCounts
  <2>4. DeriveBase(r, p) = "permitted"
    BY <2>1 DEF Derived
  <2>5. Complete(r, p) /\ Combine(r, p) = "permitted" /\ States(r, Entries(d)) # {}
    BY <2>1, <2>4 DEF DeriveBase
  <2>6. States(r, Entries(d)) = {s.state : s \in Sources(d)}
    BY <2>1 DEF States
  <2>7. RequiredPolicies(d) \subseteq {s.policy : s \in Sources(d)}
    <3> SUFFICES ASSUME NEW k \in Positions(members), members[k].required
                 PROVE  members[k].policy \in {s.policy : s \in Sources(d)}
      BY DEF RequiredPolicies
    <3>1. PICK i \in Entries(d) : E10Decision(r, i).policy = members[k].policy
      BY <2>1, <2>3, <2>5 DEF Complete
    <3> QED
      BY <2>1, <3>1
  <2>8. Admits(d)
    <3> DEFINE algorithm == reg.profiles[p].algorithm
               states == States(r, Entries(d))
               decisive == E10Decision(r, First(r, p)).state
    <3>0. algorithm \in Algorithms
      BY <2>2 DEF ProfileSound
    <3>1. CASE algorithm = "all-authorized"
      <4>1. states = {"authorized"}
        BY <2>1, <2>5, <3>1 DEF Combine
      <4> QED
        BY <2>6, <3>1, <4>1 DEF Admits
    <3>2. CASE algorithm = "deny-overrides"
      <4>1. /\ "authorized" \in states /\ "denied" \notin states
            /\ "held" \notin states /\ "unavailable" \notin states
        BY <2>1, <2>5, <3>2 DEF Combine
      <4> QED
        BY <2>6, <3>2, <4>1 DEF Admits
    <3>3. CASE algorithm = "permit-overrides"
      <4>1. "authorized" \in states
        BY <2>1, <2>5, <3>3 DEF Combine
      <4> QED
        BY <2>6, <3>3, <4>1 DEF Admits
    <3>4. CASE algorithm = "priority-order"
      <4>1. decisive = "authorized"
        BY <2>5, <3>4 DEF Combine, Outcome
      <4>2. /\ members \in Seq([policy : STRING, required : BOOLEAN, priority : Int])
            /\ reg.requests[r].decisions \in Seq(STRING)
        BY <1>1, <2>1, RegistryAssumption DEF PolicyInv, Given, Profiles, Requests
      <4>3. \A i \in Entries(d) : E10Decision(r, i).policy \in MemberPolicies(p)
        BY <2>1 DEF SelectedOf
      <4>4. \A i \in Entries(d), k \in Positions(members) :
              members[k].policy = E10Decision(r, i).policy
                => Priority(r, p, i) = members[k].priority
        BY <2>2, <2>3 DEF Priority, ProfileSound
      <4>5. \A i \in Entries(d) : i \in Nat /\ Priority(r, p, i) \in Int
        <5> SUFFICES ASSUME NEW i \in Entries(d) PROVE i \in Nat /\ Priority(r, p, i) \in Int
          OBVIOUS
        <5>1. i \in Nat
          BY <4>2 DEF Entries, Positions
        <5>2. PICK k \in Positions(members) : members[k].policy = E10Decision(r, i).policy
          BY <2>3, <4>3 DEF MemberPolicies
        <5>3. members[k] \in [policy : STRING, required : BOOLEAN, priority : Int]
          <6> DEFINE Members == [policy : STRING, required : BOOLEAN, priority : Int]
          <6>1. k \in 1..Len(members)
            BY <4>2 DEF Positions
          <6> HIDE DEF members, Members
          <6>2. members \in Seq(Members)
            BY <4>2 DEF Members
          <6>3. members[k] \in Members
            BY <6>1, <6>2, ElementOfSeq
          <6> QED
            BY <6>3 DEF Members
        <5>4. members[k].priority \in Int
          BY <5>3
        <5> QED
          BY <4>4, <5>1, <5>2, <5>4
      <4>6. IsFiniteSet(Entries(d))
        <5>1. Len(reg.requests[r].decisions) \in Nat
          BY <4>2
        <5>2. Entries(d) = 1..Len(reg.requests[r].decisions)
          BY <4>2 DEF Entries, Positions
        <5> QED
          BY <5>1, <5>2, FS_Interval
      <4>7. Entries(d) # {}
        BY <2>5 DEF States
      <4>8. /\ First(r, p) \in Entries(d)
            /\ \A j \in Entries(d) : Ranked(r, p, First(r, p), j)
        BY <2>1, <4>5, <4>6, <4>7, FirstExists
      <4>9. \A j \in Entries(d) : Priority(r, p, First(r, p)) <= Priority(r, p, j)
        BY <4>5, <4>8 DEF Ranked
      <4>10. ASSUME NEW j \in Entries(d),
                    NEW k \in Positions(members), NEW l \in Positions(members),
                    members[k].policy = E10Decision(r, First(r, p)).policy,
                    members[l].policy = E10Decision(r, j).policy
             PROVE  members[k].priority <= members[l].priority
        BY <4>4, <4>8, <4>9, <4>10
      <4> DEFINE rank(s) == {members[k].priority : k \in
                               {k \in Positions(members) : members[k].policy = s.policy}}
                 s == E10Decision(r, First(r, p))
      <4>11. s \in Sources(d) /\ s.state = "authorized"
        BY <2>1, <4>1, <4>8
      <4>12. \A t \in Sources(d) : \A m \in rank(s), n \in rank(t) : m <= n
        BY <2>1, <4>10
      <4>13. \E x \in Sources(d) :
               /\ x.state = "authorized"
               /\ \A t \in Sources(d) : \A m \in rank(x), n \in rank(t) : m <= n
        BY <4>11, <4>12, Zenon
      <4> QED
        BY <3>4, <4>13 DEF Admits
    <3> QED
      BY <3>0, <3>1, <3>2, <3>3, <3>4 DEF Algorithms
  <2> QED
    BY <1>1, <2>0, <2>7, <2>8, WhatIsConformant
<1>2. PolicyInv => PermissionIsDerived
  BY <1>1 DEF PermissionIsDerived
<1> QED
  BY <1>2, InvariantHolds, PTL

-----------------------------------------------------------------------------
(* Both programs. *)

\* What the profile has left behind, where the file could be read.
RequestClean(r) ==
  /\ KnownStates(r)
  /\ Permits(r) /\ reg.requests[r].profile \in Profiles => Inconclusive(r) = {}
ExceptionClean(x) == Waives(x) => InContext(x)

Late == {"report", "done"}
RequestLooked(r) ==
  h_phase \in {"exceptions"} \cup Late \/ (h_phase = "requests" /\ r \notin h_todo)
ExceptionLooked(x) == h_phase \in Late \/ (h_phase = "exceptions" /\ x \notin h_todo)

\* The invariant of both programs: the baseline's own, and that the profile
\* looks at nothing the baseline has not accepted and misses nothing it has.
HardeningInv ==
  /\ PolicyInv
  /\ h_phase \in HPhases
  /\ h_phase = "files" => h_errors = {}
  /\ h_phase \notin {"files"} \cup Late => reg.files = "both"
  /\ h_phase \in {"requests", "exceptions"} => Conformant
  /\ h_errors = {} /\ h_phase \in Late /\ reg.files = "both" => Conformant
  /\ h_errors = {} /\ reg.files = "both" =>
       /\ \A r \in Requests : RequestLooked(r) => RequestClean(r)
       /\ \A x \in Exceptions : ExceptionLooked(x) => ExceptionClean(x)
  /\ h_report.structural = "conformant" => h_phase = "done" /\ h_errors = {}

\* The profile starts with the base program, and with nothing found.
LEMMA HardeningStarts == HInit => HardeningInv
<1> SUFFICES ASSUME HInit PROVE HardeningInv
  OBVIOUS
<1>1. PolicyInv
  BY InitInv DEF HInit
<1> QED
  BY <1>1 DEF HInit, HardeningInv, HPhases, Late, RequestLooked, ExceptionLooked

\* Once the baseline has reported, or as long as it only runs, the profile's
\* own steps leave what it found alone.
LEMMA BaselineKept ==
  ASSUME HardeningInv, UNCHANGED vars
  PROVE  /\ PolicyInv' /\ (Conformant' <=> Conformant)
         /\ reg' = reg /\ Requests' = Requests /\ Exceptions' = Exceptions
         /\ \A r : RequestClean(r)' <=> RequestClean(r)
         /\ \A x : ExceptionClean(x)' <=> ExceptionClean(x)
<1>1. PolicyInv' /\ reg' = reg
  <2>1. [Next]_vars
    OBVIOUS
  <2>2. PolicyInv'
    <3>1. TypeOK' /\ Given' /\ ProfilesInv' /\ RequestsInv' /\ ExceptionsInv'
      BY <2>1, TypeStep, GivenStep, ProfilesStep, RequestsStep, ExceptionsStep
         DEF HardeningInv, PolicyInv
    <3>2. EvaluationsInv' /\ DecisionsInv' /\ ReportHonest'
      BY <2>1, EvaluationsStep, DecisionsStep, ReportStep DEF HardeningInv
    <3> QED
      BY <3>1, <3>2 DEF PolicyInv
  <2> QED
    BY <2>2 DEF vars
<1>2. Conformant' <=> Conformant
  BY DEF Conformant, vars
<1>3. /\ Requests' = Requests /\ Exceptions' = Exceptions /\ Profiles' = Profiles
      /\ \A r : Resolved(r)' = Resolved(r) /\ Selected(r)' = Selected(r)
      /\ \A r, i : E10Decision(r, i)' = E10Decision(r, i)
      /\ \A p : MembersOf(p)' = MembersOf(p)
  BY <1>1 DEF Requests, Exceptions, Profiles, Resolved, Selected, E10Decision,
              MembersOf, Positions
<1>4. \A r : RequestClean(r)' <=> RequestClean(r)
  <2>1. \A r : (KnownStates(r)' <=> KnownStates(r)) /\ (Permits(r)' <=> Permits(r))
    BY <1>1, <1>3 DEF KnownStates, Permits, States, Decisions
  <2>2. \A r : Inconclusive(r)' = Inconclusive(r)
    BY <1>1, <1>3 DEF Inconclusive
  <2> QED
    BY <1>1, <1>3, <2>1, <2>2 DEF RequestClean
<1>5. \A x : ExceptionClean(x)' <=> ExceptionClean(x)
  BY <1>1, <1>3 DEF ExceptionClean, Waives, InContext, Active
<1> QED
  BY <1>1, <1>2, <1>3, <1>4, <1>5

\* Every step of either program keeps the invariant of both.
LEMMA HardeningStep == HardeningInv /\ [HNext]_<<vars, h_vars>> => HardeningInv'
<1> SUFFICES ASSUME HardeningInv, [HNext]_<<vars, h_vars>> PROVE HardeningInv'
  OBVIOUS
<1> USE DEF HardeningInv, HPhases, Late, RequestLooked, ExceptionLooked
<1>1. CASE HLoad
  BY <1>1, BaselineKept DEF HLoad, Mark
<1>2. CASE BaselineStep
  <2>1. PolicyInv' /\ reg' = reg
    <3>1. [Next]_vars
      BY <1>2 DEF BaselineStep
    <3>2. TypeOK' /\ Given' /\ ProfilesInv' /\ RequestsInv' /\ ExceptionsInv'
      BY <3>1, TypeStep, GivenStep, ProfilesStep, RequestsStep, ExceptionsStep DEF PolicyInv
    <3>3. EvaluationsInv' /\ DecisionsInv' /\ ReportHonest'
      BY <3>1, EvaluationsStep, DecisionsStep, ReportStep
    <3> QED
      BY <3>1, <3>2, <3>3, Frozen DEF PolicyInv
  <2> QED
    BY <1>2, <2>1 DEF BaselineStep, h_vars
<1>3. CASE BaselineDone
  BY <1>3, BaselineKept DEF BaselineDone, Mark
<1>4. ASSUME NEW id \in h_todo, HCheckRequest(id) PROVE HardeningInv'
  <2>1. /\ UNCHANGED vars /\ h_phase = "requests" /\ h_phase' = h_phase
        /\ h_todo' = h_todo \ {id} /\ h_report' = h_report
    BY <1>4 DEF HCheckRequest
  <2>2. h_errors' = {} => h_errors = {} /\ RequestClean(id)
    BY <1>4 DEF HCheckRequest, Mark, RequestClean
  <2> QED
    BY <2>1, <2>2, BaselineKept
<1>5. ASSUME NEW id \in h_todo, HCheckException(id) PROVE HardeningInv'
  <2>1. /\ UNCHANGED vars /\ h_phase = "exceptions" /\ h_phase' = h_phase
        /\ h_todo' = h_todo \ {id} /\ h_report' = h_report
    BY <1>5 DEF HCheckException
  <2>2. h_errors' = {} => h_errors = {} /\ ExceptionClean(id)
    BY <1>5 DEF HCheckException, Mark, ExceptionClean
  <2> QED
    BY <2>1, <2>2, BaselineKept
<1>6. CASE EndRequests
  BY <1>6, BaselineKept DEF EndRequests
<1>7. CASE EndExceptions
  BY <1>7, BaselineKept DEF EndExceptions
<1>8. CASE HReport
  BY <1>8, BaselineKept DEF HReport
<1>9. CASE UNCHANGED <<vars, h_vars>>
  BY <1>9, BaselineKept DEF h_vars
<1> QED
  BY <1>1, <1>2, <1>3, <1>4, <1>5, <1>6, <1>7, <1>8, <1>9 DEF HNext

\* For every registry: what both programs let through is decided by every
\* required policy, on states E10 knows, and rests on no waiver that was
\* authorized in another context or revision (check() of the profile).
THEOREM NoMemberBypassed == HSpec => []NothingIsBypassed
<1>1. ASSUME HardeningInv, HConformant, NEW d \in Permitted
      PROVE  LET r == reg.decisions[d].request
             IN  /\ \A s \in Sources(d) : s.state \in E10States
                 /\ \A p \in RequiredPolicies(d) :
                      \E s \in Sources(d) : s.policy = p /\ s.state \in {"authorized", "denied"}
                 /\ \A e \in Evaluations :
                      reg.evaluations[e].request = r /\ reg.evaluations[e].state = "waived" =>
                        LET w == reg.e10_decisions[
                                   reg.exceptions[reg.evaluations[e].exception].e10_decision]
                        IN  /\ w.context = reg.requests[r].context
                            /\ w.revisions.context = reg.e10_contexts[reg.requests[r].context]
  <2> DEFINE r == reg.decisions[d].request
             p == reg.decisions[d].profile
             members == reg.profiles[p].members
  <2>1. /\ PolicyInv /\ Conformant
        /\ \A q \in Requests : RequestClean(q)
        /\ \A x \in Exceptions : ExceptionClean(x)
    BY <1>1 DEF HardeningInv, HConformant, RequestLooked, ExceptionLooked, Late
  <2>2. d \in Decisions /\ Permits(r)
    BY DEF Permitted, Permits
  <2>3. /\ r \in Requests /\ p \in Profiles /\ reg.requests[r].profile = p
        /\ Resolved(r) = Entries(d) /\ Selected(r) = Entries(d)
        /\ Sources(d) = {E10Decision(r, i) : i \in Entries(d)}
    BY <2>1, <2>2, OneWayToCount
  <2>4. KnownStates(r) /\ Inconclusive(r) = {}
    BY <2>1, <2>2, <2>3 DEF RequestClean
  <2>5. \A s \in Sources(d) : s.state \in E10States
    BY <2>3, <2>4 DEF KnownStates, States
  <2>6. ASSUME NEW k \in Positions(members), members[k].required
        PROVE  \E s \in Sources(d) :
                 s.policy = members[k].policy /\ s.state \in {"authorized", "denied"}
    <3>1. members[k] \in MembersOf(p)
      BY <2>1, <2>3, WhatIsConformant, EveryMemberCounts
    <3>2. PICK i \in Selected(r) : /\ E10Decision(r, i).policy = members[k].policy
                                   /\ E10Decision(r, i).state \in Conclusive
      BY <2>3, <2>4, <2>6, <3>1 DEF Inconclusive
    <3> QED
      BY <2>3, <3>2 DEF Conclusive
  <2>7. \A q \in RequiredPolicies(d) :
          \E s \in Sources(d) : s.policy = q /\ s.state \in {"authorized", "denied"}
    BY <2>6 DEF RequiredPolicies
  <2>8. ASSUME NEW e \in Evaluations,
               reg.evaluations[e].request = r, reg.evaluations[e].state = "waived"
        PROVE  LET w == reg.e10_decisions[
                          reg.exceptions[reg.evaluations[e].exception].e10_decision]
               IN  /\ w.context = reg.requests[r].context
                   /\ w.revisions.context = reg.e10_contexts[reg.requests[r].context]
    <3> DEFINE x == reg.evaluations[e].exception
    <3>1. x \in valid_exceptions /\ About(x) = Key(e)
      BY <2>1, <2>8, WhatIsConformant DEF EvaluationClean, WaiverBound
    <3>2. /\ x \in Exceptions /\ Active(x) /\ ExceptionErrors(x) = {}
          /\ reg.exceptions[x].request = r
      BY <2>1, <2>8, <3>1, WhatIsConformant DEF About, Key
    <3>3. reg.exceptions[x].kind = "obligation-waiver" /\ WaiverAuthorized(x)
      BY <3>2 DEF ExceptionErrors, Mark
    <3>4. Waives(x)
      BY <2>3, <3>2, <3>3 DEF Waives, WaiverAuthorized
    <3>5. InContext(x)
      BY <2>1, <3>2, <3>4 DEF ExceptionClean
    <3> QED
      BY <3>2, <3>5 DEF InContext
  <2> QED
    BY <2>5, <2>7, <2>8
<1>2. HardeningInv => NothingIsBypassed
  BY <1>1 DEF NothingIsBypassed
<1> QED
  BY <1>2, HardeningStarts, HardeningStep, PTL DEF HSpec
==============================================================================
