------------------------------ MODULE PolicyCheck ------------------------------
(***************************************************************************)
(* The E13 checker, tools/eigiib_policy_composition_check.py: one          *)
(* execution of Checker.run() over the policy-composition registry and the *)
(* E10 registry it composes decisions of.  The records of a section are    *)
(* visited in any order (the author of the file chooses it), one per step. *)
(***************************************************************************)
EXTENDS Integers, Sequences, FiniteSets

CONSTANTS
  Files,          \* the registry files a run may be given
  RegistryIn(_)   \* what one of them holds, with the E10 file beside it

(***************************************************************************)
(* A registry is a record of sections, each a function from ids to records.*)
(*                                                                         *)
(*   malformed      load_json or map_items recorded an error (of a         *)
(*                  repeated id the first record counts)                   *)
(*   files          "both" files hold something, or the hardening checker  *)
(*                  finds one of them "missing" or "empty" (the object {}) *)
(*   profiles       wellformed (revision, flags, use of priorities),       *)
(*                  algorithm, members (a sequence of [policy, required,   *)
(*                  priority]), allow_obligation_waivers                   *)
(*   requests       wellformed (non-empty strings), profile, subject,      *)
(*                  context, context_revision, decisions (a sequence of    *)
(*                  ids of E10 decisions)                                  *)
(*   obligations    wellformed (flags), profile, source, phase, trigger,   *)
(*                  mandatory, waivable                                    *)
(*   exceptions     kind, state, request, obligation, e10_decision,        *)
(*                  evidence                                               *)
(*   evaluations    state, request, obligation, exception, evidence        *)
(*   decisions      state, request, profile                                *)
(*   e10_policies   the revision of every E10 policy                       *)
(*   e10_contexts   the revision of every E10 context                      *)
(*   e10_proposals  revision, policy, context, subject                     *)
(*   e10_decisions  state, proposal, policy, context, revisions (of        *)
(*                  proposal, policy and context)                          *)
(*                                                                         *)
(* A subject holds the action, the target and the `party' (scope, actor    *)
(* and requested executor).  Priorities are integers: sorting anything     *)
(* else stops the program with a TypeError and it reports nothing.         *)
(***************************************************************************)
None == "none"
WaiveObligation == "eigiib:e13:waive-obligation"
Algorithms == {"all-authorized", "deny-overrides", "permit-overrides",
               "priority-order"}
Stages == {"pre-decision", "pre-commit", "post-commit", "audit"}
Triggers == {"authorized", "denied", "always"}
ExceptionStates == {"active", "retired", "contested", "unavailable"}
EvaluationStates == {"satisfied", "pending", "failed", "waived", "unavailable"}
DecisionStates == {"permitted", "denied", "held", "unavailable"}

\* An absent reference is no id; lists are sequences; priorities are compared.
ASSUME RegistryAssumption ==
  \A f \in Files :
    LET r == RegistryIn(f)
    IN  /\ None \notin DOMAIN r.e10_policies
        /\ \A p \in DOMAIN r.profiles :
             /\ r.profiles[p].members \in Seq([policy : STRING, required : BOOLEAN,
                                               priority : Int])
        /\ \A q \in DOMAIN r.requests : r.requests[q].decisions \in Seq(STRING)

VARIABLES
  reg,               \* the registries being checked (never written)
  phase,             \* the loop of run() in progress
  todo,              \* ids the loop has still to visit
  errors,            \* the locations of the error findings so far
  valid_requests, valid_exceptions,
  active_for,        \* the active exceptions counted so far
  eval_by_key,       \* the evaluation last met for a <<request, obligation>>
  seen_req,          \* the requests that have met a composed decision
  composed,          \* the decisions counted by composed_count
  conflicts,         \* the decisions counted by conflict_count
  residual,          \* the <<decision, obligation>> in residual_count
  report             \* the bounded results run() returns

vars == <<reg, phase, todo, errors, valid_requests, valid_exceptions, active_for,
          eval_by_key, seen_req, composed, conflicts, residual, report>>

Profiles == DOMAIN reg.profiles
Requests == DOMAIN reg.requests
Obligations == DOMAIN reg.obligations
Exceptions == DOMAIN reg.exceptions
Evaluations == DOMAIN reg.evaluations
Decisions == DOMAIN reg.decisions

(***************************************************************************)
(* Findings.  has_error(loc) looks for a finding at exactly that location. *)
(* Evidence is "ok", "bad" (the finding is at the record) or "missing" (a  *)
(* path names no file; confined() records the finding at the path).        *)
(***************************************************************************)
RegistryFile == <<"file", "registry">>
EvidenceFile == <<"file", "evidence">>
Mark(loc, sound) == IF sound THEN {} ELSE {loc}

EvidenceErrors(evidence, loc) ==
  CASE evidence = "ok"      -> {}
    [] evidence = "missing" -> {EvidenceFile}
    [] OTHER                -> {loc}

Failed == errors # {}

-----------------------------------------------------------------------------
(* Members and selected decisions. *)

Positions(s) == DOMAIN s

\* member_map: of a policy listed twice, the last member counts.
MembersOf(p) ==
  LET members == reg.profiles[p].members
      later(i) == {j \in Positions(members) : i < j /\ members[i].policy = members[j].policy}
  IN  {members[i] : i \in {k \in Positions(members) : later(k) = {}}}
MemberPolicies(p) == {m.policy : m \in MembersOf(p)}

\* The positions of a request's decisions that resolve in the E10 registry.
Resolved(r) ==
  {i \in Positions(reg.requests[r].decisions) :
     reg.requests[r].decisions[i] \in DOMAIN reg.e10_decisions}
E10Decision(r, i) == reg.e10_decisions[reg.requests[r].decisions[i]]

\* `selected': of several decisions of one policy, the last listed counts.
Selected(r) ==
  {i \in Resolved(r) :
     \A j \in Resolved(r) : E10Decision(r, j).policy = E10Decision(r, i).policy => j <= i}

\* The selected decisions of member policies, and the states they are in.
SelectedOf(r, p) == {i \in Selected(r) : E10Decision(r, i).policy \in MemberPolicies(p)}
States(r, at) == {E10Decision(r, i).state : i \in at}

\* Of the selected members, the one with the least priority (of equals, the
\* one listed first).
Priority(r, p, i) ==
  (CHOOSE m \in MembersOf(p) : m.policy = E10Decision(r, i).policy).priority
Ranked(r, p, i, j) ==
  \/ Priority(r, p, i) < Priority(r, p, j)
  \/ Priority(r, p, i) = Priority(r, p, j) /\ i <= j
First(r, p) ==
  CHOOSE i \in SelectedOf(r, p) : \A j \in SelectedOf(r, p) : Ranked(r, p, i, j)

Outcome == [authorized |-> "permitted", denied |-> "denied", held |-> "held",
            unavailable |-> "unavailable"]

\* The four algorithms; anything else holds the request.
Combine(r, p) ==
  LET states == States(r, SelectedOf(r, p))
      algorithm == reg.profiles[p].algorithm
      decisive == E10Decision(r, First(r, p)).state
  IN  CASE algorithm = "all-authorized" ->
             IF "denied" \in states THEN "denied"
             ELSE IF states = {"authorized"} THEN "permitted" ELSE "held"
        [] algorithm = "deny-overrides" ->
             IF "denied" \in states THEN "denied"
             ELSE IF states \cap {"held", "unavailable"} # {} THEN "held"
             ELSE IF "authorized" \in states THEN "permitted" ELSE "held"
        [] algorithm = "permit-overrides" ->
             IF "authorized" \in states THEN "permitted"
             ELSE IF "denied" \in states THEN "denied"
             ELSE IF "held" \in states THEN "held" ELSE "unavailable"
        [] algorithm = "priority-order" /\ decisive \in DOMAIN Outcome -> Outcome[decisive]
        [] OTHER -> "held"

\* Every required member has a selected decision.
Complete(r, p) ==
  \A m \in MembersOf(p) :
    m.required => \E i \in SelectedOf(r, p) : E10Decision(r, i).policy = m.policy

DeriveBase(r, p) ==
  LET states == States(r, SelectedOf(r, p))
  IN  IF ~Complete(r, p) \/ states = {} THEN "held"
      ELSE IF states = {"unavailable"} THEN "unavailable"
      ELSE Combine(r, p)

(***************************************************************************)
(* Obligations: those the selected decisions of a request call for, and    *)
(* the evaluation that counts for each of them.                            *)
(***************************************************************************)
Triggered(r, o) ==
  LET calling == {i \in Selected(r) : E10Decision(r, i).policy = reg.obligations[o].source}
      trigger == reg.obligations[o].trigger
  IN  \E i \in calling : trigger \in {"always", E10Decision(r, i).state}

Due(r) ==
  {o \in Obligations : /\ reg.obligations[o].profile = reg.requests[r].profile
                       /\ reg.obligations[o].mandatory
                       /\ Triggered(r, o)}

Key(e) == <<reg.evaluations[e].request, reg.evaluations[e].obligation>>
Discharged(r, o) ==
  \E e \in eval_by_key :
    Key(e) = <<r, o>> /\ reg.evaluations[e].state \in {"satisfied", "waived"}

Outstanding(r) == {o \in Due(r) : ~Discharged(r, o)}
Blockers(r) == {o \in Outstanding(r) : reg.obligations[o].phase = "pre-decision"}

-----------------------------------------------------------------------------
(* The loops, one record at a time. *)

ProfileSound(p) ==
  LET profile == reg.profiles[p]
      members == profile.members
  IN  /\ profile.wellformed
      /\ profile.algorithm \in Algorithms
      /\ Len(members) >= 2
      /\ MemberPolicies(p) \subseteq DOMAIN reg.e10_policies
      /\ \E m \in MembersOf(p) : m.required
      /\ \A i, j \in Positions(members) :
           \/ i = j
           \/ /\ members[i].policy # members[j].policy
              /\ profile.algorithm = "priority-order"
                   => members[i].priority # members[j].priority

PolicyRevision(policy) ==
  IF policy \in DOMAIN reg.e10_policies THEN reg.e10_policies[policy] ELSE None

\* (Mutant: the context's own revision is not looked at.)
UpstreamBoundToRequest(r, i) ==
  LET request == reg.requests[r]
      dec == E10Decision(r, i)
      proposal == reg.e10_proposals[dec.proposal]
  IN  /\ dec.proposal \in DOMAIN reg.e10_proposals
      /\ dec.context \in DOMAIN reg.e10_contexts
      /\ proposal.policy = dec.policy
      /\ proposal.context = request.context
      /\ dec.context = request.context
      /\ proposal.subject = request.subject
      /\ dec.revisions = [proposal |-> proposal.revision,
                          policy   |-> PolicyRevision(dec.policy),
                          context  |-> request.context_revision]

\* What check_requests asks of one decision of a member policy: it is about
\* the request's own subject and context, on revisions that are current.
UpstreamBound(r, i) ==
  LET request == reg.requests[r]
      dec == E10Decision(r, i)
      proposal == reg.e10_proposals[dec.proposal]
  IN  /\ dec.proposal \in DOMAIN reg.e10_proposals
      /\ dec.context \in DOMAIN reg.e10_contexts
      /\ proposal.policy = dec.policy
      /\ proposal.context = request.context
      /\ dec.context = request.context
      /\ proposal.subject = request.subject
      /\ dec.revisions = [proposal |-> proposal.revision,
                          policy   |-> PolicyRevision(dec.policy),
                          context  |-> request.context_revision]
      /\ reg.e10_contexts[dec.context] = request.context_revision

\* (Mutant: one id is not listed twice, whatever its policy.)
OneListingPerDecision(r) ==
  \A i, j \in Resolved(r) :
    reg.requests[r].decisions[i] = reg.requests[r].decisions[j] => i = j

OneDecisionPerPolicy(r) ==
  \A i, j \in Resolved(r) : E10Decision(r, i).policy = E10Decision(r, j).policy => i = j

RequestSound(r) ==
  LET request == reg.requests[r]
      listed == request.decisions
  IN  /\ request.profile \in Profiles
      /\ request.wellformed
      /\ listed # <<>>
      /\ \A i, j \in Positions(listed) : listed[i] = listed[j] => i = j
      /\ Resolved(r) = Positions(listed)
      /\ \A i \in Resolved(r) :
           /\ E10Decision(r, i).policy \in MemberPolicies(request.profile)
           /\ UpstreamBound(r, i)
      /\ OneDecisionPerPolicy(r)

ObligationSound(o) ==
  LET obligation == reg.obligations[o]
  IN  /\ obligation.wellformed
      /\ obligation.profile \in Profiles
      /\ obligation.source \in MemberPolicies(obligation.profile)
      /\ obligation.phase \in Stages
      /\ obligation.trigger \in Triggers

\* The request and obligation an exception or evaluation is about.
Resolves(rec) == rec.request \in Requests /\ rec.obligation \in Obligations
OfOneProfile(rec) ==
  reg.obligations[rec.obligation].profile = reg.requests[rec.request].profile

Active(x) == reg.exceptions[x].state = "active"

WaiversAllowed(x) ==
  LET profile == reg.requests[reg.exceptions[x].request].profile
  IN  /\ profile \in Profiles
      /\ reg.profiles[profile].allow_obligation_waivers
      /\ reg.obligations[reg.exceptions[x].obligation].waivable

\* An authorized E10 decision whose proposal waives exactly this obligation.
WaiverAuthorized(x) ==
  LET d == reg.exceptions[x].e10_decision
      dec == reg.e10_decisions[d]
      subject == reg.e10_proposals[dec.proposal].subject
  IN  /\ d \in DOMAIN reg.e10_decisions
      /\ dec.state = "authorized"
      /\ dec.proposal \in DOMAIN reg.e10_proposals
      /\ subject.action = WaiveObligation
      /\ subject.target = reg.exceptions[x].obligation

ExceptionErrors(x) ==
  LET rec == reg.exceptions[x]
      loc == <<"exception", x>>
  IN  Mark(loc, /\ rec.kind = "obligation-waiver"
                /\ rec.state \in ExceptionStates
                /\ Resolves(rec)
                /\ OfOneProfile(rec)
                /\ Active(x) => WaiversAllowed(x) /\ WaiverAuthorized(x))
      \cup IF Resolves(rec) /\ Active(x) THEN EvidenceErrors(rec.evidence, loc) ELSE {}

About(x) == <<reg.exceptions[x].request, reg.exceptions[x].obligation>>

\* Requests for which more than one active waiver is about one obligation.
MultiplyWaived ==
  {reg.exceptions[x].request : x \in
     {x \in active_for : \E y \in active_for \ {x} : About(y) = About(x)}}

\* (Mutant: a waiver of the obligation, for whichever request.)
WaiverBoundToObligation(e) ==
  LET rec == reg.evaluations[e]
  IN  /\ rec.exception \in valid_exceptions
      /\ reg.exceptions[rec.exception].obligation = rec.obligation

\* A waived obligation rests on a valid exception for this very request.
WaiverBound(e) ==
  LET rec == reg.evaluations[e]
  IN  rec.exception \in valid_exceptions /\ About(rec.exception) = Key(e)

EvaluationErrors(e) ==
  LET rec == reg.evaluations[e]
      loc == <<"obligation_evaluation", e>>
  IN  Mark(loc, /\ rec.state \in EvaluationStates
                /\ Resolves(rec)
                /\ OfOneProfile(rec)
                /\ \A other \in eval_by_key : Key(other) # Key(e)
                /\ rec.state = "waived" => WaiverBound(e))
      \cup IF Resolves(rec) /\ rec.state \in {"satisfied", "failed"}
             THEN EvidenceErrors(rec.evidence, loc) ELSE {}

\* The decision's request and profile resolve; only then is it a decision of
\* the request, and only of a valid request is a state derived.
Bound(d) == /\ reg.decisions[d].state \in DecisionStates
            /\ reg.decisions[d].request \in Requests
            /\ reg.decisions[d].profile \in Profiles
Derivable(d) == Bound(d) /\ reg.decisions[d].request \in valid_requests

Derived(d) ==
  LET r == reg.decisions[d].request
      base == DeriveBase(r, reg.decisions[d].profile)
  IN  IF base = "permitted" /\ Blockers(r) # {} THEN "held" ELSE base

DecisionSound(d) ==
  LET dec == reg.decisions[d]
  IN  /\ Derivable(d)
      /\ reg.requests[dec.request].profile = dec.profile
      /\ dec.request \notin seen_req
      /\ dec.state = Derived(d)

Conflicting(r) ==
  {"authorized", "denied"} \subseteq States(r, Resolved(r))

-----------------------------------------------------------------------------
Phases == {"load", "profiles", "requests", "obligations", "exceptions",
           "evaluations", "decisions", "report", "done"}

Section(p) ==
  CASE p = "profiles"    -> Profiles
    [] p = "requests"    -> Requests
    [] p = "obligations" -> Obligations
    [] p = "exceptions"  -> Exceptions
    [] p = "evaluations" -> Evaluations
    [] p = "decisions"   -> Decisions
    [] OTHER             -> {}

After(p) ==
  CASE p = "profiles"    -> "requests"
    [] p = "requests"    -> "obligations"
    [] p = "obligations" -> "exceptions"
    [] p = "exceptions"  -> "evaluations"
    [] p = "evaluations" -> "decisions"
    [] OTHER             -> "report"

NotEvaluated == [structural |-> "pending", composition |-> "not-evaluated",
                 conflict_observation |-> "not-evaluated",
                 residual_obligation |-> "not-evaluated"]

Init ==
  /\ \E f \in Files : reg = RegistryIn(f)
  /\ phase = "load"
  /\ todo = {} /\ errors = {}
  /\ valid_requests = {} /\ valid_exceptions = {}
  /\ active_for = {} /\ eval_by_key = {} /\ seen_req = {}
  /\ composed = {} /\ conflicts = {} /\ residual = {}
  /\ report = NotEvaluated

\* (Mutant: the loop that begins keeps the ids of the one that ended.)
EnterStale(p) == phase' = p /\ todo' = Section(phase)

Enter(p) == phase' = p /\ todo' = Section(p)

Load ==
  /\ phase = "load"
  /\ Enter("profiles")
  /\ errors' = Mark(RegistryFile, ~reg.malformed)
  /\ UNCHANGED <<reg, valid_requests, valid_exceptions, active_for, eval_by_key,
                 seen_req, composed, conflicts, residual, report>>

\* The visit of one record, in the loop over its section.
Visit(p, id) == /\ phase = p
                /\ id \in todo
                /\ todo' = todo \ {id}
                /\ UNCHANGED <<reg, phase, report>>

CheckProfile(p) ==
  /\ Visit("profiles", p)
  /\ errors' = errors \cup Mark(<<"profile", p>>, ProfileSound(p))
  /\ UNCHANGED <<valid_requests, valid_exceptions, active_for, eval_by_key, seen_req,
                 composed, conflicts, residual>>

CheckRequest(r) ==
  /\ Visit("requests", r)
  /\ errors' = errors \cup Mark(<<"request", r>>, RequestSound(r))
  /\ valid_requests' = valid_requests \cup {x \in {r} : RequestSound(x)}
  /\ UNCHANGED <<valid_exceptions, active_for, eval_by_key, seen_req, composed,
                 conflicts, residual>>

CheckObligation(o) ==
  /\ Visit("obligations", o)
  /\ errors' = errors \cup Mark(<<"obligation", o>>, ObligationSound(o))
  /\ UNCHANGED <<valid_requests, valid_exceptions, active_for, eval_by_key, seen_req,
                 composed, conflicts, residual>>

CheckException(x) ==
  /\ Visit("exceptions", x)
  /\ errors' = errors \cup ExceptionErrors(x)
  /\ active_for' = active_for \cup {y \in {x} : Resolves(reg.exceptions[y]) /\ Active(y)}
  /\ valid_exceptions' =
       valid_exceptions \cup
         {y \in {x} : Active(y) /\ <<"exception", y>> \notin ExceptionErrors(y)}
  /\ UNCHANGED <<valid_requests, eval_by_key, seen_req, composed, conflicts, residual>>

CheckEvaluation(e) ==
  /\ Visit("evaluations", e)
  /\ errors' = errors \cup EvaluationErrors(e)
  /\ eval_by_key' =
       IF Resolves(reg.evaluations[e])
         THEN {other \in eval_by_key : Key(other) # Key(e)} \cup {e}
         ELSE eval_by_key
  /\ UNCHANGED <<valid_requests, valid_exceptions, active_for, seen_req, composed,
                 conflicts, residual>>

CheckDecision(d) ==
  LET r == reg.decisions[d].request
  IN  /\ Visit("decisions", d)
      /\ errors' = errors \cup Mark(<<"decision", d>>, DecisionSound(d))
      /\ seen_req' = seen_req \cup {q \in {r} : Bound(d)}
      /\ conflicts' = conflicts \cup {x \in {d} : Derivable(x) /\ Conflicting(r)}
      /\ residual' = residual \cup
           (IF Derivable(d) THEN {d} \X (Outstanding(r) \ Blockers(r)) ELSE {})
      /\ composed' = composed \cup
           {x \in {d} : DecisionSound(x) /\ reg.decisions[x].state = "permitted"}
      /\ UNCHANGED <<valid_requests, valid_exceptions, active_for, eval_by_key>>

EndLoop ==
  /\ phase \in Phases \ {"load", "report", "done"}
  /\ todo = {}
  /\ Enter(After(phase))
  /\ errors' = errors \cup IF phase = "exceptions"
                            THEN {<<"request", r>> : r \in MultiplyWaived} ELSE {}
  /\ UNCHANGED <<reg, valid_requests, valid_exceptions, active_for, eval_by_key,
                 seen_req, composed, conflicts, residual, report>>

Cap(counted) == IF Failed \/ counted = {} THEN "not-evaluated" ELSE "verified"

Report ==
  /\ phase = "report"
  /\ phase' = "done"
  /\ report' = [structural |-> IF Failed THEN "non-conformant" ELSE "conformant",
                composition |-> Cap(composed),
                conflict_observation |-> Cap(conflicts),
                residual_obligation |-> Cap(residual)]
  /\ UNCHANGED <<reg, todo, errors, valid_requests, valid_exceptions, active_for,
                 eval_by_key, seen_req, composed, conflicts, residual>>

Next ==
  \/ Load
  \/ EndLoop
  \/ Report
  \/ \E id \in todo :
       \/ CheckProfile(id)
       \/ CheckRequest(id)
       \/ CheckObligation(id)
       \/ CheckException(id)
       \/ CheckEvaluation(id)
       \/ CheckDecision(id)

Spec == Init /\ [][Next]_vars
-----------------------------------------------------------------------------
(* Properties.  Those about a finished run speak of the registry it was    *)
(* given, not of the checker's own sets.                                   *)

Conformant == phase = "done" /\ report.structural = "conformant"

Capability == {"not-evaluated", "verified"}
Results == [structural : {"pending", "conformant", "non-conformant"},
            composition : Capability, conflict_observation : Capability,
            residual_obligation : Capability]

\* Every set a loop fills holds ids of the registry being checked, and a loop
\* only ever visits ids of the section it iterates over.
TypeOK ==
  /\ phase \in Phases
  /\ todo \subseteq Section(phase)
  /\ valid_requests \subseteq Requests
  /\ valid_exceptions \subseteq active_for
  /\ active_for \subseteq Exceptions
  /\ eval_by_key \subseteq Evaluations
  /\ seen_req \subseteq Requests
  /\ composed \subseteq Decisions
  /\ conflicts \subseteq Decisions
  /\ residual \subseteq Decisions \X Obligations
  /\ report \in Results

Permitted == {d \in Decisions : reg.decisions[d].state = "permitted"}

\* The E10 decisions a composed decision is made of.
Sources(d) ==
  {reg.e10_decisions[x] : x \in
     {reg.requests[reg.decisions[d].request].decisions[i] :
        i \in Positions(reg.requests[reg.decisions[d].request].decisions)}}
RequiredPolicies(d) ==
  LET members == reg.profiles[reg.decisions[d].profile].members
  IN  {members[i].policy : i \in {i \in Positions(members) : members[i].required}}

\* What each algorithm asks of a permission, in the words of section 7 of the
\* E13 text: over all decisions of the request, and their members' priorities.
Admits(d) ==
  LET profile == reg.profiles[reg.decisions[d].profile]
      rank(s) == {profile.members[i].priority : i \in
                    {i \in Positions(profile.members) : profile.members[i].policy = s.policy}}
  IN  CASE profile.algorithm = "all-authorized" ->
             \A s \in Sources(d) : s.state = "authorized"
        [] profile.algorithm = "deny-overrides" ->
             /\ \E s \in Sources(d) : s.state = "authorized"
             /\ \A s \in Sources(d) : s.state \notin {"denied", "held", "unavailable"}
        [] profile.algorithm = "permit-overrides" ->
             \E s \in Sources(d) : s.state = "authorized"
        [] OTHER ->
             \E s \in Sources(d) :
               /\ s.state = "authorized"
               /\ \A t \in Sources(d) : \A m \in rank(s), n \in rank(t) : m <= n

\* Three loops count the decisions of a request in three ways (check_requests
\* by first sight, derive_base and active_obligations by the last listed per
\* policy, the conflict count over all): in a conformant registry a permission
\* is what the named algorithm makes of all of them, no required policy is
\* missing, and there is no second composed decision of the request.
PermissionIsDerived ==
  Conformant =>
    \A d \in Permitted :
      /\ Admits(d)
      /\ RequiredPolicies(d) \subseteq {s.policy : s \in Sources(d)}
      /\ \A e \in Decisions : reg.decisions[e].request = reg.decisions[d].request => e = d

\* Decisions about similar operations are never composed: everything a
\* composed decision is made of, whatever its outcome, is about one subject in
\* one context, and was taken on revisions of proposal, policy and context
\* that are still the current ones (check_requests, check_decisions).
OneSubject ==
  Conformant =>
    \A d \in Decisions :
      LET r == reg.requests[reg.decisions[d].request]
      IN  \A s \in Sources(d) :
            /\ reg.e10_proposals[s.proposal].subject = r.subject
            /\ s.context = r.context
            /\ s.revisions.proposal = reg.e10_proposals[s.proposal].revision
            /\ s.revisions.policy = reg.e10_policies[s.policy]
            /\ s.revisions.context = reg.e10_contexts[r.context]

\* The obligations that hold back a permission, from the source policies'
\* states alone.
Called(d, o) ==
  LET ob == reg.obligations[o]
  IN  /\ ob.profile = reg.decisions[d].profile
      /\ ob.mandatory /\ ob.phase = "pre-decision"
      /\ \E s \in Sources(d) : s.policy = ob.source /\ ob.trigger \in {"always", s.state}

\* A waiver somebody was authorized to give for exactly this obligation.
WaivedBy(x, r, o) ==
  LET rec == reg.exceptions[x]
      dec == reg.e10_decisions[rec.e10_decision]
  IN  /\ rec.state = "active"
      /\ rec.request = r /\ rec.obligation = o
      /\ rec.evidence = "ok"
      /\ reg.obligations[o].waivable
      /\ reg.profiles[reg.obligations[o].profile].allow_obligation_waivers
      /\ dec.state = "authorized"
      /\ reg.e10_proposals[dec.proposal].subject.action = WaiveObligation
      /\ reg.e10_proposals[dec.proposal].subject.target = o

\* Nothing is permitted over an open obligation: in a conformant registry every
\* mandatory pre-decision obligation that the composed decisions call for has
\* one evaluation, and it is satisfied on evidence that is really there, or
\* waived by the only active, authorized waiver of that very obligation.
ObligationsMet ==
  Conformant =>
    \A d \in Permitted :
      LET r == reg.decisions[d].request
      IN  \A o \in {o \in Obligations : Called(d, o)} :
            \E e \in Evaluations :
              /\ Key(e) = <<r, o>>
              /\ \A other \in Evaluations : Key(other) = <<r, o>> => other = e
              /\ \/ /\ reg.evaluations[e].state = "satisfied"
                    /\ reg.evaluations[e].evidence = "ok"
                 \/ /\ reg.evaluations[e].state = "waived"
                    /\ reg.evaluations[e].exception \in Exceptions
                    /\ WaivedBy(reg.evaluations[e].exception, r, o)
                    /\ \A y \in Exceptions :
                         About(y) = <<r, o>> /\ Active(y)
                           => y = reg.evaluations[e].exception
==============================================================================
