---------------------------- MODULE AutomationCheck ----------------------------
(***************************************************************************)
(* The E10 checker, tools/eigiib_automation_check.py: one execution of     *)
(* Checker.run() over the automation registry and the E9 decisions.  The   *)
(* records of a section are visited in any order, one per step; the loop   *)
(* over the approvals of a decision takes one step per approval.           *)
(***************************************************************************)
EXTENDS Integers, Sequences, FiniteSets

CONSTANTS
  Files,          \* the registry files a run may be given
  RegistryIn(_)   \* what one of them holds, with the E9 file beside it

(***************************************************************************)
(* A registry is a record of sections, each a function from ids to records.*)
(*                                                                         *)
(*   flaws          what is wrong with the files: the `file' is unreadable,*)
(*                  of another standard or its decisions are no array of   *)
(*                  objects; its `form' has another error of load() or     *)
(*                  map_items(), a repeated id (the last counts) included  *)
(*   principals     wellformed (kind, scopes), status, automation, direct  *)
(*                  (the scopes of its own)                                *)
(*   delegations    wellformed (scopes), delegator, delegate, status,      *)
(*                  scopes, evidence (or None)                             *)
(*   contexts       wellformed, revision, e9 (an E9 decision, or None)     *)
(*   policies       wellformed (strings and booleans), revision,           *)
(*                  action_scope, approval_scope, required_approvals,      *)
(*                  allow_self_approval, allow_automation_actor,           *)
(*                  allow_automation_executor, max_delegation_depth,       *)
(*                  require_e9_context, allowed_e9_states                  *)
(*   proposals      wellformed, revision, scope, actor, executor, policy,  *)
(*                  context                                                *)
(*   approvals      wellformed (authority_path is an array), proposal,     *)
(*                  approver, state, revisions, path, evidence             *)
(*   decisions      wellformed (its lists are arrays), proposal, policy,   *)
(*                  context, state, revisions, path, approvals             *)
(*   executions     wellformed, decision, executor, state, path, evidence  *)
(*   effects        execution, state, evidence                             *)
(*   traces         wellformed (participants is an array), decision,       *)
(*                  execution, effect, participants, state, evidence       *)
(*   e9             the state of every E9 decision                         *)
(*                                                                         *)
(* `revisions' holds the revisions of proposal, policy and context that a  *)
(* record was written for; each is None when it is no non-empty string.    *)
(* Approval counts and depths are integers: on anything else the program   *)
(* stops with a TypeError and reports nothing.                             *)
(***************************************************************************)
None == "none"
E9States == {"degraded-safe", "fallback-verified", "partial-trust-available",
             "nominal-restored", "unsafe", "unavailable"}

\* An absent reference is no id; lists are sequences of ids (what is no string
\* resolves no better than an unknown id); what is compared with their lengths
\* is an integer.
ASSUME RegistryAssumption ==
  \A f \in Files :
    LET r == RegistryIn(f)
    IN  /\ None \notin DOMAIN r.decisions
        /\ \A p \in DOMAIN r.policies :
             /\ r.policies[p].required_approvals \in Int
             /\ r.policies[p].max_delegation_depth \in Int
        /\ \A a \in DOMAIN r.approvals : r.approvals[a].path \in Seq(STRING)
        /\ \A d \in DOMAIN r.decisions : /\ r.decisions[d].path \in Seq(STRING)
                                        /\ r.decisions[d].approvals \in Seq(STRING)
        /\ \A x \in DOMAIN r.executions : r.executions[x].path \in Seq(STRING)

VARIABLES
  reg,         \* the registries being checked (never written)
  phase,       \* the loop of check_base ... check_traces
  todo,        \* ids the loop has still to visit
  errors,      \* locations of the error findings
  quorum,      \* the loop over the approvals of one decision, or NoQuorum
  delegated,   \* locations counted by delegation_verified
  authorized,  \* valid_authorizations
  executed,    \* valid_executions
  witnessed,   \* valid_effects
  accounted,   \* traces counted by accountability_verified
  report       \* the bounded results

vars == <<reg, phase, todo, errors, quorum, delegated, authorized, executed,
          witnessed, accounted, report>>

NoQuorum == [decision |-> None, left |-> <<>>, seen |-> {}, valid |-> {}]

RegistryFile == <<"file", "registry">>
EvidenceFile == <<"file", "evidence">>
Mark(loc, sound) == IF sound THEN {} ELSE {loc}
\* evidence_valid: a missing file is recorded against its path.
EvidenceErrors(evidence, loc) ==
  CASE evidence = "ok"      -> {}
    [] evidence = "missing" -> {EvidenceFile}
    [] OTHER                -> {loc}

Listed(list) == {list[n] : n \in 1..Len(list)}

Failed == errors # {}

-----------------------------------------------------------------------------
(* check_base: what each kind of record must satisfy by itself. *)

Principals == DOMAIN reg.principals
Active(p) == p \in Principals /\ reg.principals[p].status = "active"

PrincipalSound(p) ==
  /\ reg.principals[p].wellformed
  /\ reg.principals[p].status \in {"active", "suspended", "retired", "unknown"}

DelegationSound(g) ==
  LET delegation == reg.delegations[g]
  IN  /\ delegation.wellformed
      /\ {delegation.delegator, delegation.delegate} \subseteq Principals
      /\ delegation.delegator # delegation.delegate
      /\ delegation.status \in {"active", "suspended", "revoked", "retired", "unknown"}
      /\ delegation.scopes # {}

\* (Mutant: a required E9 context may come with no admissible state.)
PolicySoundAnyState(p) ==
  /\ reg.policies[p].wellformed
  /\ reg.policies[p].required_approvals >= 0
  /\ reg.policies[p].max_delegation_depth >= 0

PolicySound(p) ==
  LET policy == reg.policies[p]
  IN  /\ policy.wellformed
      /\ policy.required_approvals >= 0
      /\ policy.max_delegation_depth >= 0
      /\ policy.allowed_e9_states \subseteq E9States
      /\ policy.require_e9_context => policy.allowed_e9_states # {}

ProposalSound(q) ==
  LET proposal == reg.proposals[q]
  IN  /\ proposal.wellformed
      /\ {proposal.actor, proposal.executor} \subseteq Principals
      /\ proposal.policy \in DOMAIN reg.policies
      /\ proposal.context \in DOMAIN reg.contexts

ApprovalSound(a) ==
  LET approval == reg.approvals[a]
  IN  /\ approval.wellformed
      /\ approval.proposal \in DOMAIN reg.proposals
      /\ approval.approver \in Principals
      /\ approval.state \in {"approved", "rejected", "abstained", "withdrawn",
                             "unavailable"}

RecordErrors(p, id) ==
  CASE p = "principals"  -> Mark(<<p, id>>, PrincipalSound(id))
    [] p = "delegations" ->
         Mark(<<p, id>>, DelegationSound(id))
           \cup IF reg.delegations[id].evidence # None
                  THEN EvidenceErrors(reg.delegations[id].evidence, <<p, id>>) ELSE {}
    [] p = "contexts"    -> Mark(<<p, id>>, reg.contexts[id].wellformed)
    [] p = "policies"    -> Mark(<<p, id>>, PolicySound(id))
    [] p = "proposals"   -> Mark(<<p, id>>, ProposalSound(id))
    [] p = "approvals"   ->
         Mark(<<p, id>>, ApprovalSound(id))
           \cup IF reg.approvals[id].state = "approved"
                  THEN EvidenceErrors(reg.approvals[id].evidence, <<p, id>>) ELSE {}
    [] OTHER -> {}

-----------------------------------------------------------------------------
(* verify_authority_path and approval_valid. *)

\* The principals an authority path leads through, its root first.
Along(path) ==
  [n \in 1..(Len(path) + 1) |->
     IF n = 1 THEN reg.delegations[path[1]].delegator
     ELSE reg.delegations[path[n - 1]].delegate]

\* (Mutant: a delegation follows from any earlier one.)
ContiguousAfterRoot(path) ==
  \A n \in 3..Len(path) :
    reg.delegations[path[n]].delegator = reg.delegations[path[n - 1]].delegate

Contiguous(path) ==
  \A n \in 2..Len(path) :
    reg.delegations[path[n]].delegator = reg.delegations[path[n - 1]].delegate

\* The path leads from an active principal with the scope of its own, over
\* active delegations of that scope, to `target', and repeats nobody.
DelegatedTo(target, scope, path) ==
  /\ \A n \in 1..Len(path) : path[n] \in DOMAIN reg.delegations
  /\ Active(Along(path)[1])
  /\ scope \in reg.principals[Along(path)[1]].direct
  /\ \A n \in 1..Len(path) :
       LET delegation == reg.delegations[path[n]]
       IN  /\ delegation.status = "active"
           /\ Active(delegation.delegator) /\ Active(delegation.delegate)
           /\ scope \in delegation.scopes
  /\ Contiguous(path)
  /\ Along(path)[Len(path) + 1] = target
  /\ \A m, n \in 1..(Len(path) + 1) : Along(path)[m] = Along(path)[n] => m = n

\* verify_authority_path.
Authority(p, scope, record, max_depth) ==
  /\ Active(p)
  /\ record.wellformed
  /\ Len(record.path) <= max_depth
  /\ IF record.path = <<>> THEN scope \in reg.principals[p].direct
     ELSE DelegatedTo(p, scope, record.path)

\* delegation_verified counts the authorities that are not direct.
Delegated(loc, p, scope, record, max_depth) ==
  IF Authority(p, scope, record, max_depth) /\ record.path # <<>> THEN {loc} ELSE {}

\* The revisions a decision or approval on this boundary must carry.
Current(q, p, c) ==
  [proposal |-> reg.proposals[q].revision, policy |-> reg.policies[p].revision,
   context |-> reg.contexts[c].revision]

\* approval_valid up to its last test, for an approval in state approved.
ApprovalFits(a, d) ==
  LET approval == reg.approvals[a]
      dec == reg.decisions[d]
      proposal == reg.proposals[dec.proposal]
  IN  /\ approval.revisions = Current(dec.proposal, dec.policy, dec.context)
      /\ \/ approval.approver \notin {proposal.actor, proposal.executor}
         \/ reg.policies[dec.policy].allow_self_approval

ApprovalAuthority(a, d) ==
  LET policy == reg.policies[reg.decisions[d].policy]
  IN  Authority(reg.approvals[a].approver, policy.approval_scope,
                reg.approvals[a], policy.max_delegation_depth)

Counts(a, d) ==
  /\ reg.approvals[a].state = "approved"
  /\ ApprovalFits(a, d)
  /\ reg.approvals[a].evidence = "ok"
  /\ ApprovalAuthority(a, d)

ApprovalErrors(a, d) ==
  LET loc == <<"decisions", d>>
  IN  IF reg.approvals[a].state # "approved" THEN {}
      ELSE IF reg.approvals[a].revisions
                = Current(reg.decisions[d].proposal, reg.decisions[d].policy,
                          reg.decisions[d].context)
              /\ reg.approvals[a].evidence # "ok"
        THEN EvidenceErrors(reg.approvals[a].evidence, loc)
      ELSE Mark(loc, ApprovalFits(a, d) /\ ApprovalAuthority(a, d))

-----------------------------------------------------------------------------
(* check_decisions. *)

DecisionStates == {"authorized", "denied", "held", "unavailable"}

\* Otherwise the loop records an error and continues with the next decision.
Traceable(d) ==
  LET dec == reg.decisions[d]
  IN  /\ dec.state \in DecisionStates
      /\ dec.proposal \in DOMAIN reg.proposals
      /\ dec.policy \in DOMAIN reg.policies
      /\ dec.context \in DOMAIN reg.contexts

RevisionsGiven(d) ==
  LET given == reg.decisions[d].revisions
  IN  None \notin {given.proposal, given.policy, given.context}

\* The decision is about its proposal's own boundary, at its current revisions.
OnProposal(d) ==
  LET dec == reg.decisions[d]
  IN  /\ reg.proposals[dec.proposal].policy = dec.policy
      /\ reg.proposals[dec.proposal].context = dec.context

\* (Mutant: the policy revision is not compared.)
BoundToCurrentExceptPolicy(d) ==
  LET dec == reg.decisions[d]
      current == Current(dec.proposal, dec.policy, dec.context)
  IN  /\ OnProposal(d)
      /\ dec.revisions.proposal = current.proposal
      /\ dec.revisions.context = current.context

BoundToCurrent(d) ==
  LET dec == reg.decisions[d]
  IN  /\ OnProposal(d)
      /\ dec.revisions = Current(dec.proposal, dec.policy, dec.context)

E9Admits(d) ==
  LET policy == reg.policies[reg.decisions[d].policy]
      e9 == reg.contexts[reg.decisions[d].context].e9
  IN  IF e9 = None THEN ~policy.require_e9_context
      ELSE /\ e9 \in DOMAIN reg.e9
           /\ \/ policy.allowed_e9_states = {}
              \/ reg.e9[e9] \in policy.allowed_e9_states

ActorAuthority(d) ==
  LET dec == reg.decisions[d]
      proposal == reg.proposals[dec.proposal]
  IN  Authority(proposal.actor, proposal.scope, dec,
                reg.policies[dec.policy].max_delegation_depth)

\* What an authorized decision needs besides its approvals.
PremisesSound(d) ==
  LET dec == reg.decisions[d]
      proposal == reg.proposals[dec.proposal]
      policy == reg.policies[dec.policy]
  IN  /\ dec.wellformed
      /\ RevisionsGiven(d)
      /\ BoundToCurrent(d)
      /\ proposal.scope = policy.action_scope
      /\ (proposal.actor \in Principals /\ reg.principals[proposal.actor].automation)
           => policy.allow_automation_actor
      /\ ActorAuthority(d)
      /\ E9Admits(d)

\* (Mutant: the loop remembers the approvals and not who gave them.)
RepeatsApproval(a) == a \in quorum.valid

\* `approver in seen'.
RepeatsApprover(a) == reg.approvals[a].approver \in quorum.seen

\* An approval of this proposal, by somebody not met before.
Admissible(a) ==
  /\ a \in DOMAIN reg.approvals
  /\ reg.approvals[a].proposal = reg.decisions[quorum.decision].proposal
  /\ ~RepeatsApprover(a)

QuorumMet ==
  LET dec == reg.decisions[quorum.decision]
  IN  Cardinality(quorum.valid) >= reg.policies[dec.policy].required_approvals

-----------------------------------------------------------------------------
(* check_executions_effects and check_traces. *)

ExecutionSound(x) ==
  LET execution == reg.executions[x]
      dec == reg.decisions[execution.decision]
      proposal == reg.proposals[dec.proposal]
      policy == reg.policies[dec.policy]
  IN  /\ execution.state \in {"attempted", "succeeded", "failed", "aborted",
                              "unavailable"}
      /\ execution.decision \in authorized
      /\ execution.executor \in Principals
      /\ execution.executor = proposal.executor
      /\ reg.principals[execution.executor].automation
           => policy.allow_automation_executor
      /\ Authority(execution.executor, proposal.scope, execution,
                   policy.max_delegation_depth)

\* Only a record that passes its first tests reaches the test of its evidence.
Evaluated(x) ==
  /\ reg.executions[x].state \in {"succeeded"}
  /\ reg.executions[x].decision \in authorized
  /\ reg.executions[x].executor \in Principals

ExecutionErrors(x) ==
  LET loc == <<"executions", x>>
  IN  Mark(loc, ExecutionSound(x))
      \cup IF Evaluated(x) THEN EvidenceErrors(reg.executions[x].evidence, loc) ELSE {}

ExecutorDelegated(x) ==
  LET execution == reg.executions[x]
      dec == reg.decisions[execution.decision]
  IN  IF /\ execution.state \in {"attempted", "succeeded", "failed", "aborted",
                                 "unavailable"}
         /\ execution.decision \in authorized
        THEN Delegated(<<"executions", x>>, execution.executor,
                       reg.proposals[dec.proposal].scope, execution,
                       reg.policies[dec.policy].max_delegation_depth)
      ELSE {}

EffectSound(e) ==
  /\ reg.effects[e].state \in {"observed", "partially-observed", "not-observed",
                               "unavailable"}
  /\ reg.effects[e].execution \in executed

EffectErrors(e) ==
  LET loc == <<"effects", e>>
  IN  Mark(loc, EffectSound(e))
      \cup IF EffectSound(e)
                /\ reg.effects[e].state \in {"observed", "partially-observed"}
             THEN EvidenceErrors(reg.effects[e].evidence, loc) ELSE {}

\* The references of a trace are one chain.
OneChain(t) ==
  LET trace == reg.traces[t]
  IN  /\ reg.executions[trace.execution].decision = trace.decision
      /\ reg.effects[trace.effect].execution = trace.execution

\* (Mutant: the executor need not be named.)
ConcernedInDecision(t) ==
  LET dec == reg.decisions[reg.traces[t].decision]
  IN  {reg.proposals[dec.proposal].actor}
      \cup {reg.approvals[a].approver :
              a \in {b \in Listed(dec.approvals) : reg.approvals[b].state = "approved"}}

\* Who acted, executed or approved.
Concerned(t) ==
  LET dec == reg.decisions[reg.traces[t].decision]
  IN  {reg.proposals[dec.proposal].actor,
       reg.executions[reg.traces[t].execution].executor}
      \cup {reg.approvals[a].approver :
              a \in {b \in Listed(dec.approvals) \cap DOMAIN reg.approvals :
                       reg.approvals[b].state = "approved"}}

TraceSound(t) ==
  LET trace == reg.traces[t]
  IN  /\ trace.decision \in authorized
      /\ trace.execution \in executed
      /\ trace.effect \in witnessed
      /\ OneChain(t)
      /\ trace.wellformed
      /\ trace.participants \subseteq Principals
      /\ Concerned(t) \subseteq trace.participants

TraceErrors(t) ==
  LET loc == <<"traces", t>>
      trace == reg.traces[t]
  IN  IF trace.state = "trace-complete"
        THEN Mark(loc, TraceSound(t))
             \cup IF TraceSound(t) /\ trace.evidence # None
                    THEN EvidenceErrors(trace.evidence, loc) ELSE {}
      ELSE Mark(loc, trace.state \in {"trace-partial", "disputed", "unavailable"})

-----------------------------------------------------------------------------
(* The run. *)

BaseSections == {"principals", "delegations", "contexts", "policies", "proposals",
                 "approvals"}
Loops == BaseSections \cup {"decisions", "executions", "effects", "traces"}
Phases == Loops \cup {"load", "report", "done"}

Section(p) == IF p \in Loops THEN DOMAIN reg[p] ELSE {}

After(p) ==
  CASE p = "principals"  -> "delegations"
    [] p = "delegations" -> "contexts"
    [] p = "contexts"    -> "policies"
    [] p = "policies"    -> "proposals"
    [] p = "proposals"   -> "approvals"
    [] p = "approvals"   -> "decisions"
    [] p = "decisions"   -> "executions"
    [] p = "executions"  -> "effects"
    [] p = "effects"     -> "traces"
    [] OTHER             -> "report"

Init ==
  /\ \E f \in Files : reg = RegistryIn(f)
  /\ phase = "load"
  /\ todo = {}
  /\ errors = {}
  /\ quorum = NoQuorum
  /\ delegated = {}
  /\ authorized = {}
  /\ executed = {}
  /\ witnessed = {}
  /\ accounted = {}
  /\ report = [structural |-> "pending", delegation |-> "not-evaluated",
               authorization |-> "not-evaluated", execution |-> "not-evaluated",
               effect |-> "not-evaluated", accountability |-> "not-evaluated"]

\* (Mutant: the loop iterates over the section of the loop before.)
EnterStale(p) == phase' = p /\ todo' = Section(phase)

Enter(p) == phase' = p /\ todo' = Section(p)

\* load(), load_e9() and map_items().
Load ==
  /\ phase = "load"
  /\ errors' = Mark(RegistryFile, reg.flaws = {})
  /\ Enter("principals")
  /\ UNCHANGED <<reg, quorum, delegated, authorized, executed, witnessed, accounted,
                 report>>

EndLoop ==
  /\ phase \in Loops
  /\ todo = {}
  /\ quorum = NoQuorum
  /\ Enter(After(phase))
  /\ UNCHANGED <<reg, errors, quorum, delegated, authorized, executed, witnessed,
                 accounted, report>>

Visit(id) ==
  /\ quorum = NoQuorum
  /\ id \in todo
  /\ todo' = todo \ {id}
  /\ UNCHANGED <<reg, phase, report>>

CheckBase(id) ==
  /\ phase \in BaseSections
  /\ Visit(id)
  /\ errors' = errors \cup RecordErrors(phase, id)
  /\ UNCHANGED <<quorum, delegated, authorized, executed, witnessed, accounted>>

\* A decision that is not authorized, or that is about nothing.
CheckNegative(d) ==
  /\ phase = "decisions"
  /\ Visit(d)
  /\ ~Traceable(d) \/ reg.decisions[d].state # "authorized"
  /\ errors' = errors \cup Mark(<<"decisions", d>>, Traceable(d) /\ RevisionsGiven(d))
  /\ UNCHANGED <<quorum, delegated, authorized, executed, witnessed, accounted>>

StartQuorum(d) ==
  /\ phase = "decisions"
  /\ Visit(d)
  /\ Traceable(d) /\ reg.decisions[d].state = "authorized"
  /\ errors' = errors \cup Mark(<<"decisions", d>>, PremisesSound(d))
  /\ delegated' =
       delegated \cup LET dec == reg.decisions[d]
                          proposal == reg.proposals[dec.proposal]
                      IN  Delegated(<<"decisions", d>>, proposal.actor, proposal.scope,
                                    dec, reg.policies[dec.policy].max_delegation_depth)
  /\ quorum' = [decision |-> d, left |-> reg.decisions[d].approvals, seen |-> {},
                valid |-> {}]
  /\ UNCHANGED <<authorized, executed, witnessed, accounted>>

\* A reference that does not resolve, or resolves to somebody already met.
RefuseApproval ==
  /\ quorum.left # <<>>
  /\ ~Admissible(Head(quorum.left))
  /\ errors' = errors \cup {<<"decisions", quorum.decision>>}
  /\ quorum' = [quorum EXCEPT !.left = Tail(@)]
  /\ UNCHANGED <<reg, phase, todo, delegated, authorized, executed, witnessed,
                 accounted, report>>

JudgeApproval ==
  /\ quorum.left # <<>>
  /\ LET a == Head(quorum.left)
         d == quorum.decision
         policy == reg.policies[reg.decisions[d].policy]
     IN  /\ Admissible(a)
         /\ errors' = errors \cup ApprovalErrors(a, d)
         /\ delegated' =
              delegated \cup IF Counts(a, d)
                               THEN Delegated(<<"decisions", d>>,
                                              reg.approvals[a].approver,
                                              policy.approval_scope, reg.approvals[a],
                                              policy.max_delegation_depth)
                             ELSE {}
         /\ quorum' = [quorum EXCEPT
                         !.left = Tail(@),
                         !.seen = @ \cup {reg.approvals[a].approver},
                         !.valid = @ \cup IF Counts(a, d) THEN {a} ELSE {}]
  /\ UNCHANGED <<reg, phase, todo, authorized, executed, witnessed, accounted, report>>

EndQuorum ==
  /\ quorum # NoQuorum
  /\ quorum.left = <<>>
  /\ errors' = errors \cup Mark(<<"decisions", quorum.decision>>, QuorumMet)
  /\ authorized' =
       authorized \cup IF <<"decisions", quorum.decision>> \notin errors'
                         THEN {quorum.decision} ELSE {}
  /\ quorum' = NoQuorum
  /\ UNCHANGED <<reg, phase, todo, delegated, executed, witnessed, accounted, report>>

CheckExecution(x) ==
  /\ phase = "executions"
  /\ Visit(x)
  /\ errors' = errors \cup ExecutionErrors(x)
  /\ executed' =
       executed \cup IF <<"executions", x>> \notin ExecutionErrors(x) THEN {x} ELSE {}
  /\ delegated' = delegated \cup ExecutorDelegated(x)
  /\ UNCHANGED <<quorum, authorized, witnessed, accounted>>

CheckEffect(e) ==
  /\ phase = "effects"
  /\ Visit(e)
  /\ errors' = errors \cup EffectErrors(e)
  /\ witnessed' =
       witnessed \cup IF <<"effects", e>> \notin EffectErrors(e) THEN {e} ELSE {}
  /\ UNCHANGED <<quorum, delegated, authorized, executed, accounted>>

CheckTrace(t) ==
  /\ phase = "traces"
  /\ Visit(t)
  /\ errors' = errors \cup TraceErrors(t)
  /\ accounted' =
       accounted \cup IF /\ reg.traces[t].state = "trace-complete"
                         /\ <<"traces", t>> \notin TraceErrors(t)
                        THEN {t} ELSE {}
  /\ UNCHANGED <<quorum, delegated, authorized, executed, witnessed>>

\* A positive result needs a record that counts and no error anywhere.
Cap(counted, result) == IF Failed \/ counted = {} THEN "not-evaluated" ELSE result

Report ==
  /\ phase = "report"
  /\ phase' = "done"
  /\ report' =
       [structural     |-> IF Failed THEN "non-conformant" ELSE "conformant",
        delegation     |-> Cap(delegated, "verified"),
        authorization  |-> Cap(authorized, "verified"),
        execution      |-> Cap(executed, "verified"),
        effect         |-> Cap({e \in witnessed : reg.effects[e].state = "observed"},
                               "observed"),
        accountability |-> Cap(accounted, "verified")]
  /\ UNCHANGED <<reg, todo, errors, quorum, delegated, authorized, executed,
                 witnessed, accounted>>

Next ==
  \/ Load
  \/ EndLoop
  \/ RefuseApproval
  \/ JudgeApproval
  \/ EndQuorum
  \/ Report
  \/ \E id \in todo :
       \/ CheckBase(id)
       \/ CheckNegative(id)
       \/ StartQuorum(id)
       \/ CheckExecution(id)
       \/ CheckEffect(id)
       \/ CheckTrace(id)

Spec == Init /\ [][Next]_vars

-----------------------------------------------------------------------------
(* Properties. *)

Conformant == phase = "done" /\ report.structural = "conformant"

TypeOK ==
  /\ phase \in Phases
  /\ todo \subseteq Section(phase)
  /\ quorum = NoQuorum \/ (phase = "decisions" /\ quorum.decision \in Section(phase))
  /\ authorized \subseteq DOMAIN reg.decisions
  /\ executed \subseteq DOMAIN reg.executions
  /\ witnessed \subseteq DOMAIN reg.effects
  /\ accounted \subseteq DOMAIN reg.traces
  /\ report \in [structural : {"pending", "conformant", "non-conformant"},
                 delegation : {"not-evaluated", "verified"},
                 authorization : {"not-evaluated", "verified"},
                 execution : {"not-evaluated", "verified"},
                 effect : {"not-evaluated", "observed"},
                 accountability : {"not-evaluated", "verified"}]

AuthorizedDecisions == {d \in DOMAIN reg.decisions : reg.decisions[d].state = "authorized"}
Proposal(d) == reg.proposals[reg.decisions[d].proposal]
Policy(d) == reg.policies[reg.decisions[d].policy]

\* The scope of a principal can only come from active principals that have it
\* of their own, handed on over active delegations of that scope: whoever has
\* it belongs to every set of principals that contains the first and is closed
\* under the second.
Grounded(p, scope) ==
  \A S \in SUBSET Principals :
    /\ \A root \in Principals :
         Active(root) /\ scope \in reg.principals[root].direct => root \in S
    /\ \A g \in DOMAIN reg.delegations :
         LET delegation == reg.delegations[g]
         IN  /\ delegation.status = "active" /\ scope \in delegation.scopes
             /\ delegation.delegator \in S /\ Active(delegation.delegate)
             => delegation.delegate \in S
    => p \in S

\* In a conformant registry nobody acts, executes or approves with authority
\* that no root has (verify_authority_path, E10 section 4: a delegation must not
\* create authority ex nihilo).
AuthorityHasRoot ==
  Conformant =>
    /\ \A d \in AuthorizedDecisions : Grounded(Proposal(d).actor, Proposal(d).scope)
    /\ \A x \in DOMAIN reg.executions :
         Grounded(reg.executions[x].executor,
                  Proposal(reg.executions[x].decision).scope)

\* The principals whose approval a decision lists and that E10 section 8 admits:
\* in state approved, for the decision's very revisions, grounded, and not the
\* actor's or the executor's own unless the policy allows that.
Approvers(d) ==
  LET dec == reg.decisions[d]
  IN  {reg.approvals[a].approver :
         a \in {b \in Listed(dec.approvals) :
                  /\ reg.approvals[b].state = "approved"
                  /\ reg.approvals[b].proposal = dec.proposal
                  /\ reg.approvals[b].revisions = dec.revisions
                  /\ Grounded(reg.approvals[b].approver, Policy(d).approval_scope)
                  /\ \/ Policy(d).allow_self_approval
                     \/ reg.approvals[b].approver
                          \notin {Proposal(d).actor, Proposal(d).executor}}}

\* An authorized decision of a conformant registry was approved by as many
\* different principals as its policy requires, however its approvals are listed
\* (the loop over `approvals' in check_decisions).
QuorumOfPrincipals ==
  Conformant =>
    \A d \in AuthorizedDecisions :
      Cardinality(Approvers(d)) >= Policy(d).required_approvals

\* A policy that requires an E9 context never lets a decision be authorized in a
\* context whose E9 state it does not list (check_base and check_decisions).
ContextIsAdmitted ==
  Conformant =>
    \A d \in AuthorizedDecisions :
      Policy(d).require_e9_context =>
        LET e9 == reg.contexts[reg.decisions[d].context].e9
        IN  e9 \in DOMAIN reg.e9 /\ reg.e9[e9] \in Policy(d).allowed_e9_states

\* A complete trace of a conformant registry is the trace of one effect: of an
\* execution, by the executor its proposal asked for, under an authorized
\* decision; and nobody whose approval counted, who acted or who executed is
\* left out of it (check_traces).
TraceIsComplete ==
  Conformant =>
    \A t \in {u \in DOMAIN reg.traces : reg.traces[u].state = "trace-complete"} :
      LET trace == reg.traces[t]
          execution == reg.executions[reg.effects[trace.effect].execution]
      IN  /\ reg.effects[trace.effect].execution = trace.execution
          /\ execution.decision = trace.decision
          /\ trace.decision \in AuthorizedDecisions
          /\ execution.executor = Proposal(trace.decision).executor
          /\ Approvers(trace.decision)
               \cup {execution.executor, Proposal(trace.decision).actor}
               \subseteq trace.participants
==============================================================================
