---------------------------- MODULE PolicyHardening ----------------------------
(***************************************************************************)
(* The E13-H0.2 checker, tools/eigiib_policy_composition_hardening_check.py*)
(* It runs the E13 checker of PolicyCheck itself, over the same files, and *)
(* looks at requests and waivers only where that checker found nothing.    *)
(***************************************************************************)
EXTENDS PolicyCheck

VARIABLES
  h_phase, h_todo, h_errors,
  required_ok, waiver_ok, state_ok,   \* what the three counters counted
  h_report

h_vars == <<h_phase, h_todo, h_errors, required_ok, waiver_ok, state_ok, h_report>>

E10States == {"authorized", "denied", "held", "unavailable"}
Conclusive == {"authorized", "denied"}

KnownStates(r) == States(r, Resolved(r)) \subseteq E10States
Permits(r) == \E d \in Decisions : /\ reg.decisions[d].request = r
                                  /\ reg.decisions[d].state = "permitted"

\* (Mutant: any decision will do.)
InconclusiveIfAbsent(r) ==
  {m \in MembersOf(reg.requests[r].profile) :
     m.required /\ ~ \E i \in Selected(r) : E10Decision(r, i).policy = m.policy}

\* Required members whose decision is none, held or unavailable.
Inconclusive(r) ==
  {m \in MembersOf(reg.requests[r].profile) :
     /\ m.required
     /\ ~ \E i \in Selected(r) : /\ E10Decision(r, i).policy = m.policy
                                /\ E10Decision(r, i).state \in Conclusive}

\* What the loop over exceptions looks at, once request and decision resolve.
Waives(x) ==
  LET rec == reg.exceptions[x]
  IN  /\ Active(x)
      /\ rec.kind = "obligation-waiver"
      /\ rec.request \in Requests
      /\ rec.e10_decision \in DOMAIN reg.e10_decisions

InContext(x) ==
  LET request == reg.requests[reg.exceptions[x].request]
      dec == reg.e10_decisions[reg.exceptions[x].e10_decision]
  IN  /\ dec.proposal \in DOMAIN reg.e10_proposals
      /\ reg.e10_proposals[dec.proposal].context = request.context
      /\ dec.context = request.context
      /\ dec.revisions.context = request.context_revision
      /\ request.context \in DOMAIN reg.e10_contexts
      /\ reg.e10_contexts[request.context] = request.context_revision

-----------------------------------------------------------------------------
HPhases == {"files", "baseline", "requests", "exceptions", "report", "done"}

HInit ==
  /\ Init
  /\ h_phase = "files"
  /\ h_todo = {} /\ h_errors = {}
  /\ required_ok = {} /\ waiver_ok = {} /\ state_ok = {}
  /\ h_report = [structural |-> "pending", required_member |-> "not-evaluated",
                 waiver_context |-> "not-evaluated", upstream_state |-> "not-evaluated"]

\* run(): a file that is missing or holds nothing ends the run, and only the
\* missing one is an error.
HLoad ==
  /\ h_phase = "files"
  /\ h_phase' = IF reg.files = "both" THEN "baseline" ELSE "report"
  /\ h_errors' = Mark(RegistryFile, reg.files # "missing")
  /\ UNCHANGED <<vars, h_todo, required_ok, waiver_ok, state_ok, h_report>>

\* baseline(): one step of the E13 checker's own run.
BaselineStep == h_phase = "baseline" /\ Next /\ UNCHANGED h_vars

\* check() runs only where the baseline is conformant.
BaselineDone ==
  /\ h_phase = "baseline"
  /\ phase = "done"
  /\ h_phase' = IF Conformant THEN "requests" ELSE "report"
  /\ h_todo' = IF Conformant THEN Requests ELSE {}
  /\ h_errors' = h_errors \cup Mark(RegistryFile, Conformant)
  /\ UNCHANGED <<vars, required_ok, waiver_ok, state_ok, h_report>>

HCheckRequest(r) ==
  LET judged == Permits(r) /\ reg.requests[r].profile \in Profiles
  IN  /\ h_phase = "requests"
      /\ r \in h_todo
      /\ h_todo' = h_todo \ {r}
      /\ h_errors' = h_errors \cup
           Mark(<<"request", r>>, KnownStates(r) /\ (judged => Inconclusive(r) = {}))
      /\ state_ok' = state_ok \cup {q \in {r} : Resolved(q) # {} /\ KnownStates(q)}
      /\ required_ok' = required_ok \cup {q \in {r} : judged /\ Inconclusive(q) = {}}
      /\ UNCHANGED <<vars, h_phase, waiver_ok, h_report>>

EndRequests ==
  /\ h_phase = "requests"
  /\ h_todo = {}
  /\ h_phase' = "exceptions"
  /\ h_todo' = Exceptions
  /\ UNCHANGED <<vars, h_errors, required_ok, waiver_ok, state_ok, h_report>>

HCheckException(x) ==
  /\ h_phase = "exceptions"
  /\ x \in h_todo
  /\ h_todo' = h_todo \ {x}
  /\ h_errors' = h_errors \cup Mark(<<"exception", x>>, Waives(x) => InContext(x))
  /\ waiver_ok' = waiver_ok \cup {y \in {x} : Waives(y) /\ InContext(y)}
  /\ UNCHANGED <<vars, h_phase, required_ok, state_ok, h_report>>

EndExceptions ==
  /\ h_phase = "exceptions"
  /\ h_todo = {}
  /\ h_phase' = "report"
  /\ UNCHANGED <<vars, h_todo, h_errors, required_ok, waiver_ok, state_ok, h_report>>

HCap(counted) == IF h_errors # {} \/ counted = {} THEN "not-evaluated" ELSE "verified"

HReport ==
  /\ h_phase = "report"
  /\ h_phase' = "done"
  /\ h_report' = [structural |-> IF h_errors # {} THEN "non-conformant" ELSE "conformant",
                  required_member |-> HCap(required_ok),
                  waiver_context |-> HCap(waiver_ok),
                  upstream_state |-> HCap(state_ok)]
  /\ UNCHANGED <<vars, h_todo, h_errors, required_ok, waiver_ok, state_ok>>

HNext ==
  \/ HLoad
  \/ BaselineStep
  \/ BaselineDone
  \/ EndRequests
  \/ EndExceptions
  \/ HReport
  \/ \E id \in h_todo : HCheckRequest(id) \/ HCheckException(id)

HSpec == HInit /\ [][HNext]_<<vars, h_vars>>

-----------------------------------------------------------------------------
(* Properties. *)

\* The profile's report is of a registry it could read.
HConformant ==
  h_phase = "done" /\ h_report.structural = "conformant" /\ reg.files = "both"

\* No required member is bypassed, and no obligation is lifted from elsewhere:
\* what the profile and its baseline let through is a permission to which every
\* required policy said yes or no, made of known states only, and every waiver
\* it rests on was authorized in the request's own context and revision.
NothingIsBypassed ==
  HConformant =>
    \A d \in Permitted :
      LET r == reg.decisions[d].request
      IN  /\ \A s \in Sources(d) : s.state \in E10States
          /\ \A p \in RequiredPolicies(d) :
               \E s \in Sources(d) : s.policy = p /\ s.state \in {"authorized", "denied"}
          /\ \A e \in Evaluations :
               reg.evaluations[e].request = r /\ reg.evaluations[e].state = "waived" =>
                 LET w == reg.e10_decisions[reg.exceptions[reg.evaluations[e].exception].e10_decision]
                 IN  /\ w.context = reg.requests[r].context
                     /\ w.revisions.context = reg.e10_contexts[reg.requests[r].context]
==============================================================================
