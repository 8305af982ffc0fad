--------------------------- MODULE RecoveryHardening ---------------------------
(***************************************************************************)
(* The E7-H0.2 checker, tools/eigiib_recovery_hardening_check.py: a second *)
(* program over the files of RecoveryCheck, which the job runs after the   *)
(* first whatever that one found.                                          *)
(***************************************************************************)
EXTENDS RecoveryCheck

VARIABLES
  e7h_phase,    \* the method of run() that is next
  e7h_errors,
  e7h_verified  \* what verified_transitions counted

e7h_vars == <<e7h_phase, e7h_errors, e7h_verified>>

TransitionStates == {"proposed", "verified", "rejected", "superseded"}

\* References of `refs' that resolve belong to the incident.
OfIncident(refs, incident) ==
  \A a \in refs \cap DOMAIN Actions : Actions[a].incident = incident

TransitionOf(t, incident) ==
  t \in DOMAIN Transitions => Transitions[t].incident = incident

\* The optional bindings of a piece of evidence, where it has them.
EvidenceBound(e) ==
  /\ Evidence[e].e4 \in Authenticated \cup {None}
  /\ Evidence[e].e5 \in HistoryBound \cup {None}
  /\ Evidence[e].e6 \in Forks \cup {None}

PlanBounded(p) == OfIncident(Plans[p].actions, Plans[p].incident)

\* (Mutant: actions of whichever incident.)
TransitionBoundToFacts(t) ==
  LET tr == Transitions[t]
  IN  /\ tr.incident \in DOMAIN Incidents
      /\ tr.status \in TransitionStates
      /\ tr.status = "verified" =>
           /\ \A a \in tr.actions \cap DOMAIN Actions : Completed(a)
           /\ "e4" \in tr.needs => tr.e4 \in Authenticated
           /\ "e5" \in tr.needs => tr.e5 \in HistoryBound
           /\ "e6" \in tr.needs => tr.e6 \in Forks

TransitionBound(t) ==
  LET tr == Transitions[t]
  IN  /\ tr.incident \in DOMAIN Incidents
      /\ tr.status \in TransitionStates
      /\ OfIncident(tr.actions, tr.incident)
      /\ tr.status = "verified" =>
           /\ \A a \in tr.actions \cap DOMAIN Actions : Completed(a)
           /\ "e4" \in tr.needs => tr.e4 \in Authenticated
           /\ "e5" \in tr.needs => tr.e5 \in HistoryBound
           /\ "e6" \in tr.needs => tr.e6 \in Forks

\* A replacement ends after the destination it replaces, if both resolve.
EndsLater(t, than) ==
  LET old == Transitions[than].to_state
      new == Transitions[t].to_state
  IN  than \in DOMAIN Transitions /\ {old, new} \subseteq DOMAIN States
        => States[new].epoch > States[old].epoch

RollbackBounded(r) ==
  LET rb == Rollbacks[r]
  IN  /\ rb.reason
      /\ TransitionOf(rb.superseded, rb.incident)
      /\ OfIncident(rb.compensating, rb.incident)
      /\ rb.replacement # None =>
           /\ rb.replacement \in DOMAIN Transitions
           /\ TransitionOf(rb.replacement, rb.incident)
           /\ EndsLater(rb.replacement, rb.superseded)

\* What a reopening may cite; that it cites nothing is only a warning.
ClosedBefore(prior, incident) ==
  /\ prior \in DOMAIN Decisions
  /\ Decisions[prior].state = "closed"
  /\ Decisions[prior].incident = incident

DecisionBounded(d) ==
  LET dec == Decisions[d]
  IN  /\ OfIncident(dec.actions, dec.incident)
      /\ TransitionOf(dec.transition, dec.incident)
      /\ dec.state = "reopened" =>
           /\ dec.incident \in DOMAIN Incidents => Incidents[dec.incident].state = "reopened"
           /\ dec.prior_closure # None => ClosedBefore(dec.prior_closure, dec.incident)
           /\ dec.evidence \subseteq DOMAIN Evidence

-----------------------------------------------------------------------------
HStart == e7h_phase = "load" /\ e7h_errors = {} /\ e7h_verified = {}

HInit == Init /\ HStart

\* Unlike the baseline, this program says nothing about malformed sections, nor
\* about a file that holds JSON but no object.
HLoad ==
  /\ e7h_phase = "load"
  /\ e7h_phase' = IF Read("recovery") THEN "evidence" ELSE "done"
  /\ e7h_errors' = InState({"recovery"}, {"garbage", "absent"}) \cup
                   (IF Read("recovery") THEN InState(External, {"garbage"}) ELSE {})
  /\ UNCHANGED <<reg, e7_vars, e7h_verified>>

\* The methods of run(), each of which looks at one section.
HCheck(method, next, flawed) ==
  /\ e7h_phase = method
  /\ e7h_phase' = next
  /\ e7h_errors' = e7h_errors \cup flawed
  /\ UNCHANGED <<reg, e7_vars>>

HCheckEvidence ==
  /\ HCheck("evidence", "plans", Flawed("evidence", DOMAIN Evidence, EvidenceBound))
  /\ UNCHANGED e7h_verified

HCheckPlans ==
  /\ HCheck("plans", "transitions", Flawed("plan", DOMAIN Plans, PlanBounded))
  /\ UNCHANGED e7h_verified

HCheckTransitions ==
  /\ HCheck("transitions", "rollbacks",
            Flawed("transition", DOMAIN Transitions, TransitionBound))
  /\ e7h_verified' = {t \in DOMAIN Transitions :
                        Transitions[t].status = "verified" /\ TransitionBound(t)}

HCheckRollbacks ==
  /\ HCheck("rollbacks", "decisions", Flawed("rollback", DOMAIN Rollbacks, RollbackBounded))
  /\ UNCHANGED e7h_verified

HCheckDecisions ==
  /\ HCheck("decisions", "done", Flawed("decision", DOMAIN Decisions, DecisionBounded))
  /\ UNCHANGED e7h_verified

HChecks ==
  \/ HLoad
  \/ HCheckEvidence
  \/ HCheckPlans
  \/ HCheckTransitions
  \/ HCheckRollbacks
  \/ HCheckDecisions

\* The job runs one program after the other.
HNext ==
  \/ Next /\ UNCHANGED e7h_vars
  \/ e7_phase = "done" /\ HChecks

HSpec == HInit /\ [][HNext]_<<reg, e7_vars, e7h_vars>>

HConformant == e7h_phase = "done" /\ e7h_errors = {}

-----------------------------------------------------------------------------
(* Properties. *)

\* Work that is done, for this incident, and on evidence.
Done(a, incident) ==
  /\ a \in DOMAIN Actions
  /\ Actions[a].status = "completed"
  /\ Actions[a].incident = incident
  /\ Actions[a].evidence # {}
  /\ \A e \in Actions[a].evidence : e \in DOMAIN Evidence /\ Evidence[e].sound

\* A closed incident has been recovered from: where both programs find
\* nothing, every closed decision is about an incident that is closed, rests
\* on a verified transition of that very incident to an active trust state of
\* a later epoch, an epoch no other state has, and everything the transition
\* claims to have done is completed, on evidence, for that incident.  The
\* first program never looks at whose the actions are, the second never looks
\* at epochs or evidence.
ClosureIsEarned ==
  Conformant /\ HConformant =>
    \A d \in {d \in DOMAIN Decisions : Decisions[d].state = "closed"} :
      LET incident == Decisions[d].incident
          t == Transitions[Decisions[d].transition]
          post == States[t.to_state]
      IN  /\ Incidents[incident].state = "closed"
          /\ t.incident = incident
          /\ t.actions # {}
          /\ \A a \in t.actions \cup Decisions[d].actions : a \in DOMAIN Actions
          /\ \A a \in t.actions : Done(a, incident)
          /\ post.status = "active"
          /\ post.epoch > States[t.from_state].epoch
          /\ \A s \in DOMAIN States : States[s].epoch = post.epoch => s = t.to_state

\* A reopening of a reopened incident that cites the closure it takes back, and
\* this closure was in order but for the incident's being open again.
ReopensSoundly(d, prior) ==
  LET incident == Decisions[d].incident
  IN  /\ Decisions[d].state = "reopened"
      /\ Decisions[d].prior_closure = prior
      /\ incident \in DOMAIN Incidents /\ Incidents[incident].state = "reopened"
      /\ ClosedBefore(prior, incident)
      /\ Decisions[prior].actions \subseteq DOMAIN Actions
      /\ EstablishesContinuity(prior)
      /\ ~Decisions[prior].open_blockers

\* Section 14 of the E7 text: "Reopening does not erase the historical closure
\* decision.  A project SHOULD preserve the original closure ... reopen
\* decision".  A closure that was in order when it was made, kept and cited by
\* a reopening, is no error.
ClosurePreserved ==
  e7_phase = "done" =>
    \A d, prior \in DOMAIN Decisions :
      ReopensSoundly(d, prior) => <<"decision", prior>> \notin e7_errors
==============================================================================
