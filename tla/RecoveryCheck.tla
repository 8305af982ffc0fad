----------------------------- MODULE RecoveryCheck -----------------------------
(***************************************************************************)
(* The E7 checker, tools/eigiib_recovery_check.py: one execution of        *)
(* Checker.run() over the recovery registry and the facts it reads from    *)
(* the E4, E5 and E6 registries beside it.  No loop of this program reads  *)
(* what it found before, so a step is one check_* method.                  *)
(***************************************************************************)
EXTENDS Integers, FiniteSets

CONSTANTS
  Files,          \* the conformance directories a job may be given
  RegistryIn(_)   \* what the files of one of them hold

(***************************************************************************)
(* reg.files says of each file whether it holds an "object", some other    *)
(* "value", "garbage", or is "absent".                                     *)
(* reg.recovery, a record of sections (functions from ids to records):     *)
(*   malformed      load or map_items recorded an error (of a repeated id  *)
(*                  the last record counts)                                *)
(*   incidents      state                                                  *)
(*   trust_states   epoch, status                                          *)
(*   evidence       sound (kind, path), e4, e5, e6 (a fact's id, or None)  *)
(*   actions        kind, incident, status, evidence (a set of ids)        *)
(*   plans          incident, actions, dependencies (pairs of actions)     *)
(*   transitions    incident, from_state, to_state, actions, status, needs *)
(*                  (of "e4", "e5", "e6"), e4, e5, e6                      *)
(*   rollbacks      incident, superseded, compensating, replacement, reason*)
(*   decisions      incident, state, actions, transition, needs, e4, e5,   *)
(*                  open_blockers, prior_closure, evidence                 *)
(* reg.trust and reg.transparency give the state of each decision, and     *)
(* reg.gossip is the set of ids of its evidence and decisions.             *)
(***************************************************************************)
None == "none"

VARIABLES
  reg,        \* the files of the directory (never written)
  e7_phase,   \* the method of run() that is next
  e7_errors,  \* the locations of the error findings so far
  e7_counted  \* what each of the four *_verified counters counted

e7_vars == <<e7_phase, e7_errors, e7_counted>>

Incidents == reg.recovery.incidents
States == reg.recovery.trust_states
Evidence == reg.recovery.evidence
Actions == reg.recovery.actions
Plans == reg.recovery.plans
Transitions == reg.recovery.transitions
Rollbacks == reg.recovery.rollbacks
Decisions == reg.recovery.decisions

\* load_external: the facts of E4, E5 and E6.  A file that is not there is no
\* error, one that cannot be read is.
Read(file) == reg.files[file] = "object"
Authenticated == {d \in DOMAIN reg.trust : Read("trust") /\ reg.trust[d] = "authenticated"}
HistoryBound ==
  {d \in DOMAIN reg.transparency : Read("transparency") /\ reg.transparency[d] = "bound"}
Forks == {e \in reg.gossip : Read("gossip")}

External == {"trust", "transparency", "gossip"}
InState(files, states) == {<<"file", f>> : f \in {f \in files : reg.files[f] \in states}}

Flawed(kind, ids, Sound(_)) == {<<kind, x>> : x \in {x \in ids : ~Sound(x)}}
-----------------------------------------------------------------------------
IncidentStates == {"detected", "contained", "recovering", "continuity-established",
                   "closed", "reopened"}
TrustStatuses == {"candidate", "active", "retired", "superseded", "quarantined"}
ActionKinds == {"freeze", "quarantine", "revoke", "rotate", "replace-root",
                "replace-policy", "rebuild", "replay", "restore", "publish",
                "re-witness", "fork-resolution", "resume", "rollback", "verify"}
ContainmentKinds == {"freeze", "quarantine", "revoke"}
ActionStatuses == {"planned", "in-progress", "completed", "failed", "reverted", "skipped"}
RecoveryStates == {"contained", "transition-verified", "continuity-established",
                   "closed", "reopened", "unavailable"}

IncidentSound(i) == Incidents[i].state \in IncidentStates

\* Of several states with one epoch all but the first are errors; which is
\* the first nobody asks.
StateSound(s) ==
  /\ States[s].epoch >= 0
  /\ States[s].status \in TrustStatuses
  /\ \A t \in DOMAIN States : t # s => States[t].epoch # States[s].epoch

EvidenceSound(e) == Evidence[e].sound

Completed(a) == a \in DOMAIN Actions /\ Actions[a].status = "completed"

ActionSound(a) ==
  /\ Actions[a].kind \in ActionKinds
  /\ Actions[a].incident \in DOMAIN Incidents
  /\ Actions[a].status \in ActionStatuses
  /\ Actions[a].evidence \subseteq DOMAIN Evidence
  /\ Actions[a].status = "completed" => Actions[a].evidence # {}

\* What dfs() finds: some actions each of which has a successor among them.
Cyclic(nodes, edges) ==
  \E loop \in SUBSET nodes :
    loop # {} /\ \A n \in loop : \E m \in loop : <<n, m>> \in edges

PlanSound(p) ==
  LET nodes == Plans[p].actions \cap DOMAIN Actions
  IN  /\ Plans[p].incident \in DOMAIN Incidents
      /\ Plans[p].actions \subseteq DOMAIN Actions
      /\ Plans[p].dependencies \subseteq nodes \X nodes
      /\ ~Cyclic(nodes, Plans[p].dependencies)

Resolves(t) == {Transitions[t].from_state, Transitions[t].to_state} \subseteq DOMAIN States

TransitionSound(t) ==
  /\ Resolves(t)
  /\ States[Transitions[t].to_state].epoch > States[Transitions[t].from_state].epoch
  /\ Transitions[t].actions # {}
  /\ \A a \in Transitions[t].actions : Completed(a)

\* A transition is counted whatever else is wrong with it.
CountedTransition(t) == Resolves(t) /\ Transitions[t].status = "verified"

RollbackSound(r) ==
  /\ Rollbacks[r].incident \in DOMAIN Incidents
  /\ Rollbacks[r].superseded \in DOMAIN Transitions
  /\ Rollbacks[r].compensating # {}
  /\ Rollbacks[r].compensating \subseteq DOMAIN Actions

-----------------------------------------------------------------------------
(* Decisions. *)

\* References that do not resolve are an error and otherwise passed over.
Contained(d) ==
  /\ Decisions[d].actions # {}
  /\ \A a \in Decisions[d].actions \cap DOMAIN Actions :
       Completed(a) /\ Actions[a].kind \in ContainmentKinds

RestsOnTransition(d) ==
  LET t == Decisions[d].transition
  IN  t \in DOMAIN Transitions /\ Transitions[t].status = "verified"

EstablishesContinuity(d) ==
  LET post == Transitions[Decisions[d].transition].to_state
  IN  /\ RestsOnTransition(d)
      /\ post \in DOMAIN States /\ States[post].status = "active"
      /\ "e4" \in Decisions[d].needs => Decisions[d].e4 \in Authenticated
      /\ "e5" \in Decisions[d].needs => Decisions[d].e5 \in HistoryBound

Closes(d) ==
  /\ EstablishesContinuity(d)
  /\ ~Decisions[d].open_blockers
  /\ Incidents[Decisions[d].incident].state = "closed"

\* The premises of each state; the two others have none.
Premises(d) ==
  CASE Decisions[d].state = "contained"              -> Contained(d)
    [] Decisions[d].state = "transition-verified"    -> RestsOnTransition(d)
    [] Decisions[d].state = "continuity-established" -> EstablishesContinuity(d)
    [] Decisions[d].state = "closed"                 -> Closes(d)
    [] OTHER                                         -> TRUE

DecisionSound(d) ==
  /\ Decisions[d].incident \in DOMAIN Incidents
  /\ Decisions[d].state \in RecoveryStates
  /\ Decisions[d].actions \subseteq DOMAIN Actions
  /\ Premises(d)

\* Decisions of a resolvable incident that are in state s and meet condition C.
CountedDecisions(s, C(_)) ==
  {d \in DOMAIN Decisions :
     Decisions[d].incident \in DOMAIN Incidents /\ Decisions[d].state \in s /\ C(d)}

-----------------------------------------------------------------------------
(* The methods of run(). *)

RecoveryRegistry == <<"file", "recovery">>

Start ==
  /\ e7_phase = "load"
  /\ e7_errors = {}
  /\ e7_counted = [containment |-> {}, transition |-> {}, continuity |-> {}, closure |-> {}]

Init == (\E f \in Files : reg = RegistryIn(f)) /\ Start

Load ==
  /\ e7_phase = "load"
  /\ e7_phase' = IF Read("recovery") THEN "incidents" ELSE "done"
  /\ e7_errors' = IF ~Read("recovery") THEN {RecoveryRegistry}
                  ELSE InState(External, {"value", "garbage"}) \cup
                       (IF reg.recovery.malformed THEN {RecoveryRegistry} ELSE {})
  /\ UNCHANGED <<reg, e7_counted>>

CheckIncidentsStatesEvidence ==
  /\ e7_phase = "incidents"
  /\ e7_phase' = "actions"
  /\ e7_errors' = e7_errors \cup Flawed("incident", DOMAIN Incidents, IncidentSound)
                            \cup Flawed("state", DOMAIN States, StateSound)
                            \cup Flawed("evidence", DOMAIN Evidence, EvidenceSound)
  /\ UNCHANGED <<reg, e7_counted>>

CheckActionsPlans ==
  /\ e7_phase = "actions"
  /\ e7_phase' = "transitions"
  /\ e7_errors' = e7_errors \cup Flawed("action", DOMAIN Actions, ActionSound)
                            \cup Flawed("plan", DOMAIN Plans, PlanSound)
  /\ UNCHANGED <<reg, e7_counted>>

CheckTransitionsRollbacks ==
  /\ e7_phase = "transitions"
  /\ e7_phase' = "decisions"
  /\ e7_errors' = e7_errors \cup Flawed("transition", DOMAIN Transitions, TransitionSound)
                            \cup Flawed("rollback", DOMAIN Rollbacks, RollbackSound)
  /\ e7_counted' = [e7_counted EXCEPT
                      !.transition = {t \in DOMAIN Transitions : CountedTransition(t)}]
  /\ UNCHANGED reg

CheckDecisions ==
  /\ e7_phase = "decisions"
  /\ e7_phase' = "done"
  /\ e7_errors' = e7_errors \cup Flawed("decision", DOMAIN Decisions, DecisionSound)
  /\ e7_counted' =
       [e7_counted EXCEPT
          !.containment = CountedDecisions({"contained"}, Contained),
          !.continuity = CountedDecisions({"continuity-established", "closed"},
                                          EstablishesContinuity),
          !.closure = CountedDecisions({"closed"}, Closes)]
  /\ UNCHANGED reg

Next ==
  \/ Load
  \/ CheckIncidentsStatesEvidence
  \/ CheckActionsPlans
  \/ CheckTransitionsRollbacks
  \/ CheckDecisions

Spec == Init /\ [][Next]_<<reg, e7_vars>>

\* The report: structural_result, and the bounded results that only ask
\* whether something was counted.
Conformant == e7_phase = "done" /\ e7_errors = {}
==============================================================================
