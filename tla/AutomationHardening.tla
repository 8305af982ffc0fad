-------------------------- MODULE AutomationHardening --------------------------
(***************************************************************************)
(* The two steps of the workflow that read the automation registry: the    *)
(* E10 checker, then tools/eigiib_automation_hardening_check.py, which     *)
(* loads the file again and compares every decision, whatever its state,   *)
(* with the boundary of its proposal.  The second runs whatever the first  *)
(* found.                                                                  *)
(***************************************************************************)
EXTENDS AutomationCheck

VARIABLES
  h_phase,    \* before, within and after the hardening run
  h_todo,     \* decisions its loop has still to visit
  h_errors,   \* locations of its findings
  h_checked,  \* decisions counted by `checked'
  h_report    \* its results

h_vars == <<h_phase, h_todo, h_errors, h_checked, h_report>>

HPhases == {"baseline", "decisions", "done"}

HInit ==
  /\ Init
  /\ h_phase = "baseline"
  /\ h_todo = {}
  /\ h_errors = {}
  /\ h_checked = {}
  /\ h_report = [structural |-> "pending", decision_boundary |-> "not-evaluated"]

\* (Mutant: only decisions that authorize are compared.)
BoundIfAuthorized(d) == reg.decisions[d].state = "authorized" => BoundToCurrent(d)

BoundDecision(d) ==
  LET dec == reg.decisions[d]
      proposal == reg.proposals[dec.proposal]
  IN  /\ proposal.policy = dec.policy /\ proposal.context = dec.context
      /\ dec.revisions = Current(dec.proposal, dec.policy, dec.context)

References(d) ==
  LET dec == reg.decisions[d]
  IN  /\ dec.proposal \in DOMAIN reg.proposals
      /\ dec.policy \in DOMAIN reg.policies
      /\ dec.context \in DOMAIN reg.contexts

BaselineStep ==
  /\ h_phase = "baseline"
  /\ Next
  /\ UNCHANGED h_vars

\* load(): the file the E10 checker read, loaded again.
HLoad ==
  /\ phase = "done"
  /\ h_phase = "baseline"
  /\ h_phase' = "decisions"
  /\ h_todo' = DOMAIN reg.decisions
  /\ h_errors' = Mark(RegistryFile, "file" \notin reg.flaws)
  /\ UNCHANGED <<vars, h_checked, h_report>>

CheckBoundary(d) ==
  /\ h_phase = "decisions"
  /\ d \in h_todo
  /\ h_todo' = h_todo \ {d}
  /\ h_errors' = h_errors \cup Mark(<<"decisions", d>>, References(d) /\ BoundDecision(d))
  /\ h_checked' = h_checked \cup IF References(d) THEN {d} ELSE {}
  /\ UNCHANGED <<vars, h_phase, h_report>>

HReport ==
  /\ h_phase = "decisions"
  /\ h_todo = {}
  /\ h_phase' = "done"
  /\ h_report' =
       [structural |-> IF h_errors # {} THEN "non-conformant" ELSE "conformant",
        decision_boundary |->
          IF h_errors = {} /\ h_checked # {} THEN "verified" ELSE "not-evaluated"]
  /\ UNCHANGED <<vars, h_todo, h_errors, h_checked>>

HNext ==
  \/ BaselineStep
  \/ HLoad
  \/ \E d \in h_todo : CheckBoundary(d)
  \/ HReport

HSpec == HInit /\ [][HNext]_<<vars, h_vars>>

-----------------------------------------------------------------------------
(* Properties. *)

HConformant == h_phase = "done" /\ h_report.structural = "conformant"

\* The baseline stays authoritative for positive authorization: in a registry it
\* accepts, the hardening checker only ever objects to decisions that authorize
\* nothing (the profile's section "Additional invariant").
OnlyNegativesAreAdded ==
  Conformant => \A d \in AuthorizedDecisions : <<"decisions", d>> \notin h_errors

\* When both steps pass, all decisions about one proposal, the authorized, the
\* denied and the held, were taken on one boundary and one set of revisions.
OneBoundaryPerProposal ==
  Conformant /\ HConformant =>
    \A d, e \in DOMAIN reg.decisions :
      reg.decisions[d].proposal = reg.decisions[e].proposal =>
        /\ reg.decisions[d].policy = reg.decisions[e].policy
        /\ reg.decisions[d].context = reg.decisions[e].context
        /\ reg.decisions[d].revisions = reg.decisions[e].revisions
==============================================================================
