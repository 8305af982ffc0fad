-------------------------- MODULE TemporalHardening --------------------------
(***************************************************************************)
(* The E11 hardening checker, tools/eigiib_temporal_hardening_check.py: it *)
(* loads both files again, runs the E11 checker (BaselineStep), and goes   *)
(* on whatever that found.  The registry has, beside what TemporalCheck    *)
(* lists, a boundary (the E10 revision tuple, or None) in leases, replays, *)
(* decisions and E10 decisions.                                            *)
(***************************************************************************)
EXTENDS TemporalCheck

VARIABLES
  h_phase,     \* where run() and check() are
  h_todo,      \* ids the loop has still to visit
  h_errors,    \* locations of the error findings
  chain,       \* the decision whose lease lineage is being followed, or NoChain
  binding_ok,  \* decisions counted by binding_ok
  chain_ok,    \* decisions counted by chain_ok
  replay_ok,   \* decisions counted by replay_ok
  h_report     \* the bounded results

h_vars == <<h_phase, h_todo, h_errors, chain, binding_ok, chain_ok, replay_ok,
            h_report>>

NoChain == [decision |-> None, at |-> None]
HFailed == h_errors # {}
HDecisions == DOMAIN reg.decisions

-----------------------------------------------------------------------------
(* What check() demands of renewals, leases and decisions. *)

Approved == {n \in DOMAIN reg.renewals : reg.renewals[n].state = "approved"}
ApprovedEdge(old, new) ==
  {n \in Approved : reg.renewals[n].predecessor = old /\ reg.renewals[n].successor = new}

\* (Mutant: only a renewal approved twice for one successor is a fork.)
RepeatedApprovals ==
  {reg.renewals[n].predecessor : n \in
     {m \in Approved :
        Cardinality(ApprovedEdge(reg.renewals[m].predecessor,
                                 reg.renewals[m].successor)) > 1}}

\* Predecessors with more than one approved renewal.
Forks ==
  {old \in {reg.renewals[n].predecessor : n \in Approved} :
     Cardinality({n \in Approved : reg.renewals[n].predecessor = old}) > 1}

\* (Mutant: the generation may stay the same.)
EdgeSoundAnyGeneration(l) ==
  LET new == reg.leases[l]
      old == reg.leases[new.predecessor]
  IN  new.predecessor # None =>
        /\ new.predecessor \in Leases
        /\ <<new.kind, new.subject, new.domain>> = <<old.kind, old.subject, old.domain>>
        /\ new.issued >= old.issued
        /\ new.until > old.until

\* Every predecessor edge, used by a decision or not.
EdgeSound(l) ==
  LET new == reg.leases[l]
      old == reg.leases[new.predecessor]
  IN  new.predecessor # None =>
        /\ new.predecessor \in Leases
        /\ <<new.kind, new.subject, new.domain>> = <<old.kind, old.subject, old.domain>>
        /\ new.generation = old.generation + 1
        /\ new.issued >= old.issued
        /\ new.until > old.until

Evaluable(d) ==
  /\ reg.decisions[d].policy \in DOMAIN reg.policies
  /\ reg.decisions[d].observation \in DOMAIN reg.observations

RequiresE10(d) == reg.policies[reg.decisions[d].policy].require_e10

BoundToE10(d) ==
  LET dec == reg.decisions[d]
  IN  /\ dec.subject \in DOMAIN reg.e10
      /\ dec.boundary # None
      /\ dec.boundary = reg.e10[dec.subject].boundary

\* (Mutant: a lease issued under another E10 revision is accepted.)
LeaseOfAnyRevision(d) == TRUE

LeaseOfRevision(d) ==
  LET dec == reg.decisions[d]
  IN  dec.lease \in Leases /\ RequiresE10(d) =>
        /\ reg.leases[dec.lease].boundary # None
        /\ reg.leases[dec.lease].boundary = dec.boundary

ReplayAtObservation(d) ==
  reg.replays[reg.decisions[d].replay].observation = reg.decisions[d].observation
ReplayOfRevision(d) ==
  RequiresE10(d) =>
    /\ reg.replays[reg.decisions[d].replay].boundary # None
    /\ reg.replays[reg.decisions[d].replay].boundary = reg.decisions[d].boundary
ReplayUsed(d) == reg.decisions[d].replay \in DOMAIN reg.replays

\* The part of the loop over decisions that comes before the walk.
PremisesSound(d) ==
  LET dec == reg.decisions[d]
      domain == reg.policies[dec.policy].domain
      obs == reg.observations[dec.observation]
  IN  /\ dec.state \in Positive =>
           domain \in DOMAIN reg.domains /\ reg.domains[domain].status = "active"
      /\ obs.uncertainty <= obs.tick
      /\ RequiresE10(d) => BoundToE10(d)
      /\ LeaseOfRevision(d)

-----------------------------------------------------------------------------
HPhases == {"files", "baseline", "forks", "edges", "decisions", "report", "done"}

HInit ==
  /\ Init
  /\ h_phase = "files"
  /\ h_todo = {}
  /\ h_errors = {}
  /\ chain = NoChain
  /\ binding_ok = {} /\ chain_ok = {} /\ replay_ok = {}
  /\ h_report = [structural |-> "pending", binding |-> "not-evaluated",
                 renewal_chain |-> "not-evaluated", replay_binding |-> "not-evaluated"]

\* run(): a file that is missing or holds nothing ends the run, and only the
\* missing one is an error.
HLoad ==
  /\ h_phase = "files"
  /\ h_phase' = IF reg.files = "both" THEN "baseline" ELSE "report"
  /\ h_errors' = Mark(RegistryFile, reg.files # "missing")
  /\ UNCHANGED <<vars, h_todo, chain, binding_ok, chain_ok, replay_ok, h_report>>

\* baseline(): one step of the E11 checker's own run.
BaselineStep == h_phase = "baseline" /\ Next /\ UNCHANGED h_vars

BaselineDone ==
  /\ h_phase = "baseline"
  /\ phase = "done"
  /\ h_phase' = "forks"
  /\ h_errors' = h_errors \cup Mark(RegistryFile, Conformant)
  /\ UNCHANGED <<vars, h_todo, chain, binding_ok, chain_ok, replay_ok, h_report>>

CountForks ==
  /\ h_phase = "forks"
  /\ h_phase' = "edges"
  /\ h_todo' = Leases
  /\ h_errors' = h_errors \cup {<<"leases", l>> : l \in Forks}
  /\ UNCHANGED <<vars, chain, binding_ok, chain_ok, replay_ok, h_report>>

CheckEdge(l) ==
  /\ h_phase = "edges"
  /\ l \in h_todo
  /\ h_todo' = h_todo \ {l}
  /\ h_errors' = h_errors \cup Mark(<<"leases", l>>, EdgeSound(l))
  /\ UNCHANGED <<vars, h_phase, chain, binding_ok, chain_ok, replay_ok, h_report>>

HEndLoop ==
  /\ h_phase \in {"edges", "decisions"}
  /\ h_todo = {}
  /\ chain = NoChain
  /\ h_phase' = IF h_phase = "edges" THEN "decisions" ELSE "report"
  /\ h_todo' = IF h_phase = "edges" THEN HDecisions ELSE {}
  /\ UNCHANGED <<vars, h_errors, chain, binding_ok, chain_ok, replay_ok, h_report>>

StartDecision(d) ==
  /\ h_phase = "decisions"
  /\ chain = NoChain
  /\ d \in h_todo
  /\ h_todo' = h_todo \ {d}
  /\ IF Evaluable(d)
       THEN /\ h_errors' = h_errors \cup Mark(<<"decisions", d>>, PremisesSound(d))
            /\ binding_ok' = binding_ok \cup
                               IF RequiresE10(d) /\ BoundToE10(d) THEN {d} ELSE {}
            /\ chain' = [decision |-> d, at |-> reg.decisions[d].lease]
       ELSE UNCHANGED <<h_errors, binding_ok, chain>>
  /\ UNCHANGED <<vars, h_phase, chain_ok, replay_ok, h_report>>

\* (Mutant: an edge approved more than once is followed too.)
ApprovedAtLeastOnce(l) == ApprovedEdge(reg.leases[l].predecessor, l) # {}

ApprovedOnce(l) == Cardinality(ApprovedEdge(reg.leases[l].predecessor, l)) = 1

AtSuccessor == chain.at \in Leases /\ reg.leases[chain.at].predecessor # None

\* while cur and cur.get("predecessor"): nothing remembers where it has been.
FollowEdge ==
  /\ chain # NoChain
  /\ AtSuccessor /\ ApprovedOnce(chain.at)
  /\ chain' = [chain EXCEPT !.at = reg.leases[chain.at].predecessor]
  /\ UNCHANGED <<vars, h_phase, h_todo, h_errors, binding_ok, chain_ok, replay_ok,
                 h_report>>

\* (When both boundaries are None the program counts the assertion, but the
\* decision has an error already and nothing is reported.)
\* The lineage ends, or an edge of it is not approved exactly once; the rest
\* of the loop body looks at the replay assertion.
FinishDecision ==
  LET d == chain.decision
      bound == ReplayAtObservation(d) /\ ReplayOfRevision(d)
  IN  /\ chain # NoChain
      /\ AtSuccessor => ~ApprovedOnce(chain.at)
      /\ chain' = NoChain
      /\ chain_ok' = chain_ok \cup
                       IF reg.decisions[d].lease \in Leases /\ ~AtSuccessor
                         THEN {d} ELSE {}
      /\ replay_ok' = replay_ok \cup IF ReplayUsed(d) /\ bound THEN {d} ELSE {}
      /\ h_errors' = h_errors \cup Mark(<<"decisions", d>>,
                                        ~AtSuccessor /\ (ReplayUsed(d) => bound))
      /\ UNCHANGED <<vars, h_phase, h_todo, binding_ok, h_report>>

HCap(counted) == IF HFailed \/ counted = {} THEN "not-evaluated" ELSE "verified"

HReport ==
  /\ h_phase = "report"
  /\ h_phase' = "done"
  /\ h_report' = [structural     |-> IF HFailed THEN "non-conformant" ELSE "conformant",
                  binding        |-> HCap(binding_ok),
                  renewal_chain  |-> HCap(chain_ok),
                  replay_binding |-> HCap(replay_ok)]
  /\ UNCHANGED <<vars, h_todo, h_errors, chain, binding_ok, chain_ok, replay_ok>>

HNext ==
  \/ HLoad
  \/ BaselineStep
  \/ BaselineDone
  \/ CountForks
  \/ \E l \in h_todo : CheckEdge(l)
  \/ HEndLoop
  \/ \E d \in h_todo : StartDecision(d)
  \/ FollowEdge
  \/ FinishDecision
  \/ HReport

HSpec == HInit /\ [][HNext]_<<vars, h_vars>>

-----------------------------------------------------------------------------
(* Properties.  An empty file is conformant with nothing evaluated, so they *)
(* speak of runs that verified something.                                   *)

Hardened ==
  h_phase = "done" /\ "verified" \in {h_report[r] : r \in DOMAIN h_report}

\* A hardened registry speaks of one revision of the E10 decision: the
\* decision, the lease it rests on and the token it presents carry the tuple
\* of the E10 decision itself, and the token was looked at in the very
\* observation the decision evaluates.
OneRevision ==
  Hardened =>
    \A d \in HDecisions :
      LET dec == reg.decisions[d]
          revision == reg.e10[dec.subject].boundary
      IN  /\ RequiresE10(d) =>
               /\ dec.boundary = revision
               /\ dec.lease # None => reg.leases[dec.lease].boundary = revision
               /\ dec.replay # None => reg.replays[dec.replay].boundary = revision
          /\ dec.replay # None =>
               reg.replays[dec.replay].observation = dec.observation

\* Along the lineage of every lease of a hardened registry the generation
\* counts the renewals, the validity ends strictly later after each of them,
\* and subject and time domain never change.
LineageGrows ==
  Hardened =>
    \A l \in Leases : \A n \in 1..Cardinality(Leases) :
      LET old == reg.leases[Ancestor(l)[n]]
          new == reg.leases[l]
      IN  Ancestor(l)[n] \in Leases =>
            /\ new.generation = old.generation + n
            /\ new.until >= old.until + n
            /\ new.issued >= old.issued
            /\ new.subject = old.subject /\ new.domain = old.domain

\* Two leases decisions rest on in a hardened registry and that descend from
\* one lease lie on one line: renewal never splits a lease in two that are
\* both used, although forks and approvals are counted by separate loops.
OneLine ==
  LET Ancestry(l) == {Ancestor(l)[n] : n \in 0..(Cardinality(Leases) - 1)} \cap Leases
      Used == {reg.decisions[d].lease : d \in HDecisions} \ {None}
  IN  Hardened =>
        \A l, m \in Used :
          Ancestry(l) \cap Ancestry(m) # {} => l \in Ancestry(m) \/ m \in Ancestry(l)

-----------------------------------------------------------------------------
(* Termination. *)

\* The sequential program always takes its next step.
FairHSpec == HSpec /\ WF_<<vars, h_vars>>(HNext)

\* The baseline checker returns on every registry the profile hands to it,
\* those whose leases descend from themselves included (the set `seen` of
\* check_renewals); a file that is no registry ends the profile without it.
BaselineReturns == <>(phase = "done" \/ h_phase = "done")

\* E1: "Tools that use iterative rules MUST define a well-founded measure or
\* otherwise demonstrate termination."  The walk over approved predecessor
\* edges has none: on a cycle of leases whose every edge has exactly one
\* approved renewal it never ends.
HReturns == <>(h_phase = "done")
==============================================================================
