---------------------------- MODULE TemporalCheck ----------------------------
(***************************************************************************)
(* The E11 checker, tools/eigiib_temporal_check.py: one execution of       *)
(* Checker.run() over the temporal registry and the E10 registry.  The     *)
(* records of a section are visited in any order (the author of the file   *)
(* chooses it), one per step; the loop that follows the predecessors of a  *)
(* lease takes one step per lease it reaches.                              *)
(***************************************************************************)
EXTENDS Integers, FiniteSets

CONSTANTS
  Files,          \* the registry files a run may be given
  RegistryIn(_)   \* what one of them holds, with the E10 file beside it

(***************************************************************************)
(* A registry is a record of sections, each a function from ids to records.*)
(*                                                                         *)
(*   malformed      load() or map_items() recorded an error                *)
(*   files          "both" files hold something, or the hardening checker  *)
(*                  finds one of them "missing" or "empty" (the object {}) *)
(*   domains        wellformed (unit, ordering), status                    *)
(*   sources        wellformed (kind), domain, status                      *)
(*   observations   source, tick, uncertainty, evidence                    *)
(*   policies       wellformed (revision, flags), domain, require_e10,     *)
(*                  require_lease, require_replay, max_uncertainty,        *)
(*                  max_ages (empty, or the one bound on a lease's age),   *)
(*                  allow_grace, grace_ticks, max_depth                    *)
(*   leases         wellformed (subject kind and shape), domain, kind,     *)
(*                  subject, generation, issued, from, until, status,      *)
(*                  evidence, predecessor (or None), boundary              *)
(*   replays        wellformed (namespace, token and subject), key (the    *)
(*                  namespace and token), subject, state, evidence,        *)
(*                  observation, boundary                                  *)
(*   renewals       predecessor, successor, state, evidence                *)
(*   decisions      subject, policy, observation, lease (or None),         *)
(*                  replay (or None), state, boundary                      *)
(*   e10            the E10 decisions: state, boundary                     *)
(*                                                                         *)
(* Ticks, durations, depths and generations are integers: anything else is *)
(* an error of its record, as a negative number is, and where it would be  *)
(* compared the program stops with a TypeError and reports nothing.        *)
(***************************************************************************)
None == "none"
E10States == {"authorized", "denied", "held", "unavailable"}
TemporalStates == {"valid", "grace-valid", "expired", "not-yet-valid", "stale",
                   "replay-rejected", "indeterminate", "unavailable"}
Positive == {"valid", "grace-valid"}

\* An absent reference is no id, a section lists finitely many records, and
\* what is compared as a tick or a generation is an integer.
ASSUME RegistryAssumption ==
  \A f \in Files :
    LET r == RegistryIn(f)
    IN  /\ None \notin DOMAIN r.leases
        /\ None \notin DOMAIN r.replays
        /\ None \notin DOMAIN r.decisions
        /\ IsFiniteSet(DOMAIN r.leases)
        /\ IsFiniteSet(DOMAIN r.renewals)
        /\ \A o \in DOMAIN r.observations :
             r.observations[o].tick \in Int /\ r.observations[o].uncertainty \in Int
        /\ \A p \in DOMAIN r.policies :
             /\ r.policies[p].grace_ticks \in Int
             /\ r.policies[p].max_depth \in Int
             /\ r.policies[p].max_uncertainty \in Int
             /\ \A age \in r.policies[p].max_ages : age \in Int
        /\ \A l \in DOMAIN r.leases :
             /\ r.leases[l].generation \in Int
             /\ r.leases[l].issued \in Int
             /\ r.leases[l].from \in Int
             /\ r.leases[l].until \in Int

VARIABLES
  reg,         \* the registries being checked (never written)
  phase,       \* the loop of check_base / check_renewals / check_decisions
  todo,        \* ids the loop has still to visit
  errors,      \* locations of the error findings
  seen_replay, \* keys met by the loop over replay assertions
  walk,        \* the lease whose predecessors are being followed, or NoWalk
  renewed,     \* renewals counted by renewal_verified
  accepted,    \* decisions counted by time_verified
  report       \* the bounded results

vars == <<reg, phase, todo, errors, seen_replay, walk, renewed, accepted, report>>

NoWalk == [lease |-> None, at |-> None, seen |-> {}]

RegistryFile == <<"file", "registry">>
EvidenceFile == <<"file", "evidence">>
Mark(loc, sound) == IF sound THEN {} ELSE {loc}
\* evidence_valid: a missing file is recorded against its path.
EvidenceErrors(evidence, loc) ==
  CASE evidence = "ok"      -> {}
    [] evidence = "missing" -> {EvidenceFile}
    [] OTHER                -> {loc}

Failed == errors # {}

-----------------------------------------------------------------------------
(* check_base: what each kind of record must satisfy by itself. *)

Leases == DOMAIN reg.leases

DomainSound(d) ==
  /\ reg.domains[d].wellformed
  /\ reg.domains[d].status \in {"active", "retired", "unknown"}

SourceSound(s) ==
  /\ reg.sources[s].wellformed
  /\ reg.sources[s].domain \in DOMAIN reg.domains
  /\ reg.sources[s].status \in {"active", "suspended", "retired", "unknown"}

ObservationSound(o) ==
  /\ reg.observations[o].source \in DOMAIN reg.sources
  /\ reg.observations[o].tick >= 0
  /\ reg.observations[o].uncertainty >= 0

PolicySound(p) ==
  LET policy == reg.policies[p]
  IN  /\ policy.wellformed
      /\ policy.domain \in DOMAIN reg.domains
      /\ policy.max_uncertainty >= 0
      /\ policy.grace_ticks >= 0
      /\ policy.max_depth >= 0
      /\ \A age \in policy.max_ages : age >= 0
      /\ policy.allow_grace \/ policy.grace_ticks = 0

LeaseSound(l) ==
  LET lease == reg.leases[l]
  IN  /\ lease.wellformed
      /\ lease.domain \in DOMAIN reg.domains
      /\ 0 <= lease.generation
      /\ 0 <= lease.issued /\ lease.issued <= lease.from
      /\ lease.from < lease.until
      /\ lease.status \in {"active", "suspended", "revoked", "retired", "unknown"}

RecordErrors(p, id) ==
  CASE p = "domains"  -> Mark(<<p, id>>, DomainSound(id))
    [] p = "sources"  -> Mark(<<p, id>>, SourceSound(id))
    [] p = "observations" ->
         Mark(<<p, id>>, ObservationSound(id))
           \cup EvidenceErrors(reg.observations[id].evidence, <<p, id>>)
    [] p = "policies" -> Mark(<<p, id>>, PolicySound(id))
    [] p = "leases" ->
         Mark(<<p, id>>, LeaseSound(id))
           \cup IF reg.leases[id].status = "active" \/ reg.leases[id].evidence # None
                  THEN EvidenceErrors(reg.leases[id].evidence, <<p, id>>) ELSE {}
    [] OTHER -> {}

\* (Mutant: only an assertion that is still available counts as a reuse.)
FreshUnlessSpent(r) ==
  reg.replays[r].state = "available" => reg.replays[r].key \notin seen_replay

\* No assertion met before has this namespace and token.
FreshToken(r) == reg.replays[r].key \notin seen_replay

ReplayErrors(r) ==
  Mark(<<"replays", r>>,
       /\ reg.replays[r].wellformed
       /\ reg.replays[r].state \in {"available", "consumed", "replayed", "unknown"}
       /\ FreshToken(r))
    \cup EvidenceErrors(reg.replays[r].evidence, <<"replays", r>>)

\* check_renewals, for one renewal record.
RenewalSound(n) ==
  LET renewal == reg.renewals[n]
      old == reg.leases[renewal.predecessor]
      new == reg.leases[renewal.successor]
  IN  /\ {renewal.predecessor, renewal.successor} \subseteq Leases
      /\ renewal.state \in {"approved", "rejected", "unavailable"}
      /\ new.predecessor = renewal.predecessor
      /\ new.subject = old.subject /\ new.kind = old.kind
      /\ new.domain = old.domain
      /\ new.generation = old.generation + 1
      /\ new.until > old.until

RenewalErrors(n) ==
  LET loc == <<"renewals", n>>
      renewal == reg.renewals[n]
  IN  Mark(loc, RenewalSound(n))
      \cup IF renewal.state = "approved"
                /\ {renewal.predecessor, renewal.successor} \subseteq Leases
             THEN EvidenceErrors(renewal.evidence, loc) ELSE {}

-----------------------------------------------------------------------------
(* check_decisions. *)

\* The lease n predecessors back, as long as there is one.
Ancestor(l) ==
  LET up[n \in Nat] ==
        IF n = 0 THEN l
        ELSE IF up[n - 1] \in Leases THEN reg.leases[up[n - 1]].predecessor
        ELSE None
  IN  up

\* lease_depth: the number of predecessors, unless one does not resolve or the
\* lineage has a cycle.
Depths(l) ==
  {n \in 0..(Cardinality(Leases) - 1) :
     /\ Ancestor(l)[n] \in Leases
     /\ reg.leases[Ancestor(l)[n]].predecessor = None}

\* (Mutant: an interval that only touches the end of the window is inside.)
WindowClosed(lo, hi, lease, policy) ==
  LET lapses == {lease.issued + age : age \in policy.max_ages}
  IN  IF \E t \in lapses : lo > t THEN "stale"
      ELSE IF \E t \in lapses : hi > t THEN "indeterminate"
      ELSE IF hi < lease.from THEN "not-yet-valid"
      ELSE IF lo < lease.from THEN "indeterminate"
      ELSE IF hi <= lease.until THEN "valid"
      ELSE IF lo <= lease.until THEN "indeterminate"
      ELSE "expired"

\* The end of expected_state: where the interval lo..hi lies relative to the
\* freshness threshold, the half-open window and the half-open grace period.
Window(lo, hi, lease, policy) ==
  LET lapses == {lease.issued + age : age \in policy.max_ages}
      grace_end == lease.until + policy.grace_ticks
  IN  IF \E t \in lapses : lo > t THEN "stale"
      ELSE IF \E t \in lapses : lo <= t /\ t < hi THEN "indeterminate"
      ELSE IF hi < lease.from THEN "not-yet-valid"
      ELSE IF lo < lease.from /\ lease.from <= hi THEN "indeterminate"
      ELSE IF lo < lease.until /\ hi < lease.until THEN "valid"
      ELSE IF lo < lease.until /\ lease.until <= hi THEN "indeterminate"
      ELSE IF policy.allow_grace /\ lo >= lease.until /\ hi < grace_end
        THEN "grace-valid"
      ELSE IF policy.allow_grace /\ lo < grace_end /\ grace_end <= hi
        THEN "indeterminate"
      ELSE "expired"

\* expected_state checks its premises in this order and returns at the first
\* that fails; "error" is a return that also records an error.
LeaseState(d, policy) ==
  LET lease == reg.leases[reg.decisions[d].lease]
  IN  IF lease.kind # "e10-decision" \/ lease.subject # reg.decisions[d].subject
        THEN "error"
      ELSE IF lease.domain # policy.domain THEN "error"
      ELSE IF lease.status # "active" THEN "unavailable"
      ELSE IF Depths(reg.decisions[d].lease) = {} THEN "error"
      ELSE IF \E n \in Depths(reg.decisions[d].lease) : n > policy.max_depth
        THEN "unavailable"
      ELSE "admitted"

ReplayState(d) ==
  LET replay == reg.replays[reg.decisions[d].replay]
  IN  IF replay.subject # reg.decisions[d].subject THEN "error"
      ELSE IF replay.state \in {"consumed", "replayed"} THEN "replay-rejected"
      ELSE IF replay.state # "available" THEN "unavailable"
      ELSE "admitted"

E10State(s) ==
  IF s \in DOMAIN reg.e10 /\ reg.e10[s].state \in E10States
    THEN reg.e10[s].state ELSE None

ExpectedState(d) ==
  LET dec == reg.decisions[d]
      policy == reg.policies[dec.policy]
      obs == reg.observations[dec.observation]
      lease == dec.lease # None
      replay == dec.replay # None
  IN  IF obs.source \notin DOMAIN reg.sources THEN "unavailable"
      ELSE IF reg.sources[obs.source].status # "active" THEN "unavailable"
      ELSE IF reg.sources[obs.source].domain # policy.domain THEN "error"
      ELSE IF obs.uncertainty > policy.max_uncertainty THEN "indeterminate"
      ELSE IF policy.require_e10 /\ E10State(dec.subject) = None THEN "error"
      ELSE IF policy.require_e10 /\ E10State(dec.subject) # "authorized"
        THEN "unavailable"
      ELSE IF policy.require_lease /\ ~lease THEN "unavailable"
      ELSE IF lease /\ LeaseState(d, policy) # "admitted"
        THEN LeaseState(d, policy)
      ELSE IF policy.require_replay /\ ~replay THEN "unavailable"
      ELSE IF replay /\ ReplayState(d) # "admitted" THEN ReplayState(d)
      ELSE IF ~lease THEN "valid"
      ELSE Window(obs.tick - obs.uncertainty, obs.tick + obs.uncertainty,
                  reg.leases[dec.lease], policy)

\* A lease or replay reference that does not resolve is an error at once.
DecisionSound(d) ==
  LET dec == reg.decisions[d]
  IN  /\ dec.state \in TemporalStates
      /\ dec.subject # None
      /\ dec.policy \in DOMAIN reg.policies
      /\ dec.observation \in DOMAIN reg.observations
      /\ dec.lease \in Leases \cup {None}
      /\ dec.replay \in DOMAIN reg.replays \cup {None}
      /\ dec.state = ExpectedState(d)

-----------------------------------------------------------------------------
(* The run. *)

BaseSections == {"domains", "sources", "observations", "policies", "leases"}

Section(p) ==
  CASE p \in BaseSections \cup {"replays", "renewals", "decisions"} -> DOMAIN reg[p]
    [] p = "lineages" -> Leases
    [] OTHER          -> {}

After(p) ==
  CASE p = "domains"      -> "sources"
    [] p = "sources"      -> "observations"
    [] p = "observations" -> "policies"
    [] p = "policies"     -> "leases"
    [] p = "leases"       -> "replays"
    [] p = "replays"      -> "renewals"
    [] p = "renewals"     -> "lineages"
    [] p = "lineages"     -> "decisions"
    [] OTHER              -> "report"

Loops == BaseSections \cup {"replays", "renewals", "lineages", "decisions"}
Phases == Loops \cup {"load", "report", "done"}

Init ==
  /\ \E f \in Files : reg = RegistryIn(f)
  /\ phase = "load"
  /\ todo = {}
  /\ errors = {}
  /\ seen_replay = {}
  /\ walk = NoWalk
  /\ renewed = {}
  /\ accepted = {}
  /\ report = [structural |-> "pending", time_observation |-> "not-evaluated",
               lease |-> "not-evaluated", renewal |-> "not-evaluated",
               replay |-> "not-evaluated", temporal_validity |-> "not-evaluated"]

\* (Mutant: the loop iterates over the section of the loop before.)
EnterStale(p) == phase' = p /\ todo' = Section(phase)

Enter(p) == phase' = p /\ todo' = Section(p)

\* load() and map_items().  (A file that cannot be loaded ends the run: all its
\* sections are empty.)
Load ==
  /\ phase = "load"
  /\ errors' = Mark(RegistryFile, ~reg.malformed)
  /\ Enter("domains")
  /\ UNCHANGED <<reg, seen_replay, walk, renewed, accepted, report>>

EndLoop ==
  /\ phase \in Loops
  /\ todo = {}
  /\ walk = NoWalk
  /\ Enter(After(phase))
  /\ UNCHANGED <<reg, errors, seen_replay, walk, renewed, accepted, report>>

Visit(id) ==
  /\ id \in todo
  /\ todo' = todo \ {id}
  /\ UNCHANGED <<reg, phase, report>>

CheckBase(id) ==
  /\ phase \in BaseSections
  /\ Visit(id)
  /\ errors' = errors \cup RecordErrors(phase, id)
  /\ UNCHANGED <<seen_replay, walk, renewed, accepted>>

CheckReplay(r) ==
  /\ phase = "replays"
  /\ Visit(r)
  /\ errors' = errors \cup ReplayErrors(r)
  /\ seen_replay' = seen_replay \cup {reg.replays[r].key}
  /\ UNCHANGED <<walk, renewed, accepted>>

CheckRenewal(n) ==
  /\ phase = "renewals"
  /\ Visit(n)
  /\ errors' = errors \cup RenewalErrors(n)
  /\ renewed' =
       renewed \cup IF /\ reg.renewals[n].state = "approved"
                       /\ <<"renewals", n>> \notin RenewalErrors(n)
                      THEN {n} ELSE {}
  /\ UNCHANGED <<seen_replay, walk, accepted>>

\* (Mutant: the loop forgets where it has been.)
NeverRevisited == FALSE

Revisited == walk.at \in walk.seen

\* (Mutant: a predecessor that does not resolve is the error, a cycle is not.)
CycleErrorsUnresolved == Mark(<<"leases", walk.lease>>, walk.at \in Leases)

CycleErrors == Mark(<<"leases", walk.lease>>, ~Revisited)

\* The last loop of check_renewals: from every lease, back along predecessors
\* until one has none, does not resolve, or has been reached before.
StartWalk(l) ==
  /\ phase = "lineages"
  /\ walk = NoWalk
  /\ Visit(l)
  /\ walk' = [lease |-> l, at |-> l, seen |-> {}]
  /\ UNCHANGED <<errors, seen_replay, renewed, accepted>>

FollowPredecessor ==
  /\ walk # NoWalk
  /\ walk.at \in Leases /\ ~Revisited
  /\ walk' = LET pred == reg.leases[walk.at].predecessor
             IN  IF pred = None THEN NoWalk
                 ELSE [walk EXCEPT !.at = pred, !.seen = @ \cup {walk.at}]
  /\ UNCHANGED <<reg, phase, todo, errors, seen_replay, renewed, accepted, report>>

StopWalk ==
  /\ walk # NoWalk
  /\ walk.at \notin Leases \/ Revisited
  /\ walk' = NoWalk
  /\ errors' = errors \cup CycleErrors
  /\ UNCHANGED <<reg, phase, todo, seen_replay, renewed, accepted, report>>

CheckDecision(d) ==
  /\ phase = "decisions"
  /\ Visit(d)
  /\ errors' = errors \cup Mark(<<"decisions", d>>, DecisionSound(d))
  /\ accepted' = accepted \cup IF DecisionSound(d) THEN {d} ELSE {}
  /\ UNCHANGED <<seen_replay, walk, renewed>>

Cap(counted) == IF Failed \/ counted = {} THEN "not-evaluated" ELSE "verified"
DeclaredAs(s) == {d \in accepted : reg.decisions[d].state = s}

\* result(): ordinary validity and grace are never reported as one another.
Report ==
  /\ phase = "report"
  /\ phase' = "done"
  /\ report' =
       [structural       |-> IF Failed THEN "non-conformant" ELSE "conformant",
        time_observation |-> Cap(accepted),
        lease            |-> Cap({d \in accepted : reg.decisions[d].lease # None}),
        renewal          |-> Cap(renewed),
        replay           |-> Cap({d \in accepted :
                                   /\ reg.decisions[d].replay # None
                                   /\ reg.replays[reg.decisions[d].replay].state
                                        = "available"}),
        temporal_validity |->
          IF DeclaredAs("valid") = {} /\ Cap(DeclaredAs("grace-valid")) = "verified"
            THEN "grace" ELSE Cap(DeclaredAs("valid"))]
  /\ UNCHANGED <<reg, todo, errors, seen_replay, walk, renewed, accepted>>

Next ==
  \/ Load
  \/ EndLoop
  \/ FollowPredecessor
  \/ StopWalk
  \/ Report
  \/ \E id \in todo :
       \/ CheckBase(id)
       \/ CheckReplay(id)
       \/ CheckRenewal(id)
       \/ StartWalk(id)
       \/ CheckDecision(id)

Spec == Init /\ [][Next]_vars

-----------------------------------------------------------------------------
(* Properties. *)

Conformant == phase = "done" /\ report.structural = "conformant"

TypeOK ==
  /\ phase \in Phases
  /\ todo \subseteq Section(phase)
  /\ walk = NoWalk \/ (phase = "lineages" /\ walk.lease \in Leases)
  /\ renewed \subseteq DOMAIN reg.renewals
  /\ accepted \subseteq DOMAIN reg.decisions
  /\ report \in [structural : {"pending", "conformant", "non-conformant"},
                 time_observation : {"not-evaluated", "verified"},
                 lease : {"not-evaluated", "verified"},
                 renewal : {"not-evaluated", "verified"},
                 replay : {"not-evaluated", "verified"},
                 temporal_validity : {"not-evaluated", "verified", "grace"}]

\* What the lease is worth at one instant, as E11 section 7 to 9 defines it.
StateAt(t, lease, policy) ==
  IF \E age \in policy.max_ages : t > lease.issued + age THEN "stale"
  ELSE IF t < lease.from THEN "not-yet-valid"
  ELSE IF t < lease.until THEN "valid"
  ELSE IF policy.allow_grace /\ t < lease.until + policy.grace_ticks
         THEN "grace-valid"
  ELSE "expired"

\* A decision that rests on a lease states what the lease is worth at every
\* instant the observation may have been made at; it is indeterminate, within
\* the uncertainty its policy admits, only where two of those instants
\* disagree (the end of expected_state).
SureOfEveryInstant ==
  Conformant =>
    \A d \in DOMAIN reg.decisions :
      LET dec == reg.decisions[d]
          obs == reg.observations[dec.observation]
          policy == reg.policies[dec.policy]
          instants == (obs.tick - obs.uncertainty)..(obs.tick + obs.uncertainty)
          worth(t) == StateAt(t, reg.leases[dec.lease], policy)
      IN  dec.lease # None =>
            /\ dec.state \notin {"unavailable", "replay-rejected", "indeterminate"} =>
                 \A t \in instants : worth(t) = dec.state
            /\ dec.state = "indeterminate"
               /\ obs.uncertainty <= policy.max_uncertainty =>
                 \E t, u \in instants : worth(t) # worth(u)

\* A positive decision of a conformant registry is supported by every other
\* section its policy points to: an active clock of the policy's own domain,
\* an authorized E10 decision, an active and evidenced lease of that very
\* decision with a finite lineage, and a replay token nobody has spent and no
\* other assertion carries.
PositiveIsSupported ==
  Conformant =>
    \A d \in {x \in DOMAIN reg.decisions : reg.decisions[x].state \in Positive} :
      LET dec == reg.decisions[d]
          policy == reg.policies[dec.policy]
          source == reg.sources[reg.observations[dec.observation].source]
          lease == reg.leases[dec.lease]
          token == reg.replays[dec.replay]
      IN  /\ source.status = "active" /\ source.domain = policy.domain
          /\ policy.require_e10 => reg.e10[dec.subject].state = "authorized"
          /\ policy.require_lease => dec.lease # None
          /\ dec.lease # None =>
               /\ lease.status = "active" /\ lease.evidence = "ok"
               /\ lease.subject = dec.subject /\ lease.domain = policy.domain
               /\ \E n \in 0..policy.max_depth :
                    /\ Ancestor(dec.lease)[n] \in Leases
                    /\ reg.leases[Ancestor(dec.lease)[n]].predecessor = None
          /\ policy.require_replay => dec.replay # None
          /\ dec.replay # None =>
               /\ token.state = "available" /\ token.evidence = "ok"
               /\ token.subject = dec.subject
               /\ \A r \in DOMAIN reg.replays :
                    reg.replays[r].key = token.key => r = dec.replay

\* No lease of a conformant registry descends from itself, whether or not a
\* decision uses it (the walk at the end of check_renewals).
AcyclicLineage ==
  Conformant =>
    \A l \in Leases : \A n \in 1..Cardinality(Leases) : Ancestor(l)[n] # l
==============================================================================
