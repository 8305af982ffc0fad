---------------------------- MODULE ConvergenceCheck ----------------------------
(***************************************************************************)
(* The E8 checker, tools/eigiib_convergence_check.py: one execution of     *)
(* Checker.run() over the convergence registry and the E7 facts it reads   *)
(* from the recovery registry.  Adoption decisions that pass are what the  *)
(* cutover loop builds on; it does not ask whether other records passed.   *)
(***************************************************************************)
EXTENDS Integers, FiniteSets

CONSTANTS Files, RegistryIn(_)

(***************************************************************************)
(* reg.files[file] is "object", "value", "garbage" or "absent".            *)
(* reg.convergence:                                                        *)
(*   malformed                                                             *)
(*   parties        wellformed, required, status, domain, class            *)
(*   migrations     from_epoch, to_epoch, status, e7_transition (or None)  *)
(*   observations   wellformed (phase, old and new state), migration,      *)
(*                  party, phase, new_state, old_state, evidence (a set of *)
(*                  "sound" (any text, or an object whose path, if it has  *)
(*                  one, is there), "missing" (no such file) and "bad")    *)
(*   windows        migration, state, allow_old                            *)
(*   policies       minimum, distinct_by, require_old_rejected,            *)
(*                  require_all_required_parties, allow_exceptions,        *)
(*                  required_domains, required_classes                     *)
(*   exceptions     wellformed (disposition, reason), migration, party     *)
(*   adoptions      migration, policy, state, observations, exceptions     *)
(*   cutovers       state, migration, adoption, window, require_e7, e7     *)
(***************************************************************************)
None == "none"

VARIABLES
  reg,
  e8_phase,     \* the method of run() that is next
  e8_errors,    \* the locations of the error findings so far
  e8_verified,  \* verified_adoption_ids
  e8_cutovers   \* what the two cutover counters counted

e8_vars == <<e8_phase, e8_errors, e8_verified, e8_cutovers>>

Parties == reg.convergence.parties
Migrations == reg.convergence.migrations
Observations == reg.convergence.observations
Windows == reg.convergence.windows
Policies == reg.convergence.policies
Exceptions == reg.convergence.exceptions
Adoptions == reg.convergence.adoptions
Cutovers == reg.convergence.cutovers

Read(file) == reg.files[file] = "object"

\* load_recovery: the states E7's records declare, from a file that may be absent.
\* (Mutant: whatever the decision says.)
E7Decisions == {d \in DOMAIN reg.recovery.decisions : Read("recovery")}

E7Continuity ==
  {d \in DOMAIN reg.recovery.decisions :
     Read("recovery") /\ reg.recovery.decisions[d].state \in {"continuity-established", "closed"}}
E7Transitions ==
  {t \in DOMAIN reg.recovery.transitions :
     Read("recovery") /\ reg.recovery.transitions[t].status = "verified"}

Flawed(kind, ids, Sound(_)) == {<<kind, x>> : x \in {x \in ids : ~Sound(x)}}
-----------------------------------------------------------------------------
(* check_base. *)

Statuses == {"active", "retired", "unknown"}
MigrationStates == {"planned", "in-progress", "cutover", "closed", "aborted"}
WindowStates == {"planned", "open", "closed", "expired"}
Positive == {"converged", "converged-with-exceptions"}
AdoptionStates == Positive \cup {"partial", "stalled", "unavailable"}

PartySound(p) == Parties[p].wellformed /\ Parties[p].status \in Statuses

MigrationSound(m) ==
  /\ 0 <= Migrations[m].from_epoch
  /\ Migrations[m].from_epoch < Migrations[m].to_epoch
  /\ Migrations[m].status \in MigrationStates
  /\ Migrations[m].e7_transition \in E7Transitions \cup {None}

ObservationSound(o) ==
  /\ Observations[o].wellformed
  /\ Observations[o].migration \in DOMAIN Migrations
  /\ Observations[o].party \in DOMAIN Parties
  /\ "bad" \notin Observations[o].evidence

\* A missing file is an error at its path, not at the observation.
MissingFiles == {<<"file", o>> : o \in {o \in DOMAIN Observations :
                                          "missing" \in Observations[o].evidence}}

WindowSound(w) ==
  /\ Windows[w].migration \in DOMAIN Migrations
  /\ Windows[w].state \in WindowStates
  /\ ~(Windows[w].state = "closed" /\ Windows[w].allow_old)

PolicySound(p) ==
  Policies[p].minimum >= 0 /\ Policies[p].distinct_by \in {"party", "domain", "class"}

ExceptionSound(x) ==
  /\ Exceptions[x].wellformed
  /\ Exceptions[x].migration \in DOMAIN Migrations
  /\ Exceptions[x].party \in DOMAIN Parties

\* What is wrong with the evidence keeps an observation from counting.
Invalid(o) == {"missing", "bad"} \cap Observations[o].evidence # {}

-----------------------------------------------------------------------------
(* check_adoption: what one decision's observations and exceptions add up to. *)

Satisfying(o, p) ==
  /\ ~Invalid(o)
  /\ Observations[o].new_state = "accepted"
  /\ Observations[o].evidence # {}
  /\ Policies[p].require_old_rejected => Observations[o].old_state = "rejected"

SelectedObs(d) ==
  {o \in Adoptions[d].observations \cap DOMAIN Observations :
     Observations[o].migration = Adoptions[d].migration}
Good(d) == {o \in SelectedObs(d) : Satisfying(o, Adoptions[d].policy)}

\* A party that does not resolve has no domain and no class.
Group(o, by) ==
  LET party == Observations[o].party
  IN  IF by = "party" THEN party
      ELSE IF party \in DOMAIN Parties /\ by \in {"domain", "class"}
        THEN Parties[party][by] ELSE None
Groups(d, by) == {Group(o, by) : o \in Good(d)}

ListedExceptions(d) ==
  {x \in Adoptions[d].exceptions \cap DOMAIN Exceptions :
     Exceptions[x].migration = Adoptions[d].migration}
Excepted(d) == {Exceptions[x].party : x \in ListedExceptions(d)}
Required == {p \in DOMAIN Parties : Parties[p].required /\ Parties[p].status = "active"}
Uncovered(d) == Required \ Groups(d, "party")

Quorum(d) ==
  LET policy == Policies[Adoptions[d].policy]
  IN  /\ policy.minimum >= 1
      /\ Cardinality(Groups(d, policy.distinct_by)) >= policy.minimum
      /\ policy.required_domains \subseteq Groups(d, "domain")
      /\ policy.required_classes \subseteq Groups(d, "class")

\* (Mutant: the exceptions cover what is open, and may hide more.)
ExceptionsCover(d) ==
  LET policy == Policies[Adoptions[d].policy]
  IN  IF Adoptions[d].state = "converged"
        THEN /\ Adoptions[d].exceptions = {}
             /\ policy.require_all_required_parties => Uncovered(d) = {}
        ELSE /\ policy.allow_exceptions
             /\ Adoptions[d].exceptions # {}
             /\ policy.require_all_required_parties => Uncovered(d) \subseteq Excepted(d)

ExceptionsExact(d) ==
  LET policy == Policies[Adoptions[d].policy]
  IN  IF Adoptions[d].state = "converged"
        THEN /\ Adoptions[d].exceptions = {}
             /\ policy.require_all_required_parties => Uncovered(d) = {}
        ELSE /\ policy.allow_exceptions
             /\ Adoptions[d].exceptions # {}
             /\ policy.require_all_required_parties
                  => Uncovered(d) = Excepted(d) \cap Required

AdoptionSound(d) ==
  /\ Adoptions[d].migration \in DOMAIN Migrations
  /\ Adoptions[d].policy \in DOMAIN Policies
  /\ Adoptions[d].state \in AdoptionStates
  /\ SelectedObs(d) = Adoptions[d].observations
  /\ Adoptions[d].state \in Positive =>
       /\ Quorum(d)
       /\ ListedExceptions(d) = Adoptions[d].exceptions
       /\ ExceptionsExact(d)

\* check_cutover.
CutoverSound(c) ==
  LET cut == Cutovers[c]
  IN  /\ cut.state = "verified"
      /\ cut.migration \in DOMAIN Migrations
      /\ cut.adoption \in DOMAIN Adoptions
      /\ cut.window \in DOMAIN Windows
      /\ Adoptions[cut.adoption].migration = cut.migration
      /\ Windows[cut.window].migration = cut.migration
      /\ Migrations[cut.migration].status \in {"cutover", "closed"}
      /\ Adoptions[cut.adoption].state \in Positive
      /\ cut.adoption \in e8_verified
      /\ Windows[cut.window].state = "closed" /\ ~Windows[cut.window].allow_old
      /\ cut.require_e7 => cut.e7 \in E7Continuity

-----------------------------------------------------------------------------
(* The methods of run(). *)

Start == e8_phase = "load" /\ e8_errors = {} /\ e8_verified = {} /\ e8_cutovers = {}

Init == (\E f \in Files : reg = RegistryIn(f)) /\ Start

Load ==
  /\ e8_phase = "load"
  /\ e8_phase' = IF Read("convergence") THEN "base" ELSE "done"
  /\ e8_errors' =
       {<<"file", f>> : f \in {f \in {"convergence", "recovery"} :
          IF f = "convergence"
            THEN ~Read(f) \/ reg.convergence.malformed
            ELSE Read("convergence") /\ reg.files[f] \in {"value", "garbage"}}}
  /\ UNCHANGED <<reg, e8_verified, e8_cutovers>>

CheckBase ==
  /\ e8_phase = "base"
  /\ e8_phase' = "adoption"
  /\ e8_errors' = e8_errors \cup Flawed("party", DOMAIN Parties, PartySound)
                            \cup Flawed("migration", DOMAIN Migrations, MigrationSound)
                            \cup Flawed("observation", DOMAIN Observations, ObservationSound)
                            \cup MissingFiles
                            \cup Flawed("window", DOMAIN Windows, WindowSound)
                            \cup Flawed("policy", DOMAIN Policies, PolicySound)
                            \cup Flawed("exception", DOMAIN Exceptions, ExceptionSound)
  /\ UNCHANGED <<reg, e8_verified, e8_cutovers>>

CheckAdoption ==
  /\ e8_phase = "adoption"
  /\ e8_phase' = "cutover"
  /\ e8_errors' = e8_errors \cup Flawed("adoption", DOMAIN Adoptions, AdoptionSound)
  /\ e8_verified' = {d \in DOMAIN Adoptions :
                       AdoptionSound(d) /\ Adoptions[d].state \in Positive}
  /\ UNCHANGED <<reg, e8_cutovers>>

CheckCutover ==
  /\ e8_phase = "cutover"
  /\ e8_phase' = "done"
  /\ e8_errors' = e8_errors \cup Flawed("cutover", DOMAIN Cutovers, CutoverSound)
  /\ e8_cutovers' = {c \in DOMAIN Cutovers : CutoverSound(c)}
  /\ UNCHANGED <<reg, e8_verified>>

Next == Load \/ CheckBase \/ CheckAdoption \/ CheckCutover

Spec == Init /\ [][Next]_<<reg, e8_vars>>

Conformant == e8_phase = "done" /\ e8_errors = {}

-----------------------------------------------------------------------------
(* Properties. *)

\* A party somebody has seen accept the new state (and reject the old one,
\* where the policy asks for it), on evidence that is all there.
Adopted(p, d) ==
  \E o \in Adoptions[d].observations :
    /\ o \in DOMAIN Observations
    /\ Observations[o].party = p
    /\ Observations[o].migration = Adoptions[d].migration
    /\ Observations[o].new_state = "accepted"
    /\ Policies[Adoptions[d].policy].require_old_rejected
         => Observations[o].old_state = "rejected"
    /\ Observations[o].evidence = {"sound"}

\* Convergence is complete, and exceptions are exposed: in a conformant
\* registry a positive decision under a policy that wants all required parties
\* has one evidenced adoption for each active required party, except exactly
\* those the listed exceptions name, and it says converged only if there is
\* none of these; and a verified cutover has no window left in which the old
\* state is accepted, nor rests on any other migration's convergence.
ConvergenceIsComplete ==
  Conformant =>
    /\ \A d \in DOMAIN Adoptions :
         Adoptions[d].state \in Positive =>
           LET policy == Policies[Adoptions[d].policy]
               open == {p \in Required : ~Adopted(p, d)}
               named == {Exceptions[x].party : x \in Adoptions[d].exceptions}
           IN  /\ policy.require_all_required_parties => open = named \cap Required
               /\ Adoptions[d].state = "converged" <=> named = {}
               /\ \E p \in DOMAIN Parties : Adopted(p, d)
    /\ \A c \in DOMAIN Cutovers :
         LET cut == Cutovers[c]
         IN  /\ Adoptions[cut.adoption].state \in Positive
             /\ Adoptions[cut.adoption].migration = cut.migration
             /\ ~Windows[cut.window].allow_old
             /\ Windows[cut.window].migration = cut.migration
==============================================================================
