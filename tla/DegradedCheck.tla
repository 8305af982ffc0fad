------------------------------ MODULE DegradedCheck ------------------------------
(***************************************************************************)
(* The E9 checker, tools/eigiib_degraded_check.py: one execution of        *)
(* Checker.run() over the degraded-operation registry and the cutovers it  *)
(* reads from the convergence registry.                                    *)
(***************************************************************************)
EXTENDS Integers, Sequences, FiniteSets

CONSTANTS Files, RegistryIn(_)

(***************************************************************************)
(* reg.files[file] is "object", "value", "garbage" or "absent".            *)
(* reg.degraded:                                                           *)
(*   malformed      (dependencies' kinds among it)                         *)
(*   dependencies   the set of their ids                                   *)
(*   capabilities   wellformed (impact), minimum, required                 *)
(*   modes          kind, assurance, allowed, denied, preserved, suspended *)
(*   observations   dependency, state, evidence (a set of "sound",         *)
(*                  "missing" (a path names no file), "hollow" (an empty   *)
(*                  string, or an object without path) and "bad")          *)
(*   fallbacks      source, substitute, state, evidence                    *)
(*   policies       mode, unknown_disposition, required, allowed_degraded, *)
(*                  capabilities, require_e8                               *)
(*   decisions      state, mode, policy, observations and fallbacks (both  *)
(*                  sequences: the order decides), capabilities, e8        *)
(***************************************************************************)

VARIABLES
  reg,
  e9_phase,     \* the method of run() that is next
  e9_errors,    \* the locations of the error findings so far
  e9_positive   \* valid_positive_decisions

e9_vars == <<e9_phase, e9_errors, e9_positive>>

Dependencies == reg.degraded.dependencies
Capabilities == reg.degraded.capabilities
Modes == reg.degraded.modes
Observations == reg.degraded.observations
Fallbacks == reg.degraded.fallbacks
Policies == reg.degraded.policies
Decisions == reg.degraded.decisions

Read(file) == reg.files[file] = "object"

\* load_e8: the cutovers E8's file declares to be verified.
E8Cutovers == {c \in DOMAIN reg.convergence.cutovers :
                 Read("convergence") /\ reg.convergence.cutovers[c].state = "verified"}

Flawed(kind, ids, Sound(_)) == {<<kind, x>> : x \in {x \in ids : ~Sound(x)}}
-----------------------------------------------------------------------------
(* check_base. *)

Minimums == {"available", "degraded"}
ModeKinds == {"nominal", "degraded", "fallback", "isolated", "read-only"}
Assurances == {"full", "partial", "minimal"}
ObservedStates == {"available", "degraded", "unavailable", "unknown", "not-applicable"}
FallbackStates == {"planned", "eligible", "active", "failed", "retired"}
Dispositions == {"deny", "hold", "fallback"}
Skipped == {"unsafe", "unavailable"}
PositiveStates == {"degraded-safe", "fallback-verified", "partial-trust-available",
                   "nominal-restored"}

CapabilitySound(c) ==
  /\ Capabilities[c].wellformed
  /\ Capabilities[c].minimum \in Minimums
  /\ Capabilities[c].required \subseteq Dependencies

ModeSound(m) ==
  LET mode == Modes[m]
  IN  /\ mode.kind \in ModeKinds
      /\ mode.assurance \in Assurances
      /\ mode.allowed \cup mode.denied \subseteq DOMAIN Capabilities
      /\ mode.allowed \cap mode.denied = {}
      /\ \/ mode.kind = "nominal"
         \/ mode.assurance # "full"
         \/ mode.denied \cup mode.suspended # {}

ObservationSound(o) ==
  /\ Observations[o].dependency \in Dependencies
  /\ Observations[o].state \in ObservedStates
  /\ "bad" \notin Observations[o].evidence

FallbackSound(f) ==
  /\ {Fallbacks[f].source, Fallbacks[f].substitute} \subseteq Dependencies
  /\ Fallbacks[f].source # Fallbacks[f].substitute
  /\ Fallbacks[f].state \in FallbackStates
  /\ "bad" \notin Fallbacks[f].evidence
  /\ Fallbacks[f].state = "active" => Fallbacks[f].evidence # {}

\* A missing evidence file is an error at its path.
MissingFiles(section) ==
  {<<"file", x>> : x \in {x \in DOMAIN section : "missing" \in section[x].evidence}}

PolicySound(p) ==
  /\ Policies[p].mode \in DOMAIN Modes
  /\ Policies[p].unknown_disposition \in Dispositions
  /\ Policies[p].required \cup Policies[p].allowed_degraded \subseteq Dependencies
  /\ Policies[p].capabilities \subseteq DOMAIN Capabilities

-----------------------------------------------------------------------------
(* What a decision's observations and fallbacks amount to. *)

\* obs_map: the listed observations that resolve and carry evidence; of two of
\* one dependency the first counts, and the second is an error.
Usable(d, i) ==
  LET o == Decisions[d].observations[i]
  IN  o \in DOMAIN Observations /\ Observations[o].evidence # {}
DependencyAt(d, i) == Observations[Decisions[d].observations[i]].dependency
FirstOf(d, i) ==
  \A j \in DOMAIN Decisions[d].observations :
    j < i /\ Usable(d, j) => DependencyAt(d, j) # DependencyAt(d, i)

ObsMap(d) ==
  LET counted == {i \in DOMAIN Decisions[d].observations : Usable(d, i) /\ FirstOf(d, i)}
      at(dep) == CHOOSE i \in counted : DependencyAt(d, i) = dep
  IN  [dep \in {DependencyAt(d, i) : i \in counted} |->
         Observations[Decisions[d].observations[at(dep)]].state]

ObservationsSound(d) ==
  \A i \in DOMAIN Decisions[d].observations : Usable(d, i) /\ FirstOf(d, i)

StateOf(obs, dep) == IF dep \in DOMAIN obs THEN obs[dep] ELSE "not selected"

\* selected_fallbacks: those that can stand in, by source; of two the last.
StandsIn(f, obs, policy) ==
  LET source == StateOf(obs, Fallbacks[f].source)
      substitute == StateOf(obs, Fallbacks[f].substitute)
  IN  /\ Fallbacks[f].state = "active"
      /\ source \in {"degraded", "unavailable", "unknown"}
      /\ substitute \in {"available", "degraded"}
      /\ source = "unknown" => policy.unknown_disposition = "fallback"
      /\ substitute = "degraded" => Fallbacks[f].substitute \in policy.allowed_degraded

SelectedFallbacks(d, obs, policy) ==
  {f \in {Decisions[d].fallbacks[i] : i \in DOMAIN Decisions[d].fallbacks} :
     f \in DOMAIN Fallbacks /\ StandsIn(f, obs, policy)}
Replaced(d, obs, policy) == {Fallbacks[f].source : f \in SelectedFallbacks(d, obs, policy)}

DepSatisfied(dep, minimum, byPolicy, policy, obs, replaced) ==
  LET state == StateOf(obs, dep)
  IN  \/ state = "available"
      \/ /\ state = "degraded"
         /\ \/ dep \in replaced
            \/ /\ byPolicy \/ minimum = "degraded"
               /\ dep \in policy.allowed_degraded
      \/ state = "unavailable" /\ dep \in replaced
      \/ state = "unknown" /\ policy.unknown_disposition = "fallback" /\ dep \in replaced

-----------------------------------------------------------------------------
(* check_decisions. *)

CapabilityServed(c, d, policy, obs, replaced) ==
  /\ c \in DOMAIN Capabilities
  /\ c \in Modes[Decisions[d].mode].allowed
  /\ c \in policy.capabilities
  /\ \A dep \in Capabilities[c].required :
       DepSatisfied(dep, Capabilities[c].minimum, FALSE, policy, obs, replaced)

\* Everything the requested capabilities and the policy need.
Used(d, policy) ==
  policy.required \cup
    UNION {Capabilities[c].required : c \in Decisions[d].capabilities \cap DOMAIN Capabilities}

\* Full assurance: nothing used is degraded or replaced.
Direct(deps, obs, replaced) ==
  \A dep \in deps : StateOf(obs, dep) = "available" /\ dep \notin replaced

\* What each kind of decision asks of the mode.
ModeFits(d, mode, policy, obs, replaced) ==
  CASE Decisions[d].state = "fallback-verified" ->
         mode.kind = "fallback" /\ replaced # {}
    [] Decisions[d].state = "degraded-safe" ->
         mode.kind \in {"degraded", "isolated", "read-only"}
    [] Decisions[d].state = "partial-trust-available" ->
         mode.assurance # "full" /\ mode.kind # "nominal"
    [] OTHER ->
         /\ mode.kind = "nominal"
         /\ replaced = {}
         /\ Direct(policy.required, obs, {})
         /\ policy.require_e8 => Decisions[d].e8 \in E8Cutovers

Reduced(d, mode, replaced) ==
  \/ Decisions[d].state = "nominal-restored"
  \/ mode.denied # {} \/ mode.suspended # {} \/ replaced # {} \/ mode.assurance # "full"

PositiveSound(d) ==
  LET policy == Policies[Decisions[d].policy]
      mode == Modes[Decisions[d].mode]
      obs == ObsMap(d)
      replaced == Replaced(d, obs, policy)
  IN  /\ Decisions[d].mode \in DOMAIN Modes
      /\ Decisions[d].policy \in DOMAIN Policies
      /\ policy.mode = Decisions[d].mode
      /\ ObservationsSound(d)
      /\ \A i \in DOMAIN Decisions[d].fallbacks :
           Decisions[d].fallbacks[i] \in SelectedFallbacks(d, obs, policy)
      /\ \A dep \in policy.required :
           DepSatisfied(dep, "available", TRUE, policy, obs, replaced)
      /\ \A c \in Decisions[d].capabilities : CapabilityServed(c, d, policy, obs, replaced)
      /\ mode.assurance = "full" => Direct(Used(d, policy), obs, replaced)
      /\ ModeFits(d, mode, policy, obs, replaced)
      /\ Reduced(d, mode, replaced)

DecisionSound(d) ==
  \/ Decisions[d].state \in Skipped
  \/ Decisions[d].state \in PositiveStates /\ PositiveSound(d)

-----------------------------------------------------------------------------
(* The methods of run(). *)

Start == e9_phase = "load" /\ e9_errors = {} /\ e9_positive = {}

Init == (\E f \in Files : reg = RegistryIn(f)) /\ Start

Load ==
  /\ e9_phase = "load"
  /\ e9_phase' = IF Read("degraded") THEN "base" ELSE "done"
  /\ e9_errors' =
       {<<"file", f>> : f \in {f \in {"degraded", "convergence"} :
          IF f = "degraded"
            THEN ~Read(f) \/ reg.degraded.malformed
            ELSE Read("degraded") /\ reg.files[f] \in {"value", "garbage"}}}
  /\ UNCHANGED <<reg, e9_positive>>

CheckBase ==
  /\ e9_phase = "base"
  /\ e9_phase' = "decisions"
  /\ e9_errors' = e9_errors \cup Flawed("capability", DOMAIN Capabilities, CapabilitySound)
                            \cup Flawed("mode", DOMAIN Modes, ModeSound)
                            \cup Flawed("observation", DOMAIN Observations, ObservationSound)
                            \cup Flawed("fallback", DOMAIN Fallbacks, FallbackSound)
                            \cup MissingFiles(Observations) \cup MissingFiles(Fallbacks)
                            \cup Flawed("policy", DOMAIN Policies, PolicySound)
  /\ UNCHANGED <<reg, e9_positive>>

CheckDecisions ==
  /\ e9_phase = "decisions"
  /\ e9_phase' = "done"
  /\ e9_errors' = e9_errors \cup Flawed("decision", DOMAIN Decisions, DecisionSound)
  /\ e9_positive' = {d \in DOMAIN Decisions :
                       Decisions[d].state \notin Skipped /\ DecisionSound(d)}
  /\ UNCHANGED reg

Next == Load \/ CheckBase \/ CheckDecisions

Spec == Init /\ [][Next]_<<reg, e9_vars>>

Conformant == e9_phase = "done" /\ e9_errors = {}

\* degraded_verified, fallback_verified, partial_verified and nominal_verified
\* are reported only if nothing at all was found.
Verified(state) == Conformant /\ \E d \in e9_positive : Decisions[d].state = state
==============================================================================
