---------------------------- MODULE DegradedHardening ----------------------------
(***************************************************************************)
(* The E9-H0.2 checker, tools/eigiib_degraded_hardening_check.py: a second *)
(* program over the registry of DegradedCheck.  It selects observations    *)
(* and fallbacks of a decision anew, in its own way.                       *)
(***************************************************************************)
EXTENDS DegradedCheck

VARIABLES e9h_phase, e9h_errors

e9h_vars == <<e9h_phase, e9h_errors>>

ModeCoherent(m) == Modes[m].preserved \cap Modes[m].suspended = {}

EvidenceMaterial(evidence) == {"hollow", "bad"} \cap evidence = {}
ObservationMaterial(o) == EvidenceMaterial(Observations[o].evidence)
FallbackMaterial(f) == EvidenceMaterial(Fallbacks[f].evidence)

\* selected_obs and selected_fb: of several the last listed counts.
LastObserved(d, dep) ==
  LET listed == Decisions[d].observations
      of == {i \in DOMAIN listed : /\ listed[i] \in DOMAIN Observations
                                  /\ Observations[listed[i]].dependency = dep}
  IN  IF of = {} THEN "not selected"
      ELSE Observations[listed[CHOOSE i \in of : \A j \in of : j <= i]].state

LastFallbacks(d, dep) ==
  LET listed == Decisions[d].fallbacks
      of == {i \in DOMAIN listed : /\ listed[i] \in DOMAIN Fallbacks
                                  /\ Fallbacks[listed[i]].state = "active"
                                  /\ Fallbacks[listed[i]].source = dep}
  IN  {listed[i] : i \in {i \in of : \A j \in of : j <= i}}

\* (Mutant: the capability's own minimum is not looked at again.)
KeepsNoMinimum(d) == TRUE

\* A capability that requires an available dependency is not served by a
\* substitute that is merely degraded.
KeepsMinimum(d) ==
  \A c \in Decisions[d].capabilities \cap DOMAIN Capabilities :
    Capabilities[c].minimum = "available" =>
      \A dep \in Capabilities[c].required :
        \/ LastObserved(d, dep) = "available"
        \/ \A f \in LastFallbacks(d, dep) :
             LastObserved(d, Fallbacks[f].substitute) # "degraded"

DecisionKept(d) == Decisions[d].state \in Skipped \/ KeepsMinimum(d)

-----------------------------------------------------------------------------
HStart == e9h_phase = "load" /\ e9h_errors = {}

HInit == Init /\ HStart

HLoad ==
  /\ e9h_phase = "load"
  /\ e9h_phase' = IF Read("degraded") THEN "checks" ELSE "done"
  /\ e9h_errors' = IF Read("degraded") THEN {} ELSE {<<"file", "degraded">>}
  /\ UNCHANGED <<reg, e9_vars>>

HRunChecks ==
  /\ e9h_phase = "checks"
  /\ e9h_phase' = "done"
  /\ e9h_errors' = e9h_errors
       \cup Flawed("mode", DOMAIN Modes, ModeCoherent)
       \cup Flawed("observation", DOMAIN Observations, ObservationMaterial)
       \cup Flawed("fallback", DOMAIN Fallbacks, FallbackMaterial)
       \cup MissingFiles(Observations) \cup MissingFiles(Fallbacks)
       \cup Flawed("decision", DOMAIN Decisions, DecisionKept)
  /\ UNCHANGED <<reg, e9_vars>>

HChecks == HLoad \/ HRunChecks

HNext ==
  \/ Next /\ UNCHANGED e9h_vars
  \/ e9_phase = "done" /\ HChecks

HSpec == HInit /\ [][HNext]_<<reg, e9_vars, e9h_vars>>

HConformant == e9h_phase = "done" /\ e9h_errors = {}

-----------------------------------------------------------------------------
(* Properties. *)

\* The only thing anybody saw of a dependency, and on what.
SeenAs(d, dep, states) ==
  LET listed == {Decisions[d].observations[i] : i \in DOMAIN Decisions[d].observations}
      of == {o \in listed : Observations[o].dependency = dep}
  IN  /\ of # {}
      /\ \A o \in of : /\ Observations[o].state \in states
                       /\ Observations[o].evidence = {"sound"}

\* An active fallback the decision lists, with a substitute seen in `states'.
SubstitutedBy(d, dep, states) ==
  \E i \in DOMAIN Decisions[d].fallbacks :
    LET f == Fallbacks[Decisions[d].fallbacks[i]]
    IN  /\ f.source = dep
        /\ f.state = "active"
        /\ f.evidence = {"sound"}
        /\ SeenAs(d, f.substitute, states)

\* What a capability runs on.  Where both programs find nothing, every
\* capability of a positive decision is permitted by policy and mode and not
\* denied, and each of its dependencies was seen, on material evidence only,
\* to be available; or degraded, if policy and capability put up with it; or
\* it is replaced by something that meets the same minimum, and if nobody
\* knows its state the policy says that it may be.  The baseline takes the
\* first observation of a dependency and the profile the last; only the
\* profile looks at the minimum of a substitute, only the baseline at the rest.
EveryCapabilitySupplied ==
  Conformant /\ HConformant =>
    \A d \in {d \in DOMAIN Decisions : Decisions[d].state \notin Skipped} :
      LET policy == Policies[Decisions[d].policy]
      IN  \A c \in Decisions[d].capabilities :
            /\ c \in policy.capabilities \ Modes[policy.mode].denied
            /\ \A dep \in Capabilities[c].required :
                 LET enough == {"available"} \cup
                       (IF Capabilities[c].minimum = "degraded" THEN {"degraded"} ELSE {})
                 IN  \/ SeenAs(d, dep, {"available"})
                     \/ SeenAs(d, dep, enough) /\ dep \in policy.allowed_degraded
                     \/ /\ SubstitutedBy(d, dep, enough)
                        /\ SeenAs(d, dep, {"unknown"})
                             => policy.unknown_disposition = "fallback"
==============================================================================
