---------------------------- MODULE ContinuityChain ----------------------------
(***************************************************************************)
(* One job over the registries E7, E8 and E9, in the order of              *)
(* .github/workflows/eigiib.yml: the five programs run one after the other *)
(* whatever the earlier ones found (if: always()).  E8 reads what the E7   *)
(* file declares, E9 what the E8 file declares; no program reads another's *)
(* report.                                                                 *)
(***************************************************************************)
EXTENDS Integers, Sequences

CONSTANTS Files, RegistryIn(_)

\* What the proofs need of the records: a policy's minimum is a number (the
\* program asks for one), evidence is of the kinds that the modules name, and
\* what a decision of E9 lists is listed in order.
ASSUME RecordsAssumption ==
  \A f \in Files :
    LET convergence == RegistryIn(f).convergence
        degraded == RegistryIn(f).degraded
        kinds == {"sound", "missing", "hollow", "bad"}
        IsList(s) == Len(s) \in Nat /\ DOMAIN s = 1..Len(s)
    IN  /\ \A p \in DOMAIN convergence.policies : convergence.policies[p].minimum \in Int
        /\ \A o \in DOMAIN convergence.observations :
             convergence.observations[o].evidence \subseteq kinds \ {"hollow"}
        /\ \A o \in DOMAIN degraded.observations : degraded.observations[o].evidence \subseteq kinds
        /\ \A x \in DOMAIN degraded.fallbacks : degraded.fallbacks[x].evidence \subseteq kinds
        /\ \A d \in DOMAIN degraded.decisions :
             IsList(degraded.decisions[d].observations) /\ IsList(degraded.decisions[d].fallbacks)

VARIABLES reg,
          e7_phase, e7_errors, e7_counted, e7h_phase, e7h_errors, e7h_verified,
          e8_phase, e8_errors, e8_verified, e8_cutovers,
          e9_phase, e9_errors, e9_positive, e9h_phase, e9h_errors

E7 == INSTANCE RecoveryHardening
E8 == INSTANCE ConvergenceCheck
E9 == INSTANCE DegradedHardening

e7_all == <<e7_phase, e7_errors, e7_counted, e7h_phase, e7h_errors, e7h_verified>>
e8_all == <<e8_phase, e8_errors, e8_verified, e8_cutovers>>
e9_all == <<e9_phase, e9_errors, e9_positive, e9h_phase, e9h_errors>>
vars == <<reg, e7_all, e8_all, e9_all>>

Init ==
  /\ \E f \in Files : reg = RegistryIn(f)
  /\ E7!Start /\ E7!HStart /\ E8!Start /\ E9!Start /\ E9!HStart

RunE7 == E7!HNext /\ UNCHANGED <<e8_all, e9_all>>
RunE8 == e7h_phase = "done" /\ E8!Next /\ UNCHANGED <<e7_all, e9_all>>
RunE9 == e8_phase = "done" /\ E9!HNext /\ UNCHANGED <<e7_all, e8_all>>

Next == RunE7 \/ RunE8 \/ RunE9

Spec == Init /\ [][Next]_vars

-----------------------------------------------------------------------------
(* The chain of facts the three files claim.                               *)

NoneIf(condition, fact) == IF condition THEN {} ELSE {fact}

\* Every fact and its grounds, from the references of the records.
Grounds ==
  LET transitions == {"transition"} \X DOMAIN reg.recovery.transitions
      continuities == {"continuity"} \X DOMAIN reg.recovery.decisions
      adoptions == {"adoption"} \X DOMAIN reg.convergence.adoptions
      cutovers == {"cutover"} \X DOMAIN reg.convergence.cutovers
      nominals == {"nominal"} \X DOMAIN reg.degraded.decisions
      migration(a) == reg.convergence.migrations[reg.convergence.adoptions[a].migration]
      cut(c) == reg.convergence.cutovers[c]
      nominal(d) == reg.degraded.decisions[d]
      of(fact) ==
        CASE fact[1] = "continuity" ->
               {<<"transition", reg.recovery.decisions[fact[2]].transition>>}
          [] fact[1] = "adoption" /\ reg.convergence.adoptions[fact[2]].migration
                                       \in DOMAIN reg.convergence.migrations ->
               NoneIf(migration(fact[2]).e7_transition = E8!None,
                      <<"transition", migration(fact[2]).e7_transition>>)
          [] fact[1] = "cutover" ->
               {<<"adoption", cut(fact[2]).adoption>>} \cup
                 NoneIf(~cut(fact[2]).require_e7, <<"continuity", cut(fact[2]).e7>>)
          [] fact[1] = "nominal" /\ nominal(fact[2]).policy \in DOMAIN reg.degraded.policies ->
               NoneIf(~reg.degraded.policies[nominal(fact[2]).policy].require_e8,
                      <<"cutover", nominal(fact[2]).e8>>)
          [] OTHER -> {}
  IN  [fact \in transitions \cup continuities \cup adoptions \cup cutovers \cup nominals
         |-> of(fact)]

\* Nothing has been found wrong in the job so far.
Intact == e7_errors = {} /\ e7h_errors = {} /\ e8_errors = {} /\ e9_errors = {} /\ e9h_errors = {}

\* What the programs have counted so far.
Accepted ==
  ({"transition"} \X e7_counted.transition) \cup
  ({"continuity"} \X e7_counted.continuity) \cup
  ({"adoption"} \X e8_verified) \cup
  ({"cutover"} \X e8_cutovers) \cup
  ({"nominal"} \X {d \in e9_positive : reg.degraded.decisions[d].state = "nominal-restored"})

Facts == INSTANCE FactChain
  WITH grounds <- Grounds, established <- IF Intact THEN Accepted ELSE {}, intact <- Intact

-----------------------------------------------------------------------------
(* Properties. *)

\* The job implements the chain of facts: although each program believes the
\* states another file declares, in a job that finds nothing wrong every fact
\* was counted by the program of its own registry before a later program
\* relied on it: no nominal restoration without the cutover, no cutover without
\* the convergence and the continuity, no continuity without the transition.
FactsInOrder == Facts!Spec

\* Closed incidents have been recovered from (of the E7 part of the job).
ClosureIsEarned == E7!ClosureIsEarned

\* Convergence is complete, exceptions exposed (of the E8 part of the job).
ConvergenceIsComplete == E8!ConvergenceIsComplete

\* Every capability of a positive decision is supplied (of the E9 part).
EveryCapabilitySupplied == E9!EveryCapabilitySupplied
==============================================================================
