--------------------------- MODULE CommitHardening ---------------------------
(***************************************************************************)
(* The E12-H0.2 checker, tools/eigiib_commit_hardening_check.py.  It loads *)
(* the E12 checker as a module and runs it to the end on the same files    *)
(* (CommitCheck!Next), and goes on with the positive decisions only if     *)
(* that run was conformant, reading the baseline's sections and its        *)
(* valid_stores.                                                           *)
(***************************************************************************)
EXTENDS CommitCheck

VARIABLES
  h_phase,        \* "baseline", "check", "report" or "done"
  h_todo,         \* decisions check() has still to visit
  h_errors,       \* locations of the hardening findings
  fresh,          \* decisions counted by fresh_observation_count
  atomic_domain,  \* decisions counted by atomic_domain_count
  replay_domain,  \* decisions counted by replay_domain_count
  h_report        \* the bounded results run() returns

h_vars == <<h_phase, h_todo, h_errors, fresh, atomic_domain, replay_domain,
            h_report>>

HFailed == h_errors # {}

ObservationOf(t) == reg.e11_decisions[t].observation

\* (Mutant: the decisions are compared and not their observations.)
FreshDecision(d) ==
  LET check == reg.operations[reg.decisions[d].operation].check_decision
      use == reg.attempts[reg.decisions[d].attempt].commit_decision
  IN  /\ {check, use} \subseteq DOMAIN reg.e11_decisions
      /\ {ObservationOf(check), ObservationOf(use)}
           \subseteq DOMAIN reg.e11_observations
      /\ check # use

\* check_fresh_observation.
FreshObservation(d) ==
  LET check == reg.operations[reg.decisions[d].operation].check_decision
      use == reg.attempts[reg.decisions[d].attempt].commit_decision
  IN  /\ {check, use} \subseteq DOMAIN reg.e11_decisions
      /\ {ObservationOf(check), ObservationOf(use)}
           \subseteq DOMAIN reg.e11_observations
      /\ ObservationOf(check) # ObservationOf(use)

\* usable_commit_store.
CommitStoreUsable(k) == reg.commits[k].atomic_store \in valid_stores

\* check_commit_safe_domain: commit, token and idempotency key in one store.
OneStore(d) ==
  LET dec == reg.decisions[d]
      com == reg.commits[dec.commit]
      policy == reg.policies[dec.policy]
  IN  /\ dec.commit \in Commits
      /\ CommitStoreUsable(dec.commit)
      /\ policy.require_consumption =>
           /\ com.consumption \in Consumptions
           /\ reg.consumptions[com.consumption].store = com.atomic_store
      /\ policy.require_idempotency =>
           /\ com.idempotency_record \in IdempotencyRecords
           /\ reg.idempotency_records[com.idempotency_record].store
                = com.atomic_store

\* (Mutant: the store of the retry's key is not compared.)
ReplayAnyStore(d) ==
  LET k == reg.decisions[d].commit
  IN  /\ k \in Commits
      /\ reg.attempts[reg.decisions[d].attempt].idempotency_record
           \in IdempotencyRecords
      /\ CommitStoreUsable(k)

\* check_replay_domain: the retry's key and the canonical commit in one store.
ReplayStore(d) ==
  LET k == reg.decisions[d].commit
      i == reg.attempts[reg.decisions[d].attempt].idempotency_record
  IN  /\ k \in Commits
      /\ i \in IdempotencyRecords
      /\ CommitStoreUsable(k)
      /\ reg.idempotency_records[i].store = reg.commits[k].atomic_store

DomainSound(d) ==
  IF reg.decisions[d].state = "commit-safe" THEN OneStore(d) ELSE ReplayStore(d)

HRefs(d) ==
  /\ Resolves(reg.decisions[d])
  /\ reg.decisions[d].policy \in Policies

HInit ==
  /\ Init
  /\ h_phase = "baseline"
  /\ h_todo = {}
  /\ h_errors = {}
  /\ fresh = {}
  /\ atomic_domain = {}
  /\ replay_domain = {}
  /\ h_report = [hardening |-> "pending", fresh |-> "not-evaluated",
                 atomic_domain |-> "not-evaluated",
                 replay_domain |-> "not-evaluated"]

\* baseline(): one step of the E12 checker's own run.
BaselineStep == h_phase = "baseline" /\ Next /\ UNCHANGED h_vars

\* baseline() returns; check() is entered only on a conformant baseline.
BaselineDone ==
  /\ h_phase = "baseline"
  /\ phase = "done"
  /\ IF Conformant
       THEN /\ h_phase' = "check"
            /\ h_todo' = Decisions
            /\ UNCHANGED h_errors
       ELSE /\ h_phase' = "report"
            /\ h_errors' = {RegistryFile}
            /\ UNCHANGED h_todo
  /\ UNCHANGED <<vars, fresh, atomic_domain, replay_domain, h_report>>

\* One decision of check().  The two parts share the location, so a decision
\* that reuses its observation is not counted for its store either.
HCheckDecision(d) ==
  LET state == reg.decisions[d].state
      positive == state \in Positive
      refreshed == positive /\ HRefs(d) /\ FreshObservation(d)
      sound == refreshed /\ DomainSound(d)
      counted(s) == IF sound /\ state = s THEN {d} ELSE {}
  IN  /\ h_phase = "check"
      /\ d \in h_todo
      /\ h_todo' = h_todo \ {d}
      /\ h_errors' = h_errors \cup Mark(<<"decision", d>>, positive => sound)
      /\ fresh' = fresh \cup IF refreshed THEN {d} ELSE {}
      /\ atomic_domain' = atomic_domain \cup counted("commit-safe")
      /\ replay_domain' = replay_domain \cup counted("idempotent-replay")
      /\ UNCHANGED <<vars, h_phase, h_report>>

HEndLoop ==
  /\ h_phase = "check"
  /\ h_todo = {}
  /\ h_phase' = "report"
  /\ UNCHANGED <<vars, h_todo, h_errors, fresh, atomic_domain, replay_domain,
                 h_report>>

HCap(counted) ==
  IF HFailed \/ counted = {} THEN "not-evaluated" ELSE "verified"

HReport ==
  /\ h_phase = "report"
  /\ h_phase' = "done"
  /\ h_report' = [hardening     |-> IF HFailed THEN "non-conformant"
                                              ELSE "conformant",
                  fresh         |-> HCap(fresh),
                  atomic_domain |-> HCap(atomic_domain),
                  replay_domain |-> HCap(replay_domain)]
  /\ UNCHANGED <<vars, h_todo, h_errors, fresh, atomic_domain, replay_domain>>

HNext == \/ BaselineStep
         \/ BaselineDone
         \/ \E d \in h_todo : HCheckDecision(d)
         \/ HEndLoop
         \/ HReport

HSpec == HInit /\ [][HNext]_<<vars, h_vars>>

-----------------------------------------------------------------------------
Hardened == h_phase = "done" /\ h_report.hardening = "conformant"

\* A positive decision the hardening checker lets through was revalidated by a
\* second look at the clock: its two E11 observations are different records,
\* and (with the baseline) the later one lies after the earlier one.
SecondLookAtClock ==
  Hardened =>
    \A d \in PositiveDecisions :
      LET att == reg.attempts[reg.decisions[d].attempt]
          check == reg.operations[att.operation].check_decision
          use == att.commit_decision
      IN  /\ ObservationOf(check) # ObservationOf(use)
          /\ Latest(check) <= Earliest(use)

\* Everything a hardened positive decision relies on happened in one active,
\* evidence-backed store: the commit, the token it required, and the key that
\* makes it (or makes the retry return it) idempotent.
OneAtomicDomain ==
  Hardened =>
    \A d \in PositiveDecisions :
      LET dec == reg.decisions[d]
          com == reg.commits[dec.commit]
          store == reg.atomic_stores[com.atomic_store]
          policy == reg.policies[dec.policy]
          key == reg.attempts[dec.attempt].idempotency_record
      IN  /\ store.status = "active" /\ store.mode # "unknown"
          /\ store.evidence = "ok"
          /\ dec.state = "commit-safe" /\ policy.require_consumption =>
               reg.consumptions[com.consumption].store = com.atomic_store
          /\ policy.require_idempotency =>
               reg.idempotency_records[key].store = com.atomic_store
==============================================================================
