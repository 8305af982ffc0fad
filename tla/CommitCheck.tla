----------------------------- MODULE CommitCheck -----------------------------
(***************************************************************************)
(* The E12 checker, tools/eigiib_commit_check.py: one execution of         *)
(* Checker.run() over the commit registry and the E10/E11 registries it    *)
(* refers to.                                                              *)
(*                                                                         *)
(* A behaviour starts with some registry (any of Files), and                *)
(* then runs the eight check_* handlers in the order of run(), one record  *)
(* per step.  A handler iterates over a dict in file order; the author of  *)
(* the file chooses that order, so the next record is any one of those     *)
(* still to do.  What a handler leaves behind is what later handlers read: *)
(* the valid_* sets and the locations that carry an error.                 *)
(***************************************************************************)
EXTENDS Integers

CONSTANTS
  Files,          \* the registry files a run may be given
  RegistryIn(_)   \* what one of them holds, with the E10/E11 files beside it

(***************************************************************************)
(* A registry is a record of sections, each a function from record ids to  *)
(* records.  A reference is resolved by membership in the DOMAIN of a      *)
(* section; None (an absent optional reference) is in no DOMAIN.           *)
(*                                                                         *)
(*   malformed           load_json or map_items recorded an error (what    *)
(*                       they drop is not in the sections), or a field's   *)
(*                       shape is wrong in a way that only adds an error   *)
(*   atomic_stores       mode, status, evidence                            *)
(*   policies            allowed_check, allowed_commit, revision,          *)
(*                       require_consumption, require_idempotency          *)
(*   operations          policy, e10_decision, check_decision, request,    *)
(*                       identity, boundary                                *)
(*   attempts            operation, execution, state, commit_decision,     *)
(*                       consumption, idempotency_record                   *)
(*   consumptions        operation, attempt, state, store, token, evidence *)
(*   idempotency_records operation, state, store, key, canonical_commit,   *)
(*                       evidence                                          *)
(*   commits             operation, attempt, state, consumption,           *)
(*                       idempotency_record, atomic_store, evidence        *)
(*   decisions           operation, attempt, policy, state, commit         *)
(*   e10_decisions       state, proposal, boundary                         *)
(*   e10_proposals       request, identity                                 *)
(*   e10_executions      decision, state                                   *)
(*   e11_decisions       subject, boundary, policy, observation, state     *)
(*   e11_policies        domain                                            *)
(*   e11_observations    source, tick, uncertainty                         *)
(*   e11_sources         domain                                            *)
(*                                                                         *)
(* request stands for (action, scope, target), token and key for           *)
(* (namespace, token) and (namespace, key), boundary for the revision      *)
(* triple.  Malformed is a boundary or identity of the wrong shape; a tick *)
(* or uncertainty that is no usable integer is a negative uncertainty.     *)
(***************************************************************************)
None == "none"
Malformed == "malformed"

\* An absent reference is no id, and ticks and uncertainties are integers
\* (whatever else a file says there is a negative uncertainty, see below).
ASSUME RegistryAssumption ==
  \A f \in Files :
    /\ None \notin DOMAIN RegistryIn(f).consumptions
    /\ \A o \in DOMAIN RegistryIn(f).e11_observations :
         /\ RegistryIn(f).e11_observations[o].tick \in Int
         /\ RegistryIn(f).e11_observations[o].uncertainty \in Int

VARIABLES
  reg,                  \* the registries being checked (never written)
  phase,                \* the handler of run() in progress
  todo,                 \* ids the handler's loop has still to visit
  errors,               \* the locations of the error findings so far
  seen_keys,            \* keys met by check_consumptions / check_idempotency
  valid_stores, valid_operations, revalidated_attempts,
  valid_consumptions, valid_idempotency, valid_commits,
  commit_safe,          \* the decisions counted by commit_safe_count
  replayed,             \* the decisions counted by replay_count
  report                \* the bounded results run() returns

vars == <<reg, phase, todo, errors, seen_keys, valid_stores, valid_operations,
          revalidated_attempts, valid_consumptions, valid_idempotency,
          valid_commits, commit_safe, replayed, report>>

TemporalAdmissible == {"valid", "grace-valid"}
StoreModes == {"atomic-compare-and-set", "transactional-unique-key",
               "external-serialized", "unknown"}
StoreStatuses == {"active", "suspended", "unavailable", "unknown"}
AttemptStates == {"prepared", "committed", "reused", "aborted", "failed",
                  "unavailable"}
ConsumptionStates == {"reserved", "consumed", "released", "contested",
                      "unavailable"}
IdempotencyStates == {"open", "committed", "retired", "contested",
                      "unavailable"}
CommitStates == {"committed", "compensated", "disputed", "unavailable"}
DecisionStates == {"commit-safe", "idempotent-replay", "held", "rejected",
                   "indeterminate", "unavailable"}
Positive == {"commit-safe", "idempotent-replay"}
Historical == {"committed", "compensated"}

Stores == DOMAIN reg.atomic_stores
Policies == DOMAIN reg.policies
Operations == DOMAIN reg.operations
Attempts == DOMAIN reg.attempts
Consumptions == DOMAIN reg.consumptions
IdempotencyRecords == DOMAIN reg.idempotency_records
Commits == DOMAIN reg.commits
Decisions == DOMAIN reg.decisions

(***************************************************************************)
(* Findings.  A finding is recorded against a location, and has_error(loc) *)
(* looks for one at exactly that location.  Evidence is "ok", "bad" (the   *)
(* finding is recorded against the record) or "missing" (a path item names *)
(* no file, and confined() records the finding against the path instead).  *)
(***************************************************************************)
RegistryFile == <<"file", "registry">>
EvidenceFile == <<"file", "evidence">>
Mark(loc, sound) == IF sound THEN {} ELSE {loc}

\* (Mutant: confined() returns None for a missing file and records nothing.)
EvidenceErrorsQuiet(evidence, loc) == Mark(loc, evidence # "bad")

EvidenceErrors(evidence, loc) ==
  CASE evidence = "ok"      -> {}
    [] evidence = "missing" -> {EvidenceFile}
    [] OTHER                -> {loc}

Failed == errors # {}

(***************************************************************************)
(* temporal_view: the E11 decision resolves down to a time source, belongs *)
(* to the E10 decision and boundary at hand, and yields a usable           *)
(* observation in one domain.                                              *)
(***************************************************************************)
Observation(d) == reg.e11_observations[reg.e11_decisions[d].observation]
TimeDomain(d) == reg.e11_policies[reg.e11_decisions[d].policy].domain
Earliest(d) == Observation(d).tick - Observation(d).uncertainty
Latest(d) == Observation(d).tick + Observation(d).uncertainty

TemporalView(d, subject, boundary) ==
  /\ d \in DOMAIN reg.e11_decisions
  /\ reg.e11_decisions[d].subject = subject
  /\ reg.e11_decisions[d].boundary = boundary
  /\ reg.e11_decisions[d].policy \in DOMAIN reg.e11_policies
  /\ reg.e11_decisions[d].observation \in DOMAIN reg.e11_observations
  /\ Observation(d).source \in DOMAIN reg.e11_sources
  /\ reg.e11_sources[Observation(d).source].domain = TimeDomain(d)
  /\ TimeDomain(d) # None
  /\ Observation(d).uncertainty >= 0

\* store_usable: the reference resolves to an evidence-backed atomic premise.
StoreUsable(s) == s \in Stores /\ s \in valid_stores

-----------------------------------------------------------------------------
(* The handlers, one record at a time. *)

StoreErrors(s) ==
  LET store == reg.atomic_stores[s]
      loc == <<"store", s>>
  IN  Mark(loc, store.mode \in StoreModes /\ store.status \in StoreStatuses)
      \cup IF store.status = "active" /\ store.mode # "unknown"
             THEN EvidenceErrors(store.evidence, loc) ELSE {}

StoreAccepted(s) ==
  /\ reg.atomic_stores[s].status = "active"
  /\ reg.atomic_stores[s].mode \in StoreModes \ {"unknown"}
  /\ reg.atomic_stores[s].evidence = "ok"

PolicyErrors(p) ==
  LET policy == reg.policies[p]
  IN  Mark(<<"policy", p>>,
           /\ policy.allowed_check # {}
           /\ policy.allowed_check \subseteq TemporalAdmissible
           /\ policy.allowed_commit # {}
           /\ policy.allowed_commit \subseteq TemporalAdmissible
           /\ policy.revision # None)

\* Every early return of check_operations records an error at the location.
OperationSound(o) ==
  LET op == reg.operations[o]
      e10 == reg.e10_decisions[op.e10_decision]
      proposal == reg.e10_proposals[e10.proposal]
  IN  /\ op.policy \in Policies
      /\ op.e10_decision \in DOMAIN reg.e10_decisions
      /\ e10.state = "authorized"
      /\ e10.proposal \in DOMAIN reg.e10_proposals
      /\ op.request = proposal.request
      /\ op.identity # Malformed
      /\ op.identity = proposal.identity
      /\ op.boundary # Malformed
      /\ op.boundary = e10.boundary
      /\ TemporalView(op.check_decision, op.e10_decision, op.boundary)
      /\ reg.e11_decisions[op.check_decision].state
           \in reg.policies[op.policy].allowed_check

\* The E10 execution belongs to the operation's E10 decision.
AttemptBound(a) ==
  LET att == reg.attempts[a]
  IN  /\ att.state \in AttemptStates
      /\ att.operation \in Operations
      /\ att.execution \in DOMAIN reg.e10_executions
      /\ reg.e10_executions[att.execution].decision
           = reg.operations[att.operation].e10_decision

\* (Mutant: the later interval need only start after the earlier one starts.)
StartsAfter(use, check) == Earliest(use) >= Earliest(check)

\* Every instant of one uncertainty interval is no earlier than the other's.
DefinitelyAfter(use, check) == Earliest(use) >= Latest(check)

\* Commit-time revalidation: a second E11 decision, admitted by the policy,
\* whose whole uncertainty interval is no earlier than the check-time one.
Revalidates(a) ==
  LET att == reg.attempts[a]
      op == reg.operations[att.operation]
      check == op.check_decision
      use == att.commit_decision
  IN  /\ att.operation \in valid_operations
      /\ reg.e10_executions[att.execution].state \in {"attempted", "succeeded"}
      /\ use # check
      /\ TemporalView(check, op.e10_decision, op.boundary)
      /\ TemporalView(use, op.e10_decision, op.boundary)
      /\ reg.e11_decisions[use].state \in reg.policies[op.policy].allowed_commit
      /\ TimeDomain(use) = TimeDomain(check)
      /\ DefinitelyAfter(use, check)

AttemptPositive(a) == reg.attempts[a].state \in {"committed", "reused"}

ConsumptionKey(c) == <<reg.consumptions[c].store, reg.consumptions[c].token>>
IdempotencyKey(i) ==
  <<reg.idempotency_records[i].store, reg.idempotency_records[i].key>>

\* (Mutant: a key met before is not an error.)
FirstUseUnchecked(key) == key \in seen_keys \/ key \notin seen_keys

\* seen_keys: the key is not owned by a record met before.
FirstUse(key) == key \notin seen_keys

\* (Mutant: the attempt must name a consumption, but not this one.)
SelectsSome(att, c) == reg.attempts[att].consumption # None

\* A consumed record is the one its attempt names.
Selects(att, c) == reg.attempts[att].consumption = c

\* The operation and attempt a consumption or commit record names.
Resolves(rec) == rec.operation \in Operations /\ rec.attempt \in Attempts
Coherent(rec) ==
  Resolves(rec) /\ reg.attempts[rec.attempt].operation = rec.operation

ConsumptionErrors(c) ==
  LET rec == reg.consumptions[c]
      loc == <<"consumption", c>>
  IN  Mark(loc,
           /\ rec.state \in ConsumptionStates
           /\ FirstUse(ConsumptionKey(c))
           /\ Coherent(rec)
           /\ rec.state = "consumed" =>
                /\ Selects(rec.attempt, c)
                /\ StoreUsable(rec.store))
      \cup IF Resolves(rec) /\ rec.state = "consumed"
             THEN EvidenceErrors(rec.evidence, loc) ELSE {}

IdempotencyErrors(i) ==
  LET rec == reg.idempotency_records[i]
      loc == <<"idempotency", i>>
  IN  Mark(loc,
           /\ rec.state \in IdempotencyStates
           /\ FirstUse(IdempotencyKey(i))
           /\ rec.operation \in Operations
           /\ rec.state = "committed" =>
                /\ StoreUsable(rec.store)
                /\ rec.canonical_commit \in Commits
                /\ reg.commits[rec.canonical_commit].state = "committed"
                /\ reg.commits[rec.canonical_commit].operation = rec.operation
                /\ reg.commits[rec.canonical_commit].idempotency_record = i)
      \cup IF rec.state = "committed"
             THEN EvidenceErrors(rec.evidence, loc) ELSE {}

\* The consumption a commit uses: the attempt's own valid record where the
\* policy requires one, a coherent record where it is merely named.
CommitConsumption(k) ==
  LET com == reg.commits[k]
  IN  IF reg.policies[reg.operations[com.operation].policy].require_consumption
        THEN /\ com.consumption = reg.attempts[com.attempt].consumption
             /\ com.consumption \in valid_consumptions
        ELSE \/ com.consumption = None
             \/ /\ com.consumption \in Consumptions
                /\ reg.consumptions[com.consumption].operation = com.operation
                /\ reg.consumptions[com.consumption].attempt = com.attempt

CommitIdempotency(k) ==
  LET com == reg.commits[k]
      i == com.idempotency_record
  IN  IF reg.policies[reg.operations[com.operation].policy].require_idempotency
        THEN /\ i = reg.attempts[com.attempt].idempotency_record
             /\ i \in valid_idempotency
             /\ reg.idempotency_records[i].canonical_commit = k
        ELSE \/ i = None
             \/ /\ i \in IdempotencyRecords
                /\ reg.idempotency_records[i].operation = com.operation

CommitErrors(k) ==
  LET com == reg.commits[k]
      loc == <<"commit", k>>
  IN  Mark(loc,
           /\ com.state \in CommitStates
           /\ Coherent(com)
           /\ com.state = "committed" =>
                /\ reg.attempts[com.attempt].state = "committed"
                /\ com.attempt \in revalidated_attempts
                /\ reg.operations[com.operation].policy \in Policies
                /\ CommitConsumption(k)
                /\ CommitIdempotency(k))
      \cup IF Resolves(com) /\ com.state \in Historical
             THEN EvidenceErrors(com.evidence, loc) ELSE {}

\* Operations that more than one record in one of these states names.
NamedTwice(states) ==
  {reg.commits[k].operation : k \in
     {k \in Commits :
        /\ reg.commits[k].state \in states
        /\ \E other \in Commits \ {k} :
             /\ reg.commits[other].state \in states
             /\ reg.commits[other].operation = reg.commits[k].operation}}

\* (Mutant: compensated commits are not counted.)
MultiplyCommittedNow == NamedTwice({"committed"})

MultiplyCommitted == NamedTwice(Historical)

DecisionBound(d) ==
  LET dec == reg.decisions[d]
  IN  /\ dec.state \in DecisionStates
      /\ Coherent(dec)
      /\ dec.policy \in Policies
      /\ reg.operations[dec.operation].policy = dec.policy

DecisionRevalidated(d) ==
  /\ reg.decisions[d].operation \in valid_operations
  /\ reg.decisions[d].attempt \in revalidated_attempts

CommitSafe(d) ==
  LET dec == reg.decisions[d]
  IN  /\ reg.attempts[dec.attempt].state = "committed"
      /\ dec.commit \in valid_commits
      /\ reg.commits[dec.commit].operation = dec.operation
      /\ reg.commits[dec.commit].attempt = dec.attempt

\* (Mutant: a retry may have spent a token of its own.)
NoNewCommit(a) ==
  ~ \E k \in Commits : /\ reg.commits[k].attempt = a
                       /\ reg.commits[k].state \in Historical

\* The retry names no consumption, and no commit that happened names it.
NoNewEffect(a) ==
  /\ reg.attempts[a].consumption = None
  /\ ~ \E k \in Commits : /\ reg.commits[k].attempt = a
                          /\ reg.commits[k].state \in Historical

IdempotentReplay(d) ==
  LET dec == reg.decisions[d]
      att == reg.attempts[dec.attempt]
      i == att.idempotency_record
      canonical == reg.idempotency_records[i].canonical_commit
  IN  /\ reg.policies[dec.policy].require_idempotency
      /\ att.state = "reused"
      /\ i \in valid_idempotency
      /\ canonical \in valid_commits
      /\ dec.commit = canonical
      /\ reg.commits[canonical].attempt # dec.attempt
      /\ NoNewEffect(dec.attempt)

DecisionSound(d) ==
  LET dec == reg.decisions[d]
  IN  /\ DecisionBound(d)
      /\ CASE dec.state = "commit-safe" ->
                DecisionRevalidated(d) /\ CommitSafe(d)
           [] dec.state = "idempotent-replay" ->
                DecisionRevalidated(d) /\ IdempotentReplay(d)
           [] OTHER -> dec.commit = None \/ dec.commit \in Commits

-----------------------------------------------------------------------------
(* The steps of run(). *)

\* The records each handler iterates over.
Section(p) ==
  CASE p = "stores"       -> Stores
    [] p = "policies"     -> Policies
    [] p = "operations"   -> Operations
    [] p = "attempts"     -> Attempts
    [] p = "consumptions" -> Consumptions
    [] p = "idempotency"  -> IdempotencyRecords
    [] p = "commits"      -> Commits
    [] p = "decisions"    -> Decisions
    [] OTHER              -> {}

After(p) ==
  CASE p = "stores"       -> "policies"
    [] p = "policies"     -> "operations"
    [] p = "operations"   -> "attempts"
    [] p = "attempts"     -> "consumptions"
    [] p = "consumptions" -> "idempotency"
    [] p = "idempotency"  -> "historical"
    [] p = "commits"      -> "decisions"
    [] OTHER              -> "report"

Phases == {"load", "stores", "policies", "operations", "attempts",
           "consumptions", "idempotency", "historical", "commits",
           "decisions", "report", "done"}
Loops == Phases \ {"load", "historical", "report", "done"}

Init ==
  /\ \E f \in Files : reg = RegistryIn(f)
  /\ phase = "load"
  /\ todo = {}
  /\ errors = {}
  /\ seen_keys = {}
  /\ valid_stores = {}
  /\ valid_operations = {}
  /\ revalidated_attempts = {}
  /\ valid_consumptions = {}
  /\ valid_idempotency = {}
  /\ valid_commits = {}
  /\ commit_safe = {}
  /\ replayed = {}
  /\ report = [structural          |-> "pending",
               operation_binding   |-> "not-evaluated",
               commit_revalidation |-> "not-evaluated",
               consumption_binding |-> "not-evaluated",
               idempotency_binding |-> "not-evaluated",
               commit_safety       |-> "not-evaluated",
               idempotent_replay   |-> "not-evaluated"]

\* (Mutant: the loop iterates over the section of the handler before.)
EnterStale(p) == phase' = p /\ todo' = Section(phase) /\ seen_keys' = {}

\* run() calls the next handler, which starts with its own seen_keys.
Enter(p) == phase' = p /\ todo' = Section(p) /\ seen_keys' = {}

Load ==
  /\ phase = "load"
  /\ errors' = IF reg.malformed THEN {RegistryFile} ELSE {}
  /\ Enter("stores")
  /\ UNCHANGED <<reg, valid_stores, valid_operations, revalidated_attempts,
                 valid_consumptions, valid_idempotency, valid_commits,
                 commit_safe, replayed, report>>

\* A loop that has visited every record returns to run().
EndLoop ==
  /\ phase \in Loops
  /\ todo = {}
  /\ Enter(After(phase))
  /\ UNCHANGED <<reg, errors, valid_stores, valid_operations,
                 revalidated_attempts, valid_consumptions, valid_idempotency,
                 valid_commits, commit_safe, replayed, report>>

Visit(p, id) ==
  /\ phase = p
  /\ id \in todo
  /\ todo' = todo \ {id}
  /\ UNCHANGED <<reg, phase, report>>

CheckStore(s) ==
  /\ Visit("stores", s)
  /\ errors' = errors \cup StoreErrors(s)
  /\ valid_stores' = valid_stores \cup IF StoreAccepted(s) THEN {s} ELSE {}
  /\ UNCHANGED <<seen_keys, valid_operations, revalidated_attempts,
                 valid_consumptions, valid_idempotency, valid_commits,
                 commit_safe, replayed>>

CheckPolicy(p) ==
  /\ Visit("policies", p)
  /\ errors' = errors \cup PolicyErrors(p)
  /\ UNCHANGED <<seen_keys, valid_stores, valid_operations,
                 revalidated_attempts, valid_consumptions, valid_idempotency,
                 valid_commits, commit_safe, replayed>>

CheckOperation(o) ==
  /\ Visit("operations", o)
  /\ errors' = errors \cup Mark(<<"operation", o>>, OperationSound(o))
  /\ valid_operations' =
       valid_operations \cup IF OperationSound(o) THEN {o} ELSE {}
  /\ UNCHANGED <<seen_keys, valid_stores, revalidated_attempts,
                 valid_consumptions, valid_idempotency, valid_commits,
                 commit_safe, replayed>>

CheckAttempt(a) ==
  LET sound == AttemptBound(a) /\ (AttemptPositive(a) => Revalidates(a))
  IN  /\ Visit("attempts", a)
      /\ errors' = errors \cup Mark(<<"attempt", a>>, sound)
      /\ revalidated_attempts' =
           revalidated_attempts
             \cup IF sound /\ AttemptPositive(a) THEN {a} ELSE {}
      /\ UNCHANGED <<seen_keys, valid_stores, valid_operations,
                     valid_consumptions, valid_idempotency, valid_commits,
                     commit_safe, replayed>>

\* Missing evidence is recorded against the path, so it does not stop the
\* record from becoming valid here: has_error(loc) does not see it.
CheckConsumption(c) ==
  /\ Visit("consumptions", c)
  /\ seen_keys' = seen_keys \cup {ConsumptionKey(c)}
  /\ errors' = errors \cup ConsumptionErrors(c)
  /\ valid_consumptions' =
       valid_consumptions \cup
         IF /\ reg.consumptions[c].state = "consumed"
            /\ <<"consumption", c>> \notin ConsumptionErrors(c)
           THEN {c} ELSE {}
  /\ UNCHANGED <<valid_stores, valid_operations, revalidated_attempts,
                 valid_idempotency, valid_commits, commit_safe, replayed>>

CheckIdempotency(i) ==
  /\ Visit("idempotency", i)
  /\ seen_keys' = seen_keys \cup {IdempotencyKey(i)}
  /\ errors' = errors \cup IdempotencyErrors(i)
  /\ valid_idempotency' =
       valid_idempotency \cup
         IF /\ reg.idempotency_records[i].state = "committed"
            /\ <<"idempotency", i>> \notin IdempotencyErrors(i)
           THEN {i} ELSE {}
  /\ UNCHANGED <<valid_stores, valid_operations, revalidated_attempts,
                 valid_consumptions, valid_commits, commit_safe, replayed>>

\* check_commits first counts the committed and compensated records of each
\* operation.  The error lands on the operation, long after the operation
\* became valid and was used.
CountHistorical ==
  /\ phase = "historical"
  /\ errors' = errors \cup {<<"operation", o>> : o \in MultiplyCommitted}
  /\ Enter("commits")
  /\ UNCHANGED <<reg, valid_stores, valid_operations, revalidated_attempts,
                 valid_consumptions, valid_idempotency, valid_commits,
                 commit_safe, replayed, report>>

CheckCommit(k) ==
  /\ Visit("commits", k)
  /\ errors' = errors \cup CommitErrors(k)
  /\ valid_commits' =
       valid_commits \cup
         IF /\ reg.commits[k].state = "committed"
            /\ <<"commit", k>> \notin CommitErrors(k)
           THEN {k} ELSE {}
  /\ UNCHANGED <<seen_keys, valid_stores, valid_operations,
                 revalidated_attempts, valid_consumptions, valid_idempotency,
                 commit_safe, replayed>>

CheckDecision(d) ==
  LET counted(s) == IF DecisionSound(d) /\ reg.decisions[d].state = s
                      THEN {d} ELSE {}
  IN  /\ Visit("decisions", d)
      /\ errors' = errors \cup Mark(<<"decision", d>>, DecisionSound(d))
      /\ commit_safe' = commit_safe \cup counted("commit-safe")
      /\ replayed' = replayed \cup counted("idempotent-replay")
      /\ UNCHANGED <<seen_keys, valid_stores, valid_operations,
                     revalidated_attempts, valid_consumptions,
                     valid_idempotency, valid_commits>>

Cap(counted) == IF Failed \/ counted = {} THEN "not-evaluated" ELSE "verified"

Report ==
  /\ phase = "report"
  /\ phase' = "done"
  /\ report' = [structural          |-> IF Failed THEN "non-conformant"
                                                  ELSE "conformant",
                operation_binding   |-> Cap(valid_operations),
                commit_revalidation |-> Cap(revalidated_attempts),
                consumption_binding |-> Cap(valid_consumptions),
                idempotency_binding |-> Cap(valid_idempotency),
                commit_safety       |-> Cap(commit_safe),
                idempotent_replay   |-> Cap(replayed)]
  /\ UNCHANGED <<reg, todo, errors, seen_keys, valid_stores, valid_operations,
                 revalidated_attempts, valid_consumptions, valid_idempotency,
                 valid_commits, commit_safe, replayed>>

Next ==
  \/ Load
  \/ EndLoop
  \/ CountHistorical
  \/ Report
  \/ \E id \in todo :
       \/ CheckStore(id)
       \/ CheckPolicy(id)
       \/ CheckOperation(id)
       \/ CheckAttempt(id)
       \/ CheckConsumption(id)
       \/ CheckIdempotency(id)
       \/ CheckCommit(id)
       \/ CheckDecision(id)

Spec == Init /\ [][Next]_vars

-----------------------------------------------------------------------------
(* Properties.  Those about a finished run speak of the registry it was    *)
(* given, not of the checker's own sets.                                   *)

Conformant == phase = "done" /\ report.structural = "conformant"
Verified(result) == phase = "done" /\ report[result] = "verified"

Results == [structural : {"pending", "conformant", "non-conformant"},
            operation_binding : {"not-evaluated", "verified"},
            commit_revalidation : {"not-evaluated", "verified"},
            consumption_binding : {"not-evaluated", "verified"},
            idempotency_binding : {"not-evaluated", "verified"},
            commit_safety : {"not-evaluated", "verified"},
            idempotent_replay : {"not-evaluated", "verified"}]

\* Every set a handler fills holds ids of the registry being checked, and the
\* loop only ever visits ids of the section it iterates over.
TypeOK ==
  /\ phase \in Phases
  /\ todo \subseteq Section(phase)
  /\ valid_stores \subseteq Stores
  /\ valid_operations \subseteq Operations
  /\ revalidated_attempts \subseteq Attempts
  /\ valid_consumptions \subseteq Consumptions
  /\ valid_idempotency \subseteq IdempotencyRecords
  /\ valid_commits \subseteq Commits
  /\ commit_safe \subseteq Decisions
  /\ replayed \subseteq Decisions
  /\ report \in Results

PositiveDecisions == {d \in Decisions : reg.decisions[d].state \in Positive}
Replays == {d \in Decisions : reg.decisions[d].state = "idempotent-replay"}
Spent == {c \in Consumptions : reg.consumptions[c].state = "consumed"}
HistoricalCommits ==
  {k \in Commits : reg.commits[k].state \in Historical}

\* TOCTOU closure (check_attempts, after check_operations).  In a conformant
\* registry every positive decision rests on two different E11 decisions about
\* one authorized E10 decision and its exact revision boundary, and every
\* instant the use may have happened at is no earlier, in the same time
\* domain, than every instant the check may have happened at.
UseFollowsCheck ==
  Conformant =>
    \A d \in PositiveDecisions :
      LET att == reg.attempts[reg.decisions[d].attempt]
          op == reg.operations[att.operation]
          check == op.check_decision
          use == att.commit_decision
      IN  /\ reg.e10_decisions[op.e10_decision].state = "authorized"
          /\ check # use
          /\ \A t \in {check, use} :
               /\ reg.e11_decisions[t].subject = op.e10_decision
               /\ reg.e11_decisions[t].boundary
                    = reg.e10_decisions[op.e10_decision].boundary
          /\ TimeDomain(check) = TimeDomain(use)
          /\ \A x \in Earliest(check)..Latest(check),
                y \in Earliest(use)..Latest(use) : x <= y

\* A conformant registry never holds two commits that happened for one
\* operation, compensated ones included, so all its commit-safe decisions of
\* one operation are about one commit.
AtMostOneCommit ==
  Conformant =>
    \A j, k \in HistoricalCommits :
      reg.commits[j].operation = reg.commits[k].operation => j = k

\* A (store, namespace, token) triple is one-shot: in a conformant registry
\* no two records carry it, whatever their states, and no attempt has spent
\* two of them.
TokenSpentOnce ==
  Conformant =>
    /\ \A b, c \in Consumptions : ConsumptionKey(b) = ConsumptionKey(c) => b = c
    /\ \A b, c \in Spent :
         reg.consumptions[b].attempt = reg.consumptions[c].attempt => b = c

\* An idempotent replay changes nothing: in a conformant registry its attempt
\* has spent no token and made no commit, and the commit it returns was made
\* by another attempt and is the only one its operation ever had.
RetryHasNoEffect ==
  Conformant =>
    \A d \in Replays :
      LET dec == reg.decisions[d]
      IN  /\ \A c \in Spent : reg.consumptions[c].attempt # dec.attempt
          /\ \A k \in HistoricalCommits :
               /\ reg.commits[k].attempt # dec.attempt
               /\ reg.commits[k].operation = reg.commits[dec.commit].operation
                    => k = dec.commit
          /\ reg.commits[dec.commit].state = "committed"

\* Positive-result suppression: a result is reported as verified only if every
\* spent token, committed idempotency record and commit of the registry, and
\* every store they name, has evidence that is really there.
EvidenceBacked ==
  (\E r \in DOMAIN report \ {"structural"} : Verified(r)) =>
    /\ \A c \in Spent :
         /\ reg.consumptions[c].evidence = "ok"
         /\ reg.atomic_stores[reg.consumptions[c].store].evidence = "ok"
    /\ \A i \in IdempotencyRecords :
         reg.idempotency_records[i].state = "committed" =>
           /\ reg.idempotency_records[i].evidence = "ok"
           /\ reg.atomic_stores[reg.idempotency_records[i].store].evidence = "ok"
    /\ \A k \in HistoricalCommits : reg.commits[k].evidence = "ok"

-----------------------------------------------------------------------------
(* What the E12 text says of the program and the program does not do.      *)

\* E12 section 7: "A commit cannot use a consumption record for another
\* operation or another attempt."  check_commits compares the record's id
\* with the attempt's field, but not the record's own operation and attempt.
CommitOwnsItsToken ==
  Verified("commit_safety") =>
    \A k \in Commits :
      reg.commits[k].state = "committed" /\ reg.commits[k].consumption # None =>
        LET rec == reg.consumptions[reg.commits[k].consumption]
        IN  /\ rec.operation = reg.commits[k].operation
            /\ rec.attempt = reg.commits[k].attempt

\* E12 section 10: "the attempt references a committed idempotency record for
\* the same operation".  check_decisions never compares the operation of the
\* record, or of its canonical commit, with the decision's operation.
ReplayStaysInOperation ==
  Verified("idempotent_replay") =>
    \A d \in Replays :
      reg.commits[reg.decisions[d].commit].operation = reg.decisions[d].operation

-----------------------------------------------------------------------------
(* The ledger the run builds up, as long as it has found no error.         *)
SpentNow == {[key |-> ConsumptionKey(c), attempt |-> reg.consumptions[c].attempt] :
               c \in valid_consumptions}
CommitsNow == {[commit |-> k, operation |-> reg.commits[k].operation,
                attempt |-> reg.commits[k].attempt] : k \in valid_commits}
ReturnsNow == {[attempt |-> reg.decisions[d].attempt,
                commit |-> reg.decisions[d].commit] : d \in replayed}

Ledger ==
  INSTANCE CommitLedger WITH
    open    <- ~Failed,
    spent   <- IF Failed THEN {} ELSE SpentNow,
    commits <- IF Failed THEN {} ELSE CommitsNow,
    returns <- IF Failed THEN {} ELSE ReturnsNow

\* A run of the checker is a run of the ledger protocol: records become valid
\* in an order in which tokens are spent once, operations commit once and a
\* retry returns an existing commit, and the first error discards it all.
LedgerSpec == Ledger!Spec
==============================================================================
