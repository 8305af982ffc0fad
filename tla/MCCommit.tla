------------------------------ MODULE MCCommit -------------------------------
(***************************************************************************)
(* Registries for TLC: a registry everything is right about, and all those *)
(* an author reaches from it by changing at most two fields to any value   *)
(* of a small set.  The two starting points are a commit with its retry    *)
(* (the fixture of tests/test_eigiib_commit.py, made to hold a second      *)
(* attempt), and two operations that commit independently.                 *)
(***************************************************************************)
EXTENDS CommitHardening, SequencesExt

E10 == [decisions |-> [e1 |-> [state |-> "authorized", proposal |-> "p1", boundary |-> "b1"],
                       e2 |-> [state |-> "authorized", proposal |-> "p2", boundary |-> "b2"]],
        proposals |-> [p1 |-> [request |-> "r1", identity |-> "sha1"],
                       p2 |-> [request |-> "r2", identity |-> "sha2"]],
        executions |-> [x1 |-> [decision |-> "e1", state |-> "attempted"],
                        x2 |-> [decision |-> "e2", state |-> "succeeded"]]]

TemporalDecision(subject, boundary, observation) ==
  [subject |-> subject, boundary |-> boundary, policy |-> "tp",
   observation |-> observation, state |-> "valid"]

Time == [decisions |-> [t1 |-> TemporalDecision("e1", "b1", "early"),
                        t2 |-> TemporalDecision("e1", "b1", "late"),
                        t3 |-> TemporalDecision("e2", "b2", "early"),
                        t4 |-> TemporalDecision("e2", "b2", "late")],
         observations |-> [early |-> [source |-> "clock", tick |-> 1, uncertainty |-> 1],
                           late  |-> [source |-> "clock", tick |-> 4, uncertainty |-> 2]]]

Store == [mode |-> "transactional-unique-key", status |-> "active", evidence |-> "ok"]

Policy(consume, idem) ==
  [allowed_check |-> {"valid"}, allowed_commit |-> {"valid"}, revision |-> "rev",
   require_consumption |-> consume, require_idempotency |-> idem]

Operation(policy, n) ==
  [policy |-> policy, e10_decision |-> <<"e1", "e2">>[n], request |-> <<"r1", "r2">>[n],
   identity |-> <<"sha1", "sha2">>[n], boundary |-> <<"b1", "b2">>[n],
   check_decision |-> <<"t1", "t3">>[n]]

Attempt(op, exec, state, use, c, i) ==
  [operation |-> op, execution |-> exec, state |-> state, commit_decision |-> use,
   consumption |-> c, idempotency_record |-> i]

Consumption(op, att, state, token) ==
  [operation |-> op, attempt |-> att, state |-> state, store |-> "s1",
   token |-> token, evidence |-> "ok"]

Idempotency(op, state, key, canonical) ==
  [operation |-> op, state |-> state, store |-> "s1", key |-> key,
   canonical_commit |-> canonical, evidence |-> "ok"]

CommitRecord(op, att, state, c, i) ==
  [operation |-> op, attempt |-> att, state |-> state, consumption |-> c,
   idempotency_record |-> i, atomic_store |-> "s1", evidence |-> "ok"]

Decision(op, att, policy, state, commit) ==
  [operation |-> op, attempt |-> att, policy |-> policy, state |-> state, commit |-> commit]

Base(policies, operations, attempts, consumptions, idempotency, commits, decisions) ==
  [malformed |-> FALSE,
   atomic_stores |-> [s1 |-> Store, s2 |-> Store],
   policies |-> policies, operations |-> operations, attempts |-> attempts,
   consumptions |-> consumptions, idempotency_records |-> idempotency,
   commits |-> commits, decisions |-> decisions,
   e10_decisions |-> E10.decisions, e10_proposals |-> E10.proposals,
   e10_executions |-> E10.executions,
   e11_decisions |-> Time.decisions, e11_observations |-> Time.observations,
   e11_policies |-> [tp |-> [domain |-> "mono"]],
   e11_sources |-> [clock |-> [domain |-> "mono"], other |-> [domain |-> "wall"]]]

\* One operation, its committed attempt a1 and its retry a2.
WithRetry ==
  Base([cp |-> Policy(TRUE, TRUE)],
       [op1 |-> Operation("cp", 1), op2 |-> Operation("cp", 2)],
       [a1 |-> Attempt("op1", "x1", "committed", "t2", "c1", "i1"),
        a2 |-> Attempt("op1", "x1", "reused", "t2", None, "i1")],
       [c1 |-> Consumption("op1", "a1", "consumed", "tok1"),
        c2 |-> Consumption("op1", "a2", "released", "tok2")],
       [i1 |-> Idempotency("op1", "committed", "key1", "k1"),
        i2 |-> Idempotency("op1", "open", "key2", "k2")],
       [k1 |-> CommitRecord("op1", "a1", "committed", "c1", "i1"),
        k2 |-> CommitRecord("op1", "a2", "disputed", None, None)],
       [d1 |-> Decision("op1", "a1", "cp", "commit-safe", "k1"),
        d2 |-> Decision("op1", "a2", "cp", "idempotent-replay", "k1")])

\* Two operations, each with its own token and commit.
TwoCommits ==
  Base([cp |-> Policy(TRUE, FALSE)],
       [op1 |-> Operation("cp", 1), op2 |-> Operation("cp", 2)],
       [a1 |-> Attempt("op1", "x1", "committed", "t2", "c1", None),
        a2 |-> Attempt("op2", "x2", "committed", "t4", "c2", None)],
       [c1 |-> Consumption("op1", "a1", "consumed", "tok1"),
        c2 |-> Consumption("op2", "a2", "consumed", "tok2")],
       [i1 |-> Idempotency("op1", "retired", "key1", None),
        i2 |-> Idempotency("op2", "open", "key2", None)],
       [k1 |-> CommitRecord("op1", "a1", "committed", "c1", None),
        k2 |-> CommitRecord("op2", "a2", "committed", "c2", None)],
       [d1 |-> Decision("op1", "a1", "cp", "commit-safe", "k1"),
        d2 |-> Decision("op2", "a2", "cp", "commit-safe", "k2")])

\* What an author may write into the records of a section.
OpIds == <<"op1", "op2", None>>
AttIds == <<"a1", "a2">>
ConsIds == <<"c1", "c2", None>>
IdemIds == <<"i1", "i2", None>>
Evidence == <<"bad", "missing">>
TemporalSets == <<{}, {"valid", "grace-valid"}, {"grace-valid"}, {"valid", "expired"}>>

Into(section, ids, field, values) ==
  [n \in 1..(Len(ids) * Len(values)) |->
     [section |-> section, field |-> field,
      id |-> ids[((n - 1) \div Len(values)) + 1],
      value |-> values[((n - 1) % Len(values)) + 1]]]

\* Fields that bind the sections to one another.
BindingEdits == FlattenSeq(<<
  Into("attempts", AttIds, "operation", OpIds),
  Into("attempts", AttIds, "state", <<"committed", "reused", "aborted">>),
  Into("attempts", AttIds, "consumption", ConsIds),
  Into("attempts", AttIds, "idempotency_record", IdemIds),
  Into("consumptions", <<"c1", "c2">>, "operation", OpIds),
  Into("consumptions", <<"c1", "c2">>, "attempt", AttIds),
  Into("consumptions", <<"c1", "c2">>, "state", <<"consumed", "reserved">>),
  Into("consumptions", <<"c1", "c2">>, "store", <<"s2">>),
  Into("consumptions", <<"c2">>, "token", <<"tok1">>),
  Into("idempotency_records", <<"i1", "i2">>, "operation", OpIds),
  Into("idempotency_records", <<"i1", "i2">>, "state", <<"committed", "retired">>),
  Into("idempotency_records", <<"i2">>, "key", <<"key1">>),
  Into("idempotency_records", <<"i1">>, "store", <<"s2">>),
  Into("idempotency_records", <<"i1", "i2">>, "canonical_commit", <<"k1", "k2">>),
  Into("commits", <<"k1", "k2">>, "operation", OpIds),
  Into("commits", <<"k1", "k2">>, "attempt", AttIds),
  Into("commits", <<"k1", "k2">>, "state", <<"committed", "compensated", "disputed">>),
  Into("commits", <<"k1", "k2">>, "consumption", ConsIds),
  Into("commits", <<"k1", "k2">>, "idempotency_record", IdemIds),
  Into("decisions", <<"d1", "d2">>, "operation", OpIds),
  Into("decisions", <<"d1", "d2">>, "attempt", AttIds),
  Into("decisions", <<"d1", "d2">>, "state", <<"commit-safe", "idempotent-replay", "held">>),
  Into("decisions", <<"d1", "d2">>, "commit", <<"k1", "k2", None>>),
  Into("policies", <<"cp">>, "require_consumption", <<TRUE, FALSE>>),
  Into("policies", <<"cp">>, "require_idempotency", <<TRUE, FALSE>>) >>)

\* Fields of what the bindings rest on: stores, policies, E10 and E11.
PremiseEdits == FlattenSeq(<<
  Into("atomic_stores", <<"s1">>, "mode", <<"unknown", "bogus">>),
  Into("atomic_stores", <<"s1", "s2">>, "status", <<"suspended", "bogus">>),
  Into("atomic_stores", <<"s1", "s2">>, "evidence", Evidence),
  Into("policies", <<"cp">>, "allowed_check", TemporalSets),
  Into("policies", <<"cp">>, "allowed_commit", TemporalSets),
  Into("policies", <<"cp">>, "revision", <<None>>),
  Into("policies", <<"cp">>, "require_consumption", <<FALSE>>),
  Into("policies", <<"cp">>, "require_idempotency", <<TRUE, FALSE>>),
  Into("operations", <<"op1", "op2">>, "policy", <<None>>),
  Into("operations", <<"op1", "op2">>, "e10_decision", <<"e1", "e2">>),
  Into("operations", <<"op1", "op2">>, "check_decision", <<"t1", "t2", "t4">>),
  Into("operations", <<"op1">>, "identity", <<Malformed>>),
  Into("operations", <<"op1">>, "boundary", <<"b2", Malformed>>),
  Into("operations", <<"op1">>, "request", <<"r2">>),
  Into("attempts", AttIds, "execution", <<"x1", "x2">>),
  Into("attempts", AttIds, "commit_decision", <<"t1", "t2", "t3">>),
  Into("consumptions", <<"c1", "c2">>, "evidence", Evidence),
  Into("consumptions", <<"c1", "c2">>, "store", <<"s2">>),
  Into("idempotency_records", <<"i1">>, "evidence", Evidence),
  Into("idempotency_records", <<"i1">>, "store", <<"s2">>),
  Into("commits", <<"k1", "k2">>, "evidence", Evidence),
  Into("commits", <<"k1", "k2">>, "atomic_store", <<"s2", None>>),
  Into("e10_decisions", <<"e1">>, "state", <<"held">>),
  Into("e10_decisions", <<"e1">>, "boundary", <<"b2">>),
  Into("e10_executions", <<"x1">>, "state", <<"failed">>),
  Into("e11_decisions", <<"t1", "t2">>, "state", <<"grace-valid", "expired">>),
  Into("e11_decisions", <<"t1", "t2">>, "boundary", <<"b2">>),
  Into("e11_decisions", <<"t1", "t2">>, "subject", <<"e2">>),
  Into("e11_decisions", <<"t1", "t2">>, "observation", <<"early", "late">>),
  Into("e11_observations", <<"early", "late">>, "tick", <<0, 2, 3, 5>>),
  Into("e11_observations", <<"early", "late">>, "uncertainty", <<-1, 0, 2>>),
  Into("e11_observations", <<"early", "late">>, "source", <<"other">>) >>)

Edit(r, e) == [r EXCEPT ![e.section][e.id][e.field] = e.value]

\* Two edits of bindings, or two edits of premises, to either start.  (The
\* last number of each range is past the edits: the file is malformed.)
Starts == {"retry", "pair"}
CommitFiles ==
  (Starts \X {"binding"} \X (1..Len(BindingEdits) + 1) \X (1..Len(BindingEdits)))
    \cup
  (Starts \X {"premise"} \X (1..Len(PremiseEdits)) \X (1..Len(PremiseEdits)))
CommitRegistry(t) ==
  LET start == IF t[1] = "retry" THEN WithRetry ELSE TwoCommits
      edits == IF t[2] = "binding" THEN BindingEdits ELSE PremiseEdits
      once == Edit(start, edits[t[4]])
  IN  IF t[3] > Len(edits) THEN [once EXCEPT !.malformed = TRUE]
                           ELSE Edit(once, edits[t[3]])

\* Attempts, commits and token records bound to one another in every way.
TokenFiles == {"c1", "c2"} \X {"c1", "c2"} \X {"consumed", "released"}
CrossedTokens(t) ==
  [TwoCommits EXCEPT !.attempts["a1"].consumption = t[1],
                     !.commits["k1"].consumption = t[2],
                     !.consumptions["c1"].state = t[3]]

\* A retry of either operation, with either idempotency record.
ReplayFiles == {"op1", "op2"} \X {"x1", "x2"} \X {"t2", "t4"} \X {"i1", "i2"}
CrossedReplays(t) ==
  [WithRetry EXCEPT !.attempts["a2"] = Attempt(t[1], t[2], "reused", t[3], None, t[4]),
                    !.consumptions["c2"].operation = t[1],
                    !.decisions["d2"].operation = t[1],
                    !.commits["k2"].operation = t[1]]
==============================================================================
