------------------------------- MODULE MCPolicy -------------------------------
(***************************************************************************)
(* Registries for TLC: one that everything is right about, and all those   *)
(* an author reaches from it by changing at most two fields to any value   *)
(* of a small set.  The starting point is the registry of the two E13      *)
(* tests, with priorities, an optional member policy, an obligation that   *)
(* is waived, one that is satisfied and one that is left for later, and a  *)
(* second request, held because a required policy says nothing, that has   *)
(* an active waiver of its own.  The decisions da2, dc and the context ctx2*)
(* are there for edits to refer to.                                        *)
(***************************************************************************)
EXTENDS PolicyHardening, SequencesExt

Publish == [action |-> "publish", target |-> "service", party |-> "alice"]
Waive == [action |-> WaiveObligation, target |-> "ob", party |-> "security"]

Revisions(context) == [proposal |-> "v1", policy |-> "v1", context |-> context]

Member(policy, required, priority) ==
  [policy |-> policy, required |-> required, priority |-> priority]

E10Proposal(policy, subject) ==
  [revision |-> "v1", policy |-> policy, context |-> "ctx", subject |-> subject]

Upstream(state, proposal, policy) ==
  [state |-> state, proposal |-> proposal, policy |-> policy, context |-> "ctx",
   revisions |-> Revisions("v1")]

Request(decisions) ==
  [wellformed |-> TRUE, profile |-> "cp", subject |-> Publish, context |-> "ctx",
   context_revision |-> "v1", decisions |-> decisions]

Obligation(source, stage, trigger, waivable) ==
  [wellformed |-> TRUE, profile |-> "cp", source |-> source, phase |-> stage,
   trigger |-> trigger, mandatory |-> TRUE, waivable |-> waivable]

Waiver(request) ==
  [kind |-> "obligation-waiver", state |-> "active", request |-> request,
   obligation |-> "ob", e10_decision |-> "dw", evidence |-> "ok"]

Evaluation(state, obligation, exception) ==
  [state |-> state, request |-> "r1", obligation |-> obligation,
   exception |-> exception, evidence |-> "ok"]

Profile(algorithm, members) ==
  [wellformed |-> TRUE, algorithm |-> algorithm, members |-> members,
   allow_obligation_waivers |-> TRUE]

Valid ==
  [malformed |-> FALSE, files |-> "both",
   profiles |-> [cp |-> Profile("permit-overrides",
                                <<Member("pa", TRUE, 10), Member("pb", TRUE, 20),
                                  Member("pc", FALSE, 5)>>)],
   requests |-> [r1 |-> Request(<<"da", "db">>), r2 |-> Request(<<"db">>)],
   obligations |-> [ob |-> Obligation("pa", "pre-decision", "authorized", TRUE),
                    each |-> Obligation("pb", "pre-decision", "always", FALSE),
                    later |-> Obligation("pa", "post-commit", "authorized", FALSE)],
   exceptions |-> [x1 |-> Waiver("r1"), x2 |-> Waiver("r2")],
   evaluations |-> [v1 |-> Evaluation("waived", "ob", "x1"),
                    v2 |-> Evaluation("satisfied", "each", None),
                    v3 |-> Evaluation("pending", "later", None)],
   decisions |-> [c1 |-> [state |-> "permitted", request |-> "r1", profile |-> "cp"],
                  c2 |-> [state |-> "held", request |-> "r2", profile |-> "cp"]],
   e10_policies |-> [pa |-> "v1", pb |-> "v1", pc |-> "v1", pw |-> "v1"],
   e10_contexts |-> [ctx |-> "v1", ctx2 |-> "v1"],
   e10_proposals |-> [qa |-> E10Proposal("pa", Publish), qb |-> E10Proposal("pb", Publish),
                      qc |-> E10Proposal("pc", Publish), qw |-> E10Proposal("pw", Waive)],
   e10_decisions |-> [da |-> Upstream("authorized", "qa", "pa"),
                      da2 |-> Upstream("denied", "qa", "pa"),
                      db |-> Upstream("authorized", "qb", "pb"),
                      dc |-> Upstream("denied", "qc", "pc"),
                      dw |-> Upstream("authorized", "qw", "pw")]]

Into(section, ids, field, values) ==
  [n \in 1..(Len(ids) * Len(values)) |->
     [section |-> section, field |-> field,
      id |-> ids[((n - 1) \div Len(values)) + 1],
      value |-> values[((n - 1) % Len(values)) + 1]]]

Edits == FlattenSeq(<<
  Into("profiles", <<"cp">>, "algorithm",
       <<"all-authorized", "deny-overrides", "priority-order", "majority">>),
  Into("profiles", <<"cp">>, "members",
       <<<<Member("pa", TRUE, 10)>>,
         <<Member("pa", FALSE, 10), Member("pb", TRUE, 20)>>,
         <<Member("pa", TRUE, 10), Member("pb", FALSE, 10)>>,
         <<Member("pa", TRUE, 10), Member("pa", FALSE, 30), Member("pb", TRUE, 20)>>,
         <<Member("pa", FALSE, 10), Member("pb", FALSE, 20)>>,
         <<Member("pa", TRUE, 10), Member("pd", TRUE, 20)>>>>),
  Into("profiles", <<"cp">>, "allow_obligation_waivers", <<FALSE>>),
  Into("requests", <<"r1">>, "profile", <<"cq">>),
  Into("requests", <<"r1">>, "subject",
       <<[Publish EXCEPT !.target = "other"], [Publish EXCEPT !.party = "bob"]>>),
  Into("requests", <<"r1">>, "context", <<"ctx2">>),
  Into("requests", <<"r1">>, "context_revision", <<"v2">>),
  Into("requests", <<"r1", "r2">>, "decisions",
       <<<<"da">>, <<"db", "da">>, <<"da2", "da", "db">>, <<"da", "da2", "db">>,
         <<"da", "db", "dc">>, <<"da", "db", "dw">>, <<"da", "db", "da">>,
         <<"da", "db", "none such">>, <<>>>>),
  Into("obligations", <<"ob">>, "waivable", <<FALSE>>),
  Into("obligations", <<"ob", "each">>, "source", <<"pc", "pw">>),
  Into("obligations", <<"ob", "later">>, "trigger", <<"denied", "always", "never">>),
  Into("obligations", <<"each", "later">>, "phase", <<"pre-decision", "audit", "once">>),
  Into("obligations", <<"ob">>, "mandatory", <<FALSE>>),
  Into("obligations", <<"each">>, "profile", <<"cq">>),
  Into("exceptions", <<"x1", "x2">>, "state", <<"retired", "revoked">>),
  Into("exceptions", <<"x1", "x2">>, "request", <<"r1", "r2", "r3">>),
  Into("exceptions", <<"x1">>, "obligation", <<"each", "later">>),
  Into("exceptions", <<"x1">>, "e10_decision", <<"da", "d">>),
  Into("exceptions", <<"x1">>, "kind", <<"break-glass">>),
  Into("exceptions", <<"x1">>, "evidence", <<"bad", "missing">>),
  Into("evaluations", <<"v1", "v2", "v3">>, "state",
       <<"satisfied", "pending", "failed", "waived", "done">>),
  Into("evaluations", <<"v1", "v2">>, "request", <<"r2", "r3">>),
  Into("evaluations", <<"v3">>, "obligation", <<"ob", "each">>),
  Into("evaluations", <<"v1">>, "exception", <<"x2", "x3">>),
  Into("evaluations", <<"v2">>, "evidence", <<"bad", "missing">>),
  Into("decisions", <<"c1", "c2">>, "state", <<"permitted", "denied", "held", "allowed">>),
  Into("decisions", <<"c2">>, "request", <<"r1", "r3">>),
  Into("decisions", <<"c1">>, "profile", <<"cq">>),
  Into("e10_proposals", <<"qa", "qw">>, "revision", <<"v2">>),
  Into("e10_proposals", <<"qb", "qw">>, "context", <<"ctx2">>),
  Into("e10_proposals", <<"qb">>, "policy", <<"pa">>),
  Into("e10_proposals", <<"qb">>, "subject", <<[Publish EXCEPT !.target = "other"]>>),
  Into("e10_proposals", <<"qw">>, "subject",
       <<Publish, [Waive EXCEPT !.target = "each"]>>),
  Into("e10_decisions", <<"da", "db">>, "state",
       <<"denied", "held", "unavailable", "mystery">>),
  Into("e10_decisions", <<"dw">>, "state", <<"denied">>),
  Into("e10_decisions", <<"db", "dw">>, "revisions",
       <<Revisions("v2"), [Revisions("v1") EXCEPT !.policy = "v2"]>>),
  Into("e10_decisions", <<"dw">>, "context", <<"ctx2">>),
  Into("e10_decisions", <<"db", "dw">>, "proposal", <<"q">>) >>)

Edit(r, e) == [r EXCEPT ![e.section][e.id][e.field] = e.value]

\* Two edits of records; or one, and a change of what an edit cannot reach:
\* the revision of a context or policy, or a file that could not be read.
Faults == <<"context", "policy", "malformed", "missing", "empty">>
Fault(r, f) ==
  CASE f = "context"   -> [r EXCEPT !.e10_contexts["ctx"] = "v2"]
    [] f = "policy"    -> [r EXCEPT !.e10_policies["pb"] = "v2"]
    [] f = "malformed" -> [r EXCEPT !.malformed = TRUE]
    [] OTHER           -> [r EXCEPT !.files = f]

PolicyFiles == (1..Len(Edits) + Len(Faults)) \X (1..Len(Edits))
PolicyRegistry(t) ==
  LET once == Edit(Valid, Edits[t[2]])
  IN  IF t[1] <= Len(Edits) THEN Edit(once, Edits[t[1]])
      ELSE Fault(once, Faults[t[1] - Len(Edits)])
==============================================================================
