----------------------------- MODULE MCAutomation -----------------------------
(***************************************************************************)
(* Registries for TLC: one that everything is right about, and all those   *)
(* an author reaches from it by changing at most two fields to any value   *)
(* of a small set.  The starting point is the registry of                  *)
(* tests/test_eigiib_automation.py with an automated actor that holds its  *)
(* scope over two delegations, a quorum of two one of whom is delegated, a *)
(* denied decision beside the authorized one, two executions of it, and a  *)
(* delegation g3 by somebody who has nothing to delegate.                  *)
(***************************************************************************)
EXTENDS AutomationHardening, SequencesExt

Person(direct) ==
  [wellformed |-> TRUE, status |-> "active", automation |-> FALSE, direct |-> direct]

Delegation(delegator, delegate, scopes) ==
  [wellformed |-> TRUE, delegator |-> delegator, delegate |-> delegate,
   status |-> "active", scopes |-> scopes, evidence |-> None]

Revisions(proposal) == [proposal |-> proposal, policy |-> "v1", context |-> "v1"]

Approval(approver, path) ==
  [wellformed |-> TRUE, proposal |-> "q", approver |-> approver, state |-> "approved",
   revisions |-> Revisions("v1"), path |-> path, evidence |-> "ok"]

Decision(state, path, approvals) ==
  [wellformed |-> TRUE, proposal |-> "q", policy |-> "pol", context |-> "ctx",
   state |-> state, revisions |-> Revisions("v1"), path |-> path,
   approvals |-> approvals]

Execution(state) ==
  [wellformed |-> TRUE, decision |-> "d1", executor |-> "worker", state |-> state,
   path |-> <<>>, evidence |-> "ok"]

Valid ==
  [flaws |-> {},
   principals |-> [root |-> Person({"act", "approve"}), lead |-> Person({}),
                   bot |-> [Person({}) EXCEPT !.automation = TRUE],
                   worker |-> Person({"act"}), clerk |-> Person({})],
   delegations |-> [g1 |-> Delegation("root", "lead", {"act", "approve"}),
                    g2 |-> Delegation("lead", "bot", {"act"}),
                    g3 |-> Delegation("clerk", "bot", {"act"})],
   contexts |-> [ctx |-> [wellformed |-> TRUE, revision |-> "v1", e9 |-> "fallback"]],
   policies |-> [pol |-> [wellformed |-> TRUE, revision |-> "v1", action_scope |-> "act",
                          approval_scope |-> "approve", required_approvals |-> 2,
                          allow_self_approval |-> FALSE, allow_automation_actor |-> TRUE,
                          allow_automation_executor |-> FALSE,
                          max_delegation_depth |-> 2, require_e9_context |-> TRUE,
                          allowed_e9_states |-> {"fallback-verified"}]],
   proposals |-> [q |-> [wellformed |-> TRUE, revision |-> "v1", scope |-> "act",
                         actor |-> "bot", executor |-> "worker", policy |-> "pol",
                         context |-> "ctx"]],
   approvals |-> [a1 |-> Approval("root", <<>>), a2 |-> Approval("lead", <<"g1">>)],
   decisions |-> [d1 |-> Decision("authorized", <<"g1", "g2">>, <<"a1", "a2">>),
                  d2 |-> Decision("denied", <<>>, <<>>)],
   executions |-> [x1 |-> Execution("succeeded"), x2 |-> Execution("failed")],
   effects |-> [f1 |-> [execution |-> "x1", state |-> "observed", evidence |-> "ok"],
                f2 |-> [execution |-> "x2", state |-> "not-observed",
                        evidence |-> None]],
   traces |-> [t |-> [wellformed |-> TRUE, decision |-> "d1", execution |-> "x1",
                      effect |-> "f1", state |-> "trace-complete", evidence |-> None,
                      participants |-> {"root", "lead", "bot", "worker"}]],
   e9 |-> [fallback |-> "fallback-verified", broken |-> "unsafe"]]

Into(section, ids, field, values) ==
  [n \in 1..(Len(ids) * Len(values)) |->
     [section |-> section, field |-> field,
      id |-> ids[((n - 1) \div Len(values)) + 1],
      value |-> values[((n - 1) % Len(values)) + 1]]]

Edits == FlattenSeq(<<
  Into("principals", <<"root", "lead", "bot", "worker">>, "status", <<"suspended">>),
  Into("principals", <<"root", "lead", "bot">>, "direct",
       <<{}, {"act"}, {"act", "approve"}>>),
  Into("principals", <<"bot", "worker">>, "automation", <<FALSE, TRUE>>),
  Into("delegations", <<"g1", "g2">>, "delegator", <<"bot", "worker", "lead">>),
  Into("delegations", <<"g1", "g2">>, "delegate", <<"root", "worker", "nobody">>),
  Into("delegations", <<"g1", "g2">>, "scopes", <<{}, {"approve"}, {"act", "approve"}>>),
  Into("delegations", <<"g1", "g2">>, "status", <<"revoked">>),
  Into("delegations", <<"g2">>, "evidence", <<"bad", "missing">>),
  Into("contexts", <<"ctx">>, "revision", <<"v2">>),
  Into("contexts", <<"ctx">>, "e9", <<None, "broken", "unknown">>),
  Into("policies", <<"pol">>, "revision", <<"v2">>),
  Into("policies", <<"pol">>, "required_approvals", <<-1, 1, 3>>),
  Into("policies", <<"pol">>, "allow_self_approval", <<TRUE>>),
  Into("policies", <<"pol">>, "allow_automation_actor", <<FALSE>>),
  Into("policies", <<"pol">>, "max_delegation_depth", <<0, 1>>),
  Into("policies", <<"pol">>, "require_e9_context", <<FALSE>>),
  Into("policies", <<"pol">>, "allowed_e9_states", <<{}, {"unsafe"}, {"bogus"}>>),
  Into("proposals", <<"q">>, "revision", <<"v2", None>>),
  Into("proposals", <<"q">>, "actor", <<"root", "worker">>),
  Into("proposals", <<"q">>, "executor", <<"lead", "nobody">>),
  Into("proposals", <<"q">>, "scope", <<"approve">>),
  Into("approvals", <<"a1", "a2">>, "approver", <<"root", "lead", "bot", "worker", "clerk">>),
  Into("approvals", <<"a1", "a2">>, "state", <<"withdrawn">>),
  Into("approvals", <<"a1", "a2">>, "revisions", <<Revisions("v2")>>),
  Into("approvals", <<"a1", "a2">>, "path", <<<<>>, <<"g1">>, <<"g1", "g2">>>>),
  Into("approvals", <<"a1">>, "evidence", <<"bad", "missing">>),
  Into("approvals", <<"a2">>, "proposal", <<None>>),
  Into("decisions", <<"d1", "d2">>, "state", <<"authorized", "held", "bogus">>),
  Into("decisions", <<"d1", "d2">>, "policy", <<None>>),
  Into("decisions", <<"d1", "d2">>, "revisions",
       <<Revisions("v2"), [Revisions("v1") EXCEPT !.policy = "v2"], Revisions(None)>>),
  Into("decisions", <<"d1", "d2">>, "path",
       <<<<>>, <<"g3">>, <<"g2", "g1">>, <<"g1", "g3">>, <<"g4">>>>),
  Into("decisions", <<"d1">>, "approvals",
       <<<<"a1">>, <<"a1", "a1">>, <<"a2", "a1", "a3">>>>),
  Into("decisions", <<"d2">>, "wellformed", <<FALSE>>),
  Into("executions", <<"x1">>, "decision", <<"d2">>),
  Into("executions", <<"x1">>, "executor", <<"bot", "nobody">>),
  Into("executions", <<"x1", "x2">>, "path", <<<<"g1">>, <<"g1", "g2">>>>),
  Into("executions", <<"x1">>, "evidence", <<"bad", "missing">>),
  Into("executions", <<"x2">>, "state", <<"bogus">>),
  Into("effects", <<"f1", "f2">>, "execution", <<"x1", "x2">>),
  Into("effects", <<"f2">>, "state", <<"partially-observed">>),
  Into("traces", <<"t">>, "effect", <<"f2", None>>),
  Into("traces", <<"t">>, "execution", <<"x2">>),
  Into("traces", <<"t">>, "state", <<"disputed", "bogus">>),
  Into("traces", <<"t">>, "evidence", <<"missing">>),
  Into("traces", <<"t">>, "participants",
       <<{"root", "lead", "bot"}, {"root", "lead", "worker"},
         {"bot", "worker", "lead"}>>) >>)

Edit(r, e) == [r EXCEPT ![e.section][e.id][e.field] = e.value]

\* Two edits, or one edit and a flaw of the file.
Flaws == <<"file", "form">>
AutomationFiles == (1..Len(Edits) + Len(Flaws)) \X (1..Len(Edits))
AutomationRegistry(t) ==
  LET once == Edit(Valid, Edits[t[2]])
  IN  IF t[1] <= Len(Edits) THEN Edit(once, Edits[t[1]])
      ELSE [once EXCEPT !.flaws = {Flaws[t[1] - Len(Edits)]}]
==============================================================================
