--------------------------- MODULE ContinuityFixtures ---------------------------
(***************************************************************************)
(* Registries E7 to E9 for TLC: a set of files that everything is right    *)
(* about, and the changes an author may make to it.  One incident (i) was  *)
(* contained, its trust state rotated twice (the first rotation was rolled *)
(* back) and closed; the parties of a migration have converged on the new  *)
(* state, one decision without and one with an exception; and operation is *)
(* nominal again, after a fallback.  Another incident (j) is still open.   *)
(***************************************************************************)
EXTENDS Integers, Sequences, SequencesExt

LOCAL Absent == "none"

LOCAL Act(kind, incident) ==
  [kind |-> kind, incident |-> incident, status |-> "completed", evidence |-> {"ev"}]

LOCAL Transition(incident, from, to, actions, status, needs) ==
  [incident |-> incident, from_state |-> from, to_state |-> to, actions |-> actions,
   status |-> status, needs |-> needs, e4 |-> "k4", e5 |-> "k5", e6 |-> "k6"]

LOCAL Recovered(state, actions, transition, needs) ==
  [incident |-> "i", state |-> state, actions |-> actions, transition |-> transition,
   needs |-> needs, e4 |-> "k4", e5 |-> "k5", open_blockers |-> FALSE,
   prior_closure |-> Absent, evidence |-> {"ev"}]

LOCAL Recovery ==
  [malformed |-> FALSE,
   incidents |-> [i |-> [state |-> "closed"], j |-> [state |-> "recovering"]],
   trust_states |-> [s0 |-> [epoch |-> 1, status |-> "superseded"],
                     s1 |-> [epoch |-> 2, status |-> "superseded"],
                     s2 |-> [epoch |-> 3, status |-> "active"]],
   evidence |-> [ev |-> [sound |-> TRUE, e4 |-> Absent, e5 |-> Absent, e6 |-> "k6"]],
   actions |-> [a0 |-> Act("quarantine", "i"), a1 |-> Act("rotate", "i"),
                b |-> Act("rotate", "j")],
   plans |-> [p |-> [incident |-> "i", actions |-> {"a0", "a1"},
                     dependencies |-> {<<"a0", "a1">>}]],
   transitions |-> [t0 |-> Transition("i", "s0", "s1", {"a0"}, "superseded", {}),
                    t |-> Transition("i", "s1", "s2", {"a1"}, "verified", {"e4"})],
   rollbacks |-> [r |-> [incident |-> "i", superseded |-> "t0", compensating |-> {"a0"},
                         replacement |-> "t", reason |-> TRUE]],
   decisions |-> [d0 |-> Recovered("contained", {"a0"}, Absent, {}),
                  d1 |-> Recovered("closed", {}, "t", {"e4", "e5"}),
                  d2 |-> Recovered("continuity-established", {}, "t", {})]]

LOCAL Party(required, domain) ==
  [wellformed |-> TRUE, required |-> required, status |-> "active",
   domain |-> domain, class |-> "c1"]

LOCAL Seen(migration, party) ==
  [wellformed |-> TRUE, migration |-> migration, party |-> party,
   phase |-> "post-cutover", new_state |-> "accepted", old_state |-> "rejected",
   evidence |-> {"sound"}]

LOCAL Exception(party) == [wellformed |-> TRUE, migration |-> "m", party |-> party]

LOCAL Adoption(state, observations, exceptions) ==
  [migration |-> "m", policy |-> "p", state |-> state,
   observations |-> observations, exceptions |-> exceptions]

LOCAL Convergence ==
  [malformed |-> FALSE,
   parties |-> [a |-> Party(TRUE, "d1"), b |-> Party(TRUE, "d2"), c |-> Party(FALSE, "d2")],
   migrations |-> [m |-> [from_epoch |-> 2, to_epoch |-> 3, status |-> "cutover",
                          e7_transition |-> "t"],
                   n |-> [from_epoch |-> 3, to_epoch |-> 4, status |-> "planned",
                          e7_transition |-> Absent]],
   observations |-> [oa |-> Seen("m", "a"), ob |-> Seen("m", "b"), oc |-> Seen("m", "c"),
                     od |-> Seen("n", "b")],
   windows |-> [w |-> [migration |-> "m", state |-> "closed", allow_old |-> FALSE],
                v |-> [migration |-> "n", state |-> "open", allow_old |-> TRUE]],
   policies |-> [p |-> [minimum |-> 2, distinct_by |-> "domain", require_old_rejected |-> TRUE,
                        require_all_required_parties |-> TRUE, allow_exceptions |-> TRUE,
                        required_domains |-> {"d1", "d2"}, required_classes |-> {"c1"}]],
   exceptions |-> [x |-> Exception("b"), y |-> Exception("c")],
   adoptions |-> [ad |-> Adoption("converged", {"oa", "ob"}, {}),
                  ax |-> Adoption("converged-with-exceptions", {"oa", "oc"}, {"x"})],
   cutovers |-> [co |-> [state |-> "verified", migration |-> "m", adoption |-> "ad",
                         window |-> "w", require_e7 |-> TRUE, e7 |-> "d2"]]]

LOCAL Observed(dependency, state) ==
  [dependency |-> dependency, state |-> state, evidence |-> {"sound"}]

LOCAL Mode(kind, assurance, suspended) ==
  [kind |-> kind, assurance |-> assurance, allowed |-> {"read", "write"}, denied |-> {},
   preserved |-> {"auth"}, suspended |-> suspended]

LOCAL Policy(mode, unknown, required, degraded, require_e8) ==
  [mode |-> mode, unknown_disposition |-> unknown, required |-> required,
   allowed_degraded |-> degraded, capabilities |-> {"read", "write"},
   require_e8 |-> require_e8]

LOCAL Operation(state, mode, policy, observations, fallbacks, capabilities) ==
  [state |-> state, mode |-> mode, policy |-> policy, observations |-> observations,
   fallbacks |-> fallbacks, capabilities |-> capabilities, e8 |-> "co"]

LOCAL Degraded ==
  [malformed |-> FALSE,
   dependencies |-> {"primary", "backup"},
   capabilities |-> [read |-> [wellformed |-> TRUE, minimum |-> "degraded",
                               required |-> {"primary"}],
                     write |-> [wellformed |-> TRUE, minimum |-> "available",
                                required |-> {"primary"}]],
   modes |-> [nom |-> Mode("nominal", "full", {}), fall |-> Mode("fallback", "partial", {"fresh"})],
   observations |-> [op |-> Observed("primary", "available"),
                     od |-> Observed("primary", "unavailable"),
                     ok |-> Observed("primary", "unknown"),
                     og |-> Observed("primary", "degraded"),
                     ob |-> Observed("backup", "available")],
   fallbacks |-> [fb |-> [source |-> "primary", substitute |-> "backup",
                          state |-> "active", evidence |-> {"sound"}]],
   policies |-> [pn |-> Policy("nom", "deny", {"primary"}, {}, TRUE),
                 pf |-> Policy("fall", "fallback", {"primary"}, {"primary", "backup"}, FALSE)],
   decisions |-> [n1 |-> Operation("nominal-restored", "nom", "pn", <<"op">>, <<>>,
                                   {"read", "write"}),
                  f1 |-> Operation("fallback-verified", "fall", "pf", <<"od", "ob">>, <<"fb">>,
                                   {"read", "write"})]]

ValidFiles ==
  [recovery |-> Recovery, convergence |-> Convergence, degraded |-> Degraded,
   trust |-> [k4 |-> "authenticated"], transparency |-> [k5 |-> "bound"], gossip |-> {"k6"},
   files |-> [f \in {"recovery", "convergence", "degraded", "trust", "transparency", "gossip"}
                |-> "object"]]

-----------------------------------------------------------------------------
(* Changes: one field of one record of one file. *)

Into(file, section, ids, field, values) ==
  [n \in 1..(Len(ids) * Len(values)) |->
     [file |-> file, section |-> section, field |-> field,
      id |-> ids[((n - 1) \div Len(values)) + 1],
      value |-> values[((n - 1) % Len(values)) + 1]]]

Edit(r, e) == [r EXCEPT ![e.file][e.section][e.id][e.field] = e.value]

RecoveryEdits == FlattenSeq(<<
  Into("recovery", "incidents", <<"i">>, "state", <<"recovering", "reopened", "lost">>),
  Into("recovery", "trust_states", <<"s1", "s2">>, "epoch", <<1, 2, 4, -1>>),
  Into("recovery", "trust_states", <<"s2">>, "status", <<"candidate", "superseded", "old">>),
  Into("recovery", "evidence", <<"ev">>, "sound", <<FALSE>>),
  Into("recovery", "evidence", <<"ev">>, "e4", <<"k4", "k5">>),
  Into("recovery", "evidence", <<"ev">>, "e5", <<"k4">>),
  Into("recovery", "evidence", <<"ev">>, "e6", <<"k4">>),
  Into("recovery", "actions", <<"a0", "a1">>, "status", <<"planned", "reverted", "done">>),
  Into("recovery", "actions", <<"a0", "a1">>, "incident", <<"j", "k">>),
  Into("recovery", "actions", <<"a1">>, "evidence", <<{}, {"ev", "ew"}>>),
  Into("recovery", "actions", <<"a0", "a1">>, "kind", <<"verify", "pray">>),
  Into("recovery", "plans", <<"p">>, "dependencies",
       <<{<<"a0", "a1">>, <<"a1", "a0">>}, {<<"a1", "a1">>}, {<<"a0", "b">>}>>),
  Into("recovery", "plans", <<"p">>, "actions", <<{"a0", "a1", "b"}, {"a1"}, {"a0", "a1", "c"}>>),
  Into("recovery", "plans", <<"p">>, "incident", <<"j", "k">>),
  Into("recovery", "transitions", <<"t0", "t">>, "status", <<"verified", "superseded", "kept">>),
  Into("recovery", "transitions", <<"t">>, "incident", <<"j", "k">>),
  Into("recovery", "transitions", <<"t0", "t">>, "from_state", <<"s2", "s9">>),
  Into("recovery", "transitions", <<"t">>, "to_state", <<"s0", "s1", "s9">>),
  Into("recovery", "transitions", <<"t">>, "actions", <<{}, {"b"}, {"a1", "b"}, {"c"}>>),
  Into("recovery", "transitions", <<"t">>, "needs", <<{"e4", "e5", "e6"}>>),
  Into("recovery", "transitions", <<"t">>, "e4", <<"k5">>),
  Into("recovery", "transitions", <<"t">>, "e6", <<"k5">>),
  Into("recovery", "rollbacks", <<"r">>, "incident", <<"j", "k">>),
  Into("recovery", "rollbacks", <<"r">>, "superseded", <<"t", "t9">>),
  Into("recovery", "rollbacks", <<"r">>, "replacement", <<Absent, "t0", "t9">>),
  Into("recovery", "rollbacks", <<"r">>, "compensating", <<{}, {"b"}, {"c"}>>),
  Into("recovery", "rollbacks", <<"r">>, "reason", <<FALSE>>),
  Into("recovery", "decisions", <<"d0", "d1", "d2">>, "state",
       <<"contained", "transition-verified", "closed", "reopened", "final">>),
  Into("recovery", "decisions", <<"d0", "d1">>, "incident", <<"j", "k">>),
  Into("recovery", "decisions", <<"d0", "d1">>, "actions", <<{}, {"b"}, {"a0", "c"}>>),
  Into("recovery", "decisions", <<"d1", "d2">>, "transition", <<"t0", "t9">>),
  Into("recovery", "decisions", <<"d1">>, "needs", <<{}>>),
  Into("recovery", "decisions", <<"d1">>, "e4", <<"k5">>),
  Into("recovery", "decisions", <<"d1">>, "e5", <<"k4">>),
  Into("recovery", "decisions", <<"d1">>, "open_blockers", <<TRUE>>),
  Into("recovery", "decisions", <<"d2">>, "prior_closure", <<"d1", "d0", "d9">>),
  Into("recovery", "decisions", <<"d2">>, "evidence", <<{"ew"}>>) >>)

ConvergenceEdits == FlattenSeq(<<
  Into("convergence", "parties", <<"b">>, "status", <<"retired", "gone">>),
  Into("convergence", "parties", <<"b", "c">>, "required", <<TRUE, FALSE>>),
  Into("convergence", "parties", <<"b">>, "domain", <<"d1">>),
  Into("convergence", "parties", <<"a">>, "class", <<"c2">>),
  Into("convergence", "parties", <<"a">>, "wellformed", <<FALSE>>),
  Into("convergence", "migrations", <<"m">>, "from_epoch", <<3, -1>>),
  Into("convergence", "migrations", <<"m">>, "status", <<"in-progress", "moved">>),
  Into("convergence", "migrations", <<"m", "n">>, "e7_transition", <<"t", "t0", Absent>>),
  Into("convergence", "observations", <<"oa", "ob">>, "evidence",
       <<{}, {"missing"}, {"bad"}, {"sound", "bad"}>>),
  Into("convergence", "observations", <<"ob">>, "new_state", <<"rejected">>),
  Into("convergence", "observations", <<"oa", "oc">>, "old_state", <<"accepted">>),
  Into("convergence", "observations", <<"oa", "ob">>, "party", <<"a", "c", "z">>),
  Into("convergence", "observations", <<"ob">>, "migration", <<"n", "o">>),
  Into("convergence", "observations", <<"ob">>, "wellformed", <<FALSE>>),
  Into("convergence", "windows", <<"w">>, "allow_old", <<TRUE>>),
  Into("convergence", "windows", <<"w">>, "state", <<"open", "shut">>),
  Into("convergence", "windows", <<"w">>, "migration", <<"n", "o">>),
  Into("convergence", "policies", <<"p">>, "minimum", <<0, 1, 3, -1>>),
  Into("convergence", "policies", <<"p">>, "distinct_by", <<"party", "class", "vote">>),
  Into("convergence", "policies", <<"p">>, "require_old_rejected", <<FALSE>>),
  Into("convergence", "policies", <<"p">>, "require_all_required_parties", <<FALSE>>),
  Into("convergence", "policies", <<"p">>, "allow_exceptions", <<FALSE>>),
  Into("convergence", "policies", <<"p">>, "required_domains", <<{}, {"d1", "d3"}>>),
  Into("convergence", "policies", <<"p">>, "required_classes", <<{"c2"}>>),
  Into("convergence", "exceptions", <<"x">>, "party", <<"a", "c", "z">>),
  Into("convergence", "exceptions", <<"x">>, "migration", <<"n">>),
  Into("convergence", "exceptions", <<"x">>, "wellformed", <<FALSE>>),
  Into("convergence", "adoptions", <<"ad", "ax">>, "state",
       <<"converged", "converged-with-exceptions", "partial", "complete">>),
  Into("convergence", "adoptions", <<"ad", "ax">>, "observations",
       <<{"oa"}, {"oa", "ob", "oc"}, {"oa", "od"}, {"oa", "ob", "oz"}>>),
  Into("convergence", "adoptions", <<"ad", "ax">>, "exceptions",
       <<{}, {"x"}, {"x", "y"}, {"z"}>>),
  Into("convergence", "adoptions", <<"ad">>, "migration", <<"n", "o">>),
  Into("convergence", "adoptions", <<"ax">>, "policy", <<"q">>),
  Into("convergence", "cutovers", <<"co">>, "state", <<"planned">>),
  Into("convergence", "cutovers", <<"co">>, "migration", <<"n", "o">>),
  Into("convergence", "cutovers", <<"co">>, "adoption", <<"ax", "az">>),
  Into("convergence", "cutovers", <<"co">>, "window", <<"v", "z">>),
  Into("convergence", "cutovers", <<"co">>, "require_e7", <<FALSE>>),
  Into("convergence", "cutovers", <<"co">>, "e7", <<"d0", "d1", "d9">>) >>)

DegradedEdits == FlattenSeq(<<
  Into("degraded", "capabilities", <<"read", "write">>, "minimum", <<"available", "degraded", "any">>),
  Into("degraded", "capabilities", <<"read">>, "required", <<{}, {"primary", "backup"}, {"moon"}>>),
  Into("degraded", "capabilities", <<"write">>, "wellformed", <<FALSE>>),
  Into("degraded", "modes", <<"nom", "fall">>, "kind", <<"nominal", "degraded", "lofty">>),
  Into("degraded", "modes", <<"nom", "fall">>, "assurance", <<"full", "minimal", "some">>),
  Into("degraded", "modes", <<"fall">>, "allowed", <<{"read"}, {"read", "write", "fly"}>>),
  Into("degraded", "modes", <<"fall">>, "denied", <<{"write"}>>),
  Into("degraded", "modes", <<"fall">>, "suspended", <<{}, {"auth"}>>),
  Into("degraded", "observations", <<"op", "od", "ob">>, "state",
       <<"available", "degraded", "unknown", "not-applicable", "fine">>),
  Into("degraded", "observations", <<"op", "ob">>, "evidence",
       <<{}, {"hollow"}, {"missing"}, {"sound", "bad"}>>),
  Into("degraded", "observations", <<"od">>, "dependency", <<"backup", "moon">>),
  Into("degraded", "fallbacks", <<"fb">>, "state", <<"planned", "failed", "on">>),
  Into("degraded", "fallbacks", <<"fb">>, "substitute", <<"primary", "moon">>),
  Into("degraded", "fallbacks", <<"fb">>, "source", <<"backup">>),
  Into("degraded", "fallbacks", <<"fb">>, "evidence", <<{}, {"hollow"}, {"missing"}>>),
  Into("degraded", "policies", <<"pn", "pf">>, "mode", <<"nom", "fall", "off">>),
  Into("degraded", "policies", <<"pf">>, "unknown_disposition", <<"deny", "hold", "guess">>),
  Into("degraded", "policies", <<"pn", "pf">>, "required", <<{}, {"backup"}, {"primary", "backup"}>>),
  Into("degraded", "policies", <<"pf">>, "allowed_degraded", <<{}, {"primary"}, {"moon"}>>),
  Into("degraded", "policies", <<"pf">>, "capabilities", <<{"read"}, {"read", "write", "fly"}>>),
  Into("degraded", "policies", <<"pn", "pf">>, "require_e8", <<TRUE, FALSE>>),
  Into("degraded", "decisions", <<"n1", "f1">>, "state",
       <<"degraded-safe", "fallback-verified", "partial-trust-available", "nominal-restored",
         "unsafe", "fine">>),
  Into("degraded", "decisions", <<"n1", "f1">>, "mode", <<"nom", "fall", "off">>),
  Into("degraded", "decisions", <<"n1", "f1">>, "policy", <<"pn", "pf", "off">>),
  Into("degraded", "decisions", <<"n1", "f1">>, "observations",
       <<<<"ob">>, <<"og", "ob">>, <<"ok", "ob">>, <<"od", "ob", "op">>, <<"op", "ob", "od">>,
         <<"od", "ob", "none such">>>>),
  Into("degraded", "decisions", <<"n1", "f1">>, "fallbacks", <<<<>>, <<"fb">>, <<"none such">>>>),
  Into("degraded", "decisions", <<"f1">>, "capabilities", <<{"read"}, {}, {"read", "fly"}>>),
  Into("degraded", "decisions", <<"n1">>, "e8", <<"c9", Absent>>) >>)

\* What an edit of a record cannot reach: a file, or a fact of E4, E5 or E6.
Unread(file) ==
  [n \in 1..3 |->
     [file |-> "files", field |-> file, value |-> <<"value", "garbage", "absent">>[n]]]

Faults == Unread("recovery") \o Unread("convergence") \o Unread("degraded") \o
          Unread("trust") \o Unread("gossip") \o <<
  [file |-> "recovery", field |-> "malformed", value |-> TRUE],
  [file |-> "convergence", field |-> "malformed", value |-> TRUE],
  [file |-> "degraded", field |-> "malformed", value |-> TRUE],
  [file |-> "trust", field |-> "k4", value |-> "partially-evaluated"],
  [file |-> "transparency", field |-> "k5", value |-> "unavailable"] >>

Fault(r, f) == [r EXCEPT ![f.file][f.field] = f.value]
==============================================================================
