---------------------------- MODULE HistoryFixtures ----------------------------
(***************************************************************************)
(* Registries E4 to E6 for TLC, and the changes an author may make to      *)
(* them.  Log A has two known entries, the second an anchor of log B; its  *)
(* checkpoints cA1 and cA2 are proved consistent and witnessed, of cA3     *)
(* only the hash is known.  In Forked there is a second checkpoint of size *)
(* 2 besides, with the same principal's signature.                         *)
(***************************************************************************)
EXTENDS Integers, Sequences, SequencesExt

LOCAL Absent == "none"
LOCAL Leaf(data) == <<"leaf", data>>
LOCAL Node(left, right) == <<"node", left, right>>
LOCAL Text(x) == <<"text", x>>
LOCAL Unknown(x) == <<"hash", x>>

LOCAL RootB == Leaf(Text("b0"))
LOCAL AnchorB == <<"anchor", "B", 1, RootB>>
LOCAL RootA2 == Node(Leaf(Text("a0")), Leaf(AnchorB))

-----------------------------------------------------------------------------
(* E4 *)

LOCAL Key(principal, test_only) ==
  [principal |-> principal, test_only |-> test_only, file |-> "good"]

LOCAL TrustPolicy(count, distinct_by) ==
  [roots |-> {"r1", "r2", "r3"}, allowed_suites |-> {"ed25519"}, count |-> count,
   distinct_by |-> distinct_by, purpose |-> "checkpoint", production |-> TRUE,
   require_revocation |-> FALSE]

LOCAL Attestation(statement, checkpoint, signatures) ==
  [statement |-> statement, bindings |-> {checkpoint}, signatures |-> signatures]

LOCAL Signature(attestation, key, by, over) ==
  [attestation |-> attestation, key |-> key, suite |-> "ed25519", by |-> by, over |-> over]

LOCAL Decision(attestation, policy) ==
  [attestation |-> attestation, policy |-> policy, state |-> "authenticated"]

LOCAL Trust ==
  [malformed |-> FALSE, provider |-> "openssl", principals |-> {"P1", "P2"}, revocations |-> {},
   keys |-> [k1 |-> Key("P1", FALSE), k2 |-> Key("P2", FALSE), k3 |-> Key("P2", TRUE)],
   roots |-> [r1 |-> [key |-> "k1", principal |-> "P1", purposes |-> {"checkpoint"}],
              r2 |-> [key |-> "k2", principal |-> "P2", purposes |-> {"checkpoint", "x"}],
              r3 |-> [key |-> "k3", principal |-> "P2", purposes |-> {"checkpoint"}]],
   policies |-> [one |-> TrustPolicy(1, "key"), two |-> TrustPolicy(2, "principal")],
   delegations |-> [x \in {} |-> Absent],
   attestations |-> [a1 |-> Attestation("x1", "cA1", <<"s1", "t1">>),
                     a2 |-> Attestation("x2", "cA2", <<"s2">>),
                     af |-> Attestation("xf", "cA2f", <<"sf">>)],
   signatures |-> [s1 |-> Signature("a1", "k1", "k1", "x1"),
                   t1 |-> Signature("a1", "k2", "k2", "x1"),
                   s2 |-> Signature("a2", "k1", "k1", "x2"),
                   t2 |-> Signature("a2", "k2", "k2", "x2"),
                   u2 |-> Signature("a2", "k1", "k2", "x2"),
                   v2 |-> Signature("a2", "k3", "k3", "x2"),
                   sf |-> Signature("af", "k1", "k1", "xf")],
   decisions |-> [d1 |-> Decision("a1", "two"), d2 |-> Decision("a2", "one"),
                  df |-> Decision("af", "one")]]

-----------------------------------------------------------------------------
(* E5 *)

LOCAL Entry(log, index, data) == [log |-> log, index |-> index, bytes |-> data]
LOCAL Checkpoint(log, size, root) == [log |-> log, size |-> size, root_hash |-> root]
LOCAL Inclusion(entry, checkpoint, side, hash) ==
  [entry |-> entry, checkpoint |-> checkpoint, path |-> <<[side |-> side, hash |-> hash]>>]
LOCAL Consistency(profile, older, newer, entries) ==
  [profile |-> profile, older |-> older, newer |-> newer, entries |-> entries]
LOCAL Observation(witness, e4) ==
  [witness |-> witness, checkpoint |-> "cA2", result |-> "observed", e4 |-> e4]

LOCAL Checkpoints ==
  [cA1 |-> Checkpoint("A", 1, Leaf(Text("a0"))), cA2 |-> Checkpoint("A", 2, RootA2),
   cA3 |-> Checkpoint("A", 3, Unknown("a")), cB1 |-> Checkpoint("B", 1, RootB),
   cC2 |-> Checkpoint("C", 2, Node(Leaf(Text("c0")), Unknown("c")))]

LOCAL Transparency ==
  [malformed |-> FALSE,
   logs |-> [l \in {"A", "B", "C"} |-> [supported |-> TRUE]],
   entries |-> [eA0 |-> Entry("A", 0, Text("a0")), eA1 |-> Entry("A", 1, AnchorB),
                eB0 |-> Entry("B", 0, Text("b0")), eC0 |-> Entry("C", 0, Text("c0"))],
   checkpoints |-> Checkpoints,
   inclusion_proofs |-> [iA |-> Inclusion("eA1", "cA2", "left", Leaf(Text("a0"))),
                         iC |-> Inclusion("eC0", "cC2", "right", Unknown("c"))],
   consistency_proofs |->
     [grown |-> Consistency("prefix-recompute-v1", "cA1", "cA2", <<"eA0", "eA1">>),
      same |-> Consistency("prefix-recompute-v1", "cA1", "cA1", <<"eA0">>),
      other |-> Consistency("rfc9162", "cA2", "cA3", <<>>)],
   witnesses |-> [w1 |-> [principal |-> "P1", domain |-> "east"],
                  w2 |-> [principal |-> "P2", domain |-> "west"]],
   observations |-> [o1 |-> Observation("w1", "d1"), o2 |-> Observation("w2", "d2")],
   witness_policies |-> [wp |-> [log |-> "A", authenticated |-> TRUE, distinct_by |-> "principal",
                                 minimum |-> 2, domains |-> {"east"}]],
   witness_decisions |-> [wd |-> [checkpoint |-> "cA2", policy |-> "wp", state |-> "witnessed",
                                  observations |-> {"o1", "o2"}]],
   events |-> [h |-> [entry |-> "eA0", e4_object |-> TRUE, class |-> "rotated", e4 |-> "d1"]],
   history_policies |-> [hp |-> [classes |-> {"rotated"}, authenticated |-> TRUE]],
   history_decisions |-> [hd |-> [policy |-> "hp", state |-> "bound", events |-> {"h"}]]]

-----------------------------------------------------------------------------
(* E6 *)

LOCAL View(observer, checkpoint, source, transmission, e4) ==
  [observer |-> observer, checkpoint |-> checkpoint, source |-> source,
   transmission |-> transmission, e4 |-> e4]
LOCAL Comparison(left, right, policy, state, proof) ==
  [left |-> left, right |-> right, policy |-> policy, state |-> state, proof |-> proof]
LOCAL CrossPolicy(minimum, logs, reciprocal, authenticated) ==
  [minimum |-> minimum, logs |-> logs, reciprocal |-> reciprocal, authenticated |-> authenticated]

LOCAL Views ==
  [g1 |-> View("p", "cA1", "direct", Absent, "d1"), g2 |-> View("q", "cA2", "gossip", "m", "d2"),
   g3 |-> View("q", "cA3", "direct", Absent, Absent)]

LOCAL Comparisons ==
  [x |-> Comparison("g1", "g2", "strict", "compatible-by-e5-reference", "grown"),
   y |-> Comparison("g1", "g3", "lax", "unresolved", Absent)]

LOCAL Gossip ==
  [malformed |-> FALSE, peers |-> {"p", "q"},
   transmissions |-> [m |-> [sender |-> "p", receiver |-> "q", checkpoint |-> "cA2",
                             result |-> "received"]],
   views |-> Views,
   comparison_policies |-> [strict |-> [authenticated |-> TRUE, e5_reference |-> TRUE],
                            lax |-> [authenticated |-> FALSE, e5_reference |-> TRUE]],
   comparisons |-> Comparisons,
   forks |-> [x \in {} |-> Absent],
   links |-> [l |-> [source |-> "cA2", target |-> "cB1", entry |-> "eA1", proof |-> "iA"]],
   cross_policies |-> [xp |-> CrossPolicy(1, {"A", "B"}, FALSE, TRUE),
                       xq |-> CrossPolicy(0, {}, TRUE, FALSE)],
   cross_decisions |-> [xd |-> [policy |-> "xp", links |-> {"l"}, state |-> "anchored"],
                        xe |-> [policy |-> "xq", links |-> {}, state |-> "anchored"]],
   accountability_policies |-> [ap |-> [minimum |-> 2, authenticated |-> TRUE,
                                        mode |-> "single-principal-v1"]],
   accountability |-> [x \in {} |-> Absent]]

-----------------------------------------------------------------------------

Clean ==
  [trust |-> Trust, transparency |-> Transparency, gossip |-> Gossip,
   files |-> [f \in {"trust", "transparency", "gossip"} |-> "object"]]

Forked ==
  [Clean EXCEPT
     !.transparency.checkpoints =
       [cA2f |-> Checkpoint("A", 2, Node(Leaf(Text("a0")), Leaf(Text("z"))))] @@ @,
     !.gossip.views = [gf |-> View("p", "cA2f", "direct", Absent, "df")] @@ @,
     !.gossip.comparisons = [z |-> Comparison("g2", "gf", "strict", "direct-conflict", Absent)] @@ @,
     !.gossip.forks = [f |-> [comparison |-> "z", relation |-> "direct-conflict",
                              views |-> {"g2", "gf"}, state |-> "authenticated-conflict",
                              sources |-> {"p", "q"}]],
     !.gossip.accountability = [ad |-> [policy |-> "ap", fork |-> "f", principal |-> "P1",
                                        state |-> "single-principal-equivocation"]]]

-----------------------------------------------------------------------------
(* Changes: one field of one record of one file. *)

Into(file, section, ids, field, values) ==
  [n \in 1..(Len(ids) * Len(values)) |->
     [file |-> file, section |-> section, field |-> field,
      id |-> ids[((n - 1) \div Len(values)) + 1],
      value |-> values[((n - 1) % Len(values)) + 1]]]

Edit(r, e) == [r EXCEPT ![e.file][e.section][e.id][e.field] = e.value]

TrustEdits == FlattenSeq(<<
  Into("trust", "keys", <<"k1", "k2">>, "principal", <<"P1", "P2", "P3">>),
  Into("trust", "keys", <<"k1", "k2">>, "file", <<"other", "missing">>),
  Into("trust", "keys", <<"k1", "k3">>, "test_only", <<TRUE, FALSE>>),
  Into("trust", "roots", <<"r1", "r2">>, "key", <<"k1", "k2", "k3", "k9">>),
  Into("trust", "roots", <<"r1">>, "principal", <<"P2", "P3">>),
  Into("trust", "roots", <<"r1">>, "purposes", <<{}, {"x"}>>),
  Into("trust", "policies", <<"one", "two">>, "roots", <<{}, {"r1"}, {"r2"}, {"r1", "r9"}>>),
  Into("trust", "policies", <<"one">>, "allowed_suites", <<{}, {"rsa"}>>),
  Into("trust", "policies", <<"one", "two">>, "count", <<0, 1, 2>>),
  Into("trust", "policies", <<"two">>, "distinct_by", <<"key">>),
  Into("trust", "policies", <<"one">>, "purpose", <<"x">>),
  Into("trust", "policies", <<"one">>, "production", <<FALSE>>),
  Into("trust", "policies", <<"one">>, "require_revocation", <<TRUE>>),
  Into("trust", "attestations", <<"a2">>, "signatures",
       <<<<>>, <<"t2">>, <<"u2">>, <<"v2">>, <<"u2", "t2">>, <<"s2", "t2">>, <<"s2", "s1">>, <<"s9">>>>),
  Into("trust", "attestations", <<"a2">>, "statement", <<"x1", Absent>>),
  Into("trust", "attestations", <<"a1", "af">>, "bindings", <<{}, {"cA1", "cA2", "cA2f"}>>),
  Into("trust", "signatures", <<"s2", "sf">>, "by", <<"k2", Absent>>),
  Into("trust", "signatures", <<"s2", "sf">>, "key", <<"k2", "k9">>),
  Into("trust", "signatures", <<"s2">>, "over", <<"x1">>),
  Into("trust", "signatures", <<"s2">>, "suite", <<"rsa">>),
  Into("trust", "signatures", <<"s2">>, "attestation", <<"a1", "a9">>),
  Into("trust", "decisions", <<"d1", "d2">>, "state", <<"revoked", "valid">>),
  Into("trust", "decisions", <<"d1", "d2">>, "policy", <<"one", "two", "p9">>),
  Into("trust", "decisions", <<"d2", "df">>, "attestation", <<"a1", "a2", "a9">>) >>)

TransparencyEdits == FlattenSeq(<<
  Into("transparency", "logs", <<"C">>, "supported", <<FALSE>>),
  Into("transparency", "entries", <<"eA0", "eA1">>, "bytes", <<Text("a0"), Text("z"), <<"none">>>>),
  Into("transparency", "entries", <<"eA1", "eC0">>, "index", <<0, 1, 2, -1>>),
  Into("transparency", "entries", <<"eA1", "eB0">>, "log", <<"A", "B", "D">>),
  Into("transparency", "checkpoints", <<"cA1", "cA2", "cC2">>, "root_hash",
       <<RootB, Leaf(Text("z")), Unknown("z"), <<"none">>>>),
  Into("transparency", "checkpoints", <<"cA1", "cA2">>, "size", <<0, 1, 2, 3, -1>>),
  Into("transparency", "checkpoints", <<"cA1", "cB1">>, "log", <<"A", "B", "D">>),
  Into("transparency", "inclusion_proofs", <<"iA", "iC">>, "entry", <<"eA0", "eA1", "eC0", "e9">>),
  Into("transparency", "inclusion_proofs", <<"iA">>, "checkpoint", <<"cA1", "cA3", "cC2", "c9">>),
  Into("transparency", "inclusion_proofs", <<"iA">>, "path",
       <<<<>>, <<[side |-> "right", hash |-> Leaf(Text("a0"))]>>,
         <<[side |-> "left", hash |-> <<"none">>]>>>>),
  Into("transparency", "consistency_proofs", <<"grown", "other">>, "profile",
       <<"prefix-recompute-v1", "rfc9162">>),
  Into("transparency", "consistency_proofs", <<"grown", "same", "other">>, "older",
       <<"cA1", "cA2", "cB1", "c9">>),
  Into("transparency", "consistency_proofs", <<"grown", "same">>, "newer", <<"cA2", "cA3", "c9">>),
  Into("transparency", "consistency_proofs", <<"grown", "same", "other">>, "entries",
       <<<<"eA0", "eA1">>, <<"eA1", "eA0">>, <<"eA0", "e9">>, <<"eA0">>>>),
  Into("transparency", "witnesses", <<"w2">>, "principal", <<"P1", Absent>>),
  Into("transparency", "observations", <<"o1">>, "witness", <<"w2", "w9">>),
  Into("transparency", "observations", <<"o1">>, "checkpoint", <<"cA1", "c9">>),
  Into("transparency", "observations", <<"o1">>, "result", <<"inconsistent">>),
  Into("transparency", "observations", <<"o1">>, "e4", <<"d2", Absent>>),
  Into("transparency", "witness_policies", <<"wp">>, "log", <<"B">>),
  Into("transparency", "witness_policies", <<"wp">>, "authenticated", <<FALSE>>),
  Into("transparency", "witness_policies", <<"wp">>, "distinct_by", <<"witness", "domain", "e4">>),
  Into("transparency", "witness_policies", <<"wp">>, "minimum", <<0, 1, 3, -1>>),
  Into("transparency", "witness_policies", <<"wp">>, "domains", <<{}, {"north"}>>),
  Into("transparency", "witness_decisions", <<"wd">>, "state", <<"not-witnessed">>),
  Into("transparency", "witness_decisions", <<"wd">>, "checkpoint", <<"cA1", "c9">>),
  Into("transparency", "witness_decisions", <<"wd">>, "policy", <<"w9">>),
  Into("transparency", "witness_decisions", <<"wd">>, "observations", <<{}, {"o1"}, {"o1", "o9"}>>),
  Into("transparency", "events", <<"h">>, "entry", <<"e9">>),
  Into("transparency", "events", <<"h">>, "e4_object", <<FALSE>>),
  Into("transparency", "events", <<"h">>, "e4", <<Absent>>),
  Into("transparency", "history_policies", <<"hp">>, "classes", <<{}, {"revoked"}>>),
  Into("transparency", "history_policies", <<"hp">>, "authenticated", <<FALSE>>),
  Into("transparency", "history_decisions", <<"hd">>, "state", <<"unbound">>),
  Into("transparency", "history_decisions", <<"hd">>, "policy", <<"h9">>),
  Into("transparency", "history_decisions", <<"hd">>, "events", <<{}, {"h9"}>>) >>)

GossipEdits == FlattenSeq(<<
  Into("gossip", "transmissions", <<"m">>, "sender", <<"r">>),
  Into("gossip", "transmissions", <<"m">>, "receiver", <<"p", "r">>),
  Into("gossip", "transmissions", <<"m">>, "checkpoint", <<"cA1", "c9">>),
  Into("gossip", "transmissions", <<"m">>, "result", <<"dropped", "eaten">>),
  Into("gossip", "views", <<"g1", "g2">>, "checkpoint", <<"cA1", "cA2", "cB1", "c9">>),
  Into("gossip", "views", <<"g2">>, "observer", <<"p", "r">>),
  Into("gossip", "views", <<"g2">>, "source", <<"direct">>),
  Into("gossip", "views", <<"g2">>, "transmission", <<"m9">>),
  Into("gossip", "views", <<"g1", "g2">>, "e4", <<"d1", "d9">>),
  Into("gossip", "comparison_policies", <<"strict">>, "authenticated", <<FALSE>>),
  Into("gossip", "comparison_policies", <<"strict", "lax">>, "e5_reference", <<FALSE>>),
  Into("gossip", "comparisons", <<"x", "y">>, "state",
       <<"compatible-by-e5-reference", "unresolved", "same-view", "direct-conflict">>),
  Into("gossip", "comparisons", <<"x", "y">>, "proof", <<"grown", "same", "other", Absent>>),
  Into("gossip", "comparisons", <<"x", "y">>, "left", <<"g2", "g9">>),
  Into("gossip", "comparisons", <<"y">>, "right", <<"g1", "g2">>),
  Into("gossip", "comparisons", <<"x">>, "policy", <<"lax", "p9">>),
  Into("gossip", "links", <<"l">>, "source", <<"cA1", "cA3", "cB1", "c9">>),
  Into("gossip", "links", <<"l">>, "target", <<"cA1", "cA2", "c9">>),
  Into("gossip", "links", <<"l">>, "entry", <<"eA0", "eB0", "e9">>),
  Into("gossip", "links", <<"l">>, "proof", <<"iC", "i9">>),
  Into("gossip", "cross_policies", <<"xp">>, "minimum", <<0, 2>>),
  Into("gossip", "cross_policies", <<"xp">>, "logs", <<{"C"}>>),
  Into("gossip", "cross_policies", <<"xp">>, "reciprocal", <<TRUE>>),
  Into("gossip", "cross_policies", <<"xp">>, "authenticated", <<FALSE>>),
  Into("gossip", "cross_decisions", <<"xd", "xe">>, "policy", <<"xp", "xq", "x9">>),
  Into("gossip", "cross_decisions", <<"xd", "xe">>, "links", <<{}, {"l"}, {"l9"}>>),
  Into("gossip", "cross_decisions", <<"xd", "xe">>, "state", <<"partially-anchored">>) >>)

\* Of what only Forked has.
ForkEdits == FlattenSeq(<<
  Into("gossip", "forks", <<"f">>, "comparison", <<"x", "z9">>),
  Into("gossip", "forks", <<"f">>, "relation", <<"inconsistent-prefix">>),
  Into("gossip", "forks", <<"f">>, "views", <<{"gf"}, {"g1", "g2", "gf"}>>),
  Into("gossip", "forks", <<"f">>, "state", <<"unattributed-conflict">>),
  Into("gossip", "forks", <<"f">>, "sources", <<{}, {"q"}>>),
  Into("gossip", "views", <<"gf">>, "e4", <<"d2", Absent>>),
  Into("gossip", "comparisons", <<"z">>, "policy", <<"lax">>),
  Into("gossip", "comparisons", <<"z">>, "state", <<"unresolved">>),
  Into("gossip", "accountability_policies", <<"ap">>, "minimum", <<0, 3>>),
  Into("gossip", "accountability_policies", <<"ap">>, "authenticated", <<FALSE>>),
  Into("gossip", "accountability_policies", <<"ap">>, "mode", <<"none", "manual", "vote">>),
  Into("gossip", "accountability", <<"ad">>, "state",
       <<"insufficient-evidence", "conflict-established", "authenticated-conflict">>),
  Into("gossip", "accountability", <<"ad">>, "principal", <<"P2", Absent>>),
  Into("gossip", "accountability", <<"ad">>, "policy", <<"a9">>),
  Into("gossip", "accountability", <<"ad">>, "fork", <<"f9">>) >>)

-----------------------------------------------------------------------------
(* What an edit of a record cannot reach. *)

Unread(file) ==
  [n \in 1..3 |->
     [file |-> "files", field |-> file, value |-> <<"value", "garbage", "absent">>[n]]]

Faults == Unread("trust") \o Unread("transparency") \o Unread("gossip") \o <<
  [file |-> "trust", field |-> "malformed", value |-> TRUE],
  [file |-> "transparency", field |-> "malformed", value |-> TRUE],
  [file |-> "gossip", field |-> "malformed", value |-> TRUE],
  [file |-> "trust", field |-> "provider", value |-> "none"],
  [file |-> "trust", field |-> "provider", value |-> "missing"],
  [file |-> "trust", field |-> "principals", value |-> {"P1"}],
  [file |-> "trust", field |-> "revocations", value |-> {"rv"}],
  [file |-> "trust", field |-> "delegations",
   value |-> [g |-> [from_key |-> "k1", to_key |-> "k2", attestation |-> "a1"]]],
  [file |-> "trust", field |-> "delegations",
   value |-> [g |-> [from_key |-> "k1", to_key |-> "k2", attestation |-> "a1"],
              i |-> [from_key |-> "k2", to_key |-> "k1", attestation |-> "a1"]]],
  [file |-> "trust", field |-> "delegations",
   value |-> [g |-> [from_key |-> "k1", to_key |-> "k9", attestation |-> "a9"]]],
  [file |-> "gossip", field |-> "peers", value |-> {"p"}] >>

Fault(r, f) == [r EXCEPT ![f.file][f.field] = f.value]
==============================================================================
