------------------------------ MODULE MCTemporal ------------------------------
(***************************************************************************)
(* Registries for TLC: a registry everything is right about, and all those *)
(* an author reaches from it by changing at most two fields to any value   *)
(* of a small set.  The starting points are the lease of                   *)
(* tests/test_eigiib_temporal_hardening.py renewed twice in a row, and     *)
(* the same lease with a second successor whose renewal was rejected.      *)
(***************************************************************************)
EXTENDS TemporalCheck, SequencesExt

Lease(generation, issued, until, predecessor) ==
  [wellformed |-> TRUE, domain |-> "td", kind |-> "e10-decision", subject |-> "e1",
   generation |-> generation, issued |-> issued, from |-> issued + 1,
   until |-> until, status |-> "active", evidence |-> "ok",
   predecessor |-> predecessor, boundary |-> "b1"]

Renewal(predecessor, successor, state) ==
  [predecessor |-> predecessor, successor |-> successor, state |-> state,
   evidence |-> "ok"]

Assertion(key) ==
  [wellformed |-> TRUE, key |-> key, subject |-> "e1", state |-> "available",
   evidence |-> "ok", observation |-> "now", boundary |-> "b1"]

Decision(lease, replay) ==
  [subject |-> "e1", policy |-> "pol", observation |-> "now", lease |-> lease,
   replay |-> replay, state |-> "valid", boundary |-> "b1"]

Base(leases, renewals, decisions) ==
  [malformed |-> FALSE, files |-> "both",
   domains |-> [td |-> [wellformed |-> TRUE, status |-> "active"]],
   sources |-> [clock |-> [wellformed |-> TRUE, domain |-> "td", status |-> "active"]],
   observations |-> [now |-> [source |-> "clock", tick |-> 5, uncertainty |-> 1,
                              evidence |-> "ok"]],
   policies |-> [pol |-> [wellformed |-> TRUE, domain |-> "td", require_e10 |-> TRUE,
                          require_lease |-> FALSE, require_replay |-> FALSE,
                          max_uncertainty |-> 2, max_ages |-> {6},
                          allow_grace |-> TRUE, grace_ticks |-> 2, max_depth |-> 2]],
   leases |-> leases, renewals |-> renewals,
   replays |-> [r1 |-> Assertion("k1"), r2 |-> Assertion("k2")],
   decisions |-> decisions,
   e10 |-> [e1 |-> [state |-> "authorized", boundary |-> "b1"],
            e2 |-> [state |-> "authorized", boundary |-> "b2"]]]

\* l1, renewed by l2, renewed by l3.
Line ==
  Base([l1 |-> Lease(0, 1, 5, None), l2 |-> Lease(1, 2, 7, "l1"),
        l3 |-> Lease(2, 3, 9, "l2")],
       [n1 |-> Renewal("l1", "l2", "approved"), n2 |-> Renewal("l2", "l3", "approved")],
       [t1 |-> Decision("l2", "r1"), t2 |-> Decision("l3", None)])

\* l1, renewed by l2; the renewal by l3 was rejected and l3 is not used.
Fork ==
  Base([l1 |-> Lease(0, 1, 5, None), l2 |-> Lease(1, 2, 7, "l1"),
        l3 |-> Lease(1, 3, 9, "l1")],
       [n1 |-> Renewal("l1", "l2", "approved"), n2 |-> Renewal("l1", "l3", "rejected")],
       [t1 |-> Decision("l2", "r1"), t2 |-> Decision(None, "r2")])

Into(section, ids, field, values) ==
  [n \in 1..(Len(ids) * Len(values)) |->
     [section |-> section, field |-> field,
      id |-> ids[((n - 1) \div Len(values)) + 1],
      value |-> values[((n - 1) % Len(values)) + 1]]]

LeaseIds == <<"l1", "l2", "l3">>
States == <<"grace-valid", "expired", "not-yet-valid", "stale", "replay-rejected",
            "indeterminate", "unavailable", "bogus">>

\* Fields that tell where an observation lies, and what is then declared.
ClockEdits == FlattenSeq(<<
  Into("observations", <<"now">>, "tick", <<0, 1, 2, 3, 4, 6, 7, 8, 9, 10, 11, 12>>),
  Into("observations", <<"now">>, "uncertainty", <<-1, 0, 2, 3>>),
  Into("policies", <<"pol">>, "max_ages", <<{}, {0}, {2}, {4}, {-1}>>),
  Into("policies", <<"pol">>, "grace_ticks", <<0, 1, 3>>),
  Into("policies", <<"pol">>, "allow_grace", <<FALSE>>),
  Into("policies", <<"pol">>, "max_uncertainty", <<0, 3>>),
  Into("leases", LeaseIds, "issued", <<0, 2, 4>>),
  Into("leases", LeaseIds, "until", <<4, 6, 8, 12>>),
  Into("decisions", <<"t1", "t2">>, "state", States),
  Into("decisions", <<"t2">>, "lease", <<None, "l1">>) >>)

\* Fields that bind the sections to one another.
BindingEdits == FlattenSeq(<<
  Into("domains", <<"td">>, "status", <<"retired", "bogus">>),
  Into("sources", <<"clock">>, "status", <<"suspended">>),
  Into("sources", <<"clock">>, "domain", <<"wall">>),
  Into("observations", <<"now">>, "source", <<None>>),
  Into("observations", <<"now">>, "evidence", <<"bad", "missing">>),
  Into("policies", <<"pol">>, "require_e10", <<FALSE>>),
  Into("policies", <<"pol">>, "require_lease", <<TRUE>>),
  Into("policies", <<"pol">>, "require_replay", <<TRUE>>),
  Into("policies", <<"pol">>, "max_depth", <<0, 1>>),
  Into("leases", LeaseIds, "predecessor", <<None, "l1", "l2", "l3">>),
  Into("leases", LeaseIds, "generation", <<0, 1, 2>>),
  Into("leases", LeaseIds, "boundary", <<None, "b2">>),
  Into("leases", LeaseIds, "subject", <<"e2">>),
  Into("leases", LeaseIds, "domain", <<"wall">>),
  Into("leases", <<"l2">>, "kind", <<"approval">>),
  Into("leases", <<"l2">>, "status", <<"revoked">>),
  Into("leases", <<"l1", "l2">>, "evidence", <<"missing", None>>),
  Into("renewals", <<"n1", "n2">>, "state", <<"approved", "rejected", "unavailable">>),
  Into("renewals", <<"n1", "n2">>, "predecessor", <<"l1", "l2">>),
  Into("renewals", <<"n1", "n2">>, "successor", <<"l2", "l3", None>>),
  Into("renewals", <<"n1">>, "evidence", <<"bad", "missing">>),
  Into("replays", <<"r1", "r2">>, "key", <<"k1", "k2">>),
  Into("replays", <<"r1", "r2">>, "state", <<"consumed", "unknown", "bogus">>),
  Into("replays", <<"r1">>, "subject", <<"e2">>),
  Into("replays", <<"r1">>, "observation", <<None>>),
  Into("replays", <<"r1", "r2">>, "boundary", <<None, "b2">>),
  Into("decisions", <<"t1", "t2">>, "subject", <<"e2", None>>),
  Into("decisions", <<"t1", "t2">>, "policy", <<None>>),
  Into("decisions", <<"t1", "t2">>, "boundary", <<None, "b2">>),
  Into("decisions", <<"t1", "t2">>, "lease", <<None, "l1", "l3", "l4">>),
  Into("decisions", <<"t1", "t2">>, "replay", <<None, "r1", "r2", "r3">>),
  Into("decisions", <<"t1", "t2">>, "state", <<"unavailable", "replay-rejected">>),
  Into("e10", <<"e1">>, "state", <<"held", None>>),
  Into("e10", <<"e1">>, "boundary", <<None, "b2">>) >>)

Edit(r, e) == [r EXCEPT ![e.section][e.id][e.field] = e.value]

\* Every predecessor function on three leases, unresolved ones included.
LineageFiles == [{"l1", "l2", "l3"} -> {None, "l1", "l2", "l3", "l4"}]
Lineage(f) ==
  [Line EXCEPT !.leases = [l \in DOMAIN f |-> [Line.leases[l] EXCEPT !.predecessor = f[l]]]]

\* Two edits of the clock, or two edits of bindings, to either start; one edit
\* with a malformed, missing or empty file beside it; and every predecessor
\* function.
Starts == {"line", "fork"}
Broken == <<"malformed", "missing", "empty">>
TemporalFiles ==
  (Starts \X {"clock"} \X (1..Len(ClockEdits)) \X (1..Len(ClockEdits)))
    \cup
  (Starts \X {"binding"} \X (1..Len(BindingEdits) + Len(Broken)) \X (1..Len(BindingEdits)))
    \cup
  ({"line"} \X {"lineage"} \X LineageFiles)
Edited(t) ==
  LET start == IF t[1] = "line" THEN Line ELSE Fork
      edits == IF t[2] = "clock" THEN ClockEdits ELSE BindingEdits
      once == Edit(start, edits[t[4]])
  IN  IF t[3] <= Len(edits) THEN Edit(once, edits[t[3]])
      ELSE IF Broken[t[3] - Len(edits)] = "malformed"
             THEN [once EXCEPT !.malformed = TRUE]
      ELSE [once EXCEPT !.files = Broken[t[3] - Len(edits)]]
TemporalRegistry(t) == IF t[2] = "lineage" THEN Lineage(t[3]) ELSE Edited(t)

\* Two leases that may each name the other, with a renewal of either state.
RenewedFiles == [{"l1", "l2"} -> {None, "l1", "l2"}] \X {"approved", "rejected"}
RenewedLineage(t) ==
  [Line EXCEPT !.leases = [l \in DOMAIN @ |->
                             IF l \in DOMAIN t[1]
                               THEN [@[l] EXCEPT !.predecessor = t[1][l]] ELSE @[l]],
               !.renewals["n2"] = Renewal("l2", "l1", t[2])]
==============================================================================
