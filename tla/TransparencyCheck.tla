---------------------------- MODULE TransparencyCheck ----------------------------
(***************************************************************************)
(* The E5 checker, tools/eigiib_transparency_check.py: logs, checkpoints,  *)
(* proofs about them, and who has seen them.  The hash is an injective     *)
(* constructor: a root is the tree it was computed from, down to hashes    *)
(* whose preimages nobody has shown.                                       *)
(***************************************************************************)
EXTENDS Integers, Sequences, FiniteSets, Functions

CONSTANTS Files, RegistryIn(_)

(***************************************************************************)
(* reg.files[file] is "object", "value", "garbage" or "absent".            *)
(* reg.transparency:                                                       *)
(*   malformed                                                             *)
(*   logs                  supported (its tree profile)                    *)
(*   entries               log, index, bytes (or NoBytes)                  *)
(*   checkpoints           log, size, root_hash (or NoHash)                *)
(*   inclusion_proofs      entry, checkpoint, path (side and hash)         *)
(*   consistency_proofs    profile, older, newer, entries (a sequence)     *)
(*   witnesses             principal, domain                               *)
(*   observations          witness, checkpoint, result, e4                 *)
(*   witness_policies      log, authenticated, distinct_by, minimum,       *)
(*                         domains                                         *)
(*   witness_decisions     checkpoint, policy, state, observations         *)
(*   events                entry, e4_object (it names one), class, e4      *)
(*   history_policies      classes, authenticated                          *)
(*   history_decisions     policy, state, events                           *)
(* reg.trust.decisions     state, of the E4 registry                       *)
(***************************************************************************)
None == "none"
NoBytes == <<"none">>
NoHash == <<"none">>
CONSISTENCY_PROFILE == "prefix-recompute-v1"

VARIABLES
  reg,
  e5_phase,     \* the method of run() that is next
  e5_errors,    \* the records with an error finding
  e5_fork,      \* fork_observed
  e5_verified   \* what the three verified_* counters counted

e5_vars == <<e5_phase, e5_errors, e5_fork, e5_verified>>

Logs == reg.transparency.logs
Entries == reg.transparency.entries
Checkpoints == reg.transparency.checkpoints
Inclusions == reg.transparency.inclusion_proofs
Consistencies == reg.transparency.consistency_proofs
Witnesses == reg.transparency.witnesses
Observations == reg.transparency.observations
WitnessPolicies == reg.transparency.witness_policies
WitnessDecisions == reg.transparency.witness_decisions
Events == reg.transparency.events
HistoryPolicies == reg.transparency.history_policies
HistoryDecisions == reg.transparency.history_decisions

Read(file) == reg.files[file] = "object"
Flawed(kind, ids, Sound(_)) == {<<kind, x>> : x \in {x \in ids : ~Sound(x)}}

\* load_e4_decisions: what E4's file declares, if there is one.
AuthenticatedE4 ==
  {d \in DOMAIN reg.trust.decisions :
     Read("trust") /\ reg.trust.decisions[d].state = "authenticated"}

-----------------------------------------------------------------------------
(* Hashes. *)

leaf_hash(data) == <<"leaf", data>>
node_hash(left, right) == <<"node", left, right>>

largest_power_two_less_than(n) == CHOOSE k \in {1, 2, 4, 8, 16} : k < n /\ n <= 2 * k

merkle_root(payloads) ==
  LET root[first, last \in DOMAIN payloads] ==
        IF first = last THEN leaf_hash(payloads[first])
        ELSE LET k == largest_power_two_less_than(last - first + 1)
             IN  node_hash(root[first, first + k - 1], root[first + k, last])
  IN  IF payloads = <<>> THEN <<"empty">> ELSE root[1, Len(payloads)]

\* The loop of check_inclusion, from the leaf to the root: `current` after so many
\* siblings.
Climbed(leaf, path) ==
  LET current[n \in Nat] ==
        IF n = 0 THEN leaf
        ELSE IF path[n].side = "left" THEN node_hash(path[n].hash, current[n - 1])
        ELSE node_hash(current[n - 1], path[n].hash)
  IN  current

Climb(leaf, path) == Climbed(leaf, path)[Len(path)]

-----------------------------------------------------------------------------
(* check_logs_entries_checkpoints *)

Supported(l) == Logs[l].supported

\* index_seen: of two entries at one index the second is an error.
EntrySound(e) ==
  /\ Entries[e].log \in DOMAIN Logs
  /\ Entries[e].index >= 0
  /\ Entries[e].bytes # NoBytes

IndexConflicts ==
  {<<"index", e>> : e \in {e \in DOMAIN Entries :
     \E f \in DOMAIN Entries \ {e} :
       /\ Entries[f].log = Entries[e].log
       /\ Entries[f].index = Entries[e].index /\ Entries[e].index >= 0}}

\* entries_for_log: the entries below this size, if they are all known.  Of
\* two at one index either (that is an error already).
Below(log, size) == {e \in DOMAIN Entries : Entries[e].log = log /\ Entries[e].index < size}

Known(log, size) == {Entries[e].index : e \in Below(log, size)} = 0 .. size - 1

EntryAt(log, i) == CHOOSE e \in DOMAIN Entries : Entries[e].log = log /\ Entries[e].index = i

PayloadsOf(log, size) == [i \in 1 .. size |-> Entries[EntryAt(log, i - 1)].bytes]

WellFormed(c) == Checkpoints[c].size >= 0 /\ Checkpoints[c].root_hash # NoHash

CheckpointSound(c) ==
  LET cp == Checkpoints[c]
      payloads == PayloadsOf(cp.log, cp.size)
  IN  /\ cp.log \in DOMAIN Logs
      /\ WellFormed(c)
      /\ Known(cp.log, cp.size) /\ NoBytes \notin Range(payloads)
           => cp.root_hash = merkle_root(payloads)

\* same_size: which of the two is named depends on their order.
Forks ==
  {<<"fork", Checkpoints[c].log>> : c \in {c \in DOMAIN Checkpoints :
     \E d \in DOMAIN Checkpoints :
       /\ WellFormed(c) /\ WellFormed(d)
       /\ Checkpoints[c].log = Checkpoints[d].log /\ Checkpoints[c].size = Checkpoints[d].size
       /\ Checkpoints[c].root_hash # Checkpoints[d].root_hash}}

-----------------------------------------------------------------------------
(* check_inclusion and check_consistency *)

InclusionSound(i) ==
  LET proof == Inclusions[i]
      entry == Entries[proof.entry]
      cp == Checkpoints[proof.checkpoint]
  IN  /\ proof.entry \in DOMAIN Entries /\ proof.checkpoint \in DOMAIN Checkpoints
      /\ entry.log = cp.log
      /\ entry.index < cp.size
      /\ entry.bytes # NoBytes
      /\ \A n \in DOMAIN proof.path : proof.path[n].hash # NoHash
      /\ Climb(leaf_hash(entry.bytes), proof.path) = cp.root_hash

\* Any other profile is a warning: the proof is skipped.
Evaluated(p) == Consistencies[p].profile = CONSISTENCY_PROFILE

\* payloads[:size], where a negative size counts from the end.
Prefix(payloads, size) ==
  SubSeq(payloads, 1, IF size >= 0 THEN size ELSE Len(payloads) + size)

ConsistencyProved(p) ==
  LET proof == Consistencies[p]
      old == Checkpoints[proof.older]
      new == Checkpoints[proof.newer]
      payloads == [n \in DOMAIN proof.entries |-> Entries[proof.entries[n]].bytes]
  IN  /\ {proof.older, proof.newer} \subseteq DOMAIN Checkpoints
      /\ old.log = new.log
      /\ old.size <= new.size
      /\ Len(proof.entries) = new.size
      /\ \A n \in DOMAIN proof.entries :
           /\ proof.entries[n] \in DOMAIN Entries
           /\ Entries[proof.entries[n]].log = new.log
           /\ Entries[proof.entries[n]].index = n - 1
           /\ payloads[n] # NoBytes
      /\ merkle_root(Prefix(payloads, old.size)) = old.root_hash
      /\ merkle_root(payloads) = new.root_hash

ConsistencySound(p) == Evaluated(p) => ConsistencyProved(p)

-----------------------------------------------------------------------------
(* check_witnessing *)

ObservationSound(o) ==
  Observations[o].witness \in DOMAIN Witnesses /\ Observations[o].checkpoint \in DOMAIN Checkpoints

Observes(o, d) ==
  /\ o \in DOMAIN Observations
  /\ Observations[o].checkpoint = WitnessDecisions[d].checkpoint
  /\ Observations[o].result = "observed"

\* What distinct_by makes of an observation; a witness may lack a principal.
Counts(o, by) ==
  IF by = "witness" THEN Observations[o].witness ELSE Witnesses[Observations[o].witness][by]

QuorumOf(d, policy) ==
  LET listed == WitnessDecisions[d].observations
      seen == {o \in listed : Observes(o, d) /\ Observations[o].witness \in DOMAIN Witnesses}
      vals == {Counts(o, policy.distinct_by) : o \in seen}
  IN  /\ \A o \in listed : Observes(o, d)
      /\ policy.authenticated => \A o \in seen : Observations[o].e4 \in AuthenticatedE4
      /\ policy.distinct_by \in {"witness", "principal", "domain"}
      /\ None \notin vals
      /\ 0 <= policy.minimum /\ policy.minimum <= Cardinality(vals)
      /\ policy.domains \subseteq {Witnesses[Observations[o].witness].domain : o \in seen}

Witnessed(d) ==
  /\ WitnessDecisions[d].checkpoint \in DOMAIN Checkpoints
  /\ WitnessDecisions[d].policy \in DOMAIN WitnessPolicies
  /\ WitnessPolicies[WitnessDecisions[d].policy].log
       = Checkpoints[WitnessDecisions[d].checkpoint].log
  /\ QuorumOf(d, WitnessPolicies[WitnessDecisions[d].policy])

\* Only the claim to be witnessed is looked at.
Claimed(d) == WitnessDecisions[d].state = "witnessed"
WitnessDecisionSound(d) == Claimed(d) => Witnessed(d)

-----------------------------------------------------------------------------
(* check_trust_history *)

EventSound(x) == Events[x].entry \in DOMAIN Entries /\ Events[x].e4_object

Covered(d) ==
  LET policy == HistoryPolicies[HistoryDecisions[d].policy]
      listed == HistoryDecisions[d].events
  IN  /\ HistoryDecisions[d].policy \in DOMAIN HistoryPolicies
      /\ listed \subseteq DOMAIN Events
      /\ policy.classes \subseteq {Events[x].class : x \in listed}
      /\ policy.authenticated => \A x \in listed : Events[x].e4 \in AuthenticatedE4

Bound(d) == HistoryDecisions[d].state = "bound"
HistoryDecisionSound(d) == Bound(d) => Covered(d)

-----------------------------------------------------------------------------
(* The methods of run(). *)

Start ==
  /\ e5_phase = "load" /\ e5_errors = {} /\ e5_fork = FALSE
  /\ e5_verified = [consistency |-> {}, witness |-> {}, history |-> {}]

\* An E4 file that is there and no object is an error; none at all is not.
Load ==
  /\ e5_phase = "load"
  /\ e5_phase' = IF Read("transparency") THEN "logs" ELSE "done"
  /\ e5_errors' = {<<"file", f>> : f \in {f \in {"transparency", "trust"} :
       IF f = "transparency" THEN ~Read(f) \/ reg.transparency.malformed
       ELSE Read("transparency") /\ reg.files[f] \in {"value", "garbage"}}}
  /\ UNCHANGED <<reg, e5_fork, e5_verified>>

CheckLogsEntriesCheckpoints ==
  /\ e5_phase = "logs"
  /\ e5_phase' = "inclusion"
  /\ e5_fork' = (Forks # {})
  /\ e5_errors' = e5_errors \cup Flawed("log", DOMAIN Logs, Supported)
                            \cup Flawed("entry", DOMAIN Entries, EntrySound)
                            \cup IndexConflicts
                            \cup Flawed("checkpoint", DOMAIN Checkpoints, CheckpointSound)
                            \cup Forks
  /\ UNCHANGED <<reg, e5_verified>>

CheckInclusion ==
  /\ e5_phase = "inclusion"
  /\ e5_phase' = "consistency"
  /\ e5_errors' = e5_errors \cup Flawed("inclusion", DOMAIN Inclusions, InclusionSound)
  /\ UNCHANGED <<reg, e5_fork, e5_verified>>

CheckConsistency ==
  /\ e5_phase = "consistency"
  /\ e5_phase' = "witnessing"
  /\ e5_errors' = e5_errors \cup Flawed("consistency", DOMAIN Consistencies, ConsistencySound)
  /\ e5_verified' = [e5_verified EXCEPT
       !.consistency = {p \in DOMAIN Consistencies : Evaluated(p) /\ ConsistencyProved(p)}]
  /\ UNCHANGED <<reg, e5_fork>>

CheckWitnessing ==
  /\ e5_phase = "witnessing"
  /\ e5_phase' = "history"
  /\ e5_errors' = e5_errors \cup Flawed("observation", DOMAIN Observations, ObservationSound)
                            \cup Flawed("witnessing", DOMAIN WitnessDecisions, WitnessDecisionSound)
  /\ e5_verified' = [e5_verified EXCEPT
       !.witness = {d \in DOMAIN WitnessDecisions : Claimed(d) /\ Witnessed(d)}]
  /\ UNCHANGED <<reg, e5_fork>>

CheckTrustHistory ==
  /\ e5_phase = "history"
  /\ e5_phase' = "done"
  /\ e5_errors' = e5_errors \cup Flawed("event", DOMAIN Events, EventSound)
                            \cup Flawed("bound", DOMAIN HistoryDecisions, HistoryDecisionSound)
  /\ e5_verified' = [e5_verified EXCEPT
       !.history = {d \in DOMAIN HistoryDecisions : Bound(d) /\ Covered(d)}]
  /\ UNCHANGED <<reg, e5_fork>>

Next ==
  \/ Load \/ CheckLogsEntriesCheckpoints \/ CheckInclusion \/ CheckConsistency
  \/ CheckWitnessing \/ CheckTrustHistory

Conformant == e5_phase = "done" /\ e5_errors = {}
==============================================================================
