------------------------------- MODULE GossipCheck -------------------------------
(***************************************************************************)
(* The E6 checker, tools/eigiib_gossip_check.py: what observers have seen  *)
(* of the checkpoints of E5, which views conflict, who signed them by E4,  *)
(* and which log's entries name another log's checkpoints.  It verifies no *)
(* signature and no proof: it reads the files of E4 and E5, not reports.   *)
(***************************************************************************)
EXTENDS Integers, Sequences, FiniteSets

CONSTANTS Files, RegistryIn(_)

(***************************************************************************)
(* reg.files[file] is "object", "value", "garbage" or "absent".            *)
(* reg.gossip:                                                             *)
(*   malformed, peers (a set of ids)                                       *)
(*   transmissions            sender, receiver, checkpoint, result         *)
(*   views                    observer, checkpoint, source, transmission,  *)
(*                            e4                                           *)
(*   comparison_policies      authenticated, e5_reference                  *)
(*   comparisons              left, right, policy, state, proof            *)
(*   forks                    comparison, relation, views, state, sources  *)
(*   links                    source, target, entry, proof                 *)
(*   cross_policies           minimum, logs, reciprocal, authenticated     *)
(*   cross_decisions          policy, links, state                         *)
(*   accountability_policies  minimum, authenticated, mode                 *)
(*   accountability           policy, fork, state, principal (or None)     *)
(* reg.transparency and reg.trust as in TransparencyCheck and TrustCheck.  *)
(***************************************************************************)
None == "none"

VARIABLES
  reg,
  e6_phase,       \* the method of run() that is next
  e6_errors,      \* the records with an error finding
  e6_conflict,    \* direct_conflict
  e6_counted      \* what compared, anchored and accountability_evaluated counted

e6_vars == <<e6_phase, e6_errors, e6_conflict, e6_counted>>

Views == reg.gossip.views
Transmissions == reg.gossip.transmissions
ComparisonPolicies == reg.gossip.comparison_policies
Comparisons == reg.gossip.comparisons
ForkEvidence == reg.gossip.forks
Links == reg.gossip.links
CrossPolicies == reg.gossip.cross_policies
CrossDecisions == reg.gossip.cross_decisions
AccountabilityPolicies == reg.gossip.accountability_policies
Accountability == reg.gossip.accountability

Read(file) == reg.files[file] = "object"
Flawed(kind, ids, Sound(_)) == {<<kind, x>> : x \in {x \in ids : ~Sound(x)}}

\* load: without one of the other two registries neither is looked at.
Section(file, name) ==
  IF Read("transparency") /\ Read("trust") THEN reg[file][name] ELSE [x \in {} |-> None]

Checkpoints == Section("transparency", "checkpoints")
Entries == Section("transparency", "entries")
Inclusions == Section("transparency", "inclusion_proofs")
Consistencies == Section("transparency", "consistency_proofs")
TrustDecisions == Section("trust", "decisions")
Attestations == Section("trust", "attestations")
TrustPolicies == Section("trust", "policies")
Signatures == Section("trust", "signatures")
Keys == Section("trust", "keys")

-----------------------------------------------------------------------------
(* auth_binding: an authenticated decision about this very checkpoint.     *)

Binds(v) ==
  LET decision == TrustDecisions[Views[v].e4]
  IN  /\ Views[v].e4 \in DOMAIN TrustDecisions
      /\ decision.state = "authenticated"
      /\ decision.attestation \in DOMAIN Attestations
      /\ Views[v].checkpoint \in Attestations[decision.attestation].bindings

\* A change: the first of the signatures.
FirstSigner(v) ==
  LET decision == TrustDecisions[Views[v].e4]
      signatures == Attestations[decision.attestation].signatures
      signature == signatures[1]
  IN  IF /\ Binds(v)
         /\ decision.policy \in DOMAIN TrustPolicies
         /\ Len(signatures) >= 1
         /\ signature \in DOMAIN Signatures
         /\ Signatures[signature].key \in DOMAIN Keys
      THEN Keys[Signatures[signature].key].principal
      ELSE None

\* The one who alone must have signed it, where policy and attestation say so.
SoleSigner(v) ==
  LET decision == TrustDecisions[Views[v].e4]
      signatures == Attestations[decision.attestation].signatures
      signature == signatures[1]
  IN  IF /\ Binds(v)
         /\ decision.policy \in DOMAIN TrustPolicies
         /\ TrustPolicies[decision.policy].count = 1
         /\ Len(signatures) = 1
         /\ signature \in DOMAIN Signatures
         /\ Signatures[signature].key \in DOMAIN Keys
      THEN Keys[Signatures[signature].key].principal
      ELSE None

-----------------------------------------------------------------------------
(* check_peers_views *)

Results == {"received", "dropped", "malformed", "unavailable", "not-applicable"}

TransmissionSound(t) ==
  /\ {Transmissions[t].sender, Transmissions[t].receiver} \subseteq reg.gossip.peers
  /\ Transmissions[t].checkpoint \in DOMAIN Checkpoints
  /\ Transmissions[t].result \in Results

ViewSound(v) ==
  /\ Views[v].observer \in reg.gossip.peers
  /\ Views[v].checkpoint \in DOMAIN Checkpoints
  /\ Views[v].source = "gossip" =>
       /\ Views[v].transmission \in DOMAIN Transmissions
       /\ Transmissions[Views[v].transmission].receiver = Views[v].observer
       /\ Transmissions[Views[v].transmission].checkpoint = Views[v].checkpoint

-----------------------------------------------------------------------------
(* check_comparisons *)

\* cp_identity
Identity(c) == <<Checkpoints[c].log, Checkpoints[c].size, Checkpoints[c].root_hash>>

\* A change: a proof about the two, in whichever direction.
RefersEitherWay(proof, left, right) ==
  /\ proof \in DOMAIN Consistencies
  /\ {Consistencies[proof].older, Consistencies[proof].newer} \subseteq {left, right}

\* A consistency proof that somebody says leads from the smaller checkpoint of
\* the two to the larger; whether it does is for E5 to say.
Refers(proof, left, right) ==
  LET smaller == IF Checkpoints[left].size < Checkpoints[right].size THEN left ELSE right
  IN  /\ proof \in DOMAIN Consistencies
      /\ Consistencies[proof].older = smaller
      /\ Consistencies[proof].newer \in {left, right} \ {smaller}

\* derived_comparison
Derived(c) ==
  LET left == Views[Comparisons[c].left].checkpoint
      right == Views[Comparisons[c].right].checkpoint
      policy == ComparisonPolicies[Comparisons[c].policy]
  IN  IF ~{left, right} \subseteq DOMAIN Checkpoints THEN "unresolved"
      ELSE IF Identity(left) = Identity(right) THEN "same-view"
      ELSE IF Checkpoints[left].log # Checkpoints[right].log THEN "unresolved"
      ELSE IF Checkpoints[left].size = Checkpoints[right].size THEN "direct-conflict"
      ELSE IF policy.e5_reference /\ Refers(Comparisons[c].proof, left, right)
        THEN "compatible-by-e5-reference"
      ELSE "unresolved"

BothBind(c) == Binds(Comparisons[c].left) /\ Binds(Comparisons[c].right)

ComparisonSound(c) ==
  /\ Comparisons[c].policy \in DOMAIN ComparisonPolicies
  /\ {Comparisons[c].left, Comparisons[c].right} \subseteq DOMAIN Views
  /\ Comparisons[c].state = Derived(c)
  /\ ComparisonPolicies[Comparisons[c].policy].authenticated /\ Derived(c) # "unresolved"
       => BothBind(c)

\* check_forks
Conflicting(c) == c \in DOMAIN Comparisons /\ Comparisons[c].state = "direct-conflict"

ForkSound(f) ==
  LET fork == ForkEvidence[f]
      cmp == Comparisons[fork.comparison]
  IN  /\ Conflicting(fork.comparison) /\ fork.relation = "direct-conflict"
      /\ {cmp.left, cmp.right} \subseteq fork.views
      /\ fork.state = "authenticated-conflict" =>
           {cmp.left, cmp.right} \subseteq DOMAIN Views /\ BothBind(fork.comparison)

-----------------------------------------------------------------------------
(* check_cross_log *)

\* canonical_target: the bytes that commit to a checkpoint, and to which one.
canonical_target(c) ==
  <<"anchor", Checkpoints[c].log, Checkpoints[c].size, Checkpoints[c].root_hash>>

LinkResolves(l) ==
  /\ {Links[l].source, Links[l].target} \subseteq DOMAIN Checkpoints
  /\ Links[l].entry \in DOMAIN Entries
  /\ Links[l].proof \in DOMAIN Inclusions

\* A change: a proof for the entry, whichever checkpoint it is of.
LinkSoundAnywhere(l) ==
  LET link == Links[l]
      log == Checkpoints[link.source].log
  IN  /\ LinkResolves(l)
      /\ Checkpoints[link.target].log # log
      /\ Entries[link.entry].log = log
      /\ Inclusions[link.proof].entry = link.entry
      /\ Entries[link.entry].bytes = canonical_target(link.target)

LinkSound(l) ==
  LET link == Links[l]
      log == Checkpoints[link.source].log
  IN  /\ LinkResolves(l)
      /\ Checkpoints[link.target].log # log
      /\ Entries[link.entry].log = log
      /\ Inclusions[link.proof].entry = link.entry
      /\ Inclusions[link.proof].checkpoint = link.source
      /\ Entries[link.entry].bytes = canonical_target(link.target)

\* The graph that visit() searches, of links that resolve, sound or not.
Anchors == {<<Links[l].source, Links[l].target>> : l \in {l \in DOMAIN Links : LinkResolves(l)}}

AnchorCycles ==
  {<<"cycle", loop>> : loop \in
     {c \in SUBSET {a[1] : a \in Anchors} : c # {} /\ \A x \in c : \E y \in c : <<x, y>> \in Anchors}}

LogsOf(links) ==
  {Checkpoints[c].log : c \in DOMAIN Checkpoints \cap
                              UNION {{Links[l].source, Links[l].target} : l \in links}}

Satisfied(policy, links) ==
  LET pairs == {<<Links[l].source, Links[l].target>> : l \in links}
  IN  /\ Cardinality(links) >= policy.minimum
      /\ policy.logs \subseteq LogsOf(links)
      /\ policy.reciprocal => \A p \in pairs : <<p[2], p[1]>> \in pairs
      /\ policy.authenticated => \A p \in pairs :
           \E v \in DOMAIN Views : Views[v].checkpoint = p[1] /\ Binds(v)

Anchored(d) ==
  /\ CrossDecisions[d].policy \in DOMAIN CrossPolicies
  /\ CrossDecisions[d].links \subseteq DOMAIN Links
  /\ Satisfied(CrossPolicies[CrossDecisions[d].policy], CrossDecisions[d].links)

CrossDecisionSound(d) ==
  /\ CrossDecisions[d].policy \in DOMAIN CrossPolicies
  /\ CrossDecisions[d].links \subseteq DOMAIN Links
  /\ CrossDecisions[d].state = IF Anchored(d) THEN "anchored" ELSE "partially-anchored"

-----------------------------------------------------------------------------
(* check_accountability *)

\* derive_accountability, of a fork as declared, and the principal it names.
Attribution(fork, policy) ==
  LET cmp == Comparisons[fork.comparison]
      authenticated == BothBind(fork.comparison)
      signers == {SoleSigner(cmp.left), SoleSigner(cmp.right)}
      conflict == IF authenticated THEN "authenticated-conflict" ELSE "unattributed-conflict"
  IN  IF \/ ~Conflicting(fork.comparison)
         \/ Cardinality(fork.sources) < policy.minimum
         \/ ~{cmp.left, cmp.right} \subseteq DOMAIN Views
         \/ policy.authenticated /\ ~authenticated
        THEN <<"insufficient-evidence", None>>
      ELSE IF policy.mode = "none" THEN <<"conflict-established", None>>
      ELSE IF policy.mode = "single-principal-v1" /\ Cardinality(signers) = 1 /\ None \notin signers
        THEN <<"single-principal-equivocation", SoleSigner(cmp.left)>>
      ELSE IF policy.mode \in {"single-principal-v1", "manual"} THEN <<conflict, None>>
      ELSE <<"insufficient-evidence", None>>

AccountabilitySound(d) ==
  /\ Accountability[d].policy \in DOMAIN AccountabilityPolicies
  /\ Accountability[d].fork \in DOMAIN ForkEvidence
  /\ <<Accountability[d].state, Accountability[d].principal>>
       = Attribution(ForkEvidence[Accountability[d].fork],
                     AccountabilityPolicies[Accountability[d].policy])

-----------------------------------------------------------------------------
(* The methods of run(). *)

Start ==
  /\ e6_phase = "load" /\ e6_errors = {} /\ e6_conflict = FALSE
  /\ e6_counted = [compared |-> {}, anchored |-> {}, accountability |-> {}]

Load ==
  /\ e6_phase = "load"
  /\ e6_phase' = IF Read("gossip") THEN "views" ELSE "done"
  /\ e6_errors' = {<<"file", f>> : f \in {f \in {"gossip", "transparency", "trust"} :
       IF f = "gossip" THEN ~Read(f) \/ reg.gossip.malformed ELSE Read("gossip") /\ ~Read(f)}}
  /\ UNCHANGED <<reg, e6_conflict, e6_counted>>

CheckPeersViews ==
  /\ e6_phase = "views"
  /\ e6_phase' = "comparisons"
  /\ e6_errors' = e6_errors \cup Flawed("transmission", DOMAIN Transmissions, TransmissionSound)
                            \cup Flawed("view", DOMAIN Views, ViewSound)
  /\ UNCHANGED <<reg, e6_conflict, e6_counted>>

CheckComparisons ==
  /\ e6_phase = "comparisons"
  /\ e6_phase' = "forks"
  /\ e6_errors' = e6_errors \cup Flawed("comparison", DOMAIN Comparisons, ComparisonSound)
  /\ e6_conflict' = \E c \in DOMAIN Comparisons : ComparisonSound(c) /\ Conflicting(c)
  /\ e6_counted' = [e6_counted EXCEPT !.compared = {c \in DOMAIN Comparisons : ComparisonSound(c)}]
  /\ UNCHANGED reg

CheckForks ==
  /\ e6_phase = "forks"
  /\ e6_phase' = "cross-log"
  /\ e6_errors' = e6_errors \cup Flawed("fork", DOMAIN ForkEvidence, ForkSound)
  /\ UNCHANGED <<reg, e6_conflict, e6_counted>>

CheckCrossLog ==
  /\ e6_phase = "cross-log"
  /\ e6_phase' = "accountability"
  /\ e6_errors' = e6_errors \cup Flawed("link", DOMAIN Links, LinkSound)
                            \cup AnchorCycles
                            \cup Flawed("cross", DOMAIN CrossDecisions, CrossDecisionSound)
  /\ e6_counted' = [e6_counted EXCEPT !.anchored =
       {d \in DOMAIN CrossDecisions : CrossDecisionSound(d) /\ Anchored(d)}]
  /\ UNCHANGED <<reg, e6_conflict>>

CheckAccountability ==
  /\ e6_phase = "accountability"
  /\ e6_phase' = "done"
  /\ e6_errors' = e6_errors \cup Flawed("accountability", DOMAIN Accountability, AccountabilitySound)
  /\ e6_counted' = [e6_counted EXCEPT !.accountability =
       {d \in DOMAIN Accountability : AccountabilitySound(d)}]
  /\ UNCHANGED <<reg, e6_conflict>>

Next ==
  \/ Load \/ CheckPeersViews \/ CheckComparisons \/ CheckForks
  \/ CheckCrossLog \/ CheckAccountability

Conformant == e6_phase = "done" /\ e6_errors = {}
==============================================================================
