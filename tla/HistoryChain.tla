------------------------------ MODULE HistoryChain ------------------------------
(***************************************************************************)
(* One job over the registries E4, E5 and E6, in the order of              *)
(* .github/workflows/eigiib.yml: the three programs run one after the      *)
(* other whatever the earlier ones found (if: always()).  E5 believes the  *)
(* states E4's file declares; E6 believes E4's states and takes E5's       *)
(* proofs as given.  What the three say together is more than each checks. *)
(***************************************************************************)
EXTENDS Integers, Sequences, FiniteSets, Functions

CONSTANTS Files, RegistryIn(_)

\* A section lists finitely many keys and observations, a list is a sequence, and
\* what is compared as a number is one.
ASSUME RegistryAssumption ==
  \A f \in Files :
    LET trust == RegistryIn(f).trust
        history == RegistryIn(f).transparency
    IN  /\ IsFiniteSet(DOMAIN trust.keys)
        /\ \A a \in DOMAIN trust.attestations :
             trust.attestations[a].signatures \in Seq(Range(trust.attestations[a].signatures))
        /\ \A p \in DOMAIN trust.policies : trust.policies[p].count \in Int
        /\ \A c \in DOMAIN history.checkpoints : history.checkpoints[c].size \in Int
        /\ \A i \in DOMAIN history.inclusion_proofs :
             history.inclusion_proofs[i].path \in Seq(Range(history.inclusion_proofs[i].path))
        /\ \A p \in DOMAIN history.consistency_proofs :
             history.consistency_proofs[p].entries
               \in Seq(Range(history.consistency_proofs[p].entries))
        /\ \A p \in DOMAIN history.witness_policies : history.witness_policies[p].minimum \in Int
        /\ \A d \in DOMAIN history.witness_decisions :
             IsFiniteSet(history.witness_decisions[d].observations)

VARIABLES reg,
          e4_phase, e4_errors, e4_crypto,
          e5_phase, e5_errors, e5_fork, e5_verified,
          e6_phase, e6_errors, e6_conflict, e6_counted

E4 == INSTANCE TrustCheck
E5 == INSTANCE TransparencyCheck
E6 == INSTANCE GossipCheck

e4_all == <<e4_phase, e4_errors, e4_crypto>>
e5_all == <<e5_phase, e5_errors, e5_fork, e5_verified>>
e6_all == <<e6_phase, e6_errors, e6_conflict, e6_counted>>
vars == <<reg, e4_all, e5_all, e6_all>>

Init ==
  /\ \E f \in Files : reg = RegistryIn(f)
  /\ E4!Start /\ E5!Start /\ E6!Start

RunE4 == E4!Next /\ UNCHANGED <<e5_all, e6_all>>
RunE5 == e4_phase = "done" /\ E5!Next /\ UNCHANGED <<e4_all, e6_all>>
RunE6 == e5_phase = "done" /\ E6!Next /\ UNCHANGED <<e4_all, e5_all>>

Next == RunE4 \/ RunE5 \/ RunE6

Spec == Init /\ [][Next]_vars

-----------------------------------------------------------------------------
(* What a root commits to.                                                 *)

Root(c) == E5!Checkpoints[c].root_hash
Size(c) == E5!Checkpoints[c].size

\* The hashes so many steps below a root.
Beneath(root) ==
  LET level[n \in Nat] ==
        IF n = 0 THEN {root}
        ELSE UNION {{tree[2], tree[3]} : tree \in {t \in level[n - 1] : t[1] = "node"}}
  IN  level

Proved == {p \in DOMAIN E5!Consistencies : E5!Evaluated(p)}

\* The bytes of the first entries a consistency proof lists.
Payloads(p, size) ==
  [n \in 1 .. size |-> E5!Entries[E5!Consistencies[p].entries[n]].bytes]

\* One sequence of payloads, of which both are roots, as far as they go.
Extends(older, newer) ==
  \E p \in Proved :
    /\ Size(older) <= Size(newer) /\ Size(newer) <= Len(E5!Consistencies[p].entries)
    /\ Root(older) = E5!merkle_root(Payloads(p, Size(older)))
    /\ Root(newer) = E5!merkle_root(Payloads(p, Size(newer)))

-----------------------------------------------------------------------------
(* Properties. *)

\* Every log has one history, in a registry that E5 accepts: any two checkpoints
\* of a log that proofs E5 evaluates are about are roots of one sequence of
\* payloads, also two of different proofs.  And E6 may call two views compatible
\* without a look at the proof: where E5 has evaluated it, they are.
OneHistory ==
  LET reached == {E5!Consistencies[p].older : p \in Proved} \cup
                 {E5!Consistencies[p].newer : p \in Proved}
      log(c) == E5!Checkpoints[c].log
      seen(v) == E6!Views[v].checkpoint
  IN  /\ E5!Conformant =>
           \A c, d \in reached : log(c) = log(d) /\ Size(c) <= Size(d) => Extends(c, d)
      /\ E5!Conformant /\ E6!Conformant =>
           \A x \in DOMAIN E6!Comparisons :
             LET cmp == E6!Comparisons[x]
             IN  cmp.state = "compatible-by-e5-reference" /\ cmp.proof \in Proved =>
                   \/ Extends(seen(cmp.left), seen(cmp.right))
                   \/ Extends(seen(cmp.right), seen(cmp.left))

\* Those who have really signed attestation a as roots of policy p.
Attesters(a, p) ==
  {k \in DOMAIN E4!Keys :
     /\ E4!Admits(p, k)
     /\ \E s \in Range(E4!Attestations[a].signatures) : E4!MadeBy(k, a, s)}

\* An E4 decision with as many of them as its policy asks for.
Backed(d) ==
  LET decision == E4!TrustDecisions[d]
      policy == E4!TrustPolicies[decision.policy]
      attesters == Attesters(decision.attestation, decision.policy)
  IN  policy.count <= Cardinality(IF policy.distinct_by = "key" THEN attesters
                                  ELSE {E4!Keys[k].principal : k \in attesters})

\* Nobody is believed, or blamed, without a signature, although E5 and E6 verify
\* none and go by what E4's file declares: where E4 accepts the file, a witness
\* quorum that has to be authenticated counts only observations with a decision
\* behind which enough roots have signed; and the principal that E6 holds to have
\* equivocated alone signed both sides of a conflict that E5 reports.
AuthenticationIsSigned ==
  /\ E4!Conformant /\ E5!Conformant =>
       \A d \in DOMAIN E5!WitnessDecisions :
         LET decision == E5!WitnessDecisions[d]
             policy == E5!WitnessPolicies[decision.policy]
             signed == {o \in decision.observations :
                          /\ E5!Observations[o].checkpoint = decision.checkpoint
                          /\ Backed(E5!Observations[o].e4)}
         IN  decision.state = "witnessed" /\ policy.authenticated =>
               policy.minimum <= Cardinality({E5!Counts(o, policy.distinct_by) : o \in signed})
  /\ E4!Conformant /\ E6!Conformant =>
       \A d \in DOMAIN E6!Accountability :
         LET decision == E6!Accountability[d]
             cmp == E6!Comparisons[E6!ForkEvidence[decision.fork].comparison]
             left == E6!Views[cmp.left].checkpoint
             right == E6!Views[cmp.right].checkpoint
             ofBoth(c) == {a \in DOMAIN E4!Attestations :
                             /\ c \in E4!Attestations[a].bindings
                             /\ E4!Attestations[a].signatures # <<>>
                             /\ \A s \in Range(E4!Attestations[a].signatures) :
                                  \E k \in DOMAIN E4!Keys :
                                    /\ E4!Keys[k].principal = decision.principal
                                    /\ E4!MadeBy(k, a, s)}
         IN  decision.state = "single-principal-equivocation" =>
               /\ Size(left) = Size(right) /\ Root(left) # Root(right)
               /\ ofBoth(left) # {} /\ ofBoth(right) # {}
               /\ e5_phase = "done" => e5_errors # {}

\* What E6 counts as anchored is in the log, in a registry that E5 and E6 accept:
\* the source's root commits to the target's identity, as deep as the proof is
\* long, in another log.  So two checkpoints never anchor each other, and a policy
\* that asks for links in both directions is met by none.
AnchorsAreCommitted ==
  E5!Conformant /\ E6!Conformant =>
    \A d \in e6_counted.anchored :
      LET decision == E6!CrossDecisions[d]
      IN  /\ \A l \in decision.links :
               LET link == E6!Links[l]
                   depth == Len(E5!Inclusions[link.proof].path)
               IN  /\ E5!leaf_hash(E6!canonical_target(link.target))
                         \in Beneath(Root(link.source))[depth]
                   /\ E5!Checkpoints[link.source].log # E5!Checkpoints[link.target].log
          /\ E6!CrossPolicies[decision.policy].reciprocal => decision.links = {}
=============================================================================
