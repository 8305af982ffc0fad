------------------------------- MODULE TrustCheck -------------------------------
(***************************************************************************)
(* The E4 checker, tools/eigiib_trust_check.py: which attestations carry   *)
(* enough valid signatures of root keys.  openssl is external: a signature *)
(* verifies when it was made by that key over that statement.              *)
(***************************************************************************)
EXTENDS Integers, Sequences, FiniteSets, Functions

CONSTANTS Files, RegistryIn(_)

(***************************************************************************)
(* reg.files[file] is "object", "value", "garbage" or "absent".            *)
(* reg.trust:                                                              *)
(*   malformed, provider ("openssl", "missing" where it is not installed,  *)
(*   or "none"), principals, revocations (sets of ids)                     *)
(*   keys           principal, test_only, file ("good", "other" than the   *)
(*                  one the fingerprint was taken of, or "missing")        *)
(*   roots          key, principal, purposes                               *)
(*   policies       roots, allowed_suites, count, distinct_by, purpose,    *)
(*                  production, require_revocation                         *)
(*   delegations    from_key, to_key, attestation                          *)
(*   attestations   statement (None: no such file), bindings (the          *)
(*                  checkpoints it names), signatures (a sequence)         *)
(*   signatures     attestation, key, suite, and the key and the statement *)
(*                  it was made with and over: by (None: no file), over    *)
(*   decisions      attestation, policy, state                             *)
(***************************************************************************)
None == "none"
SUITE == "ed25519"

VARIABLES
  reg,
  e4_phase,     \* the method of run() that is next
  e4_errors,    \* the records with an error finding (warnings decide nothing)
  e4_crypto     \* the outcomes the four crypto counters have counted

e4_vars == <<e4_phase, e4_errors, e4_crypto>>

Keys == reg.trust.keys
Roots == reg.trust.roots
TrustPolicies == reg.trust.policies
Delegations == reg.trust.delegations
Attestations == reg.trust.attestations
Signatures == reg.trust.signatures
TrustDecisions == reg.trust.decisions

Read(file) == reg.files[file] = "object"
Flawed(kind, ids, Sound(_)) == {<<kind, x>> : x \in {x \in ids : ~Sound(x)}}

-----------------------------------------------------------------------------
(* check_refs *)

KeySound(k) == Keys[k].principal \in reg.trust.principals /\ Keys[k].file = "good"

RootSound(r) ==
  /\ Roots[r].principal \in reg.trust.principals
  /\ Roots[r].key \in DOMAIN Keys
  /\ Keys[Roots[r].key].principal = Roots[r].principal

PolicySound(p) ==
  TrustPolicies[p].roots \subseteq DOMAIN Roots /\ TrustPolicies[p].allowed_suites # {}

SignatureSound(s) ==
  /\ Signatures[s].attestation \in DOMAIN Attestations
  /\ Signatures[s].key \in DOMAIN Keys
  /\ Signatures[s].by # None

AttestationSound(a) ==
  /\ Attestations[a].statement # None
  /\ \A s \in Range(Attestations[a].signatures) :
       s \in DOMAIN Signatures /\ Signatures[s].attestation = a

\* check_delegation_graph
Delegates(d) == {Delegations[d].from_key, Delegations[d].to_key} \subseteq DOMAIN Keys

DelegationSound(d) ==
  Delegates(d) /\ Delegations[d].attestation \in DOMAIN Attestations

DelegationCycles ==
  {<<"cycle", loop>> : loop \in
     {keys \in SUBSET DOMAIN Keys :
        /\ keys # {}
        /\ \A k \in keys : \E d \in DOMAIN Delegations :
             Delegates(d) /\ Delegations[d].from_key = k /\ Delegations[d].to_key \in keys}}

-----------------------------------------------------------------------------
(* verify_signature and direct_root_auth *)

\* Openssl's answer: made with this key over the statement of a.
MadeBy(key, a, s) ==
  /\ Signatures[s].by = key /\ Keys[key].file = "good"
  /\ Signatures[s].over = Attestations[a].statement

\* The state of a signature of attestation a, and what it adds to the counters.
Outcome(a, s) ==
  LET sig == Signatures[s]
  IN  IF sig.suite # SUITE THEN "unsupported-suite"
      ELSE IF \/ sig.key \notin DOMAIN Keys
              \/ None \in {Attestations[a].statement, sig.by}
              \/ Keys[sig.key].file = "missing"
        THEN "no-file"
      ELSE IF reg.trust.provider = "none" THEN "unverified"
      ELSE IF reg.trust.provider = "missing" THEN "unavailable"
      ELSE IF MadeBy(sig.key, a, s) THEN "valid"
      ELSE "invalid"

Signed(a) == Range(Attestations[a].signatures) \cap DOMAIN Signatures
Outcomes(a) == {Outcome(a, s) : s \in Signed(a)}

\* A root of the policy that lets this key sign for the policy's purpose.
Admits(p, key) ==
  \E r \in TrustPolicies[p].roots \cap DOMAIN Roots :
    /\ Roots[r].key = key
    /\ TrustPolicies[p].purpose \in Roots[r].purposes
    /\ ~(TrustPolicies[p].production /\ Keys[key].test_only)

ValidSignatures(a, p) ==
  {s \in Signed(a) :
     /\ Outcome(a, s) = "valid"
     /\ Signatures[s].suite \in TrustPolicies[p].allowed_suites
     /\ Admits(p, Signatures[s].key)}

Signers(a, p) ==
  {IF TrustPolicies[p].distinct_by = "key" THEN Signatures[s].key
   ELSE Keys[Signatures[s].key].principal : s \in ValidSignatures(a, p)}

RootAuth(a, p) ==
  LET seen == Outcomes(a)
  IN  IF Cardinality(Signers(a, p)) >= TrustPolicies[p].count THEN "authenticated"
      ELSE IF "invalid" \in seen /\ "valid" \notin seen THEN "invalid-signature"
      ELSE IF "valid" \in seen THEN "cryptographically-valid-untrusted"
      ELSE IF seen # {} THEN "unavailable" ELSE "policy-unsatisfied"

-----------------------------------------------------------------------------
(* check_decisions *)

DecisionStates ==
  {"authenticated", "cryptographically-valid-untrusted", "policy-unsatisfied", "revoked",
   "expired", "not-yet-valid", "invalid-signature", "partially-evaluated", "unavailable",
   "not-applicable"}

Resolved(d) ==
  /\ TrustDecisions[d].state \in DecisionStates
  /\ TrustDecisions[d].attestation \in DOMAIN Attestations
  /\ TrustDecisions[d].policy \in DOMAIN TrustPolicies

\* Delegation, and revocation where the policy asks for it, are not evaluated.
Partial(d) ==
  \/ DOMAIN Delegations # {}
  \/ TrustPolicies[TrustDecisions[d].policy].require_revocation /\ reg.trust.revocations # {}

Computed(d) ==
  IF Partial(d) THEN "partially-evaluated"
  ELSE RootAuth(TrustDecisions[d].attestation, TrustDecisions[d].policy)

\* Only claiming too much is an error.
DecisionSound(d) ==
  Resolved(d) /\ (TrustDecisions[d].state = "authenticated" => Computed(d) = "authenticated")

Counted == {"valid", "invalid", "unavailable"}

-----------------------------------------------------------------------------
(* The methods of run(). *)

Start == e4_phase = "load" /\ e4_errors = {} /\ e4_crypto = {}

Load ==
  /\ e4_phase = "load"
  /\ e4_phase' = IF Read("trust") THEN "refs" ELSE "done"
  /\ e4_errors' = IF Read("trust") /\ ~reg.trust.malformed THEN {} ELSE {<<"file", "trust">>}
  /\ UNCHANGED <<reg, e4_crypto>>

CheckRefs ==
  /\ e4_phase = "refs"
  /\ e4_phase' = "delegations"
  /\ e4_errors' = e4_errors \cup Flawed("key", DOMAIN Keys, KeySound)
                            \cup Flawed("root", DOMAIN Roots, RootSound)
                            \cup Flawed("policy", DOMAIN TrustPolicies, PolicySound)
                            \cup Flawed("signature", DOMAIN Signatures, SignatureSound)
                            \cup Flawed("attestation", DOMAIN Attestations, AttestationSound)
  /\ UNCHANGED <<reg, e4_crypto>>

CheckDelegationGraph ==
  /\ e4_phase = "delegations"
  /\ e4_phase' = "decisions"
  /\ e4_errors' = e4_errors \cup Flawed("delegation", DOMAIN Delegations, DelegationSound)
                            \cup DelegationCycles
  /\ UNCHANGED <<reg, e4_crypto>>

CheckDecisions ==
  /\ e4_phase = "decisions"
  /\ e4_phase' = "done"
  /\ e4_errors' = e4_errors \cup Flawed("decision", DOMAIN TrustDecisions, DecisionSound)
  /\ e4_crypto' = Counted \cap UNION {Outcomes(TrustDecisions[d].attestation) :
                                        d \in {x \in DOMAIN TrustDecisions :
                                                 Resolved(x) /\ ~Partial(x)}}
  /\ UNCHANGED reg

Next == Load \/ CheckRefs \/ CheckDelegationGraph \/ CheckDecisions

Conformant == e4_phase = "done" /\ e4_errors = {}
==============================================================================
