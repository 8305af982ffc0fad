# Formal models of the EIGIIB checkers

The repository publishes a standard (EIGIIB) and the programs that check a
repository against it. Each extension E2..E13 has a registry, a JSON file under
`conformance/`, and a static checker under `tools/` that reads it and reports
`conformant` or `non-conformant` with bounded results beside. Six extensions
also have a hardening profile with a checker of its own (`-H0.2`). The checkers
never touch a network or run what they check; they are loops over records, and
what one loop accepts is what later loops build on.

That makes the questions of this project unlike those of a server: nothing
runs concurrently, and what could be wrong is what the *sequence* of loops
lets through. A registry is conformant when a few dozen local checks find
nothing; the extension's document then promises something global: a token was
spent once, a retry had no effect, a decision holds at every instant the clock
may have shown, authority ends at somebody who has it. The models find out
whether the local checks add up to the global promise, for registries of every
shape within two edits of a good one (TLC), and, for E10 to E13, for registries
of every size (TLAPS).

## 1. Inventory

| part | state it keeps | operations | hard behaviour | what makes it correct |
|---|---|---|---|---|
| E12 commit checker (`eigiib_commit_check.py`) | findings by location, keys seen, `valid_*` sets, two counters | eight `check_*` loops over eight sections and two other registries | one-shot keys owned by the first record in file order; an error found after other records were already built on the offender; a retry after a commit; evidence errors recorded elsewhere | one commit per operation, one spend per token, retries without effect, use after check |
| E12-H0.2 (`eigiib_commit_hardening_check.py`) | its own findings | reads the same files again | two programs, two opinions | check and use look at the clock twice; commit, token and key share one store |
| E11 temporal checker (`eigiib_temporal_check.py`) | findings, tokens seen, lease lineage under the walk, counters | loops over sources, observations, policies, leases, replays, renewals, decisions | uncertain clock against half-open windows; walks over predecessor chains | the declared state holds at every instant of the observation; what a positive decision rests on exists |
| E11-H0.2 (`eigiib_temporal_hardening_check.py`) | its own findings, forks per predecessor | reads both files again, walks lineages without memory | termination on cycles; sections that must agree | one boundary, one line of generations |
| E10 automation checker (`eigiib_automation_check.py`) | findings, approvers counted, authority path under the walk, counters | eleven loops; a decision walks its approvals, each approval walks a delegation path | approvals that are listed twice, stale or delegated; contexts of another registry | authority comes from a root, quorums are distinct admitted principals, traces name everybody |
| E10-H0.2 (`eigiib_automation_hardening_check.py`) | its own findings | compares boundaries of all decisions | re-implements a comparison of the baseline | adds negatives only; one boundary per proposal |
| E13 policy composition checker (`eigiib_policy_composition_check.py`) | findings, valid requests and exceptions, evaluations by key, counters | six loops; derive an outcome by one of four algorithms, track obligations and waivers | three loops that count the same decisions in three ways; an error found after what it spoils was accepted | outcome follows the combining algorithm, one subject throughout, no open obligation |
| E13-H0.2 (`eigiib_policy_composition_hardening_check.py`) | its own findings and counters | runs the baseline itself, then requests and waivers | required members held or unavailable, waivers from elsewhere | nothing is bypassed |
| E9 degraded operation checker and H0.2 (`eigiib_degraded_check.py`, `..._hardening_check.py`) | findings, positive decisions; observations and fallbacks selected per decision | derive from observations, fallbacks, mode and policy what a decision may claim | of two observations of a dependency the baseline keeps the first, the profile the last; `unknown` has three dispositions | every capability a positive decision offers is supplied by dependencies observed good enough, or by what stands in for them |
| E8 convergence checker (`eigiib_convergence_check.py`) | findings, verified adoptions and cutovers | quorum over parties, exceptions, cutover | reads what E7's file declares, not whether E7's checker accepts it; exceptions must be exact | all required parties are on the new state and off the old, or are excepted by name |
| E7 recovery checker and H0.2 (`eigiib_recovery_check.py`, `..._hardening_check.py`) | findings, four counters | incidents, plans (acyclic), transitions, rollbacks, decisions | counts a transition or a decision before it has looked at all of it; one state per incident for decisions of different times | a closure rests on a completed, verified transition of the same incident to the active epoch |
| E6 gossip checker (`eigiib_gossip_check.py`) | findings, conflict flag, counters | compare views, keep fork evidence, anchor logs in each other, attribute forks | verifies no signature and no proof; graph search; attribution from a single listed signature | a conflict is real, anchored means committed to, blame needs the signature of the one blamed |
| E5 transparency checker (`eigiib_transparency_check.py`) | findings, fork flag, three counters, roots by log and size | roots, inclusion and consistency proofs, witness quorums, trust history | forks of one size and of different sizes; unsupported proofs are skipped; E4's states are believed | one history per log; quorums of distinct witnesses |
| E4 trust checker (`eigiib_trust_check.py`) | findings, crypto counters | signatures against policies: distinct root signers, thresholds, delegation and revocation | distinctness by key or principal, test keys in production, missing provider | nothing is authenticated that enough roots have not signed |
| M0-A1 extension graph checker (`eigiib_extension_graph_check.py`) | findings, colours and call stack of a depth-first search | references, layers, attachments of hardening profiles, cycle | recursion over an arbitrary graph, nulls that raise | acyclic, layered, complete |
| M0-A2 aggregator and CI workflow (`eigiib_aggregate.py`, `eigiib.yml`) | the directory of reports, one overall result | run each checker whatever failed before, fold the reports | crashed, absent, stale or contradictory reports | conformant only if every expected checker said so in this job |
| E3, E2, M0-A3 | findings | lookups | none that depends on order | local rules |
| M0-A4 vector catalog, P1-A1..P1-A6 capsules, verifiers, bridge | bytes | canonical encodings, signatures, replay of stages | codecs; files opened again per stage | one identity from end to end |

**Interactions.** All of them go through files. The E12 checker reads the E10
and E11 registries, E11 reads E10's, E10 reads E9's decisions, E13 reads
E10's, E9 reads E8's, E8 reads E7's, E7 the files of E4, E5 and E6, E6 those of
E4 and E5, and E5 E4's. None reads another's *report*: a checker takes the
state another registry declares as it stands, and that the declaring registry
is itself conformant is only known to the CI job that runs them all
(`.github/workflows/eigiib.yml`). The aggregator reads the reports and nothing
else but the extension graph. A hardening checker reads the same files as its
baseline. E7's, E9's and E10's do not look at what the baseline found; E11's,
E12's and E13's run the baseline checker themselves, E11's goes on whatever it
found, E12's and E13's only if it found the registry conformant.

**Hard behaviours.** No threads, no sockets; what persists from one job to the
next is at most a directory of reports. What is hard is (1) the order of
records, which the author of a file chooses and which decides who owns a key;
(2) findings recorded against one location while acceptance is decided by
another; (3) results counted before the last check of a record; (4) copies of
revisions, and states of other registries, stale when used; (5) walks over
reference graphs which may be cyclic; (6) intervals with mixed open and closed
ends; (7) two programs that must agree; (8) checkers that crash or leave no
report, and reports of an earlier job.

## 2. Modules

```
TrustCheck, TransparencyCheck, GossipCheck                      E4, E5, E6
   ^ composed by
HistoryChain  <-  HistoryTrees  <-  MCHistory     HistoryFixtures (the registries)
   ^ HistoryProofs            the trees behind the roots

FactChain         what E7 to E9 promise of each other's facts, abstractly
   ^ implemented by
ContinuityChain  <-  MCContinuity     ContinuityFixtures (the registries)
   ^ ContinuityProofs
   v composes
RecoveryCheck  <-  RecoveryHardening  <-  MCReopening           E7, E7-H0.2
ConvergenceCheck                                                E8
DegradedCheck  <-  DegradedHardening                            E9, E9-H0.2

ExtensionGraph  <-  Aggregate  <-  Workflow  <-  MCWorkflow     M0-A1, M0-A2, CI job
                                   ^ WorkflowProofs

CommitLedger      what E12 promises, abstractly
   ^ implemented by
CommitCheck  <-  CommitHardening  <-  MCCommit          E12, E12-H0.2
   ^ CommitProofs (of both)
TemporalCheck  <-  TemporalHardening  <-  MCTemporalHardening   E11, E11-H0.2
   ^ TemporalProofs (of both)   MCTemporal (the registries)
AutomationCheck  <-  AutomationHardening  <-  MCAutomation      E10, E10-H0.2
   ^ AutomationProofs (of both)
PolicyCheck  <-  PolicyHardening  <-  MCPolicy                  E13, E13-H0.2
   ^ PolicyProofs (of both)

NaturalFacts      what the proofs need of the natural numbers: the least element,
                  induction over a set, functions defined by recursion
```

`A <- B`: B extends A; "composed" and "implemented" are `INSTANCE`. A `*Check` module is one execution of `Checker.run()`;
a `*Hardening` module adds the second program and composes the two in the order
of the workflow (`HInit`, `HNext`, `HSpec`; the baseline's steps first, with
the profile's variables unchanged, then the profile's). The profiles of E7, E9
and E10 rely on that order alone (the CI job runs the baseline before them); those
of E11, E12 and E13 run the baseline themselves, and those of E12 and E13 go on
only if it is conformant. `ContinuityChain` and `HistoryChain` are one job each
over several registries: the programs run one after the other on one set of
files, whatever the earlier ones found, as the steps of the workflow with
`if: always()` do. `Workflow` is the job itself, step by step, with the graph
checker modelled whole and the other checkers by what they may print.

### How a model corresponds to its program

* **Registry.** The variable `reg` never changes. `Files` is a set and
  `RegistryIn(f)` the contents, so that an initial state is any file an author
  may hand in. A section is a function from ids to records; a reference
  resolves when it is in the `DOMAIN`.
* **Loops.** `phase` is the loop of `run()` in progress, `todo` the ids it has
  still to visit. Python iterates in file order; the author chooses that
  order, so a step visits *any* remaining id. One action per loop body, and
  every early `continue` is a disjunct or a conjunct of it.
* **Inner loops.** Where a body contains a loop that can be long or endless
  (approvals of a decision, predecessors of a lease) it takes one step per
  iteration, with the loop's locals as variables. Other inner loops are
  quantifiers. In `RecoveryCheck` to `GossipCheck` one action is a whole method
  of `run()`: there no record's result depends on the order its method visits
  them in, so what a method adds is a set of findings. (Where a duplicated
  index makes the last entry win in E5, either may win in the model; that
  registry is non-conformant whichever does.)
* **Calls.** `ExtensionGraph` follows the recursion of `check_acyclic` call by
  call, with the stack and the colours as variables, so that its termination is
  a question and no assumption.
* **Findings.** `errors` is a set of *locations*, because that is all
  `has_error(loc)` looks at, plus the distinction the code makes between the
  record's location and a path's. Codes and messages are left out.
* **Counters** are the sets of records that were counted; a report compares
  them with the empty set, as the programs compare the counter with 0. The
  values differ from the program's only if one record were counted twice.
* **Report.** `Result`/`Cap` translate the final expressions of `run()`. For the
  aggregator a report is `[readable, named, carriers]`: whether it is a JSON
  object, names its tool, and which result fields it has with which values.

### Abstractions

* A check of shape that only adds an error and influences nothing else is
  folded into one flag (`malformed`, `flaws`, `wellformed`) of the file or of
  the record; the flag stands for all of them.
* Evidence is `"ok"`, `"bad"` (the finding is recorded at the record) or
  `"missing"` (a path names no file; the finding is recorded at the path). This
  difference decides whether the record is accepted, so it is kept. In E10 and
  E11 `None` stands for absent evidence where evidence is optional.
* A triple of revisions that is only ever compared is one value, `boundary`;
  E10 looks at its components, so there it is a record.
* A pair (namespace, token) or (namespace, key) is one value `key`/`token`.
* E11's optional bound on the age of a lease (`max_lease_age_ticks`, or null) is
  a set of at most one bound, `max_ages`.
* Of records with the same id the dictionaries keep the last. Sections are
  functions, so what a duplicate leaves is modelled (one record, and a flaw).
  The hardening checkers look at each item; duplicates are already fatal to
  the baseline.
* Values that make a program stop with a `TypeError` (a string where an
  integer is compared) are not in the model: nothing is reported then. The
  assumptions `RegistryAssumption` exclude exactly these, and that `None` were
  an id.
* Hashes are injective constructors. A root is the tree it was computed from, a
  `<<"hash", x>>` a hash whose preimage nobody has shown; a Merkle root and a
  proof path are then computed as in the code. What a root commits to is stated
  in two ways: `Extends` by the payloads it is computed from, `Beneath` by the
  hashes so many steps below it.
* A signature is what it was made with and over (`by`, `over`); openssl's answer
  is whether these are the key it is checked against and the statement
  (`MadeBy`). Whether a provider was asked for and is installed is `provider`;
  an undecodable signature file and a time-out count as unavailable.
* Evidence in E8 and E9 is a set of `"sound"`, `"hollow"`, `"bad"`, `"missing"`.
* What may be wrong with one record of the extension graph by itself is a set of
  codes, `flaws`.
* Of the fields of an E13 request's subject, scope, actor and executor are one
  value, `party`, because they are only compared together with it.
* `E11-H0.2` and `E13-H0.2` on the empty object `{}` skip baseline and check, and report
  `conformant` with no result evaluated; this is modelled as it is (`files`).

## 3. Runs

| run | question | bound | size |
|---|---|---|---|
| `commit` | E12 and its profile: what does a conformant registry guarantee, and does the checker implement the ledger? | every registry at most two edits from (a) a commit with its retry, (b) two independent commits | 470 thousand states |
| `crossed_tokens`, `crossed_replays` | two sentences of the E12 document that the code does not enforce | the two registries of the counterexamples and their neighbours | small |
| `temporal` | E11 and its profile: clock, premises, lineages; and does the baseline return? | two edits of the clock or two edits of bindings from a line of three leases, or a line with a rejected fork; one edit with a malformed, missing or empty file; and all functions from three leases to the leases, none and an unknown one as predecessors | 1.26 million states |
| `renewed_cycle` | does E11-H0.2 return? | two leases that may each name the other, renewals of either state | violated, liveness |
| `automation` | E10 and its profile: authority, quorums, contexts, traces, boundary | every registry at most two edits from a delegated, approved, executed and traced automated action; one edit with a broken file | 596 thousand states |
| `policy` | E13 and its profile: what is a permission made of, and what may it not bypass? | every registry at most two edits from a permission with a waived, a satisfied and a postponed obligation beside a held request; one edit with a moved revision or a broken file | 286 thousand states |
| `continuity` | the five programs of E7, E8, E9 and two profiles on one set of files: what does a job that finds nothing say of closures, convergence and capabilities, and is every fact established after its grounds? | one incident with a rolled-back and a verified transition, two adoptions, one cutover, a nominal and a fallback decision; two edits of one or of adjacent registries, or one edit and a broken file | 881 thousand states |
| `reopened_closure` | does a closure survive a reopening, as the document wants? | the same E7 files, reopened | violated |
| `history` | the three programs of E4, E5 and E6 on one set of files: histories, signatures, anchors | three logs, five checkpoints, three proofs, two witnesses, an anchor; clean, and with a fork that one principal has signed; two edits (the fork: of E4 and E6), or one and a broken file, key, provider or delegation | 969 thousand states |
| `misplaced_entry` | is an accepted inclusion proof one for the entry's index? | the same files | violated |
| `workflow` | two jobs in a row: what does a passing aggregate rest on, what does a missing report lead to, does each job end? | 45 revisions of a graph of four nodes and a profile (all wirings of two of the nodes, and every kind of broken manifest); checkers that pass, fail, crash, or break the protocol; the reports of the first job kept or not | 973 thousand states, liveness |

The runs of E10 to E13 visit each registry in every order of records. In
`continuity` no edit of E7 is paired with one of E9, because no program reads
both registries; in `history` a forked registry is paired with edits of E4 and
E6 only, because E5 accepts none that is forked.

**Why two edits.** A check that is missing is found by an edit that needs the
check; an edit that is *masked* by a second check needs one more edit to get
past it. The mutants of `PROJECT.json` show this is no small bound: for every
property of every passing run, a plausible bug in the code (a guard dropped,
a comparison swapped, a counter moved up, a set of visited leases forgotten,
the first of several signatures taken for the only one) is
found by that run. Two records per section are enough for anything that relates
two records; approvals and delegations have two in sequence, leases three.
Record values are chosen on both sides of each comparison (ticks 0..12 around
a window 2..7, with uncertainty 0..3 and a negative one).

`CHECK_DEADLOCK FALSE` everywhere: a program that has printed its report
stops.

**Fairness.** `FairHSpec` (E11) assumes weak fairness of the next step and of
nothing else: a sequential program whose next statement is enabled executes it;
there is no environment to wait for. `FairSpec` of `Workflow` assumes weak
fairness of the steps of a job, the aggregate included, and none of `NextJob`:
nobody has to start another job. A step is a program with `tee` after it; that
it ends is shown for the graph checker (its search is modelled call by call)
and taken for granted for the others, which the runner stops after its time
limit if need be. `renewed_cycle` shows the one input on which a checker would
need that.

### What the properties say

E12 (`CommitCheck`, `CommitHardening`)
: `UseFollowsCheck` the second look at the clock is certainly not before the
  first, in the same time domain. `AtMostOneCommit`, `TokenSpentOnce`,
  `RetryHasNoEffect` the three one-shot promises, in every record order.
  `EvidenceBacked` nothing is verified while a record it may rest on lacks
  evidence, although such a record *is* accepted by the loops.
  `SecondLookAtClock`, `OneAtomicDomain` the profile closes the gap of two
  decisions on one observation, and of one atomic step over three stores.
  `LedgerSpec` the whole run refines `CommitLedger`.

E11 (`TemporalCheck`, `TemporalHardening`)
: `SureOfEveryInstant` what is declared of a lease holds at *every* instant the
  observation may have been made at, written point by point and not with the
  end comparisons of the code. `PositiveIsSupported` the premises of a positive
  decision are present, bound to it and spent at most once. `BaselineReturns` the
  baseline returns on every predecessor graph; `AcyclicLineage` what it accepts has no cycle. `OneRevision`,
  `LineageGrows`, `OneLine` three loops that count forks, approvals and
  generations separately keep a lease on one line together.

E10 (`AutomationCheck`, `AutomationHardening`)
: `AuthorityHasRoot` who acts or executes has the scope, or got it from somebody
  who has by delegations of exactly that scope, all active. `QuorumOfPrincipals`
  at least as many *different* admitted approvers as the policy requires.
  `ContextIsAdmitted` an authorized decision's E9 state is one its policy lists.
  `TraceIsComplete` a complete trace is of one action and names everybody.
  `OnlyNegativesAreAdded` the profile and the baseline never disagree about an
  authorized decision. `OneBoundaryPerProposal` nor do decisions of one proposal
  rest on different revisions.

E13 (`PolicyCheck`, `PolicyHardening`)
: `PermissionIsDerived` a permission is what the profile's algorithm, in the words
  of the document, makes of *all* decisions the request lists; the code counts
  them by first sight, by the last per policy and over all. `OneSubject` whatever
  the outcome, they are about one subject and context, on revisions still
  current. `ObligationsMet` no permission over an obligation that is neither
  satisfied on evidence nor lifted by its one authorized waiver.
  `NothingIsBypassed` with the profile, every required member said yes or no and
  every waiver was authorized in the request's own context and revision.

E7 to E9 (`ContinuityChain`)
: `ClosureIsEarned` a closed incident was contained and recovered from: the
  transition it rests on is of that incident, complete, verified and leads to
  the epoch in force. `ConvergenceIsComplete` every required party is on the new
  state and off the old, or is one of the exceptions, and the exceptions are
  exactly those. `EveryCapabilitySupplied` what a positive decision offers is
  supplied in the last *and* the first observation of every dependency, though
  the two programs keep different ones. `FactsInOrder` the job refines `FactChain`:
  no fact (transition, continuity, adoption, cutover, nominal restoration) is
  relied on before its own registry's program has counted it, and where
  anything is found wrong none stands, although every program but the first
  believes what a file declares.

E4 to E6 (`HistoryChain`)
: `OneHistory` any two checkpoints of one log that evaluated proofs are about
  are roots of one sequence of payloads, as far as each goes, also when they
  are in two different proofs; and views that E6 calls compatible by
  reference are so where E5 has evaluated the proof. `AuthenticationIsSigned` an
  authenticated witness quorum and an attributed equivocation lead back to
  signatures really made by roots' keys, although only E4 verifies any.
  `AnchorsAreCommitted` an anchored link means that the source's root commits to
  the target, as deep as the inclusion path is long, and in another log; so a
  reciprocal policy is met by no link.

M0 (`Workflow`)
: `CyclesAreFound` the search finds a cycle exactly if there is one.
  `VerdictIsEarned` a passing aggregate means that every expected component and
  every step's checker printed a passing report in this job, on this revision,
  and the graph is complete and ordered. `MissingIsNotFailure` an absent or
  unparsable report alone never makes the aggregate non-conformant.
  `JobConcludes` every job ends with an aggregate.

### Findings

1. **`renewed_cycle`** `tools/eigiib_temporal_hardening_check.py:98` walks over
   predecessors without remembering where it has been, and runs even when the
   baseline has refused the cycle. On a cycle whose every edge has exactly one
   approved renewal it does not end. E1's document requires that rules
   terminate.
2. **`crossed_tokens`** `tools/eigiib_commit_check.py:385` never compares the
   operation and attempt of a consumption record with the commit that cites
   it; the E12 document says a commit cannot use another operation's.
3. **`crossed_replays`** `tools/eigiib_commit_check.py:441` never compares the
   operation of the idempotency record with the retry's; the document says
   "for the same operation".

4. **`reopened_closure`** `tools/eigiib_recovery_check.py:320` accepts a closed
   decision only while its incident is closed, and the profile accepts a
   reopening only if the incident is reopened; so the closure decision that the
   E7 document wants preserved becomes an error when the incident is reopened.
5. **`misplaced_entry`** `tools/eigiib_transparency_check.py:340` takes the sides
   of an inclusion path as given and never compares them with the entry's
   index; the E5 document says that such a path is not a valid proof for the
   claimed relation. It takes a log whose entries are not all registered.

Each run checks one property and TLC finds the violation.

**Observed, and not counted as findings.** E5 skips a consistency proof of
another profile with a warning, and E6 calls two views compatible by reference
to it all the same (the state's name says as much). A witness policy that
requires authentication asks for an authenticated E4 decision but not for one
about the observed checkpoint, while E6's `auth_binding` does. A negative older
size in a consistency proof drops leaves from the end of the prefix (the
checkpoint is an error already). Component ids that differ in case share a
report; no program excludes that, `FileNameAssumption` does. A `null` where
M0-A1 expects a list of hardening profiles makes it raise; the empty report that
leaves is counted as missing coverage.

## 4. Proofs

The theorems hold for registries of any size, any record order and all integer
ticks, from the assumption `RegistryAssumption` of each `*Check` module: no id
is `None`, and what the code compares as an integer is one; where something is
counted, or followed along references, the records are finitely many, as those
of a file are. `HistoryChain` has one of its own name (an attestation's
signatures, a path and a proof's entries are sequences, keys and the
observations of a decision are finitely many, sizes and thresholds are
integers). `ContinuityChain` has
`RecordsAssumption` (the forms in which the model writes records: lists are
numbered from 1, minimums are integers, evidence is of one of the four kinds).
`Workflow` has three: `StepsAssumption` (no component has two steps, M0-A1 is
first), `ManifestsAssumption` (what is wrong with one record is not called a
cycle) and `FileNameAssumption` (no two ids differ in case only), which the code
relies on and nothing in it checks. TLC evaluates all of them on every run.
`HistoryTrees` adds a check and no premise: `RootCommitsToPayloads` says that a
root gives back the payloads it was computed from, in their places, and TLC
evaluates it for all sizes up to `MaxLeaves` = 16, where every shape that
`largest_power_two_less_than` splits a tree into has occurred; no theorem uses it.

The argument is the same each time. A property speaks of the *finished* run
(`report`), and what was accepted in the loops is not yet what is promised,
because an error found later may still suppress it. The inductive invariant
therefore says what each completed or partly completed loop has established:
*for every record no longer in `todo`, either its location is in `errors`, or
the facts the loop checks hold of it*. It is written as one conjunct per loop,
guarded by `phase`. Each action keeps it because `reg` is constant, `errors`
only grows and `todo` only shrinks (the monotonicity lemmas at the head of each
proof module); at the last phase `todo` is empty everywhere, and `errors = {}`
turns every disjunct into the fact.

| module | invariant | theorems |
|---|---|---|
| `CommitProofs` | `CommitInv`, `HardeningInv` | `TypeCorrect`, `OneCommit`, `OneSpend`, `EffectFreeRetry`, `ClosedToctou`, `VerifiedIsBacked`, `ImplementsLedger`; of both programs `SecondLook`, `OneDomain` |
| `TemporalProofs` | `TemporalInv`, `HardeningInv` | `TypeCorrect`, `EveryInstant`, `Supported`, `Acyclic`; of both programs `OneRevisionHolds`, `LineagesGrow`, `OneLineHolds`; `WindowIsPointwise` is the arithmetic fact behind the second: for all integers, comparing the ends of the interval decides what is true at all its points |
| `AutomationProofs` | `AutomationInv`, `HardeningInv` | `TypeCorrect`, `Rooted`, `Quorums`, `ContextAdmitted`, `TracesComplete`; of both programs `OnlyNegatives`, `OneBoundary`; the lemma `AuthorityIsGrounded` goes along a delegation path of any length |
| `PolicyProofs` | `PolicyInv`, `HardeningInv` | `TypeCorrect`, `PermissionDerived`, `SubjectIsOne`, `NoOpenObligation`; of both programs `NoMemberBypassed`; `OneWayToCount` is the lemma that the three ways of counting agree |
| `ContinuityProofs` | `Inv` | `ChainImplementsFacts` (the refinement of `FactChain`), `ClosuresAreEarned`, `ConvergencesAreComplete`, `CapabilitiesAreSupplied`, of the composition of five programs |
| `HistoryProofs` | `Inv` | `History`, `Authentication`, `Anchors`, of the composition of three programs; `ClimbIsCommitted` is the lemma about inclusion paths of any length |
| `WorkflowProofs` | `GraphInv`, `JobInv` | `SearchIsExact`, `PassingIsEarned`, `FailureHasAReason`, for any manifests, steps and number of jobs |

Every safety property that a passing run checks is stated by a theorem.

These steps are not routine. `OneSpend` needs the set of keys seen: two
accepted consumptions of one key cannot both have been first.
`ImplementsLedger` maps the ledger to what the loops have accepted *and no
error has spoilt*, and shows that each step of a loop is a spend, a commit, a
return, a discard or a stutter. `AuthorityIsGrounded` cannot use induction over
sequences (its theorem takes an operator as a parameter, which the provers do
not instantiate); it takes the *least* position of the path where authority
might fail to be grounded, from the well-ordering of the natural numbers,
and contradicts it. `PermissionDerived` has to know that the first decision in
priority order exists: of finitely many positions, one has the fewest before it
(`FirstExists`), and in a total order the fewest is none.

`ChainImplementsFacts`: the chain's invariant says of each program which of its
loops are over and, *as long as it has found nothing*, that all the records of
those loops are sound and that its counter holds exactly what the code counts;
and that a program has begun only when the one before it is done. A step of one
program then adds facts of one kind (`KindsAreCountedOnce`), whose grounds are
facts of an earlier kind that were counted before (`GroundsAreCounted`); a step
that finds something wrong takes all facts away, which is the abstract retraction.
`CapabilitiesAreSupplied` needs that a decision which both E9 programs accept
lists one observation of each dependency (`SeenOnce`), and that the
last of finitely many observations exists (`GreatestIndex`).

`SearchIsExact` (the depth-first search, for every graph): the calls on the stack
are a path of dependencies through exactly the grey nodes, so a grey dependency
closes a loop (`GreyIsCycle`); and while no cycle has been found, every finished
node depends on finished nodes only, every dependency a call has behind it is
finished, and the finished nodes are acyclic, which stays so when one more is
finished whose dependencies all are (`OneMore`). Acyclicity is stated by sets
("every nonempty set of nodes has one that depends on none of the set"), and so
needs no induction over paths. `PassingIsEarned` rests on `JobInv`: every file
in the directory bears the name of a step, and the file of a step that has run
in this job holds what that step printed in this job, whatever was there before;
since file names are told apart, an expected report can only be that one.

**Profiles.** A `HardeningInv` says what the baseline's invariant says, and of
the profile: which of its loops are over, and that every decision they looked at
and raised nothing about is what they ask for. The baseline's conjuncts survive
the profile's steps because those leave its variables alone. `OneBoundary` and
`OneRevisionHolds` then join what the two programs have established of the same
decision.

**Lineages.** E11 and its profile follow predecessors for as many steps as there
are; the models say where one is after so many steps by a recursive function
(`Ancestor`). A function defined by recursion exists by `RecursionExists`: runs of
every finite length exist and agree (`IteratesExist`, `IteratesAgree`), by
induction over a *set* of naturals (`SetInduction`, from the least element), and
their last elements make up the function (`AncestorEquations`). For `Acyclic` the
invariant knows of every lease looked at that its walk came to an end; on a
lineage that returned to its lease, the first position past the end would come
one turn earlier (`EndingIsAcyclic`). For `LineagesGrow` the generations, ends and
issue ticks of sound edges add up over any number of them (`EdgesAddUp`). For
`OneLineHolds`, of one lease there is one approved renewal (`OneSuccessor`), so that
two approved lineages which meet anywhere are one down to the younger end of the
shorter (`ApprovedLinesMeet`).

**Inclusion paths.** `Climb` and `Beneath` are recursive functions too, whose
values lie in no set given beforehand, so `RecursionExists` does not apply as it
stands. `HistoryProofs` therefore runs both at once, in stages whose type is left
open (`StagesExist`, `StagesAgree`), and from the equations of both
(`ClimbedEquations`, `BeneathEquations`) it follows, going down from the root,
that each hash on the way of the climb is among those so many steps below the
root; after the whole path that is the leaf (`ClimbIsCommitted`).

**Histories.** `History` needs that a proof lists *the* entries of a log: of one
log no two entries have one index (`OneEntryEach`), because E5 reports the second
of them and the file was accepted. So two proofs list the same as far as both
go (`SamePayloads`), and each checkpoint is the root of so many of those
(`BothRooted`). `Authentication` goes from a declared decision to E4's own
verdict (`AuthenticatedDecision`), from the number of signers to that of roots
who have signed (`PartIsFewer`), and for blame from a threshold of one and a
single listed signature to the one key that has made it (`SoleSignerSigned`).

**Only model-checked:** liveness (`BaselineReturns`, `JobConcludes`), which TLAPS
does not do; and `RootCommitsToPayloads`, that a Merkle root gives back all of
its payloads, which is induction over trees. The five runs that end in a
counterexample have, of course, nothing to prove.

## 5. Not modelled, and why

Wording and codes of findings, output formatting, argument parsing, confinement
of paths (a path outside the repository counts as bad evidence), JSON parsing
(a flag), byte codecs and cryptography, limits on the number and size of
records. E2, E3 and M0-A3 are lookups with no order or memory; E2's exit status
is an outcome of its step in `Workflow`. Of the workflow the steps after the
aggregate (M0-A3, M0-A4, P1): they write elsewhere and decide the job's colour
only. P1-A1, P1-A2, P1-A5, P1-A6 are about bytes and about programs outside this
repository; P1-A3's Merkle path is the climb that `TransparencyCheck` has.

## 6. Plan

Done: E12, E11, E10 and E13 with their profiles, in that order, because they
carry the guarantees with the most state behind them; then the job and its
aggregate, the chain E7 to E9 with the abstract `FactChain`, and the chain E4 to
E6; and theorems about all of these. What follows, most important first:

1. Refinements for E10 and E13, as `CommitLedger` is one for E12: what an
   authority, and what a permission, is to those who rely on it, abstractly.
2. That the walk of `ends_in` takes no more steps than there are leases, as an
   invariant of E11 with a proof; `BaselineReturns` would follow by fairness.
3. `ProvenanceCheck` (E3) and `InteropChain`, the replay of three stages over
   files that each stage opens again.
