--------------------------------- MODULE Workflow ---------------------------------
(***************************************************************************)
(* .github/workflows/eigiib.yml up to the aggregate: one step per checker, *)
(* each run whatever failed before (if: always()), its output written by   *)
(* tee, its exit status kept by pipefail.  The step of M0-A1 runs          *)
(* ExtensionGraph; what another checker prints is left open.  Jobs follow  *)
(* one another on revisions of the repository; on a machine that keeps its *)
(* directory the reports of the earlier job are still there.               *)
(***************************************************************************)
EXTENDS Aggregate

CONSTANTS
  Steps,           \* the components in the order of their steps, M0-A1 first
  Outcomes(_),     \* what the checker of a component may print, and its exit status
  Manifests,       \* the manifests of the revisions of the repository
  MaxJobs

Ids == {"M0-A1"} \cup {Steps[i] : i \in DOMAIN Steps} \cup
         UNION {DOMAIN m.nodes \cup DOMAIN m.profiles : m \in Manifests}

ASSUME StepsAssumption ==
  /\ Steps \in Seq(STRING) /\ Steps # <<>> /\ Steps[1] = "M0-A1"
  /\ \A i, j \in DOMAIN Steps : Steps[i] = Steps[j] => i = j

\* No two ids differ in case only.  No program checks that: M0-A1 leaves the
\* ids of hardening profiles open, and filename() folds them.
ASSUME FileNameAssumption ==
  \A a, b \in Ids : FileName(a) = FileName(b) => a = b

\* What is wrong with one record by itself is no cycle.
ASSUME ManifestsAssumption ==
  \A m \in Manifests :
    /\ \A n \in DOMAIN m.nodes : "CYCLE" \notin m.nodes[n].flaws
    /\ \A h \in DOMAIN m.profiles : "CYCLE" \notin m.profiles[h].flaws

VARIABLES
  job,             \* the number of the job
  step,            \* the step of the job: 0 is the preparation
  failed,          \* a step of this job has failed
  printed          \* what the checkers have printed in this job

w_vars == <<manifest, g_vars, directory, reports, aggregate, job, step, failed, printed>>

LastStep == Len(Steps)

Init ==
  /\ manifest \in Manifests
  /\ Fresh
  /\ directory = FALSE /\ reports = [name \in {} |-> Unreadable] /\ aggregate = "none"
  /\ job = 1 /\ step = 0 /\ failed = FALSE /\ printed = [c \in {} |-> Unreadable]

\* The steps before the checkers have no always(): mkdir is skipped when one
\* of the setup actions fails, and the unit tests when mkdir is.
Prepare ==
  /\ step = 0
  /\ \E wrong \in {{}, {"setup"}, {"unit tests"}} :
       /\ failed' = (wrong # {})
       /\ directory' = (directory \/ wrong # {"setup"})
  /\ step' = 1
  /\ UNCHANGED <<manifest, g_vars, reports, aggregate, job, printed>>

\* A file, or a line of the log, replaces what had its name.
Put(files, name, content) ==
  [n \in DOMAIN files \cup {name} |-> IF n = name THEN content ELSE files[n]]

\* `python ... | tee file`: tee truncates the file before anything is printed,
\* so a checker that raises leaves an empty one; without a directory tee fails.
Printed(c, outcome) ==
  /\ printed' = Put(printed, c, outcome.report)
  /\ reports' = IF directory THEN Put(reports, FileName(c), outcome.report) ELSE reports
  /\ failed' = (failed \/ outcome.exit # 0 \/ ~directory)
  /\ step' = step + 1

\* A structural_result and status 0 or 1; a checker that raises prints nothing.
GraphOutcome ==
  IF g_phase = "crashed" THEN [report |-> Unreadable, exit |-> 1]
  ELSE LET result == IF GConformant THEN "conformant" ELSE "non-conformant"
       IN  [report |-> [readable |-> TRUE, named |-> TRUE,
                        carriers |-> [structural_result |-> result]],
            exit |-> IF GConformant THEN 0 ELSE 1]

RunGraphCheck ==
  /\ step = 1
  /\ \/ GNext /\ UNCHANGED <<reports, failed, step, printed>>
     \/ /\ g_phase \in {"done", "crashed"}
        /\ Printed("M0-A1", GraphOutcome)
        /\ UNCHANGED g_vars
  /\ UNCHANGED <<manifest, directory, aggregate, job>>

\* A change: the step lost its if: always().
RunCheckerAfterSuccess ==
  /\ step \in 2..LastStep /\ ~failed
  /\ \E outcome \in Outcomes(Steps[step]) : Printed(Steps[step], outcome)
  /\ UNCHANGED <<manifest, g_vars, directory, aggregate, job>>

RunChecker ==
  /\ step \in 2..LastStep
  /\ \E outcome \in Outcomes(Steps[step]) : Printed(Steps[step], outcome)
  /\ UNCHANGED <<manifest, g_vars, directory, aggregate, job>>

RunAggregate ==
  /\ step = LastStep + 1
  /\ aggregate' = Overall
  /\ failed' = (failed \/ Overall \notin Passing)
  /\ step' = step + 1
  /\ UNCHANGED <<manifest, g_vars, directory, reports, job, printed>>

\* The next job, of any revision, in a fresh checkout or in the same directory.
NextJob ==
  /\ step = LastStep + 2 /\ job < MaxJobs
  /\ manifest' \in Manifests
  /\ \/ UNCHANGED <<directory, reports>>
     \/ directory' = FALSE /\ reports' = [name \in {} |-> Unreadable]
  /\ g_phase' = "load" /\ g_errors' = {}
  /\ color' = [n \in {} |-> "white"] /\ stack' = <<>>
  /\ aggregate' = "none" /\ job' = job + 1 /\ step' = 0 /\ failed' = FALSE
  /\ printed' = [c \in {} |-> Unreadable]

Next == Prepare \/ RunGraphCheck \/ RunChecker \/ RunAggregate \/ NextJob

Spec == Init /\ [][Next]_w_vars

\* Nothing but the end of a step lets the job go on, and a step does end: its
\* program, tee and the runner have a time limit.  No fairness for NextJob.
FairSpec == Spec /\ WF_w_vars(Prepare \/ RunGraphCheck \/ RunChecker \/ RunAggregate)

-----------------------------------------------------------------------------
(* Properties. *)

\* What a report says by itself: well-formed, its first carrier passes, and
\* none fails.
Passes(report) ==
  /\ report.readable /\ report.named
  /\ Carriers(report) # {}
  /\ report.carriers[ResultFields[Primary(report)]] \in Passing
  /\ \A f \in Carriers(report) : report.carriers[ResultFields[f]] # "non-conformant"

\* A passing aggregate is the word of this job: every component the graph
\* names and every checker the workflow ran has printed a passing report in
\* this very job, on this revision, and the graph itself is in order.  No
\* report of an earlier job stands in for one that was not written, no
\* component is forgotten by the graph, none fails unseen.
VerdictIsEarned ==
  aggregate \in Passing =>
    /\ \A c \in ExpectedIds \cup {Steps[i] : i \in DOMAIN Steps} :
         c \in DOMAIN printed /\ Passes(printed[c])
    /\ RequiredNodes \subseteq Nodes /\ Ordered

\* docs/M0-A2: a missing or unparsable report is no proven failure.  The
\* aggregate is non-conformant only if a checker of this job said so or broke
\* the protocol of reports, or the graph or the directory is at fault.
MissingIsNotFailure ==
  aggregate = "non-conformant" =>
    \/ \E c \in DOMAIN printed :
         /\ printed[c].readable
         /\ \/ ReportFindings(printed[c]) # {}
            \/ "non-conformant" \in {printed[c].carriers[f] : f \in DOMAIN printed[c].carriers}
    \/ manifest.file # "object" \/ RepeatedIds # {}
    \/ DOMAIN reports \ {FileName(id) : id \in ExpectedIds} # {}

\* Every job ends with an aggregate, whichever of its checkers fail or crash,
\* and whatever the graph is: the search for cycles ends on any.
JobConcludes == (step = 0) ~> (aggregate # "none")
==============================================================================
