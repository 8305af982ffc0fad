-------------------------------- MODULE Aggregate --------------------------------
(***************************************************************************)
(* tools/eigiib_aggregate.py (M0-A2): one result from the reports of the   *)
(* components that the extension graph names.  It executes nothing: it     *)
(* reads the graph and whatever is in the results directory.               *)
(***************************************************************************)
EXTENDS ExtensionGraph

CONSTANTS
  FileName(_)      \* filename(): the name of a component's report, id.lower() + ".json"

VARIABLES
  directory,       \* .eigiib-results/components exists
  reports,         \* from the names of the files in it to their contents
  aggregate        \* overall_result, or "none"

ResultFields == <<"overall_result", "structural_result", "hardening_result", "result">>

\* classify_value
Classify(value) ==
  CASE value = "conformant" -> "pass"
    [] value = "conformant-with-documented-deviations" -> "qualified"
    [] value \in {"partially-evaluated", "not-evaluated", "unavailable"} -> "incomplete"
    [] value = "non-conformant" -> "fail"
    [] OTHER -> "unsupported"

-----------------------------------------------------------------------------
(* What the graph asks for. *)

Checked(records) == {id \in DOMAIN records : records[id].checker}

\* expected_ids
ExpectedIds ==
  {"M0-A1"} \cup
    (IF manifest.file = "object"
     THEN Checked(manifest.nodes) \cup Checked(manifest.profiles) ELSE {})

\* The ids that expected_ids lists twice.
RepeatedIds ==
  IF manifest.file # "object" THEN {}
  ELSE LET nodes == Checked(manifest.nodes)
           profiles == Checked(manifest.profiles)
       IN  (manifest.repeated \cap nodes) \cup (nodes \cap profiles)
             \cup ({"M0-A1"} \cap (nodes \cup profiles))

GraphFindings ==
  {"GRAPH" : f \in {manifest.file} \ {"object"}} \cup {"GRAPH.DUPLICATE" : id \in RepeatedIds}

-----------------------------------------------------------------------------
(* What the directory holds. *)

\* A file that is no JSON, or JSON that is no object, is not readable.
Unreadable == [readable |-> FALSE, named |-> FALSE, carriers |-> [f \in {} |-> "none"]]

Present == {id \in ExpectedIds : FileName(id) \in DOMAIN reports}
Report(id) == reports[FileName(id)]
Components == {id \in Present : Report(id).readable}

\* The carriers a report has, and the first of them, which is authoritative.
Carriers(report) == {f \in DOMAIN ResultFields : ResultFields[f] \in DOMAIN report.carriers}
Carried(report, f) == Classify(report.carriers[ResultFields[f]])
Primary(report) == CHOOSE f \in Carriers(report) : \A g \in Carriers(report) : f <= g

Classification(report) ==
  IF Carriers(report) = {} THEN "unsupported" ELSE Carried(report, Primary(report))

\* A secondary carrier says non-conformant and the first does not.
Hides(report) ==
  /\ Carriers(report) # {} /\ Classification(report) # "fail"
  /\ \E f \in Carriers(report) : Carried(report, f) = "fail"

ReportFindings(report) ==
  (IF report.named THEN {} ELSE {"RESULT.TOOL"}) \cup
  (IF Carriers(report) = {} THEN {"RESULT.FIELD"} ELSE {}) \cup
  {"RESULT.VALUE" : f \in {g \in Carriers(report) : Carried(report, g) = "unsupported"}} \cup
  (IF Hides(report) THEN {"RESULT.CONFLICT"} ELSE {})

\* A change: an unparsable report counts like any other error.
CoverageCodesOfMissing == {"RESULTS.MISSING", "RESULT.MISSING"}

CoverageCodes == {"RESULTS.MISSING", "RESULT.MISSING", "RESULT.PARSE"}

\* A change: reports that no component of the graph owns are passed over.
ResultFindingsOfExpected ==
  IF ~directory THEN {"RESULTS.MISSING"}
  ELSE {"RESULT.MISSING" : id \in ExpectedIds \ Present} \cup
       {"RESULT.PARSE" : id \in Present \ Components} \cup
       UNION {ReportFindings(Report(id)) : id \in Components}

ResultFindings ==
  IF ~directory THEN {"RESULTS.MISSING"}
  ELSE {"RESULTS.EXTRA" : name \in DOMAIN reports \ {FileName(id) : id \in ExpectedIds}} \cup
       {"RESULT.MISSING" : id \in ExpectedIds \ Present} \cup
       {"RESULT.PARSE" : id \in Present \ Components} \cup
       UNION {ReportFindings(Report(id)) : id \in Components}

AggregateFindings == GraphFindings \cup ResultFindings

Classes == IF directory THEN {Classification(Report(id)) : id \in Components} ELSE {}

\* The four results, the worst first.
Overall ==
  IF ~AggregateFindings \subseteq CoverageCodes \/ Classes \cap {"fail", "unsupported"} # {}
  THEN "non-conformant"
  ELSE IF AggregateFindings # {} \/ "incomplete" \in Classes THEN "incomplete"
  ELSE IF "qualified" \in Classes THEN "conformant-with-documented-deviations"
  ELSE "conformant"

\* The results for which main() returns 0.
Passing == {"conformant", "conformant-with-documented-deviations"}
==============================================================================
