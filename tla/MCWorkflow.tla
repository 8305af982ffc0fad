------------------------------- MODULE MCWorkflow -------------------------------
(***************************************************************************)
(* Jobs for TLC: the manifest of tests/test_eigiib_extension_graph.py cut  *)
(* down to four nodes and one hardening profile, every revision one or two *)
(* changes away, and a step for each component that has a checker.         *)
(***************************************************************************)
EXTENDS Workflow, Functions, SequencesExt

Record(dependsOn, hardening, checker) ==
  [flaws |-> {}, depends_on |-> dependsOn, hardening |-> hardening, checker |-> checker]

Manifest ==
  [file |-> "object", toml |-> "table", shape |-> TRUE, bound |-> TRUE, repeated |-> {},
   nodes |-> ("Core" :> Record({}, {}, FALSE) @@ "E1" :> Record({"Core"}, {}, FALSE) @@
              "E2" :> Record({"Core", "E1"}, {}, TRUE) @@
              "E3" :> Record({"E1", "E2"}, {"E3-H0.2"}, TRUE)),
   profiles |-> ("E3-H0.2" :> [flaws |-> {}, applies_to |-> "E3", checker |-> TRUE]),
   layers |-> <<[id |-> "a", wellformed |-> TRUE, nodes |-> {"Core"}],
                [id |-> "b", wellformed |-> TRUE, nodes |-> {"E1", "E2"}],
                [id |-> "c", wellformed |-> TRUE, nodes |-> {"E3"}]>>]

With(m, field, value) == [m EXCEPT ![field] = value]
WithNode(m, n, field, value) == [m EXCEPT !.nodes[n][field] = value]
WithLayer(m, i, field, value) == [m EXCEPT !.layers[i][field] = value]

\* Dependencies that make cycles of one to four nodes, entered from outside
\* or not, diamonds, and references to nothing.
Rewired ==
  {WithNode(m, "E1", "depends_on", e1) :
     m \in {WithNode(Manifest, "Core", "depends_on", core) : core \in {{}, {"Core"}, {"E3"}, {"E9"}}},
     e1 \in {{"Core"}, {"E2"}, {"E3"}, {}, Null}}

Broken ==
  {With(Manifest, "file", "garbage"), With(Manifest, "file", "absent"),
   With(Manifest, "toml", "garbage"), With(Manifest, "shape", FALSE),
   With(Manifest, "bound", FALSE), With(Manifest, "repeated", {"E2"}),
   With(Manifest, "profiles", Restrict(Manifest.profiles, {})),
   With(Manifest, "nodes", Restrict(Manifest.nodes, {"Core", "E1", "E2"})),
   WithNode(Manifest, "E2", "checker", FALSE),
   WithNode(Manifest, "E2", "flaws", {"PATH_MISSING"}),
   WithNode(Manifest, "E3", "hardening", {}), WithNode(Manifest, "E3", "hardening", Null),
   WithNode(Manifest, "E2", "hardening", {"E3-H0.2"}),
   WithNode(Manifest, "E2", "hardening", {"E2-H0.2"}),
   [Manifest EXCEPT !.profiles["E3-H0.2"].checker = FALSE,
                    !.profiles["E3-H0.2"].flaws = {"FIELD"}],
   [Manifest EXCEPT !.profiles["E3-H0.2"].applies_to = "Core"],
   With(Manifest, "profiles",
        "E2-H0.2" :> [flaws |-> {}, applies_to |-> "E2", checker |-> TRUE] @@ Manifest.profiles),
   [Manifest EXCEPT !.profiles = "E2-H0.2" :> [flaws |-> {}, applies_to |-> "E2", checker |-> TRUE] @@ @,
                    !.nodes["E2"].hardening = {"E2-H0.2"}],
   With(Manifest, "nodes", "E4" :> Record({}, {}, TRUE) @@ Manifest.nodes),
   WithLayer(Manifest, 3, "id", "a"), WithLayer(Manifest, 1, "nodes", {"Core", "E3"}),
   WithLayer(Manifest, 3, "nodes", {"E3", "E9"}), WithLayer(Manifest, 2, "nodes", {"E1"}),
   WithLayer(Manifest, 3, "wellformed", FALSE),
   With(Manifest, "layers", Reverse(Manifest.layers))}

WorkflowManifests == Rewired \cup Broken

WorkflowSteps == <<"M0-A1", "E2", "E3", "E3-H0.2">>

LowerName(id) ==
  CASE id = "Core" -> "core.json" [] id = "E1" -> "e1.json"
    [] id = "M0-A1" -> "m0-a1.json" [] id = "E2" -> "e2.json" [] id = "E3" -> "e3.json"
    [] id = "E4" -> "e4.json" [] id = "E2-H0.2" -> "e2-h0.2.json" [] id = "E3-H0.2" -> "e3-h0.2.json"

Says(carriers, status) == [report |-> [readable |-> TRUE, named |-> TRUE, carriers |-> carriers], exit |-> status]
Raises == [report |-> Unreadable, exit |-> 1]

\* E2 has three statuses; of E3 also reports of other versions, which the
\* aggregator has to judge by their form; the profile may crash or fail.
WorkflowOutcomes(c) ==
  CASE c = "E2" ->
         {Says([overall_result |-> "conformant"], 0),
          Says([overall_result |-> "conformant-with-documented-deviations"], 0),
          Says([overall_result |-> "partially-evaluated"], 2), Raises}
    [] c = "E3" ->
         {Says([result |-> "conformant"], 0), Says([result |-> "non-conformant"], 1),
          Says([overall_result |-> "conformant", structural_result |-> "non-conformant"], 1),
          Says([append_only_result |-> "verified"], 0),
          [report |-> [readable |-> TRUE, named |-> FALSE, carriers |-> [result |-> "conformant"]], exit |-> 0]}
    [] c = "E3-H0.2" ->
         {Says([hardening_result |-> "conformant"], 0),
          Says([hardening_result |-> "non-conformant"], 1), Raises}
==============================================================================
