----------------------------- MODULE ExtensionGraph -----------------------------
(***************************************************************************)
(* tools/eigiib_extension_graph_check.py (M0-A1): the manifest of the      *)
(* extensions, their dependencies, layers and hardening profiles.  Its     *)
(* check_acyclic is a depth-first search with three colours, here one step *)
(* per call, per edge and per return; the order of the records is open.    *)
(* What may be wrong with one record by itself is abstracted to `flaws`.   *)
(***************************************************************************)
EXTENDS Sequences, FiniteSets, Naturals

CONSTANTS
  RequiredNodes,   \* REQUIRED_NODES
  Null             \* JSON's null, where the program does not expect it

VARIABLES
  manifest,        \* conformance/extension-graph.json and EIGIIB.toml, as read
  g_phase,         \* the check to run next, "done" or "crashed"
  g_errors,        \* the codes of the findings
  color,           \* white, grey or black, per node
  stack            \* the calls of visit() and the edges each has yet to follow

g_vars == <<g_phase, g_errors, color, stack>>

Nodes == DOMAIN manifest.nodes
Profiles == DOMAIN manifest.profiles

DependsOn(n) == manifest.nodes[n].depends_on
Dependencies(n) == DependsOn(n) \cap Nodes

-----------------------------------------------------------------------------
(* check_nodes *)

NodeErrors ==
  {"REQUIRED" : n \in RequiredNodes \ Nodes} \cup
  {"EXTRA" : n \in Nodes \ RequiredNodes} \cup
  {"DUPLICATE" : n \in manifest.repeated} \cup
  (UNION {manifest.nodes[n].flaws : n \in Nodes}) \cup
  {"DEPENDS_TYPE" : n \in {m \in Nodes : DependsOn(m) = Null}} \cup
  {"DEPENDS_REF" : n \in {m \in Nodes : DependsOn(m) # Null /\ ~DependsOn(m) \subseteq Nodes}} \cup
  {"SELF_DEPENDENCY" : n \in {m \in Nodes : DependsOn(m) # Null /\ m \in DependsOn(m)}}

Attached(n) == manifest.nodes[n].hardening

AttachmentErrors ==
  LET attachments == UNION {{<<n, h>> : h \in Attached(n)} : n \in {m \in Nodes : Attached(m) # Null}}
  IN  {"HARDENING_REF" : a \in {b \in attachments : b[2] \notin Profiles}} \cup
      {"HARDENING_TARGET" : a \in {b \in attachments :
                               b[2] \in Profiles /\ manifest.profiles[b[2]].applies_to # b[1]}}

Target(h) == manifest.profiles[h].applies_to

ProfileErrors ==
  (UNION {manifest.profiles[h].flaws : h \in Profiles}) \cup
  {"TARGET" : h \in {p \in Profiles : Target(p) \notin Nodes \/ Target(p) = "Core"}} \cup
  {"UNATTACHED" : h \in {p \in Profiles : Target(p) \in Nodes /\ p \notin Attached(Target(p))}}

\* `hid not in attached` raises on the null that check_nodes has let pass.
AttachmentRaises == \E h \in Profiles : Target(h) \in Nodes /\ Attached(Target(h)) = Null

-----------------------------------------------------------------------------
(* check_layers: a node's layer is the last one that lists it. *)

Listing(n) == {i \in DOMAIN manifest.layers :
                 manifest.layers[i].wellformed /\ n \in manifest.layers[i].nodes}

LayerNamed(i) == \A j \in DOMAIN manifest.layers :
                   manifest.layers[j].id = manifest.layers[i].id => j <= i

\* layer_order of the id under which the node was listed last.
LayerOf(n) ==
  LET last == CHOOSE i \in Listing(n) : \A j \in Listing(n) : j <= i
  IN  CHOOSE k \in DOMAIN manifest.layers :
        manifest.layers[k].id = manifest.layers[last].id /\ LayerNamed(k)

Forward(n, dep) == Listing(n) # {} /\ Listing(dep) # {} /\ LayerOf(dep) > LayerOf(n)

LayerErrors ==
  {"LAYER" : i \in {j \in DOMAIN manifest.layers :
       \/ ~manifest.layers[j].wellformed \/ ~LayerNamed(j)
       \/ ~manifest.layers[j].nodes \subseteq Nodes}} \cup
  {"MULTIPLE" : n \in {m \in Nodes : Cardinality(Listing(m)) > 1}} \cup
  {"UNLAYERED" : n \in {m \in Nodes : Listing(m) = {}}} \cup
  {"FORWARD_DEPENDENCY" : n \in {m \in Nodes : \E dep \in Dependencies(m) : Forward(m, dep)}}

\* Iterating over a null depends_on raises.
DependencyRaises(n) == DependsOn(n) = Null

-----------------------------------------------------------------------------
(* The program. *)

Fresh ==
  /\ g_phase = "load" /\ g_errors = {}
  /\ color = [n \in {} |-> "white"] /\ stack = <<>>

Enter(phase, errors) == g_phase' = phase /\ g_errors' = g_errors \cup errors

Load ==
  /\ g_phase = "load"
  /\ IF manifest.file = "object" /\ manifest.toml = "table"
     THEN Enter("shape", {})
     ELSE Enter("done", {"LOAD"})
  /\ UNCHANGED <<color, stack>>

CheckShape ==
  /\ g_phase = "shape"
  /\ Enter("nodes", IF manifest.shape THEN {} ELSE {"SHAPE"})
  /\ UNCHANGED <<color, stack>>

CheckNodes ==
  /\ g_phase = "nodes"
  /\ IF AttachmentRaises THEN Enter("crashed", {})
     ELSE Enter("layers", NodeErrors \cup AttachmentErrors \cup ProfileErrors)
  /\ UNCHANGED <<color, stack>>

CheckLayers ==
  /\ g_phase = "layers"
  /\ IF \E n \in Nodes : DependencyRaises(n) THEN Enter("crashed", {})
     ELSE Enter("visit", LayerErrors)
  /\ color' = [n \in Nodes |-> "white"]
  /\ UNCHANGED stack

Call(n) == [node |-> n, left |-> Dependencies(n)]
Top == stack[Len(stack)]

\* The loop of check_acyclic calls visit() for a node it has not seen.
Visit ==
  /\ g_phase = "visit" /\ stack = <<>>
  /\ \E n \in Nodes :
       /\ color[n] = "white"
       /\ color' = [color EXCEPT ![n] = "grey"]
       /\ stack' = <<Call(n)>>
  /\ UNCHANGED <<g_phase, g_errors>>

\* One round of the loop in visit().
FollowEdge ==
  /\ g_phase = "visit" /\ stack # <<>>
  /\ \E dep \in Top.left :
       LET rest == [stack EXCEPT ![Len(stack)].left = @ \ {dep}]
       IN  \/ /\ color[dep] = "white"
              /\ color' = [color EXCEPT ![dep] = "grey"]
              /\ stack' = Append(rest, Call(dep))
              /\ UNCHANGED g_errors
           \/ /\ color[dep] = "grey"
              /\ g_errors' = g_errors \cup {"CYCLE"}
              /\ stack' = rest
              /\ UNCHANGED color
           \/ /\ color[dep] = "black"
              /\ stack' = rest
              /\ UNCHANGED <<color, g_errors>>
  /\ UNCHANGED g_phase

\* A change: the colour of a finished node is forgotten.
ReturnGrey ==
  /\ g_phase = "visit" /\ stack # <<>> /\ Top.left = {}
  /\ stack' = SubSeq(stack, 1, Len(stack) - 1)
  /\ UNCHANGED <<g_phase, g_errors, color>>

Return ==
  /\ g_phase = "visit" /\ stack # <<>> /\ Top.left = {}
  /\ color' = [color EXCEPT ![Top.node] = "black"]
  /\ stack' = SubSeq(stack, 1, Len(stack) - 1)
  /\ UNCHANGED <<g_phase, g_errors>>

CheckProfileBinding ==
  /\ g_phase = "visit" /\ stack = <<>>
  /\ \A n \in Nodes : color[n] # "white"
  /\ Enter("done", IF manifest.bound THEN {} ELSE {"BINDING"})
  /\ UNCHANGED <<color, stack>>

GNext ==
  \/ Load \/ CheckShape \/ CheckNodes \/ CheckLayers
  \/ Visit \/ FollowEdge \/ Return \/ CheckProfileBinding

GSpec == Fresh /\ [][GNext /\ UNCHANGED manifest]_<<manifest, g_vars>>

GConformant == g_phase = "done" /\ g_errors = {}

-----------------------------------------------------------------------------
(* Properties. *)

\* Every nonempty set of nodes has one that depends on none of the set.  In a
\* finite graph there is then no cycle of dependencies, however long.
Acyclic(nodes) ==
  \A S \in SUBSET nodes : S # {} => \E n \in S : Dependencies(n) \cap S = {}

\* The search reports a cycle if and only if there is one: two nodes may reach
\* one dependency along two paths, and that is no cycle, while a cycle may be
\* entered anywhere, after other nodes have been finished.
CyclesAreFound ==
  g_phase = "done" /\ color # [n \in {} |-> "white"]
    => ("CYCLE" \in g_errors <=> ~Acyclic(Nodes))

\* The manifest can be worked through from the core outwards: dependencies
\* have no cycle, and no path of them leads to a later layer.
Ordered ==
  /\ Acyclic(Nodes)
  /\ \A n \in Nodes : Listing(n) # {} /\ \A dep \in Dependencies(n) : ~Forward(n, dep)
==============================================================================
