----------------------------- MODULE WorkflowProofs -----------------------------
(***************************************************************************)
(* Theorems about the workflow: its first checker, the search for cycles,  *)
(* on every graph, and what a passing aggregate means, for any number of   *)
(* components, jobs and revisions.                                         *)
(***************************************************************************)
EXTENDS Workflow, SequenceTheorems, TLAPS

-----------------------------------------------------------------------------
(* The search for cycles.                                                  *)

Colored(c) == {n \in Nodes : color[n] = c}

Frame == [node : Nodes, left : SUBSET Nodes]

\* The node the search has gone on to from the i-th call, if it has.
Entered(i) == IF i < Len(stack) THEN {stack[i + 1].node} ELSE {}

\* The calls on the stack are a path of dependencies through the grey nodes.
IsPath ==
  /\ stack \in Seq(Frame)
  /\ color \in [Nodes -> {"white", "grey", "black"}]
  /\ \A i, j \in 1..Len(stack) : stack[i].node = stack[j].node => i = j
  /\ Colored("grey") = {stack[i].node : i \in 1..Len(stack)}
  /\ \A i \in 1..Len(stack) :
       stack[i].left \cup Entered(i) \subseteq Dependencies(stack[i].node)

\* As long as no cycle is found, what a call has left behind is finished, and
\* so is everything that a finished node depends on.
NothingMissed ==
  /\ \A n \in Colored("black") : Dependencies(n) \subseteq Colored("black")
  /\ \A i \in 1..Len(stack) :
       Dependencies(stack[i].node) \ (stack[i].left \cup Entered(i)) \subseteq Colored("black")
  /\ Acyclic(Colored("black"))

SearchInv ==
  /\ IsPath
  /\ "CYCLE" \notin g_errors => NothingMissed
  /\ "CYCLE" \in g_errors => ~Acyclic(Nodes)

\* A call whose dependencies are all finished makes no cycle with them.
LEMMA OneMore ==
  ASSUME NEW B, NEW n, n \notin B, Acyclic(B),
         \A b \in B : Dependencies(b) \subseteq B, Dependencies(n) \subseteq B
  PROVE  Acyclic(B \cup {n})
<1> SUFFICES ASSUME NEW S \in SUBSET (B \cup {n}), S # {},
                    \A m \in S : Dependencies(m) \cap S # {}
             PROVE  FALSE
  BY DEF Acyclic
<1>1. S \ {n} \in SUBSET B
  OBVIOUS
<1>2. \A m \in S \ {n} : Dependencies(m) \cap (S \ {n}) # {}
  OBVIOUS
<1>3. S \ {n} = {}
  BY <1>1, <1>2 DEF Acyclic
<1>4. S = {n}
  BY <1>3
<1> QED
  BY <1>4

\* What is on top of the stack.
LEMMA TopOfPath ==
  ASSUME IsPath, stack # <<>>
  PROVE  /\ stack \in Seq(Frame) /\ Len(stack) \in Nat \ {0} /\ Top = stack[Len(stack)]
         /\ \A i \in 1..Len(stack) : stack[i] \in Frame
         /\ Top \in Frame /\ Top.node \in Nodes /\ Top.left \subseteq Nodes
         /\ Top.left \subseteq Dependencies(Top.node)
         /\ Top.node \in Colored("grey")
<1>1. stack \in Seq(Frame) /\ Len(stack) \in Nat \ {0} /\ Top = stack[Len(stack)]
  BY DEF IsPath, Top
<1>2. \A i \in 1..Len(stack) : stack[i] \in Frame
  BY <1>1
<1>3. Len(stack) \in 1..Len(stack)
  BY <1>1
<1>4. Top \in Frame /\ Top.node \in Nodes /\ Top.left \subseteq Nodes
  BY <1>1, <1>2, <1>3 DEF Frame
<1>5. Top.left \subseteq Dependencies(Top.node)
  BY <1>1, <1>3 DEF IsPath
<1>6. Top.node \in Colored("grey")
  BY <1>1, <1>3 DEF IsPath
<1> QED
  BY <1>1, <1>2, <1>4, <1>5, <1>6

\* A grey dependency closes a loop: from it along the path and back.
LEMMA GreyIsCycle ==
  ASSUME IsPath, stack # <<>>, NEW dep \in Top.left, color[dep] = "grey"
  PROVE  ~Acyclic(Nodes)
<1>1. /\ Len(stack) \in Nat \ {0} /\ dep \in Nodes
      /\ \A i \in 1..Len(stack) : stack[i].node \in Nodes
      /\ Top = stack[Len(stack)] /\ dep \in Dependencies(Top.node)
  BY TopOfPath DEF Frame
<1>2. PICK i \in 1..Len(stack) : dep = stack[i].node
  BY <1>1 DEF IsPath, Colored
<1> DEFINE Loop == {stack[k].node : k \in i..Len(stack)}
<1>3. Loop \in SUBSET Nodes
  BY <1>1, <1>2
<1>4. dep \in Loop
  BY <1>1, <1>2
<1>5. ASSUME NEW k \in i..Len(stack) PROVE Dependencies(stack[k].node) \cap Loop # {}
  <2>1. k \in 1..Len(stack) /\ k \in Nat
    BY <1>1, <1>2
  <2>2. CASE k < Len(stack)
    <3>1. Entered(k) \subseteq Dependencies(stack[k].node)
      BY <2>1 DEF IsPath
    <3>2. stack[k + 1].node \in Dependencies(stack[k].node)
      BY <3>1, <2>2 DEF Entered
    <3>3. k + 1 \in i..Len(stack)
      BY <1>1, <1>2, <2>1, <2>2
    <3>4. stack[k + 1].node \in Loop
      BY <3>3
    <3> QED
      BY <3>2, <3>4
  <2>3. CASE k = Len(stack)
    BY <1>1, <1>4, <2>3
  <2> QED
    BY <1>1, <2>1, <2>2, <2>3
<1>6. \A n \in Loop : Dependencies(n) \cap Loop # {}
  BY <1>5
<1> QED
  BY <1>3, <1>4, <1>6 DEF Acyclic

\* What a node depends on is fixed by the manifest.
LEMMA DependenciesFixed ==
  ASSUME manifest' = manifest
  PROVE  /\ Nodes' = Nodes /\ Frame' = Frame /\ \A n : Dependencies(n)' = Dependencies(n)
         /\ \A ns : Acyclic(ns)' <=> Acyclic(ns)
<1>1. Nodes' = Nodes /\ \A n : Dependencies(n)' = Dependencies(n)
  BY DEF Nodes, Dependencies, DependsOn
<1> QED
  BY <1>1 DEF Frame, Acyclic

\* A call of visit() for a node not seen before.
LEMMA VisitKeepsSearch ==
  ASSUME SearchInv, manifest' = manifest, Visit
  PROVE  SearchInv'
<1>1. PICK n \in Nodes : /\ color[n] = "white" /\ color' = [color EXCEPT ![n] = "grey"]
                         /\ stack' = <<Call(n)>> /\ stack = <<>> /\ g_errors' = g_errors
  BY DEF Visit
<1>2. /\ Nodes' = Nodes /\ Frame' = Frame /\ \A m : Dependencies(m)' = Dependencies(m)
      /\ \A ns : Acyclic(ns)' <=> Acyclic(ns)
  BY DependenciesFixed
<1>3. color \in [Nodes -> {"white", "grey", "black"}]
  BY DEF SearchInv, IsPath
<1>4. Colored("grey") = {}
  BY <1>1 DEF SearchInv, IsPath
<1>5. Colored("grey")' = {n} /\ Colored("black")' = Colored("black")
  BY <1>1, <1>2, <1>3, <1>4 DEF Colored
<1>6. Dependencies(n) \subseteq Nodes
  BY DEF Dependencies
<1>7. /\ stack' \in Seq(Frame) /\ Len(stack') = 1
      /\ stack'[1].node = n /\ stack'[1].left = Dependencies(n)
  BY <1>1, <1>6 DEF Call, Frame
<1>8. \A i \in 1..Len(stack') : i = 1 /\ Entered(i)' = {}
  BY <1>7 DEF Entered
<1>9. IsPath'
  <2>1. color' \in [Nodes' -> {"white", "grey", "black"}]
    BY <1>1, <1>2, <1>3
  <2>2. Colored("grey")' = {stack'[i].node : i \in 1..Len(stack')}
    <3>1. 1..Len(stack') = {1}
      BY <1>7
    <3> QED
      BY <3>1, <1>5, <1>7
  <2>3. \A i \in 1..Len(stack') :
          stack'[i].left \cup Entered(i)' \subseteq (Dependencies(stack[i].node))'
    BY <1>2, <1>7, <1>8
  <2>4. \A i, j \in 1..Len(stack') : stack'[i].node = stack'[j].node => i = j
    BY <1>8
  <2> QED
    BY <2>1, <2>2, <2>3, <2>4, <1>2, <1>7 DEF IsPath
<1>10. ASSUME NothingMissed PROVE NothingMissed'
  <2>1. \A i \in 1..Len(stack') :
          (Dependencies(stack[i].node))' \ (stack'[i].left \cup Entered(i)') \subseteq Colored("black")'
    BY <1>2, <1>7, <1>8
  <2> QED
    BY <1>2, <1>5, <1>10, <2>1 DEF NothingMissed
<1> QED
  BY <1>1, <1>2, <1>9, <1>10 DEF SearchInv

\* The edge just followed is off the list of the call; nothing else changes.
LEMMA EdgeTaken ==
  ASSUME IsPath, stack # <<>>, NEW dep \in Top.left
  PROVE  \E rest :
           /\ rest = [stack EXCEPT ![Len(stack)].left = @ \ {dep}]
           /\ rest \in Seq(Frame) /\ Len(rest) = Len(stack)
           /\ \A i \in 1..Len(stack) : rest[i].node = stack[i].node
           /\ \A i \in 1..Len(stack) : i # Len(stack) => rest[i].left = stack[i].left
           /\ rest[Len(stack)].left = Top.left \ {dep}
<1>0. PICK rest : rest = [stack EXCEPT ![Len(stack)].left = @ \ {dep}]
  OBVIOUS
<1>1. /\ stack \in Seq(Frame) /\ Len(stack) \in Nat \ {0} /\ Top = stack[Len(stack)]
      /\ \A i \in 1..Len(stack) : stack[i] \in Frame
      /\ Top.left \subseteq Nodes
  BY TopOfPath
<1>2. Len(stack) \in 1..Len(stack) /\ DOMAIN stack = 1..Len(stack)
  BY <1>1
<1> DEFINE top == [Top EXCEPT !.left = @ \ {dep}]
<1>3. top \in Frame /\ top.node = Top.node /\ top.left = Top.left \ {dep}
  BY <1>1, <1>2 DEF Frame
<1>4. rest = [stack EXCEPT ![Len(stack)] = top]
  BY <1>0, <1>1
<1> HIDE DEF top
<1>5. rest \in Seq(Frame) /\ Len(rest) = Len(stack)
  <2> SUFFICES [stack EXCEPT ![Len(stack)] = top] \in Seq(Frame)
               /\ Len([stack EXCEPT ![Len(stack)] = top]) = Len(stack)
    BY <1>4
  <2> QED
    BY <1>1, <1>2, <1>3, ExceptSeq
<1>6. \A i \in 1..Len(stack) : rest[i] = IF i = Len(stack) THEN top ELSE stack[i]
  BY <1>1, <1>2, <1>4
<1> QED
  BY <1>0, <1>1, <1>2, <1>3, <1>5, <1>6

\* One round of the loop: the edge is followed into a new node, closes a cycle
\* or ends at a finished node.
LEMMA FollowEdgeKeepsSearch ==
  ASSUME SearchInv, manifest' = manifest, FollowEdge
  PROVE  SearchInv'
<1> DEFINE rest(dep) == [stack EXCEPT ![Len(stack)].left = @ \ {dep}]
<1>1. PICK dep \in Top.left :
        \/ /\ color[dep] = "white" /\ color' = [color EXCEPT ![dep] = "grey"]
           /\ stack' = Append(rest(dep), Call(dep)) /\ g_errors' = g_errors
        \/ /\ color[dep] = "grey" /\ g_errors' = g_errors \cup {"CYCLE"}
           /\ stack' = rest(dep) /\ color' = color
        \/ /\ color[dep] = "black" /\ stack' = rest(dep) /\ color' = color /\ g_errors' = g_errors
  BY DEF FollowEdge
<1>2. /\ Nodes' = Nodes /\ Frame' = Frame /\ \A m : Dependencies(m)' = Dependencies(m)
      /\ \A ns : Acyclic(ns)' <=> Acyclic(ns)
  BY DependenciesFixed
<1>3. stack # <<>> /\ IsPath
  BY DEF FollowEdge, SearchInv
<1>n. PICK n : n = Len(stack)
  OBVIOUS
<1>4. /\ stack \in Seq(Frame) /\ n \in Nat \ {0} /\ Top = stack[n]
      /\ \A i \in 1..n : stack[i].node \in Nodes
      /\ Top.left \subseteq Nodes /\ Top.left \subseteq Dependencies(Top.node)
  BY <1>3, <1>n, TopOfPath DEF Frame
<1>5. /\ color \in [Nodes -> {"white", "grey", "black"}]
      /\ \A i, j \in 1..n : stack[i].node = stack[j].node => i = j
      /\ Colored("grey") = {stack[i].node : i \in 1..n}
      /\ \A i \in 1..n : stack[i].left \cup Entered(i) \subseteq Dependencies(stack[i].node)
  BY <1>3, <1>n DEF IsPath
<1>6. dep \in Nodes /\ dep \in Dependencies(stack[n].node)
  BY <1>4
<1>7. PICK rst :
        /\ rst = rest(dep)
        /\ rst \in Seq(Frame) /\ Len(rst) = n
        /\ \A i \in 1..n : rst[i].node = stack[i].node
        /\ \A i \in 1..n : i # n => rst[i].left = stack[i].left
        /\ rst[n].left = stack[n].left \ {dep}
  <2> SUFFICES \E rst :
        /\ rst = [stack EXCEPT ![Len(stack)].left = @ \ {dep}]
        /\ rst \in Seq(Frame) /\ Len(rst) = Len(stack)
        /\ \A i \in 1..Len(stack) : rst[i].node = stack[i].node
        /\ \A i \in 1..Len(stack) : i # Len(stack) => rst[i].left = stack[i].left
        /\ rst[Len(stack)].left = Top.left \ {dep}
    BY <1>4, <1>n
  <2> QED
    BY ONLY <1>3, EdgeTaken, dep \in Top.left
<1> HIDE DEF rest
<1>8. Entered(n) = {} /\ n \in 1..n
  BY <1>4, <1>n DEF Entered
<1>9. CASE stack' = rst /\ color' = color
  <2>1. /\ Colored("grey")' = Colored("grey") /\ Colored("black")' = Colored("black")
        /\ Len(stack') = n
    BY <1>2, <1>7, <1>9 DEF Colored
  <2>2. \A i \in 1..n : Entered(i)' = Entered(i)
    <3> SUFFICES ASSUME NEW i \in 1..n PROVE Entered(i)' = Entered(i)
      OBVIOUS
    <3>1. CASE i < n
      <4>1. i + 1 \in 1..n
        BY <1>4, <3>1
      <4> QED
        BY <1>7, <1>9, <1>n, <2>1, <4>1, <3>1 DEF Entered
    <3>2. CASE ~(i < n)
      BY <1>n, <2>1, <3>2 DEF Entered
    <3> QED
      BY <3>1, <3>2
  <2>3. \A i \in 1..n : /\ stack'[i].node = stack[i].node
                        /\ stack'[i].left \subseteq stack[i].left
                        /\ stack[i].left \subseteq stack'[i].left \cup (IF i = n THEN {dep} ELSE {})
    BY <1>7, <1>9
  <2>4. IsPath'
    <3>1. stack' \in Seq(Frame') /\ color' \in [Nodes' -> {"white", "grey", "black"}]
      BY <1>2, <1>5, <1>7, <1>9
    <3>2. Colored("grey")' = {stack'[i].node : i \in 1..Len(stack')}
      BY <1>5, <2>1, <2>3
    <3>3. \A i, j \in 1..Len(stack') : stack'[i].node = stack'[j].node => i = j
      BY <1>5, <2>1, <2>3
    <3>4. \A i \in 1..Len(stack') :
            stack'[i].left \cup Entered(i)' \subseteq (Dependencies(stack[i].node))'
      BY <1>2, <1>5, <2>1, <2>2, <2>3
    <3> QED
      BY <3>1, <3>2, <3>3, <3>4 DEF IsPath
  <2>5. ASSUME color[dep] = "black", NothingMissed PROVE NothingMissed'
    <3>1. dep \in Colored("black")
      BY <1>6, <2>5 DEF Colored
    <3>2. \A i \in 1..Len(stack') :
            (Dependencies(stack[i].node))' \ (stack'[i].left \cup Entered(i)') \subseteq Colored("black")'
      <4> SUFFICES ASSUME NEW i \in 1..n
                   PROVE  Dependencies(stack[i].node) \ (stack'[i].left \cup Entered(i))
                            \subseteq Colored("black")
        BY <1>2, <2>1, <2>2, <2>3
      <4>1. Dependencies(stack[i].node) \ (stack[i].left \cup Entered(i)) \subseteq Colored("black")
        BY <1>n, <2>5 DEF NothingMissed
      <4> QED
        BY <2>3, <3>1, <4>1 DEF Colored
    <3> QED
      BY <1>2, <2>1, <2>5, <3>2 DEF NothingMissed
  <2>6. CASE color[dep] = "black" /\ g_errors' = g_errors
    BY <1>2, <2>4, <2>5, <2>6 DEF SearchInv
  <2>7. CASE color[dep] = "grey" /\ g_errors' = g_errors \cup {"CYCLE"}
    <3>1. ~Acyclic(Nodes)
      BY <1>3, <2>7, GreyIsCycle
    <3> QED
      BY <1>2, <2>4, <2>7, <3>1 DEF SearchInv
  <2>8. CASE color[dep] = "white" /\ color' = [color EXCEPT ![dep] = "grey"]
    BY <1>5, <1>6, <1>9, <2>8
  <2> QED
    BY <1>1, <2>6, <2>7, <2>8
<1>10. CASE /\ color[dep] = "white" /\ color' = [color EXCEPT ![dep] = "grey"]
            /\ stack' = Append(rst, Call(dep)) /\ g_errors' = g_errors
  <2>1. Call(dep) \in Frame /\ Call(dep).node = dep /\ Call(dep).left = Dependencies(dep)
    BY <1>6 DEF Call, Frame, Dependencies
  <2>2. /\ stack' \in Seq(Frame) /\ Len(stack') = n + 1 /\ stack'[n + 1] = Call(dep)
        /\ \A i \in 1..n : stack'[i] = rst[i]
    BY <1>4, <1>7, <1>10, <2>1
  <2>3. 1..(n + 1) = (1..n) \cup {n + 1} /\ n + 1 \notin 1..n
    BY <1>4
  <2>4. Colored("grey")' = Colored("grey") \cup {dep} /\ Colored("black")' = Colored("black")
    BY <1>2, <1>5, <1>6, <1>10 DEF Colored
  <2>5. Entered(n + 1)' = {} /\ Entered(n)' = {dep}
    BY <1>4, <2>1, <2>2 DEF Entered
  <2>6. \A i \in 1..n : i # n => Entered(i)' = Entered(i)
    <3> SUFFICES ASSUME NEW i \in 1..n, i # n PROVE Entered(i)' = Entered(i)
      OBVIOUS
    <3>1. i + 1 \in 1..n /\ i < n /\ i < n + 1
      BY <1>4
    <3> QED
      BY <1>7, <1>n, <2>2, <3>1 DEF Entered
  <2>7. \A i \in 1..n : stack'[i].node = stack[i].node /\ stack[i].node # dep
    <3>1. \A i \in 1..n : color[stack[i].node] = "grey"
      BY <1>5 DEF Colored
    <3> QED
      BY <1>7, <1>10, <2>2, <3>1
  <2>8. \A i \in 1..n : stack'[i].left \cup Entered(i)' \subseteq Dependencies(stack[i].node)
    BY <1>5, <1>6, <1>7, <2>2, <2>5, <2>6
  <2>9. IsPath'
    <3>1. stack' \in Seq(Frame') /\ color' \in [Nodes' -> {"white", "grey", "black"}]
      BY <1>2, <1>5, <1>10, <2>2
    <3>2. Colored("grey")' = {stack'[i].node : i \in 1..Len(stack')}
      <4>1. {stack'[i].node : i \in 1..(n + 1)}
              = {stack'[i].node : i \in 1..n} \cup {stack'[n + 1].node}
        BY <2>3
      <4>2. {stack'[i].node : i \in 1..n} = {stack[i].node : i \in 1..n}
        BY <2>7
      <4> QED
        BY <1>5, <2>1, <2>2, <2>4, <4>1, <4>2
    <3>3. \A i, j \in 1..Len(stack') : stack'[i].node = stack'[j].node => i = j
      BY <1>5, <2>1, <2>2, <2>3, <2>7
    <3>4. \A i \in 1..Len(stack') :
            stack'[i].left \cup Entered(i)' \subseteq (Dependencies(stack[i].node))'
      <4> SUFFICES ASSUME NEW i \in 1..(n + 1)
                   PROVE  stack'[i].left \cup Entered(i)' \subseteq Dependencies(stack'[i].node)
        BY <1>2, <2>2
      <4>1. CASE i \in 1..n
        BY <2>7, <2>8, <4>1
      <4>2. CASE i = n + 1
        BY <2>1, <2>2, <2>5, <4>2
      <4> QED
        BY <2>3, <4>1, <4>2
    <3> QED
      BY <3>1, <3>2, <3>3, <3>4 DEF IsPath
  <2>10. ASSUME NothingMissed PROVE NothingMissed'
    <3>1. \A i \in 1..Len(stack') :
            (Dependencies(stack[i].node))' \ (stack'[i].left \cup Entered(i)') \subseteq Colored("black")'
      <4> SUFFICES ASSUME NEW i \in 1..(n + 1)
                   PROVE  Dependencies(stack'[i].node) \ (stack'[i].left \cup Entered(i)')
                            \subseteq Colored("black")
        BY <1>2, <2>2, <2>4
      <4>1. CASE i = n + 1
        BY <2>1, <2>2, <4>1
      <4>2. CASE i \in 1..n
        <5>1. Dependencies(stack[i].node) \ (stack[i].left \cup Entered(i)) \subseteq Colored("black")
          BY <1>n, <2>10, <4>2 DEF NothingMissed
        <5>2. stack[i].left \cup Entered(i) \subseteq stack'[i].left \cup Entered(i)'
          <6>1. CASE i = n
            <7>1. stack'[i].left = stack[i].left \ {dep} /\ Entered(i) = {} /\ Entered(i)' = {dep}
              BY <1>7, <1>8, <2>2, <2>5, <4>2, <6>1
            <7> QED
              BY <7>1
          <6>2. CASE i # n
            <7>1. stack'[i].left = stack[i].left /\ Entered(i)' = Entered(i)
              BY <1>7, <2>2, <2>6, <4>2, <6>2
            <7> QED
              BY <7>1
          <6> QED
            BY <6>1, <6>2
        <5> QED
          BY <2>7, <4>2, <5>1, <5>2
      <4> QED
        BY <2>3, <4>1, <4>2
    <3> QED
      BY <1>2, <2>4, <2>10, <3>1 DEF NothingMissed
  <2> QED
    BY <1>2, <1>10, <2>9, <2>10 DEF SearchInv
<1> QED
  BY <1>1, <1>7, <1>9, <1>10

\* A finished call: its node turns black, with nothing behind it unfinished.
LEMMA ReturnKeepsSearch ==
  ASSUME SearchInv, manifest' = manifest, Return
  PROVE  SearchInv'
<1>1. /\ stack # <<>> /\ IsPath /\ Top.left = {} /\ g_errors' = g_errors
      /\ color' = [color EXCEPT ![Top.node] = "black"]
      /\ stack' = SubSeq(stack, 1, Len(stack) - 1)
  BY DEF Return, SearchInv
<1>2. /\ Nodes' = Nodes /\ Frame' = Frame /\ \A m : Dependencies(m)' = Dependencies(m)
      /\ \A ns : Acyclic(ns)' <=> Acyclic(ns)
  BY DependenciesFixed
<1>n. PICK n, top : n = Len(stack) /\ top = Top.node
  OBVIOUS
<1>3. /\ stack \in Seq(Frame) /\ n \in Nat \ {0} /\ top = stack[n].node /\ stack[n].left = {}
      /\ \A i \in 1..n : stack[i] \in Frame
      /\ top \in Nodes /\ top \in Colored("grey")
  BY <1>1, <1>n, TopOfPath
<1>4. /\ color \in [Nodes -> {"white", "grey", "black"}]
      /\ \A i, j \in 1..n : stack[i].node = stack[j].node => i = j
      /\ Colored("grey") = {stack[i].node : i \in 1..n}
      /\ \A i \in 1..n : stack[i].left \cup Entered(i) \subseteq Dependencies(stack[i].node)
  BY <1>1, <1>n DEF IsPath
<1>5. /\ stack' \in Seq(Frame) /\ Len(stack') = n - 1
      /\ \A i \in 1..(n - 1) : stack'[i] = stack[i]
  <2>1. n - 1 \in Int /\ 1 \in Int /\ \A i \in 1..(n - 1) : stack[i] \in Frame
    BY <1>3
  <2>2. SubSeq(stack, 1, n - 1) \in Seq(Frame)
    BY <2>1, SubSeqProperties
  <2> QED
    BY <1>1, <1>3, <1>n, <2>2
<1>6. 1..n = (1..(n - 1)) \cup {n} /\ n \notin 1..(n - 1) /\ n \in 1..n
  BY <1>3
<1>7. /\ Colored("black")' = Colored("black") \cup {top}
      /\ Colored("grey")' = Colored("grey") \ {top}
      /\ top \notin Colored("black")
  BY <1>1, <1>2, <1>3, <1>4, <1>n DEF Colored
<1>8. \A i \in 1..(n - 1) :
        Entered(i)' \subseteq Entered(i) /\ Entered(i) \subseteq Entered(i)' \cup {top}
  <2> SUFFICES ASSUME NEW i \in 1..(n - 1)
               PROVE  Entered(i)' \subseteq Entered(i) /\ Entered(i) \subseteq Entered(i)' \cup {top}
    OBVIOUS
  <2>1. CASE i = n - 1
    BY <1>3, <1>5, <1>n, <2>1 DEF Entered
  <2>2. CASE i # n - 1
    <3>1. i + 1 \in 1..(n - 1) /\ i < n /\ i < n - 1
      BY <1>3, <2>2
    <3> QED
      BY <1>5, <1>n, <3>1 DEF Entered
  <2> QED
    BY <2>1, <2>2
<1>9. IsPath'
  <2>1. stack' \in Seq(Frame') /\ color' \in [Nodes' -> {"white", "grey", "black"}]
    BY <1>1, <1>2, <1>4, <1>5
  <2>2. Colored("grey")' = {stack'[i].node : i \in 1..Len(stack')}
    <3>1. {stack'[i].node : i \in 1..(n - 1)} = {stack[i].node : i \in 1..(n - 1)}
      BY <1>5
    <3>2. {stack[i].node : i \in 1..n} = {stack[i].node : i \in 1..(n - 1)} \cup {top}
      BY <1>3, <1>6
    <3>3. \A i \in 1..(n - 1) : stack[i].node # top
      BY <1>3, <1>4, <1>6
    <3> QED
      <4>1. Colored("grey") = {stack[i].node : i \in 1..(n - 1)} \cup {top}
        BY <1>4, <3>2
      <4>2. Colored("grey")' = {stack[i].node : i \in 1..(n - 1)}
        BY <1>7, <3>3, <4>1
      <4> QED
        BY <1>5, <3>1, <4>2
  <2>3. \A i, j \in 1..Len(stack') : stack'[i].node = stack'[j].node => i = j
    BY <1>4, <1>5, <1>6
  <2>4. \A i \in 1..Len(stack') :
          stack'[i].left \cup Entered(i)' \subseteq (Dependencies(stack[i].node))'
    BY <1>2, <1>4, <1>5, <1>6, <1>8
  <2> QED
    BY <2>1, <2>2, <2>3, <2>4 DEF IsPath
<1>10. ASSUME NothingMissed PROVE NothingMissed'
  <2>1. /\ \A m \in Colored("black") : Dependencies(m) \subseteq Colored("black")
        /\ \A i \in 1..n : Dependencies(stack[i].node) \ (stack[i].left \cup Entered(i))
                             \subseteq Colored("black")
        /\ Acyclic(Colored("black"))
    BY <1>10, <1>n DEF NothingMissed
  <2>2. Entered(n) = {}
    BY <1>3, <1>n DEF Entered
  <2>3. Dependencies(top) \subseteq Colored("black")
    BY <1>3, <1>6, <2>1, <2>2
  <2>4. Acyclic(Colored("black") \cup {top})
    BY <1>7, <2>1, <2>3, OneMore
  <2>5. \A i \in 1..Len(stack') :
          (Dependencies(stack[i].node))' \ (stack'[i].left \cup Entered(i)') \subseteq Colored("black")'
    <3> SUFFICES ASSUME NEW i \in 1..(n - 1)
                 PROVE  Dependencies(stack'[i].node) \ (stack'[i].left \cup Entered(i)')
                          \subseteq Colored("black")'
      BY <1>2, <1>5
    <3>1. Dependencies(stack[i].node) \ (stack[i].left \cup Entered(i)) \subseteq Colored("black")
      BY <1>6, <2>1
    <3>2. Entered(i) \subseteq Entered(i)' \cup {top} /\ stack'[i] = stack[i]
      BY <1>5, <1>8
    <3> QED
      BY <1>7, <3>1, <3>2
  <2> QED
    BY <1>2, <1>7, <2>1, <2>3, <2>4, <2>5 DEF NothingMissed
<1> QED
  BY <1>1, <1>2, <1>9, <1>10 DEF SearchInv

-----------------------------------------------------------------------------
(* The whole check of the graph.                                           *)

Unvisited == color = [n \in {} |-> "white"] /\ stack = <<>>

Searched == "CYCLE" \in g_errors <=> ~Acyclic(Nodes)

GraphInv ==
  /\ manifest \in Manifests
  /\ g_phase \in {"load", "shape", "nodes", "layers"} => Unvisited /\ "CYCLE" \notin g_errors
  /\ g_phase \in {"layers", "visit", "done"} =>
       \/ NodeErrors = {}
       \/ g_errors # {}
  /\ g_phase \in {"visit", "done"} =>
       \/ LayerErrors = {}
       \/ g_errors # {}
  /\ g_phase = "visit" => SearchInv
  /\ g_phase = "done" => (Unvisited /\ "LOAD" \in g_errors) \/ Searched

\* Only the search itself reports a cycle.
LEMMA NoOtherCycle ==
  ASSUME manifest \in Manifests
  PROVE  "CYCLE" \notin NodeErrors \cup AttachmentErrors \cup ProfileErrors \cup LayerErrors
<1>1. "CYCLE" \notin NodeErrors
  <2>1. \A n \in Nodes : "CYCLE" \notin manifest.nodes[n].flaws
    BY ManifestsAssumption DEF Nodes
  <2> DEFINE required == {"REQUIRED" : n \in RequiredNodes \ Nodes}
             extra == {"EXTRA" : n \in Nodes \ RequiredNodes}
             duplicate == {"DUPLICATE" : n \in manifest.repeated}
             flaws == UNION {manifest.nodes[n].flaws : n \in Nodes}
             type == {"DEPENDS_TYPE" : n \in {m \in Nodes : DependsOn(m) = Null}}
             ref == {"DEPENDS_REF" :
                        n \in {m \in Nodes : DependsOn(m) # Null /\ ~DependsOn(m) \subseteq Nodes}}
             self == {"SELF_DEPENDENCY" :
                        n \in {m \in Nodes : DependsOn(m) # Null /\ m \in DependsOn(m)}}
  <2>2. NodeErrors = required \cup extra \cup duplicate \cup flaws \cup type \cup ref \cup self
    BY DEF NodeErrors
  <2>3. "CYCLE" \notin required
    OBVIOUS
  <2>4. "CYCLE" \notin extra
    OBVIOUS
  <2>5. "CYCLE" \notin duplicate
    OBVIOUS
  <2>6. "CYCLE" \notin flaws
    BY <2>1
  <2>7. "CYCLE" \notin type
    OBVIOUS
  <2>8. "CYCLE" \notin ref
    OBVIOUS
  <2>9. "CYCLE" \notin self
    OBVIOUS
  <2> HIDE DEF required, extra, duplicate, flaws, type, ref, self
  <2> QED
    BY <2>2, <2>3, <2>4, <2>5, <2>6, <2>7, <2>8, <2>9
<1>2. "CYCLE" \notin ProfileErrors
  <2>1. \A h \in Profiles : "CYCLE" \notin manifest.profiles[h].flaws
    BY ManifestsAssumption DEF Profiles
  <2> DEFINE flaws == UNION {manifest.profiles[h].flaws : h \in Profiles}
             target == {"TARGET" : h \in {p \in Profiles : Target(p) \notin Nodes \/ Target(p) = "Core"}}
             unattached == {"UNATTACHED" :
                        h \in {p \in Profiles : Target(p) \in Nodes /\ p \notin Attached(Target(p))}}
  <2>2. ProfileErrors = flaws \cup target \cup unattached
    BY DEF ProfileErrors
  <2>3. "CYCLE" \notin flaws
    BY <2>1
  <2>4. "CYCLE" \notin target
    OBVIOUS
  <2>5. "CYCLE" \notin unattached
    OBVIOUS
  <2> HIDE DEF flaws, target, unattached
  <2> QED
    BY <2>2, <2>3, <2>4, <2>5
<1>3. "CYCLE" \notin AttachmentErrors
  BY DEF AttachmentErrors
<1>4. "CYCLE" \notin LayerErrors
  BY DEF LayerErrors
<1> QED
  BY <1>1, <1>2, <1>3, <1>4

\* Before the first call nothing has been missed, and nothing found.
LEMMA SearchStarts ==
  ASSUME manifest' = manifest, color' = [n \in Nodes |-> "white"], stack' = <<>>,
         "CYCLE" \notin g_errors'
  PROVE  SearchInv'
<1>1. Nodes' = Nodes /\ Frame' = Frame
  BY DependenciesFixed
<1>2. Colored("black")' = {} /\ Colored("grey")' = {}
  BY <1>1 DEF Colored
<1>3. stack' \in Seq(Frame) /\ Len(stack') = 0 /\ 1..Len(stack') = {}
  OBVIOUS
<1>4. IsPath'
  BY <1>1, <1>2, <1>3 DEF IsPath
<1>5. Acyclic({})'
  BY DEF Acyclic
<1>6. NothingMissed'
  BY <1>2, <1>3, <1>5 DEF NothingMissed
<1> QED
  BY <1>4, <1>6 DEF SearchInv

\* When no node is white and no call is open, every node is finished.
LEMMA SearchEnds ==
  ASSUME SearchInv, stack = <<>>, \A n \in Nodes : color[n] # "white"
  PROVE  Searched
<1>1. Colored("grey") = {} /\ color \in [Nodes -> {"white", "grey", "black"}]
  BY DEF SearchInv, IsPath
<1>2. Colored("black") = Nodes
  BY <1>1 DEF Colored
<1> QED
  BY <1>2 DEF SearchInv, NothingMissed, Searched

\* The errors of the records are those found before the search.
LEMMA ErrorsFixed ==
  ASSUME manifest' = manifest
  PROVE  NodeErrors' = NodeErrors /\ LayerErrors' = LayerErrors
<1>1. Nodes' = Nodes /\ \A n : DependsOn(n)' = DependsOn(n)
  BY DEF Nodes, DependsOn
<1>2. NodeErrors' = NodeErrors
  BY <1>1 DEF NodeErrors
<1>3. /\ \A n : Listing(n)' = Listing(n) /\ Dependencies(n)' = Dependencies(n)
      /\ \A i : LayerNamed(i)' = LayerNamed(i)
  BY <1>1 DEF Listing, Dependencies, LayerNamed
<1>4. \A n : LayerOf(n)' = LayerOf(n)
  BY <1>3 DEF LayerOf
<1>5. \A n, dep : Forward(n, dep)' = Forward(n, dep)
  BY <1>3, <1>4 DEF Forward
<1>6. LayerErrors' = LayerErrors
  BY <1>1, <1>3, <1>5 DEF LayerErrors
<1> QED
  BY <1>2, <1>6

\* No step of the check breaks the invariant.
LEMMA GraphStep ==
  ASSUME GraphInv, GNext, manifest' = manifest
  PROVE  GraphInv'
<1>1. NodeErrors' = NodeErrors /\ LayerErrors' = LayerErrors
  BY ErrorsFixed
<1>2. manifest \in Manifests /\ manifest' \in Manifests
  BY DEF GraphInv
<1>3. "CYCLE" \notin NodeErrors \cup AttachmentErrors \cup ProfileErrors \cup LayerErrors
  BY <1>2, NoOtherCycle
<1>4. CASE Load
  BY <1>1, <1>2, <1>4 DEF Load, Enter, GraphInv, Unvisited
<1>5. CASE CheckShape
  BY <1>1, <1>2, <1>5 DEF CheckShape, Enter, GraphInv, Unvisited
<1>6. CASE CheckNodes
  BY <1>1, <1>2, <1>3, <1>6 DEF CheckNodes, Enter, GraphInv, Unvisited
<1>7. CASE CheckLayers
  <2>1. /\ g_phase = "layers" /\ stack = <<>> /\ "CYCLE" \notin g_errors
        /\ stack' = <<>> /\ color' = [n \in Nodes |-> "white"]
        /\ NodeErrors = {} \/ g_errors # {}
    BY <1>7 DEF CheckLayers, GraphInv, Unvisited
  <2>2. CASE g_phase' = "crashed"
    BY <1>2, <2>2 DEF GraphInv
  <2>3. CASE g_phase' = "visit" /\ g_errors' = g_errors \cup LayerErrors
    <3>1. "CYCLE" \notin g_errors'
      BY <1>3, <2>1, <2>3
    <3>2. SearchInv'
      BY <2>1, <3>1, SearchStarts
    <3> QED
      BY <1>1, <1>2, <2>1, <2>3, <3>2 DEF GraphInv
  <2> QED
    BY <1>7, <2>2, <2>3 DEF CheckLayers, Enter
<1>8. CASE Visit \/ FollowEdge \/ Return
  <2>1. g_phase = "visit" /\ g_phase' = "visit" /\ SearchInv
    BY <1>8 DEF Visit, FollowEdge, Return, GraphInv
  <2>2. SearchInv'
    BY <1>8, <2>1, VisitKeepsSearch, FollowEdgeKeepsSearch, ReturnKeepsSearch
  <2>3. g_errors \subseteq g_errors'
    BY <1>8 DEF Visit, FollowEdge, Return
  <2> QED
    BY <1>1, <1>2, <2>1, <2>2, <2>3 DEF GraphInv
<1>9. CASE CheckProfileBinding
  <2>1. /\ g_phase = "visit" /\ g_phase' = "done" /\ SearchInv
        /\ g_errors \subseteq g_errors' /\ ("CYCLE" \in g_errors' <=> "CYCLE" \in g_errors)
        /\ stack = <<>> /\ \A n \in Nodes : color[n] # "white"
    BY <1>9 DEF CheckProfileBinding, Enter, GraphInv
  <2>2. Searched
    BY <2>1, SearchEnds
  <2>3. Searched'
    <3>1. Nodes' = Nodes /\ \A ns : Acyclic(ns)' <=> Acyclic(ns)
      BY DependenciesFixed
    <3> QED
      BY <2>1, <2>2, <3>1 DEF Searched
  <2> QED
    BY <1>1, <1>2, <2>1, <2>3 DEF GraphInv
<1> QED
  BY <1>4, <1>5, <1>6, <1>7, <1>8, <1>9 DEF GNext

\* A job of any revision begins with a check that has not started.
LEMMA GraphStarts ==
  ASSUME manifest \in Manifests, Fresh
  PROVE  GraphInv
BY DEF Fresh, GraphInv, Unvisited

\* The whole workflow keeps what its first checker relies on.
LEMMA GraphAlways == Spec => []GraphInv
<1>1. Init => GraphInv
  BY GraphStarts DEF Init
<1>2. GraphInv /\ [Next]_w_vars => GraphInv'
  <2> SUFFICES ASSUME GraphInv, [Next]_w_vars PROVE GraphInv'
    OBVIOUS
  <2>1. CASE UNCHANGED <<manifest, g_vars>>
    <3>1. NodeErrors' = NodeErrors /\ LayerErrors' = LayerErrors
      BY <2>1, ErrorsFixed
    <3>2. /\ Nodes' = Nodes /\ Frame' = Frame /\ \A n : Dependencies(n)' = Dependencies(n)
          /\ \A ns : Acyclic(ns)' <=> Acyclic(ns)
      BY <2>1, DependenciesFixed
    <3>3. /\ \A c : Colored(c)' = Colored(c)
          /\ \A i : Entered(i)' = Entered(i)
      BY <2>1, <3>2 DEF g_vars, Colored, Entered
    <3>4. SearchInv' <=> SearchInv
      BY <2>1, <3>2, <3>3 DEF g_vars, SearchInv, IsPath, NothingMissed
    <3>5. (Unvisited' <=> Unvisited) /\ (Searched' <=> Searched)
      BY <2>1, <3>2 DEF g_vars, Unvisited, Searched
    <3> QED
      BY <2>1, <3>1, <3>4, <3>5 DEF g_vars, GraphInv
  <2>2. CASE RunGraphCheck
    <3>1. CASE GNext /\ manifest' = manifest
      BY <3>1, GraphStep
    <3>2. CASE UNCHANGED <<manifest, g_vars>>
      BY <2>1, <3>2
    <3> QED
      BY <2>2, <3>1, <3>2 DEF RunGraphCheck
  <2>3. CASE NextJob
    <3>1. manifest' \in Manifests /\ Fresh'
      BY <2>3 DEF NextJob, Fresh
    <3> QED
      BY <3>1 DEF Fresh, GraphInv, Unvisited
  <2>4. CASE Prepare
    BY <2>1, <2>4 DEF Prepare
  <2>5. CASE RunChecker
    BY <2>1, <2>5 DEF RunChecker
  <2>6. CASE RunAggregate
    BY <2>1, <2>6 DEF RunAggregate
  <2>7. CASE UNCHANGED w_vars
    BY <2>1, <2>7 DEF w_vars
  <2> QED
    BY <2>2, <2>3, <2>4, <2>5, <2>6, <2>7 DEF Next
<1> QED
  BY <1>1, <1>2, PTL DEF Spec

\* The search of check_acyclic reports a cycle if and only if the graph of the
\* manifest has one, whatever graph it is and in whatever order it is taken up.
THEOREM SearchIsExact == Spec => []CyclesAreFound
<1>1. GraphInv => CyclesAreFound
  BY DEF GraphInv, CyclesAreFound, Unvisited, Searched
<1> QED
  BY <1>1, GraphAlways, PTL

-----------------------------------------------------------------------------
(* The job.                                                                *)

StepFiles == {FileName(Steps[i]) : i \in 1..LastStep}

\* What the i-th step has printed is what its file holds.
Recorded(i) ==
  /\ Steps[i] \in DOMAIN printed
  /\ directory => /\ FileName(Steps[i]) \in DOMAIN reports
                  /\ reports[FileName(Steps[i])] = printed[Steps[i]]

JobInv ==
  /\ step \in 0..(LastStep + 2)
  /\ DOMAIN reports \subseteq StepFiles
  /\ \A i \in 1..LastStep : i < step => Recorded(i)
  /\ step > 1 =>
       /\ g_phase \in {"done", "crashed"}
       /\ printed["M0-A1"] = GraphOutcome.report
  /\ aggregate # "none" => step = LastStep + 2 /\ aggregate = Overall

\* The steps are numbered, and each has an id and a file of its own.
LEMMA StepsAreDistinct ==
  /\ LastStep \in Nat \ {0} /\ DOMAIN Steps = 1..LastStep /\ Steps[1] = "M0-A1"
  /\ \A i, j \in 1..LastStep : Steps[i] = Steps[j] => i = j
  /\ \A i, j \in 1..LastStep : FileName(Steps[i]) = FileName(Steps[j]) => i = j
  /\ \A i \in 1..LastStep : Steps[i] \in Ids
<1>1. /\ LastStep \in Nat \ {0} /\ DOMAIN Steps = 1..LastStep /\ Steps[1] = "M0-A1"
      /\ \A i, j \in 1..LastStep : Steps[i] = Steps[j] => i = j
  BY StepsAssumption DEF LastStep
<1>2. \A i \in 1..LastStep : Steps[i] \in Ids
  BY <1>1 DEF Ids
<1> QED
  BY <1>1, <1>2, FileNameAssumption

\* A step that prints adds its own record and leaves those before it alone.
LEMMA PrintedRecords ==
  ASSUME JobInv, step \in 1..LastStep, directory' = directory,
         NEW outcome, Printed(Steps[step], outcome)
  PROVE  /\ step' = step + 1
         /\ DOMAIN reports' \subseteq StepFiles
         /\ printed'[Steps[step]] = outcome.report
         /\ \A i \in 1..LastStep : i < step' => Recorded(i)'
         /\ \A i \in 1..LastStep : i < step => printed'[Steps[i]] = printed[Steps[i]]
<1>n. PICK n, name : n = step /\ name = FileName(Steps[n])
  OBVIOUS
<1>1. /\ n \in 1..LastStep /\ LastStep \in Nat
      /\ \A i \in 1..LastStep : Steps[i] = Steps[n] => i = n
      /\ \A i \in 1..LastStep : FileName(Steps[i]) = name => i = n
  BY <1>n, StepsAreDistinct
<1>2. /\ printed' = Put(printed, Steps[n], outcome.report)
      /\ reports' = IF directory THEN Put(reports, name, outcome.report) ELSE reports
      /\ step' = n + 1
  BY <1>n DEF Printed
<1>3. /\ DOMAIN printed' = DOMAIN printed \cup {Steps[n]}
      /\ printed'[Steps[n]] = outcome.report
      /\ \A c \in DOMAIN printed : c # Steps[n] => printed'[c] = printed[c]
  BY <1>2 DEF Put
<1>4. directory => /\ DOMAIN reports' = DOMAIN reports \cup {name}
                   /\ reports'[name] = outcome.report
                   /\ \A f \in DOMAIN reports : f # name => reports'[f] = reports[f]
  BY <1>2 DEF Put
<1>5. DOMAIN reports' \subseteq StepFiles
  BY <1>1, <1>2, <1>4, <1>n DEF JobInv, StepFiles
<1>6. ASSUME NEW i \in 1..LastStep, i < n
      PROVE  Recorded(i)' /\ printed'[Steps[i]] = printed[Steps[i]]
  <2>1. Recorded(i) /\ i # n
    BY <1>1, <1>6, <1>n DEF JobInv
  <2>2. Steps[i] # Steps[n] /\ FileName(Steps[i]) # name
    BY <1>1, <2>1
  <2> QED
    BY <1>3, <1>4, <2>1, <2>2 DEF Recorded
<1>7. Recorded(n)'
  BY <1>3, <1>4, <1>n DEF Recorded
<1>8. ASSUME NEW i \in 1..LastStep, i < n + 1 PROVE Recorded(i)'
  <2>1. i < n \/ i = n
    BY <1>1, <1>8
  <2> QED
    BY <1>6, <1>7, <2>1
<1> QED
  BY <1>2, <1>3, <1>5, <1>6, <1>8, <1>n

\* No step of the workflow breaks the invariant.
LEMMA JobStep ==
  ASSUME JobInv, [Next]_w_vars
  PROVE  JobInv'
<1>1. LastStep \in Nat \ {0} /\ step \in Nat /\ 1 \in 1..LastStep /\ Steps[1] = "M0-A1"
  BY StepsAreDistinct DEF JobInv
<1>2. CASE Prepare
  <2>1. step = 0 /\ step' = 1 /\ reports' = reports /\ aggregate' = aggregate
    BY <1>2 DEF Prepare
  <2>2. aggregate' = "none"
    BY <1>1, <2>1 DEF JobInv
  <2>3. 1 \in 0..(LastStep + 2) /\ \A i \in 1..LastStep : ~(i < 1)
    BY <1>1
  <2> QED
    BY <2>1, <2>2, <2>3 DEF JobInv
<1>3. CASE RunGraphCheck
  <2>1. CASE GNext /\ UNCHANGED <<reports, failed, step, printed>>
    <3>1. /\ step' = 1 /\ reports' = reports /\ printed' = printed
          /\ directory' = directory /\ aggregate' = aggregate
      BY <1>3, <2>1 DEF RunGraphCheck
    <3>2. \A i : Recorded(i)' <=> Recorded(i)
      BY <3>1 DEF Recorded
    <3>3. aggregate' = "none"
      BY <1>1, <1>3, <3>1 DEF RunGraphCheck, JobInv
    <3> QED
      BY <1>1, <1>3, <3>1, <3>2, <3>3 DEF JobInv, RunGraphCheck
  <2>2. CASE /\ g_phase \in {"done", "crashed"}
             /\ Printed("M0-A1", GraphOutcome)
             /\ UNCHANGED g_vars
    <3>1. step = 1 /\ directory' = directory /\ aggregate' = "none"
      BY <1>1, <1>3 DEF RunGraphCheck, JobInv
    <3>2. Printed(Steps[step], GraphOutcome) /\ step \in 1..LastStep
      BY <1>1, <2>2, <3>1
    <3>3. /\ step' = 2 /\ DOMAIN reports' \subseteq StepFiles
          /\ printed'["M0-A1"] = GraphOutcome.report
          /\ \A i \in 1..LastStep : i < step' => Recorded(i)'
      BY <1>1, <3>1, <3>2, PrintedRecords
    <3>4. g_phase' = g_phase /\ GraphOutcome' = GraphOutcome
      BY <2>2 DEF g_vars, GraphOutcome, GConformant
    <3> QED
      BY <1>1, <2>2, <3>1, <3>3, <3>4 DEF JobInv
  <2> QED
    BY <1>3, <2>1, <2>2 DEF RunGraphCheck
<1>4. CASE RunChecker
  <2>1. PICK outcome : Printed(Steps[step], outcome)
    BY <1>4 DEF RunChecker
  <2>2. /\ step \in 2..LastStep /\ step \in 1..LastStep /\ step > 1 /\ 1 < step
        /\ directory' = directory /\ aggregate' = "none" /\ g_phase' = g_phase
        /\ GraphOutcome' = GraphOutcome
    BY <1>1, <1>4 DEF RunChecker, JobInv, g_vars, GraphOutcome, GConformant
  <2>3. /\ step' = step + 1 /\ DOMAIN reports' \subseteq StepFiles
        /\ \A i \in 1..LastStep : i < step' => Recorded(i)'
        /\ printed'["M0-A1"] = printed["M0-A1"]
    BY <1>1, <2>1, <2>2, PrintedRecords
  <2> QED
    BY <1>1, <2>2, <2>3 DEF JobInv
<1>5. CASE RunAggregate
  <2>1. /\ step = LastStep + 1 /\ step' = LastStep + 2 /\ aggregate' = Overall
        /\ UNCHANGED <<manifest, g_vars, directory, reports, printed>>
    BY <1>1, <1>5 DEF RunAggregate
  <2>2. Overall' = Overall
    BY <2>1 DEF Overall, AggregateFindings, GraphFindings, ResultFindings, Classes, Components,
                Present, Report, ExpectedIds, RepeatedIds
  <2>3. \A i : Recorded(i)' <=> Recorded(i)
    BY <2>1 DEF Recorded
  <2>4. g_phase' = g_phase /\ GraphOutcome' = GraphOutcome
    BY <2>1 DEF g_vars, GraphOutcome, GConformant
  <2>5. \A i \in 1..LastStep : i < step
    BY <1>1, <2>1
  <2> QED
    BY <1>1, <2>1, <2>2, <2>3, <2>4, <2>5 DEF JobInv
<1>6. CASE NextJob
  <2>1. /\ step' = 0 /\ aggregate' = "none"
        /\ reports' = reports \/ reports' = [name \in {} |-> Unreadable]
    BY <1>6 DEF NextJob
  <2> QED
    BY <1>1, <2>1 DEF JobInv
<1>7. CASE UNCHANGED w_vars
  <2>1. UNCHANGED <<manifest, g_vars, directory, reports, printed, aggregate, step>>
    BY <1>7 DEF w_vars
  <2>2. Overall' = Overall
    BY <2>1 DEF Overall, AggregateFindings, GraphFindings, ResultFindings, Classes, Components,
                Present, Report, ExpectedIds, RepeatedIds
  <2>3. \A i : Recorded(i)' <=> Recorded(i)
    BY <2>1 DEF Recorded
  <2>4. g_phase' = g_phase /\ GraphOutcome' = GraphOutcome
    BY <2>1 DEF g_vars, GraphOutcome, GConformant
  <2> QED
    BY <2>1, <2>2, <2>3, <2>4 DEF JobInv
<1> QED
  BY <1>2, <1>3, <1>4, <1>5, <1>6, <1>7 DEF Next

\* So every state of every job satisfies it.
LEMMA JobAlways == Spec => []JobInv
<1>1. Init => JobInv
  <2> SUFFICES ASSUME Init PROVE JobInv
    OBVIOUS
  <2>1. step = 0 /\ aggregate = "none" /\ DOMAIN reports = {}
    BY DEF Init
  <2>2. 0 \in 0..(LastStep + 2) /\ \A i \in 1..LastStep : ~(i < 0)
    BY StepsAreDistinct
  <2> QED
    BY <2>1, <2>2 DEF JobInv
<1>2. JobInv /\ [Next]_w_vars => JobInv'
  BY JobStep
<1> QED
  BY <1>1, <1>2, PTL DEF Spec

-----------------------------------------------------------------------------
(* The aggregate.                                                          *)

\* A report has a first carrier if it has one at all.
LEMMA PrimaryIsCarrier ==
  ASSUME NEW report, Carriers(report) # {}
  PROVE  Primary(report) \in Carriers(report)
<1>1. Carriers(report) \subseteq 1..4
  BY DEF Carriers, ResultFields
<1>2. \E f \in Carriers(report) : \A g \in Carriers(report) : f <= g
  <2>1. CASE 1 \in Carriers(report)
    BY <1>1, <2>1
  <2>2. CASE 1 \notin Carriers(report) /\ 2 \in Carriers(report)
    BY <1>1, <2>2
  <2>3. CASE 1 \notin Carriers(report) /\ 2 \notin Carriers(report) /\ 3 \in Carriers(report)
    BY <1>1, <2>3
  <2>4. CASE Carriers(report) \subseteq {4}
    BY <1>1, <2>4
  <2> QED
    BY <1>1, <2>1, <2>2, <2>3, <2>4
<1> QED
  BY <1>2 DEF Primary

\* A report without findings whose class is neither a failure nor incomplete
\* passes.
LEMMA CleanReportPasses ==
  ASSUME NEW report, report.readable, ReportFindings(report) = {},
         Classification(report) \notin {"fail", "unsupported", "incomplete"}
  PROVE  Passes(report)
<1>1. report.named /\ Carriers(report) # {} /\ ~Hides(report)
  BY DEF ReportFindings
<1>2. Primary(report) \in Carriers(report)
  BY <1>1, PrimaryIsCarrier
<1>3. Classification(report) = Carried(report, Primary(report))
  BY <1>1 DEF Classification
<1>4. report.carriers[ResultFields[Primary(report)]] \in Passing
  BY <1>3 DEF Carried, Classify, Passing
<1>5. \A f \in Carriers(report) : Carried(report, f) # "fail"
  BY <1>1 DEF Hides
<1>6. \A f \in Carriers(report) : report.carriers[ResultFields[f]] # "non-conformant"
  BY <1>5 DEF Carried, Classify
<1> QED
  BY <1>1, <1>4, <1>6 DEF Passes

\* The ids the graph names are among the ids of the revisions.
LEMMA ExpectedAreIds ==
  ASSUME manifest \in Manifests
  PROVE  ExpectedIds \subseteq Ids
BY DEF ExpectedIds, Checked, Ids

\* A file of this job's directory that a component of the graph owns was
\* written by the step of that component, in this job.
LEMMA OwnedFile ==
  ASSUME JobInv, manifest \in Manifests, directory, step = LastStep + 2,
         NEW id \in ExpectedIds, FileName(id) \in DOMAIN reports
  PROVE  /\ id \in DOMAIN printed /\ Report(id) = printed[id]
<1>1. PICK i \in 1..LastStep : FileName(id) = FileName(Steps[i])
  BY DEF JobInv, StepFiles
<1>2. id = Steps[i]
  BY <1>1, StepsAreDistinct, ExpectedAreIds, FileNameAssumption
<1>3. i < step
  BY <1>1, StepsAreDistinct
<1>4. Recorded(i)
  BY <1>1, <1>3 DEF JobInv
<1> QED
  BY <1>2, <1>4 DEF Recorded, Report

\* The check of the graph reports conformance only if nothing was found.
LEMMA GraphReportPasses ==
  ASSUME Passes(GraphOutcome.report)
  PROVE  GConformant
<1> SUFFICES ASSUME ~GConformant PROVE FALSE
  OBVIOUS
<1>1. g_phase # "crashed"
  BY DEF Passes, GraphOutcome, Unreadable
<1>2. GraphOutcome.report =
        [readable |-> TRUE, named |-> TRUE,
         carriers |-> [structural_result |-> "non-conformant"]]
  BY <1>1 DEF GraphOutcome
<1>3. 2 \in Carriers(GraphOutcome.report) /\ ResultFields[2] = "structural_result"
  BY <1>2 DEF Carriers, ResultFields
<1> QED
  BY <1>2, <1>3 DEF Passes

\* A graph without findings is acyclic, layered and complete.
LEMMA CleanGraphIsOrdered ==
  ASSUME GraphInv, GConformant
  PROVE  RequiredNodes \subseteq Nodes /\ Ordered
<1>1. g_phase = "done" /\ g_errors = {}
  BY DEF GConformant
<1>2. NodeErrors = {} /\ LayerErrors = {} /\ Searched
  BY <1>1 DEF GraphInv
<1>3. Acyclic(Nodes)
  BY <1>1, <1>2 DEF Searched
<1>4. \A n \in RequiredNodes \ Nodes : "REQUIRED" \in NodeErrors
  BY DEF NodeErrors
<1>5. \A n \in Nodes : Listing(n) = {} => "UNLAYERED" \in LayerErrors
  BY DEF LayerErrors
<1>6. \A n \in Nodes : \A dep \in Dependencies(n) :
        Forward(n, dep) => "FORWARD_DEPENDENCY" \in LayerErrors
  BY DEF LayerErrors
<1> QED
  BY <1>2, <1>3, <1>4, <1>5, <1>6 DEF Ordered

\* A passing aggregate has seen no finding and no class but pass and qualified.
LEMMA PassingOverall ==
  ASSUME Overall \in Passing
  PROVE  /\ directory
         /\ DOMAIN reports \subseteq {FileName(id) : id \in ExpectedIds}
         /\ \A id \in ExpectedIds :
              /\ FileName(id) \in DOMAIN reports
              /\ Report(id).readable /\ ReportFindings(Report(id)) = {}
              /\ Classification(Report(id)) \notin {"fail", "unsupported", "incomplete"}
<1>1. /\ AggregateFindings = {} /\ "incomplete" \notin Classes
      /\ Classes \cap {"fail", "unsupported"} = {}
  BY DEF Overall, Passing
<1>2. ResultFindings = {}
  BY <1>1 DEF AggregateFindings
<1>3. directory
  BY <1>2 DEF ResultFindings
<1>4. /\ DOMAIN reports \ {FileName(id) : id \in ExpectedIds} = {}
      /\ ExpectedIds \ Present = {} /\ Present \ Components = {}
      /\ UNION {ReportFindings(Report(id)) : id \in Components} = {}
  BY <1>2, <1>3 DEF ResultFindings
<1>5. \A id \in ExpectedIds : id \in Present /\ id \in Components
  BY <1>4
<1>6. \A id \in ExpectedIds : ReportFindings(Report(id)) = {}
  BY <1>4, <1>5
<1>7. \A id \in ExpectedIds : Classification(Report(id)) \in Classes
  BY <1>3, <1>5 DEF Classes
<1>8. \A id \in ExpectedIds : FileName(id) \in DOMAIN reports /\ Report(id).readable
  BY <1>5 DEF Present, Components
<1> QED
  BY <1>1, <1>3, <1>4, <1>6, <1>7, <1>8

\* A passing aggregate is the word of this job, on this revision: everything
\* the graph names and every checker the workflow ran has passed in it, and
\* the graph is in order; for any revisions, jobs, steps and components.
THEOREM PassingIsEarned == Spec => []VerdictIsEarned
<1>1. GraphInv /\ JobInv => VerdictIsEarned
  <2> SUFFICES ASSUME GraphInv, JobInv, aggregate \in Passing
               PROVE  /\ \A c \in ExpectedIds \cup {Steps[i] : i \in DOMAIN Steps} :
                           c \in DOMAIN printed /\ Passes(printed[c])
                      /\ RequiredNodes \subseteq Nodes /\ Ordered
    BY DEF VerdictIsEarned
  <2>1. step = LastStep + 2 /\ Overall \in Passing /\ manifest \in Manifests
    BY DEF JobInv, Passing, GraphInv
  <2>2. ASSUME NEW c \in ExpectedIds PROVE c \in DOMAIN printed /\ Passes(printed[c])
    <3>1. /\ directory /\ FileName(c) \in DOMAIN reports
          /\ Report(c).readable /\ ReportFindings(Report(c)) = {}
          /\ Classification(Report(c)) \notin {"fail", "unsupported", "incomplete"}
      BY <2>1, PassingOverall
    <3>2. c \in DOMAIN printed /\ Report(c) = printed[c]
      BY <2>1, <3>1, OwnedFile
    <3>3. Passes(Report(c))
      BY <3>1, CleanReportPasses
    <3> QED
      BY <3>2, <3>3
  <2>3. ASSUME NEW i \in DOMAIN Steps PROVE Steps[i] \in ExpectedIds
    <3>1. i \in 1..LastStep /\ i < step
      BY <2>1, StepsAreDistinct
    <3>2. FileName(Steps[i]) \in DOMAIN reports
      BY <2>1, <3>1, PassingOverall DEF JobInv, Recorded
    <3>3. PICK id \in ExpectedIds : FileName(id) = FileName(Steps[i])
      BY <2>1, <3>2, PassingOverall
    <3> QED
      BY <2>1, <3>1, <3>3, StepsAreDistinct, ExpectedAreIds, FileNameAssumption
  <2>4. "M0-A1" \in ExpectedIds /\ step > 1
    BY <2>1, StepsAreDistinct DEF ExpectedIds
  <2>5. GConformant
    BY <2>2, <2>4, GraphReportPasses DEF JobInv
  <2> QED
    BY <2>2, <2>3, <2>5, CleanGraphIsOrdered
<1> QED
  BY <1>1, GraphAlways, JobAlways, PTL

\* A missing or unparsable report is no proven failure: a non-conformant
\* aggregate has its reason in the reports of this job, in the graph or in a
\* file that nobody owns.
THEOREM FailureHasAReason == Spec => []MissingIsNotFailure
<1>1. GraphInv /\ JobInv => MissingIsNotFailure
  <2> DEFINE Fails(report) ==
        \/ ReportFindings(report) # {}
        \/ "non-conformant" \in {report.carriers[f] : f \in DOMAIN report.carriers}
  <2> SUFFICES ASSUME GraphInv, JobInv, aggregate = "non-conformant",
                      manifest.file = "object", RepeatedIds = {},
                      DOMAIN reports \ {FileName(id) : id \in ExpectedIds} = {}
               PROVE  \E c \in DOMAIN printed : printed[c].readable /\ Fails(printed[c])
    BY DEF MissingIsNotFailure
  <2>1. step = LastStep + 2 /\ Overall = "non-conformant" /\ manifest \in Manifests
    BY DEF JobInv, GraphInv
  <2>2. \A id \in Components : directory => id \in DOMAIN printed /\ Report(id) = printed[id]
    BY <2>1, OwnedFile DEF Components, Present
  <2>3. \A id \in Components : Report(id).readable
    BY DEF Components
  <2>4. SUFFICES directory /\ \E id \in Components : Fails(Report(id))
    BY <2>2, <2>3
  <2> HIDE DEF Fails
  <2>5. GraphFindings = {}
    BY DEF GraphFindings
  <2>6. CASE ~AggregateFindings \subseteq CoverageCodes
    <3>1. ~ResultFindings \subseteq CoverageCodes
      BY <2>5, <2>6 DEF AggregateFindings
    <3>2. directory
      BY <3>1 DEF ResultFindings, CoverageCodes
    <3>3. UNION {ReportFindings(Report(id)) : id \in Components} # {}
      BY <3>1, <3>2 DEF ResultFindings, CoverageCodes
    <3>4. \E id \in Components : ReportFindings(Report(id)) # {}
      BY <3>3
    <3> QED
      BY <3>2, <3>4 DEF Fails
  <2>7. CASE Classes \cap {"fail", "unsupported"} # {}
    <3>1. directory /\ \E id \in Components : Classification(Report(id)) \in {"fail", "unsupported"}
      BY <2>7 DEF Classes
    <3>2. ASSUME NEW report, Classification(report) \in {"fail", "unsupported"}
          PROVE  Fails(report)
      <4>1. CASE Carriers(report) = {}
        BY <4>1 DEF Fails, ReportFindings
      <4>2. CASE Carriers(report) # {}
        <5>1. /\ Primary(report) \in Carriers(report)
              /\ Carried(report, Primary(report)) \in {"fail", "unsupported"}
          BY <3>2, <4>2, PrimaryIsCarrier DEF Classification
        <5>2. CASE Carried(report, Primary(report)) = "unsupported"
          <6>1. "RESULT.VALUE" \in ReportFindings(report)
            BY <5>1, <5>2 DEF ReportFindings
          <6> QED
            BY <6>1 DEF Fails
        <5>3. CASE Carried(report, Primary(report)) = "fail"
          <6>1. report.carriers[ResultFields[Primary(report)]] = "non-conformant"
            BY <5>3 DEF Carried, Classify
          <6>2. ResultFields[Primary(report)] \in DOMAIN report.carriers
            BY <5>1 DEF Carriers
          <6> QED
            BY <6>1, <6>2 DEF Fails
        <5> QED
          BY <5>1, <5>2, <5>3
      <4> QED
        BY <4>1, <4>2
    <3> QED
      BY <3>1, <3>2
  <2> QED
    BY <2>1, <2>6, <2>7 DEF Overall
<1> QED
  BY <1>1, GraphAlways, JobAlways, PTL
=============================================================================
