------------------------------ MODULE NaturalFacts ------------------------------
(***************************************************************************)
(* Facts about the natural numbers that the proofs about the checkers      *)
(* share: least and greatest elements, induction over sets, and sequences  *)
(* of iterates, from the well-foundedness of <.                            *)
(***************************************************************************)
EXTENDS Integers, WellFoundedInduction, TLAPS

Below == {e \in Nat \X Nat : e[1] < e[2]}

\* Less-than among the natural numbers, as a set of pairs.
LEMMA BelowWellFounded == IsWellFoundedOn(Below, Nat)
<1>1. IsWellFoundedOn(OpToRel(<, Nat), Nat)
  BY NatLessThanWellFounded
<1>2. Below = OpToRel(<, Nat)
  BY Zenon DEF Below, OpToRel
<1> QED
  BY <1>1, <1>2, Zenon

\* Of some natural numbers one is the least.
LEMMA LeastElement ==
  ASSUME NEW T \in SUBSET Nat, T # {}
  PROVE  \E n \in T : \A m \in T : n <= m
<1>1. PICK n \in T : \A m \in T : ~(<<m, n>> \in Below)
  BY BelowWellFounded, WFMin, Zenon
<1>2. \A m \in T : <<m, n>> \in Below <=> m < n
  BY SMT DEF Below
<1>3. \A m \in T : ~(m < n)
  BY <1>1, <1>2, Zenon
<1>4. \A m \in T : m \in Nat /\ n \in Nat
  OBVIOUS
<1> QED
  BY <1>3, <1>4

\* Of some indices of a list one is the last.
LEMMA GreatestIndex ==
  ASSUME NEW n \in Nat, NEW T \in SUBSET (1..n), T # {}
  PROVE  \E i \in T : \A j \in T : j <= i
<1> DEFINE Left == {n - i : i \in T}
<1>1. Left \in SUBSET Nat /\ Left # {}
  <2>1. \A i \in T : n - i \in Nat
    OBVIOUS
  <2>2. PICK i \in T : TRUE
    OBVIOUS
  <2>3. n - i \in Left
    OBVIOUS
  <2> QED
    BY <2>1, <2>3
<1>2. PICK x \in Left : \A y \in Left : x <= y
  <2> HIDE DEF Left
  <2> QED
    BY <1>1, LeastElement, Zenon
<1>3. PICK i \in T : x = n - i
  BY <1>2
<1>4. ASSUME NEW j \in T PROVE j <= i
  <2>1. x <= n - j
    BY <1>2
  <2> QED
    BY <1>3, <2>1
<1> QED
  BY <1>4

\* Induction: a set that has 0 and with a number the next has every number.
LEMMA SetInduction ==
  ASSUME NEW S, 0 \in S, \A n \in Nat : n \in S => n + 1 \in S
  PROVE  \A n \in Nat : n \in S
<1> DEFINE Left == {n \in Nat : n \notin S}
<1>1. SUFFICES ASSUME Left # {} PROVE FALSE
  OBVIOUS
<1>2. Left \in SUBSET Nat
  OBVIOUS
<1>3. PICK n \in Left : \A m \in Left : n <= m
  <2> HIDE DEF Left
  <2> QED
    BY <1>1, <1>2, LeastElement, Zenon
<1>4. n \in Nat /\ n # 0 /\ n - 1 \in Nat
  OBVIOUS
<1>5. n - 1 \in S
  BY <1>3, <1>4
<1>6. (n - 1) + 1 \in S
  BY <1>4, <1>5
<1> QED
  BY <1>4, <1>6

\* The sequences of n applications of step to c.
Iterates(C, c, step, n) ==
  {g \in [0..n -> C] : g[0] = c /\ \A i \in 0..(n - 1) : g[i + 1] = step[g[i]]}

\* The longer of two runs of iterates goes on where the shorter ends.
LEMMA IteratesAgree ==
  ASSUME NEW C, NEW c, NEW step, NEW m \in Nat, NEW n \in Nat, m <= n,
         NEW g \in Iterates(C, c, step, m), NEW h \in Iterates(C, c, step, n)
  PROVE  \A i \in 0..m : g[i] = h[i]
<1> DEFINE S == {i \in Nat : i \in 0..m => g[i] = h[i]}
<1>1. 0 \in S
  BY DEF Iterates
<1>2. ASSUME NEW i \in Nat, i \in S PROVE i + 1 \in S
  <2> SUFFICES ASSUME i + 1 \in 0..m PROVE g[i + 1] = h[i + 1]
    OBVIOUS
  <2>1. i \in 0..(m - 1) /\ i \in 0..(n - 1) /\ i \in 0..m
    OBVIOUS
  <2>2. g[i] = h[i]
    BY <1>2, <2>1
  <2> QED
    BY <2>1, <2>2 DEF Iterates
<1>3. \A i \in Nat : i \in S
  <2> HIDE DEF S
  <2> QED
    BY <1>1, <1>2, SetInduction
<1> QED
  BY <1>3

\* There are runs of iterates of every length.
LEMMA IteratesExist ==
  ASSUME NEW C, NEW c \in C, NEW step \in [C -> C]
  PROVE  \A n \in Nat : \E g : g \in Iterates(C, c, step, n)
<1> DEFINE S == {n \in Nat : \E g : g \in Iterates(C, c, step, n)}
<1>1. 0 \in S
  <2> DEFINE g == [i \in 0..0 |-> c]
  <2>1. g \in Iterates(C, c, step, 0)
    BY DEF Iterates
  <2> QED
    BY <2>1
<1>2. ASSUME NEW n \in Nat, n \in S PROVE n + 1 \in S
  <2>1. PICK g : g \in Iterates(C, c, step, n)
    BY <1>2
  <2> DEFINE h == [i \in 0..(n + 1) |-> IF i <= n THEN g[i] ELSE step[g[n]]]
  <2>2. g \in [0..n -> C] /\ g[0] = c /\ \A i \in 0..(n - 1) : g[i + 1] = step[g[i]]
    BY <2>1 DEF Iterates
  <2>3. h \in [0..(n + 1) -> C] /\ h[0] = c
    BY <2>2
  <2>4. ASSUME NEW i \in 0..((n + 1) - 1) PROVE h[i + 1] = step[h[i]]
    <3>1. CASE i = n
      BY <3>1
    <3>2. CASE i # n
      <4>1. i \in 0..(n - 1) /\ i + 1 <= n /\ i <= n
        BY <3>2
      <4> QED
        BY <2>2, <4>1
    <3> QED
      BY <3>1, <3>2
  <2>5. h \in Iterates(C, c, step, n + 1)
    <3> HIDE DEF h
    <3> QED
      BY <2>3, <2>4 DEF Iterates
  <2> QED
    BY <2>5
<1> HIDE DEF S
<1>3. \A n \in Nat : n \in S
  BY <1>1, <1>2, SetInduction
<1> QED
  BY <1>3 DEF S

\* What a function of the natural numbers defined by its value at 0 and a step
\* rests on: there is one.
LEMMA RecursionExists ==
  ASSUME NEW C, NEW c \in C, NEW step \in [C -> C]
  PROVE  \E f \in [Nat -> C] : f[0] = c /\ \A n \in Nat : f[n + 1] = step[f[n]]
<1> DEFINE At(n) == CHOOSE g : g \in Iterates(C, c, step, n)
           f == [n \in Nat |-> At(n)[n]]
<1>1. \A n \in Nat : At(n) \in Iterates(C, c, step, n)
  BY IteratesExist
<1> HIDE DEF At
<1>2. f \in [Nat -> C] /\ f[0] = c
  BY <1>1 DEF Iterates
<1>3. ASSUME NEW n \in Nat PROVE f[n + 1] = step[f[n]]
  <2>1. At(n + 1)[n + 1] = step[At(n + 1)[n]]
    BY <1>1 DEF Iterates
  <2>2. At(n) \in Iterates(C, c, step, n) /\ At(n + 1) \in Iterates(C, c, step, n + 1)
    BY <1>1
  <2>3. \A i \in 0..n : At(n)[i] = At(n + 1)[i]
    BY <2>2, IteratesAgree, n + 1 \in Nat, n <= n + 1
  <2> QED
    BY <2>1, <2>3
<1> QED
  BY <1>2, <1>3
==============================================================================
