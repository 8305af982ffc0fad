------------------------------ MODULE HistoryTrees ------------------------------
(***************************************************************************)
(* The trees behind the roots of E5: which leaves a root has, from left to *)
(* right.  A job of HistoryChain never looks at them; E5's hashes do.      *)
(***************************************************************************)
EXTENDS HistoryChain

RECURSIVE Leaves(_), LeafAt(_, _, _)

\* What is not a node is a leaf, or a hash of something.
Leaves(tree) ==
  CASE tree[1] = "node" -> Leaves(tree[2]) \o Leaves(tree[3])
    [] tree[1] = "empty" -> <<>>
    [] OTHER -> <<tree>>

\* The leaf of this index in a tree over so many leaves.
LeafAt(tree, size, index) ==
  LET left == E5!largest_power_two_less_than(size)
  IN  IF size = 1 THEN tree
      ELSE IF tree[1] # "node" THEN E5!NoHash
      ELSE IF index < left THEN LeafAt(tree[2], left, index)
      ELSE LeafAt(tree[3], size - left, index - left)

\* merkle_root commits to a sequence of payloads, in its order: up to MaxLeaves
\* payloads, told apart by their places.
MaxLeaves == 16

ASSUME RootCommitsToPayloads ==
  \A size \in 0 .. MaxLeaves :
    LET root == E5!merkle_root([n \in 1 .. size |-> n])
        leaves == [n \in 1 .. size |-> E5!leaf_hash(n)]
    IN  /\ Leaves(root) = leaves
        /\ \A n \in 1 .. size : LeafAt(root, size, n - 1) = leaves[n]

-----------------------------------------------------------------------------
(* Property. *)

\* "A path that yields the root but refers to a different log, index, or
\* checkpoint is not a valid proof for the claimed relation"
\* (extensions/E5-TRANSPARENCY-WITNESSING-APPEND-ONLY-TRUST-HISTORY.md:273): an
\* accepted inclusion proof has its entry at the entry's own index.
IncludedAtItsIndex ==
  E5!Conformant =>
    \A i \in DOMAIN E5!Inclusions :
      LET entry == E5!Entries[E5!Inclusions[i].entry]
          c == E5!Inclusions[i].checkpoint
      IN  LeafAt(Root(c), Size(c), entry.index) = E5!leaf_hash(entry.bytes)
================================================================================
