----------------------------- MODULE MerkleHash ------------------------------
(***************************************************************************)
(* The pure part of internal/crypto/tree.go: layers, roots and sibling     *)
(* paths as functions of the leaves, and the climb from a leaf to a root   *)
(* that Insert makes over its siblings and a verifier over a path.         *)
(*                                                                         *)
(* Poseidon is taken as collision-free: a hash is the pair of its inputs,  *)
(* so two nodes are equal exactly when they commit to the same leaves.     *)
(***************************************************************************)
EXTENDS Integers, Sequences, FiniteSets, Functions

CONSTANTS
  Depth,   \* depth of the tree: 20
  Modulus  \* bn254Modulus: leaves are the numbers below it

ASSUME HashAssumption ==
  /\ Depth \in Nat
  /\ Modulus \in Nat \ {0}

Levels == 0..(Depth - 1)

\* 1 << i, by repeated doubling: the provers know no exponentiation.
PowerOfTwo[i \in 0..Depth] == IF i = 0 THEN 1 ELSE 2 * PowerOfTwo[i - 1]
Capacity == PowerOfTwo[Depth]
-----------------------------------------------------------------------------
Hash(left, right) == <<left, right>>

\* The root of an empty subtree, by level.
Zeros[i \in 0..Depth] == IF i = 0 THEN 0 ELSE Hash(Zeros[i - 1], Zeros[i - 1])

\* The position of the ancestor of leaf idx at a level, halved on every level,
\* and its side.
Ancestor(idx, level) ==
  LET pos[l \in 0..Depth] == IF l = 0 THEN idx ELSE pos[l - 1] \div 2
  IN  pos[level]
IsLeftChild(idx, level) == Ancestor(idx, level) % 2 = 0

\* The nodes on the way from a leaf to the root, given a sibling per level:
\* Insert's loop over `current`.
Climb(leaf, idx, sibling) ==
  LET node[level \in 0..Depth] ==
        IF level = 0 THEN leaf
        ELSE IF IsLeftChild(idx, level - 1)
             THEN Hash(node[level - 1], sibling[level - 1])
             ELSE Hash(sibling[level - 1], node[level - 1])
  IN  node

\* computeRoot and Proof build each layer from the one below; an unpaired
\* node gets the zero of its level.  Mutants: it is paired with itself; it is
\* dropped.
NextLayerPairsSelf(layer, level) ==
  [i \in 1..((Len(layer) + 1) \div 2) |->
     Hash(layer[2 * i - 1],
          IF 2 * i <= Len(layer) THEN layer[2 * i] ELSE layer[2 * i - 1])]
NextLayerDropsLast(layer, level) ==
  [i \in 1..(IF Len(layer) = 1 THEN 1 ELSE Len(layer) \div 2) |->
     Hash(layer[2 * i - 1],
          IF 2 * i <= Len(layer) THEN layer[2 * i] ELSE Zeros[level])]
NextLayer(layer, level) ==
  [i \in 1..((Len(layer) + 1) \div 2) |->
     Hash(layer[2 * i - 1],
          IF 2 * i <= Len(layer) THEN layer[2 * i] ELSE Zeros[level])]

Layers(ls) ==
  LET layer[level \in 0..Depth] ==
        IF level = 0 THEN ls ELSE NextLayer(layer[level - 1], level - 1)
  IN  layer

ComputeRoot(ls) == IF ls = <<>> THEN Zeros[Depth] ELSE Layers(ls)[Depth][1]

\* idx ^ 1.  Mutant: the right neighbour, whichever child idx is.
RightOf(i)  == i + 1
Sibling(i) == IF i % 2 = 0 THEN i + 1 ELSE i - 1

Proof(ls, idx) ==
  [level \in Levels |->
     LET layer == Layers(ls)[level]
         sib   == Sibling(Ancestor(idx, level))
     IN  IF sib < Len(layer) THEN layer[sib + 1] ELSE Zeros[level]]
-----------------------------------------------------------------------------
\* The reference tree over ls, row by row: all 2^Depth leaves, the missing
\* ones zero.
FullTree(ls) ==
  LET row[level \in 0..Depth] ==
        [i \in 0..(PowerOfTwo[Depth - level] - 1) |->
           IF level = 0 THEN IF i < Len(ls) THEN ls[i + 1] ELSE 0
           ELSE Hash(row[level - 1][2 * i], row[level - 1][2 * i + 1])]
  IN  row
=============================================================================
