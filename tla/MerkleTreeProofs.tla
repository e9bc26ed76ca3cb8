--------------------------- MODULE MerkleTreeProofs ---------------------------
(***************************************************************************)
(* For every depth, modulus and sequence of insertions: the leaf index is  *)
(* right, computeRoot finds the root of the full zero-padded tree, the     *)
(* incremental insertion climbs to that root, what Proof returns verifies, *)
(* and a path binds the whole tree.                                        *)
(***************************************************************************)
EXTENDS MerkleTree, MerkleHashProofs

Elements == 0..(Modulus - 1)
-----------------------------------------------------------------------------
(***************************************************************************)
(* Types and the leaf index                                                *)
(***************************************************************************)

\* Appending to a sequence of leaves: the positions before keep their leaf.
LEMMA AppendedLeaf ==
  ASSUME NEW ls \in Seq(Elements), NEW v \in Elements
  PROVE  /\ Append(ls, v) \in Seq(Elements)
         /\ Len(Append(ls, v)) = Len(ls) + 1
         /\ \A i \in 1..Len(ls) : Append(ls, v)[i] = ls[i]
         /\ Append(ls, v)[Len(ls) + 1] = v
  OBVIOUS

\* The empty tree has its types and an empty index.
LEMMA TreeInit == Init => TypeOK /\ IndexFindsLastLeaf
<1> SUFFICES ASSUME Init PROVE TypeOK /\ IndexFindsLastLeaf
  OBVIOUS
<1>1. leaves = <<>> /\ leafIndex = <<>> /\ DOMAIN filledSubtrees = Levels
  BY DEF Init
<1>2. DOMAIN leafIndex = {} /\ Range(leaves) = {}
  BY <1>1 DEF Range
<1>3. TypeOK
  BY <1>1, <1>2, CapacityPositive DEF TypeOK
<1> QED
  BY <1>2, <1>3 DEF IndexFindsLastLeaf

\* An insertion is of a field element into a tree that has room.
LEMMA TreeTypeStep == TypeOK /\ [Next]_vars => TypeOK'
<1> SUFFICES ASSUME TypeOK, [Next]_vars PROVE TypeOK'
  OBVIOUS
<1>1. ASSUME NEW v \in Values, Insert(v) PROVE TypeOK'
  <2>1. v \in Elements /\ Len(leaves) < Capacity
    BY <1>1, MerkleAssumption, HashAssumption DEF Insert, Accepts, Elements
  <2>2. leaves \in Seq(Elements)
    BY DEF TypeOK, Elements
  <2>3. leaves' \in Seq(Elements) /\ Len(leaves') = Len(leaves) + 1
    BY <1>1, <2>1, <2>2, AppendedLeaf DEF Insert
  <2>4. DOMAIN leafIndex' \subseteq Elements
    BY <1>1, <2>1 DEF Insert, TypeOK, Elements
  <2>5. DOMAIN filledSubtrees' = Levels
    BY <1>1 DEF Insert
  <2> QED
    BY <2>1, <2>2, <2>3, <2>4, <2>5, CapacityPositive DEF TypeOK, Elements
<1>2. CASE UNCHANGED vars
  BY <1>2 DEF vars, TypeOK
<1> QED
  BY <1>1, <1>2 DEF Next, Refuse

\* The tree keeps its types, its capacity and its field elements.
THEOREM TreeTypeCorrect == Spec => []TypeOK
<1> QED
  BY TreeInit, TreeTypeStep, PTL DEF Spec

\* An insertion moves the entry of its value to the new leaf, and leaves the
\* entries of the other values right.
LEMMA IndexStep ==
  TypeOK /\ IndexFindsLastLeaf /\ [Next]_vars => IndexFindsLastLeaf'
<1> SUFFICES ASSUME TypeOK, IndexFindsLastLeaf, [Next]_vars
             PROVE  IndexFindsLastLeaf'
  OBVIOUS
<1>1. ASSUME NEW v \in Values, Insert(v) PROVE IndexFindsLastLeaf'
  <2>1. v \in Elements /\ leaves \in Seq(Elements)
    BY <1>1, MerkleAssumption, HashAssumption DEF Insert, Accepts, Elements, TypeOK
  <2>2. /\ leaves' \in Seq(Elements)
        /\ Len(leaves') = Len(leaves) + 1
        /\ \A i \in 1..Len(leaves) : leaves'[i] = leaves[i]
        /\ leaves'[Len(leaves) + 1] = v
    BY <1>1, <2>1, AppendedLeaf DEF Insert
  <2>3. /\ DOMAIN leafIndex' = DOMAIN leafIndex \cup {v}
        /\ leafIndex'[v] = Len(leaves)
        /\ \A x \in DOMAIN leafIndex \ {v} : leafIndex'[x] = leafIndex[x]
    BY <1>1 DEF Insert, Position
  <2>4. Len(leaves) \in Nat
    BY <2>1
  <2>5. DOMAIN leafIndex' = Range(leaves')
    <3>1. Range(leaves') = Range(leaves) \cup {v}
      <4>1. DOMAIN leaves = 1..Len(leaves)
        BY <2>1
      <4>2. DOMAIN leaves' = 1..Len(leaves) \cup {Len(leaves) + 1}
        BY <2>2, <2>4
      <4> QED
        BY <2>2, <4>1, <4>2 DEF Range
    <3> QED
      BY <2>3, <3>1 DEF IndexFindsLastLeaf
  <2>6. ASSUME NEW x \in DOMAIN leafIndex'
        PROVE  /\ leafIndex'[x] \in 0..(Len(leaves') - 1)
               /\ leaves'[leafIndex'[x] + 1] = x
               /\ \A i \in (leafIndex'[x] + 2)..Len(leaves') : leaves'[i] # x
    <3>1. CASE x = v
      BY <2>2, <2>3, <2>4, <3>1
    <3>2. CASE x # v
      <4>1. x \in DOMAIN leafIndex /\ leafIndex'[x] = leafIndex[x]
        BY <2>3, <2>6, <3>2
      <4>2. /\ leafIndex[x] \in 0..(Len(leaves) - 1)
            /\ leaves[leafIndex[x] + 1] = x
            /\ \A i \in (leafIndex[x] + 2)..Len(leaves) : leaves[i] # x
        BY <4>1 DEF IndexFindsLastLeaf
      <4>3. leafIndex'[x] + 1 \in 1..Len(leaves)
        BY <2>4, <4>1, <4>2
      <4>4. leaves'[leafIndex'[x] + 1] = x
        BY <2>2, <4>1, <4>2, <4>3
      <4>5. ASSUME NEW i \in (leafIndex'[x] + 2)..Len(leaves')
            PROVE  leaves'[i] # x
        <5>1. CASE i = Len(leaves) + 1
          BY <2>2, <3>2, <5>1
        <5>2. CASE i # Len(leaves) + 1
          <6>1. /\ i \in (leafIndex[x] + 2)..Len(leaves)
                /\ i \in 1..Len(leaves)
            BY <2>2, <2>4, <4>1, <4>2, <4>5, <5>2
          <6> QED
            BY <2>2, <4>2, <6>1
        <5> QED
          BY <5>1, <5>2
      <4> QED
        BY <2>2, <2>4, <4>1, <4>2, <4>3, <4>4, <4>5
    <3> QED
      BY <3>1, <3>2
  <2> QED
    BY <2>5, <2>6 DEF IndexFindsLastLeaf
<1>2. CASE UNCHANGED vars
  BY <1>2 DEF vars, IndexFindsLastLeaf
<1> QED
  BY <1>1, <1>2 DEF Next, Refuse

\* leafIndex always answers with the last position of a value, and knows
\* exactly the values of the leaves.
THEOREM IndexCorrect == Spec => []IndexFindsLastLeaf
<1>1. Init => TypeOK /\ IndexFindsLastLeaf
  BY TreeInit
<1>2. TypeOK /\ IndexFindsLastLeaf /\ [Next]_vars
        => (TypeOK /\ IndexFindsLastLeaf)'
  BY TreeTypeStep, IndexStep
<1> QED
  BY <1>1, <1>2, PTL DEF Spec
-----------------------------------------------------------------------------
(***************************************************************************)
(* Roots, insertions and paths of the states of the tree                   *)
(***************************************************************************)

\* filledSubtrees has the left sibling wherever the next insertion needs one.
FilledSubtreesReady == SiblingsInLayers(leaves, filledSubtrees)

LEMMA ReadyInit == Init => FilledSubtreesReady
<1> SUFFICES ASSUME Init, NEW l \in Levels PROVE IsLeftChild(Len(leaves), l)
  BY DEF FilledSubtreesReady, SiblingsInLayers
<1> DEFINE S == {i \in 0..Depth : Ancestor(0, i) = 0}
<1> USE MerkleAssumption, HashAssumption
<1>1. 0 \in S
  BY AncestorDef
<1>2. ASSUME NEW i \in 0..(Depth - 1), i \in S PROVE i + 1 \in S
  <2>1. Ancestor(0, i + 1) = Ancestor(0, i) \div 2
    BY AncestorDef DEF Levels
  <2>2. Ancestor(0, i) = 0 /\ 0 \div 2 = 0
    BY <1>2
  <2> QED
    BY <2>1, <2>2
<1> HIDE DEF S
<1>3. \A i \in 0..Depth : i \in S
  BY <1>1, <1>2, LevelInduction
<1>4. Ancestor(0, l) = 0 /\ Len(leaves) = 0
  BY <1>3 DEF S, Levels, Init
<1> QED
  BY <1>4 DEF IsLeftChild

\* The node an insertion remembers at a level is the sibling the next
\* insertions need there; where it remembers none the old one still is.
LEMMA ReadyStep ==
  TypeOK /\ FilledSubtreesReady /\ [Next]_vars => FilledSubtreesReady'
<1> SUFFICES ASSUME TypeOK, FilledSubtreesReady, [Next]_vars
             PROVE  FilledSubtreesReady'
  OBVIOUS
<1>1. ASSUME NEW v \in Values, Insert(v) PROVE FilledSubtreesReady'
  <2> DEFINE n == Len(leaves)
             current == Climb(v, n, InsertSiblings)
  <2>1. v \in Elements /\ leaves \in Seq(Elements) /\ n \in Nat
    BY <1>1, MerkleAssumption, HashAssumption DEF Insert, Accepts, Elements, TypeOK
  <2>2. leaves' = Append(leaves, v) /\ Len(leaves') = n + 1
    BY <1>1, <2>1, AppendedLeaf DEF Insert
  <2>3. \A l \in Levels :
          filledSubtrees'[l] = IF IsLeftChild(n, l) THEN current[l]
                               ELSE filledSubtrees[l]
    BY <1>1 DEF Insert, Remembers
  <2>4. \A l \in 0..Depth : current[l] = Layers(leaves')[l][Ancestor(n, l) + 1]
    <3>1. \A l \in Levels :
            InsertSiblings[l] = IF IsLeftChild(Len(leaves), l) THEN Zeros[l]
                                ELSE filledSubtrees[l]
      BY DEF InsertSiblings
    <3>2. SiblingsInLayers(leaves, filledSubtrees)
      BY DEF FilledSubtreesReady
    <3> QED
      BY <2>1, <2>2, <3>1, <3>2, InsertGoesThroughLayers
  <2>5. \A l \in 0..Depth : \A j \in 1..Ancestor(n, l) :
          Layers(leaves')[l][j] = Layers(leaves)[l][j]
    BY <2>1, <2>2, LayersOfAppend
  <2> HIDE DEF n, current
  <2>6. ASSUME NEW l \in Levels, ~IsLeftChild(n + 1, l)
        PROVE  filledSubtrees'[l] = Layers(leaves')[l][Ancestor(n + 1, l)]
    <3> DEFINE a == Ancestor(n, l)
               b == Ancestor(n + 1, l)
    <3>0. l \in 0..Depth
      BY MerkleAssumption, HashAssumption DEF Levels
    <3>1. a \in Nat /\ b \in {a, a + 1}
      BY <2>1, <3>0, AncestorNat, NextAncestor
    <3>2. b % 2 # 0 /\ (IsLeftChild(n, l) <=> a % 2 = 0)
      BY <2>6 DEF IsLeftChild
    <3> HIDE DEF a, b
    <3>3. CASE b = a
      <4>1. ~IsLeftChild(n, l) /\ a \in 1..a
        BY <3>1, <3>2, <3>3
      <4>2. filledSubtrees[l] = Layers(leaves)[l][a]
        BY <4>1 DEF FilledSubtreesReady, SiblingsInLayers, a, n
      <4>3. Layers(leaves')[l][a] = Layers(leaves)[l][a]
        BY <2>5, <3>0, <4>1 DEF a
      <4> QED
        BY <2>3, <3>3, <4>1, <4>2, <4>3 DEF b
    <3>4. CASE b = a + 1
      <4>1. IsLeftChild(n, l)
        BY <3>1, <3>2, <3>4
      <4>2. current[l] = Layers(leaves')[l][a + 1]
        BY <2>4, <3>0 DEF a
      <4> QED
        BY <2>3, <3>4, <4>1, <4>2 DEF b
    <3> QED
      BY <3>1, <3>3, <3>4
  <2> QED
    BY <2>2, <2>6 DEF FilledSubtreesReady, SiblingsInLayers
<1>2. CASE UNCHANGED vars
  BY <1>2 DEF vars, FilledSubtreesReady, SiblingsInLayers
<1> QED
  BY <1>1, <1>2 DEF Next, Refuse

\* The inductive invariant of the tree.
TreeInv == TypeOK /\ IndexFindsLastLeaf /\ FilledSubtreesReady

LEMMA TreeInvariant == Spec => []TreeInv
<1>1. Init => TreeInv
  BY TreeInit, ReadyInit DEF TreeInv
<1>2. TreeInv /\ [Next]_vars => TreeInv'
  BY TreeTypeStep, IndexStep, ReadyStep DEF TreeInv
<1> QED
  BY <1>1, <1>2, PTL DEF Spec

\* For every depth and any leaves: the root computeRoot finds from the
\* occupied part of the layers is that of the full zero-padded tree.
THEOREM RootCorrect == Spec => []RootIsOfFullTree
<1>1. TreeInv => RootIsOfFullTree
  BY RootOfReference DEF TreeInv, TypeOK, RootIsOfFullTree, Root
<1> QED
  BY <1>1, TreeInvariant, PTL

\* For every depth and every sequence of insertions: filledSubtrees never
\* misleads an insertion; the loop ends at the root of the tree with the new
\* leaf.
THEOREM InsertCorrect == Spec => []InsertClimbsToRoot
<1>1. TreeInv => InsertClimbsToRoot
  <2> SUFFICES ASSUME TreeInv, NEW v \in Values, Accepts(v)
               PROVE  Climb(v, Len(leaves), InsertSiblings)[Depth]
                        = ComputeRoot(Append(leaves, v))
    BY DEF InsertClimbsToRoot
  <2> DEFINE n == Len(leaves)
             grown == Append(leaves, v)
  <2>1. v \in Elements /\ leaves \in Seq(Elements) /\ n \in Nat /\ n < Capacity
    BY MerkleAssumption, HashAssumption DEF Accepts, Elements, TreeInv, TypeOK
  <2>2. grown \in Seq(Elements) /\ Len(grown) = n + 1
    BY <2>1, AppendedLeaf
  <2>3. \A l \in 0..Depth :
          Climb(v, n, InsertSiblings)[l] = Layers(grown)[l][Ancestor(n, l) + 1]
    <3>1. \A l \in Levels :
            InsertSiblings[l] = IF IsLeftChild(Len(leaves), l) THEN Zeros[l]
                                ELSE filledSubtrees[l]
      BY DEF InsertSiblings
    <3>2. SiblingsInLayers(leaves, filledSubtrees)
      BY DEF TreeInv, FilledSubtreesReady
    <3> QED
      BY <2>1, <3>1, <3>2, InsertGoesThroughLayers
  <2> HIDE DEF n, grown
  <2>4. Ancestor(n, Depth) = 0 /\ Depth \in 0..Depth
    BY <2>1, AncestorInTree, MerkleAssumption, HashAssumption
  <2>5. Climb(v, n, InsertSiblings)[Depth] = Layers(grown)[Depth][1]
    BY <2>3, <2>4
  <2>6. Len(grown) <= Capacity /\ grown # <<>>
    BY <2>1, <2>2, CapacityPositive
  <2>7. ComputeRoot(grown) = Layers(grown)[Depth][1]
    BY <2>2, <2>6, RootLayer
  <2> QED
    BY <2>5, <2>7 DEF n, grown
<1> QED
  BY <1>1, TreeInvariant, PTL

\* For every depth and any leaves: every path Proof returns verifies, and so
\* does the path of the position FindLeaf answers with.
THEOREM PathsVerify == Spec => []ProofVerifies
<1>1. TreeInv => ProofVerifies
  <2> SUFFICES ASSUME TreeInv PROVE ProofVerifies
    OBVIOUS
  <2>1. leaves \in Seq(Elements) /\ Len(leaves) <= Capacity /\ Len(leaves) \in Nat
        /\ DOMAIN leaves = 1..Len(leaves)
    BY DEF TreeInv, TypeOK, Elements
  <2>2. \A i \in 0..(Len(leaves) - 1) :
          Climb(leaves[i + 1], i, Proof(leaves, i))[Depth] = Root
    BY <2>1, PathLeadsToRoot DEF Root
  <2>3. ASSUME NEW i \in DOMAIN leaves
        PROVE  Climb(leaves[i], i - 1, Proof(leaves, i - 1))[Depth] = Root
    <3>1. i - 1 \in 0..(Len(leaves) - 1) /\ (i - 1) + 1 = i
      BY <2>1
    <3> QED
      BY <2>2, <3>1
  <2>4. ASSUME NEW v \in Range(leaves)
        PROVE  Climb(v, FindLeaf(v), Proof(leaves, FindLeaf(v)))[Depth] = Root
    <3>1. FindLeaf(v) \in 0..(Len(leaves) - 1) /\ leaves[FindLeaf(v) + 1] = v
      BY DEF TreeInv, IndexFindsLastLeaf, FindLeaf
    <3> QED
      BY <2>2, <3>1
  <2> QED
    BY <2>3, <2>4 DEF ProofVerifies
<1> QED
  BY <1>1, TreeInvariant, PTL

\* For every depth and any leaves: a path taken from an older tree verifies
\* under the present root only if the tree is still the same, zeros aside.
THEOREM PathBinds == Spec => []PathBindsTree
<1>1. TreeInv => PathBindsTree
  <2> SUFFICES ASSUME TreeInv, NEW n \in DOMAIN leaves, NEW i \in 1..n,
                      Climb(leaves[i], i - 1, Proof(SubSeq(leaves, 1, n), i - 1))[Depth]
                        = Root,
                      NEW j \in (n + 1)..Len(leaves)
               PROVE  leaves[j] = 0
    BY DEF PathBindsTree
  <2> DEFINE older == SubSeq(leaves, 1, n)
  <2>1. leaves \in Seq(Elements) /\ Len(leaves) <= Capacity /\ Len(leaves) \in Nat
        /\ n \in 1..Len(leaves)
    BY DEF TreeInv, TypeOK, Elements
  <2>2. /\ older \in Seq(Elements) /\ Len(older) = n
        /\ \A k \in 1..n : older[k] = leaves[k]
    BY <2>1
  <2> HIDE DEF older
  <2>3. i - 1 \in 0..(Len(older) - 1) /\ (i - 1) + 1 = i /\ Len(older) <= Capacity
    BY <2>1, <2>2, CapacityPositive
  <2>4. Climb(older[i], i - 1, Proof(older, i - 1))[Depth] = ComputeRoot(older)
    BY <2>2, <2>3, PathLeadsToRoot
  <2>5. FullTree(older)[Depth][0] = FullTree(leaves)[Depth][0]
    <3>1. Climb(older[i], i - 1, Proof(older, i - 1))[Depth] = Root
      BY <2>2 DEF older
    <3>2. ComputeRoot(older) = FullTree(older)[Depth][0]
      BY <2>2, <2>3, RootOfReference
    <3>3. Root = FullTree(leaves)[Depth][0]
      BY <2>1, RootOfReference DEF Root
    <3> QED
      BY <2>4, <3>1, <3>2, <3>3
  <2>6. j - 1 \in 0..(Capacity - 1) /\ ~(j - 1 < n) /\ j - 1 < Len(leaves)
        /\ (j - 1) + 1 = j
    BY <2>1, CapacityPositive
  <2>7. FullTree(older)[0][j - 1] = FullTree(leaves)[0][j - 1]
    BY <2>5, <2>6, RootBindsLeaves
  <2>8. FullTree(older)[0][j - 1] = 0
    BY <2>2, <2>6, FullTreeDef
  <2>9. FullTree(leaves)[0][j - 1] = leaves[j]
    BY <2>6, FullTreeDef
  <2> QED
    BY <2>7, <2>8, <2>9
<1> QED
  BY <1>1, TreeInvariant, PTL
=============================================================================
