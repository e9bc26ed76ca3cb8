------------------------------ MODULE MerkleTree ------------------------------
(***************************************************************************)
(* The incremental Merkle tree of internal/crypto/tree.go: the insertion   *)
(* loop over filledSubtrees, the root and the sibling paths recomputed     *)
(* from the leaves (MerkleHash), and the leaf index.  Each method holds    *)
(* the tree's lock, so each is one step here.                              *)
(***************************************************************************)
EXTENDS MerkleHash

CONSTANT Values  \* the values Insert is called with

ASSUME MerkleAssumption == Values \subseteq Nat

VARIABLES
  leaves,          \* t.leaves; leaves[i + 1] is the leaf at position i
  filledSubtrees,  \* t.filledSubtrees, by level
  leafIndex        \* t.leafIndex: value -> position

vars == <<leaves, filledSubtrees, leafIndex>>
-----------------------------------------------------------------------------
Root        == ComputeRoot(leaves)
FindLeaf(v) == IF v \in DOMAIN leafIndex THEN leafIndex[v] ELSE -1
-----------------------------------------------------------------------------
\* What Insert's loop takes as the sibling of the node it climbs from.
InsertSiblings ==
  [level \in Levels |->
     IF IsLeftChild(Len(leaves), level) THEN Zeros[level]
     ELSE filledSubtrees[level]]

\* Insert accepts a field element while there is room.  Mutant: the bound of
\* the tree is off by one.
AcceptsOver(v) == v < Modulus /\ Len(leaves) <= Capacity
Accepts(v) == v < Modulus /\ Len(leaves) < Capacity

\* The position leafIndex records.  Mutant: taken after the append.
PositionAfterAppend == Len(leaves) + 1
Position == Len(leaves)

\* Which levels Insert remembers the node at.  Mutant: every level.
RemembersAlways(level) == TRUE
Remembers(level) == IsLeftChild(Len(leaves), level)

Insert(v) ==
  /\ Accepts(v)
  /\ leaves' = Append(leaves, v)
  /\ leafIndex' = [x \in DOMAIN leafIndex \cup {v} |->
                     IF x = v THEN Position ELSE leafIndex[x]]
  /\ filledSubtrees' =
       LET current == Climb(v, Len(leaves), InsertSiblings)
       IN  [level \in Levels |-> IF Remembers(level) THEN current[level]
                                 ELSE filledSubtrees[level]]

\* Insert returns an error.
Refuse(v) == ~Accepts(v) /\ UNCHANGED vars

Init ==
  /\ leaves = <<>>
  /\ filledSubtrees = [level \in Levels |-> Zeros[level]]
  /\ leafIndex = <<>>

Next == \E v \in Values : Insert(v) \/ Refuse(v)

Spec == Init /\ [][Next]_vars
-----------------------------------------------------------------------------
\* The types of the variables; the tree never holds more than 2^Depth leaves,
\* all of them field elements.
TypeOK ==
  /\ leaves \in Seq(0..(Modulus - 1)) /\ Len(leaves) <= Capacity
  /\ DOMAIN filledSubtrees = Levels
  /\ DOMAIN leafIndex \subseteq 0..(Modulus - 1)

\* Insert keeps leafIndex so that FindLeaf, a map lookup, answers what a
\* search of the leaves from the right would: the last position of the value.
IndexFindsLastLeaf ==
  /\ DOMAIN leafIndex = Range(leaves)
  /\ \A v \in DOMAIN leafIndex :
       /\ leafIndex[v] \in 0..(Len(leaves) - 1)
       /\ leaves[leafIndex[v] + 1] = v
       /\ \A i \in (leafIndex[v] + 2)..Len(leaves) : leaves[i] # v

\* computeRoot, which only builds the occupied part of each layer, gives the
\* root of the full zero-padded tree that the contract and Circom compute.
RootIsOfFullTree == Root = FullTree(leaves)[Depth][0]

\* filledSubtrees is enough to insert: climbing from the new leaf over it
\* reaches the root that computeRoot finds from all the leaves.
InsertClimbsToRoot ==
  \A v \in {u \in Values : Accepts(u)} :
    Climb(v, Len(leaves), InsertSiblings)[Depth] = ComputeRoot(Append(leaves, v))

\* What Proof returns verifies: for every leaf, and for the one FindLeaf
\* chooses for a value, climbing over the path reaches the root.
ProofVerifies ==
  /\ \A i \in DOMAIN leaves :
       Climb(leaves[i], i - 1, Proof(leaves, i - 1))[Depth] = Root
  /\ \A v \in Range(leaves) :
       Climb(v, FindLeaf(v), Proof(leaves, FindLeaf(v)))[Depth] = Root

\* A path binds the whole tree: one taken when the tree had n leaves verifies
\* under the present root only if every leaf since is zero, the value of an
\* empty leaf.  Hence a path is only good with a root of the same tree, which
\* handleProof reads in a second call.
PathBindsTree ==
  \A n \in DOMAIN leaves : \A i \in 1..n :
    LET older == SubSeq(leaves, 1, n)
    IN  Climb(leaves[i], i - 1, Proof(older, i - 1))[Depth] = Root
          => \A j \in (n + 1)..Len(leaves) : leaves[j] = 0
=============================================================================
