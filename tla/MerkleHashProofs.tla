--------------------------- MODULE MerkleHashProofs ---------------------------
(***************************************************************************)
(* For every depth and any leaves: computeRoot finds the root of the full  *)
(* zero-padded tree, what Proof returns leads there, equal roots have      *)
(* equal leaves, and an insertion climbs through the new layers.           *)
(*                                                                         *)
(* The functions of MerkleHash are recursive in the level.  LevelInduction *)
(* is the one induction used: over a set of levels, from the library's     *)
(* well-founded minimum.  A function f with a recursive definition         *)
(* satisfies it because, level by level, some function does (the lemmas    *)
(* named ...Def).                                                          *)
(***************************************************************************)
EXTENDS MerkleHash, TLAPS, WellFoundedInduction
-----------------------------------------------------------------------------
(***************************************************************************)
(* Induction over the levels, and the recursive definitions                *)
(***************************************************************************)

\* A set of levels that has level 0, and with a level the next, has them all.
LEMMA LevelInduction ==
  ASSUME NEW m \in Nat, NEW S, 0 \in S,
         \A n \in 0..(m - 1) : n \in S => n + 1 \in S
  PROVE  \A n \in 0..m : n \in S
<1> DEFINE T == (0..m) \ S
<1> SUFFICES ASSUME T # {} PROVE FALSE
  OBVIOUS
<1>1. T \subseteq Nat
  OBVIOUS
<1>2. PICK x \in T : \A y \in T : ~(<<y, x>> \in OpToRel(<, Nat))
  BY <1>1, NatLessThanWellFounded, WFMin
<1>3. \A y \in T : ~(y < x)
  BY <1>1, <1>2 DEF OpToRel
<1>4. x # 0 /\ x - 1 \in 0..(m - 1) /\ x - 1 \notin T
  BY <1>1, <1>3
<1> QED
  BY <1>4

\* The zeros by level: NewTree's loop.
LEMMA ZerosDef ==
  /\ Zeros[0] = 0
  /\ \A i \in Levels : Zeros[i + 1] = Hash(Zeros[i], Zeros[i])
<1> DEFINE Is(g, n) ==
             g = [i \in 0..n |-> IF i = 0 THEN 0 ELSE Hash(g[i - 1], g[i - 1])]
           S == {n \in 0..Depth : \E g : Is(g, n)}
<1> USE HashAssumption
<1>1. 0 \in S
  <2> DEFINE g == [i \in 0..0 |-> 0]
  <2>1. Is(g, 0)
    OBVIOUS
  <2> HIDE DEF g, Is
  <2> QED
    BY <2>1
<1>2. ASSUME NEW n \in 0..(Depth - 1), n \in S PROVE n + 1 \in S
  <2>1. PICK g : Is(g, n)
    BY <1>2
  <2> DEFINE h == [i \in 0..(n + 1) |->
                     IF i <= n THEN g[i] ELSE Hash(g[n], g[n])]
  <2>2. ASSUME NEW i \in 0..(n + 1)
        PROVE  h[i] = IF i = 0 THEN 0 ELSE Hash(h[i - 1], h[i - 1])
    <3>1. CASE i <= n
      <4>1. g[i] = IF i = 0 THEN 0 ELSE Hash(g[i - 1], g[i - 1])
        BY <2>1, <3>1
      <4> QED
        BY <3>1, <4>1
    <3>2. CASE i = n + 1
      BY <3>2
    <3> QED
      BY <3>1, <3>2
  <2>3. Is(h, n + 1)
    BY <2>2
  <2> HIDE DEF h, Is
  <2> QED
    BY <2>3
<1>3. Depth \in S
  <2> HIDE DEF S
  <2> QED
    BY <1>1, <1>2, LevelInduction
<1>4. PICK f : Is(f, Depth)
  BY <1>3
<1>5. Is(Zeros, Depth)
  BY <1>4 DEF Zeros
<1> QED
  BY <1>5 DEF Levels

\* Doubling, level by level.
LEMMA PowerOfTwoDef ==
  /\ PowerOfTwo[0] = 1
  /\ \A i \in Levels : PowerOfTwo[i + 1] = 2 * PowerOfTwo[i]
<1> DEFINE Is(g, n) ==
             g = [i \in 0..n |-> IF i = 0 THEN 1 ELSE 2 * g[i - 1]]
           S == {n \in 0..Depth : \E g : Is(g, n)}
<1> USE HashAssumption
<1>1. 0 \in S
  <2> DEFINE g == [i \in 0..0 |-> 1]
  <2>1. Is(g, 0)
    OBVIOUS
  <2> HIDE DEF g, Is
  <2> QED
    BY <2>1
<1>2. ASSUME NEW n \in 0..(Depth - 1), n \in S PROVE n + 1 \in S
  <2>1. PICK g : Is(g, n)
    BY <1>2
  <2> DEFINE h == [i \in 0..(n + 1) |-> IF i <= n THEN g[i] ELSE 2 * g[n]]
  <2>2. ASSUME NEW i \in 0..(n + 1)
        PROVE  h[i] = IF i = 0 THEN 1 ELSE 2 * h[i - 1]
    <3>1. CASE i <= n
      <4>1. g[i] = IF i = 0 THEN 1 ELSE 2 * g[i - 1]
        BY <2>1, <3>1
      <4> QED
        BY <3>1, <4>1
    <3>2. CASE i = n + 1
      BY <3>2
    <3> QED
      BY <3>1, <3>2
  <2>3. Is(h, n + 1)
    BY <2>2
  <2> HIDE DEF h, Is
  <2> QED
    BY <2>3
<1>3. Depth \in S
  <2> HIDE DEF S
  <2> QED
    BY <1>1, <1>2, LevelInduction
<1>4. PICK f : Is(f, Depth)
  BY <1>3
<1>5. Is(PowerOfTwo, Depth)
  BY <1>4 DEF PowerOfTwo
<1> QED
  BY <1>5 DEF Levels

\* The tree has room for a positive number of leaves.
LEMMA PowerOfTwoPositive == \A i \in 0..Depth : PowerOfTwo[i] \in Nat \ {0}
<1> DEFINE S == {i \in 0..Depth : PowerOfTwo[i] \in Nat \ {0}}
<1>1. 0 \in S
  BY PowerOfTwoDef, HashAssumption
<1>2. ASSUME NEW n \in 0..(Depth - 1), n \in S PROVE n + 1 \in S
  BY <1>2, PowerOfTwoDef, HashAssumption DEF Levels
<1> HIDE DEF S
<1>3. \A n \in 0..Depth : n \in S
  BY <1>1, <1>2, LevelInduction, HashAssumption
<1> QED
  BY <1>3 DEF S

LEMMA CapacityPositive == Capacity \in Nat \ {0}
  BY PowerOfTwoPositive, HashAssumption DEF Capacity

\* The ancestors of a leaf: pos >>= 1 on every level.
LEMMA AncestorDef ==
  ASSUME NEW idx
  PROVE  /\ Ancestor(idx, 0) = idx
         /\ \A l \in Levels : Ancestor(idx, l + 1) = Ancestor(idx, l) \div 2
<1> DEFINE Is(g, n) ==
             g = [l \in 0..n |-> IF l = 0 THEN idx ELSE g[l - 1] \div 2]
           S == {n \in 0..Depth : \E g : Is(g, n)}
<1> USE HashAssumption
<1>1. 0 \in S
  <2> DEFINE g == [l \in 0..0 |-> idx]
  <2>1. Is(g, 0)
    OBVIOUS
  <2> HIDE DEF g, Is
  <2> QED
    BY <2>1
<1>2. ASSUME NEW n \in 0..(Depth - 1), n \in S PROVE n + 1 \in S
  <2>1. PICK g : Is(g, n)
    BY <1>2
  <2> DEFINE h == [l \in 0..(n + 1) |-> IF l <= n THEN g[l] ELSE g[n] \div 2]
  <2>2. ASSUME NEW l \in 0..(n + 1)
        PROVE  h[l] = IF l = 0 THEN idx ELSE h[l - 1] \div 2
    <3>1. CASE l <= n
      <4>1. g[l] = IF l = 0 THEN idx ELSE g[l - 1] \div 2
        BY <2>1, <3>1
      <4> QED
        BY <3>1, <4>1
    <3>2. CASE l = n + 1
      BY <3>2
    <3> QED
      BY <3>1, <3>2
  <2>3. Is(h, n + 1)
    BY <2>2
  <2> HIDE DEF h, Is
  <2> QED
    BY <2>3
<1>3. Depth \in S
  <2> HIDE DEF S
  <2> QED
    BY <1>1, <1>2, LevelInduction
<1>4. PICK f : Is(f, Depth)
  BY <1>3
<1> DEFINE pos == CHOOSE g : Is(g, Depth)
<1>5. Is(pos, Depth)
  BY <1>4
<1>6. \A l \in 0..Depth : Ancestor(idx, l) = pos[l]
  BY DEF Ancestor
<1> HIDE DEF pos
<1> QED
  BY <1>5, <1>6 DEF Levels
\* The layers over ls: computeRoot's loop.
LEMMA LayersDef ==
  ASSUME NEW ls
  PROVE  /\ Layers(ls)[0] = ls
         /\ \A l \in Levels :
              Layers(ls)[l + 1] = NextLayer(Layers(ls)[l], l)
<1> DEFINE Is(g, n) ==
             g = [l \in 0..n |-> IF l = 0 THEN ls ELSE NextLayer(g[l - 1], l - 1)]
           S == {n \in 0..Depth : \E g : Is(g, n)}
<1> USE HashAssumption
<1>1. 0 \in S
  <2> DEFINE g == [l \in 0..0 |-> ls]
  <2>1. Is(g, 0)
    OBVIOUS
  <2> HIDE DEF g, Is
  <2> QED
    BY <2>1
<1>2. ASSUME NEW n \in 0..(Depth - 1), n \in S PROVE n + 1 \in S
  <2>1. PICK g : Is(g, n)
    BY <1>2
  <2> DEFINE h == [l \in 0..(n + 1) |->
                     IF l <= n THEN g[l] ELSE NextLayer(g[n], n)]
  <2>2. ASSUME NEW l \in 0..(n + 1)
        PROVE  h[l] = IF l = 0 THEN ls ELSE NextLayer(h[l - 1], l - 1)
    <3>1. CASE l <= n
      <4>1. g[l] = IF l = 0 THEN ls ELSE NextLayer(g[l - 1], l - 1)
        BY <2>1, <3>1
      <4>2. l # 0 => h[l - 1] = g[l - 1]
        BY <3>1
      <4> QED
        BY <3>1, <4>1, <4>2
    <3>2. CASE l = n + 1
      <4>1. h[l - 1] = g[n] /\ l - 1 = n /\ l # 0
        BY <3>2
      <4> QED
        BY <3>2, <4>1
    <3> QED
      BY <3>1, <3>2
  <2>3. Is(h, n + 1)
    BY <2>2
  <2> HIDE DEF h, Is
  <2> QED
    BY <2>3
<1>3. Depth \in S
  <2> HIDE DEF S
  <2> QED
    BY <1>1, <1>2, LevelInduction
<1>4. \E f : Is(f, Depth)
  BY <1>3
<1>5. Is(Layers(ls), Depth)
  BY <1>4 DEF Layers
<1> HIDE DEF Layers
<1> QED
  BY <1>5 DEF Levels

\* The nodes on the way up: Insert's loop over `current`.
LEMMA ClimbDef ==
  ASSUME NEW leaf, NEW idx, NEW sibling
  PROVE  /\ Climb(leaf, idx, sibling)[0] = leaf
         /\ \A l \in Levels :
              Climb(leaf, idx, sibling)[l + 1] =
                IF IsLeftChild(idx, l)
                THEN Hash(Climb(leaf, idx, sibling)[l], sibling[l])
                ELSE Hash(sibling[l], Climb(leaf, idx, sibling)[l])
<1> DEFINE Node(below, l) == IF IsLeftChild(idx, l) THEN Hash(below, sibling[l])
                             ELSE Hash(sibling[l], below)
           Is(g, n) ==
             g = [l \in 0..n |-> IF l = 0 THEN leaf ELSE Node(g[l - 1], l - 1)]
           S == {n \in 0..Depth : \E g : Is(g, n)}
<1> USE HashAssumption
<1>1. 0 \in S
  <2> DEFINE g == [l \in 0..0 |-> leaf]
  <2>1. Is(g, 0)
    OBVIOUS
  <2> HIDE DEF g, Is
  <2> QED
    BY <2>1
<1>2. ASSUME NEW n \in 0..(Depth - 1), n \in S PROVE n + 1 \in S
  <2>1. PICK g : Is(g, n)
    BY <1>2
  <2> DEFINE h == [l \in 0..(n + 1) |->
                     IF l <= n THEN g[l] ELSE Node(g[n], n)]
  <2>2. ASSUME NEW l \in 0..(n + 1)
        PROVE  h[l] = IF l = 0 THEN leaf ELSE Node(h[l - 1], l - 1)
    <3>1. CASE l <= n
      <4>1. g[l] = IF l = 0 THEN leaf ELSE Node(g[l - 1], l - 1)
        BY <2>1, <3>1
      <4>2. l # 0 => h[l - 1] = g[l - 1]
        BY <3>1
      <4> QED
        BY <3>1, <4>1, <4>2
    <3>2. CASE l = n + 1
      <4>1. h[l - 1] = g[n] /\ l - 1 = n /\ l # 0
        BY <3>2
      <4> QED
        BY <3>2, <4>1
    <3> QED
      BY <3>1, <3>2
  <2>3. Is(h, n + 1)
    BY <2>2
  <2> HIDE DEF h, Is
  <2> QED
    BY <2>3
<1>3. Depth \in S
  <2> HIDE DEF S
  <2> QED
    BY <1>1, <1>2, LevelInduction
<1>4. PICK f : Is(f, Depth)
  BY <1>3
<1>5. Is(Climb(leaf, idx, sibling), Depth)
  BY <1>4 DEF Climb
<1> HIDE DEF Climb
<1> QED
  BY <1>5 DEF Levels

\* The rows of the reference tree over ls.
LEMMA FullTreeDef ==
  ASSUME NEW ls
  PROVE  /\ \A i \in 0..(Capacity - 1) :
              FullTree(ls)[0][i] = IF i < Len(ls) THEN ls[i + 1] ELSE 0
         /\ \A l \in Levels : \A i \in 0..(PowerOfTwo[Depth - (l + 1)] - 1) :
              FullTree(ls)[l + 1][i] =
                Hash(FullTree(ls)[l][2 * i], FullTree(ls)[l][2 * i + 1])
<1> DEFINE Row(g, l) == [i \in 0..(PowerOfTwo[Depth - l] - 1) |->
                           IF l = 0 THEN IF i < Len(ls) THEN ls[i + 1] ELSE 0
                           ELSE Hash(g[l - 1][2 * i], g[l - 1][2 * i + 1])]
           Is(g, n) == g = [l \in 0..n |-> Row(g, l)]
           S == {n \in 0..Depth : \E g : Is(g, n)}
<1> USE HashAssumption
<1>0. ASSUME NEW g, NEW h, NEW l, l # 0 => h[l - 1] = g[l - 1]
      PROVE  Row(h, l) = Row(g, l)
  <2>1. CASE l = 0
    BY <2>1
  <2>2. CASE l # 0
    BY <1>0, <2>2
  <2> QED
    BY <2>1, <2>2
<1>1. 0 \in S
  <2> DEFINE g == [l \in 0..0 |-> Row(<<>>, 0)]
  <2>1. g = [l \in 0..0 |-> Row(g, l)]
    <3>1. Row(g, 0) = Row(<<>>, 0)
      BY <1>0
    <3> HIDE DEF Row
    <3> QED
      BY <3>1
  <2> HIDE DEF g, Row
  <2> QED
    BY <2>1
<1>2. ASSUME NEW n \in 0..(Depth - 1), n \in S PROVE n + 1 \in S
  <2>1. PICK g : Is(g, n)
    BY <1>2
  <2> HIDE DEF Row
  <2> DEFINE h == [l \in 0..(n + 1) |-> IF l <= n THEN g[l] ELSE Row(g, n + 1)]
  <2>2. ASSUME NEW l \in 0..(n + 1) PROVE h[l] = Row(h, l)
    <3>1. h[l] = Row(g, l)
      <4>1. CASE l <= n
        BY <2>1, <4>1
      <4>2. CASE l = n + 1
        BY <4>2
      <4> QED
        BY <4>1, <4>2
    <3>2. l # 0 => h[l - 1] = g[l - 1]
      OBVIOUS
    <3> HIDE DEF h
    <3> QED
      BY <1>0, <3>1, <3>2
  <2>3. Is(h, n + 1)
    BY <2>2
  <2> HIDE DEF h, Is
  <2> QED
    BY <2>3
<1>3. Depth \in S
  <2> HIDE DEF S
  <2> QED
    BY <1>1, <1>2, LevelInduction
<1>4. PICK f : Is(f, Depth)
  BY <1>3
<1>5. Is(FullTree(ls), Depth)
  BY <1>4 DEF FullTree
<1>6. \A l \in 0..Depth : FullTree(ls)[l] = Row(FullTree(ls), l)
  <2> HIDE DEF FullTree, Row
  <2> QED
    BY <1>5
<1> DEFINE T == FullTree(ls)
<1> HIDE DEF T
<1>7. \A l \in 0..Depth : T[l] = Row(T, l)
  BY <1>6 DEF T
<1>8. \A i \in 0..(Capacity - 1) :
        T[0][i] = IF i < Len(ls) THEN ls[i + 1] ELSE 0
  <2>1. T[0] = Row(T, 0) /\ Depth - 0 = Depth
    BY <1>7
  <2>2. T[0] = [i \in 0..(PowerOfTwo[Depth] - 1) |->
                  IF i < Len(ls) THEN ls[i + 1] ELSE 0]
    BY <2>1
  <2> QED
    BY <2>2 DEF Capacity
<1>9. ASSUME NEW l \in Levels, NEW i \in 0..(PowerOfTwo[Depth - (l + 1)] - 1)
      PROVE  T[l + 1][i] = Hash(T[l][2 * i], T[l][2 * i + 1])
  <2>1. T[l + 1] = Row(T, l + 1)
    BY <1>7 DEF Levels
  <2>2. l + 1 # 0 /\ (l + 1) - 1 = l
    BY DEF Levels
  <2> QED
    BY <2>1, <2>2
<1> QED
  BY <1>8, <1>9 DEF T
-----------------------------------------------------------------------------
(***************************************************************************)
(* Positions and layers                                                    *)
(***************************************************************************)

LEMMA AncestorNat ==
  ASSUME NEW idx \in Nat
  PROVE  \A l \in 0..Depth : Ancestor(idx, l) \in Nat
<1> DEFINE S == {l \in 0..Depth : Ancestor(idx, l) \in Nat}
<1>1. 0 \in S
  BY AncestorDef, HashAssumption
<1>2. ASSUME NEW l \in 0..(Depth - 1), l \in S PROVE l + 1 \in S
  <2>1. Ancestor(idx, l) \in Nat
    BY <1>2
  <2>2. Ancestor(idx, l + 1) = Ancestor(idx, l) \div 2
    BY AncestorDef DEF Levels
  <2> QED
    BY <2>1, <2>2, HashAssumption
<1> HIDE DEF S
<1>3. \A l \in 0..Depth : l \in S
  BY <1>1, <1>2, LevelInduction, HashAssumption
<1> QED
  BY <1>3 DEF S

\* The leaves of the tree have their ancestors in it: at the top, the root.
LEMMA AncestorInTree ==
  ASSUME NEW idx \in Nat, idx < Capacity
  PROVE  Ancestor(idx, Depth) = 0
<1> DEFINE S == {l \in 0..Depth : Ancestor(idx, l) < PowerOfTwo[Depth - l]}
<1> USE HashAssumption
<1>1. 0 \in S
  BY AncestorDef DEF Capacity
<1>2. ASSUME NEW l \in 0..(Depth - 1), l \in S PROVE l + 1 \in S
  <2>1. Ancestor(idx, l) < PowerOfTwo[Depth - l] /\ Ancestor(idx, l) \in Nat
    BY <1>2, AncestorNat
  <2>2. Ancestor(idx, l + 1) = Ancestor(idx, l) \div 2
    BY AncestorDef DEF Levels
  <2>3. /\ PowerOfTwo[Depth - l] = 2 * PowerOfTwo[Depth - (l + 1)]
        /\ PowerOfTwo[Depth - (l + 1)] \in Nat
    <3>1. Depth - (l + 1) \in Levels /\ Depth - l = (Depth - (l + 1)) + 1
      BY DEF Levels
    <3> QED
      BY <3>1, PowerOfTwoDef, PowerOfTwoPositive DEF Levels
  <2> QED
    BY <2>1, <2>2, <2>3
<1> HIDE DEF S
<1>3. Depth \in S
  BY <1>1, <1>2, LevelInduction
<1>4. Ancestor(idx, Depth) < PowerOfTwo[0]
  BY <1>3 DEF S
<1> QED
  BY <1>4, PowerOfTwoDef, AncestorNat

\* Neighbours have the same ancestor, or neighbouring ones.
LEMMA NextAncestor ==
  ASSUME NEW idx \in Nat
  PROVE  \A l \in 0..Depth :
           Ancestor(idx + 1, l) \in {Ancestor(idx, l), Ancestor(idx, l) + 1}
<1> DEFINE Next1(l) ==
             Ancestor(idx + 1, l) \in {Ancestor(idx, l), Ancestor(idx, l) + 1}
           S == {l \in 0..Depth : Next1(l)}
<1> USE HashAssumption
<1>1. 0 \in S
  BY AncestorDef
<1>2. ASSUME NEW l \in 0..(Depth - 1), l \in S PROVE l + 1 \in S
  <2>1. Next1(l) /\ Ancestor(idx, l) \in Nat
    BY <1>2, AncestorNat
  <2>2. /\ Ancestor(idx, l + 1) = Ancestor(idx, l) \div 2
        /\ Ancestor(idx + 1, l + 1) = Ancestor(idx + 1, l) \div 2
    BY AncestorDef DEF Levels
  <2> QED
    BY <2>1, <2>2
<1> HIDE DEF S
<1>3. \A l \in 0..Depth : l \in S
  BY <1>1, <1>2, LevelInduction
<1> QED
  BY <1>3 DEF S

\* Positions keep their order from level to level.
LEMMA AncestorMonotone ==
  ASSUME NEW i \in Nat, NEW j \in Nat, i <= j
  PROVE  \A l \in 0..Depth : Ancestor(i, l) <= Ancestor(j, l)
<1> DEFINE S == {l \in 0..Depth : Ancestor(i, l) <= Ancestor(j, l)}
<1> USE HashAssumption
<1>1. 0 \in S
  BY AncestorDef
<1>2. ASSUME NEW l \in 0..(Depth - 1), l \in S PROVE l + 1 \in S
  <2>1. /\ Ancestor(i, l) <= Ancestor(j, l)
        /\ Ancestor(i, l) \in Nat /\ Ancestor(j, l) \in Nat
    BY <1>2, AncestorNat
  <2>2. /\ Ancestor(i, l + 1) = Ancestor(i, l) \div 2
        /\ Ancestor(j, l + 1) = Ancestor(j, l) \div 2
    BY AncestorDef DEF Levels
  <2> QED
    BY <2>1, <2>2
<1> HIDE DEF S
<1>3. \A l \in 0..Depth : l \in S
  BY <1>1, <1>2, LevelInduction
<1> QED
  BY <1>3 DEF S

\* A function over 1..n is a sequence of length n.
LEMMA SequenceLength ==
  ASSUME NEW n \in Nat, NEW s, s = [i \in 1..n |-> s[i]]
  PROVE  Len(s) = n /\ DOMAIN s = 1..n
<1>1. s \in Seq({s[i] : i \in 1..n})
  BY SMT
<1> QED
  BY <1>1

\* One layer from the one below.
LEMMA NextLayerShape ==
  ASSUME NEW layer, Len(layer) \in Nat, NEW level
  PROVE  /\ Len(NextLayer(layer, level)) = (Len(layer) + 1) \div 2
         /\ \A i \in 1..((Len(layer) + 1) \div 2) :
              NextLayer(layer, level)[i] =
                Hash(layer[2 * i - 1],
                     IF 2 * i <= Len(layer) THEN layer[2 * i] ELSE Zeros[level])
<1> DEFINE n == (Len(layer) + 1) \div 2
           s == NextLayer(layer, level)
<1>1. n \in Nat
  OBVIOUS
<1>2. /\ s = [i \in 1..n |-> s[i]]
      /\ \A i \in 1..n :
           s[i] = Hash(layer[2 * i - 1],
                       IF 2 * i <= Len(layer) THEN layer[2 * i] ELSE Zeros[level])
  BY DEF NextLayer
<1> HIDE DEF n, s
<1>3. Len(s) = n
  BY <1>1, <1>2, SequenceLength
<1> QED
  BY <1>2, <1>3 DEF n, s

\* The layers over ls, as the proofs use them.
LEMMA LayerStep ==
  ASSUME NEW ls, Len(ls) \in Nat
  PROVE  /\ \A l \in 0..Depth : Len(Layers(ls)[l]) \in Nat
         /\ \A l \in Levels :
              LET layer == Layers(ls)[l]
                  next  == Layers(ls)[l + 1]
              IN  /\ Len(next) = (Len(layer) + 1) \div 2
                  /\ \A i \in 1..Len(next) :
                       next[i] = Hash(layer[2 * i - 1],
                                      IF 2 * i <= Len(layer) THEN layer[2 * i]
                                      ELSE Zeros[l])
<1> DEFINE L == Layers(ls)
           S == {l \in 0..Depth : Len(L[l]) \in Nat}
<1> USE HashAssumption
<1>0. L[0] = ls /\ \A l \in Levels : L[l + 1] = NextLayer(L[l], l)
  BY LayersDef
<1> HIDE DEF L
<1>1. 0 \in S
  BY <1>0
<1>2. ASSUME NEW l \in 0..(Depth - 1), l \in S PROVE l + 1 \in S
  <2>1. Len(L[l]) \in Nat /\ L[l + 1] = NextLayer(L[l], l)
    BY <1>0, <1>2 DEF Levels
  <2>2. Len(L[l + 1]) = (Len(L[l]) + 1) \div 2
    BY <2>1, NextLayerShape
  <2> QED
    BY <2>1, <2>2
<1>3. \A l \in 0..Depth : Len(L[l]) \in Nat
  <2> HIDE DEF S
  <2>1. \A l \in 0..Depth : l \in S
    BY <1>1, <1>2, LevelInduction
  <2> QED
    BY <2>1 DEF S
<1>4. ASSUME NEW l \in Levels
      PROVE  /\ Len(L[l + 1]) = (Len(L[l]) + 1) \div 2
             /\ \A i \in 1..Len(L[l + 1]) :
                  L[l + 1][i] = Hash(L[l][2 * i - 1],
                                     IF 2 * i <= Len(L[l]) THEN L[l][2 * i]
                                     ELSE Zeros[l])
  <2> DEFINE layer == L[l]
             next  == NextLayer(layer, l)
  <2>1. Len(layer) \in Nat /\ L[l + 1] = next
    BY <1>0, <1>3 DEF Levels
  <2> HIDE DEF layer
  <2>2. /\ Len(next) = (Len(layer) + 1) \div 2
        /\ \A i \in 1..((Len(layer) + 1) \div 2) :
             next[i] = Hash(layer[2 * i - 1],
                            IF 2 * i <= Len(layer) THEN layer[2 * i] ELSE Zeros[l])
    BY <2>1, NextLayerShape
  <2> HIDE DEF next
  <2> QED
    BY <2>1, <2>2 DEF layer
<1> QED
  BY <1>3, <1>4 DEF L

\* A layer ends at the ancestor of the last leaf.
LEMMA LayerLength ==
  ASSUME NEW ls, NEW n \in Nat, Len(ls) = n + 1
  PROVE  \A l \in 0..Depth : Len(Layers(ls)[l]) = Ancestor(n, l) + 1
<1> DEFINE L == Layers(ls)
           S == {l \in 0..Depth : Len(L[l]) = Ancestor(n, l) + 1}
<1> USE HashAssumption
<1>1. 0 \in S
  BY LayersDef, AncestorDef
<1>2. ASSUME NEW l \in 0..(Depth - 1), l \in S PROVE l + 1 \in S
  <2>1. Len(L[l]) = Ancestor(n, l) + 1 /\ Ancestor(n, l) \in Nat
    BY <1>2, AncestorNat
  <2>2. Len(L[l + 1]) = (Len(L[l]) + 1) \div 2
    <3>1. Len(ls) \in Nat /\ l \in Levels
      BY DEF Levels
    <3> QED
      BY <3>1, LayerStep
  <2>3. Ancestor(n, l + 1) = Ancestor(n, l) \div 2
    BY AncestorDef DEF Levels
  <2> HIDE DEF L
  <2> QED
    BY <2>1, <2>2, <2>3
<1> HIDE DEF S
<1>3. \A l \in 0..Depth : l \in S
  BY <1>1, <1>2, LevelInduction
<1> QED
  BY <1>3 DEF S

\* Hence the root is the one node of the last layer.
LEMMA RootLayer ==
  ASSUME NEW S, NEW ls \in Seq(S), Len(ls) <= Capacity, ls # <<>>
  PROVE  Len(Layers(ls)[Depth]) = 1 /\ ComputeRoot(ls) = Layers(ls)[Depth][1]
<1>1. PICK n \in Nat : Len(ls) = n + 1
  <2>1. Len(ls) \in Nat /\ Len(ls) # 0
    OBVIOUS
  <2> QED
    BY <2>1
<1>2. n < Capacity
  BY <1>1, CapacityPositive
<1>3. Ancestor(n, Depth) = 0
  BY <1>2, AncestorInTree
<1>4. Len(Layers(ls)[Depth]) = Ancestor(n, Depth) + 1
  <2>1. \A l \in 0..Depth : Len(Layers(ls)[l]) = Ancestor(n, l) + 1
    BY <1>1, LayerLength
  <2>2. Depth \in 0..Depth
    BY HashAssumption
  <2> QED
    BY <2>1, <2>2
<1> QED
  BY <1>3, <1>4 DEF ComputeRoot
-----------------------------------------------------------------------------
(***************************************************************************)
(* Paths, the reference tree and the insertion, over any leaves            *)
(***************************************************************************)

\* Climbing from a leaf over its path goes through its ancestors.
LEMMA PathGoesThroughLayers ==
  ASSUME NEW ls, Len(ls) \in Nat, NEW i \in 0..(Len(ls) - 1)
  PROVE  \A l \in 0..Depth :
           Climb(ls[i + 1], i, Proof(ls, i))[l] = Layers(ls)[l][Ancestor(i, l) + 1]
<1> DEFINE node == Climb(ls[i + 1], i, Proof(ls, i))
           L == Layers(ls)
           S == {l \in 0..Depth : node[l] = L[l][Ancestor(i, l) + 1]}
<1> USE HashAssumption
<1>1. 0 \in S
  BY ClimbDef, LayersDef, AncestorDef
<1>2. ASSUME NEW l \in 0..(Depth - 1), l \in S PROVE l + 1 \in S
  <2> DEFINE a == Ancestor(i, l)
             k == Len(L[l])
  <2>1. a \in Nat /\ k \in Nat /\ a < k
    <3>1. PICK n \in Nat : Len(ls) = n + 1 /\ i <= n
      BY Len(ls) - 1 \in Nat
    <3>2. i \in Nat /\ l \in 0..Depth
      OBVIOUS
    <3>3. k = Ancestor(n, l) + 1
      BY <3>1, <3>2, LayerLength
    <3>4. Ancestor(i, l) <= Ancestor(n, l)
      BY <3>1, <3>2, AncestorMonotone
    <3>5. Ancestor(i, l) \in Nat /\ Ancestor(n, l) \in Nat
      BY <3>2, AncestorNat
    <3> QED
      BY <3>3, <3>4, <3>5
  <2>2. /\ Ancestor(i, l + 1) = a \div 2
        /\ IsLeftChild(i, l) <=> a % 2 = 0
    BY AncestorDef DEF Levels, IsLeftChild
  <2>3. Proof(ls, i)[l] = IF Sibling(a) < k THEN L[l][Sibling(a) + 1] ELSE Zeros[l]
    BY DEF Proof, Levels
  <2>4. node[l] = L[l][a + 1]
    BY <1>2
  <2>5. node[l + 1] = IF IsLeftChild(i, l) THEN Hash(node[l], Proof(ls, i)[l])
                      ELSE Hash(Proof(ls, i)[l], node[l])
    BY ClimbDef DEF Levels
  <2>6. /\ Len(L[l + 1]) = (k + 1) \div 2
        /\ \A j \in 1..Len(L[l + 1]) :
             L[l + 1][j] = Hash(L[l][2 * j - 1],
                                IF 2 * j <= k THEN L[l][2 * j] ELSE Zeros[l])
    BY LayerStep DEF Levels
  <2> DEFINE p == Proof(ls, i)[l]
  <2> HIDE DEF a, k, L, node, p
  <2>7. a \div 2 + 1 \in 1..((k + 1) \div 2)
    BY <2>1
  <2>8. L[l + 1][a \div 2 + 1] =
          Hash(L[l][2 * (a \div 2 + 1) - 1],
               IF 2 * (a \div 2 + 1) <= k THEN L[l][2 * (a \div 2 + 1)] ELSE Zeros[l])
    BY <2>6, <2>7
  <2>9. CASE a % 2 = 0
    <3>1. 2 * (a \div 2 + 1) - 1 = a + 1 /\ 2 * (a \div 2 + 1) = a + 2
      BY <2>1, <2>9
    <3>2. p = IF a + 2 <= k THEN L[l][a + 2] ELSE Zeros[l]
      <4>1. Sibling(a) = a + 1 /\ (a + 1 < k <=> a + 2 <= k) /\ (a + 1) + 1 = a + 2
        BY <2>1, <2>9 DEF Sibling
      <4> QED
        BY <2>3, <4>1 DEF p
    <3>3. node[l + 1] = Hash(node[l], p)
      BY <2>2, <2>5, <2>9 DEF p
    <3> QED
      BY <2>2, <2>4, <2>8, <3>1, <3>2, <3>3 DEF L, node
  <2>10. CASE a % 2 # 0
    <3>1. 2 * (a \div 2 + 1) - 1 = a /\ 2 * (a \div 2 + 1) = a + 1 /\ a + 1 <= k
      BY <2>1, <2>10
    <3>2. p = L[l][a]
      <4>1. Sibling(a) = a - 1 /\ a - 1 < k /\ (a - 1) + 1 = a
        BY <2>1, <2>10 DEF Sibling
      <4> QED
        BY <2>3, <4>1 DEF p
    <3>3. node[l + 1] = Hash(p, node[l])
      BY <2>2, <2>5, <2>10 DEF p
    <3> QED
      BY <2>2, <2>4, <2>8, <3>1, <3>2, <3>3 DEF L, node
  <2> QED
    BY <2>9, <2>10
<1> HIDE DEF S
<1>3. \A l \in 0..Depth : l \in S
  BY <1>1, <1>2, LevelInduction
<1> QED
  BY <1>3 DEF S

\* What Proof returns for a leaf of any tree leads to the root of that tree.
LEMMA PathLeadsToRoot ==
  ASSUME NEW S, NEW ls \in Seq(S), Len(ls) <= Capacity, NEW i \in 0..(Len(ls) - 1)
  PROVE  Climb(ls[i + 1], i, Proof(ls, i))[Depth] = ComputeRoot(ls)
<1>1. Len(ls) \in Nat /\ ls # <<>> /\ i \in Nat /\ i < Capacity
  BY CapacityPositive
<1>2. Climb(ls[i + 1], i, Proof(ls, i))[Depth] = Layers(ls)[Depth][Ancestor(i, Depth) + 1]
  BY <1>1, PathGoesThroughLayers, HashAssumption
<1>3. Ancestor(i, Depth) + 1 = 1
  BY <1>1, AncestorInTree
<1> QED
  BY <1>1, <1>2, <1>3, RootLayer

\* The reference tree over ls: the layers, and zeros beyond their ends.
LEMMA RowsExtendLayers ==
  ASSUME NEW ls, Len(ls) \in Nat
  PROVE  \A l \in 0..Depth : \A i \in 0..(PowerOfTwo[Depth - l] - 1) :
           FullTree(ls)[l][i] =
             IF i < Len(Layers(ls)[l]) THEN Layers(ls)[l][i + 1] ELSE Zeros[l]
<1> DEFINE row == FullTree(ls)
           L == Layers(ls)
           Row(l) == \A i \in 0..(PowerOfTwo[Depth - l] - 1) :
                       row[l][i] = IF i < Len(L[l]) THEN L[l][i + 1] ELSE Zeros[l]
           S == {l \in 0..Depth : Row(l)}
<1> USE HashAssumption
<1>0. L[0] = ls /\ \A l \in 0..Depth : Len(L[l]) \in Nat
  BY LayersDef, LayerStep
<1>1. 0 \in S
  <2>1. Depth - 0 = Depth
    OBVIOUS
  <2>2. \A i \in 0..(PowerOfTwo[Depth - 0] - 1) :
          row[0][i] = IF i < Len(ls) THEN ls[i + 1] ELSE 0
    BY <2>1, FullTreeDef DEF Capacity
  <2>3. Row(0)
    BY <1>0, <2>2, ZerosDef
  <2> HIDE DEF Row
  <2> QED
    BY <2>3
<1>2. ASSUME NEW l \in 0..(Depth - 1), l \in S PROVE l + 1 \in S
  <2>1. Row(l) /\ l \in Levels /\ l \in 0..Depth /\ l + 1 \in 0..Depth
    BY <1>2 DEF Levels
  <2>2. ASSUME NEW i \in 0..(PowerOfTwo[Depth - (l + 1)] - 1)
        PROVE  row[l + 1][i] =
                 IF i < Len(L[l + 1]) THEN L[l + 1][i + 1] ELSE Zeros[l + 1]
    <3> DEFINE layer == L[l]
               next  == L[l + 1]
               k     == Len(layer)
    <3>1. row[l + 1][i] = Hash(row[l][2 * i], row[l][2 * i + 1])
      BY <2>1, FullTreeDef
    <3>2. k \in Nat /\ Len(next) = (k + 1) \div 2
      BY <1>0, <2>1, LayerStep
    <3>3. \A j \in 1..Len(next) :
            next[j] = Hash(layer[2 * j - 1],
                           IF 2 * j <= k THEN layer[2 * j] ELSE Zeros[l])
      BY <2>1, LayerStep
    <3>4. Zeros[l + 1] = Hash(Zeros[l], Zeros[l])
      BY <2>1, ZerosDef
    <3>5. 2 * i \in 0..(PowerOfTwo[Depth - l] - 1) /\ 2 * i + 1 \in 0..(PowerOfTwo[Depth - l] - 1)
      <4>1. Depth - (l + 1) \in Levels /\ Depth - l = (Depth - (l + 1)) + 1
        BY DEF Levels
      <4>2. /\ PowerOfTwo[Depth - l] = 2 * PowerOfTwo[Depth - (l + 1)]
            /\ PowerOfTwo[Depth - (l + 1)] \in Nat
        BY <4>1, PowerOfTwoDef, PowerOfTwoPositive DEF Levels
      <4> QED
        BY <4>2
    <3>6. /\ row[l][2 * i] = IF 2 * i < k THEN layer[2 * i + 1] ELSE Zeros[l]
          /\ row[l][2 * i + 1] =
               IF 2 * i + 1 < k THEN layer[(2 * i + 1) + 1] ELSE Zeros[l]
      BY <2>1, <3>5
    <3>7. i \in Nat
      OBVIOUS
    <3> HIDE DEF layer, next, k, row
    <3>8. CASE i < Len(next)
      <4>1. i + 1 \in 1..Len(next) /\ 2 * i < k /\ (2 * i + 1 < k <=> 2 * (i + 1) <= k)
            /\ 2 * (i + 1) - 1 = 2 * i + 1 /\ 2 * (i + 1) = (2 * i + 1) + 1
        BY <3>2, <3>7, <3>8
      <4> QED
        BY <3>1, <3>3, <3>6, <3>8, <4>1 DEF next
    <3>9. CASE ~(i < Len(next))
      <4>1. ~(2 * i < k) /\ ~(2 * i + 1 < k)
        BY <3>2, <3>7, <3>9
      <4> QED
        BY <3>1, <3>4, <3>6, <3>9, <4>1 DEF next
    <3> QED
      BY <3>8, <3>9
  <2>3. Row(l + 1)
    BY <2>2
  <2> HIDE DEF Row
  <2> QED
    BY <2>1, <2>3
<1> HIDE DEF S
<1>3. \A l \in 0..Depth : l \in S
  BY <1>1, <1>2, LevelInduction
<1> QED
  BY <1>3 DEF S

\* computeRoot finds the root of the reference tree.
LEMMA RootOfReference ==
  ASSUME NEW S, NEW ls \in Seq(S), Len(ls) <= Capacity
  PROVE  ComputeRoot(ls) = FullTree(ls)[Depth][0]
<1> USE HashAssumption
<1>1. Depth - Depth = 0 /\ PowerOfTwo[0] = 1 /\ Depth \in 0..Depth
  BY PowerOfTwoDef
<1>2. FullTree(ls)[Depth][0] =
        IF 0 < Len(Layers(ls)[Depth]) THEN Layers(ls)[Depth][0 + 1] ELSE Zeros[Depth]
  BY <1>1, RowsExtendLayers
<1>3. CASE ls = <<>>
  <2> DEFINE E == {l \in 0..Depth : Len(Layers(ls)[l]) = 0}
  <2>1. 0 \in E
    BY <1>3, LayersDef
  <2>2. ASSUME NEW l \in 0..(Depth - 1), l \in E PROVE l + 1 \in E
    <3>1. Len(Layers(ls)[l + 1]) = (Len(Layers(ls)[l]) + 1) \div 2
      BY <1>3, Len(ls) \in Nat, LayerStep DEF Levels
    <3>2. Len(Layers(ls)[l]) = 0 /\ l + 1 \in 0..Depth
      BY <2>2
    <3> QED
      BY <3>1, <3>2
  <2> HIDE DEF E
  <2>3. \A l \in 0..Depth : l \in E
    BY <2>1, <2>2, LevelInduction
  <2>4. Len(Layers(ls)[Depth]) = 0
    BY <1>1, <2>3 DEF E
  <2> QED
    BY <1>2, <1>3, <2>4 DEF ComputeRoot
<1>4. CASE ls # <<>>
  BY <1>2, <1>4, RootLayer
<1> QED
  BY <1>3, <1>4

\* The root of the reference tree commits to every leaf position.
LEMMA RootBindsLeaves ==
  ASSUME NEW ls1, NEW ls2, FullTree(ls1)[Depth][0] = FullTree(ls2)[Depth][0]
  PROVE  \A i \in 0..(Capacity - 1) : FullTree(ls1)[0][i] = FullTree(ls2)[0][i]
<1> DEFINE r1 == FullTree(ls1)
           r2 == FullTree(ls2)
           Same(d) == \A i \in 0..(PowerOfTwo[d] - 1) :
                        r1[Depth - d][i] = r2[Depth - d][i]
           S == {d \in 0..Depth : Same(d)}
<1> USE HashAssumption
<1>1. 0 \in S
  <2>1. PowerOfTwo[0] = 1 /\ Depth - 0 = Depth
    BY PowerOfTwoDef
  <2>2. Same(0)
    BY <2>1
  <2> HIDE DEF Same
  <2> QED
    BY <2>2
<1>2. ASSUME NEW d \in 0..(Depth - 1), d \in S PROVE d + 1 \in S
  <2> DEFINE l == Depth - (d + 1)
  <2>1. Same(d) /\ l \in Levels /\ l + 1 = Depth - d /\ Depth - (l + 1) = d
        /\ d \in Levels /\ d \in 0..Depth
    BY <1>2 DEF Levels
  <2>2. /\ PowerOfTwo[d + 1] = 2 * PowerOfTwo[d]
        /\ PowerOfTwo[d] \in Nat
    BY <2>1, PowerOfTwoDef, PowerOfTwoPositive
  <2>3. ASSUME NEW i \in 0..(PowerOfTwo[d + 1] - 1) PROVE r1[l][i] = r2[l][i]
    <3> DEFINE h == i \div 2
    <3>1. /\ h \in 0..(PowerOfTwo[d] - 1)
          /\ i = 2 * h \/ i = 2 * h + 1
      BY <2>2
    <3>2. r1[l + 1][h] = Hash(r1[l][2 * h], r1[l][2 * h + 1])
      BY <2>1, <3>1, FullTreeDef
    <3>3. r2[l + 1][h] = Hash(r2[l][2 * h], r2[l][2 * h + 1])
      BY <2>1, <3>1, FullTreeDef
    <3>4. r1[l + 1][h] = r2[l + 1][h]
      BY <2>1, <3>1
    <3> HIDE DEF r1, r2, l, h
    <3>5. Hash(r1[l][2 * h], r1[l][2 * h + 1]) = Hash(r2[l][2 * h], r2[l][2 * h + 1])
      BY <3>2, <3>3, <3>4
    <3>6. r1[l][2 * h] = r2[l][2 * h] /\ r1[l][2 * h + 1] = r2[l][2 * h + 1]
      BY <3>5 DEF Hash
    <3> QED
      BY <3>1, <3>6
  <2>4. Same(d + 1)
    BY <2>3
  <2> HIDE DEF Same
  <2> QED
    BY <2>4
<1>3. Depth \in S
  <2> HIDE DEF S
  <2> QED
    BY <1>1, <1>2, LevelInduction
<1>4. Same(Depth) /\ Depth - Depth = 0
  BY <1>3
<1> QED
  BY <1>4 DEF Capacity

\* And padded alike, two sequences have the same root.
LEMMA LeavesBindRoot ==
  ASSUME NEW ls1, NEW ls2,
         \A i \in 0..(Capacity - 1) : FullTree(ls1)[0][i] = FullTree(ls2)[0][i]
  PROVE  FullTree(ls1)[Depth][0] = FullTree(ls2)[Depth][0]
<1> DEFINE r1 == FullTree(ls1)
           r2 == FullTree(ls2)
           Same(l) == \A i \in 0..(PowerOfTwo[Depth - l] - 1) : r1[l][i] = r2[l][i]
           S == {l \in 0..Depth : Same(l)}
<1> USE HashAssumption
<1>1. 0 \in S
  <2>1. Depth - 0 = Depth
    OBVIOUS
  <2>2. Same(0)
    BY <2>1 DEF Capacity
  <2> HIDE DEF Same
  <2> QED
    BY <2>2
<1>2. ASSUME NEW l \in 0..(Depth - 1), l \in S PROVE l + 1 \in S
  <2> DEFINE d == Depth - (l + 1)
  <2>1. Same(l) /\ l \in Levels /\ Depth - l = d + 1 /\ d \in Levels /\ d \in 0..Depth
    BY <1>2 DEF Levels
  <2>2. /\ PowerOfTwo[Depth - l] = 2 * PowerOfTwo[d]
        /\ PowerOfTwo[d] \in Nat
    BY <2>1, PowerOfTwoDef, PowerOfTwoPositive
  <2>3. ASSUME NEW i \in 0..(PowerOfTwo[d] - 1) PROVE r1[l + 1][i] = r2[l + 1][i]
    <3>1. /\ 2 * i \in 0..(PowerOfTwo[Depth - l] - 1)
          /\ 2 * i + 1 \in 0..(PowerOfTwo[Depth - l] - 1)
      BY <2>2
    <3>2. r1[l][2 * i] = r2[l][2 * i] /\ r1[l][2 * i + 1] = r2[l][2 * i + 1]
      BY <2>1, <3>1
    <3>3. r1[l + 1][i] = Hash(r1[l][2 * i], r1[l][2 * i + 1])
      BY <2>1, FullTreeDef
    <3>4. r2[l + 1][i] = Hash(r2[l][2 * i], r2[l][2 * i + 1])
      BY <2>1, FullTreeDef
    <3> QED
      BY <3>2, <3>3, <3>4
  <2>4. Same(l + 1)
    BY <2>3
  <2> HIDE DEF Same
  <2> QED
    BY <2>4
<1>3. Depth \in S
  <2> HIDE DEF S
  <2> QED
    BY <1>1, <1>2, LevelInduction
<1>4. Same(Depth) /\ Depth - Depth = 0
  BY <1>3
<1> QED
  BY <1>4, PowerOfTwoDef

\* A tree that has grown has the root of the smaller one exactly when the
\* leaves it has gained are what the smaller one was padded with.
LEMMA RootOfGrownTree ==
  ASSUME NEW S, NEW old \in Seq(S), NEW new \in Seq(S),
         Len(old) <= Len(new), Len(new) <= Capacity,
         \A i \in 1..Len(old) : old[i] = new[i]
  PROVE  ComputeRoot(old) = ComputeRoot(new) <=>
           \A i \in (Len(old) + 1)..Len(new) : new[i] = 0
<1> DEFINE r1 == FullTree(old)
           r2 == FullTree(new)
           k == Len(old)
           n == Len(new)
<1>1. k \in Nat /\ n \in Nat /\ Capacity \in Nat /\ k <= n /\ n <= Capacity
  BY CapacityPositive
<1>2. ComputeRoot(old) = r1[Depth][0] /\ ComputeRoot(new) = r2[Depth][0]
  BY <1>1, RootOfReference
<1>3. \A i \in 0..(Capacity - 1) :
        /\ r1[0][i] = IF i < k THEN old[i + 1] ELSE 0
        /\ r2[0][i] = IF i < n THEN new[i + 1] ELSE 0
  BY FullTreeDef
<1>4. r1[Depth][0] = r2[Depth][0] <=> \A i \in 0..(Capacity - 1) : r1[0][i] = r2[0][i]
  BY RootBindsLeaves, LeavesBindRoot
<1> HIDE DEF r1, r2, k, n
<1>5. ASSUME \A i \in 0..(Capacity - 1) : r1[0][i] = r2[0][i],
             NEW i \in (k + 1)..n
      PROVE  new[i] = 0
  <2>1. /\ i - 1 \in 0..(Capacity - 1) /\ ~(i - 1 < k) /\ i - 1 < n
        /\ (i - 1) + 1 = i
    BY <1>1
  <2>2. r1[0][i - 1] = r2[0][i - 1]
    BY <1>5, <2>1
  <2> QED
    BY <1>3, <2>1, <2>2
<1>6. ASSUME \A i \in (k + 1)..n : new[i] = 0, NEW i \in 0..(Capacity - 1)
      PROVE  r1[0][i] = r2[0][i]
  <2>1. CASE i < k
    <3>1. i + 1 \in 1..k /\ i < n
      BY <1>1, <2>1
    <3>2. old[i + 1] = new[i + 1]
      BY <3>1 DEF k
    <3> QED
      BY <1>3, <2>1, <3>1, <3>2
  <2>2. CASE ~(i < k)
    <3>1. i < n => i + 1 \in (k + 1)..n
      BY <1>1, <2>2
    <3> QED
      BY <1>3, <1>6, <2>2, <3>1
  <2> QED
    BY <2>1, <2>2
<1> QED
  BY <1>2, <1>4, <1>5, <1>6 DEF k, n

\* Appending a leaf leaves every layer alone up to the ancestor of the new
\* leaf.
LEMMA LayersOfAppend ==
  ASSUME NEW S, NEW ls \in Seq(S), NEW v \in S
  PROVE  \A l \in 0..Depth :
           /\ Len(Layers(Append(ls, v))[l]) = Ancestor(Len(ls), l) + 1
           /\ Ancestor(Len(ls), l) <= Len(Layers(ls)[l])
           /\ \A j \in 1..Ancestor(Len(ls), l) :
                Layers(Append(ls, v))[l][j] = Layers(ls)[l][j]
<1> DEFINE n == Len(ls)
           grown == Append(ls, v)
           L == Layers(ls)
           G == Layers(grown)
           Agree(l) == /\ Ancestor(n, l) <= Len(L[l])
                       /\ \A j \in 1..Ancestor(n, l) : G[l][j] = L[l][j]
           A == {l \in 0..Depth : Agree(l)}
<1> USE HashAssumption
<1>1. /\ n \in Nat /\ Len(grown) = n + 1 /\ Len(grown) \in Nat
      /\ \A j \in 1..n : grown[j] = ls[j]
  OBVIOUS
<1> HIDE DEF n, grown
<1>2. \A l \in 0..Depth : Len(G[l]) = Ancestor(n, l) + 1
  BY <1>1, LayerLength
<1>3. 0 \in A
  <2>1. L[0] = ls /\ G[0] = grown /\ Ancestor(n, 0) = n
    BY LayersDef, AncestorDef
  <2>2. Agree(0)
    BY <1>1, <2>1 DEF n
  <2> HIDE DEF Agree
  <2> QED
    BY <2>2
<1>4. ASSUME NEW l \in 0..(Depth - 1), l \in A PROVE l + 1 \in A
  <2> DEFINE a == Ancestor(n, l)
             k == Len(L[l])
  <2>1. Agree(l) /\ l \in Levels /\ l \in 0..Depth /\ l + 1 \in 0..Depth
    BY <1>4 DEF Levels
  <2>2. a \in Nat /\ Ancestor(n, l + 1) = a \div 2
    BY <1>1, <2>1, AncestorNat, AncestorDef
  <2>3. k \in Nat /\ Len(L[l + 1]) = (k + 1) \div 2
    BY <1>1, <2>1, LayerStep DEF n
  <2>4. \A j \in 1..Len(L[l + 1]) :
          L[l + 1][j] = Hash(L[l][2 * j - 1],
                             IF 2 * j <= k THEN L[l][2 * j] ELSE Zeros[l])
    BY <1>1, <2>1, LayerStep DEF n
  <2>5. Len(G[l]) = a + 1 /\ Len(G[l + 1]) = (a \div 2) + 1
    BY <1>2, <2>1, <2>2
  <2>6. \A j \in 1..Len(G[l + 1]) :
          G[l + 1][j] = Hash(G[l][2 * j - 1],
                             IF 2 * j <= Len(G[l]) THEN G[l][2 * j] ELSE Zeros[l])
    BY <1>1, <2>1, LayerStep
  <2>7. a <= k /\ \A j \in 1..a : G[l][j] = L[l][j]
    BY <2>1
  <2> HIDE DEF a, k, L, G
  <2>8. ASSUME NEW j \in 1..(a \div 2) PROVE G[l + 1][j] = L[l + 1][j]
    <3>1. /\ j \in 1..Len(L[l + 1]) /\ j \in 1..Len(G[l + 1])
          /\ 2 * j - 1 \in 1..a /\ 2 * j \in 1..a
          /\ 2 * j <= k /\ 2 * j <= Len(G[l])
      BY <2>2, <2>3, <2>5, <2>7
    <3>2. L[l + 1][j] = Hash(L[l][2 * j - 1], L[l][2 * j])
      BY <2>4, <3>1
    <3>3. G[l + 1][j] = Hash(G[l][2 * j - 1], G[l][2 * j])
      BY <2>6, <3>1
    <3> QED
      BY <2>7, <3>1, <3>2, <3>3
  <2>9. a \div 2 <= Len(L[l + 1])
    BY <2>2, <2>3, <2>7
  <2>10. Agree(l + 1)
    BY <2>2, <2>8, <2>9 DEF L, G
  <2> HIDE DEF Agree
  <2> QED
    BY <2>1, <2>10
<1> HIDE DEF A
<1>5. \A l \in 0..Depth : l \in A
  BY <1>3, <1>4, LevelInduction
<1> QED
  BY <1>2, <1>5 DEF A, L, G, n, grown

\* What filledSubtrees is for, level by level: where the next leaf will climb
\* as a right child, it holds the node of the layer that is its left sibling.
\* Where it will climb as a left child the entry is stale and not read.
SiblingsInLayers(ls, filled) ==
  \A l \in Levels :
    ~IsLeftChild(Len(ls), l) =>
      filled[l] = Layers(ls)[l][Ancestor(Len(ls), l)]

\* Insert's loop goes through the layers of the tree with the new leaf.
LEMMA InsertGoesThroughLayers ==
  ASSUME NEW S, NEW ls \in Seq(S), NEW v \in S, NEW filled, NEW sibling,
         SiblingsInLayers(ls, filled),
         \A l \in Levels : sibling[l] = IF IsLeftChild(Len(ls), l) THEN Zeros[l]
                                        ELSE filled[l]
  PROVE  \A l \in 0..Depth :
           Climb(v, Len(ls), sibling)[l] =
             Layers(Append(ls, v))[l][Ancestor(Len(ls), l) + 1]
<1>0. \A l \in 0..Depth :
        /\ Len(Layers(Append(ls, v))[l]) = Ancestor(Len(ls), l) + 1
        /\ Ancestor(Len(ls), l) <= Len(Layers(ls)[l])
        /\ \A j \in 1..Ancestor(Len(ls), l) :
             Layers(Append(ls, v))[l][j] = Layers(ls)[l][j]
  BY LayersOfAppend
<1> DEFINE n == Len(ls)
           grown == Append(ls, v)
           node == Climb(v, n, sibling)
           L == Layers(ls)
           G == Layers(grown)
           A == {l \in 0..Depth : node[l] = G[l][Ancestor(n, l) + 1]}
<1> USE HashAssumption
<1>1. n \in Nat /\ Len(grown) = n + 1 /\ Len(grown) \in Nat /\ grown[n + 1] = v
  OBVIOUS
<1>2. \A l \in 0..Depth :
        /\ Len(G[l]) = Ancestor(n, l) + 1
        /\ Ancestor(n, l) <= Len(L[l])
        /\ \A j \in 1..Ancestor(n, l) : G[l][j] = L[l][j]
  BY <1>0
<1>3. \A l \in Levels :
        /\ sibling[l] = IF IsLeftChild(n, l) THEN Zeros[l] ELSE filled[l]
        /\ ~IsLeftChild(n, l) => filled[l] = L[l][Ancestor(n, l)]
  BY DEF SiblingsInLayers
<1> HIDE DEF n, grown
<1>4. 0 \in A
  <2>1. node[0] = v /\ G[0] = grown /\ Ancestor(n, 0) = n
    BY ClimbDef, LayersDef, AncestorDef
  <2> QED
    BY <1>1, <2>1
<1>5. ASSUME NEW l \in 0..(Depth - 1), l \in A PROVE l + 1 \in A
  <2> DEFINE a == Ancestor(n, l)
  <2>1. l \in Levels /\ l \in 0..Depth /\ l + 1 \in 0..Depth
    BY DEF Levels
  <2>2. a \in Nat /\ Ancestor(n, l + 1) = a \div 2
    BY <1>1, <2>1, AncestorNat, AncestorDef
  <2>3. node[l] = G[l][a + 1]
    BY <1>5
  <2>4. node[l + 1] = IF IsLeftChild(n, l) THEN Hash(node[l], sibling[l])
                      ELSE Hash(sibling[l], node[l])
    BY <2>1, ClimbDef
  <2>5. Len(G[l]) = a + 1 /\ Len(G[l + 1]) = (a \div 2) + 1
    BY <1>2, <2>1, <2>2
  <2>6. \A j \in 1..Len(G[l + 1]) :
          G[l + 1][j] = Hash(G[l][2 * j - 1],
                             IF 2 * j <= Len(G[l]) THEN G[l][2 * j] ELSE Zeros[l])
    BY <1>1, <2>1, LayerStep
  <2>7. \A j \in 1..a : G[l][j] = L[l][j]
    BY <1>2, <2>1
  <2>8. IsLeftChild(n, l) <=> a % 2 = 0
    BY DEF IsLeftChild
  <2>9. /\ sibling[l] = IF IsLeftChild(n, l) THEN Zeros[l] ELSE filled[l]
        /\ ~IsLeftChild(n, l) => filled[l] = L[l][a]
    BY <1>3, <2>1
  <2> HIDE DEF a, node, L, G
  <2>10. G[l + 1][(a \div 2) + 1] =
           Hash(G[l][2 * ((a \div 2) + 1) - 1],
                IF 2 * ((a \div 2) + 1) <= a + 1 THEN G[l][2 * ((a \div 2) + 1)]
                ELSE Zeros[l])
    <3>1. (a \div 2) + 1 \in 1..Len(G[l + 1])
      BY <2>2, <2>5
    <3> QED
      BY <2>5, <2>6, <3>1
  <2>11. CASE a % 2 = 0
    <3>1. 2 * ((a \div 2) + 1) - 1 = a + 1 /\ ~(2 * ((a \div 2) + 1) <= a + 1)
      BY <2>2, <2>11
    <3> QED
      BY <2>1, <2>2, <2>3, <2>4, <2>8, <2>9, <2>10, <2>11, <3>1 DEF node, G
  <2>12. CASE a % 2 # 0
    <3>1. /\ 2 * ((a \div 2) + 1) - 1 = a /\ 2 * ((a \div 2) + 1) = a + 1
          /\ a + 1 <= a + 1 /\ a \in 1..a
      BY <2>2, <2>12
    <3>2. G[l + 1][(a \div 2) + 1] = Hash(G[l][a], G[l][a + 1])
      BY <2>10, <3>1
    <3>3. node[l + 1] = Hash(filled[l], node[l]) /\ filled[l] = L[l][a]
      BY <2>4, <2>8, <2>9, <2>12
    <3>4. node[l + 1] = G[l + 1][(a \div 2) + 1]
      BY <2>3, <2>7, <3>1, <3>2, <3>3
    <3> QED
      BY <2>1, <2>2, <3>4
  <2> QED
    BY <2>11, <2>12
<1> HIDE DEF A
<1>6. \A l \in 0..Depth : l \in A
  BY <1>4, <1>5, LevelInduction
<1> QED
  BY <1>6 DEF A, n, grown
=============================================================================
