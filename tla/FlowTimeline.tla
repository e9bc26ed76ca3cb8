---------------------------- MODULE FlowTimeline ----------------------------
(***************************************************************************)
(* MnemoxFlow (ui/src/MnemoxFlowComposition.tsx): three stages that fade   *)
(* into one another.  What stage s draws in frame f is Flow(s, f).         *)
(***************************************************************************)
EXTENDS Timeline, Bitwise

T_FADE == 20

Stages == 1..3

\* Mutant: the last stage starts when the one before has faded out.
StageInAfterFade(s) == <<0, 130, 290>>[s]
StageIn(s) == <<0, 130, 270>>[s]
StageOut(s) == <<150, 290, 450>>[s]

\* In twentieths.
StageOpacity(f, s) ==
  Min({Progress(f, StageIn(s), StageIn(s) + T_FADE),
       Progress(StageOut(s) - f, 0, T_FADE)})

\* The fade-in of the composition, in twelfths, and of the text of a stage.
GlobalFadeIn(f) == Progress(f, 0, 12)
Column(s) == Element("column", s, StageIn(s), StageIn(s) + 30)
-----------------------------------------------------------------------------
(***************************************************************************)
(* deterministicHex keeps the low digit of a 32-bit generator, which       *)
(* depends on nothing but the low digit before it.                         *)
(***************************************************************************)
HexSeed(f, seed) == (((f \div 4) * 9) % 16) ^^ ((seed * 14) % 16)
HexStep(digit) == (digit * 13 + 5) % 16
DeterministicHex(f, seed, len) ==
  LET h[i \in 0..len] == IF i = 0 THEN HexSeed(f, seed) ELSE HexStep(h[i - 1])
  IN [i \in 1..len |-> h[i]]
-----------------------------------------------------------------------------
\* The ledger problem: three hex lines, a retention that runs down, an alert.
Ttl(f) == Max({0, 100 - (55 * f) \div 100})

\* Mutant: seeds that differ by a multiple of eight.
HexSeedByEight(i) == i * 24 + 7
LineSeed(i) == i * 23 + 7
HexLine(f, i) == DeterministicHex(f, LineSeed(i), 64)

Stage1(f) == Drawn({Column(1), Element("alert", 0, 72, 73)}, f)

\* Atomic persistence: four blocks, seven readings, a note.  Mutants: blocks
\* that start over, a reading that comes too late.
NumBlocksCyclic(f) == ((f - 130) \div 16) % 5
NumBlocks(f) == Min({4, (f - 130) \div 16})
Block(i) == Element("block", i, 130 + i * 16, 150 + i * 16)

DelaysLate == <<30, 48, 62, 76, 90, 108, 126>>
Delays == <<30, 48, 62, 76, 90, 108, 122>>
Reading(i) == Element("reading", i, 130 + Delays[i], 146 + Delays[i])

Stage2(f) ==
  {b \in {Block(i) : i \in 0..3} : b.of < NumBlocks(f)}
  \cup Drawn({Column(2), Element("note", 0, 230, 250)}
             \cup {Reading(i) : i \in DOMAIN Delays}, f)

\* The Merkle tree: nodes 0 (root), 1-2, 3-6 and 7-14 (leaves).  Mutants: a
\* counter without a limit, leaves that come in slower than it counts.
LitLeavesUncapped(f) == (f - 270) \div 16
LitLeaves(f) == Min({8, (f - 270) \div 16})

LeafSlower(kind, i) == Spring(kind, i, 290 + (i - 7) * 18, 20)
Leaf(kind, i) == Spring(kind, i, 290 + (i - 7) * 16, 20)

Edge(i) ==
  CASE i >= 7 -> Leaf("edge", i)
    [] i \in 3..6 -> Element("edge", i, 350, 370)
    [] OTHER -> Element("edge", i, 380, 400)

Node(i) ==
  CASE i >= 7 -> Leaf("node", i)
    [] i = 0 -> Element("node", i, 400, 420)
    [] OTHER -> Element("node", i, 350, 370)

Stage3(f) ==
  Drawn({Column(3), Spring("pulse", 0, 370, 50), Element("badge", 0, 400, 420)}
        \cup {Node(i) : i \in 0..14} \cup {Edge(i) : i \in 1..14}, f)
-----------------------------------------------------------------------------
Flow(s, f) ==
  CASE StageOpacity(f, s) = 0 -> {}
    [] s = 1 -> Stage1(f)
    [] s = 2 -> Stage2(f)
    [] s = 3 -> Stage3(f)
=============================================================================
