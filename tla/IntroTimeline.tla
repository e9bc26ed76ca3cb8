---------------------------- MODULE IntroTimeline ----------------------------
(***************************************************************************)
(* MnemoxIntro (ui/src/MnemoxIntro.tsx): a pipeline of events, a tree that *)
(* is built from the captured one, and a laser that lights a proof path.   *)
(* What frame f draws is Intro(f).                                         *)
(***************************************************************************)
EXTENDS Timeline

F2 == 120
F3 == 360
IsP3(f) == f >= F3

\* Phase 1.  The group is drawn while (1 - p)^3 > 0.01.
PipelineOpacity(f) == 20 - Progress(f, F2 - 10, F2 + 10)
Captured == Element("captured", 0, 52, 100)
Pipeline(f) ==
  IF 100 * PipelineOpacity(f)^3 <= 20^3 THEN {}
  ELSE {Element("stream", 0, -1, 0)} \cup Drawn({Captured}, f)

\* Phase 2: nodes 0 (root), 1-2 (mL, mR) and 3-6 (l0 to l3).
LeafSpring(i) == Spring("node", i, F2 + (i - 3) * 10, 18)

\* Mutant: the middle nodes come before the last edges below are drawn.
MidSpringEarly(i) == Spring("node", i, F2 + 104, 18)
MidSpring(i) == Spring("node", i, F2 + 114, 18)
BuiltNode(i) ==
  CASE i \in 3..6 -> LeafSpring(i)
    [] i \in 1..2 -> MidSpring(i)
    [] i = 0 -> Spring("node", i, F2 + 178, 22)

BuiltEdge(i) ==
  CASE i \in 3..4 -> Element("edge", i, F2 + 48, F2 + 98)
    [] i \in 5..6 -> Element("edge", i, F2 + 56, F2 + 106)
    [] i \in 1..2 -> Element("edge", i, F2 + 132, F2 + 172)

LeafCount(f) == (117 * Progress(f, F2, F3 - 18)) \div (F3 - 18 - F2)
Counter(f) ==
  IF f >= F2 + 8 /\ f < F3 THEN Drawn({Element("counter", 0, F2 + 8, F2 + 28)}, f)
  ELSE {}

\* Phase 3: the nodes fade in again among edges that stay.
Tree(f) ==
  CASE f < F2 - 8 -> {}
    [] IsP3(f) ->
         Drawn({Element("node", i, F3, F3 + 18) : i \in 0..6}, f)
         \cup {Element("edge", i, F3 - 1, F3) : i \in 1..6}
    [] OTHER ->
         Drawn({BuiltNode(i) : i \in 0..6} \cup {BuiltEdge(i) : i \in 1..6}, f)

X(i) == <<300, 148, 452, 72, 224, 376, 528>>[i + 1]

\* laserX > x, in steps of 1/132 of the way from -20 to 630.  Mutant: the
\* front of the beam counts, 35 ahead of its middle.
PassedByBeam(f, x) == 650 * Progress(f, F3, F3 + 132) > (x - 15) * 132
Passed(f, x) == 650 * Progress(f, F3, F3 + 132) > (x + 20) * 132
ProofPath == {0, 1, 3}
Lit(f) == IF IsP3(f) THEN {i \in ProofPath : Passed(f, X(i))} ELSE {}
Laser(f) == Drawn({Element("laser", 0, F3, F3 + 132)}, f)
Pulse(f) ==
  IF 0 \in Lit(f) THEN Drawn({Spring("pulse", 0, F3 + 134, 40)}, f) ELSE {}

Verdict == Element("verdict", 0, F3 + 148, F3 + 170)
VerdictFade(f) == Progress(f, F3 + 210, F3 + 228)
Verified(f) ==
  IF f >= F3 + 145 /\ VerdictFade(f) < 18 THEN Drawn({Verdict}, f) ELSE {}
-----------------------------------------------------------------------------
Intro(f) ==
  UNION {Pipeline(f), Tree(f), Laser(f), Pulse(f), Counter(f), Verified(f)}
=============================================================================
