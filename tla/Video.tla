-------------------------------- MODULE Video --------------------------------
(***************************************************************************)
(* The two compositions of ui/src/Root.tsx, played frame by frame.  A      *)
(* frame is a function of its number; the properties relate what is drawn  *)
(* at the same time, before and after by components and constants that     *)
(* know nothing of each other.                                             *)
(***************************************************************************)
EXTENDS FlowTimeline, IntroTimeline

VARIABLES
  composition,  \* the id of the composition
  frame,        \* useCurrentFrame
  gone          \* history: the names of what was drawn and no longer is

vars == <<composition, frame, gone>>

TOTAL == 600
DurationInFrames == [intro |-> TOTAL, flow |-> 450]

Screen(f) ==
  IF composition = "intro" THEN Intro(f) ELSE UNION {Flow(s, f) : s \in Stages}
Names(f) == {Name(x) : x \in Screen(f)}

Init ==
  /\ composition \in DOMAIN DurationInFrames
  /\ frame = 0
  /\ gone = {}

NextFrame ==
  /\ frame + 1 < DurationInFrames[composition]
  /\ frame' = frame + 1
  /\ gone' = gone \cup (Names(frame) \ Names(frame + 1))
  /\ UNCHANGED composition

Spec == Init /\ [][NextFrame]_vars
-----------------------------------------------------------------------------
InFlow == composition = "flow"
InIntro == composition = "intro"
OnScreen(s) == InFlow /\ StageOpacity(frame, s) > 0

\* Frames are of their composition, and so are the numbers a stage shows.
TypeOK ==
  /\ composition \in DOMAIN DurationInFrames
  /\ frame \in 0..(DurationInFrames[composition] - 1)
  /\ gone \subseteq {"column", "alert", "block", "reading", "note", "node",
       "edge", "pulse", "badge", "stream", "captured", "counter", "laser",
       "verdict"} \X (0..14)
  /\ OnScreen(1) => Ttl(frame) \in 1..100
  /\ OnScreen(2) => NumBlocks(frame) \in 0..4
  /\ OnScreen(3) => LitLeaves(frame) \in 0..8
  /\ InIntro => LeafCount(frame) \in 0..117

\* "cross-fade" (T_FADE): where stages overlap their opacities add up to one,
\* so no cut is darker than the stages, and after the first frame none of the
\* two videos is ever blank.
CrossFades ==
  /\ InFlow /\ frame \in T_FADE..(450 - T_FADE) =>
       /\ GlobalFadeIn(frame) = 12
       /\ MapThenSumSet(LAMBDA s : StageOpacity(frame, s), Stages) = T_FADE
  /\ frame > 0 => Screen(frame) # {}

\* "Merkle tree builds from base node up" (MnemoxIntro), "leaf→parent, then
\* parent→root" (Stage3): an edge rises from a node that is there, and in the
\* intro one that is at its full size; a node joins edges that are complete,
\* in the flow only the root does.  The frame at which the intro draws its
\* nodes anew is left out.
TreeGrowsUpward ==
  \A edge \in OfKind(Screen(frame), "edge") :
    LET lower == {x \in OfKind(Screen(frame), "node") : x.of = edge.of}
        upper == {x \in OfKind(Screen(frame), "node") : x.of = Parent(edge.of)}
    IN /\ frame # F3 \/ InFlow => lower # {}
       /\ InIntro /\ frame < F3 => Complete(lower, frame)
       /\ upper # {} /\ (InIntro \/ edge.of \in 1..2) => Complete({edge}, frame)

\* What has come in is complete before it goes: each stage when it starts to
\* fade out, the captured event when the pipeline does, the tree when the
\* proof begins, the verdict when it fades.
CompleteBeforeItGoes ==
  /\ InFlow => \A s \in Stages :
       frame >= StageOut(s) - T_FADE => Complete(Flow(s, frame), frame)
  /\ InIntro =>
       /\ frame >= F2 - 10 => Complete(Pipeline(frame), frame)
       /\ frame = F3 - 1 => Complete(Tree(frame) \cup Counter(frame), frame)
       /\ VerdictFade(frame) > 0 => Complete(Verified(frame), frame)

\* Nothing that has disappeared comes back, but for the nodes of the intro,
\* which are gone in the first frame of its proof phase and fade in again.
NothingReturns ==
  \A name \in gone \cap Names(frame) : InIntro /\ frame > F3 /\ name[1] = "node"

\* "LEAVES" of the flow: the counter is never behind the leaves of the tree,
\* and ahead of them by one leaf at most.
CounterTracksLeaves ==
  OnScreen(3) =>
    LitLeaves(frame)
      - Cardinality({x \in OfKind(Stage3(frame), "node") : x.of >= 7}) \in {0, 1}

\* "PROVING STATE // VERIFIED": the path of the proof lights from the leaf to
\* the root, each node when it is at its full size again, and the verdict
\* comes when all of it is lit and the laser is through.
VerdictFollowsProof ==
  InIntro =>
    /\ \A i \in Lit(frame) \ {3} : \E j \in Lit(frame) : Parent(j) = i
    /\ Lit(frame) # {} => Complete(OfKind(Tree(frame), "node"), frame)
    /\ Verified(frame) # {} =>
         Lit(frame) = ProofPath /\ Complete(Laser(frame), frame)

\* "hex stream": the lines of a frame differ, and every refresh changes each,
\* although the digits come from a generator with sixteen states.
HexLinesDiffer ==
  OnScreen(1) => \A i, j \in 0..2 :
    /\ i # j => HexLine(frame, i) # HexLine(frame, j)
    /\ HexLine(frame, i) # HexLine(frame + 4, i)
=============================================================================
