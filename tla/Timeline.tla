------------------------------ MODULE Timeline ------------------------------
(***************************************************************************)
(* What the two videos of ui/src share: a frame draws a set of elements,   *)
(* each of which comes in over a span of frames.  An eased progress or a   *)
(* spring is 0 up to the first frame of its span and at its target from    *)
(* the last one on; what it does in between is left out.                   *)
(***************************************************************************)
EXTENDS Integers, FiniteSets, FiniteSetsExt

\* po, in frames: how far frame f is into the span.
Progress(f, from, to) == Max({0, Min({f - from, to - from})})

\* The i-th element of its kind.
Element(kind, i, from, to) == [kind |-> kind, of |-> i, from |-> from, to |-> to]
Spring(kind, i, from, duration) == Element(kind, i, from, from + duration)

Drawn(elements, f) == {x \in elements : Progress(f, x.from, x.to) > 0}
Complete(elements, f) ==
  \A x \in elements : Progress(f, x.from, x.to) = x.to - x.from
OfKind(elements, kind) == {x \in elements : x.kind = kind}
Name(x) == <<x.kind, x.of>>

\* Both trees number their nodes from the root down, left to right, and an
\* edge like the node at its lower end.
Parent(i) == (i - 1) \div 2
Within(element, elements) == Name(element) \in {Name(x) : x \in elements}
=============================================================================
