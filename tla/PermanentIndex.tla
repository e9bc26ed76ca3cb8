--------------------------- MODULE PermanentIndex ---------------------------
(***************************************************************************)
(* What the sidecar promises of its store: a permanent index of the        *)
(* contract's events, complete up to a frontier that only moves forward,   *)
(* whatever happens to the process that builds it.  Nothing is said of     *)
(* windows, pages, buffers or restarts.                                    *)
(***************************************************************************)
EXTENDS Naturals, Sequences

CONSTANTS
  Contents,  \* the contents a ledger may have
  Start      \* the first ledger to index

VARIABLES
  chain,    \* the closed ledgers
  index,    \* the events indexed, by position on the chain
  frontier  \* the last ledger indexed, 0 before the first page

indexVars == <<chain, index, frontier>>

EventsUpTo(n) ==
  UNION {{<<l, i>> : i \in DOMAIN chain[l]} :
           l \in {k \in DOMAIN chain : Start <= k /\ k <= n}}

\* The network closes a ledger.
Close == \E contents \in Contents :
  chain' = Append(chain, contents) /\ UNCHANGED <<index, frontier>>

\* The frontier moves over closed ledgers, and takes all their events.
Extend == \E n \in DOMAIN chain :
  /\ n >= frontier
  /\ frontier' = n
  /\ index' = EventsUpTo(n)
  /\ UNCHANGED chain

Init ==
  /\ \E contents \in Contents : chain = <<contents>>
  /\ index = {}
  /\ frontier = 0

Spec == Init /\ [][Close \/ Extend]_indexVars
=============================================================================
