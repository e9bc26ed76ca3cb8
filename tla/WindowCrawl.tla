----------------------------- MODULE WindowCrawl -----------------------------
(***************************************************************************)
(* pollLoop and fetchPage reduced to their ledger numbers: one Poll is a   *)
(* tick whose fetchPage succeeds, whatever it returns.  This is where the  *)
(* window arithmetic of LedgerWindow meets the end of the uint32 range;    *)
(* Ingestion composes the same operators with everything else, far from    *)
(* that end.                                                               *)
(***************************************************************************)
EXTENDS LedgerWindow

CONSTANT LastClosed     \* the last ledger the network closes

ASSUME CrawlAssumption == LastClosed \in 1..(MaxUint32 - 1)

VARIABLES
  start,    \* where the crawl began
  from,     \* *from
  latest,   \* what getLatestLedger returns
  read,     \* the closed ledgers whose events have been asked for
  top       \* the last ledger an event of which has been fetched

vars == <<start, from, latest, read, top>>

TypeOK ==
  /\ start \in Uint32 /\ from \in Uint32
  /\ latest \in 1..LastClosed /\ top \in 0..LastClosed
  /\ read \subseteq 1..LastClosed

Init ==
  /\ latest \in 1..LastClosed
  /\ start \in 1..latest
  /\ from = start
  /\ read = {} /\ top = start - 1

CloseLedger ==
  /\ latest < LastClosed
  /\ latest' = latest + 1
  /\ UNCHANGED <<start, from, read, top>>

\* The node refuses a window that ends before it starts.  Within the window,
\* or past it when pagination overshoots, the last event is at ledger last.
Window == EndLedger(from, latest)

Poll ==
  /\ from <= latest
  /\ Window >= from
  /\ \E last \in from..latest :
       /\ from' = NextFrom(Window, last)
       /\ read' = read \cup from..Greater(Lesser(Window, latest), last)
       /\ top' = last
  /\ UNCHANGED <<start, latest>>

PollEmpty ==
  /\ from <= latest
  /\ Window >= from
  /\ from' = Greater(from, NextFrom(Window, from))
  /\ read' = read \cup from..Lesser(Window, latest)
  /\ UNCHANGED <<start, latest, top>>

Next == CloseLedger \/ Poll \/ PollEmpty
Spec == Init /\ [][Next]_vars /\ WF_vars(Poll \/ PollEmpty)
-----------------------------------------------------------------------------
\* Every ledger before the next one to poll has been asked for: no window,
\* overshoot or end of the uint32 range leaves a ledger out.
NothingSkipped == start..(from - 1) \subseteq read

\* An event that was fetched is behind the next poll and not behind the
\* cursor that commits it: it is neither fetched again nor left uncovered.
NothingFetchedTwice == top < from /\ top <= BatchCursor(from)

\* A ledger that closes is passed: the windows always move on.
EveryLedgerPassed ==
  \A l \in 1..LastClosed : (start <= l /\ l <= latest) ~> from > l
=============================================================================
