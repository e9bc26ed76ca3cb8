-------------------------- MODULE WindowCrawlProofs --------------------------
(***************************************************************************)
(* The crawl skips no ledger and fetches no event twice, for every window  *)
(* size, every uint32 width and every length of the chain.                 *)
(***************************************************************************)
EXTENDS WindowCrawl, LedgerWindowProofs

\* The crawl never gets ahead of the chain, and started behind it.
CrawlInv ==
  /\ TypeOK
  /\ start >= 1 /\ start <= from /\ from <= latest + 1
  /\ NothingSkipped
  /\ NothingFetchedTwice

LEMMA CrawlInit == Init => CrawlInv
<1> SUFFICES ASSUME Init PROVE CrawlInv
  OBVIOUS
<1> USE WindowAssumption, CrawlAssumption
<1>1. BatchCursor(from) = from - 1
  BY DEF Init, BatchCursor, Wrap
<1> QED
  BY <1>1 DEF Init, CrawlInv, TypeOK, NothingSkipped, NothingFetchedTwice, Uint32

LEMMA CrawlStep == CrawlInv /\ [Next]_vars => CrawlInv'
<1> SUFFICES ASSUME CrawlInv, [Next]_vars PROVE CrawlInv'
  OBVIOUS
<1> USE WindowAssumption, CrawlAssumption
<1>1. CASE CloseLedger
  BY <1>1 DEF CloseLedger, CrawlInv, TypeOK, NothingSkipped,
              NothingFetchedTwice, BatchCursor, Wrap, Uint32
<1>2. ASSUME NEW last \in from..latest,
             from <= latest, Window >= from,
             from' = NextFrom(Window, last),
             read' = read \cup from..Greater(Lesser(Window, latest), last),
             top' \in {top, last},
             UNCHANGED <<start, latest>>
      PROVE  CrawlInv'
  <2>1. /\ from' \in (from + 1)..(latest + 1)
        /\ from' > last
        /\ BatchCursor(from') = from' - 1
        /\ \/ from' = last + 1
           \/ from' = Window + 1 /\ Window >= last /\ Window <= latest
    BY <1>2, WindowAdvances DEF CrawlInv, TypeOK, Window, Uint32
  <2>2. Window \in Uint32
    BY <1>2, WindowNotEmpty DEF CrawlInv, TypeOK, Window, Uint32
  <2>3. from..(from' - 1) \subseteq read'
    BY <1>2, <2>1, <2>2 DEF Greater, Lesser, Uint32, CrawlInv, TypeOK
  <2>4. NothingSkipped'
    BY <1>2, <2>1, <2>3 DEF CrawlInv, TypeOK, NothingSkipped, Uint32
  <2>5. read' \subseteq 1..LastClosed
    BY <1>2, <2>2 DEF CrawlInv, TypeOK, Greater, Lesser, Uint32
  <2>6. NothingFetchedTwice'
    BY <1>2, <2>1 DEF CrawlInv, TypeOK, NothingFetchedTwice, Uint32
  <2> QED
    BY <1>2, <2>1, <2>4, <2>5, <2>6 DEF CrawlInv, TypeOK, Uint32
<1>3. CASE Poll
  BY <1>2, <1>3 DEF Poll
<1>4. CASE PollEmpty
  <2> /\ from \in Uint32 /\ latest \in Uint32 /\ latest < MaxUint32
      /\ from <= latest /\ from \in from..latest
    BY <1>4 DEF PollEmpty, CrawlInv, TypeOK, Uint32
  <2>1. from' = NextFrom(Window, from)
    <3>1. NextFrom(Window, from) \in (from + 1)..(latest + 1)
      BY WindowAdvances DEF Window
    <3> QED
      BY <1>4, <3>1 DEF PollEmpty, Greater, Uint32
  <2>2. Greater(Lesser(Window, latest), from) = Lesser(Window, latest)
    <3>1. Window \in Uint32 /\ Window >= from
      BY WindowNotEmpty DEF Window
    <3> QED
      BY <3>1 DEF Greater, Lesser, Uint32
  <2> QED
    <3>1. /\ from <= latest /\ Window >= from
          /\ read' = read \cup from..Greater(Lesser(Window, latest), from)
          /\ top' \in {top, from} /\ UNCHANGED <<start, latest>>
      BY <1>4, <2>2 DEF PollEmpty
    <3> QED
      BY <1>2, <2>1, <3>1
<1>5. CASE UNCHANGED vars
  BY <1>5 DEF vars, CrawlInv, TypeOK, NothingSkipped, NothingFetchedTwice, BatchCursor
<1> QED
  BY <1>1, <1>3, <1>4, <1>5 DEF Next

THEOREM CrawlInvariant == Spec => []CrawlInv
BY CrawlInit, CrawlStep, PTL DEF Spec

\* The ledger numbers keep their types up to the last uint32, where the next
\* one wraps, for every window size.
THEOREM CrawlTypeCorrect == Spec => []TypeOK
BY CrawlInvariant, PTL DEF CrawlInv

\* pollLoop leaves no closed ledger out.
THEOREM CrawlSkipsNothing == Spec => []NothingSkipped
BY CrawlInvariant, PTL DEF CrawlInv

\* pollLoop neither fetches an event again nor commits behind one.
THEOREM CrawlFetchesOnce == Spec => []NothingFetchedTwice
BY CrawlInvariant, PTL DEF CrawlInv
=============================================================================
