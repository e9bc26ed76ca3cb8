--------------------------- MODULE IngestionProofs ---------------------------
(***************************************************************************)
(* The pipeline, for every window, buffer and page size, every chain and   *)
(* every combination of faults: its variables keep their types and the     *)
(* channel its bound, and the cursor passes no event silently              *)
(* (NoSilentLoss), a power loss and an unreadable cursor included.         *)
(***************************************************************************)
EXTENDS Ingestion, LedgerWindowProofs, FiniteSetTheorems, SequenceTheorems

\* A bounded, nonempty set of naturals has a greatest element.
LEMMA Greatest ==
  ASSUME NEW S, S \subseteq Nat, S # {}, NEW b \in Nat, \A s \in S : s <= b
  PROVE  \E x \in S : \A y \in S : y <= x
<1> DEFINE T == {n \in Nat : b - n \in S}
<1>1. PICK s \in S : TRUE
  OBVIOUS
<1>2. b - s \in T
  BY <1>1
<1>3. PICK x \in T : \A y \in T : ~(<<y, x>> \in OpToRel(<, Nat))
  <2>1. T \subseteq Nat /\ T # {}
    BY <1>2
  <2> QED
    BY <2>1, NatLessThanWellFounded, WFMin
<1>4. \A y \in T : ~(y < x)
  BY <1>3 DEF OpToRel
<1>5. \A y \in S : b - y \in T
  OBVIOUS
<1> QED
  BY <1>4, <1>5

\* An event of the chain is a closed ledger and a position in it.
LEMMA ChainEventsDef ==
  ASSUME TypeOK
  PROVE  /\ ChainEvents \subseteq EventIds
         /\ \A e \in ChainEvents : /\ Ledger(e) \in 1..Len(chain)
                                   /\ Index(e) \in DOMAIN chain[Ledger(e)]
<1>1. chain \in Seq(Seq(Kinds)) /\ Len(chain) \in 1..MaxLedger
  BY IngestionAssumption DEF TypeOK
<1>2. \A l \in DOMAIN chain : l \in 1..Len(chain) /\ chain[l] \in Seq(Kinds)
  BY <1>1
<1>3. \A l \in DOMAIN chain : \A i \in DOMAIN chain[l] : i \in Nat \ {0}
  BY <1>2
<1>4. ASSUME NEW e \in ChainEvents
      PROVE  \E l \in DOMAIN chain : \E i \in DOMAIN chain[l] : e = <<l, i>>
  BY <1>4 DEF ChainEvents
<1> QED
  BY <1>1, <1>2, <1>3, <1>4, IngestionAssumption DEF EventIds, Ledger, Index

\* fetchPage's lastLedger is that of from and the events that comes last.
LEMMA LastLedgerIsLast ==
  ASSUME NEW E, E \subseteq EventIds, from \in Uint32
  PROVE  /\ LastLedger(E) \in Uint32
         /\ LastLedger(E) >= from
         /\ \A e \in E : Ledger(e) <= LastLedger(E)
         /\ LastLedger(E) = from \/ \E e \in E : LastLedger(E) = Ledger(e)
<1> DEFINE S == {from} \cup {Ledger(e) : e \in E}
<1>1. S \subseteq Nat /\ S # {} /\ S \subseteq Uint32
  BY IngestionAssumption, WindowAssumption DEF EventIds, Ledger, Uint32
<1>2. \A s \in S : s <= MaxUint32
  BY <1>1 DEF Uint32
<1>3. \E x \in S : \A y \in S : y <= x
  BY <1>1, <1>2, Greatest, WindowAssumption
<1>4. LastLedger(E) \in S /\ \A y \in S : y <= LastLedger(E)
  BY <1>3 DEF LastLedger
<1> QED
  BY <1>1, <1>4

\* What the RPC answers, or fails to answer, anchors at a uint32 ledger.
LEMMA OldestAvailableType ==
  ASSUME TypeOK
  PROVE  OldestAvailable \subseteq Uint32
<1>1. ProbedLedger(oldest) \in Uint32
  BY WrapType, WindowAssumption, IngestionAssumption DEF ProbedLedger, TypeOK, Uint32
<1>2. FallbackLedger(Latest) \in Uint32
  BY WrapType, WindowAssumption, IngestionAssumption
     DEF FallbackLedger, TypeOK, Uint32, Latest
<1> QED
  BY <1>1, <1>2, WindowAssumption DEF OldestAvailable, Uint32

LEMMA FrontierType ==
  ASSUME TypeOK
  PROVE  Frontier \in Uint32
<1>1. CASE pageCh # <<>>
  <2>1. pageCh \in Seq(Pages) /\ Len(pageCh) \in 1..Len(pageCh)
    BY <1>1 DEF TypeOK
  <2>2. pageCh[Len(pageCh)] \in Pages
    BY <2>1
  <2> QED
    BY <1>1, <2>2 DEF Frontier, Pages
<1>2. CASE pageCh = <<>>
  BY <1>2 DEF Frontier, TypeOK, Pages
<1> QED BY <1>1, <1>2

LEMMA TypeInit == Init => TypeOK
<1> SUFFICES ASSUME Init PROVE TypeOK
  OBVIOUS
<1> USE WindowAssumption, IngestionAssumption
<1>1. /\ 0 \in Uint32 /\ NoPage \in Pages
      /\ <<>> \in Seq(EventIds) /\ <<>> \in Seq(Pages) /\ Len(<<>>) = 0
  BY EmptySeq DEF Uint32, NoPage, Page, Pages
<1>2. chain \in Seq(LedgerContents) /\ Len(chain) = 1
  BY DEF Init
<1>3. /\ leaves \in Seq(EventIds)
      /\ pageCh \in Seq(Pages) /\ Len(pageCh) <= BufferDepth
  BY <1>1 DEF Init
<1>4. /\ batch \in Pages /\ from \in Uint32 /\ endLedger \in Uint32
      /\ nextFrom \in Uint32 /\ resumed \in Uint32 /\ cursor \in Uint32
      /\ synced \in [events : SUBSET EventIds, cursor : Uint32]
      /\ rewound \in Uint32
  BY <1>1 DEF Init, Uint32
<1>5. /\ oldest \in 1..MaxLedger /\ Len(chain) \in 1..MaxLedger
      /\ skipped \subseteq Nat
  BY <1>2 DEF Init
<1>6. /\ events \subseteq EventIds /\ failed \subseteq EventIds
      /\ fetched \subseteq EventIds /\ todo \subseteq EventIds
      /\ phase \in {"down", "rebuild", "serving", "stopping"}
      /\ producer \in {"off", "idle", "fetch", "send", "stopped"}
      /\ consumer \in {"off", "recv", "save", "insert", "drain", "done"}
  BY DEF Init
<1>7. cancelled \in BOOLEAN
  BY DEF Init
<1> QED
  BY <1>2, <1>3, <1>4, <1>5, <1>6, <1>7 DEF TypeOK

LEMMA TypeStep == TypeOK /\ [Next]_vars => TypeOK'
<1> SUFFICES ASSUME TypeOK, [Next]_vars PROVE TypeOK'
  OBVIOUS
<1> USE WindowAssumption, IngestionAssumption
<1> USE DEF env, disk, polling, working, history
<1>0. /\ 0 \in Uint32 /\ NoPage \in Pages
      /\ <<>> \in Seq(EventIds) /\ <<>> \in Seq(Pages) /\ Len(<<>>) = 0
  BY EmptySeq DEF Uint32, NoPage, Page, Pages
<1>1. ASSUME LoseMemory, UNCHANGED <<env, synced, skipped, failed, rewound>>,
             events' \subseteq EventIds, cursor' \in Uint32
      PROVE  TypeOK'
  <2>1. /\ leaves' \in Seq(EventIds)
        /\ pageCh' \in Seq(Pages)
    BY <1>0, <1>1 DEF LoseMemory
  <2>2. Len(pageCh') <= BufferDepth
    BY <1>0, <1>1 DEF LoseMemory
  <2>3. /\ batch' \in Pages /\ from' \in Uint32 /\ endLedger' \in Uint32
        /\ nextFrom' \in Uint32 /\ resumed' \in Uint32
    BY <1>0, <1>1 DEF LoseMemory
  <2> QED
    BY <1>1, <2>1, <2>2, <2>3 DEF LoseMemory, TypeOK
<1>2. CASE CloseLedger
  <2>1. PICK contents \in LedgerContents : chain' = Append(chain, contents)
    BY <1>2 DEF CloseLedger
  <2>2. chain' \in Seq(LedgerContents) /\ Len(chain') = Len(chain) + 1
    BY <2>1, AppendProperties DEF TypeOK
  <2> QED
    BY <1>2, <2>2 DEF CloseLedger, TypeOK, Latest
<1>3. CASE Prune
  BY <1>3 DEF Prune, TypeOK, Latest
<1>4. CASE Boot
  BY <1>4 DEF Boot, TypeOK
<1>5. CASE RebuildInsert
  BY <1>5, AppendProperties DEF RebuildInsert, TypeOK
<1>6. CASE RebuildFails
  BY <1>1, <1>6 DEF RebuildFails, TypeOK
<1>7. CASE StartRun
  <2>0. PICK c \in CursorReads : \E start \in StartFrom(c) :
          /\ from' = start /\ resumed' = start
          /\ skipped' = skipped \cup (cursor + 1)..(start - 1)
          /\ GoesBack(start, cursor)
    BY <1>7 DEF StartRun
  <2>1. PICK start \in StartFrom(c) :
          /\ from' = start /\ resumed' = start
          /\ skipped' = skipped \cup (cursor + 1)..(start - 1)
          /\ GoesBack(start, cursor)
    BY <2>0
  <2>2. start \in Uint32
    BY <2>1, OldestAvailableType, <1>0 DEF StartFrom, CursorReads, TypeOK
  <2>3. (cursor + 1)..(start - 1) \subseteq Nat
    BY <2>2 DEF TypeOK, Uint32
  <2>4. rewound' \in Uint32
    BY <2>1, <2>2 DEF GoesBack, Lesser, TypeOK
  <2> QED
    BY <1>7, <2>1, <2>2, <2>3, <2>4 DEF StartRun, TypeOK
<1>8. CASE Signal
  BY <1>8 DEF Signal, TypeOK
<1>9. CASE Exit \/ Crash
  BY <1>1, <1>9 DEF Exit, Crash, TypeOK
<1>10. CASE Poll
  <2>1. EndLedger(from, Latest) \in Uint32
    <3>1. from \in Uint32 /\ Latest \in Uint32 /\ from <= Latest
      BY <1>10 DEF Poll, CaughtUp, TypeOK, Latest, Uint32
    <3> QED
      BY <3>1, WindowNotEmpty
  <2> QED
    BY <1>10, <2>1 DEF Poll, TypeOK
<1>11. Remaining \subseteq EventIds
  BY ChainEventsDef DEF Remaining, EventsIn, EventsFrom
<1>12. CASE FetchMore
  BY <1>11, <1>12 DEF FetchMore, Answer, FirstN, TypeOK
<1>13. ASSUME NEW E, E \subseteq EventIds
       PROVE  NextFrom(endLedger, LastLedger(E)) \in Uint32
  <2>1. LastLedger(E) \in Uint32
    BY <1>13, LastLedgerIsLast DEF TypeOK
  <2>2. Wrap(endLedger + 1) \in Uint32 /\ Wrap(LastLedger(E) + 1) \in Uint32
    BY <2>1, WrapType DEF TypeOK, Uint32
  <2> QED
    BY <2>2 DEF NextFrom, Greater
<1>14. CASE FetchNothing
  BY <1>0, <1>13, <1>14 DEF FetchNothing, TypeOK, Greater
<1>15. CASE FetchLast
  <2>1. fetched \cup Answer(Remaining) \subseteq EventIds
    BY <1>11 DEF Answer, FirstN, TypeOK
  <2> QED
    BY <1>13, <1>15, <2>1 DEF FetchLast, TypeOK
<1>16. CASE Reanchor
  <2>1. PICK newFrom \in OldestAvailable :
          /\ from' = newFrom
          /\ skipped' \subseteq skipped \cup Greater(from, Frontier)..(newFrom - 1)
          /\ rewound' = rewound \/ GoesBack(newFrom, from)
    BY <1>16 DEF Reanchor
  <2>2. newFrom \in Uint32
    BY OldestAvailableType
  <2>3. Greater(from, Frontier)..(newFrom - 1) \subseteq Nat
    BY <2>2, FrontierType DEF Greater, TypeOK, Uint32
  <2>4. rewound' \in Uint32
    BY <2>1, <2>2 DEF GoesBack, Lesser, TypeOK
  <2> QED
    BY <1>0, <1>16, <2>1, <2>2, <2>3, <2>4 DEF Reanchor, TypeOK
<1>17. CASE FetchError
  BY <1>0, <1>17 DEF FetchError, TypeOK
<1>18. CASE Send
  <2>1. Page(fetched, nextFrom) \in Pages
    BY DEF Page, Pages, TypeOK
  <2>2. pageCh' \in Seq(Pages) /\ Len(pageCh') = Len(pageCh) + 1
    BY <1>18, <2>1, AppendProperties DEF Send, TypeOK
  <2> QED
    BY <1>0, <1>18, <2>2 DEF Send, CanSend, TypeOK
<1>19. CASE StopPolling
  BY <1>0, <1>19 DEF StopPolling, TypeOK
<1>20. ASSUME pageCh # <<>>
       PROVE  /\ Head(pageCh) \in Pages
              /\ Tail(pageCh) \in Seq(Pages)
              /\ Len(Tail(pageCh)) <= BufferDepth
  BY <1>20, HeadTailProperties DEF TypeOK
<1>21. CASE Receive
  BY <1>20, <1>21 DEF Receive, TypeOK
<1>22. CASE SaveBatch
  <2>1. BatchCursor(batch.nextFrom) \in Uint32
    <3>1. batch.nextFrom \in Uint32
      BY DEF TypeOK, Pages
    <3> QED
      BY <3>1, WrapType DEF BatchCursor, Uint32
  <2> QED
    BY <1>22, <2>1 DEF SaveBatch, TypeOK, Pages
<1>23. CASE SaveFails
  BY <1>0, <1>23 DEF SaveFails, TypeOK, Pages
<1>24. CASE InsertLeaf
  BY <1>24, AppendProperties DEF InsertLeaf, TypeOK
<1>25. CASE PageDone \/ InsertFatal
  BY <1>0, <1>25 DEF PageDone, InsertFatal, TypeOK
<1>26. CASE Drain
  BY <1>20, <1>26 DEF Drain, TypeOK
<1>27. CASE RunReturns
  BY <1>27 DEF RunReturns, TypeOK
<1>28. CASE Checkpoint
  BY <1>28 DEF Checkpoint, Snapshot, TypeOK
<1>29. CASE PowerLoss
  <2>1. events' \subseteq EventIds /\ cursor' \in Uint32
    BY <1>29 DEF PowerLoss, TypeOK
  <2> QED
    BY <1>1, <1>29, <2>1 DEF PowerLoss
<1>30. CASE UNCHANGED vars
  BY <1>30 DEF vars, TypeOK
<1> QED
  BY <1>2, <1>3, <1>4, <1>5, <1>6, <1>7, <1>8, <1>9, <1>10, <1>12, <1>14,
     <1>15, <1>16, <1>17, <1>18, <1>19, <1>21, <1>22, <1>23, <1>24, <1>25,
     <1>26, <1>27, <1>28, <1>29, <1>30
     DEF Next, Process, Producer, Consumer, Environment

\* The pipeline stays within its types, and the channel within its capacity.
THEOREM TypeCorrect == Spec => []TypeOK
BY TypeInit, TypeStep, PTL DEF Spec
-----------------------------------------------------------------------------
(***************************************************************************)
(* No silent loss.  The strengthening follows an event on its way.         *)
(* Whatever lies before a position of the pipeline (the cursor, the page   *)
(* being saved, each page of the channel, the window about to be sent, the *)
(* ledger to poll next) is accounted for by what is in front of that       *)
(* position.                                                               *)
(***************************************************************************)

\* Accounted for on disk, or by the history variables.
Kept(e) == e \in events \cup failed \/ Ledger(e) \in skipped

\* Accounted for by the consumer, or by the first n pages of the channel.
InHand(e) == Kept(e) \/ (consumer = "save" /\ e \in batch.events)
InPages(e, n) == InHand(e) \/ \E j \in 1..n : e \in pageCh[j].events

\* The consumer still saves what it is sent.
Saving == consumer \notin {"drain", "done"}

\* A page ends within the closed ledgers.
Ends(n) == n \in 1..(Len(chain) + 1)

Idle ==
  /\ phase \in {"down", "rebuild"} =>
       pageCh = <<>> /\ producer = "off" /\ consumer = "off"
  /\ producer \notin {"fetch", "send"} => fetched = {}

Bounds ==
  /\ cursor <= Len(chain) /\ synced.cursor <= Len(chain)
  /\ consumer = "save" => Ends(batch.nextFrom)
  /\ \A k \in 1..Len(pageCh) : Ends(pageCh[k].nextFrom)
  /\ producer = "send" => Ends(nextFrom)
  /\ producer = "fetch" =>
       /\ from <= Len(chain) /\ from <= endLedger
       /\ endLedger <= Len(chain) \/ endLedger = MaxUint32
       /\ \A e \in fetched : Ledger(e) <= Len(chain)

\* A power loss takes the disk back to a state that was also accounted for.
SyncedKept ==
  \A e \in ChainEvents : Ledger(e) <= synced.cursor =>
    e \in synced.events \cup failed \/ Ledger(e) \in skipped

BatchKept ==
  consumer = "save" =>
    \A e \in ChainEvents : Ledger(e) < batch.nextFrom => InHand(e)

PagesKept ==
  Saving => \A k \in 1..Len(pageCh) : \A e \in ChainEvents :
              Ledger(e) < pageCh[k].nextFrom => InPages(e, k)

\* The poller may still hand over a window: it is in one, or about to ask for
\* the next.  A cancelled poller asks for none.
Going == producer \in {"fetch", "send"} \/ (producer = "idle" /\ ~cancelled)

\* Nothing closed is left behind the poller; what it starts beyond, skipped.
PolledKept ==
  Saving /\ Going =>
    /\ \A e \in ChainEvents : Ledger(e) < from => InPages(e, Len(pageCh))
    /\ \A l \in (Len(chain) + 1)..(from - 1) : l \in skipped

SendKept ==
  producer = "send" =>
    \A e \in ChainEvents : from <= Ledger(e) /\ Ledger(e) < nextFrom => e \in fetched

LossInv ==
  /\ TypeOK /\ Idle /\ Bounds
  /\ NoSilentLoss /\ SyncedKept /\ BatchKept
  /\ PagesKept /\ PolledKept /\ SendKept
-----------------------------------------------------------------------------
\* Ledger numbers are naturals, and the chain ends before the uint32 range.
LEMMA Numbers ==
  ASSUME TypeOK
  PROVE  /\ Len(chain) \in Nat /\ Len(chain) < MaxUint32 /\ MaxUint32 \in Nat
         /\ from \in Nat /\ endLedger \in Nat
         /\ from \in Uint32 /\ Len(chain) \in Uint32
         /\ cursor \in Nat /\ synced.cursor \in Nat
         /\ \A e \in EventIds : Ledger(e) \in Nat
BY IngestionAssumption, WindowAssumption DEF TypeOK, Uint32, EventIds, Ledger

\* The chain has finitely many events, so a short page can be told by counting.
LEMMA ChainEventsFinite ==
  ASSUME TypeOK
  PROVE  IsFiniteSet(ChainEvents)
<1> DEFINE At(l) == {<<l, i>> : i \in DOMAIN chain[l]}
           All == {At(l) : l \in DOMAIN chain}
<1>1. chain \in Seq(Seq(Kinds)) /\ Len(chain) \in Nat
  BY IngestionAssumption DEF TypeOK
<1>2. ASSUME NEW l \in DOMAIN chain PROVE IsFiniteSet(At(l))
  <2> DEFINE n == Len(chain[l])
             g == [i \in 1..n |-> <<l, i>>]
  <2>1. n \in Nat /\ DOMAIN chain[l] = 1..n
    BY <1>1
  <2>2. g \in Surjection(1..n, At(l))
    BY <2>1 DEF Surjection
  <2>3. IsFiniteSet(1..n)
    BY <2>1, FS_Interval
  <2> QED
    BY <2>2, <2>3, FS_Surjection
<1>3. IsFiniteSet(All)
  <2> DEFINE h == [l \in 1..Len(chain) |-> At(l)]
  <2>1. DOMAIN chain = 1..Len(chain)
    BY <1>1
  <2>2. h \in Surjection(1..Len(chain), All)
    BY <2>1 DEF Surjection
  <2>3. IsFiniteSet(1..Len(chain))
    BY <1>1, FS_Interval
  <2> HIDE DEF All
  <2> QED
    BY <2>2, <2>3, FS_Surjection
<1>4. IsFiniteSet(UNION All)
  BY <1>2, <1>3, FS_UNION
<1> QED
  BY <1>4 DEF ChainEvents

\* An answer that is not a full page holds everything that remained.
LEMMA ShortAnswer ==
  ASSUME TypeOK, ~FullPage(Remaining)
  PROVE  Answer(Remaining) = Remaining
<1>1. Remaining \in SUBSET ChainEvents
  BY DEF Remaining, EventsIn, EventsFrom
<1>2. IsFiniteSet(Remaining)
  BY <1>1, ChainEventsFinite, FS_Subset
<1>3. Cardinality(Remaining) \in Nat /\ Cardinality(Remaining) < PageLimit
  BY <1>2, FS_CardinalityType, IngestionAssumption DEF FullPage
<1>4. ASSUME NEW e \in Remaining
      PROVE  Cardinality({f \in Remaining : Precedes(f, e)}) < PageLimit
  <2> DEFINE T == {f \in Remaining : Precedes(f, e)}
  <2>1. T \in SUBSET Remaining
    OBVIOUS
  <2> HIDE DEF T
  <2>2. /\ IsFiniteSet(T)
        /\ Cardinality(T) <= Cardinality(Remaining)
    BY <1>2, <2>1, FS_Subset
  <2>3. Cardinality(T) \in Nat
    BY <2>2, FS_CardinalityType
  <2>4. Cardinality(T) < PageLimit
    BY <1>3, <2>2, <2>3, IngestionAssumption
  <2> QED
    BY <2>4 DEF T
<1> QED
  BY <1>4 DEF Answer, FirstN

\* Where the poll after a window starts: behind the window, or behind the
\* last event; within what had closed in either case.
LEMMA WindowEnd ==
  ASSUME TypeOK, Bounds, producer = "fetch",
         NEW E, E \subseteq EventIds, \A e \in E : Ledger(e) <= Len(chain)
  PROVE  LET next == NextFrom(endLedger, LastLedger(E))
         IN  /\ Ends(next)
             /\ next > from
             /\ \/ next <= endLedger + 1 /\ endLedger <= Len(chain)
                \/ next = LastLedger(E) + 1
<1> DEFINE last == LastLedger(E)
<1>1. /\ last \in Uint32 /\ last >= from
      /\ last = from \/ \E e \in E : last = Ledger(e)
  BY LastLedgerIsLast DEF TypeOK
<1>2. /\ from <= Len(chain) /\ from <= endLedger
      /\ endLedger <= Len(chain) \/ endLedger = MaxUint32
  BY DEF Bounds
<1>3. /\ Len(chain) \in Nat /\ Len(chain) < MaxUint32 /\ MaxUint32 \in Nat
      /\ from \in Nat /\ endLedger \in Nat
  BY IngestionAssumption, WindowAssumption DEF TypeOK, Uint32
<1>4. last <= Len(chain) /\ last \in Nat
  BY <1>1, <1>2, <1>3 DEF Uint32
<1> HIDE DEF last
<1>5. Wrap(last + 1) = last + 1
  BY <1>3, <1>4 DEF Wrap
<1>6. Wrap(endLedger + 1) = IF endLedger = MaxUint32 THEN 0 ELSE endLedger + 1
  BY <1>2, <1>3 DEF Wrap
<1> QED
  BY <1>1, <1>2, <1>3, <1>4, <1>5, <1>6 DEF NextFrom, Greater, Ends, last
-----------------------------------------------------------------------------
\* Before the first boot nothing is passed.
LEMMA LossInit == Init => LossInv
<1> SUFFICES ASSUME Init PROVE LossInv
  OBVIOUS
<1>1. TypeOK
  BY TypeInit
<1>2. Len(chain) \in 1..MaxLedger /\ chain \in Seq(Seq(Kinds))
  BY <1>1, IngestionAssumption DEF TypeOK
<1>3. Idle /\ Bounds
  BY <1>2 DEF Init, Idle, Bounds
<1>4. \A e \in ChainEvents : Ledger(e) >= 1
  BY <1>1, <1>2, ChainEventsDef
<1>5. NoSilentLoss /\ SyncedKept
  BY <1>2, <1>4, ChainEventsDef, <1>1 DEF Init, NoSilentLoss, SyncedKept
<1>6. BatchKept /\ PagesKept /\ PolledKept /\ SendKept
  BY DEF Init, BatchKept, PagesKept, PolledKept, Going, SendKept
<1> QED
  BY <1>1, <1>3, <1>5, <1>6 DEF LossInv

\* What the process loses with its memory is not accounted for by it.
LEMMA LossOfMemory ==
  ASSUME LossInv, TypeOK', LoseMemory, UNCHANGED <<env, synced, skipped, failed>>,
         \/ UNCHANGED <<events, cursor>>
         \/ events' = synced.events /\ cursor' = synced.cursor
  PROVE  LossInv'
<1> USE DEF env
<1>1. ChainEvents' = ChainEvents
  BY DEF ChainEvents
<1>2. Idle' /\ Bounds'
  BY DEF LossInv, LoseMemory, Idle, Bounds
<1>3. NoSilentLoss' /\ SyncedKept'
  BY <1>1 DEF LossInv, NoSilentLoss, SyncedKept, Ledger
<1>4. BatchKept' /\ PagesKept' /\ PolledKept' /\ SendKept'
  BY DEF LoseMemory, BatchKept, PagesKept, PolledKept, Going, SendKept
<1> QED
  BY <1>2, <1>3, <1>4 DEF LossInv

\* A ledger that closes is in front of every position, or was skipped.
LEMMA LossClose ==
  ASSUME LossInv, TypeOK', CloseLedger
  PROVE  LossInv'
<1> USE DEF disk, polling, working, history
<1>1. PICK contents \in LedgerContents : chain' = Append(chain, contents)
  BY DEF CloseLedger
<1>2. /\ Len(chain) \in Nat /\ Len(chain') = Len(chain) + 1
      /\ \A l \in 1..Len(chain) : chain'[l] = chain[l]
      /\ DOMAIN chain = 1..Len(chain) /\ DOMAIN chain' = 1..(Len(chain) + 1)
  BY <1>1, AppendProperties DEF LossInv, TypeOK
<1>3. \A e \in ChainEvents' : e \in ChainEvents \/ Ledger(e) = Len(chain) + 1
  <2> SUFFICES ASSUME NEW e \in ChainEvents'
               PROVE  e \in ChainEvents \/ Ledger(e) = Len(chain) + 1
    OBVIOUS
  <2>1. PICK l \in DOMAIN chain' : \E i \in DOMAIN chain'[l] : e = <<l, i>>
    BY DEF ChainEvents
  <2>2. CASE l \in DOMAIN chain
    BY <1>2, <2>1, <2>2 DEF ChainEvents
  <2>3. CASE l = Len(chain) + 1
    BY <2>1, <2>3 DEF Ledger
  <2> QED
    BY <1>2, <2>1, <2>2, <2>3
<1>4. Idle' /\ Bounds'
  <2>1. UNCHANGED <<disk, phase, polling, pageCh, working>>
    BY DEF CloseLedger
  <2>2. /\ cursor \in Nat /\ synced.cursor \in Nat
        /\ from \in Nat /\ endLedger \in Nat
        /\ \A e \in fetched : Ledger(e) \in Nat
    <3>1. TypeOK
      BY DEF LossInv
    <3>2. fetched \subseteq EventIds
      BY <3>1 DEF TypeOK
    <3> QED
      BY <3>1, <3>2, Numbers
  <2>3. Idle /\ Bounds
    BY DEF LossInv
  <2>4. Idle'
    BY <2>1, <2>3 DEF Idle
  <2>5. \A m : Ends(m) => Ends(m)'
    BY <1>2, <2>1 DEF Ends
  <2>6. Bounds'
    BY <1>2, <2>1, <2>2, <2>3, <2>5 DEF Bounds, Ledger
  <2> QED
    BY <2>4, <2>6
<1>5. NoSilentLoss' /\ SyncedKept'
  BY <1>2, <1>3 DEF LossInv, CloseLedger, NoSilentLoss, SyncedKept, Bounds,
     TypeOK, Uint32, Ledger
<1>6. \A e, n : InHand(e)' = InHand(e) /\ InPages(e, n)' = InPages(e, n)
  BY DEF CloseLedger, InPages, InHand, Kept, Ledger
<1>7. BatchKept' /\ SendKept'
  BY <1>2, <1>3, <1>6 DEF LossInv, CloseLedger, BatchKept, SendKept, Bounds, Ends, Ledger
<1>8. PagesKept'
  BY <1>2, <1>3, <1>6 DEF LossInv, CloseLedger, PagesKept, Saving, Bounds, Ends, Ledger
<1>9. PolledKept'
  <2> SUFFICES ASSUME Saving, Going
               PROVE  /\ \A e \in ChainEvents' : Ledger(e) < from => InPages(e, Len(pageCh))
                      /\ \A l \in (Len(chain) + 2)..(from - 1) : l \in skipped
    BY <1>2, <1>6 DEF CloseLedger, PolledKept, Going, Saving, Ledger
  <2>1. /\ \A e \in ChainEvents : Ledger(e) < from => InPages(e, Len(pageCh))
        /\ \A l \in (Len(chain) + 1)..(from - 1) : l \in skipped
    BY DEF LossInv, PolledKept
  <2>2. from \in Nat
    BY DEF LossInv, TypeOK, Uint32
  <2>3. ASSUME NEW e \in ChainEvents', Ledger(e) < from, Ledger(e) = Len(chain) + 1
        PROVE  InPages(e, Len(pageCh))
    BY <1>2, <2>1, <2>2, <2>3 DEF InPages, InHand, Kept
  <2> QED
    BY <1>2, <1>3, <2>1, <2>2, <2>3
<1> QED
  BY <1>4, <1>5, <1>7, <1>8, <1>9 DEF LossInv

\* The process starts to poll behind what the store already accounts for.
LEMMA LossStart ==
  ASSUME LossInv, TypeOK', StartRun
  PROVE  LossInv'
<1> USE DEF env, disk, LossInv
<1>1. ChainEvents' = ChainEvents /\ \A e \in ChainEvents : Ledger(e) \in Nat
  BY ChainEventsDef DEF StartRun, ChainEvents
<1>2. PICK start \in Uint32 :
        from' = start /\ skipped' = skipped \cup (cursor + 1)..(start - 1)
  BY DEF StartRun, TypeOK
<1>3. pageCh = <<>> /\ Len(pageCh) = 0 /\ producer = "off" /\ consumer = "off"
  BY EmptySeq DEF StartRun, Idle
<1>4. cursor \in Nat /\ cursor <= Len(chain) /\ Len(chain) \in Nat /\ start \in Nat
  BY DEF TypeOK, Bounds, Uint32
<1>5. Idle' /\ Bounds'
  BY <1>3 DEF StartRun, Idle, Bounds, Ends
<1>6. NoSilentLoss' /\ SyncedKept'
  BY <1>1, <1>2 DEF StartRun, NoSilentLoss, SyncedKept, Ledger
<1>7. BatchKept' /\ PagesKept' /\ SendKept'
  BY <1>3 DEF StartRun, BatchKept, PagesKept, SendKept
<1>8. ASSUME NEW e \in ChainEvents, Ledger(e) < start
      PROVE  InPages(e, Len(pageCh))'
  <2>1. CASE Ledger(e) <= cursor
    BY <1>2, <2>1 DEF StartRun, NoSilentLoss, InPages, InHand, Kept, Ledger
  <2>2. CASE Ledger(e) > cursor
    <3>1. Ledger(e) \in (cursor + 1)..(start - 1)
      BY <1>1, <1>4, <1>8, <2>2
    <3> QED
      BY <1>2, <3>1 DEF InPages, InHand, Kept, Ledger
  <2> QED
    BY <1>1, <1>4, <2>1, <2>2
<1>9. PolledKept'
  BY <1>1, <1>2, <1>4, <1>8 DEF StartRun, PolledKept, Going, Ledger
<1> QED
  BY <1>5, <1>6, <1>7, <1>9

\* The producer moves on only behind what it has sent.
LEMMA LossFetch ==
  ASSUME LossInv, TypeOK',
         Poll \/ FetchMore \/ FetchNothing \/ FetchLast \/ FetchError
  PROVE  LossInv'
<1> USE DEF env, disk, working, history, LossInv
<1>0. UNCHANGED <<env, disk, phase, pageCh, working, cancelled, history>>
  BY DEF Poll, FetchMore, FetchNothing, FetchLast, FetchError
<1>1. /\ ChainEvents' = ChainEvents
      /\ \A e \in ChainEvents : Ledger(e) \in 1..Len(chain)
      /\ ChainEvents \subseteq EventIds
  BY <1>0, ChainEventsDef DEF ChainEvents
<1>2. \A e, n : InHand(e)' = InHand(e) /\ InPages(e, n)' = InPages(e, n)
  BY <1>0 DEF InPages, InHand, Kept, Ledger
<1>3. NoSilentLoss' /\ SyncedKept' /\ BatchKept' /\ PagesKept'
  BY <1>0, <1>1, <1>2 DEF NoSilentLoss, SyncedKept, BatchKept, PagesKept, Saving, Ledger
<1>4. Idle' /\ producer \in {"idle", "fetch"}
  BY <1>0 DEF Idle, Poll, FetchMore, FetchNothing, FetchLast, FetchError
<1>5. /\ Len(chain) \in Nat /\ Len(chain) < MaxUint32 /\ MaxUint32 \in Nat
      /\ from \in Nat /\ endLedger \in Nat
      /\ from \in Uint32 /\ Len(chain) \in Uint32
  BY Numbers
<1>6. Remaining \subseteq ChainEvents
  BY DEF Remaining, EventsIn, EventsFrom
<1>7. CASE Poll
  <2>1. from \in Uint32 /\ Latest \in Uint32 /\ from <= Latest
    BY <1>5, <1>7 DEF Poll, CaughtUp, Latest
  <2>2. \A e \in fetched : Ledger(e) <= Len(chain)
    BY <1>7 DEF Poll, Idle
  <2>3. Bounds'
    BY <1>0, <1>7, <2>1, <2>2, WindowNotEmpty DEF Poll, Bounds, Ends, Latest
  <2>4. PolledKept' /\ SendKept'
    BY <1>0, <1>1, <1>2, <1>7 DEF Poll, PolledKept, Going, SendKept, Saving, Ledger
  <2> QED
    BY <1>3, <1>4, <2>3, <2>4
<1>8. CASE FetchMore
  <2>1. Bounds'
    BY <1>0, <1>1, <1>6, <1>8 DEF FetchMore, Answer, FirstN, Bounds, Ends
  <2>2. PolledKept' /\ SendKept'
    BY <1>0, <1>1, <1>2, <1>8 DEF FetchMore, PolledKept, Going, SendKept, Saving, Ledger
  <2> QED
    BY <1>3, <1>4, <2>1, <2>2
<1> DEFINE next(E) == NextFrom(endLedger, LastLedger(E))
<1>9. CASE FetchNothing
  <2>1. /\ Ends(next({})) /\ next({}) > from
        /\ \/ next({}) <= endLedger + 1
           \/ next({}) = LastLedger({}) + 1
    BY <1>9, WindowEnd DEF FetchNothing
  <2>2. LastLedger({}) = from
    BY LastLedgerIsLast DEF TypeOK
  <2>3. next({}) <= endLedger + 1 /\ next({}) \in 1..(Len(chain) + 1)
    BY <1>5, <1>9, <2>1, <2>2 DEF FetchNothing, Bounds, Ends
  <2>4. from' = next({})
    BY <1>5, <1>9, <2>1 DEF FetchNothing, Greater, Ends
  <2>5. \A e \in ChainEvents : ~(from <= Ledger(e) /\ Ledger(e) <= endLedger)
    BY <1>9 DEF FetchNothing, Remaining, EventsIn, EventsFrom
  <2>6. \A e \in ChainEvents : Ledger(e) < next({}) => Ledger(e) < from
    BY <1>1, <1>5, <2>3, <2>5
  <2>7. PolledKept'
    BY <1>0, <1>1, <1>2, <1>4, <1>5, <1>9, <2>3, <2>4, <2>6
       DEF FetchNothing, PolledKept, Going, Saving, Ledger
  <2>8. Bounds' /\ SendKept'
    BY <1>0, <1>9 DEF FetchNothing, Bounds, Ends, SendKept
  <2> QED
    BY <1>3, <1>4, <2>7, <2>8
<1>10. CASE FetchLast
  <2> DEFINE E == fetched \cup Remaining
  <2>1. Answer(Remaining) = Remaining
    BY <1>10, ShortAnswer DEF FetchLast
  <2>2. fetched' = E /\ nextFrom' = next(E)
    BY <1>10, <2>1 DEF FetchLast
  <2>3. E \subseteq EventIds /\ \A e \in E : Ledger(e) <= Len(chain)
    BY <1>1, <1>6, <1>10 DEF FetchLast, Bounds, TypeOK
  <2>4. /\ Ends(next(E))
        /\ \/ next(E) <= endLedger + 1
           \/ next(E) = LastLedger(E) + 1
    BY <1>10, <2>3, WindowEnd DEF FetchLast
  <2>5. ASSUME NEW e \in ChainEvents, from <= Ledger(e), Ledger(e) < next(E)
        PROVE  e \in E
    <3>1. CASE fetched # {}
      BY <2>5, <3>1 DEF Remaining, EventsFrom
    <3>2. CASE fetched = {}
      <4>1. E = EventsIn(from, endLedger)
        BY <3>2 DEF Remaining
      <4>2. \A f \in E : Ledger(f) <= endLedger
        BY <4>1 DEF EventsIn
      <4>3. LastLedger(E) <= endLedger /\ LastLedger(E) \in Nat
        <5>1. from <= endLedger /\ from \in Uint32
          BY <1>5, <1>10 DEF FetchLast, Bounds
        <5>2. /\ LastLedger(E) \in Uint32
              /\ LastLedger(E) = from \/ \E f \in E : LastLedger(E) = Ledger(f)
          BY <2>3, <5>1, LastLedgerIsLast
        <5> HIDE DEF E, LossInv
        <5> QED
          BY <4>2, <5>1, <5>2 DEF Uint32
      <4>4. Ledger(e) <= endLedger
        <5> HIDE DEF E
        <5> QED
          BY <1>1, <1>5, <2>4, <2>5, <4>3 DEF Ends
      <4> QED
        BY <2>5, <4>1, <4>4 DEF EventsIn, EventsFrom
    <3> QED
      BY <3>1, <3>2
  <2>6. SendKept'
    BY <1>0, <1>1, <1>10, <2>2, <2>5 DEF FetchLast, SendKept, Ledger
  <2>7. PolledKept'
    BY <1>0, <1>1, <1>2, <1>10 DEF FetchLast, PolledKept, Going, Saving, Ledger
  <2>8. Bounds'
    BY <1>0, <1>10, <2>2, <2>4 DEF FetchLast, Bounds, Ends
  <2> QED
    BY <1>3, <1>4, <2>6, <2>7, <2>8
<1>11. CASE FetchError
  <2>1. Bounds' /\ SendKept'
    BY <1>0, <1>11 DEF FetchError, Bounds, Ends, SendKept
  <2>2. PolledKept'
    BY <1>0, <1>1, <1>2, <1>11 DEF FetchError, PolledKept, Going, Saving, Ledger
  <2> QED
    BY <1>3, <1>4, <2>1, <2>2
<1> QED
  BY <1>7, <1>8, <1>9, <1>10, <1>11

\* Re-anchoring records what it passes over, from the frontier on.
LEMMA LossReanchor ==
  ASSUME LossInv, TypeOK', Reanchor
  PROVE  LossInv'
<1> USE DEF env, disk, working, LossInv
<1>1. /\ ChainEvents' = ChainEvents
      /\ \A e \in ChainEvents : Ledger(e) \in 1..Len(chain)
  BY ChainEventsDef DEF Reanchor, ChainEvents
<1>2. PICK new \in Uint32 :
        /\ from' = new
        /\ skipped \subseteq skipped'
        /\ ~cancelled =>
             skipped' = skipped \cup Greater(from, Frontier)..(new - 1)
  BY OldestAvailableType DEF Reanchor
<1>3. /\ from \in Nat /\ Len(chain) \in Nat /\ new \in Nat /\ Frontier \in Nat
      /\ from <= Len(chain)
  BY Numbers, FrontierType DEF Reanchor, Bounds, Uint32
<1>4. \A e, n : InPages(e, n) => InPages(e, n)'
  BY <1>2 DEF Reanchor, InPages, InHand, Kept, Ledger
<1>5. \A e, n : InHand(e) => InHand(e)'
  BY <1>2 DEF Reanchor, InHand, Kept, Ledger
<1>6. NoSilentLoss' /\ SyncedKept' /\ BatchKept' /\ PagesKept' /\ SendKept'
  BY <1>1, <1>2, <1>4, <1>5
     DEF Reanchor, NoSilentLoss, SyncedKept, BatchKept, PagesKept, SendKept, Saving, Ledger
<1>7. Idle' /\ Bounds'
  BY DEF Reanchor, Idle, Bounds, Ends
<1>8. ASSUME Saving, ~cancelled, NEW e \in ChainEvents, Ledger(e) < new
      PROVE  InPages(e, Len(pageCh))'
  <2>1. CASE Ledger(e) < from
    BY <1>4, <1>8, <2>1 DEF Reanchor, PolledKept, Going
  <2>2. CASE Ledger(e) >= from /\ Ledger(e) >= Frontier
    <3>1. Ledger(e) \in Greater(from, Frontier)..(new - 1)
      BY <1>1, <1>3, <1>8, <2>2 DEF Greater
    <3> QED
      BY <1>2, <1>8, <3>1 DEF InPages, InHand, Kept, Ledger
  <2>3. CASE Ledger(e) < Frontier
    <3>1. CASE pageCh # <<>>
      <4>1. Len(pageCh) \in 1..Len(pageCh)
        BY <3>1 DEF TypeOK
      <4>2. InPages(e, Len(pageCh))
        BY <1>8, <2>3, <3>1, <4>1 DEF Frontier, PagesKept
      <4> QED
        BY <1>4, <4>2 DEF Reanchor
    <3>2. CASE pageCh = <<>> /\ consumer = "save"
      <4>1. InHand(e)
        BY <2>3, <3>2 DEF Frontier, BatchKept
      <4> QED
        BY <1>4, <4>1 DEF InPages
    <3>3. CASE pageCh = <<>> /\ consumer # "save"
      <4>1. Ledger(e) <= cursor
        BY <1>1, <1>3, <2>3, <3>3 DEF Frontier
      <4>2. InPages(e, Len(pageCh))
        BY <4>1 DEF NoSilentLoss, InPages, InHand, Kept
      <4> QED
        BY <1>4, <4>2 DEF Reanchor
    <3> QED
      BY <3>1, <3>2, <3>3
  <2> QED
    BY <1>1, <1>3, <2>1, <2>2, <2>3
<1>9. ASSUME Saving, ~cancelled, NEW l \in (Len(chain) + 1)..(new - 1)
      PROVE  l \in skipped'
  <2>1. Frontier <= Len(chain) + 1
    <3>1. CASE pageCh # <<>>
      <4>1. Len(pageCh) \in 1..Len(pageCh)
        BY <3>1 DEF TypeOK
      <4> QED
        BY <3>1, <4>1 DEF Frontier, Bounds, Ends
    <3>2. CASE pageCh = <<>>
      BY <1>3, <3>2 DEF Frontier, Bounds, Ends
    <3> QED
      BY <3>1, <3>2
  <2>2. l \in Greater(from, Frontier)..(new - 1)
    BY <1>3, <2>1 DEF Greater
  <2> QED
    BY <1>2, <1>9, <2>2
<1>10. PolledKept'
  BY <1>1, <1>2, <1>8, <1>9 DEF Reanchor, PolledKept, Going, Saving, Ledger
<1> QED
  BY <1>6, <1>7, <1>10

\* A page in the channel accounts for everything before the next poll.
LEMMA LossSend ==
  ASSUME LossInv, TypeOK', Send
  PROVE  LossInv'
<1> USE DEF env, disk, working, history, LossInv
<1> DEFINE p == Page(fetched, nextFrom)
<1>0. PICK n \in Nat : n = Len(pageCh)
  BY DEF TypeOK
<1>1. /\ ChainEvents' = ChainEvents
      /\ \A e \in ChainEvents : Ledger(e) \in 1..Len(chain)
  BY ChainEventsDef DEF Send, ChainEvents
<1>2. /\ Len(pageCh') = n + 1
      /\ \A k \in 1..n : pageCh'[k] = pageCh[k]
      /\ pageCh'[n + 1] = p
  <2>1. p \in Pages /\ pageCh \in Seq(Pages)
    BY DEF Page, Pages, TypeOK
  <2> QED
    BY <1>0, <2>1, AppendProperties DEF Send
<1>3. /\ from \in Nat /\ Len(chain) \in Nat /\ nextFrom \in 1..(Len(chain) + 1)
      /\ p.nextFrom = nextFrom /\ p.events = fetched
  BY Numbers DEF Send, Bounds, Ends, Page
<1>4. \A e : InHand(e)' = InHand(e)
  BY DEF Send, InHand, Kept, Ledger
<1>5. ASSUME NEW e, NEW k \in 0..n, InPages(e, k)
      PROVE  InPages(e, k)' /\ InPages(e, n + 1)'
  BY <1>2, <1>4, <1>5 DEF InPages
<1>6. Idle' /\ Bounds'
  BY <1>0, <1>2, <1>3 DEF Send, Idle, Bounds, Ends
<1>7. NoSilentLoss' /\ SyncedKept' /\ BatchKept' /\ SendKept'
  BY <1>1, <1>4 DEF Send, NoSilentLoss, SyncedKept, BatchKept, SendKept, Ledger
<1>8. ASSUME Saving, NEW e \in ChainEvents, Ledger(e) < nextFrom
      PROVE  InPages(e, n + 1)'
  <2>1. CASE Ledger(e) < from
    <3>1. InPages(e, n)
      BY <1>0, <1>8, <2>1 DEF Send, PolledKept, Going
    <3>2. n \in 0..n
      BY <1>2
    <3> QED
      BY <1>5, <3>1, <3>2
  <2>2. CASE Ledger(e) >= from
    <3>1. e \in p.events
      BY <1>3, <1>8, <2>2 DEF Send, SendKept
    <3> QED
      BY <1>2, <3>1 DEF InPages
  <2> QED
    BY <1>1, <1>3, <2>1, <2>2
<1>9. PagesKept'
  <2> SUFFICES ASSUME Saving, NEW k \in 1..(n + 1), NEW e \in ChainEvents,
                      Ledger(e) < pageCh'[k].nextFrom
               PROVE  InPages(e, k)'
    BY <1>1, <1>2 DEF Send, PagesKept, Saving, Ledger
  <2>1. CASE k \in 1..n
    <3>1. InPages(e, k)
      BY <1>0, <1>2, <2>1 DEF PagesKept
    <3> QED
      BY <1>2, <1>5, <2>1, <3>1
  <2>2. CASE k = n + 1
    <3>1. Ledger(e) < nextFrom
      BY <1>2, <1>3, <2>2
    <3> QED
      BY <1>8, <2>2, <3>1
  <2> QED
    BY <1>2, <2>1, <2>2
<1>10. PolledKept'
  <2>1. from' = nextFrom /\ chain' = chain /\ consumer' = consumer
    BY DEF Send
  <2> HIDE DEF LossInv
  <2> QED
    BY <2>1, <1>1, <1>2, <1>3, <1>8 DEF PolledKept, Saving, Ledger
<1> QED
  BY <1>6, <1>7, <1>9, <1>10

\* A page keeps what it accounts for when it leaves the channel.
LEMMA LossReceive ==
  ASSUME LossInv, TypeOK', Receive
  PROVE  LossInv'
<1> USE DEF env, disk, polling, history, LossInv
<1>0. PICK n \in Nat : n = Len(pageCh)
  BY DEF TypeOK
<1>1. ChainEvents' = ChainEvents
  BY DEF Receive, ChainEvents
<1>2. /\ n > 0 /\ Len(pageCh') = n - 1
      /\ \A k \in 1..(n - 1) : pageCh'[k] = pageCh[k + 1]
      /\ batch' = pageCh[1]
  <2>1. pageCh \in Seq(Pages) /\ pageCh # <<>>
    BY DEF Receive, TypeOK
  <2> QED
    BY <1>0, <2>1, HeadTailProperties DEF Receive
<1>3. consumer = "recv" /\ consumer' = "save"
  BY DEF Receive
<1>4. ASSUME NEW e, NEW k \in 1..n, InPages(e, k)
      PROVE  InPages(e, k - 1)'
  <2>1. CASE Kept(e)
    BY <2>1 DEF Receive, InPages, InHand, Kept, Ledger
  <2>2. CASE \E j \in 1..k : e \in pageCh[j].events
    <3>1. PICK j \in 1..k : e \in pageCh[j].events
      BY <2>2
    <3>2. CASE j = 1
      BY <1>2, <1>3, <3>1, <3>2 DEF InPages, InHand
    <3>3. CASE j > 1
      <4>1. j - 1 \in 1..(k - 1) /\ pageCh'[j - 1] = pageCh[j]
        BY <1>2, <3>3
      <4> QED
        BY <3>1, <4>1 DEF InPages
    <3> QED
      BY <3>2, <3>3
  <2> QED
    BY <1>3, <1>4, <2>1, <2>2 DEF InPages, InHand
<1>5. Saving /\ Saving'
  BY <1>3 DEF Saving
<1>6. Idle' /\ Bounds'
  <2>1. Ends(batch'.nextFrom)
    BY <1>0, <1>2 DEF Bounds
  <2>2. \A k \in 1..(n - 1) : Ends(pageCh'[k].nextFrom)
    BY <1>0, <1>2 DEF Bounds
  <2>3. Idle'
    BY DEF Receive, Idle
  <2> QED
    BY <1>2, <2>1, <2>2, <2>3 DEF Receive, Bounds, Ends
<1>7. NoSilentLoss' /\ SyncedKept' /\ SendKept'
  BY <1>1 DEF Receive, NoSilentLoss, SyncedKept, SendKept, Ledger
<1>8. BatchKept'
  <2> SUFFICES ASSUME NEW e \in ChainEvents, Ledger(e) < batch'.nextFrom
               PROVE  InHand(e)'
    BY <1>1 DEF BatchKept, Ledger
  <2>1. InPages(e, 1)
    BY <1>0, <1>2, <1>5 DEF PagesKept
  <2>2. InPages(e, 0)'
    BY <1>2, <1>4, <2>1
  <2> QED
    BY <2>2 DEF InPages
<1>9. PagesKept'
  <2> SUFFICES ASSUME NEW k \in 1..(n - 1), NEW e \in ChainEvents,
                      Ledger(e) < pageCh'[k].nextFrom
               PROVE  InPages(e, k)'
    BY <1>1, <1>2 DEF PagesKept, Ledger
  <2>1. InPages(e, k + 1) /\ k + 1 \in 1..n
    BY <1>0, <1>2, <1>5 DEF PagesKept
  <2>2. InPages(e, (k + 1) - 1)'
    BY <1>4, <2>1
  <2>3. (k + 1) - 1 = k
    OBVIOUS
  <2> QED
    BY <2>2, <2>3
<1>10. PolledKept'
  <2>1. /\ from' = from /\ chain' = chain /\ producer' = producer
        /\ cancelled' = cancelled /\ skipped' = skipped
    BY DEF Receive
  <2>2. ASSUME Going, NEW e \in ChainEvents, Ledger(e) < from
        PROVE  InPages(e, n - 1)'
    <3>1. InPages(e, n)
      BY <1>0, <1>5, <2>2 DEF PolledKept
    <3> QED
      BY <1>2, <1>4, <3>1
  <2>3. ASSUME Going, NEW l \in (Len(chain) + 1)..(from - 1)
        PROVE  l \in skipped
    BY <1>5, <2>3 DEF PolledKept
  <2> HIDE DEF LossInv
  <2> QED
    BY <1>1, <1>2, <2>1, <2>2, <2>3 DEF PolledKept, Going, Ledger
<1> QED
  BY <1>6, <1>7, <1>8, <1>9, <1>10

\* A saved page is on disk before the cursor passes it, a page that fails to
\* save is recorded as failed.
LEMMA LossSave ==
  ASSUME LossInv, TypeOK', SaveBatch \/ SaveFails
  PROVE  LossInv'
<1> USE DEF env, polling, LossInv
<1>0. UNCHANGED <<env, synced, phase, leaves, polling, pageCh, cancelled, skipped>>
  BY DEF SaveBatch, SaveFails, disk, history
<1>1. /\ ChainEvents' = ChainEvents
      /\ \A e \in ChainEvents : Ledger(e) \in 1..Len(chain)
  BY <1>0, ChainEventsDef DEF ChainEvents
<1>2. consumer = "save" /\ consumer' \in {"insert", "recv"}
  BY DEF SaveBatch, SaveFails
<1>3. events \cup failed \cup batch.events = events' \cup failed'
  BY DEF SaveBatch, SaveFails, disk, history
<1>4. /\ \A e : InHand(e) => Kept(e)'
      /\ \A e, n : InPages(e, n) => InPages(e, n)'
  BY <1>0, <1>2, <1>3 DEF InPages, InHand, Kept, Ledger
<1>5. cursor' = cursor \/ cursor' = batch.nextFrom - 1
  <2>1. batch.nextFrom \in 1..(Len(chain) + 1)
    BY <1>2 DEF Bounds, Ends
  <2>2. BatchCursor(batch.nextFrom) = batch.nextFrom - 1
    BY <2>1, Numbers DEF BatchCursor, Wrap
  <2> QED
    BY <2>2 DEF SaveBatch, SaveFails, disk
<1>6. batch.nextFrom \in 1..(Len(chain) + 1) /\ Len(chain) \in Nat
  BY <1>2, Numbers DEF Bounds, Ends
<1>7. Idle' /\ Bounds'
  <2>1. cursor' <= Len(chain)
    BY <1>5, <1>6 DEF Bounds
  <2>2. Idle'
    BY <1>0, <1>2 DEF Idle
  <2> QED
    BY <1>0, <1>2, <2>1, <2>2 DEF Bounds, Ends
<1>8. NoSilentLoss'
  <2> SUFFICES ASSUME NEW e \in ChainEvents, Ledger(e) <= cursor'
               PROVE  Kept(e)'
    BY <1>1 DEF NoSilentLoss, Kept, Ledger
  <2>1. CASE Ledger(e) <= cursor
    BY <1>4, <2>1 DEF NoSilentLoss, InHand, Kept
  <2>2. CASE Ledger(e) < batch.nextFrom
    BY <1>2, <1>4, <2>2 DEF BatchKept
  <2> QED
    BY <1>1, <1>5, <1>6, <2>1, <2>2
<1>9. SyncedKept'
  BY <1>0, <1>1, <1>3, SaveBatch \/ SaveFails
     DEF SyncedKept, SaveBatch, SaveFails, history, Ledger
<1>10. BatchKept' /\ PagesKept' /\ PolledKept' /\ SendKept'
  BY <1>0, <1>1, <1>2, <1>4
     DEF BatchKept, PagesKept, PolledKept, Going, SendKept, Saving, Ledger
<1> QED
  BY <1>7, <1>8, <1>9, <1>10

\* The other steps move nothing across a position.
LEMMA LossRest ==
  ASSUME LossInv, TypeOK',
         \/ Prune \/ Boot \/ RebuildInsert \/ Signal \/ StopPolling
         \/ InsertLeaf \/ PageDone \/ InsertFatal \/ RunReturns
         \/ Checkpoint \/ UNCHANGED vars
  PROVE  LossInv'
<1> USE DEF env, disk, polling, working, history, LossInv
<1> USE DEF Prune, Boot, RebuildInsert, Signal, StopPolling,
            InsertLeaf, PageDone, InsertFatal, RunReturns, Checkpoint, vars
<1>0. /\ UNCHANGED <<chain, events, cursor, from, pageCh, skipped, failed>>
      /\ synced' = synced \/ synced' = Snapshot
      /\ \/ UNCHANGED <<producer, endLedger, fetched, nextFrom>>
         \/ producer' = "stopped" /\ fetched' = {} /\ producer # "off"
      /\ \/ UNCHANGED consumer
         \/ consumer = "insert" /\ consumer' \in {"recv", "drain"}
         \/ consumer \in {"recv", "drain"} /\ consumer' = "done"
      /\ consumer' = "save" => batch' = batch
      /\ cancelled => cancelled'
      /\ \/ phase' = phase
         \/ phase = "down" /\ phase' = "rebuild" /\ UNCHANGED <<producer, consumer>>
         \/ phase = "serving" /\ phase' = "stopping"
  OBVIOUS
<1> USE DEF Snapshot
<1>1. ChainEvents' = ChainEvents
  BY <1>0 DEF ChainEvents
<1>2. consumer # "save" => consumer' # "save"
  BY <1>0
<1>3. \A e, n : /\ InHand(e)' = InHand(e)
                /\ InPages(e, n)' = InPages(e, n)
  <2>1. (consumer = "save") = (consumer' = "save") /\ (consumer = "save" => batch' = batch)
    BY <1>0
  <2> QED
    BY <1>0, <2>1 DEF InPages, InHand, Kept, Ledger
<1>4. Idle'
  BY <1>0 DEF Idle
<1>5. Bounds' /\ NoSilentLoss' /\ SyncedKept'
  BY <1>0, <1>1 DEF Bounds, Ends, NoSilentLoss, SyncedKept, Ledger
<1>6. BatchKept' /\ PagesKept' /\ PolledKept' /\ SendKept'
  BY <1>0, <1>1, <1>2, <1>3
     DEF BatchKept, PagesKept, PolledKept, Going, SendKept, Saving, Ledger
<1> QED
  BY <1>4, <1>5, <1>6

\* Pages that are drained are not accounted for, and nothing moves past them.
LEMMA LossDrain ==
  ASSUME LossInv, TypeOK', Drain
  PROVE  LossInv'
<1> USE DEF env, disk, polling, working, history, LossInv
<1>1. ChainEvents' = ChainEvents
  BY DEF Drain, ChainEvents
<1>2. /\ Len(pageCh') = Len(pageCh) - 1 /\ Len(pageCh) \in Nat
      /\ \A k \in 1..Len(pageCh') : pageCh'[k] = pageCh[k + 1]
  <2>1. pageCh \in Seq(Pages) /\ pageCh # <<>>
    BY DEF Drain, TypeOK
  <2> QED
    BY <2>1, HeadTailProperties DEF Drain
<1>3. Idle' /\ Bounds'
  BY <1>2 DEF Drain, Idle, Bounds, Ends
<1>4. NoSilentLoss' /\ SyncedKept' /\ SendKept'
  BY <1>1 DEF Drain, NoSilentLoss, SyncedKept, SendKept, Ledger
<1>5. BatchKept' /\ PagesKept' /\ PolledKept'
  BY DEF Drain, BatchKept, PagesKept, PolledKept, Saving
<1> QED
  BY <1>3, <1>4, <1>5

\* Every step preserves the accounting.
LEMMA LossStep == LossInv /\ [Next]_vars => LossInv'
<1> SUFFICES ASSUME LossInv, [Next]_vars PROVE LossInv'
  OBVIOUS
<1>0. TypeOK'
  BY TypeStep DEF LossInv
<1>1. CASE Process
  BY <1>0, <1>1, LossOfMemory, LossStart, LossRest
     DEF Process, RebuildFails, Exit, disk
<1>2. CASE Producer
  BY <1>0, <1>2, LossFetch, LossReanchor, LossSend, LossRest DEF Producer
<1>3. CASE Consumer
  BY <1>0, <1>3, LossReceive, LossSave, LossDrain, LossRest DEF Consumer
<1>4. CASE Environment
  BY <1>0, <1>4, LossClose, LossOfMemory, LossRest
     DEF Environment, Crash, PowerLoss, disk
<1> QED
  BY <1>0, <1>1, <1>2, <1>3, <1>4, LossRest DEF Next

\* The cursor passes no event that is not stored, was not in a page whose
\* SaveBatch failed, and lies in no ledger the streamer anchored past.
THEOREM NothingLostSilently == Spec => []NoSilentLoss
<1>1. LossInv => NoSilentLoss
  BY DEF LossInv
<1> QED
  BY LossInit, LossStep, <1>1, PTL DEF Spec
-----------------------------------------------------------------------------
(***************************************************************************)
(* What "anchored past" amounts to.  Where the RPC node answers the probe, *)
(* the streamer anchors ProbeBuffer ledgers inside the retention window,   *)
(* so all that it passes over is, or is about to be, forgotten by the node *)
(* itself; the rest it was told to leave out, by START_LEDGER.             *)
(***************************************************************************)
OutOfReach(l) == l < StartLedger \/ l < oldest + ProbeBuffer

OnlyOutOfReachSkipped == \A l \in skipped : OutOfReach(l)

\* Run starts with a fresh context.
FreshContext == phase \in {"down", "rebuild"} => ~cancelled

AnchorInv == LossInv /\ FreshContext /\ OnlyOutOfReachSkipped

\* An event that the cursor has passed and that the node still has, beyond
\* its oldest ledgers, is stored, or was in a page that failed to save.
ReachableIsStored ==
  \A e \in ChainEvents :
    StartLedger <= Ledger(e) /\ oldest + ProbeBuffer <= Ledger(e)
      /\ Ledger(e) <= cursor => e \in events \cup failed

\* The probe puts the anchor at most ProbeBuffer beyond what the node has.
LEMMA ProbeIsNear ==
  ASSUME TypeOK
  PROVE  /\ oldest \in Nat /\ ProbeBuffer \in Nat
         /\ ProbedLedger(oldest) <= oldest + ProbeBuffer
BY WindowAssumption, IngestionAssumption DEF TypeOK, ProbedLedger, Wrap, Uint32

LEMMA AnchorInit == Init => AnchorInv
BY LossInit DEF Init, AnchorInv, FreshContext, OnlyOutOfReachSkipped

LEMMA AnchorStep ==
  ASSUME "rpc" \notin Faults
  PROVE  AnchorInv /\ [Next]_vars => AnchorInv'
<1> SUFFICES ASSUME AnchorInv, [Next]_vars PROVE AnchorInv'
  OBVIOUS
<1> USE DEF env, disk, polling, working, history
<1>0. LossInv /\ TypeOK /\ FreshContext /\ OnlyOutOfReachSkipped
  BY DEF AnchorInv, LossInv
<1>1. LossInv' /\ TypeOK'
  BY <1>0, LossStep DEF LossInv
<1>2. /\ oldest \in Nat /\ ProbeBuffer \in Nat /\ StartLedger \in Nat
      /\ ProbedLedger(oldest) <= oldest + ProbeBuffer
      /\ skipped \subseteq Nat /\ cursor \in Nat /\ from \in Nat
      /\ Frontier \in Nat
  <2>1. Frontier \in Nat
    BY <1>0, FrontierType DEF Uint32
  <2>2. cursor \in Nat /\ from \in Nat /\ skipped \subseteq Nat
    BY <1>0, Numbers DEF TypeOK
  <2>3. StartLedger \in Nat
    BY IngestionAssumption DEF Uint32
  <2> QED
    BY <1>0, <2>1, <2>2, <2>3, ProbeIsNear
<1>3. ~cancelled => OldestAvailable = {ProbedLedger(oldest)}
  BY DEF OldestAvailable
<1>4. CASE StartRun
  <2>1. PICK c \in CursorReads : \E start \in StartFrom(c) :
          skipped' = skipped \cup (cursor + 1)..(start - 1)
    BY <1>4 DEF StartRun
  <2>2. PICK start \in StartFrom(c) :
          skipped' = skipped \cup (cursor + 1)..(start - 1)
    BY <2>1
  <2>3. ~cancelled /\ cancelled' = cancelled /\ oldest' = oldest
    BY <1>0, <1>4 DEF StartRun, FreshContext
  <2>4. \/ start = cursor
        \/ start = StartLedger
        \/ start = ProbedLedger(oldest)
    BY <1>3, <2>2, <2>3 DEF StartFrom, CursorReads
  <2>5. ASSUME NEW l \in (cursor + 1)..(start - 1) PROVE OutOfReach(l)
    <3>1. start \in Int
      BY <1>2, <2>4, <1>0, OldestAvailableType, <1>3, <2>3 DEF Uint32
    <3>2. l \in Int /\ cursor + 1 <= l /\ l <= start - 1
      BY <1>2, <2>5, <3>1
    <3> QED
      BY <1>2, <2>4, <3>1, <3>2 DEF OutOfReach
  <2>6. OnlyOutOfReachSkipped'
    BY <1>0, <2>2, <2>3, <2>5 DEF OnlyOutOfReachSkipped, OutOfReach
  <2> QED
    BY <1>1, <2>3, <2>6 DEF AnchorInv, FreshContext
<1>5. CASE Reanchor
  <2>1. PICK new \in OldestAvailable :
          skipped' = IF cancelled THEN skipped
                     ELSE skipped \cup Greater(from, Frontier)..(new - 1)
    BY <1>5 DEF Reanchor
  <2>2. phase' = phase /\ cancelled' = cancelled /\ oldest' = oldest
    BY <1>5 DEF Reanchor
  <2>3. ASSUME ~cancelled, NEW l \in Greater(from, Frontier)..(new - 1)
        PROVE  OutOfReach(l)
    <3>1. new = ProbedLedger(oldest) /\ new \in Int
      BY <1>3, <2>1, <2>3, <1>0, OldestAvailableType DEF Uint32
    <3>2. l \in Int /\ l <= new - 1
      BY <1>2, <2>3, <3>1 DEF Greater
    <3> QED
      BY <1>2, <3>1, <3>2 DEF OutOfReach
  <2>4. OnlyOutOfReachSkipped'
    BY <1>0, <2>1, <2>2, <2>3 DEF OnlyOutOfReachSkipped, OutOfReach
  <2> QED
    BY <1>0, <1>1, <2>2, <2>4 DEF AnchorInv, FreshContext
<1>6. CASE Prune
  <2>1. oldest' = oldest + 1 /\ skipped' = skipped
    BY <1>6 DEF Prune
  <2>2. OnlyOutOfReachSkipped'
    BY <1>0, <1>2, <2>1 DEF OnlyOutOfReachSkipped, OutOfReach
  <2> QED
    BY <1>0, <1>1, <1>6, <2>2 DEF Prune, AnchorInv, FreshContext
<1>7. CASE \/ CloseLedger \/ PowerLoss \/ Crash \/ Checkpoint
           \/ Boot \/ RebuildInsert \/ RebuildFails \/ Signal \/ Exit
           \/ UNCHANGED vars
  <2>1. oldest' = oldest /\ skipped' = skipped
    BY <1>7 DEF CloseLedger, PowerLoss, Crash, Checkpoint, Boot,
       RebuildInsert, RebuildFails, Signal, Exit, vars
  <2>2. FreshContext'
    BY <1>0, <1>7 DEF CloseLedger, PowerLoss, Crash, Checkpoint, Boot,
       RebuildInsert, RebuildFails, Signal, Exit, vars, LoseMemory,
       FreshContext
  <2> QED
    BY <1>0, <1>1, <2>1, <2>2 DEF AnchorInv, OnlyOutOfReachSkipped, OutOfReach
<1>8. CASE \/ Poll \/ FetchMore \/ FetchNothing \/ FetchLast \/ FetchError
           \/ Send \/ StopPolling \/ Consumer
  <2>1. /\ oldest' = oldest /\ skipped' = skipped /\ phase' = phase
        /\ producer # "off" \/ consumer # "off"
    BY <1>8 DEF Poll, FetchMore, FetchNothing, FetchLast, FetchError, Send,
       StopPolling, Consumer, Receive, SaveBatch, SaveFails, InsertLeaf,
       PageDone, InsertFatal, Drain, RunReturns
  <2>2. FreshContext'
    BY <1>0, <2>1 DEF LossInv, Idle, FreshContext
  <2> QED
    BY <1>0, <1>1, <2>1, <2>2 DEF AnchorInv, OnlyOutOfReachSkipped, OutOfReach
<1> QED
  BY <1>4, <1>5, <1>6, <1>7, <1>8 DEF Next, Process, Producer, Environment

\* Where the RPC node answers, or its errors are all taken for a stale start,
\* the excuse "anchored past" of NoSilentLoss covers only ledgers before
\* START_LEDGER and ledgers that the node has forgotten or will within
\* ProbeBuffer ledgers: however often pruning, crashes, power losses or an
\* unreadable cursor make the streamer anchor, no ledger in reach is left out.
THEOREM AnchoringLeavesNothingInReach ==
  ASSUME "rpc" \notin Faults
  PROVE  Spec => []ReachableIsStored
<1>1. AnchorInv /\ [Next]_vars => AnchorInv'
  BY AnchorStep
<1>2. ASSUME AnchorInv PROVE ReachableIsStored
  <2> SUFFICES ASSUME NEW e \in ChainEvents, StartLedger <= Ledger(e),
                      oldest + ProbeBuffer <= Ledger(e), Ledger(e) <= cursor
               PROVE  e \in events \cup failed
    BY DEF ReachableIsStored
  <2>1. Ledger(e) \in Nat /\ oldest \in Nat /\ ProbeBuffer \in Nat
        /\ StartLedger \in Nat
    BY <1>2, ChainEventsDef, ProbeIsNear, IngestionAssumption
       DEF AnchorInv, LossInv, Uint32
  <2>2. Ledger(e) \notin skipped
    BY <1>2, <2>1 DEF AnchorInv, OnlyOutOfReachSkipped, OutOfReach
  <2> QED
    BY <1>2, <2>2 DEF AnchorInv, LossInv, NoSilentLoss
<1> QED
  BY AnchorInit, <1>1, <1>2, PTL DEF Spec
=============================================================================
