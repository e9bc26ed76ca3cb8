----------------------------- MODULE StoreProofs ------------------------------
(***************************************************************************)
(* What the store owes the rest of the process, for every window, page and *)
(* buffer size, every chain and every combination of faults.               *)
(*                                                                         *)
(* The cursor row and the events table move together, and forwards, up to  *)
(* the lowest ledger that polling has gone back to.  SaveBatch stores      *)
(* whatever cursor its page carries, so what has to be shown is that pages *)
(* come in order: each ends behind the ones before it, although            *)
(* re-anchoring moves the poller away from them, forwards or backwards.    *)
(* Where a stale start moves it back, it is to ledgers the node no longer  *)
(* has, from where no page can come; every other way back (an error that   *)
(* is only taken for a stale start, a cursor that cannot be read) is on    *)
(* the record, rewound.                                                    *)
(*                                                                         *)
(* The live tree and the table hold the same commitments.  Here the gap is *)
(* the page in hand: what is stored and not yet a leaf is still to be      *)
(* inserted, in processLoop as in rebuildTree.                             *)
(***************************************************************************)
EXTENDS IngestionProofs

\* Every event of E lies before ledger n.
Before(E, n) == \A e \in E : Ledger(e) < n

\* Polling has gone back to ledger n, or to one before it.
WentBackTo(n) == rewound <= n

\* Nothing that is committed or on its way ends behind ledger n, or polling has
\* gone back there.
Behind(n) ==
  \/ WentBackTo(n)
  \/ /\ cursor <= n
     /\ consumer = "save" => batch.nextFrom <= n
     /\ \A k \in 1..Len(pageCh) : pageCh[k].nextFrom <= n

\* A page whose next ledger is n ends behind one whose next ledger is m, or
\* polling has gone back to before n.
After(n, m) == m < n \/ rewound < n

\* The events of a page lie before its end, on disk before the cursor.
Enclosed ==
  /\ CursorBoundsStore
  /\ synced.cursor < rewound =>
       \A e \in synced.events : Ledger(e) <= synced.cursor
  /\ consumer = "save" => Before(batch.events, batch.nextFrom)
  /\ \A k \in 1..Len(pageCh) : Before(pageCh[k].events, pageCh[k].nextFrom)
  /\ producer = "send" => Before(fetched, nextFrom)

\* Pages end one behind the other, all of them behind the cursor.
Ordered ==
  /\ consumer = "save" =>
       /\ After(batch.nextFrom, cursor)
       /\ \A k \in 1..Len(pageCh) : After(pageCh[k].nextFrom, batch.nextFrom)
  /\ \A k \in 1..Len(pageCh) : After(pageCh[k].nextFrom, cursor)
  /\ \A k \in 1..Len(pageCh) : \A j \in 1..(k - 1) :
       After(pageCh[k].nextFrom, pageCh[j].nextFrom)

\* The poller is behind every page, or at a ledger the node has forgotten.
\* In the latter case it gets no answer, so what it has read or is about to
\* send it read from behind every page.
Position ==
  /\ producer \in {"idle", "fetch", "send"} =>
       Behind(from) \/ (from < oldest /\ Behind(oldest))
  /\ producer = "fetch" /\ fetched # {} => Behind(from)
  /\ producer = "send" => Behind(from) /\ from < nextFrom

CursorInv == LossInv /\ Enclosed /\ Ordered /\ Position
-----------------------------------------------------------------------------
\* The ends of pages are naturals, so what is behind a ledger is behind any
\* later one.
LEMMA PageEnds ==
  ASSUME TypeOK
  PROVE  /\ cursor \in Nat /\ from \in Nat /\ oldest \in Nat /\ nextFrom \in Nat
         /\ rewound \in Nat /\ synced.cursor \in Nat
         /\ batch.nextFrom \in Nat
         /\ \A k \in 1..Len(pageCh) : pageCh[k].nextFrom \in Nat
<1>1. /\ rewound \in Uint32 /\ synced.cursor \in Uint32
      /\ cursor \in Uint32 /\ from \in Uint32 /\ nextFrom \in Uint32
      /\ oldest \in 1..MaxLedger /\ batch \in Pages /\ pageCh \in Seq(Pages)
  BY DEF TypeOK
<1>2. \A k \in 1..Len(pageCh) : pageCh[k] \in Pages
  BY <1>1
<1> QED
  BY <1>1, <1>2, IngestionAssumption, WindowAssumption DEF Pages, Uint32

LEMMA BehindLater ==
  ASSUME TypeOK, NEW m \in Nat, NEW n \in Nat, Behind(m), m <= n
  PROVE  Behind(n)
BY PageEnds DEF Behind, WentBackTo

\* The poller that gets an answer is behind every page.
LEMMA AnsweredBehind ==
  ASSUME TypeOK, Position, producer = "fetch", ~StaleStart
  PROVE  Behind(from)
<1>1. CASE fetched # {}
  BY <1>1 DEF Position
<1>2. CASE fetched = {}
  <2>1. LastLedger({}) = from
    BY LastLedgerIsLast DEF TypeOK
  <2>2. from \in Nat /\ oldest \in Nat
    BY PageEnds
  <2> QED
    BY <1>2, <2>1, <2>2 DEF StaleStart, Position
<1> QED
  BY <1>1, <1>2

\* The next poll starts behind every event of the window.
LEMMA EventsBeforeNext ==
  ASSUME LossInv, producer = "fetch",
         NEW E, E \subseteq EventIds, \A e \in E : Ledger(e) <= Len(chain)
  PROVE  Before(E, NextFrom(endLedger, LastLedger(E)))
<1> DEFINE last == LastLedger(E)
<1>1. /\ TypeOK /\ Bounds /\ from <= Len(chain)
      /\ endLedger <= Len(chain) \/ endLedger = MaxUint32
  BY DEF LossInv, Bounds
<1>2. /\ Len(chain) \in Nat /\ Len(chain) < MaxUint32 /\ MaxUint32 \in Nat
      /\ from \in Uint32 /\ endLedger \in Nat
      /\ \A e \in EventIds : Ledger(e) \in Nat
  BY <1>1, Numbers
<1>3. /\ last \in Uint32
      /\ \A e \in E : Ledger(e) <= last
      /\ last = from \/ \E e \in E : last = Ledger(e)
  BY <1>2, LastLedgerIsLast
<1>4. last <= Len(chain) /\ last \in Nat
  BY <1>1, <1>2, <1>3 DEF Uint32
<1> HIDE DEF last
<1>5. Wrap(last + 1) = last + 1
  BY <1>2, <1>4 DEF Wrap
<1>6. Wrap(endLedger + 1) \in Nat
  BY <1>1, <1>2 DEF Wrap
<1>7. NextFrom(endLedger, last) \in Nat /\ NextFrom(endLedger, last) > last
  BY <1>4, <1>5, <1>6 DEF NextFrom, Greater
<1> QED
  BY <1>2, <1>3, <1>4, <1>7 DEF Before, last
-----------------------------------------------------------------------------
LEMMA CursorInit == Init => CursorInv
<1> SUFFICES ASSUME Init PROVE CursorInv
  OBVIOUS
<1>1. LossInv
  BY LossInit
<1>2. Enclosed /\ Ordered /\ Position
  BY DEF Init, Enclosed, CursorBoundsStore, Ordered, Position
<1> QED
  BY <1>1, <1>2 DEF CursorInv

\* What is lost with the memory was neither stored nor committed.
LEMMA CursorMemory ==
  ASSUME CursorInv, LoseMemory, UNCHANGED <<synced, rewound>>,
         \/ UNCHANGED <<events, cursor>>
         \/ events' = synced.events /\ cursor' = synced.cursor
  PROVE  (Enclosed /\ Ordered /\ Position)'
<1>1. /\ pageCh' = <<>> /\ Len(pageCh') = 0
      /\ producer' = "off" /\ consumer' = "off"
  BY EmptySeq DEF LoseMemory
<1>2. Enclosed'
  BY <1>1 DEF CursorInv, Enclosed, CursorBoundsStore, Ledger
<1>3. Ordered' /\ Position'
  BY <1>1 DEF Ordered, Position
<1> QED
  BY <1>2, <1>3

\* A poller that starts before the cursor has gone back.
LEMMA CursorStart ==
  ASSUME CursorInv, TypeOK', StartRun
  PROVE  (Enclosed /\ Ordered /\ Position)'
<1> USE DEF env, disk, CursorInv, LossInv
<1>1. PICK start \in Uint32 : from' = start /\ GoesBack(start, cursor)
  BY DEF StartRun, TypeOK
<1>2. pageCh' = <<>> /\ Len(pageCh') = 0 /\ fetched' = {}
  BY EmptySeq DEF StartRun, Idle
<1>3. producer' = "idle" /\ consumer' = "recv" /\ UNCHANGED disk
  BY DEF StartRun
<1>4. /\ cursor \in Nat /\ start \in Nat /\ rewound \in Nat
      /\ synced.cursor \in Nat
  BY PageEnds, WindowAssumption DEF Uint32
<1>5. rewound' <= rewound /\ rewound' \in Nat /\ (start < cursor => rewound' <= start)
  BY <1>1, <1>4 DEF GoesBack, Lesser
<1>6. Behind(from)'
  BY <1>1, <1>2, <1>3, <1>4, <1>5 DEF Behind, WentBackTo
<1>7. Enclosed'
  BY <1>2, <1>3, <1>4, <1>5 DEF Enclosed, CursorBoundsStore, Ledger
<1> QED
  BY <1>2, <1>3, <1>6, <1>7 DEF Ordered, Position

\* The poller moves only forwards, and only when it is behind every page.
LEMMA CursorFetch ==
  ASSUME CursorInv, Poll \/ FetchMore \/ FetchNothing \/ FetchLast \/ FetchError
  PROVE  (Enclosed /\ Ordered /\ Position)'
<1> USE DEF env, disk, working, history, CursorInv
<1>0. /\ UNCHANGED <<env, disk, pageCh, working, history>>
      /\ producer \in {"idle", "fetch"}
      /\ TypeOK /\ Bounds
  BY DEF Poll, FetchMore, FetchNothing, FetchLast, FetchError, LossInv
<1>1. \A n : Behind(n)' = Behind(n)
  BY <1>0 DEF Behind, WentBackTo
<1>2. Ordered'
  BY <1>0 DEF Ordered, After
<1>3. producer' # "send" => Enclosed'
  BY <1>0 DEF Enclosed, CursorBoundsStore, Before, Ledger
<1>4. from \in Nat /\ LastLedger({}) = from
  <2>1. from \in Uint32
    BY <1>0 DEF TypeOK
  <2> HIDE DEF CursorInv
  <2> QED
    BY <2>1, LastLedgerIsLast, WindowAssumption DEF Uint32
<1>5. CASE Poll
  <2>1. producer = "idle" /\ producer' = "fetch" /\ UNCHANGED <<from, fetched>>
    BY <1>5 DEF Poll
  <2>2. fetched = {}
    BY <2>1 DEF LossInv, Idle
  <2>3. Position'
    BY <1>0, <1>1, <2>1, <2>2 DEF Position
  <2> QED
    BY <1>2, <1>3, <2>1, <2>3
<1>6. CASE FetchMore
  <2>1. Behind(from)
    BY <1>0, <1>6, AnsweredBehind DEF FetchMore
  <2> QED
    BY <1>0, <1>1, <1>2, <1>3, <1>6, <2>1 DEF FetchMore, Position
<1>7. CASE FetchNothing
  <2>1. Behind(from)
    BY <1>0, <1>7, AnsweredBehind DEF FetchNothing
  <2>2. LET next == NextFrom(endLedger, LastLedger({}))
        IN  Ends(next) /\ next > from
    BY <1>0, <1>7, WindowEnd DEF FetchNothing
  <2>3. from' \in Nat /\ from <= from'
    BY <1>0, <1>4, <1>7, <2>2, Numbers DEF FetchNothing, Greater, Ends
  <2>4. Behind(from')
    BY <1>0, <1>4, <2>1, <2>3, BehindLater
  <2>5. Behind(from)'
    BY <1>0, <2>4 DEF Behind, WentBackTo
  <2> QED
    BY <1>2, <1>3, <1>7, <2>5 DEF FetchNothing, Position
<1>8. CASE FetchLast
  <2> DEFINE E == fetched \cup Answer(Remaining)
             next == NextFrom(endLedger, LastLedger(E))
  <2>1. Behind(from)
    BY <1>0, <1>8, AnsweredBehind DEF FetchLast
  <2>2. E \subseteq EventIds /\ \A e \in E : Ledger(e) <= Len(chain)
    <3>1. Remaining \subseteq ChainEvents
      BY DEF Remaining, EventsIn, EventsFrom
    <3>2. Answer(Remaining) \subseteq Remaining
      BY DEF Answer, FirstN
    <3>3. fetched \subseteq EventIds /\ \A e \in fetched : Ledger(e) <= Len(chain)
      BY <1>0, <1>8 DEF FetchLast, Bounds, TypeOK
    <3>4. \A e \in ChainEvents : e \in EventIds /\ Ledger(e) <= Len(chain)
      BY <1>0, ChainEventsDef DEF TypeOK
    <3> QED
      BY <3>1, <3>2, <3>3, <3>4
  <2>3. Before(E, next) /\ next > from
    BY <1>0, <1>8, <2>2, EventsBeforeNext, WindowEnd DEF FetchLast
  <2>4. fetched' = E /\ nextFrom' = next /\ from' = from /\ producer' = "send"
    BY <1>8 DEF FetchLast
  <2> HIDE DEF E, next
  <2>5. Enclosed'
    BY <1>0, <2>3, <2>4 DEF Enclosed, CursorBoundsStore, Before, Ledger
  <2>6. Position'
    BY <1>1, <2>1, <2>3, <2>4 DEF Position
  <2> QED
    BY <1>2, <2>5, <2>6
<1>9. CASE FetchError
  BY <1>0, <1>1, <1>2, <1>3, <1>9 DEF FetchError, Position
<1> QED
  BY <1>5, <1>6, <1>7, <1>8, <1>9

\* Re-anchoring from a stale start leads behind the retention window or back
\* before it; from any other start forwards, or back and on the record.
LEMMA CursorReanchor ==
  ASSUME CursorInv, Reanchor
  PROVE  (Enclosed /\ Ordered /\ Position)'
<1> USE DEF env, disk, working, CursorInv
<1>0. /\ TypeOK /\ producer = "fetch" /\ producer' = "idle"
      /\ UNCHANGED <<env, disk, pageCh, working>>
  BY DEF Reanchor, LossInv
<1>1. PICK newFrom \in OldestAvailable :
        /\ from' = newFrom
        /\ IF StaleStart THEN UNCHANGED rewound ELSE GoesBack(newFrom, from)
  BY DEF Reanchor
<1>2. /\ from \in Nat /\ oldest \in Nat /\ newFrom \in Nat
      /\ rewound \in Nat /\ cursor \in Nat /\ synced.cursor \in Nat
      /\ batch.nextFrom \in Nat
      /\ \A k \in 1..Len(pageCh) : pageCh[k].nextFrom \in Nat
  BY <1>0, PageEnds, OldestAvailableType, WindowAssumption DEF Uint32
<1>3. rewound' \in Nat /\ rewound' <= rewound
  BY <1>1, <1>2 DEF GoesBack, Lesser
<1>4. \A n \in Nat : Behind(n) => Behind(n)'
  BY <1>0, <1>2, <1>3 DEF Behind, WentBackTo
<1>5. Position'
  <2>1. CASE StaleStart
    <3>1. from < oldest
      <4>1. LastLedger(fetched) \in Uint32 /\ LastLedger(fetched) >= from
        BY <1>0, LastLedgerIsLast DEF TypeOK
      <4> QED
        BY <1>2, <2>1, <4>1, WindowAssumption DEF StaleStart, Uint32
    <3>2. Behind(oldest)
      BY <1>0, <1>2, <3>1, BehindLater DEF Position
    <3>3. Behind(newFrom) \/ newFrom < oldest
      BY <1>0, <1>2, <3>2, BehindLater
    <3> QED
      BY <1>0, <1>1, <1>2, <1>4, <3>2, <3>3 DEF Position, Behind, WentBackTo
  <2>2. CASE ~StaleStart
    <3>1. Behind(from)
      BY <1>0, <2>2, AnsweredBehind
    <3>2. Behind(newFrom)'
      <4>1. CASE newFrom < from
        BY <1>1, <1>2, <2>2, <4>1 DEF Behind, WentBackTo, GoesBack, Lesser
      <4>2. CASE from <= newFrom
        BY <1>0, <1>2, <1>4, <3>1, <4>2, BehindLater
      <4> QED
        BY <1>2, <4>1, <4>2
    <3> QED
      BY <1>0, <1>1, <3>2 DEF Position, Behind, WentBackTo
  <2> QED
    BY <2>1, <2>2
<1>6. Enclosed'
  BY <1>0, <1>2, <1>3 DEF Enclosed, CursorBoundsStore, Before, Ledger
<1>7. Ordered'
  <2>1. \A n, m \in Nat : After(n, m) => After(n, m)'
    BY <1>2, <1>3 DEF After
  <2>2. \A k \in 1..Len(pageCh) : \A j \in 1..(k - 1) : j \in 1..Len(pageCh)
    BY <1>0 DEF TypeOK
  <2> QED
    BY <1>0, <1>2, <2>1, <2>2 DEF Ordered, After
<1> QED
  BY <1>5, <1>6, <1>7

\* A page sent ends behind all others, and the poller where it ends.
LEMMA CursorSend ==
  ASSUME CursorInv, TypeOK', Send
  PROVE  (Enclosed /\ Ordered /\ Position)'
<1> USE DEF env, disk, working, history, CursorInv
<1> DEFINE p == Page(fetched, nextFrom)
<1>0. /\ TypeOK /\ producer = "send" /\ producer' = "idle" /\ from' = nextFrom
      /\ UNCHANGED <<env, disk, working, history>>
  BY DEF Send, LossInv
<1>1. PICK n \in Nat : n = Len(pageCh)
  BY <1>0 DEF TypeOK
<1>2. /\ Len(pageCh') = n + 1
      /\ \A k \in 1..n : pageCh'[k] = pageCh[k]
      /\ pageCh'[n + 1] = p
  <2>1. p \in Pages /\ pageCh \in Seq(Pages)
    BY <1>0 DEF Page, Pages, TypeOK
  <2> QED
    BY <1>1, <2>1, AppendProperties DEF Send
<1>3. p.nextFrom = nextFrom /\ p.events = fetched
  BY DEF Page
<1>4. Behind(from) /\ from < nextFrom /\ Before(fetched, nextFrom)
  BY <1>0 DEF Position, Enclosed
<1>5. /\ cursor \in Nat /\ from \in Nat /\ nextFrom \in Nat /\ batch.nextFrom \in Nat
      /\ \A k \in 1..n : pageCh[k].nextFrom \in Nat
      /\ rewound \in Nat
  BY <1>0, <1>1, PageEnds
<1>6. /\ After(nextFrom, cursor)
      /\ consumer = "save" => After(nextFrom, batch.nextFrom)
      /\ \A k \in 1..n : After(nextFrom, pageCh[k].nextFrom)
  BY <1>1, <1>4, <1>5 DEF Behind, WentBackTo, After
<1>7. /\ \A k \in 1..n : /\ Before(pageCh[k].events, pageCh[k].nextFrom)
                         /\ After(pageCh[k].nextFrom, cursor)
                         /\ consumer = "save" =>
                              After(pageCh[k].nextFrom, batch.nextFrom)
      /\ consumer = "save" => After(batch.nextFrom, cursor)
  BY <1>1 DEF Enclosed, Ordered
<1>8. \A k \in 1..(n + 1) : k \in 1..n \/ k = n + 1
  OBVIOUS
<1> HIDE DEF p
<1>9. Enclosed'
  <2>1. \A k \in 1..(n + 1) : Before(pageCh'[k].events, pageCh'[k].nextFrom)
    BY <1>2, <1>3, <1>4, <1>7, <1>8
  <2> QED
    BY <1>0, <1>2, <2>1 DEF Enclosed, CursorBoundsStore, Before, Ledger
<1>10. Ordered'
  <2>1. \A k \in 1..(n + 1) :
          /\ After(pageCh'[k].nextFrom, cursor)
          /\ consumer = "save" => After(pageCh'[k].nextFrom, batch.nextFrom)
    BY <1>2, <1>3, <1>6, <1>7, <1>8
  <2>2. ASSUME NEW k \in 1..(n + 1), NEW j \in 1..(k - 1)
        PROVE  After(pageCh'[k].nextFrom, pageCh'[j].nextFrom)
    <3>1. CASE k \in 1..n
      BY <1>1, <1>2, <3>1 DEF Ordered
    <3>2. CASE k = n + 1
      <4>1. j \in 1..n
        BY <3>2
      <4> QED
        BY <1>2, <1>3, <1>6, <3>2, <4>1
    <3> QED
      BY <1>8, <3>1, <3>2
  <2> QED
    BY <1>0, <1>2, <1>7, <2>1, <2>2 DEF Ordered, After
<1>11. Position'
  <2>1. Behind(nextFrom)
    BY <1>0, <1>4, <1>5, BehindLater
  <2>2. p.nextFrom <= nextFrom
    BY <1>3, <1>5
  <2>3. Behind(from)'
    <3>1. CASE WentBackTo(nextFrom)
      BY <1>0, <3>1 DEF Behind, WentBackTo
    <3>2. CASE ~WentBackTo(nextFrom)
      BY <1>0, <1>1, <1>2, <1>8, <2>1, <2>2, <3>2 DEF Behind
    <3> QED
      BY <3>1, <3>2
  <2> QED
    BY <1>0, <2>3 DEF Position
<1> QED
  BY <1>9, <1>10, <1>11

\* The page received is the one that ends first.
LEMMA CursorReceive ==
  ASSUME CursorInv, Receive
  PROVE  (Enclosed /\ Ordered /\ Position)'
<1> USE DEF env, disk, polling, history, CursorInv
<1>0. /\ TypeOK /\ consumer = "recv" /\ consumer' = "save"
      /\ UNCHANGED <<env, disk, polling, history>>
  BY DEF Receive, LossInv
<1>1. PICK n \in Nat : n = Len(pageCh)
  BY <1>0 DEF TypeOK
<1>2. /\ n > 0 /\ Len(pageCh') = n - 1
      /\ \A k \in 1..(n - 1) : pageCh'[k] = pageCh[k + 1]
      /\ batch' = pageCh[1]
  <2>1. pageCh \in Seq(Pages) /\ pageCh # <<>>
    BY <1>0 DEF Receive, TypeOK
  <2> QED
    BY <1>1, <2>1, HeadTailProperties DEF Receive
<1>3. \A k \in 1..(n - 1) : k + 1 \in 1..n
  OBVIOUS
<1>4. Enclosed'
  <2>1. Before(batch'.events, batch'.nextFrom)
    BY <1>1, <1>2 DEF Enclosed
  <2>2. \A k \in 1..(n - 1) : Before(pageCh'[k].events, pageCh'[k].nextFrom)
    BY <1>1, <1>2, <1>3 DEF Enclosed
  <2> QED
    BY <1>0, <1>2, <2>1, <2>2 DEF Enclosed, CursorBoundsStore, Before, Ledger
<1>5. Ordered'
  <2>1. After(batch'.nextFrom, cursor)
    BY <1>1, <1>2 DEF Ordered
  <2>2. \A k \in 1..(n - 1) : /\ After(pageCh'[k].nextFrom, cursor)
                              /\ After(pageCh'[k].nextFrom, batch'.nextFrom)
    BY <1>1, <1>2, <1>3 DEF Ordered
  <2>3. ASSUME NEW k \in 1..(n - 1), NEW j \in 1..(k - 1)
        PROVE  After(pageCh'[k].nextFrom, pageCh'[j].nextFrom)
    <3>1. k + 1 \in 1..n /\ j + 1 \in 1..((k + 1) - 1) /\ j \in 1..(n - 1)
      OBVIOUS
    <3> QED
      BY <1>1, <1>2, <3>1 DEF Ordered
  <2> QED
    BY <1>0, <1>2, <2>1, <2>2, <2>3 DEF Ordered, After
<1>6. \A m : Behind(m) => Behind(m)'
  <2> SUFFICES ASSUME NEW m, Behind(m), ~WentBackTo(m) PROVE Behind(m)'
    BY <1>0 DEF Behind, WentBackTo
  <2>1. batch'.nextFrom <= m
    BY <1>1, <1>2 DEF Behind
  <2>2. \A k \in 1..(n - 1) : pageCh'[k].nextFrom <= m
    BY <1>1, <1>2, <1>3 DEF Behind
  <2> QED
    BY <1>0, <1>2, <2>1, <2>2 DEF Behind
<1>7. Position'
  BY <1>0, <1>6 DEF Position
<1> QED
  BY <1>4, <1>5, <1>7

\* The cursor moves to the end of the page saved: forwards or to a ledger that
\* polling has gone back to, over all of the page's events, and pages to come
\* still end behind it.
LEMMA CursorSave ==
  ASSUME CursorInv, SaveBatch
  PROVE  /\ (Enclosed /\ Ordered /\ Position)'
         /\ cursor' >= Lesser(cursor, rewound)
<1> USE DEF env, polling, history, CursorInv
<1>0. /\ TypeOK /\ consumer = "save" /\ consumer' = "insert"
      /\ UNCHANGED <<env, synced, polling, pageCh, batch, history>>
      /\ events' = events \cup batch.events
  BY DEF SaveBatch, LossInv
<1>1. /\ batch.nextFrom \in 1..(Len(chain) + 1)
      /\ Len(chain) \in Nat /\ Len(chain) < MaxUint32 /\ MaxUint32 \in Nat
  BY <1>0, Numbers DEF LossInv, Bounds, Ends
<1>2. cursor' = batch.nextFrom - 1
  BY <1>0, <1>1 DEF SaveBatch, BatchCursor, Wrap
<1>3. /\ rewound \in Nat /\ cursor \in Nat /\ from \in Nat /\ oldest \in Nat
      /\ \A k \in 1..Len(pageCh) : pageCh[k].nextFrom \in Nat
      /\ events \subseteq EventIds /\ batch.events \subseteq EventIds
      /\ \A e \in EventIds : Ledger(e) \in Nat
      /\ batch.nextFrom \in Nat \ {0} /\ cursor' \in Nat
  <2>1. /\ rewound \in Nat /\ cursor \in Nat /\ from \in Nat /\ oldest \in Nat
        /\ \A k \in 1..Len(pageCh) : pageCh[k].nextFrom \in Nat
    BY <1>0, PageEnds
  <2>2. /\ events \subseteq EventIds /\ batch.events \subseteq EventIds
        /\ \A e \in EventIds : Ledger(e) \in Nat
    BY <1>0, Numbers DEF TypeOK, Pages
  <2>3. batch.nextFrom \in Nat \ {0} /\ cursor' \in Nat
    BY <1>1, <1>2
  <2> QED
    BY <2>1, <2>2, <2>3
<1> HIDE DEF CursorInv
<1>4. cursor < batch.nextFrom \/ rewound < batch.nextFrom
  BY <1>0 DEF CursorInv, Ordered, After
<1>5. cursor' >= Lesser(cursor, rewound)
  <2>1. cursor' >= cursor \/ cursor' >= rewound
    BY <1>2, <1>3, <1>4
  <2> QED
    BY <1>3, <2>1 DEF Lesser
<1>6. CursorBoundsStore'
  <2> SUFFICES ASSUME cursor' < rewound, NEW e \in events'
               PROVE  Ledger(e) <= cursor'
    BY <1>0 DEF CursorBoundsStore, Ledger
  <2>1. CASE e \in events
    <3>1. cursor < batch.nextFrom
      BY <1>2, <1>3, <1>4
    <3>2. cursor <= cursor' /\ cursor < rewound
      BY <1>2, <1>3, <3>1
    <3>3. Ledger(e) <= cursor /\ Ledger(e) \in Nat
      BY <1>3, <2>1, <3>2 DEF CursorInv, Enclosed, CursorBoundsStore
    <3> QED
      BY <1>3, <3>2, <3>3
  <2>2. CASE e \in batch.events
    <3>1. Ledger(e) < batch.nextFrom /\ Ledger(e) \in Nat
      BY <1>0, <1>3, <2>2 DEF CursorInv, Enclosed, Before
    <3> QED
      BY <1>2, <1>3, <3>1
  <2> QED
    BY <1>0, <2>1, <2>2
<1> USE DEF CursorInv
<1>7. Enclosed'
  BY <1>0, <1>6 DEF Enclosed, Before, Ledger
<1>8. Ordered'
  <2>1. \A k \in 1..Len(pageCh) : After(pageCh[k].nextFrom, batch.nextFrom)
    BY <1>0 DEF Ordered
  <2>2. \A m \in Nat : After(m, batch.nextFrom) => After(m, cursor')
    BY <1>2, <1>3 DEF After
  <2>3. \A k \in 1..Len(pageCh) : After(pageCh[k].nextFrom, cursor')
    BY <1>3, <2>1, <2>2
  <2> QED
    BY <1>0, <2>3 DEF Ordered, After
<1>9. \A m \in Nat : Behind(m) => Behind(m)'
  BY <1>0, <1>1, <1>2 DEF Behind, WentBackTo
<1>10. Position'
  BY <1>0, <1>3, <1>9 DEF Position
<1> QED
  BY <1>5, <1>7, <1>8, <1>10

\* A drained page leaves the others in order.
LEMMA CursorDrain ==
  ASSUME CursorInv, Drain
  PROVE  (Enclosed /\ Ordered /\ Position)'
<1> USE DEF env, disk, polling, working, history, CursorInv
<1>0. TypeOK /\ consumer = "drain" /\ UNCHANGED <<env, disk, polling, working, history>>
  BY DEF Drain, LossInv
<1>1. PICK n \in Nat : n = Len(pageCh)
  BY <1>0 DEF TypeOK
<1>2. /\ n > 0 /\ Len(pageCh') = n - 1
      /\ \A k \in 1..(n - 1) : pageCh'[k] = pageCh[k + 1]
  <2>1. pageCh \in Seq(Pages) /\ pageCh # <<>>
    BY <1>0 DEF Drain, TypeOK
  <2> QED
    BY <1>1, <2>1, HeadTailProperties DEF Drain
<1>3. \A k \in 1..(n - 1) : k + 1 \in 1..n
  OBVIOUS
<1>4. Enclosed'
  <2>1. \A k \in 1..(n - 1) : Before(pageCh'[k].events, pageCh'[k].nextFrom)
    BY <1>1, <1>2, <1>3 DEF Enclosed
  <2> QED
    BY <1>0, <1>2, <2>1 DEF Enclosed, CursorBoundsStore, Before, Ledger
<1>5. Ordered'
  <2>1. \A k \in 1..(n - 1) : After(pageCh'[k].nextFrom, cursor)
    BY <1>1, <1>2, <1>3 DEF Ordered
  <2>2. ASSUME NEW k \in 1..(n - 1), NEW j \in 1..(k - 1)
        PROVE  After(pageCh'[k].nextFrom, pageCh'[j].nextFrom)
    <3>1. k + 1 \in 1..n /\ j + 1 \in 1..((k + 1) - 1) /\ j \in 1..(n - 1)
      OBVIOUS
    <3> QED
      BY <1>1, <1>2, <3>1 DEF Ordered
  <2> QED
    BY <1>0, <1>2, <2>1, <2>2 DEF Ordered, After
<1>6. \A m : Behind(m) => Behind(m)'
  <2> SUFFICES ASSUME NEW m, Behind(m), ~WentBackTo(m) PROVE Behind(m)'
    BY <1>0 DEF Behind, WentBackTo
  <2>1. \A k \in 1..(n - 1) : pageCh'[k].nextFrom <= m
    BY <1>1, <1>2, <1>3 DEF Behind
  <2> QED
    BY <1>0, <1>2, <2>1 DEF Behind
<1>7. Position'
  BY <1>0, <1>6 DEF Position
<1> QED
  BY <1>4, <1>5, <1>7

\* No other step touches cursor, table or the ends of pages; the retention
\* window moves forwards only.
LEMMA CursorRest ==
  ASSUME CursorInv,
         \/ CloseLedger \/ Prune \/ Boot \/ RebuildInsert \/ Signal
         \/ StopPolling \/ SaveFails \/ InsertLeaf \/ PageDone \/ InsertFatal
         \/ RunReturns \/ Checkpoint \/ UNCHANGED vars
  PROVE  (Enclosed /\ Ordered /\ Position)'
<1> USE DEF env, disk, polling, working, history, CursorInv
<1>0. /\ UNCHANGED <<events, cursor, from, pageCh, rewound>>
      /\ synced' = synced \/ synced' = Snapshot
      /\ oldest' = oldest \/ oldest' = oldest + 1
      /\ UNCHANGED <<producer, fetched, nextFrom>> \/ producer' = "stopped"
      /\ consumer' = "save" => consumer = "save" /\ batch' = batch
  BY DEF CloseLedger, Prune, Boot, RebuildInsert, Signal, StopPolling,
         SaveFails, InsertLeaf, PageDone, InsertFatal, RunReturns, Checkpoint, vars
<1>1. TypeOK /\ from \in Nat /\ oldest \in Nat
  BY PageEnds DEF LossInv
<1>2. \A m : Behind(m) => Behind(m)'
  BY <1>0 DEF Behind, WentBackTo
<1>3. Behind(oldest) => Behind(oldest)'
  <2>1. Behind(oldest) => Behind(oldest')
    BY <1>0, <1>1, BehindLater
  <2> QED
    BY <1>0, <2>1 DEF Behind, WentBackTo
<1>4. Enclosed'
  BY <1>0 DEF Enclosed, CursorBoundsStore, Before, Snapshot, Ledger
<1>5. Ordered'
  BY <1>0 DEF Ordered, After
<1>6. Position'
  BY <1>0, <1>1, <1>2, <1>3 DEF Position
<1> QED
  BY <1>4, <1>5, <1>6

\* Every step keeps the order; none but a power loss takes the cursor back,
\* unless polling went back first.
LEMMA CursorStep ==
  CursorInv /\ [Next]_vars =>
    CursorInv' /\ (cursor' >= Lesser(cursor, rewound) \/ PowerLoss)
<1> SUFFICES ASSUME CursorInv, [Next]_vars
             PROVE  CursorInv' /\ (cursor' >= Lesser(cursor, rewound) \/ PowerLoss)
  OBVIOUS
<1>1. LossInv' /\ TypeOK /\ TypeOK'
  BY LossStep DEF CursorInv, LossInv
<1>2. cursor >= Lesser(cursor, rewound)
  <2>1. cursor \in Nat /\ rewound \in Nat
    BY <1>1, PageEnds
  <2> QED
    BY <2>1 DEF Lesser
<1>3. CASE Process
  <2>1. UNCHANGED cursor
    BY <1>3 DEF Process, disk, Boot, RebuildInsert, RebuildFails, StartRun,
       Signal, Exit
  <2>2. CASE RebuildFails \/ Exit
    BY <1>1, <1>2, <2>1, <2>2, CursorMemory DEF RebuildFails, Exit, disk, CursorInv
  <2>3. CASE StartRun
    BY <1>1, <1>2, <2>1, <2>3, CursorStart DEF CursorInv
  <2>4. CASE Boot \/ RebuildInsert \/ Signal
    BY <1>1, <1>2, <2>1, <2>4, CursorRest DEF CursorInv
  <2> QED
    BY <1>3, <2>2, <2>3, <2>4 DEF Process
<1>4. CASE Producer
  <2>1. UNCHANGED cursor
    BY <1>4 DEF Producer, disk, Poll, FetchMore, FetchNothing, FetchLast,
       FetchError, Reanchor, Send, StopPolling
  <2> QED
    BY <1>1, <1>2, <1>4, <2>1, CursorFetch, CursorReanchor, CursorSend, CursorRest
       DEF Producer, CursorInv
<1>5. CASE Consumer
  <2>1. UNCHANGED cursor \/ SaveBatch
    BY <1>5 DEF Consumer, disk, Receive, SaveFails, InsertLeaf, PageDone,
       InsertFatal, Drain, RunReturns
  <2> QED
    BY <1>1, <1>2, <1>5, <2>1, CursorReceive, CursorSave, CursorDrain, CursorRest
       DEF Consumer, CursorInv
<1>6. CASE Environment
  BY <1>1, <1>2, <1>6, CursorMemory, CursorRest
     DEF Environment, CursorInv, disk, Crash, PowerLoss, CloseLedger, Prune, Checkpoint
<1>7. CASE UNCHANGED vars
  BY <1>1, <1>2, <1>7, CursorRest DEF CursorInv, vars, disk
<1> QED
  BY <1>3, <1>4, <1>5, <1>6, <1>7 DEF Next

\* Rows and cursor move together: no event is ever stored beyond the cursor,
\* through crashes, re-anchoring, failed saves, power losses and unreadable
\* cursors, as long as the cursor lies before every ledger that polling has
\* gone back to.
THEOREM NothingStoredBeyondCursor == Spec => []CursorBoundsStore
<1>1. CursorInv /\ [Next]_vars => CursorInv'
  BY CursorStep
<1>2. CursorInv => CursorBoundsStore
  BY DEF CursorInv, Enclosed
<1> QED
  BY CursorInit, <1>1, <1>2, PTL DEF Spec

\* The committed cursor never moves back but by a power loss, or to a ledger
\* that polling went back to, although re-anchoring can move the poller to any
\* ledger while pages are in flight.
THEOREM CursorNeverMovesBack == Spec => CursorMonotone
<1>1. CursorInv /\ [Next]_vars => CursorInv'
  BY CursorStep
<1>2. CursorInv /\ [Next]_vars =>
        [cursor' >= Lesser(cursor, rewound) \/ PowerLoss]_vars
  BY CursorStep
<1> QED
  BY CursorInit, <1>1, <1>2, PTL DEF Spec, CursorMonotone
-----------------------------------------------------------------------------
\* The commitments of the events table.
Committed == {e \in events : HasCommitment(e)}

\* Only events of the chain are read, sent and stored.
OnChain ==
  /\ events \cup synced.events \cup batch.events \cup fetched \subseteq ChainEvents
  /\ \A k \in 1..Len(pageCh) : pageCh[k].events \subseteq ChainEvents

\* What is stored is a leaf, or still to be inserted.
Mirrored ==
  /\ phase = "down" => leaves = <<>>
  /\ phase # "down" => Range(leaves) \cup todo = Committed
  /\ consumer \in {"recv", "save"} => Range(leaves) = Committed

MirrorInv == LossInv /\ OnChain /\ Mirrored

\* A closed ledger keeps its events, and they their kinds.
LEMMA ChainKept ==
  ASSUME TypeOK, CloseLedger \/ UNCHANGED chain
  PROVE  /\ ChainEvents \subseteq ChainEvents'
         /\ \A e \in ChainEvents : HasCommitment(e)' = HasCommitment(e)
<1>1. CASE UNCHANGED chain
  BY <1>1 DEF ChainEvents, HasCommitment, Kind, Ledger, Index
<1>2. CASE CloseLedger
  <2>1. PICK contents \in LedgerContents : chain' = Append(chain, contents)
    BY <1>2 DEF CloseLedger
  <2>2. /\ DOMAIN chain \subseteq DOMAIN chain'
        /\ \A l \in DOMAIN chain : chain'[l] = chain[l]
    BY <2>1, AppendProperties DEF TypeOK
  <2>3. ASSUME NEW e \in ChainEvents
        PROVE  e \in ChainEvents' /\ HasCommitment(e)' = HasCommitment(e)
    <3>1. PICK l \in DOMAIN chain : \E i \in DOMAIN chain[l] : e = <<l, i>>
      BY DEF ChainEvents
    <3>2. e \in ChainEvents'
      BY <2>2, <3>1 DEF ChainEvents
    <3>3. HasCommitment(e)' = HasCommitment(e)
      BY <2>2, <3>1 DEF HasCommitment, Kind, Ledger, Index
    <3> QED
      BY <3>2, <3>3
  <2> QED
    BY <2>3
<1> QED
  BY <1>1, <1>2

LEMMA RangeAppend ==
  ASSUME NEW S, NEW s \in Seq(S), NEW e \in S
  PROVE  Range(Append(s, e)) = Range(s) \cup {e}
<1>1. /\ DOMAIN s = 1..Len(s) /\ Len(s) \in Nat
      /\ DOMAIN Append(s, e) = 1..(Len(s) + 1)
      /\ \A i \in 1..Len(s) : Append(s, e)[i] = s[i]
      /\ Append(s, e)[Len(s) + 1] = e
  BY AppendProperties
<1>2. 1..(Len(s) + 1) = 1..Len(s) \cup {Len(s) + 1}
  BY <1>1
<1> QED
  BY <1>1, <1>2 DEF Range

LEMMA MirrorInit == Init => MirrorInv
<1> SUFFICES ASSUME Init PROVE MirrorInv
  OBVIOUS
<1>1. LossInv
  BY LossInit
<1>2. OnChain
  BY EmptySeq DEF Init, OnChain, NoPage, Page
<1>3. Mirrored
  BY DEF Init, Mirrored
<1> QED
  BY <1>1, <1>2, <1>3 DEF MirrorInv

\* Events come from the chain, and what is on the chain stays on it.
LEMMA OnChainStep ==
  ASSUME MirrorInv, [Next]_vars
  PROVE  OnChain'
<1>1. TypeOK /\ OnChain
  BY DEF MirrorInv, LossInv
<1> USE DEF env, disk, polling, working, history, OnChain
<1>2. CloseLedger \/ UNCHANGED chain
  BY DEF Next, Process, Producer, Consumer, Environment, vars, Boot,
     RebuildInsert, RebuildFails, StartRun, Signal, Exit, Poll, FetchMore,
     FetchNothing, FetchLast, Reanchor, FetchError, Send, StopPolling, Receive,
     SaveBatch, SaveFails, InsertLeaf, PageDone, InsertFatal, Drain, RunReturns,
     Prune, Crash, Checkpoint, PowerLoss
<1>3. ChainEvents \subseteq ChainEvents'
  BY <1>1, <1>2, ChainKept
<1>4. NoPage.events = {} /\ Len(<<>>) = 0
  BY EmptySeq DEF NoPage, Page
<1>5. /\ Remaining \subseteq ChainEvents
      /\ Answer(Remaining) \subseteq ChainEvents
  BY DEF Remaining, EventsIn, EventsFrom, Answer, FirstN
<1>6. CASE Process \/ Crash \/ PowerLoss
  <2>1. /\ UNCHANGED synced
        /\ events' = events \/ events' = synced.events
        /\ UNCHANGED <<batch, fetched, pageCh>> \/ LoseMemory
    BY <1>6 DEF Process, Boot, RebuildInsert, RebuildFails, StartRun, Signal,
       Exit, Crash, PowerLoss
  <2> QED
    BY <1>1, <1>3, <1>4, <2>1 DEF LoseMemory
<1>7. CASE Producer
  <2>1. CASE Send
    <3>1. /\ Len(pageCh') = Len(pageCh) + 1 /\ Len(pageCh) \in Nat
          /\ \A k \in 1..Len(pageCh) : pageCh'[k] = pageCh[k]
          /\ pageCh'[Len(pageCh) + 1] = Page(fetched, nextFrom)
      <4>1. Page(fetched, nextFrom) \in Pages /\ pageCh \in Seq(Pages)
        BY <1>1 DEF Page, Pages, TypeOK
      <4> QED
        BY <2>1, <4>1, AppendProperties DEF Send
    <3>2. \A k \in 1..Len(pageCh') : k \in 1..Len(pageCh) \/ k = Len(pageCh) + 1
      BY <3>1
    <3>3. \A k \in 1..Len(pageCh') : pageCh'[k].events \subseteq ChainEvents
      BY <1>1, <3>1, <3>2 DEF Page
    <3>4. UNCHANGED <<events, synced, batch>> /\ fetched' = {}
      BY <2>1 DEF Send
    <3> QED
      BY <1>1, <1>3, <3>3, <3>4
  <2>2. CASE ~Send
    <3>1. /\ UNCHANGED <<events, synced, batch, pageCh>>
          /\ fetched' \subseteq fetched \cup Answer(Remaining)
      BY <1>7, <2>2 DEF Producer, Poll, FetchMore, FetchNothing, FetchLast,
         Reanchor, FetchError, StopPolling
    <3> QED
      BY <1>1, <1>3, <1>5, <3>1
  <2> QED
    BY <2>1, <2>2
<1>8. CASE Consumer
  <2>1. CASE Receive \/ Drain
    <3>1. /\ Len(pageCh') = Len(pageCh) - 1 /\ Len(pageCh) \in Nat
          /\ Len(pageCh) > 0 /\ Head(pageCh) = pageCh[1]
          /\ \A k \in 1..Len(pageCh') : pageCh'[k] = pageCh[k + 1]
      <4>1. pageCh \in Seq(Pages) /\ pageCh # <<>>
        BY <1>1, <2>1 DEF Receive, Drain, TypeOK
      <4> QED
        BY <2>1, <4>1, HeadTailProperties DEF Receive, Drain
    <3>2. \A k \in 1..Len(pageCh') : pageCh'[k].events \subseteq ChainEvents
      BY <1>1, <3>1
    <3>3. /\ UNCHANGED <<events, synced, fetched>>
          /\ batch' = batch \/ batch' = pageCh[1]
      BY <2>1, <3>1 DEF Receive, Drain
    <3>4. batch'.events \subseteq ChainEvents
      BY <1>1, <3>1, <3>3
    <3> QED
      BY <1>1, <1>3, <3>2, <3>3, <3>4
  <2>2. CASE ~(Receive \/ Drain)
    <3>1. /\ UNCHANGED <<synced, fetched, pageCh>>
          /\ events' = events \/ events' = events \cup batch.events
          /\ batch' = batch \/ batch' = NoPage
      BY <1>8, <2>2 DEF Consumer, SaveBatch, SaveFails, InsertLeaf, PageDone,
         InsertFatal, RunReturns
    <3> QED
      BY <1>1, <1>3, <1>4, <3>1
  <2> QED
    BY <2>1, <2>2
<1>9. CASE CloseLedger \/ Prune \/ Checkpoint \/ UNCHANGED vars
  <2>1. /\ UNCHANGED <<events, batch, fetched, pageCh>>
        /\ synced' = synced \/ synced'.events = events
    BY <1>9 DEF CloseLedger, Prune, Checkpoint, Snapshot, vars
  <2> QED
    BY <1>1, <1>3, <2>1
<1> QED
  BY <1>6, <1>7, <1>8, <1>9 DEF Next, Environment

\* A leaf that is inserted is no longer to be inserted.
LEMMA InsertMirrors ==
  ASSUME TypeOK, RebuildInsert \/ InsertLeaf
  PROVE  Range(leaves') \cup todo' = Range(leaves) \cup todo
<1>1. PICK e \in todo : leaves' = Append(leaves, e) /\ todo' = todo \ {e}
  BY DEF RebuildInsert, InsertLeaf
<1>2. Range(leaves') = Range(leaves) \cup {e}
  BY <1>1, RangeAppend DEF TypeOK
<1> QED
  BY <1>1, <1>2

\* Stored commitments become leaves, one by one, before the next page.
LEMMA MirroredStep ==
  ASSUME MirrorInv, [Next]_vars
  PROVE  Mirrored'
<1>1. TypeOK /\ OnChain /\ Idle /\ Mirrored
  BY DEF MirrorInv, LossInv
<1>2. events \subseteq ChainEvents
  BY <1>1 DEF OnChain
<1> USE DEF env, disk, polling, working, history
<1>3. CASE LoseMemory
  BY <1>3 DEF LoseMemory, Mirrored
<1>4. CASE Boot
  <2>1. Committed' = Committed /\ todo' = Committed
    BY <1>4 DEF Boot, Committed, ReplayLeaf, HasCommitment, Kind, Ledger, Index
  <2>2. leaves' = <<>> /\ phase' = "rebuild" /\ consumer' = "off"
    BY <1>1, <1>4 DEF Boot, Mirrored, Idle
  <2>3. Range(leaves') = {}
    BY <2>2 DEF Range
  <2> QED
    BY <2>1, <2>2, <2>3 DEF Mirrored, Range
<1>5. CASE RebuildInsert \/ InsertLeaf
  <2>1. Committed' = Committed
    BY <1>5 DEF RebuildInsert, InsertLeaf, Committed, HasCommitment, Kind, Ledger, Index
  <2>2. Range(leaves') \cup todo' = Range(leaves) \cup todo
    BY <1>1, <1>5, InsertMirrors
  <2>3. /\ phase' = phase /\ consumer' = consumer
        /\ (phase = "rebuild" /\ consumer = "off") \/ consumer = "insert"
        /\ phase # "down"
    BY <1>1, <1>5 DEF RebuildInsert, InsertLeaf, Idle
  <2> QED
    BY <1>1, <2>1, <2>2, <2>3 DEF Mirrored, Range
<1>6. CASE StartRun \/ PageDone
  <2>1. Committed' = Committed /\ leaves' = leaves
    BY <1>6 DEF StartRun, PageDone, Committed, HasCommitment, Kind, Ledger, Index
  <2>2. /\ phase # "down" /\ phase' # "down" /\ consumer' = "recv"
        /\ todo = {} /\ todo' = {}
    BY <1>1, <1>6 DEF StartRun, PageDone, Idle
  <2>3. Range(leaves) = Committed
    BY <1>1, <2>2 DEF Mirrored
  <2> QED
    BY <2>1, <2>2, <2>3 DEF Mirrored, Range
<1>7. CASE SaveBatch
  <2>1. /\ consumer = "save" /\ consumer' = "insert"
        /\ phase' = phase /\ phase \notin {"down", "rebuild"}
        /\ leaves' = leaves /\ chain' = chain
        /\ events' = events \cup batch.events
        /\ todo' = {e \in batch.events : HasCommitment(e)}
    BY <1>1, <1>7 DEF SaveBatch, LiveLeaf, Idle
  <2>2. Committed' = Committed \cup todo'
    BY <2>1 DEF Committed, HasCommitment, Kind, Ledger, Index
  <2> QED
    BY <1>1, <2>1, <2>2 DEF Mirrored, Range
<1>8. CASE Signal \/ Producer \/ Receive \/ SaveFails \/ InsertFatal \/ Drain
           \/ RunReturns \/ CloseLedger \/ Prune \/ Checkpoint \/ UNCHANGED vars
  <2>1. /\ UNCHANGED <<events, leaves, todo>>
        /\ CloseLedger \/ UNCHANGED chain
        /\ \/ UNCHANGED consumer
           \/ consumer \in {"recv", "save"} /\ consumer' \in {"recv", "save"}
           \/ consumer' \in {"drain", "done"}
        /\ phase' = phase \/ (phase = "serving" /\ phase' = "stopping")
    <3>1. CASE Producer
      BY <3>1 DEF Producer, Poll, FetchMore, FetchNothing, FetchLast, Reanchor,
         FetchError, Send, StopPolling
    <3>2. CASE Signal \/ Receive \/ SaveFails \/ InsertFatal \/ Drain \/ RunReturns
      BY <3>2 DEF Signal, Receive, SaveFails, InsertFatal, Drain, RunReturns
    <3>3. CASE CloseLedger \/ Prune \/ Checkpoint \/ UNCHANGED vars
      BY <3>3 DEF CloseLedger, Prune, Checkpoint, vars
    <3> QED
      BY <1>8, <3>1, <3>2, <3>3
  <2>2. Committed' = Committed
    BY <1>1, <1>2, <2>1, ChainKept DEF Committed
  <2> QED
    BY <1>1, <2>1, <2>2 DEF Mirrored, Range
<1> QED
  BY <1>3, <1>4, <1>5, <1>6, <1>7, <1>8
     DEF Next, Process, Consumer, Environment, RebuildFails, Exit, Crash, PowerLoss

LEMMA MirrorStep == MirrorInv /\ [Next]_vars => MirrorInv'
<1> SUFFICES ASSUME MirrorInv, [Next]_vars PROVE MirrorInv'
  OBVIOUS
<1>1. LossInv'
  BY LossStep DEF MirrorInv
<1> QED
  BY <1>1, OnChainStep, MirroredStep DEF MirrorInv

\* Between two pages the leaves are exactly the commitments of the events
\* table, under every combination of faults: replay after a crash and live
\* insertion leave the same leaves.
THEOREM LeavesMirrorTable == Spec => []TreeMirrorsStore
<1>1. MirrorInv /\ [Next]_vars => MirrorInv'
  BY MirrorStep
<1>2. MirrorInv => TreeMirrorsStore
  BY DEF MirrorInv, Mirrored, TreeMirrorsStore, Committed
<1> QED
  BY MirrorInit, <1>1, <1>2, PTL DEF Spec
-----------------------------------------------------------------------------
(***************************************************************************)
(* The order of the leaves                                                 *)
(*                                                                         *)
(* Leaves are appended as events come out of pages, so the order of the    *)
(* leaves is that of the pages: each starts where those before it end, or  *)
(* beyond.  Exempt are the ledgers from where polling has gone back to,    *)
(* which are read again, and one more: Run resumes at the cursor, whose    *)
(* ledger it had already stored.                                           *)
(***************************************************************************)

\* The events of E lie at ledger n or beyond.
StartsAt(E, n) == \A e \in E : n <= Ledger(e)

\* The events of E lie at ledger n or beyond, or where polling has gone back to.
Follows(E, n) == \A e \in E : n <= Ledger(e) \/ WentBackTo(Ledger(e))

\* Run reads the ledger of the cursor for a second time.
ReadTwice(l) == l = cursor /\ l = resumed

\* Ledger l is new to the store, or exempt.
New(l) == cursor < l \/ ReadTwice(l) \/ WentBackTo(l)

PastCursor(E) == \A e \in E : New(Ledger(e))

\* The poller asks for what is new, or for what the node has forgotten, and
\* then nothing that the node still has is known.
PollsNew ==
  /\ producer \in {"idle", "fetch", "send"} =>
       \/ New(from)
       \/ from < oldest /\ (cursor < oldest \/ WentBackTo(oldest))
  /\ fetched # {} => New(from)

\* Of two commitments, e may be inserted before f.
InsertedBefore(e, f) ==
  \/ Precedes(e, f)
  \/ Ledger(e) = Ledger(f) /\ Ledger(f) = resumed
  \/ WentBackTo(Ledger(f))

\* The leaves in the order of the chain, but for the exempt ledgers.
InsertionOrder ==
  \A j \in DOMAIN leaves : \A i \in 1..(j - 1) : InsertedBefore(leaves[i], leaves[j])

InOrder ==
  /\ InsertionOrder
  /\ phase \in {"down", "rebuild"} => resumed = 0
  /\ \A i \in DOMAIN leaves : \A e \in todo : InsertedBefore(leaves[i], e)
  /\ consumer = "save" =>
       /\ PastCursor(batch.events)
       /\ \A k \in 1..Len(pageCh) : Follows(pageCh[k].events, batch.nextFrom)
  /\ \A k \in 1..Len(pageCh) :
       /\ PastCursor(pageCh[k].events)
       /\ \A j \in 1..(k - 1) : Follows(pageCh[k].events, pageCh[j].nextFrom)
  /\ StartsAt(fetched, from)
  /\ PollsNew

OrderInv == CursorInv /\ MirrorInv /\ InOrder

LEMMA OrderInit == Init => OrderInv
<1> SUFFICES ASSUME Init PROVE OrderInv
  OBVIOUS
<1>1. CursorInv /\ MirrorInv
  BY CursorInit, MirrorInit
<1>2. InOrder
  BY DEF Init, InOrder, InsertionOrder, StartsAt, PollsNew
<1> QED
  BY <1>1, <1>2 DEF OrderInv

\* The numbers the order is about.
LEMMA OrderNumbers ==
  ASSUME TypeOK
  PROVE  /\ cursor \in Nat /\ from \in Nat /\ oldest \in Nat /\ nextFrom \in Nat
         /\ batch.nextFrom \in Nat
         /\ \A k \in 1..Len(pageCh) : pageCh[k].nextFrom \in Nat
         /\ \A e \in EventIds : Ledger(e) \in Nat \ {0} /\ Index(e) \in Nat
         /\ todo \subseteq EventIds /\ fetched \subseteq EventIds
         /\ events \subseteq EventIds /\ batch.events \subseteq EventIds
         /\ \A k \in 1..Len(pageCh) : pageCh[k].events \subseteq EventIds
         /\ DOMAIN leaves = 1..Len(leaves) /\ Len(leaves) \in Nat
         /\ \A i \in DOMAIN leaves : leaves[i] \in EventIds
         /\ resumed \in Nat /\ rewound \in Nat
<1>1. /\ batch \in Pages /\ pageCh \in Seq(Pages) /\ leaves \in Seq(EventIds)
      /\ todo \subseteq EventIds /\ fetched \subseteq EventIds
      /\ events \subseteq EventIds /\ resumed \in Nat
  BY WindowAssumption DEF TypeOK, Uint32
<1>2. \A k \in 1..Len(pageCh) : pageCh[k] \in Pages
  BY <1>1
<1>3. \A e \in EventIds : Ledger(e) \in Nat \ {0} /\ Index(e) \in Nat
  BY DEF EventIds, Ledger, Index
<1>4. /\ batch.events \subseteq EventIds
      /\ \A k \in 1..Len(pageCh) : pageCh[k].events \subseteq EventIds
  BY <1>1, <1>2 DEF Pages
<1>5. /\ DOMAIN leaves = 1..Len(leaves) /\ Len(leaves) \in Nat
      /\ \A i \in DOMAIN leaves : leaves[i] \in EventIds
  BY <1>1
<1> QED
  BY <1>1, <1>3, <1>4, <1>5, PageEnds

\* The memory goes, and the order with it.
LEMMA OrderMemory ==
  ASSUME LoseMemory
  PROVE  InOrder'
<1>1. /\ pageCh' = <<>> /\ Len(pageCh') = 0 /\ leaves' = <<>> /\ DOMAIN leaves' = {}
      /\ producer' = "off" /\ consumer' = "off" /\ fetched' = {} /\ resumed' = 0
  BY EmptySeq DEF LoseMemory
<1> QED
  BY <1>1 DEF InOrder, InsertionOrder, StartsAt, PollsNew

\* rebuildTree and processLoop insert the first of what is left.
LEMMA OrderInsert ==
  ASSUME OrderInv, RebuildInsert \/ InsertLeaf
  PROVE  InOrder'
<1> USE DEF env, disk, polling, history
<1>0. /\ TypeOK /\ InOrder
      /\ UNCHANGED <<env, disk, phase, polling, pageCh, consumer, batch, history>>
  BY DEF RebuildInsert, InsertLeaf, OrderInv, CursorInv, LossInv
<1>1. PICK e \in todo : /\ IsFirst(e, todo)
                        /\ leaves' = Append(leaves, e)
                        /\ todo' = todo \ {e}
  BY DEF RebuildInsert, InsertLeaf
<1>2. PICK n \in Nat : n = Len(leaves)
  BY <1>0 DEF TypeOK
<1>3. /\ DOMAIN leaves = 1..n /\ DOMAIN leaves' = 1..(n + 1)
      /\ \A i \in 1..n : leaves'[i] = leaves[i]
      /\ leaves'[n + 1] = e
  BY <1>0, <1>1, <1>2, AppendProperties DEF TypeOK
<1>4. \A i \in 1..n : \A f \in todo : InsertedBefore(leaves[i], f)
  BY <1>0, <1>3 DEF InOrder
<1>5. \A f \in todo' : Precedes(e, f)
  BY <1>1 DEF IsFirst
<1>6. InsertionOrder'
  <2> SUFFICES ASSUME NEW j \in 1..(n + 1), NEW i \in 1..(j - 1)
               PROVE  InsertedBefore(leaves'[i], leaves'[j])
    BY <1>0, <1>3 DEF InsertionOrder, InsertedBefore, Precedes, WentBackTo,
       Ledger, Index
  <2>1. CASE j \in 1..n
    BY <1>0, <1>3, <2>1 DEF InOrder, InsertionOrder, InsertedBefore, WentBackTo
  <2>2. CASE j = n + 1
    <3>1. i \in 1..n
      BY <2>2
    <3> QED
      BY <1>1, <1>3, <1>4, <2>2, <3>1
  <2> QED
    BY <2>1, <2>2
<1>7. \A i \in 1..(n + 1) : \A f \in todo' : InsertedBefore(leaves'[i], f)
  <2> SUFFICES ASSUME NEW i \in 1..(n + 1), NEW f \in todo'
               PROVE  InsertedBefore(leaves'[i], f)
    OBVIOUS
  <2>1. CASE i \in 1..n
    BY <1>1, <1>3, <1>4, <2>1
  <2>2. CASE i = n + 1
    BY <1>3, <1>5, <2>2 DEF InsertedBefore
  <2> QED
    BY <2>1, <2>2
<1> QED
  BY <1>0, <1>3, <1>6, <1>7 DEF InOrder, InsertedBefore, StartsAt, Follows,
     PastCursor,
     New, ReadTwice, WentBackTo, PollsNew, Precedes, Ledger, Index

\* Run resumes at the cursor or beyond, or has gone back; the rebuilt tree ends
\* at the cursor.
LEMMA OrderStart ==
  ASSUME OrderInv, TypeOK', StartRun
  PROVE  InOrder'
<1> USE DEF env, disk
<1>0. /\ TypeOK /\ Idle /\ InOrder
      /\ producer' = "idle" /\ consumer' = "recv" /\ phase' = "serving"
      /\ UNCHANGED <<env, disk, leaves, fetched, pageCh, todo>> /\ todo = {}
  BY DEF StartRun, OrderInv, CursorInv, LossInv
<1>1. PICK start \in Uint32 :
        from' = start /\ resumed' = start /\ GoesBack(start, cursor)
  BY DEF StartRun, TypeOK
<1>2. pageCh' = <<>> /\ Len(pageCh') = 0 /\ fetched' = {} /\ resumed = 0
  BY <1>0, EmptySeq DEF StartRun, Idle, InOrder
<1>3. /\ cursor \in Nat /\ start \in Nat /\ rewound \in Nat
      /\ \A i \in DOMAIN leaves : leaves[i] \in EventIds
      /\ \A e \in EventIds : Ledger(e) \in Nat \ {0}
  BY <1>0, OrderNumbers, WindowAssumption DEF Uint32
<1>4. rewound' \in Nat /\ rewound' <= rewound /\ (start < cursor => rewound' <= start)
  BY <1>1, <1>3 DEF GoesBack, Lesser
<1>5. InsertionOrder'
  <2>1. \A j \in DOMAIN leaves : \A i \in 1..(j - 1) : i \in DOMAIN leaves
    BY <1>0, OrderNumbers
  <2>2. \A j \in DOMAIN leaves : \A i \in 1..(j - 1) :
          Precedes(leaves[i], leaves[j]) \/ rewound <= Ledger(leaves[j])
    BY <1>0, <1>2, <1>3, <2>1
       DEF InOrder, InsertionOrder, InsertedBefore, WentBackTo
  <2>3. \A j \in DOMAIN leaves :
          rewound <= Ledger(leaves[j]) => rewound' <= Ledger(leaves[j])
    BY <1>3, <1>4
  <2> QED
    BY <1>0, <2>2, <2>3 DEF InsertionOrder, InsertedBefore, Precedes, WentBackTo,
       Ledger, Index
<1>6. PollsNew'
  BY <1>0, <1>1, <1>2, <1>3, <1>4 DEF PollsNew, New, ReadTwice, WentBackTo
<1> QED
  BY <1>0, <1>2, <1>5, <1>6 DEF InOrder, StartsAt

\* What is behind new ledgers is new.
LEMMA NewLater ==
  ASSUME TypeOK, NEW m \in Nat, NEW n \in Nat, New(m), m <= n
  PROVE  New(n)
BY PageEnds DEF New, ReadTwice, WentBackTo

\* The poller that gets an answer asks for what is new.
LEMMA AnsweredNew ==
  ASSUME TypeOK, PollsNew, producer = "fetch", ~StaleStart
  PROVE  New(from)
<1>1. CASE fetched # {}
  BY <1>1 DEF PollsNew
<1>2. CASE fetched = {}
  <2>1. LastLedger({}) = from
    BY LastLedgerIsLast DEF TypeOK
  <2>2. from \in Nat /\ oldest \in Nat
    BY PageEnds
  <2> QED
    BY <1>2, <2>1, <2>2 DEF StaleStart, PollsNew
<1> QED
  BY <1>1, <1>2

\* What the poller reads lies where it polls, or beyond, and is new.
LEMMA OrderFetch ==
  ASSUME OrderInv, Poll \/ FetchMore \/ FetchNothing \/ FetchLast \/ FetchError
  PROVE  InOrder'
<1> USE DEF env, disk, working, history
<1>0. /\ TypeOK /\ Idle /\ InOrder
      /\ UNCHANGED <<env, disk, phase, leaves, pageCh, working, history>>
      /\ producer \in {"idle", "fetch"}
      /\ from \in Nat /\ cursor \in Nat /\ oldest \in Nat
  BY PageEnds DEF Poll, FetchMore, FetchNothing, FetchLast, FetchError, OrderInv,
     CursorInv, LossInv
<1>1. SUFFICES StartsAt(fetched, from)' /\ PollsNew'
  BY <1>0 DEF InOrder, InsertionOrder, InsertedBefore, Precedes, StartsAt, Follows,
     PastCursor, New, ReadTwice, WentBackTo, Ledger, Index
<1>2. StartsAt(fetched, from) /\ PollsNew
  BY <1>0 DEF InOrder
<1>3. LastLedger({}) = from
  BY <1>0, LastLedgerIsLast DEF TypeOK
<1>4. ASSUME ~StaleStart, producer = "fetch"
      PROVE  New(from)
  BY <1>0, <1>2, <1>4, AnsweredNew
<1>5. StartsAt(Answer(Remaining), from)
  BY DEF Answer, FirstN, Remaining, EventsIn, EventsFrom, StartsAt
<1>6. CASE Poll \/ FetchError
  <2>1. from' = from /\ (fetched' = fetched \/ fetched' = {})
    BY <1>6 DEF Poll, FetchError
  <2> QED
    BY <1>0, <1>2, <2>1 DEF StartsAt, PollsNew, New, ReadTwice, WentBackTo, Ledger
<1>7. CASE FetchMore \/ FetchLast
  <2>1. /\ from' = from /\ fetched' = fetched \cup Answer(Remaining)
        /\ New(from)
    BY <1>4, <1>7 DEF FetchMore, FetchLast
  <2> QED
    BY <1>0, <1>2, <1>5, <2>1 DEF StartsAt, PollsNew, New, ReadTwice, WentBackTo, Ledger
<1>8. CASE FetchNothing
  <2>1. New(from)
    BY <1>4, <1>8 DEF FetchNothing
  <2>2. fetched' = {} /\ producer = "fetch" /\ fetched = {}
    BY <1>8 DEF FetchNothing
  <2>3. LET next == NextFrom(endLedger, LastLedger({}))
        IN  Ends(next) /\ next > from
    BY <1>0, <1>8, <2>2, WindowEnd DEF FetchNothing, OrderInv, CursorInv, LossInv
  <2>4. from' \in Nat /\ from < from'
    BY <1>0, <1>3, <1>8, <2>2, <2>3, Numbers DEF FetchNothing, Greater, Ends
  <2>5. New(from')
    BY <1>0, <2>1, <2>4, NewLater
  <2> QED
    BY <1>0, <2>2, <2>5 DEF StartsAt, PollsNew, New, ReadTwice, WentBackTo
<1> QED
  BY <1>6, <1>7, <1>8

\* What polling going back does to the order: it exempts more.
LEMMA OrderBack ==
  ASSUME OrderInv, rewound' \in Nat, rewound' <= rewound,
         UNCHANGED <<cursor, phase, leaves, pageCh, working, resumed>>,
         StartsAt(fetched, from)', PollsNew'
  PROVE  InOrder'
<1> USE DEF working
<1>1. /\ TypeOK /\ InOrder
      /\ \A e \in EventIds : Ledger(e) \in Nat /\ Ledger(e)' = Ledger(e)
      /\ todo \subseteq EventIds /\ batch.events \subseteq EventIds
      /\ \A k \in 1..Len(pageCh) : pageCh[k].events \subseteq EventIds
      /\ \A i \in DOMAIN leaves : leaves[i] \in EventIds
      /\ rewound \in Nat
  <2>1. TypeOK /\ InOrder
    BY DEF OrderInv, CursorInv, LossInv
  <2> QED
    BY <2>1, OrderNumbers DEF Ledger
<1>2. \A l \in Nat : /\ WentBackTo(l) => WentBackTo(l)'
                     /\ New(l) => New(l)'
  BY <1>1 DEF New, ReadTwice, WentBackTo
<1>3. ASSUME NEW e, NEW f \in EventIds, InsertedBefore(e, f)
      PROVE  InsertedBefore(e, f)'
  BY <1>1, <1>2, <1>3 DEF InsertedBefore, Precedes, Ledger, Index, WentBackTo
<1>4. ASSUME NEW E, E \subseteq EventIds
      PROVE  /\ PastCursor(E) => PastCursor(E)'
             /\ \A n : Follows(E, n) => Follows(E, n)'
  BY <1>1, <1>2, <1>4 DEF PastCursor, Follows, WentBackTo, New, ReadTwice, Ledger
<1>5. InsertionOrder'
  BY <1>1, <1>3 DEF InOrder, InsertionOrder, InsertedBefore, Precedes, Ledger,
     Index, WentBackTo
<1>6. \A i \in DOMAIN leaves : \A e \in todo : InsertedBefore(leaves[i], e)'
  BY <1>1, <1>3 DEF InOrder
<1>7. consumer = "save" =>
        /\ PastCursor(batch.events)'
        /\ \A k \in 1..Len(pageCh) : Follows(pageCh[k].events, batch.nextFrom)'
  BY <1>1, <1>4 DEF InOrder
<1>8. \A k \in 1..Len(pageCh) :
        /\ PastCursor(pageCh[k].events)'
        /\ \A j \in 1..(k - 1) : Follows(pageCh[k].events, pageCh[j].nextFrom)'
  BY <1>1, <1>4 DEF InOrder
<1> QED
  BY <1>1, <1>5, <1>6, <1>7, <1>8 DEF InOrder, InsertedBefore, Precedes,
     PastCursor, Follows, New, ReadTwice, WentBackTo, Ledger, Index

\* Re-anchoring from a stale start leads beyond what the node has forgotten, or
\* into it; from any other start forwards, or back and on the record.
LEMMA OrderReanchor ==
  ASSUME OrderInv, Reanchor
  PROVE  InOrder'
<1> USE DEF env, disk, working
<1>0. /\ TypeOK /\ InOrder /\ producer = "fetch"
      /\ UNCHANGED <<env, disk, phase, leaves, pageCh, working, resumed>>
      /\ from \in Nat /\ cursor \in Nat /\ oldest \in Nat /\ rewound \in Nat
      /\ fetched' = {} /\ PollsNew
  BY PageEnds DEF Reanchor, OrderInv, CursorInv, LossInv, InOrder
<1>1. PICK newFrom \in OldestAvailable :
        /\ from' = newFrom
        /\ IF StaleStart THEN UNCHANGED rewound ELSE GoesBack(newFrom, from)
  BY DEF Reanchor
<1>2. newFrom \in Nat
  BY <1>0, OldestAvailableType, WindowAssumption DEF Uint32
<1>3. rewound' \in Nat /\ rewound' <= rewound
  BY <1>0, <1>1, <1>2 DEF GoesBack, Lesser
<1>4. PollsNew'
  <2>1. CASE StaleStart
    <3>1. from < oldest
      <4>1. LastLedger(fetched) \in Uint32 /\ LastLedger(fetched) >= from
        BY <1>0, LastLedgerIsLast DEF TypeOK
      <4> QED
        BY <1>0, <2>1, <4>1, WindowAssumption DEF StaleStart, Uint32
    <3>2. cursor < oldest \/ WentBackTo(oldest)
      BY <1>0, <3>1 DEF PollsNew, New, ReadTwice, WentBackTo
    <3> QED
      BY <1>0, <1>1, <1>2, <2>1, <3>2 DEF PollsNew, New, ReadTwice, WentBackTo
  <2>2. CASE ~StaleStart
    <3>1. New(from)
      BY <1>0, <2>2, AnsweredNew
    <3>2. New(newFrom)'
      <4>1. CASE newFrom < from
        BY <1>0, <1>1, <1>2, <2>2, <4>1 DEF New, WentBackTo, GoesBack, Lesser
      <4>2. CASE from <= newFrom
        <5>1. New(newFrom)
          BY <1>0, <1>2, <3>1, <4>2, NewLater
        <5> QED
          BY <1>0, <1>2, <1>3, <5>1 DEF New, ReadTwice, WentBackTo
      <4> QED
        BY <1>0, <1>2, <4>1, <4>2
    <3> QED
      BY <1>0, <1>1, <3>2 DEF PollsNew, New, ReadTwice, WentBackTo
  <2> QED
    BY <2>1, <2>2
<1>5. StartsAt(fetched, from)'
  BY <1>0 DEF StartsAt
<1> QED
  BY <1>0, <1>3, <1>4, <1>5, OrderBack

\* A page sent starts where the pages before it end, or beyond.
LEMMA OrderSend ==
  ASSUME OrderInv, Send
  PROVE  InOrder'
<1> USE DEF env, disk, working, history
<1> DEFINE p == Page(fetched, nextFrom)
<1>0. /\ TypeOK /\ InOrder /\ Behind(from)
      /\ producer = "send" /\ producer' = "idle" /\ from' = nextFrom
      /\ fetched' = {} /\ from < nextFrom
      /\ UNCHANGED <<env, disk, phase, leaves, working, history>>
      /\ from \in Nat /\ cursor \in Nat /\ oldest \in Nat /\ nextFrom \in Nat
      /\ batch.nextFrom \in Nat /\ rewound \in Nat
  BY PageEnds DEF Send, OrderInv, CursorInv, LossInv, Position
<1>1. PICK n \in Nat : n = Len(pageCh)
  BY <1>0 DEF TypeOK
<1>2. /\ Len(pageCh') = n + 1
      /\ \A k \in 1..n : pageCh'[k] = pageCh[k]
      /\ pageCh'[n + 1] = p
  <2>1. p \in Pages /\ pageCh \in Seq(Pages)
    BY <1>0 DEF Page, Pages, TypeOK
  <2> QED
    BY <1>1, <2>1, AppendProperties DEF Send
<1>3. p.events = fetched
  BY DEF Page
<1>4. /\ \A e \in fetched : Ledger(e) \in Nat
      /\ \A k \in 1..n : pageCh[k].nextFrom \in Nat
  BY <1>0, <1>1, OrderNumbers
<1> HIDE DEF p
<1>5. StartsAt(fetched, from)
  BY <1>0 DEF InOrder
<1>6. PastCursor(fetched)
  BY <1>0, <1>4, <1>5, NewLater DEF InOrder, PollsNew, StartsAt, PastCursor
<1>7. /\ consumer = "save" => Follows(fetched, batch.nextFrom)
      /\ \A k \in 1..n : Follows(fetched, pageCh[k].nextFrom)
  <2>1. \A e \in fetched : from <= Ledger(e)
    BY <1>5 DEF StartsAt
  <2>2. CASE WentBackTo(from)
    <3>1. \A e \in fetched : WentBackTo(Ledger(e))
      BY <1>0, <1>4, <2>1, <2>2 DEF WentBackTo
    <3> QED
      BY <3>1 DEF Follows
  <2>3. CASE ~WentBackTo(from)
    <3>1. /\ consumer = "save" => batch.nextFrom <= from
          /\ \A k \in 1..n : pageCh[k].nextFrom <= from
      BY <1>0, <1>1, <2>3 DEF Behind
    <3>2. \A m \in Nat : m <= from => Follows(fetched, m)
      BY <1>0, <1>4, <2>1 DEF Follows
    <3> QED
      BY <1>0, <1>4, <3>1, <3>2
  <2> QED
    BY <2>2, <2>3
<1>8. \A k \in 1..(n + 1) : k \in 1..n \/ k = n + 1
  OBVIOUS
<1>9. \A k \in 1..(n + 1) :
        /\ PastCursor(pageCh'[k].events)
        /\ consumer = "save" => Follows(pageCh'[k].events, batch.nextFrom)
  BY <1>0, <1>1, <1>2, <1>3, <1>6, <1>7, <1>8 DEF InOrder
<1>10. ASSUME NEW k \in 1..(n + 1), NEW j \in 1..(k - 1)
       PROVE  Follows(pageCh'[k].events, pageCh'[j].nextFrom)
  <2>1. CASE k \in 1..n
    <3>1. j \in 1..n
      BY <2>1
    <3> QED
      BY <1>0, <1>1, <1>2, <2>1, <3>1 DEF InOrder
  <2>2. CASE k = n + 1
    <3>1. j \in 1..n
      BY <2>2
    <3> QED
      BY <1>2, <1>3, <1>7, <2>2, <3>1
  <2> QED
    BY <1>8, <2>1, <2>2
<1>11. PollsNew'
  <2>1. New(nextFrom)
    BY <1>0 DEF Behind, WentBackTo, New
  <2> QED
    BY <1>0, <2>1 DEF PollsNew, New, ReadTwice, WentBackTo
<1> QED
  BY <1>0, <1>2, <1>9, <1>10, <1>11 DEF InOrder, InsertionOrder,
     InsertedBefore, Precedes, StartsAt, Follows, PastCursor, New, ReadTwice,
     WentBackTo, Ledger, Index

\* The page received or drained is the first; those behind it stay in order.
LEMMA OrderTake ==
  ASSUME OrderInv, Receive \/ Drain
  PROVE  InOrder'
<1> USE DEF env, disk, polling, working, history
<1>0. /\ TypeOK /\ InOrder /\ consumer # "save" /\ pageCh # <<>>
      /\ UNCHANGED <<env, disk, polling, phase, leaves, todo, history>>
      /\ pageCh' = Tail(pageCh)
      /\ \/ consumer' # "save"
         \/ consumer' = "save" /\ batch' = Head(pageCh)
  BY DEF Receive, Drain, OrderInv, CursorInv, LossInv
<1>1. PICK n \in Nat : n = Len(pageCh)
  BY <1>0 DEF TypeOK
<1>2. /\ n > 0 /\ Len(pageCh') = n - 1
      /\ \A k \in 1..(n - 1) : pageCh'[k] = pageCh[k + 1]
      /\ consumer' = "save" => batch' = pageCh[1]
  <2>1. pageCh \in Seq(Pages)
    BY <1>0 DEF TypeOK
  <2> QED
    BY <1>0, <1>1, <2>1, HeadTailProperties
<1>3. \A k \in 1..(n - 1) : k + 1 \in 1..n /\ 1 \in 1..((k + 1) - 1)
  OBVIOUS
<1>4. consumer' = "save" =>
        /\ PastCursor(batch'.events)
        /\ \A k \in 1..(n - 1) : Follows(pageCh'[k].events, batch'.nextFrom)
  BY <1>0, <1>1, <1>2, <1>3 DEF InOrder
<1>5. \A k \in 1..(n - 1) : PastCursor(pageCh'[k].events)
  BY <1>0, <1>1, <1>2, <1>3 DEF InOrder
<1>6. ASSUME NEW k \in 1..(n - 1), NEW j \in 1..(k - 1)
      PROVE  Follows(pageCh'[k].events, pageCh'[j].nextFrom)
  <2>1. k + 1 \in 1..n /\ j + 1 \in 1..((k + 1) - 1) /\ j \in 1..(n - 1)
    OBVIOUS
  <2> QED
    BY <1>0, <1>1, <1>2, <2>1 DEF InOrder
<1> QED
  BY <1>0, <1>2, <1>4, <1>5, <1>6 DEF InOrder, InsertionOrder,
     InsertedBefore, Precedes, StartsAt, Follows, PastCursor, New, ReadTwice,
     WentBackTo, PollsNew, Ledger, Index

\* The commitments of the page saved come after the leaves, and before the
\* pages to come.
LEMMA OrderSave ==
  ASSUME OrderInv, SaveBatch
  PROVE  InOrder'
<1> USE DEF env, polling, history
<1>0. /\ TypeOK /\ Idle /\ InOrder /\ consumer = "save" /\ consumer' = "insert"
      /\ UNCHANGED <<env, phase, leaves, polling, pageCh, batch, history>>
      /\ \A e \in todo' : e \in batch.events
      /\ CursorBoundsStore /\ Position
      /\ phase # "down"
  BY DEF SaveBatch, OrderInv, CursorInv, LossInv, Idle, Enclosed
<1>1. /\ batch.nextFrom \in 1..(Len(chain) + 1)
      /\ Len(chain) \in Nat /\ Len(chain) < MaxUint32 /\ MaxUint32 \in Nat
  BY <1>0, Numbers DEF OrderInv, CursorInv, LossInv, Bounds, Ends
<1>2. cursor' = batch.nextFrom - 1
  BY <1>0, <1>1 DEF SaveBatch, BatchCursor, Wrap
<1>3. /\ cursor \in Nat /\ from \in Nat /\ oldest \in Nat /\ resumed \in Nat
      /\ rewound \in Nat
      /\ \A k \in 1..Len(pageCh) : pageCh[k].events \subseteq EventIds
      /\ events \subseteq EventIds /\ batch.events \subseteq EventIds
      /\ \A e \in EventIds : Ledger(e) \in Nat
      /\ \A i \in DOMAIN leaves : leaves[i] \in EventIds
  BY <1>0, OrderNumbers
<1>4. cursor < rewound => \A i \in DOMAIN leaves : Ledger(leaves[i]) <= cursor
  <2>1. Range(leaves) \subseteq events
    BY <1>0 DEF OrderInv, MirrorInv, Mirrored, Committed
  <2> QED
    BY <1>0, <2>1 DEF Range, CursorBoundsStore
<1>5. \A i \in DOMAIN leaves : \A e \in todo' : InsertedBefore(leaves[i], e)
  <2> SUFFICES ASSUME NEW i \in DOMAIN leaves, NEW e \in todo'
               PROVE  InsertedBefore(leaves[i], e)
    OBVIOUS
  <2>1. New(Ledger(e))
    BY <1>0 DEF InOrder, PastCursor
  <2>2. /\ cursor < rewound => Ledger(leaves[i]) <= cursor
        /\ Ledger(leaves[i]) \in Nat
        /\ Ledger(e) \in Nat
    BY <1>0, <1>3, <1>4
  <2> QED
    BY <1>3, <2>1, <2>2 DEF InsertedBefore, Precedes, New, ReadTwice, WentBackTo
<1>6. \A k \in 1..Len(pageCh) : \A e \in pageCh[k].events :
        cursor' < Ledger(e) \/ WentBackTo(Ledger(e))
  <2>1. \A k \in 1..Len(pageCh) : \A e \in pageCh[k].events :
          /\ batch.nextFrom <= Ledger(e) \/ WentBackTo(Ledger(e))
          /\ Ledger(e) \in Nat
    BY <1>0, <1>3 DEF InOrder, Follows
  <2> QED
    BY <1>1, <1>2, <2>1
<1>7. PollsNew'
  <2>1. Behind(from) => cursor' < from \/ WentBackTo(from)
    BY <1>0, <1>1, <1>2, <1>3 DEF Behind
  <2>2. Behind(oldest) => cursor' < oldest \/ WentBackTo(oldest)
    BY <1>0, <1>1, <1>2, <1>3 DEF Behind
  <2>3. fetched # {} => Behind(from)
    BY <1>0 DEF Position, Idle
  <2> QED
    BY <1>0, <2>1, <2>2, <2>3 DEF Position, PollsNew, New, WentBackTo
<1> QED
  BY <1>0, <1>5, <1>6, <1>7 DEF InOrder, InsertionOrder,
     InsertedBefore, Precedes, StartsAt, Follows, PastCursor, New, ReadTwice,
     WentBackTo, Ledger, Index

\* No other step moves an event, the cursor or the poller.
LEMMA OrderRest ==
  ASSUME OrderInv,
         \/ CloseLedger \/ Prune \/ Boot \/ Signal
         \/ StopPolling \/ SaveFails \/ PageDone \/ InsertFatal
         \/ RunReturns \/ Checkpoint \/ UNCHANGED vars
  PROVE  InOrder'
<1> USE DEF env, disk, polling, working, history
<1>0. /\ TypeOK /\ InOrder
      /\ UNCHANGED <<cursor, leaves, pageCh, from, resumed, rewound>>
      /\ oldest' = oldest \/ oldest' = oldest + 1
      /\ UNCHANGED <<producer, fetched>> \/ (producer' = "stopped" /\ fetched' = {})
      /\ consumer' = "save" => consumer = "save" /\ batch' = batch
      /\ todo' = todo \/ leaves' = <<>>
      /\ phase' \in {"down", "rebuild"} => phase \in {"down", "rebuild"}
  BY DEF CloseLedger, Prune, Boot, Signal, StopPolling, SaveFails, PageDone,
         InsertFatal, RunReturns, Checkpoint, vars, OrderInv, CursorInv, LossInv,
         MirrorInv, Mirrored
<1>1. from \in Nat /\ oldest \in Nat /\ cursor \in Nat /\ rewound \in Nat
  BY <1>0, PageEnds
<1>2. PollsNew'
  BY <1>0, <1>1 DEF InOrder, PollsNew, New, ReadTwice, WentBackTo
<1>3. \A i \in DOMAIN leaves' : \A e \in todo' : InsertedBefore(leaves'[i], e)
  BY <1>0 DEF InOrder
<1> QED
  BY <1>0, <1>2, <1>3 DEF InOrder, InsertionOrder,
     InsertedBefore, Precedes, StartsAt, Follows, PastCursor, New, ReadTwice,
     WentBackTo, Ledger, Index

LEMMA OrderStep == OrderInv /\ [Next]_vars => OrderInv'
<1> SUFFICES ASSUME OrderInv, [Next]_vars PROVE OrderInv'
  OBVIOUS
<1>1. CursorInv' /\ MirrorInv'
  BY CursorStep, MirrorStep DEF OrderInv
<1>2. TypeOK'
  BY <1>1 DEF CursorInv, LossInv
<1>3. InOrder'
  BY <1>2, OrderMemory, OrderInsert, OrderStart, OrderFetch, OrderReanchor, OrderSend,
     OrderTake, OrderSave, OrderRest
     DEF Next, Process, Producer, Consumer, Environment, RebuildFails, Exit,
         Crash, PowerLoss
<1> QED
  BY <1>1, <1>3 DEF OrderInv

\* Before the ledgers that polling has gone back to, the ledger that Run resumed
\* at comes out of the node once.  A leaf is out of order when another at or
\* beyond it was inserted before.
OutOfOrder(j) ==
  /\ ~WentBackTo(Ledger(leaves[j]))
  /\ \E i \in 1..(j - 1) : ~Precedes(leaves[i], leaves[j])
Sorted == \A j \in DOMAIN leaves : ~OutOfOrder(j)
FollowsAll(e) ==
  WentBackTo(Ledger(e)) \/ \A i \in DOMAIN leaves : Precedes(leaves[i], e)

\* The ledger that Run resumed at may still be read, or is on its way.
RereadAhead ==
  /\ ~WentBackTo(resumed)
  /\ \/ /\ producer \in {"idle", "fetch", "send"}
        /\ from <= resumed
        /\ oldest <= resumed \/ fetched # {}
     \/ \E k \in 1..Len(pageCh) : \E e \in pageCh[k].events : Ledger(e) = resumed
RereadInHand ==
  /\ ~WentBackTo(resumed)
  /\ consumer = "save"
  /\ \E e \in batch.events : Ledger(e) = resumed

\* Until that page is saved the leaves are those of a replay, and what is
\* inserted comes behind them; what comes after it is new.
ReadOnceMore ==
  /\ \A j \in DOMAIN leaves : OutOfOrder(j) =>
       /\ \A k \in (j + 1)..Len(leaves) : Precedes(leaves[j], leaves[k])
       /\ \A e \in todo : Precedes(leaves[j], e)
  /\ RereadAhead \/ RereadInHand => Sorted
  /\ RereadAhead => \A e \in todo : FollowsAll(e)

RereadInv == OrderInv /\ ReadOnceMore

LEMMA RereadInit == Init => RereadInv
<1> SUFFICES ASSUME Init PROVE RereadInv
  OBVIOUS
<1>1. DOMAIN leaves = {}
  BY EmptySeq DEF Init
<1> QED
  BY <1>1, OrderInit DEF RereadInv, ReadOnceMore, Sorted, FollowsAll

\* An empty tree has nothing out of order.
LEMMA RereadEmpty ==
  ASSUME leaves' = <<>>
  PROVE  ReadOnceMore'
<1>1. DOMAIN leaves' = {}
  BY EmptySeq
<1> QED
  BY <1>1 DEF ReadOnceMore, Sorted, FollowsAll

LEMMA RereadInsert ==
  ASSUME RereadInv, RebuildInsert \/ InsertLeaf
  PROVE  ReadOnceMore'
<1> USE DEF env, disk, polling, history
<1>0. /\ TypeOK /\ ReadOnceMore /\ consumer' # "save"
      /\ UNCHANGED <<env, polling, pageCh, consumer, batch, history>>
  BY DEF RebuildInsert, InsertLeaf, RereadInv, OrderInv, CursorInv, LossInv, Idle
<1>1. PICK e \in todo : /\ IsFirst(e, todo)
                        /\ leaves' = Append(leaves, e)
                        /\ todo' = todo \ {e}
  BY DEF RebuildInsert, InsertLeaf
<1>2. PICK n \in Nat : n = Len(leaves)
  BY <1>0 DEF TypeOK
<1>3. /\ DOMAIN leaves = 1..n /\ DOMAIN leaves' = 1..(n + 1) /\ Len(leaves') = n + 1
      /\ \A i \in 1..n : leaves'[i] = leaves[i]
      /\ leaves'[n + 1] = e
  BY <1>0, <1>1, <1>2, AppendProperties DEF TypeOK
<1>4. \A f \in todo' : f \in todo /\ Precedes(e, f)
  BY <1>1 DEF IsFirst
<1>5. \A j \in 1..n : OutOfOrder(j)' <=> OutOfOrder(j)
  BY <1>0, <1>3 DEF OutOfOrder, WentBackTo, Precedes, Ledger, Index
<1>6. RereadAhead' <=> RereadAhead
  BY <1>0 DEF RereadAhead, WentBackTo, Ledger
<1>7. ~RereadInHand'
  BY <1>0 DEF RereadInHand
<1>8. ASSUME NEW j \in 1..(n + 1), OutOfOrder(j)'
      PROVE  /\ \A k \in (j + 1)..(n + 1) : Precedes(leaves'[j], leaves'[k])
             /\ \A f \in todo' : Precedes(leaves'[j], f)
  <2>1. CASE j \in 1..n
    <3>1. /\ \A k \in (j + 1)..n : Precedes(leaves[j], leaves[k])
          /\ \A f \in todo : Precedes(leaves[j], f)
      BY <1>0, <1>2, <1>3, <1>5, <1>8, <2>1 DEF ReadOnceMore
    <3>2. \A k \in (j + 1)..(n + 1) : k = n + 1 \/ (k \in (j + 1)..n /\ k \in 1..n)
      BY <2>1
    <3> QED
      BY <1>1, <1>3, <1>4, <2>1, <3>1, <3>2
  <2>2. CASE j = n + 1
    BY <1>3, <1>4, <2>2
  <2> QED
    BY <2>1, <2>2
<1>9. ASSUME RereadAhead
      PROVE  Sorted' /\ \A f \in todo' : FollowsAll(f)'
  <2>1. Sorted /\ \A f \in todo : FollowsAll(f)
    BY <1>0, <1>9 DEF ReadOnceMore
  <2>2. WentBackTo(Ledger(e)) \/ \A i \in 1..n : Precedes(leaves[i], e)
    BY <1>1, <1>3, <2>1 DEF FollowsAll
  <2>3. ~OutOfOrder(n + 1)'
    <3>1. \A i \in 1..((n + 1) - 1) : i \in 1..n
      OBVIOUS
    <3> QED
      BY <1>0, <1>3, <2>2, <3>1 DEF OutOfOrder, WentBackTo, Precedes, Ledger, Index
  <2>4. Sorted'
    <3>1. \A j \in 1..(n + 1) : j \in 1..n \/ j = n + 1
      OBVIOUS
    <3> QED
      BY <1>3, <1>5, <2>1, <2>3, <3>1 DEF Sorted
  <2>5. ASSUME NEW f \in todo', ~WentBackTo(Ledger(f)), NEW i \in 1..(n + 1)
        PROVE  Precedes(leaves'[i], f)
    <3>1. CASE i \in 1..n
      BY <1>3, <1>4, <2>1, <2>5, <3>1 DEF FollowsAll
    <3>2. CASE i = n + 1
      BY <1>3, <1>4, <3>2
    <3> QED
      BY <3>1, <3>2
  <2> QED
    BY <1>0, <1>3, <2>4, <2>5 DEF FollowsAll, WentBackTo, Precedes, Ledger, Index
<1> QED
  BY <1>3, <1>6, <1>7, <1>8, <1>9
     DEF ReadOnceMore, Precedes, Ledger, Index

\* The rebuilt tree is a replay.
LEMMA RereadStart ==
  ASSUME RereadInv, TypeOK', StartRun
  PROVE  ReadOnceMore'
<1> USE DEF env, disk
<1>0. /\ TypeOK /\ InOrder /\ resumed = 0 /\ phase = "rebuild"
      /\ leaves' = leaves /\ todo' = {}
  BY DEF StartRun, RereadInv, OrderInv, CursorInv, LossInv, InOrder
<1>1. /\ \A j \in DOMAIN leaves : \A i \in 1..(j - 1) : i \in DOMAIN leaves
      /\ \A i \in DOMAIN leaves : leaves[i] \in EventIds
      /\ \A e \in EventIds : Ledger(e) \in Nat \ {0}
      /\ rewound \in Nat
  BY <1>0, OrderNumbers
<1>2. \A j \in DOMAIN leaves : \A i \in 1..(j - 1) :
        Precedes(leaves[i], leaves[j]) \/ rewound <= Ledger(leaves[j])
  BY <1>0, <1>1 DEF InOrder, InsertionOrder, InsertedBefore, WentBackTo
<1>3. rewound' \in Nat /\ rewound' <= rewound
  <2>1. PICK start \in Uint32 : GoesBack(start, cursor)
    BY DEF StartRun, TypeOK
  <2> QED
    BY <1>0, <2>1, PageEnds, WindowAssumption DEF GoesBack, Lesser, Uint32
<1>4. Sorted'
  <2>1. \A j \in DOMAIN leaves :
          rewound <= Ledger(leaves[j]) => rewound' <= Ledger(leaves[j])
    BY <1>1, <1>3
  <2> QED
    BY <1>0, <1>2, <2>1 DEF Sorted, OutOfOrder, WentBackTo, Precedes, Ledger, Index
<1> QED
  BY <1>0, <1>4 DEF ReadOnceMore, Sorted

\* Nothing that leaves the tree alone brings the ledger back.
LEMMA RereadKept ==
  ASSUME TypeOK, ReadOnceMore, UNCHANGED <<leaves, todo>>,
         rewound' \in Nat, rewound' <= rewound,
         RereadAhead' => RereadAhead,
         RereadInHand' => RereadAhead \/ RereadInHand
  PROVE  ReadOnceMore'
<1>1. /\ \A e \in EventIds : Ledger(e) \in Nat
      /\ todo \subseteq EventIds
      /\ \A i \in DOMAIN leaves : leaves[i] \in EventIds
      /\ rewound \in Nat
  BY OrderNumbers
<1>2. \A e \in EventIds : WentBackTo(Ledger(e)) => WentBackTo(Ledger(e))'
  BY <1>1 DEF WentBackTo, Ledger
<1>3. \A j \in DOMAIN leaves : OutOfOrder(j)' => OutOfOrder(j)
  BY <1>1, <1>2 DEF OutOfOrder, WentBackTo, Precedes, Ledger, Index
<1>4. \A e \in todo : FollowsAll(e) => FollowsAll(e)'
  BY <1>1, <1>2 DEF FollowsAll, WentBackTo, Precedes, Ledger, Index
<1> QED
  BY <1>3, <1>4 DEF ReadOnceMore, Sorted, Precedes, Ledger, Index

LEMMA RereadFetch ==
  ASSUME RereadInv, Poll \/ FetchMore \/ FetchNothing \/ FetchLast \/ FetchError
                    \/ Reanchor
  PROVE  ReadOnceMore'
<1> USE DEF env, disk, working, history
<1>0. /\ TypeOK /\ ReadOnceMore
      /\ UNCHANGED <<oldest, leaves, pageCh, working, resumed>>
      /\ producer \in {"idle", "fetch"}
      /\ from \in Nat /\ oldest \in Nat /\ resumed \in Nat /\ rewound \in Nat
  BY OrderNumbers DEF Poll, FetchMore, FetchNothing, FetchLast, FetchError,
     Reanchor, RereadInv, OrderInv, CursorInv, LossInv
<1>1. LastLedger({}) = from
  BY <1>0, LastLedgerIsLast DEF TypeOK
<1>2. rewound' \in Nat /\ rewound' <= rewound => (RereadInHand' => RereadInHand)
  BY <1>0 DEF RereadInHand, WentBackTo, Ledger
<1>3. CASE Poll \/ FetchError
  <2>1. rewound' = rewound /\ from' = from /\ (fetched' = fetched \/ fetched' = {})
    BY <1>3 DEF Poll, FetchError
  <2>2. RereadAhead' => RereadAhead
    BY <1>0, <2>1 DEF RereadAhead, WentBackTo, Ledger
  <2> QED
    BY <1>0, <1>2, <2>1, <2>2, RereadKept
<1>4. CASE FetchMore \/ FetchLast
  <2>1. rewound' = rewound /\ from' = from /\ (fetched = {} => oldest <= from)
    BY <1>0, <1>1, <1>4 DEF FetchMore, FetchLast, StaleStart
  <2>2. RereadAhead' => RereadAhead
    BY <1>0, <2>1 DEF RereadAhead, WentBackTo, Ledger
  <2> QED
    BY <1>0, <1>2, <2>1, <2>2, RereadKept
<1>5. CASE FetchNothing
  <2>1. rewound' = rewound /\ fetched = {} /\ fetched' = {}
    BY <1>5 DEF FetchNothing
  <2>2. LET next == NextFrom(endLedger, LastLedger({}))
        IN  Ends(next) /\ next > from
    BY <1>0, <1>5, <2>1, WindowEnd
       DEF FetchNothing, RereadInv, OrderInv, CursorInv, LossInv
  <2>3. from' \in Nat /\ from < from'
    BY <1>0, <1>1, <1>5, <2>1, <2>2, Numbers DEF FetchNothing, Greater, Ends
  <2>4. RereadAhead' => RereadAhead
    BY <1>0, <2>1, <2>3 DEF RereadAhead, WentBackTo, Ledger
  <2> QED
    BY <1>0, <1>2, <2>1, <2>4, RereadKept
<1>6. CASE Reanchor
  <2>1. PICK newFrom \in OldestAvailable :
          /\ from' = newFrom
          /\ IF StaleStart THEN UNCHANGED rewound ELSE GoesBack(newFrom, from)
    BY <1>6 DEF Reanchor
  <2>2. newFrom \in Nat
    BY <1>0, OldestAvailableType, WindowAssumption DEF Uint32
  <2>3. rewound' \in Nat /\ rewound' <= rewound
    BY <1>0, <2>1, <2>2 DEF GoesBack, Lesser
  <2>4. fetched' = {}
    BY <1>6 DEF Reanchor
  <2>5. from < oldest \/ newFrom >= from \/ rewound' <= newFrom
    <3>1. CASE StaleStart
      <4>1. LastLedger(fetched) \in Uint32 /\ LastLedger(fetched) >= from
        BY <1>0, LastLedgerIsLast DEF TypeOK
      <4> QED
        BY <1>0, <3>1, <4>1, WindowAssumption DEF StaleStart, Uint32
    <3>2. CASE ~StaleStart
      BY <1>0, <2>1, <2>2, <3>2 DEF GoesBack, Lesser
    <3> QED
      BY <3>1, <3>2
  <2>6. RereadAhead' => RereadAhead
    BY <1>0, <2>1, <2>2, <2>3, <2>4, <2>5 DEF RereadAhead, WentBackTo, Ledger
  <2> QED
    BY <1>0, <1>2, <2>3, <2>6, RereadKept
<1> QED
  BY <1>3, <1>4, <1>5, <1>6

LEMMA RereadSend ==
  ASSUME RereadInv, Send
  PROVE  ReadOnceMore'
<1> USE DEF env, disk, working, history
<1> DEFINE p == Page(fetched, nextFrom)
<1>0. /\ TypeOK /\ ReadOnceMore /\ producer = "send"
      /\ from' = nextFrom /\ from < nextFrom /\ fetched' = {}
      /\ UNCHANGED <<oldest, leaves, working, resumed>>
      /\ from \in Nat /\ oldest \in Nat /\ resumed \in Nat /\ nextFrom \in Nat
      /\ rewound' = rewound /\ rewound \in Nat
      /\ StartsAt(fetched, from)
  BY OrderNumbers DEF Send, RereadInv, OrderInv, CursorInv, LossInv, Position, InOrder
<1>1. PICK n \in Nat : n = Len(pageCh)
  BY <1>0 DEF TypeOK
<1>2. /\ Len(pageCh') = n + 1
      /\ \A k \in 1..n : pageCh'[k] = pageCh[k]
      /\ pageCh'[n + 1] = p
  <2>1. p \in Pages /\ pageCh \in Seq(Pages)
    BY <1>0 DEF Page, Pages, TypeOK
  <2> QED
    BY <1>1, <2>1, AppendProperties DEF Send
<1>3. p.events = fetched
  BY DEF Page
<1> HIDE DEF p
<1>4. ASSUME NEW k \in 1..(n + 1), NEW e \in pageCh'[k].events, Ledger(e) = resumed
      PROVE  WentBackTo(resumed) \/ RereadAhead
  <2>1. CASE k \in 1..n
    BY <1>1, <1>2, <1>4, <2>1 DEF RereadAhead
  <2>2. CASE k = n + 1
    <3>1. e \in fetched /\ from <= resumed
      BY <1>0, <1>2, <1>3, <1>4, <2>2 DEF StartsAt
    <3> QED
      BY <1>0, <3>1 DEF RereadAhead
  <2> QED
    BY <2>1, <2>2
<1>5. RereadAhead' => RereadAhead
  BY <1>0, <1>2, <1>4 DEF RereadAhead, WentBackTo, Ledger
<1>6. RereadInHand' => RereadInHand
  BY <1>0 DEF RereadInHand, WentBackTo, Ledger
<1> QED
  BY <1>0, <1>5, <1>6, RereadKept

LEMMA RereadTake ==
  ASSUME RereadInv, Receive \/ Drain
  PROVE  ReadOnceMore'
<1> USE DEF env, disk, polling, working, history
<1>0. /\ TypeOK /\ ReadOnceMore /\ pageCh # <<>>
      /\ UNCHANGED <<oldest, polling, leaves, todo, resumed, rewound>>
      /\ rewound \in Nat
      /\ pageCh' = Tail(pageCh)
      /\ \/ consumer' # "save"
         \/ consumer' = "save" /\ batch' = Head(pageCh)
  BY PageEnds DEF Receive, Drain, RereadInv, OrderInv, CursorInv, LossInv
<1>1. PICK n \in Nat : n = Len(pageCh)
  BY <1>0 DEF TypeOK
<1>2. /\ n > 0 /\ Len(pageCh') = n - 1
      /\ \A k \in 1..(n - 1) : pageCh'[k] = pageCh[k + 1]
      /\ consumer' = "save" => batch' = pageCh[1]
  <2>1. pageCh \in Seq(Pages)
    BY <1>0 DEF TypeOK
  <2> QED
    BY <1>0, <1>1, <2>1, HeadTailProperties
<1>3. 1 \in 1..n /\ \A k \in 1..(n - 1) : k + 1 \in 1..n
  BY <1>2
<1>4. RereadAhead' => RereadAhead
  BY <1>0, <1>1, <1>2, <1>3 DEF RereadAhead, WentBackTo, Ledger
<1>5. RereadInHand' => RereadAhead
  BY <1>0, <1>1, <1>2, <1>3 DEF RereadInHand, RereadAhead, WentBackTo, Ledger
<1> QED
  BY <1>0, <1>4, <1>5, RereadKept

\* With the page saved the ledger lies behind every other page and the poller.
LEMMA RereadSave ==
  ASSUME RereadInv, SaveBatch
  PROVE  ReadOnceMore'
<1> USE DEF env, polling, history
<1>0. /\ TypeOK /\ Idle /\ InOrder /\ ReadOnceMore
      /\ consumer = "save" /\ consumer' = "insert"
      /\ UNCHANGED <<env, leaves, polling, pageCh, batch, history>>
      /\ \A e \in todo' : e \in batch.events
      /\ Enclosed /\ Position /\ CursorBoundsStore
  BY DEF SaveBatch, RereadInv, OrderInv, CursorInv, LossInv, Enclosed
<1>1. /\ cursor \in Nat /\ from \in Nat /\ oldest \in Nat /\ resumed \in Nat
      /\ rewound \in Nat /\ batch.nextFrom \in Nat
      /\ \A k \in 1..Len(pageCh) : pageCh[k].events \subseteq EventIds
      /\ events \subseteq EventIds /\ batch.events \subseteq EventIds
      /\ \A e \in EventIds : Ledger(e) \in Nat
      /\ \A i \in DOMAIN leaves : leaves[i] \in EventIds
  BY <1>0, OrderNumbers
<1>2. cursor < rewound => \A i \in DOMAIN leaves : Ledger(leaves[i]) <= cursor
  <2>1. Range(leaves) \subseteq events
    BY <1>0 DEF RereadInv, OrderInv, MirrorInv, Mirrored, Committed
  <2> QED
    BY <1>0, <2>1 DEF Range, CursorBoundsStore
<1>3. RereadInHand => ~RereadAhead
  <2> SUFFICES ASSUME NEW e \in batch.events, Ledger(e) = resumed, resumed < rewound
               PROVE  ~RereadAhead
    BY <1>1 DEF RereadInHand, WentBackTo
  <2>1. resumed < batch.nextFrom
    BY <1>0 DEF Enclosed, Before
  <2>2. \A k \in 1..Len(pageCh) : \A f \in pageCh[k].events : resumed < Ledger(f)
    <3>1. \A k \in 1..Len(pageCh) : \A f \in pageCh[k].events :
            /\ batch.nextFrom <= Ledger(f) \/ rewound <= Ledger(f)
            /\ Ledger(f) \in Nat
      BY <1>0, <1>1 DEF InOrder, Follows, WentBackTo
    <3> QED
      BY <1>1, <2>1, <3>1
  <2>3. Behind(from) => resumed < from
    BY <1>0, <1>1, <2>1 DEF Behind, WentBackTo
  <2>4. Behind(oldest) => resumed < oldest
    BY <1>0, <1>1, <2>1 DEF Behind, WentBackTo
  <2>5. fetched # {} => Behind(from)
    BY <1>0 DEF Position, Idle
  <2>6. producer \in {"idle", "fetch", "send"} =>
          resumed < from \/ (resumed < oldest /\ fetched = {})
    BY <1>0, <2>3, <2>4, <2>5 DEF Position
  <2> QED
    BY <1>1, <2>2, <2>6 DEF RereadAhead
<1>4. ASSUME NEW e \in todo'
      PROVE  FollowsAll(e) \/ RereadInHand
  <2>1. \/ cursor < Ledger(e)
        \/ Ledger(e) = resumed /\ e \in batch.events
        \/ WentBackTo(Ledger(e))
    BY <1>0 DEF InOrder, PastCursor, New, ReadTwice
  <2>2. Ledger(e) \in Nat /\ \A i \in DOMAIN leaves : Ledger(leaves[i]) \in Nat
    BY <1>0, <1>1
  <2>3. CASE cursor < Ledger(e)
    BY <1>1, <1>2, <2>2, <2>3 DEF FollowsAll, Precedes, WentBackTo
  <2>4. CASE Ledger(e) = resumed /\ e \in batch.events
    BY <1>0, <2>4 DEF RereadInHand, FollowsAll
  <2> QED
    BY <2>1, <2>3, <2>4 DEF FollowsAll
<1>5. RereadAhead' <=> RereadAhead
  BY <1>0 DEF RereadAhead, WentBackTo, Ledger
<1>6. ~RereadInHand'
  BY <1>0 DEF RereadInHand
<1>7. \A j \in DOMAIN leaves : OutOfOrder(j) => ~RereadInHand
  BY <1>0 DEF ReadOnceMore, Sorted
<1>8. \A j \in DOMAIN leaves : OutOfOrder(j) => \A e \in todo' : Precedes(leaves[j], e)
  <2> SUFFICES ASSUME NEW j \in DOMAIN leaves, OutOfOrder(j), NEW e \in todo'
               PROVE  Precedes(leaves[j], e)
    OBVIOUS
  <2>1. FollowsAll(e)
    BY <1>4, <1>7
  <2>2. /\ Ledger(leaves[j]) \in Nat /\ Ledger(e) \in Nat
        /\ ~WentBackTo(Ledger(leaves[j]))
    BY <1>0, <1>1 DEF OutOfOrder
  <2> QED
    BY <1>1, <2>1, <2>2 DEF FollowsAll, WentBackTo, Precedes
<1>9. RereadAhead => Sorted /\ \A e \in todo' : FollowsAll(e)
  BY <1>0, <1>3, <1>4 DEF ReadOnceMore
<1> QED
  BY <1>0, <1>5, <1>6, <1>8, <1>9
     DEF ReadOnceMore, Sorted, OutOfOrder, FollowsAll, WentBackTo, Precedes,
         Ledger, Index

LEMMA RereadRest ==
  ASSUME RereadInv,
         \/ CloseLedger \/ Prune \/ Signal \/ StopPolling \/ SaveFails
         \/ PageDone \/ InsertFatal \/ RunReturns \/ Checkpoint \/ UNCHANGED vars
  PROVE  ReadOnceMore'
<1> USE DEF env, disk, polling, working, history
<1>0. /\ TypeOK /\ ReadOnceMore
      /\ UNCHANGED <<leaves, pageCh, from, resumed, todo, rewound>>
      /\ oldest' = oldest \/ oldest' = oldest + 1
      /\ UNCHANGED <<producer, fetched>> \/ (producer' = "stopped" /\ fetched' = {})
      /\ consumer' = "save" => consumer = "save" /\ batch' = batch
  BY DEF CloseLedger, Prune, Signal, StopPolling, SaveFails, PageDone,
         InsertFatal, RunReturns, Checkpoint, vars, RereadInv, OrderInv, CursorInv,
         LossInv
<1>1. from \in Nat /\ oldest \in Nat /\ resumed \in Nat /\ rewound \in Nat
  BY <1>0, OrderNumbers
<1>2. RereadAhead' => RereadAhead
  BY <1>0, <1>1 DEF RereadAhead, WentBackTo, Ledger
<1>3. RereadInHand' => RereadInHand
  BY <1>0 DEF RereadInHand, WentBackTo, Ledger
<1> QED
  BY <1>0, <1>1, <1>2, <1>3, RereadKept

LEMMA RereadStep == RereadInv /\ [Next]_vars => RereadInv'
<1> SUFFICES ASSUME RereadInv, [Next]_vars PROVE RereadInv'
  OBVIOUS
<1>1. OrderInv' /\ TypeOK'
  BY OrderStep DEF RereadInv, OrderInv, CursorInv, LossInv
<1>2. CASE Boot \/ RebuildFails \/ Exit \/ Crash \/ PowerLoss
  <2>1. leaves' = <<>>
    BY <1>2 DEF Boot, RebuildFails, Exit, Crash, PowerLoss, LoseMemory, RereadInv,
                OrderInv, MirrorInv, Mirrored
  <2> QED
    BY <1>1, <2>1, RereadEmpty DEF RereadInv
<1>3. CASE ~(Boot \/ RebuildFails \/ Exit \/ Crash \/ PowerLoss)
  <2>1. ReadOnceMore'
    BY <1>1, <1>3, RereadInsert, RereadStart, RereadFetch, RereadSend, RereadTake,
       RereadSave, RereadRest DEF Next, Process, Producer, Consumer, Environment
  <2> QED
    BY <1>1, <2>1 DEF RereadInv
<1> QED
  BY <1>2, <1>3

\* processLoop inserts in the order rebuildTree would replay, however pages
\* are fetched, re-anchored, buffered and retried, under every combination of
\* faults: only the leaves of the ledgers from where polling has gone back to
\* can repeat, and those of the ledger that Run resumed at, those once.
THEOREM LeavesFollowTheChain == Spec => []LeavesInChainOrder
<1>1. RereadInv /\ [Next]_vars => RereadInv'
  BY RereadStep
<1>2. RereadInv => LeavesInChainOrder
  BY DEF RereadInv, OrderInv, InOrder, InsertionOrder, InsertedBefore,
         ReadOnceMore, OutOfOrder, WentBackTo, LeavesInChainOrder
<1> QED
  BY RereadInit, <1>1, <1>2, PTL DEF Spec
-----------------------------------------------------------------------------
(***************************************************************************)
(* The refinement of PermanentIndex                                        *)
(*                                                                         *)
(* With a START_LEDGER, and no faults but crashes and RPC errors that are  *)
(* not taken for a stale start, nothing excuses a missing event: no page   *)
(* is given up, no ledger anchored past, and polling never goes back.      *)
(* NoSilentLoss then says that the table holds every event from the first  *)
(* ledger to the cursor, CursorBoundsStore that it holds no other, and a   *)
(* SaveBatch is a step of the index.                                       *)
(***************************************************************************)

\* No page failed to save, only the ledgers before the first are skipped, and
\* polling has not gone back.
NothingGivenUp ==
  /\ oldest = 1 /\ failed = {} /\ rewound = MaxUint32
  /\ skipped \subseteq 1..(StartLedger - 1)

\* Whatever is polled, sent, saved or committed lies at the first ledger or
\* beyond.
FromStart ==
  /\ cursor # 0 => StartLedger <= cursor
  /\ StartsAt(events, StartLedger)
  /\ synced.cursor # 0 => StartLedger <= synced.cursor
  /\ StartsAt(synced.events, StartLedger)
  /\ producer # "off" => StartLedger <= from
  /\ consumer = "save" =>
       StartLedger < batch.nextFrom /\ StartsAt(batch.events, StartLedger)
  /\ \A k \in 1..Len(pageCh) :
       StartLedger < pageCh[k].nextFrom /\ StartsAt(pageCh[k].events, StartLedger)

IndexInv == OrderInv /\ NothingGivenUp /\ FromStart

LEMMA IndexInit == Init => IndexInv
<1> SUFFICES ASSUME Init PROVE IndexInv
  OBVIOUS
<1>1. OrderInv
  BY OrderInit
<1>2. NothingGivenUp /\ FromStart
  BY DEF Init, NothingGivenUp, FromStart, StartsAt
<1> QED
  BY <1>1, <1>2 DEF IndexInv

\* The node has forgotten nothing, so it never refuses to read, and no error
\* says that it does.
LEMMA NeverReanchors ==
  ASSUME IndexInv, StartLedger # 0, "range" \notin Faults
  PROVE  ~Reanchor
<1> SUFFICES ASSUME producer = "fetch" PROVE ~StaleStart
  BY DEF Reanchor, IsOutOfRange
<1>1. /\ TypeOK /\ StartLedger <= from /\ oldest = 1
      /\ from \in Uint32 /\ StartLedger \in Uint32 /\ fetched \subseteq EventIds
  BY IngestionAssumption DEF IndexInv, NothingGivenUp, FromStart, OrderInv,
     CursorInv, LossInv, TypeOK
<1>2. LastLedger(fetched) \in Uint32 /\ LastLedger(fetched) >= from
  BY <1>1, LastLedgerIsLast
<1> QED
  BY <1>1, <1>2, WindowAssumption DEF StaleStart, Uint32

\* As long as polling has not gone back, the cursor is before where it went.
LEMMA CursorBeforeRewound ==
  ASSUME IndexInv
  PROVE  cursor < rewound /\ synced.cursor < rewound
<1>1. TypeOK /\ Bounds /\ rewound = MaxUint32
  BY DEF IndexInv, NothingGivenUp, OrderInv, CursorInv, LossInv
<1> QED
  BY <1>1, Numbers DEF Bounds

\* Without pruning, failing saves, errors taken for a stale start and an
\* unreadable cursor nothing is given up.
LEMMA GivenUpStep ==
  ASSUME IndexInv, [Next]_vars, StartLedger # 0,
         Faults \subseteq {"rpc", "crash", "power"}
  PROVE  NothingGivenUp'
<1> USE DEF env, disk, polling, working, history
<1>1. NothingGivenUp /\ TypeOK
  BY DEF IndexInv, OrderInv, CursorInv, LossInv
<1>2. CASE StartRun
  <2>1. PICK start \in StartFrom(cursor) :
          /\ skipped' = skipped \cup (cursor + 1)..(start - 1)
          /\ GoesBack(start, cursor)
    BY <1>2 DEF StartRun, CursorReads
  <2>2. cursor \in Nat /\ StartLedger \in Nat
    BY <1>1, PageEnds, IngestionAssumption, WindowAssumption DEF Uint32
  <2>3. (cursor + 1)..(start - 1) \subseteq 1..(StartLedger - 1)
    BY <2>1, <2>2 DEF StartFrom
  <2>4. rewound' = rewound
    BY <2>1, <2>2 DEF StartFrom, GoesBack
  <2> QED
    BY <1>1, <1>2, <2>1, <2>3, <2>4 DEF StartRun, NothingGivenUp
<1>3. CASE Boot \/ RebuildInsert \/ RebuildFails \/ Signal \/ Exit
  BY <1>1, <1>3 DEF Boot, RebuildInsert, RebuildFails, Signal, Exit, NothingGivenUp
<1>4. CASE Producer
  <2>1. ~Reanchor
    BY NeverReanchors
  <2> QED
    BY <1>1, <1>4, <2>1 DEF Producer, Poll, FetchMore, FetchNothing, FetchLast,
       FetchError, Send, StopPolling, NothingGivenUp
<1>5. CASE Consumer
  BY <1>1, <1>5 DEF Consumer, Receive, SaveBatch, SaveFails, InsertLeaf, PageDone,
     InsertFatal, Drain, RunReturns, NothingGivenUp
<1>6. CASE Environment
  BY <1>1, <1>6 DEF Environment, CloseLedger, Prune, Crash, Checkpoint, PowerLoss,
     NothingGivenUp
<1>7. CASE UNCHANGED vars
  BY <1>1, <1>7 DEF vars, NothingGivenUp
<1> QED
  BY <1>2, <1>3, <1>4, <1>5, <1>6, <1>7 DEF Next, Process

\* The cursor a page commits.
LEMMA SavedCursor ==
  ASSUME CursorInv, SaveBatch
  PROVE  /\ cursor' = batch.nextFrom - 1
         /\ batch.nextFrom \in 1..(Len(chain) + 1) /\ Len(chain) \in Nat
<1>1. /\ TypeOK /\ batch.nextFrom \in 1..(Len(chain) + 1)
  BY DEF SaveBatch, CursorInv, LossInv, Bounds, Ends
<1>2. Len(chain) \in Nat /\ Len(chain) < MaxUint32 /\ MaxUint32 \in Nat
  BY <1>1, Numbers
<1> QED
  BY <1>1, <1>2 DEF SaveBatch, BatchCursor, Wrap

\* What starts at the first ledger stays there.
LEMMA FromStartStep ==
  ASSUME IndexInv, [Next]_vars, StartLedger # 0,
         Faults \subseteq {"rpc", "crash", "power"}
  PROVE  FromStart'
<1> USE DEF env, disk, polling, working, history
<1>0. /\ TypeOK /\ Idle /\ FromStart /\ CursorInv
      /\ StartLedger \in Nat /\ from \in Nat /\ cursor \in Nat
      /\ nextFrom \in Nat /\ batch.nextFrom \in Nat
      /\ StartsAt(fetched, from)
      /\ \A e \in fetched : Ledger(e) \in Nat
      /\ producer = "send" => from < nextFrom
  <2>1. TypeOK /\ Idle /\ FromStart /\ CursorInv /\ StartsAt(fetched, from)
    BY DEF IndexInv, OrderInv, CursorInv, LossInv, InOrder
  <2> QED
    BY <2>1, OrderNumbers, IngestionAssumption, WindowAssumption
       DEF Uint32, CursorInv, Position
<1>1. CASE LoseMemory /\ UNCHANGED disk
  <2>1. /\ pageCh' = <<>> /\ Len(pageCh') = 0
        /\ producer' = "off" /\ consumer' = "off"
    BY <1>1, EmptySeq DEF LoseMemory
  <2> QED
    BY <1>0, <1>1, <2>1 DEF FromStart, StartsAt, Ledger
<1>2. CASE StartRun
  <2>1. PICK start \in StartFrom(cursor) : from' = start
    BY <1>2 DEF StartRun, CursorReads
  <2>2. StartLedger <= start
    BY <1>0, <2>1 DEF StartFrom, FromStart
  <2>3. pageCh' = <<>> /\ Len(pageCh') = 0 /\ consumer' = "recv" /\ UNCHANGED disk
    BY <1>0, <1>2, EmptySeq DEF StartRun, Idle
  <2> QED
    BY <1>0, <2>1, <2>2, <2>3 DEF FromStart, StartsAt, Ledger
<1>3. CASE \/ Boot \/ RebuildInsert \/ Signal \/ CloseLedger \/ Prune
           \/ Poll \/ FetchMore \/ FetchLast \/ FetchError \/ StopPolling
           \/ SaveFails \/ InsertLeaf \/ PageDone \/ InsertFatal \/ RunReturns
           \/ UNCHANGED vars
  <2>1. /\ UNCHANGED <<events, cursor, synced, pageCh, from>>
        /\ producer' # "off" => producer # "off"
        /\ consumer' = "save" => consumer = "save" /\ batch' = batch
    BY <1>3 DEF Boot, RebuildInsert, Signal, CloseLedger, Prune, Poll,
       FetchMore, FetchLast, FetchError, StopPolling, SaveFails, InsertLeaf,
       PageDone, InsertFatal, RunReturns, vars
  <2> QED
    BY <1>0, <2>1 DEF FromStart, StartsAt, Ledger
<1>4. CASE FetchNothing
  <2>1. /\ UNCHANGED <<events, cursor, synced, pageCh, consumer, batch>>
        /\ producer = "fetch" /\ fetched = {}
    BY <1>4 DEF FetchNothing
  <2>2. LET next == NextFrom(endLedger, LastLedger({}))
        IN  Ends(next) /\ next > from
    BY <1>0, <2>1, WindowEnd DEF CursorInv, LossInv
  <2>3. from <= from'
    BY <1>0, <1>4, <2>1, <2>2, Numbers DEF FetchNothing, Greater, Ends
  <2>4. from' \in Nat
    BY <1>0, <1>4, <2>1, <2>2, Numbers DEF FetchNothing, Greater, Ends
  <2>5. StartLedger <= from'
    BY <1>0, <2>1, <2>3, <2>4 DEF FromStart
  <2> QED
    BY <1>0, <2>1, <2>5 DEF FromStart, StartsAt, Ledger
<1>5. CASE Reanchor
  BY <1>5, NeverReanchors
<1>6. CASE Send
  <2>1. PICK n \in Nat : n = Len(pageCh)
    BY <1>0 DEF TypeOK
  <2>2. /\ Len(pageCh') = n + 1
        /\ \A k \in 1..n : pageCh'[k] = pageCh[k]
        /\ pageCh'[n + 1] = Page(fetched, nextFrom)
    <3>1. Page(fetched, nextFrom) \in Pages /\ pageCh \in Seq(Pages)
      BY <1>0 DEF Page, Pages, TypeOK
    <3> QED
      BY <1>6, <2>1, <3>1, AppendProperties DEF Send
  <2>3. StartLedger <= from /\ StartLedger < nextFrom /\ StartsAt(fetched, StartLedger)
    BY <1>0, <1>6 DEF Send, FromStart, StartsAt
  <2>4. \A k \in 1..(n + 1) :
          /\ StartLedger < pageCh'[k].nextFrom
          /\ StartsAt(pageCh'[k].events, StartLedger)
    <3>1. \A k \in 1..(n + 1) : k \in 1..n \/ k = n + 1
      OBVIOUS
    <3> QED
      BY <1>0, <2>1, <2>2, <2>3, <3>1 DEF FromStart, Page
  <2>5. /\ UNCHANGED <<events, cursor, synced, consumer, batch>>
        /\ from' = nextFrom
    BY <1>6 DEF Send
  <2> QED
    BY <1>0, <2>2, <2>3, <2>4, <2>5 DEF FromStart, StartsAt, Ledger
<1>7. CASE Receive \/ Drain
  <2>1. PICK n \in Nat : n = Len(pageCh)
    BY <1>0 DEF TypeOK
  <2>2. /\ n > 0 /\ Len(pageCh') = n - 1
        /\ \A k \in 1..(n - 1) : pageCh'[k] = pageCh[k + 1]
        /\ consumer' = "save" => batch' = pageCh[1]
    <3>1. pageCh \in Seq(Pages) /\ pageCh # <<>>
      BY <1>0, <1>7 DEF Receive, Drain, TypeOK
    <3> QED
      BY <1>7, <2>1, <3>1, HeadTailProperties DEF Receive, Drain
  <2>3. \A k \in 1..(n - 1) : k + 1 \in 1..n
    OBVIOUS
  <2>4. UNCHANGED <<events, cursor, synced, producer, from>>
    BY <1>7 DEF Receive, Drain
  <2> QED
    BY <1>0, <2>1, <2>2, <2>3, <2>4 DEF FromStart, StartsAt, Ledger
<1>8. CASE SaveBatch
  <2>1. /\ consumer = "save" /\ consumer' = "insert"
        /\ UNCHANGED <<synced, pageCh, producer, from>>
        /\ events' = events \cup batch.events
    BY <1>8 DEF SaveBatch
  <2>2. StartLedger <= cursor'
    BY <1>0, <1>8, <2>1, SavedCursor DEF FromStart
  <2> QED
    BY <1>0, <2>1, <2>2 DEF FromStart, StartsAt, Ledger
<1>9. CASE Checkpoint
  <2>1. /\ UNCHANGED <<events, cursor, pageCh, producer, from, consumer, batch>>
        /\ synced' = [events |-> events, cursor |-> cursor]
    BY <1>9 DEF Checkpoint, Snapshot
  <2> QED
    BY <1>0, <2>1 DEF FromStart, StartsAt, Ledger
<1>10. CASE PowerLoss
  <2>1. /\ pageCh' = <<>> /\ Len(pageCh') = 0
        /\ producer' = "off" /\ consumer' = "off"
        /\ events' = synced.events /\ cursor' = synced.cursor /\ synced' = synced
    BY <1>10, EmptySeq DEF PowerLoss, LoseMemory
  <2> QED
    BY <1>0, <2>1 DEF FromStart, StartsAt, Ledger
<1> QED
  BY <1>1, <1>2, <1>3, <1>4, <1>5, <1>6, <1>7, <1>8, <1>9, <1>10
     DEF Next, Process, Producer, Consumer, Environment, RebuildFails, Exit, Crash

LEMMA IndexStep ==
  ASSUME StartLedger # 0, Faults \subseteq {"rpc", "crash", "power"}
  PROVE  IndexInv /\ [Next]_vars => IndexInv'
<1> SUFFICES ASSUME IndexInv, [Next]_vars PROVE IndexInv'
  OBVIOUS
<1>1. OrderInv'
  BY OrderStep DEF IndexInv
<1> QED
  BY <1>1, GivenUpStep, FromStartStep DEF IndexInv

\* The events the abstract index holds up to a ledger.
LEMMA IndexedUpTo ==
  ASSUME TypeOK, NEW n
  PROVE  Promised!EventsUpTo(n) =
           {e \in ChainEvents : StartLedger <= Ledger(e) /\ Ledger(e) <= n}
BY DEF Promised!EventsUpTo, ChainEvents, Ledger

\* Committing a page takes the frontier over whole ledgers, with all their
\* events.
LEMMA SaveExtends ==
  ASSUME IndexInv, IndexInv', SaveBatch, StartLedger # 0,
         Faults \subseteq {"rpc", "crash"}
  PROVE  Promised!Extend
<1>1. /\ TypeOK /\ CursorInv /\ consumer = "save" /\ UNCHANGED chain
      /\ events' = events \cup batch.events
  BY DEF SaveBatch, IndexInv, OrderInv, CursorInv, LossInv, env
<1>2. cursor' = batch.nextFrom - 1 /\ batch.nextFrom \in 1..(Len(chain) + 1)
  BY <1>1, SavedCursor
<1>3. /\ cursor \in Nat /\ StartLedger \in Nat /\ Len(chain) \in Nat
      /\ DOMAIN chain = 1..Len(chain)
      /\ \A e \in ChainEvents : Ledger(e) \in Nat
  <2>1. cursor \in Nat /\ StartLedger \in Nat
    BY <1>1, PageEnds, IngestionAssumption, WindowAssumption DEF Uint32
  <2>2. Len(chain) \in Nat /\ DOMAIN chain = 1..Len(chain)
    BY <1>1 DEF TypeOK
  <2>3. \A e \in ChainEvents : Ledger(e) \in Nat
    BY <1>1, ChainEventsDef, OrderNumbers
  <2> QED
    BY <2>1, <2>2, <2>3
<1>4. StartLedger < batch.nextFrom
  BY <1>1 DEF IndexInv, FromStart
<1>5. cursor' >= cursor
  <2>1. cursor' >= Lesser(cursor, rewound)
    BY <1>1, CursorSave
  <2> QED
    BY <2>1, CursorBeforeRewound DEF Lesser
<1>6. cursor' \in DOMAIN chain
  BY <1>2, <1>3, <1>4
\* Nothing up to the new cursor is missing.
<1>7. ASSUME NEW e \in ChainEvents, StartLedger <= Ledger(e), Ledger(e) <= cursor'
      PROVE  e \in events'
  <2>1. Ledger(e) < batch.nextFrom
    BY <1>2, <1>3, <1>7
  <2>2. InHand(e)
    BY <1>1, <2>1 DEF CursorInv, LossInv, BatchKept
  <2>3. failed = {} /\ Ledger(e) \notin skipped
    BY <1>3, <1>7 DEF IndexInv, NothingGivenUp
  <2> QED
    BY <1>1, <2>2, <2>3 DEF InHand, Kept
\* Nothing else is stored.
<1>8. ASSUME NEW e \in events'
      PROVE  e \in ChainEvents /\ StartLedger <= Ledger(e) /\ Ledger(e) <= cursor'
  <2>1. e \in ChainEvents
    BY <1>1, <1>8 DEF IndexInv, OrderInv, MirrorInv, OnChain
  <2>2. cursor' < rewound'
    <3>1. rewound' = MaxUint32
      BY DEF IndexInv, NothingGivenUp
    <3>2. Len(chain) < MaxUint32 /\ MaxUint32 \in Nat
      BY <1>1, Numbers
    <3> QED
      BY <3>1, <3>2, <1>2, <1>3
  <2>3. CursorBoundsStore' /\ StartsAt(events', StartLedger)
    BY DEF IndexInv, FromStart, StartsAt, OrderInv, CursorInv, Enclosed, Ledger
  <2>4. StartLedger <= Ledger(e) /\ Ledger(e) <= cursor'
    BY <1>8, <2>2, <2>3 DEF StartsAt, CursorBoundsStore, Ledger
  <2> QED
    BY <2>1, <2>4
<1>9. events' = Promised!EventsUpTo(cursor')
  BY <1>1, <1>7, <1>8, IndexedUpTo
<1> QED
  BY <1>1, <1>5, <1>6, <1>9 DEF Promised!Extend

\* Every other step is a step of the network, or none of the index.
LEMMA StepsOfIndex ==
  ASSUME StartLedger # 0, Faults \subseteq {"rpc", "crash"},
         IndexInv, [Next]_vars
  PROVE  [Promised!Close \/ Promised!Extend]_(Promised!indexVars)
<1> USE DEF env, disk, polling, working, history, Promised!indexVars
<1>1. CASE SaveBatch
  BY <1>1, IndexStep, SaveExtends DEF Next, Consumer
<1>2. CASE CloseLedger
  BY <1>2 DEF CloseLedger, Promised!Close
<1>3. CASE \/ Process \/ Prune \/ Crash \/ Checkpoint \/ UNCHANGED vars
  BY <1>3 DEF Process, Boot, RebuildInsert, RebuildFails, StartRun, Signal, Exit,
     Prune, Crash, Checkpoint, vars
<1>4. CASE Producer
  BY <1>4 DEF Producer, Poll, FetchMore, FetchNothing, FetchLast, Reanchor,
     FetchError, Send, StopPolling
<1>5. CASE \/ Receive \/ SaveFails \/ InsertLeaf \/ PageDone \/ InsertFatal
           \/ Drain \/ RunReturns
  BY <1>5 DEF Receive, SaveFails, InsertLeaf, PageDone, InsertFatal, Drain,
     RunReturns
<1>6. ~PowerLoss
  BY DEF PowerLoss
<1> QED
  BY <1>1, <1>2, <1>3, <1>4, <1>5, <1>6 DEF Next, Consumer, Environment

\* The sidecar implements the permanent index: through pagination,
\* backpressure, crashes, restarts and the RPC errors that are not taken for a
\* stale start, each commit takes the frontier over whole closed ledgers and
\* leaves every event from START_LEDGER to it in the table, and no other.  An
\* error that is taken for a stale start ("range"), a failed save, a pruned node,
\* an unreadable cursor or a power loss can each break the promise, so they are
\* excluded.
THEOREM PipelineImplementsIndex ==
  ASSUME StartLedger # 0, Faults \subseteq {"rpc", "crash"}
  PROVE  Spec => ImplementsPermanentIndex
<1>1. Init => Promised!Init
  BY DEF Init, Promised!Init
<1>2. IndexInv /\ [Next]_vars => IndexInv'
  BY IndexStep
<1>3. IndexInv /\ [Next]_vars =>
        [Promised!Close \/ Promised!Extend]_(Promised!indexVars)
  BY StepsOfIndex
<1> QED
  BY IndexInit, <1>1, <1>2, <1>3, PTL
     DEF Spec, ImplementsPermanentIndex, Promised!Spec

-----------------------------------------------------------------------------
(***************************************************************************)
(* Power loss                                                              *)
(***************************************************************************)

\* The table is the index up to the cursor, and so is what a power loss would
\* leave of it.
StoreHoldsIndex ==
  /\ events = Promised!EventsUpTo(cursor)
  /\ synced.events = Promised!EventsUpTo(synced.cursor)

LEMMA StoreIsIndex ==
  ASSUME IndexInv, StartLedger # 0
  PROVE  StoreHoldsIndex
<1>1. /\ TypeOK /\ NoSilentLoss /\ SyncedKept /\ Enclosed /\ OnChain /\ FromStart
      /\ StartLedger \in Nat
  BY IngestionAssumption, WindowAssumption
     DEF IndexInv, OrderInv, CursorInv, LossInv, MirrorInv, Uint32
<1>2. ASSUME NEW e \in ChainEvents, StartLedger <= Ledger(e)
      PROVE  failed = {} /\ Ledger(e) \notin skipped
  <2>1. Ledger(e) \in Nat
    BY <1>1, ChainEventsDef, OrderNumbers
  <2> QED
    BY <1>1, <1>2, <2>1 DEF IndexInv, NothingGivenUp
<1>3. /\ \A e \in ChainEvents :
           StartLedger <= Ledger(e) /\ Ledger(e) <= cursor => e \in events
      /\ \A e \in ChainEvents :
           StartLedger <= Ledger(e) /\ Ledger(e) <= synced.cursor
             => e \in synced.events
  BY <1>1, <1>2 DEF NoSilentLoss, SyncedKept
<1>4. /\ \A e \in events :
           e \in ChainEvents /\ StartLedger <= Ledger(e) /\ Ledger(e) <= cursor
      /\ \A e \in synced.events :
           /\ e \in ChainEvents
           /\ StartLedger <= Ledger(e) /\ Ledger(e) <= synced.cursor
  BY <1>1, CursorBeforeRewound
     DEF FromStart, StartsAt, Enclosed, CursorBoundsStore, OnChain
<1> QED
  BY <1>1, <1>3, <1>4, IndexedUpTo DEF StoreHoldsIndex

\* With a START_LEDGER, and where no save fails, the node prunes nothing, no
\* error is taken for a stale start and the cursor can be read, what a power
\* loss takes away is a whole number of ledgers: the table, and the part of it
\* that is safe on disk, hold every event from the first ledger to their own
\* cursor, and no other.
THEOREM StoreIsOfTheIndex ==
  ASSUME StartLedger # 0, Faults \subseteq {"rpc", "crash", "power"}
  PROVE  Spec => []StoreHoldsIndex
<1>1. IndexInv /\ [Next]_vars => IndexInv'
  BY IndexStep
<1>2. IndexInv => StoreHoldsIndex
  BY StoreIsIndex
<1> QED
  BY IndexInit, <1>1, <1>2, PTL DEF Spec

\* Between two pages the tree commits to the index: its leaves are the
\* commitments of the ledgers from START_LEDGER to the cursor.
TreeHoldsIndex ==
  phase \in {"serving", "stopping"} /\ consumer = "recv" =>
    Range(leaves) = {e \in Promised!EventsUpTo(cursor) : HasCommitment(e)}

\* From the network to the tree: what processLoop and rebuildTree have put
\* together through RPC errors that are not taken for a stale start, crashes,
\* power losses and restarts is between two pages the set of all commitments
\* up to the cursor.  With LeavesFollowTheChain this is the tree of the chain,
\* but for the leaves of the ledger read twice.
THEOREM TreeIsOfTheIndex ==
  ASSUME StartLedger # 0, Faults \subseteq {"rpc", "crash", "power"}
  PROVE  Spec => []TreeHoldsIndex
<1>1. IndexInv /\ [Next]_vars => IndexInv'
  BY IndexStep
<1>2. IndexInv => TreeHoldsIndex
  BY StoreIsIndex DEF StoreHoldsIndex, TreeHoldsIndex, IndexInv, OrderInv,
     MirrorInv, Mirrored, Committed
<1> QED
  BY IndexInit, <1>1, <1>2, PTL DEF Spec
-----------------------------------------------------------------------------
\* The part of the store that is safe on disk, seen as the index.
Durable == INSTANCE PermanentIndex
           WITH Contents <- LedgerContents, Start <- StartLedger,
                index <- synced.events, frontier <- synced.cursor

\* What is safe on disk is not ahead of what is committed.
DurableInv == IndexInv /\ synced.cursor <= cursor

LEMMA DurableInit == Init => DurableInv
<1> SUFFICES ASSUME Init PROVE DurableInv
  OBVIOUS
<1> QED
  BY IndexInit DEF Init, DurableInv

LEMMA DurableStep ==
  ASSUME StartLedger # 0, Faults \subseteq {"rpc", "crash", "power"}
  PROVE  DurableInv /\ [Next]_vars => DurableInv'
<1> SUFFICES ASSUME DurableInv, [Next]_vars PROVE DurableInv'
  OBVIOUS
<1> USE DEF env, disk, polling, working, history
<1>1. IndexInv' /\ CursorInv
  BY IndexStep DEF DurableInv, IndexInv, OrderInv
<1>2. cursor \in Nat /\ synced.cursor \in Nat /\ cursor' \in Nat
  <2>1. TypeOK /\ TypeOK'
    BY <1>1 DEF IndexInv, OrderInv, CursorInv, LossInv
  <2> QED
    BY <2>1, IngestionAssumption, WindowAssumption DEF TypeOK, Uint32
<1>3. cursor' >= cursor \/ PowerLoss
  <2>1. cursor' >= Lesser(cursor, rewound) \/ PowerLoss
    BY <1>1, CursorStep
  <2>2. cursor < rewound
    BY CursorBeforeRewound DEF DurableInv
  <2> QED
    BY <2>1, <2>2 DEF Lesser
<1>4. CASE PowerLoss
  BY <1>1, <1>2, <1>4 DEF PowerLoss, DurableInv
<1>5. CASE Checkpoint
  BY <1>1, <1>2, <1>5 DEF Checkpoint, Snapshot, DurableInv
<1>6. CASE ~PowerLoss /\ ~Checkpoint
  <2>1. UNCHANGED synced
    BY <1>6 DEF Next, Process, Producer, Consumer, Environment, Boot,
       RebuildInsert, RebuildFails, StartRun, Signal, Exit, Crash, Prune,
       CloseLedger, Poll, FetchMore, FetchNothing, FetchLast, Reanchor,
       FetchError, Send, StopPolling, Receive, SaveBatch, SaveFails, InsertLeaf,
       PageDone, InsertFatal, Drain, RunReturns, vars
  <2> QED
    BY <1>1, <1>2, <1>3, <1>6, <2>1 DEF DurableInv
<1> QED
  BY <1>4, <1>5, <1>6

\* A checkpoint takes the frontier over whole ledgers, with all their events.
LEMMA CheckpointExtends ==
  ASSUME DurableInv, StartLedger # 0, Checkpoint
  PROVE  Durable!Extend
<1>1. /\ TypeOK /\ StoreHoldsIndex /\ cursor <= Len(chain) /\ synced.cursor <= cursor
      /\ synced' = [events |-> events, cursor |-> cursor] /\ UNCHANGED chain
  BY StoreIsIndex DEF Checkpoint, Snapshot, DurableInv, IndexInv, OrderInv,
     CursorInv, LossInv, Bounds, env
<1>2. /\ cursor \in Nat /\ synced.cursor \in Nat /\ Len(chain) \in Nat
      /\ DOMAIN chain = 1..Len(chain)
      /\ synced \in [events : SUBSET EventIds, cursor : Uint32]
  BY <1>1, IngestionAssumption, WindowAssumption DEF TypeOK, Uint32
<1>3. cursor # 0
  <2> SUFFICES ASSUME cursor = 0 PROVE FALSE
    OBVIOUS
  <2>1. synced.cursor = cursor
    BY <1>1, <1>2
  <2>2. synced.events = events
    BY <1>1, <2>1 DEF StoreHoldsIndex
  <2> QED
    BY <1>2, <2>1, <2>2 DEF Checkpoint, Snapshot
<1>4. cursor \in DOMAIN chain
  BY <1>1, <1>2, <1>3
<1>5. events = Durable!EventsUpTo(cursor)
  BY <1>1 DEF StoreHoldsIndex, Promised!EventsUpTo, Durable!EventsUpTo
<1> QED
  BY <1>1, <1>4, <1>5 DEF Durable!Extend

\* Every other step is a step of the network, or none of what is on disk.
LEMMA StepsOfDurable ==
  ASSUME StartLedger # 0, DurableInv, [Next]_vars
  PROVE  [Durable!Close \/ Durable!Extend]_(Durable!indexVars)
<1> USE DEF env, disk, polling, working, history, Durable!indexVars
<1>1. CASE Checkpoint
  BY <1>1, CheckpointExtends
<1>2. CASE CloseLedger
  BY <1>2 DEF CloseLedger, Durable!Close
<1>3. CASE Process \/ Prune \/ Crash \/ PowerLoss \/ UNCHANGED vars
  BY <1>3 DEF Process, Boot, RebuildInsert, RebuildFails, StartRun, Signal, Exit,
     Prune, Crash, PowerLoss, vars
<1>4. CASE Producer
  BY <1>4 DEF Producer, Poll, FetchMore, FetchNothing, FetchLast, Reanchor,
     FetchError, Send, StopPolling
<1>5. CASE Consumer
  BY <1>5 DEF Consumer, Receive, SaveBatch, SaveFails, InsertLeaf, PageDone,
     InsertFatal, Drain, RunReturns
<1> QED
  BY <1>1, <1>2, <1>3, <1>4, <1>5 DEF Next, Environment

\* A power loss may undo what was committed, never what a checkpoint has
\* written: what is safe on disk is itself a permanent index, whose frontier
\* only moves forwards, over whole ledgers, through crashes, power losses and
\* the RPC errors that are not taken for a stale start.
THEOREM DiskImplementsIndex ==
  ASSUME StartLedger # 0, Faults \subseteq {"rpc", "crash", "power"}
  PROVE  Spec => Durable!Spec
<1>1. Init => Durable!Init
  BY DEF Init, Durable!Init
<1>2. DurableInv /\ [Next]_vars => DurableInv'
  BY DurableStep
<1>3. DurableInv /\ [Next]_vars =>
        [Durable!Close \/ Durable!Extend]_(Durable!indexVars)
  BY StepsOfDurable
<1> QED
  BY DurableInit, <1>1, <1>2, <1>3, PTL DEF Spec, Durable!Spec
=============================================================================
