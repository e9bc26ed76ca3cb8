------------------------------ MODULE Ingestion ------------------------------
(***************************************************************************)
(* The ingestion pipeline of the sidecar, from the Soroban RPC to SQLite   *)
(* and the in-memory Merkle tree (internal/ingestion/streamer.go), inside  *)
(* the process that boots and stops it (cmd/mnemox/main.go) over the store *)
(* it persists to (internal/database/store.go).                            *)
(*                                                                         *)
(*   RPC node --> pollLoop --> pageCh --> processLoop --> SQLite           *)
(*               (producer)  (bounded)   (consumer)   \-> Merkle tree      *)
(*                                                                         *)
(* An event is named by its position <<ledger, index>> on the chain, which *)
(* is also the order of its SQLite primary key (the RPC builds event ids   *)
(* from exactly these two numbers).  The chain and the RPC node are        *)
(* external.  What survives a crash is events and cursor; everything else  *)
(* about the process is rebuilt by the boot sequence.                      *)
(***************************************************************************)
EXTENDS LedgerWindow, Sequences, FiniteSets, Functions

CONSTANTS
  MaxLedger,       \* the last ledger the network closes
  LedgerContents,  \* the contents a ledger may have: sequences of kinds
  BufferDepth,     \* ingestionBufferDepth: 4
  PageLimit,       \* pageLimit, events per GetEvents call: 100
  MaxLeaves,       \* capacity of the Merkle tree: 2^20
  StartLedger,     \* START_LEDGER, 0 for "ask the RPC"
  Faults           \* the faults the environment may inject

\* The event kinds the pipeline tells apart.  "undecodable" is a commitment
\* event whose U256 is malformed or not a BN254 field element: decodeU256
\* refuses it and the event is stored with no value.
Kinds == {"commitment", "undecodable", "other"}

\* "rpc" is an RPC call that fails, "range" one that fails for some reason and
\* is taken for a request outside the node's retention window.
FaultKinds == {"rpc", "range", "save", "prune", "crash", "power", "cursor"}

ASSUME IngestionAssumption ==
  /\ MaxLedger \in Nat \ {0}
  /\ MaxLedger < MaxUint32
  /\ LedgerContents \subseteq Seq(Kinds)
  /\ BufferDepth \in Nat \ {0}
  /\ PageLimit \in Nat \ {0}
  /\ MaxLeaves \in Nat
  /\ StartLedger \in Uint32
  /\ Faults \subseteq FaultKinds

VARIABLES
  chain,      \* what the network has closed: ledger number -> contents
  oldest,     \* the oldest ledger the RPC node still retains
  events,     \* the events table, by id
  cursor,     \* the cursor row
  synced,     \* the commits a power loss cannot undo (synchronous=NORMAL)
  phase,      \* where main() is
  leaves,     \* the leaves of the Merkle tree, in insertion order
  producer,   \* where pollLoop is
  from,       \* *from, the ledger the next poll starts at
  endLedger,  \* endLedger of the fetchPage in progress
  fetched,    \* allEvents of the fetchPage in progress
  nextFrom,   \* nextFrom of the page about to be sent
  pageCh,     \* the bounded channel
  consumer,   \* where processLoop is
  batch,      \* the page processLoop is working on
  todo,       \* its commitments still to be inserted
  cancelled,  \* innerCtx is cancelled
  skipped,    \* history: ledgers passed over by anchoring, never asked for
  failed,     \* history: events of pages whose SaveBatch failed
  resumed,    \* history: the ledger this Run started polling from
  rewound     \* history: the lowest ledger polling has gone back to

env      == <<chain, oldest>>
disk     == <<events, cursor, synced>>
polling  == <<producer, from, endLedger, fetched, nextFrom>>
working  == <<consumer, batch, todo>>
history  == <<skipped, failed, resumed, rewound>>
vars     == <<env, disk, phase, leaves, polling, pageCh, working, cancelled,
              history>>
-----------------------------------------------------------------------------
(***************************************************************************)
(* Events on the chain.                                                    *)
(***************************************************************************)
Ledger(e) == e[1]
Index(e)  == e[2]
Kind(e)   == chain[Ledger(e)][Index(e)]

Precedes(e, f) ==
  \/ Ledger(e) < Ledger(f)
  \/ Ledger(e) = Ledger(f) /\ Index(e) < Index(f)

Latest      == Len(chain)
ChainEvents == UNION {{<<l, i>> : i \in DOMAIN chain[l]} : l \in DOMAIN chain}
EventsFrom(lo)   == {e \in ChainEvents : Ledger(e) >= lo}
\* endLedger is taken to be inclusive, as fetchPage does when it goes on at
\* endLedger + 1.
EventsIn(lo, hi) == {e \in EventsFrom(lo) : Ledger(e) <= hi}

\* The n least events of S.
FirstN(S, n) == {e \in S : Cardinality({f \in S : Precedes(f, e)}) < n}
IsFirst(e, S) == e \in S /\ \A f \in S \ {e} : Precedes(e, f)

\* Which stored events become leaves: in processLoop, and in rebuildTree
\* (the type filter of GetCommitments, then the test for an empty value).
HasCommitment(e) == Kind(e) = "commitment"
LiveLeafByType(e) == Kind(e) # "other"  \* mutant: no test for an empty value
LiveLeaf(e)   == HasCommitment(e)
ReplayLeaf(e) == HasCommitment(e)

\* tree.Insert refuses a leaf when the tree is full.
TreeFull == Len(leaves) >= MaxLeaves

Page(E, n) == [events |-> E, nextFrom |-> n]
NoPage     == Page({}, 0)

\* The last ledger that pages already handed to the consumer reach.
Frontier ==
  IF pageCh # <<>> THEN pageCh[Len(pageCh)].nextFrom
  ELSE IF consumer = "save" THEN batch.nextFrom
  ELSE cursor
-----------------------------------------------------------------------------
(***************************************************************************)
(* The environment: the network closes ledgers, the RPC node forgets old   *)
(* ones.                                                                   *)
(***************************************************************************)
CloseLedger ==
  /\ Latest < MaxLedger
  /\ \E contents \in LedgerContents : chain' = Append(chain, contents)
  /\ UNCHANGED <<oldest, disk, phase, leaves, polling, pageCh, working,
                 cancelled, history>>

Prune ==
  /\ "prune" \in Faults
  /\ oldest < Latest
  /\ oldest' = oldest + 1
  /\ UNCHANGED <<chain, disk, phase, leaves, polling, pageCh, working,
                 cancelled, history>>
-----------------------------------------------------------------------------
(***************************************************************************)
(* The process: main() boots, rebuilds the tree from SQLite, starts Run    *)
(* and serves until a signal.  It does not wait for Run, in either         *)
(* direction: it exits while Run is still draining, and it stays up when   *)
(* Run has returned.                                                       *)
(***************************************************************************)
LoseMemory ==
  /\ phase' = "down"
  /\ leaves' = <<>>
  /\ producer' = "off" /\ from' = 0 /\ endLedger' = 0
  /\ fetched' = {} /\ nextFrom' = 0
  /\ pageCh' = <<>>
  /\ consumer' = "off" /\ batch' = NoPage /\ todo' = {}
  /\ cancelled' = FALSE
  /\ resumed' = 0

\* VerifyMonotonicity, which main calls first, accepts every table SaveBatch
\* can leave: the order of the ids is that of the ledgers.
Boot ==
  /\ phase = "down"
  /\ phase' = "rebuild"
  /\ todo' = {e \in events : ReplayLeaf(e)}
  /\ UNCHANGED <<env, disk, leaves, polling, pageCh, consumer, batch,
                 cancelled, history>>

RebuildInsert ==
  /\ phase = "rebuild"
  /\ \E e \in todo :
       /\ IsFirst(e, todo)
       /\ ~TreeFull
       /\ leaves' = Append(leaves, e)
       /\ todo' = todo \ {e}
  /\ UNCHANGED <<env, disk, phase, polling, pageCh, consumer, batch,
                 cancelled, history>>

\* log.Fatalf("rebuild tree: ...").
RebuildFails ==
  /\ phase = "rebuild"
  /\ todo # {}
  /\ TreeFull
  /\ LoseMemory
  /\ UNCHANGED <<env, disk, skipped, failed, rewound>>

\* oldestAvailableLedger: the three ways it returns.
OldestAvailable ==
  {ProbedLedger(oldest)} \cup
  (IF "rpc" \in Faults \/ cancelled THEN {1, FallbackLedger(Latest)} ELSE {})

\* The cursor Run reads, and the ledger it starts polling from.
CursorReads == {cursor} \cup (IF "cursor" \in Faults THEN {0} ELSE {})

StartFrom(c) ==
  IF c # 0 THEN {c}
  ELSE IF StartLedger # 0 THEN {StartLedger}
  ELSE OldestAvailable

\* Polling goes on at ledger n although it had got to ledger m.
GoesBack(n, m) == rewound' = IF n < m THEN Lesser(rewound, n) ELSE rewound

StartRun ==
  /\ phase = "rebuild"
  /\ todo = {}
  /\ phase' = "serving"
  /\ producer' = "idle"
  /\ consumer' = "recv"
  /\ \E c \in CursorReads : \E start \in StartFrom(c) :
       /\ from' = start
       /\ resumed' = start
       /\ skipped' = skipped \cup (cursor + 1)..(start - 1)
       /\ GoesBack(start, cursor)
  /\ UNCHANGED <<env, disk, leaves, endLedger, fetched, nextFrom, pageCh,
                 batch, todo, cancelled, failed>>

\* SIGINT or SIGTERM cancels the application context, hence innerCtx too.
Signal ==
  /\ phase = "serving"
  /\ phase' = "stopping"
  /\ cancelled' = TRUE
  /\ UNCHANGED <<env, disk, leaves, polling, pageCh, working, history>>

\* main() returns after srv.Shutdown, wherever Run is.
Exit ==
  /\ phase = "stopping"
  /\ LoseMemory
  /\ UNCHANGED <<env, disk, skipped, failed, rewound>>

Crash ==
  /\ "crash" \in Faults
  /\ phase # "down"
  /\ LoseMemory
  /\ UNCHANGED <<env, disk, skipped, failed, rewound>>
-----------------------------------------------------------------------------
(***************************************************************************)
(* pollLoop and fetchPage: the producer.                                   *)
(***************************************************************************)
\* fetchPage's lastLedger once it has read the events E.
LastLedger(E) ==
  LET ledgers == {from} \cup {Ledger(e) : e \in E}
  IN  CHOOSE l \in ledgers : \A m \in ledgers : m <= l

\* What the next GetEvents call still has to return.  The first call is
\* bounded by the window; the paginated ones only by what has closed.
Remaining ==
  IF fetched = {} THEN EventsIn(from, endLedger) ELSE EventsFrom(from) \ fetched

\* The node answers at most PageLimit events a call, the least ones first; a
\* full answer means there may be more.  Mutant: pagination is not followed.
NotPaginated(rest) == FALSE
FullPage(rest) == Cardinality(rest) >= PageLimit
Answer(rest)   == FirstN(rest, PageLimit)

\* The node refuses to read before its retention window.
StaleStart == LastLedger(fetched) < oldest

\* isOutOfRangeError looks for phrases in the message.  It knows an answer that
\* says so, but takes others for one too: any invalid request (-32600), or a
\* node that is behind and does not have the start ledger yet.
IsOutOfRange == StaleStart \/ "range" \in Faults

\* Nothing to poll for.  Mutant: off by one.
CaughtUpEarly == from >= Latest
CaughtUp == from > Latest

\* A tick: getLatestLedger succeeds and there is a closed ledger to read.
Poll ==
  /\ producer = "idle"
  /\ ~cancelled
  /\ ~CaughtUp
  /\ producer' = "fetch"
  /\ endLedger' = EndLedger(from, Latest)
  /\ UNCHANGED <<env, disk, phase, leaves, from, fetched, nextFrom, pageCh,
                 working, cancelled, history>>

\* A full page: pagination continues with the response cursor.
FetchMore ==
  /\ producer = "fetch"
  /\ ~StaleStart
  /\ FullPage(Remaining)
  /\ fetched' = fetched \cup Answer(Remaining)
  /\ UNCHANGED <<env, disk, phase, leaves, producer, from, endLedger,
                 nextFrom, pageCh, working, cancelled, history>>

\* A short page that leaves the window with nothing to send: only the
\* in-memory position moves.
FetchNothing ==
  /\ producer = "fetch"
  /\ ~StaleStart
  /\ fetched = {} /\ Remaining = {}
  /\ producer' = "idle"
  /\ from' = Greater(from, NextFrom(endLedger, LastLedger(fetched)))
  /\ endLedger' = 0
  /\ UNCHANGED <<env, disk, phase, leaves, fetched, nextFrom, pageCh,
                 working, cancelled, history>>

\* A short page that ends the window with events to send.
FetchLast ==
  /\ producer = "fetch"
  /\ ~StaleStart
  /\ ~FullPage(Remaining)
  /\ fetched \cup Remaining # {}
  /\ producer' = "send"
  /\ fetched' = fetched \cup Answer(Remaining)
  /\ nextFrom' = NextFrom(endLedger, LastLedger(fetched \cup Answer(Remaining)))
  /\ UNCHANGED <<env, disk, phase, leaves, from, endLedger, pageCh, working,
                 cancelled, history>>

\* The RPC node no longer has the ledger, or so the error reads: re-anchor and
\* forget the window.  What a cancelled poller passes over it would not have
\* asked for anyway.  From a ledger the node does have, polling may go back
\* over ledgers that were read before.
Reanchor ==
  /\ producer = "fetch"
  /\ IsOutOfRange
  /\ producer' = "idle"
  /\ \E newFrom \in OldestAvailable :
       /\ from' = newFrom
       /\ skipped' = IF cancelled THEN skipped
                     ELSE skipped \cup Greater(from, Frontier)..(newFrom - 1)
       /\ IF StaleStart THEN UNCHANGED rewound ELSE GoesBack(newFrom, from)
  /\ endLedger' = 0
  /\ fetched' = {}
  /\ UNCHANGED <<env, disk, phase, leaves, nextFrom, pageCh, working,
                 cancelled, failed, resumed>>

\* An RPC error that is not taken for out of range, among them the cancelled
\* context: retry next tick.
FetchError ==
  /\ producer = "fetch"
  /\ "rpc" \in Faults \/ cancelled
  /\ producer' = "idle"
  /\ endLedger' = 0
  /\ fetched' = {}
  /\ UNCHANGED <<env, disk, phase, leaves, from, nextFrom, pageCh, working,
                 cancelled, history>>

\* There is room in the channel.  Mutant: one page too many.
CanSendOver == Len(pageCh) <= BufferDepth
CanSend == Len(pageCh) < BufferDepth

Send ==
  /\ producer = "send"
  /\ CanSend
  /\ producer' = "idle"
  /\ pageCh' = Append(pageCh, Page(fetched, nextFrom))
  /\ from' = nextFrom
  /\ endLedger' = 0 /\ fetched' = {} /\ nextFrom' = 0
  /\ UNCHANGED <<env, disk, phase, leaves, working, cancelled, history>>

\* ctx.Done() in either select; Run then closes pageCh.  Mutant: only the
\* select around the send has it.
StopPollingAtSend ==
  /\ producer = "send"
  /\ cancelled
  /\ producer' = "stopped"
  /\ endLedger' = 0 /\ fetched' = {} /\ nextFrom' = 0
  /\ UNCHANGED <<env, disk, phase, leaves, from, pageCh, working, cancelled,
                 history>>
StopPolling ==
  /\ producer \in {"idle", "send"}
  /\ cancelled
  /\ producer' = "stopped"
  /\ endLedger' = 0 /\ fetched' = {} /\ nextFrom' = 0
  /\ UNCHANGED <<env, disk, phase, leaves, from, pageCh, working, cancelled,
                 history>>
-----------------------------------------------------------------------------
(***************************************************************************)
(* processLoop: the consumer.                                              *)
(***************************************************************************)
\* Mutant: the page sent last is taken first.
ReceiveNewest ==
  /\ consumer = "recv"
  /\ pageCh # <<>>
  /\ consumer' = "save"
  /\ batch' = pageCh[Len(pageCh)]
  /\ pageCh' = SubSeq(pageCh, 1, Len(pageCh) - 1)
  /\ UNCHANGED <<env, disk, phase, leaves, polling, todo, cancelled, history>>
Receive ==
  /\ consumer = "recv"
  /\ pageCh # <<>>
  /\ consumer' = "save"
  /\ batch' = Head(pageCh)
  /\ pageCh' = Tail(pageCh)
  /\ UNCHANGED <<env, disk, phase, leaves, polling, todo, cancelled, history>>

SaveBatch ==
  /\ consumer = "save"
  /\ consumer' = "insert"
  /\ events' = events \cup batch.events
  /\ cursor' = BatchCursor(batch.nextFrom)
  /\ todo' = {e \in batch.events : LiveLeaf(e)}
  /\ UNCHANGED <<env, synced, phase, leaves, polling, pageCh, batch,
                 cancelled, history>>

\* The transaction rolls back; the page is logged and skipped.
SaveFails ==
  /\ "save" \in Faults
  /\ consumer = "save"
  /\ consumer' = "recv"
  /\ batch' = NoPage
  /\ failed' = failed \cup batch.events
  /\ UNCHANGED <<env, disk, phase, leaves, polling, pageCh, todo, cancelled,
                 skipped, resumed, rewound>>

InsertLeaf ==
  /\ consumer = "insert"
  /\ \E e \in todo :
       /\ IsFirst(e, todo)
       /\ ~TreeFull
       /\ leaves' = Append(leaves, e)
       /\ todo' = todo \ {e}
  /\ UNCHANGED <<env, disk, phase, polling, pageCh, consumer, batch,
                 cancelled, history>>

PageDone ==
  /\ consumer = "insert"
  /\ todo = {}
  /\ consumer' = "recv"
  /\ batch' = NoPage
  /\ UNCHANGED <<env, disk, phase, leaves, polling, pageCh, todo, cancelled,
                 history>>

\* A fatal insert: cancel the producer and drain the channel unprocessed.
InsertFatal ==
  /\ consumer = "insert"
  /\ todo # {}
  /\ TreeFull
  /\ consumer' = "drain"
  /\ batch' = NoPage
  /\ cancelled' = TRUE
  /\ UNCHANGED <<env, disk, phase, leaves, polling, pageCh, todo, history>>

Drain ==
  /\ consumer = "drain"
  /\ pageCh # <<>>
  /\ pageCh' = Tail(pageCh)
  /\ UNCHANGED <<env, disk, phase, leaves, polling, working, cancelled,
                 history>>

\* The closed channel is empty: processLoop returns, and Run after it.
RunReturns ==
  /\ consumer \in {"recv", "drain"}
  /\ producer = "stopped"
  /\ pageCh = <<>>
  /\ consumer' = "done"
  /\ UNCHANGED <<env, disk, phase, leaves, polling, pageCh, batch, todo,
                 cancelled, history>>
-----------------------------------------------------------------------------
(***************************************************************************)
(* The store under power loss: with synchronous=NORMAL in WAL mode a       *)
(* commit is atomic but is durable only from the next checkpoint.          *)
(***************************************************************************)
\* Mutant: the rows and the cursor row are not one transaction.
SnapshotOfEvents == [events |-> events, cursor |-> synced.cursor]
Snapshot == [events |-> events, cursor |-> cursor]

Checkpoint ==
  /\ "power" \in Faults
  /\ synced # Snapshot
  /\ synced' = Snapshot
  /\ UNCHANGED <<env, events, cursor, phase, leaves, polling, pageCh, working,
                 cancelled, history>>

PowerLoss ==
  /\ "power" \in Faults
  /\ events' = synced.events
  /\ cursor' = synced.cursor
  /\ LoseMemory
  /\ UNCHANGED <<env, synced, skipped, failed, rewound>>
-----------------------------------------------------------------------------
Init ==
  /\ \E contents \in LedgerContents : chain = <<contents>>
  /\ oldest = 1
  /\ events = {} /\ cursor = 0
  /\ synced = [events |-> {}, cursor |-> 0]
  /\ phase = "down"
  /\ leaves = <<>>
  /\ producer = "off" /\ from = 0 /\ endLedger = 0
  /\ fetched = {} /\ nextFrom = 0
  /\ pageCh = <<>>
  /\ consumer = "off" /\ batch = NoPage /\ todo = {}
  /\ cancelled = FALSE
  /\ skipped = {} /\ failed = {} /\ resumed = 0 /\ rewound = MaxUint32

Process  == Boot \/ RebuildInsert \/ RebuildFails \/ StartRun \/ Signal \/ Exit
Producer == \/ Poll \/ FetchMore \/ FetchNothing \/ FetchLast \/ Reanchor
            \/ FetchError \/ Send \/ StopPolling
Consumer == \/ Receive \/ SaveBatch \/ SaveFails \/ InsertLeaf \/ PageDone
            \/ InsertFatal \/ Drain \/ RunReturns
Environment == CloseLedger \/ Prune \/ Crash \/ Checkpoint \/ PowerLoss

Next == Process \/ Producer \/ Consumer \/ Environment

Spec == Init /\ [][Next]_vars

(***************************************************************************)
(* What the scheduler and the environment owe.  A goroutine that can run   *)
(* runs, the ticker keeps ticking, a supervisor restarts a process that    *)
(* died.  Nothing is owed by the faults; that they end is a hypothesis of  *)
(* the property that needs it.                                             *)
(***************************************************************************)
Fairness ==
  /\ WF_vars(Boot) /\ WF_vars(RebuildInsert) /\ WF_vars(RebuildFails)
  /\ WF_vars(StartRun) /\ WF_vars(Exit)
  /\ WF_vars(Poll) /\ WF_vars(StopPolling) /\ WF_vars(Send)
  /\ WF_vars(FetchMore) /\ WF_vars(FetchNothing) /\ WF_vars(FetchLast)
  /\ WF_vars(StaleStart /\ Reanchor)
  /\ WF_vars(Receive) /\ WF_vars(SaveBatch) /\ WF_vars(InsertLeaf)
  /\ WF_vars(PageDone) /\ WF_vars(InsertFatal)
  /\ WF_vars(Drain) /\ WF_vars(RunReturns)

FairSpec == Spec /\ Fairness
-----------------------------------------------------------------------------
EventIds == (1..MaxLedger) \X (Nat \ {0})
Pages    == [events : SUBSET EventIds, nextFrom : Uint32]

\* The types of the variables, and the bound on what waits in memory: the
\* channel never holds more than BufferDepth pages.
TypeOK ==
  /\ chain \in Seq(LedgerContents) /\ Len(chain) \in 1..MaxLedger
  /\ oldest \in 1..MaxLedger
  /\ events \subseteq EventIds /\ cursor \in Uint32
  /\ synced \in [events : SUBSET EventIds, cursor : Uint32]
  /\ phase \in {"down", "rebuild", "serving", "stopping"}
  /\ leaves \in Seq(EventIds)
  /\ producer \in {"off", "idle", "fetch", "send", "stopped"}
  /\ from \in Uint32 /\ endLedger \in Uint32 /\ nextFrom \in Uint32
  /\ fetched \subseteq EventIds
  /\ pageCh \in Seq(Pages) /\ Len(pageCh) <= BufferDepth
  /\ consumer \in {"off", "recv", "save", "insert", "drain", "done"}
  /\ batch \in Pages /\ todo \subseteq EventIds
  /\ cancelled \in BOOLEAN
  /\ skipped \subseteq Nat /\ failed \subseteq EventIds
  /\ resumed \in Uint32 /\ rewound \in Uint32

\* Between two pages the tree holds exactly the commitments of the events
\* table: what processLoop inserts live and what rebuildTree replays agree,
\* whatever was fetched twice, failed to save or was interrupted.
TreeMirrorsStore ==
  phase \in {"serving", "stopping"} /\ consumer = "recv" =>
    Range(leaves) = {e \in events : HasCommitment(e)}

\* Nothing is stored beyond the cursor: the cursor row and the events table
\* move together, through crashes and power losses too, as long as the cursor
\* lies before every ledger that polling has gone back to.
CursorBoundsStore ==
  cursor < rewound => \A e \in events : Ledger(e) <= cursor

\* The cursor passes no event silently: an event at or below it is stored,
\* or was in a page whose SaveBatch failed, or lies in a ledger the streamer
\* anchored past.  This is "skipping pagination silently drops events"
\* (fetchPage) for every window, page and restart boundary.
NoSilentLoss ==
  \A e \in ChainEvents :
    Ledger(e) <= cursor => e \in events \cup failed \/ Ledger(e) \in skipped

\* The tree's leaves follow the chain order that rebuildTree would give
\* them, but for two kinds of ledgers.  Those from where polling has gone back
\* to are read again from there.  The ledger that Run resumed at is read again
\* once: a leaf of it that is out of order is followed by none that is not
\* behind it, so its commitment is not a leaf a third time.
LeavesInChainOrder ==
  \A j \in DOMAIN leaves : \A i \in 1..(j - 1) :
    \/ Precedes(leaves[i], leaves[j])
    \/ rewound <= Ledger(leaves[j])
    \/ /\ Ledger(leaves[i]) = Ledger(leaves[j]) /\ Ledger(leaves[j]) = resumed
       /\ \A k \in (j + 1)..Len(leaves) : Precedes(leaves[j], leaves[k])

\* The committed cursor does not move back, across re-anchoring and restarts,
\* but for a power loss, which undoes the commit that moved it, and not below
\* the lowest ledger that polling has gone back to.
CursorMonotone == [][cursor' >= Lesser(cursor, rewound) \/ PowerLoss]_vars

\* Every commitment the network closes is eventually a leaf, if the process
\* eventually stays up, the RPC eventually answers (fetchPage starts over at
\* every error, so answering now and then is not enough; none of the errors is
\* taken for out of range) and the tree has room: retries, windows and
\* backpressure lose no wake-up.
EveryCommitmentIndexed ==
  <>[](phase = "serving") /\ <>[][~FetchError]_vars /\ [](consumer # "drain") =>
    \A e \in (1..MaxLedger) \X (1..2) :
      [](e \in ChainEvents /\ HasCommitment(e) => <>(e \in Range(leaves)))

\* A cancelled Run ends: neither goroutine waits for the other for ever, be
\* the channel full or empty when a signal or a fatal insert cancels it.
CancelledRunEnds == cancelled ~> (consumer = "done" \/ phase = "down")

\* The store is the permanent index: every SaveBatch extends it by all the
\* events of whole ledgers, through crashes, restarts and those RPC errors that
\* are not taken for out of range.
Promised == INSTANCE PermanentIndex
            WITH Contents <- LedgerContents, Start <- StartLedger,
                 index <- events, frontier <- cursor
ImplementsPermanentIndex == Promised!Spec

\* processLoop: "A clean restart will re-fetch the uncommitted range from
\* the last durable ledger": a page that failed to save stays ahead of the
\* cursor until it is stored.
FailedPagesRemainAheadOfCursor ==
  \A e \in failed : e \in events \/ Ledger(e) > cursor

\* main: the order of GetCommitments "guarantees Poseidon root
\* consistency": between pages, the tree is the one a rebuild would give,
\* so it holds no commitment twice.
TreeIsReplayOfStore ==
  phase = "serving" /\ consumer = "recv" =>
    \A j \in DOMAIN leaves : \A i \in 1..(j - 1) : Precedes(leaves[i], leaves[j])

\* processLoop: a fatal insert returns, "triggering a supervisor restart and
\* clean tree rebuild".
FatalInsertRestarts == consumer = "drain" ~> phase = "rebuild"
=============================================================================
