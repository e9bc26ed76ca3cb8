# TLA+ models and proofs of the Mnemox sidecar

Mnemox indexes the commitment events of one Soroban contract.  A Go process
polls a Stellar RPC node, keeps the events in SQLite and a Merkle tree of their
commitments in memory, and serves sibling paths over HTTP to a TypeScript SDK,
which hands them to a Noir or Circom prover.  RPC nodes forget old events; the
sidecar exists so that the index does not.

This directory models it in TLA+: the ingestion pipeline with the process and
the store around it, the Merkle tree, the handlers that serve the tree while it
grows, the rate limiter, the SDK over a network that loses things, and the two
explanatory videos, which are programs too.  TLC checks the models on small
instances; TLAPS proves most of the safety properties for every value of the
constants.  Paths below are relative to `src/`.

- [The system](#the-system)
- [The modules, and how they correspond to the code](#the-modules-and-how-they-correspond-to-the-code)
- [The runs](#the-runs)
- [Fairness](#fairness)
- [What the runs find](#what-the-runs-find)
- [The proofs](#the-proofs)
- [What is not modelled](#what-is-not-modelled)
- [What could follow](#what-could-follow)
- [Running it](#running-it)

## The system

```
               getLatestLedger, getEvents
  RPC node  <------------------------------  pollLoop
                                                | pageCh (4 pages)
                                                v
  SQLite  <--- SaveBatch (rows + cursor) ---  processLoop --- Insert ---> MerkleTree
    |                                                                        |
    |  GetCommitments at boot (rebuildTree) ------------------------------>  |
    |                                                                        |
    +--- GetCursor, GetEvents ... --->  HTTP handlers  <--- Root, Proof, FindLeaf
                                             |
                                        SDK, dashboard
```

| Component | State | Operations |
|---|---|---|
| **Ingestion pipeline** `internal/ingestion/streamer.go` | the position `*from`, the window and page being fetched, the channel `pageCh`, the page being processed, `innerCtx` | `Run`, `pollLoop`, `fetchPage`, `processLoop`, `oldestAvailableLedger`, `getLatestLedger` |
| **Event decoding** `internal/ingestion/xdrdecode.go` | none | `decodeSymbol`, `decodeU256` |
| **Event store** `internal/database` | tables `events`, `cursor`; WAL with `synchronous=NORMAL` | `SaveBatch`, `GetCursor`, `VerifyMonotonicity`, `GetCommitments`, `GetEvents`, `GetEventByValue`, `CountEvents` |
| **Merkle tree** `internal/crypto` | `leaves`, `filledSubtrees`, `leafIndex`, one lock | `Insert`, `Root`, `Proof`, `FindLeaf`, `LeafCount` |
| **Process** `cmd/mnemox/main.go` | where `main` is | `main`, `rebuildTree` |
| **HTTP API** `internal/server` | the rate limiter's token channel | `/health`, `/tree/root`, `/tree/proof/{c}`, `/events`; the sync guard |
| **Configuration** `internal/config` | none after boot | `Load` |
| **SDK** `ui/sdk/src/index.ts` | none between calls | `getSiblingPath`, `getTreeRoot`, `getHealth`, the timeout and error mapping |
| **Videos** `ui/src` | the frame number | `MnemoxFlowComposition`, `MnemoxIntro`, `Root` |
| **Dashboard** `internal/server/public/dashboard.html` | the last answers | one poll every 3 seconds |

### How they interact, and what makes each of them correct

**Pipeline.**  Two goroutines, producer and consumer, joined by a bounded
channel and a shared context.  The producer moves an in-memory position over
windows of up to 10 000 ledgers, follows pagination, and re-anchors when the
node has forgotten the ledger it wants, or answers with an error that reads as
if it had.  The consumer saves a page (rows and cursor in one transaction) and
only then inserts its commitments into the tree. A failed save skips the page; a
failed insert cancels the producer and drains the channel.  What has to be
right: no ledger left out or fetched twice at any window, page or integer
boundary; the cursor never covers an event that was dropped without trace, and
moves back only where polling went back; the live tree and the one rebuilt at
boot agree; every commitment is eventually a leaf; a cancelled run ends.

**Store.**  Rows and cursor share a transaction, and with `synchronous=NORMAL`
a power loss may undo the last ones.  What has to be right: nothing stored lies
beyond the cursor, also after a crash or power loss; the table is what a
permanent index of the contract would hold.

**Tree.**  `Insert` maintains `filledSubtrees` and `leafIndex` incrementally;
`Root` and `Proof` recompute occupied layers only.  What has to be right: root
and paths are those of the zero-padded tree of depth 20 that the contract
computes, every served path leads to the root, the index follows every append.

**Process.**  `main` rebuilds the tree, starts `Run` in a goroutine it never
waits for, and serves until a signal.  What has to be right: no crash point
leaves tree and store different after the next boot; a pipeline that ends by
itself is noticed.

**HTTP API.**  A handler makes several reads (RPC, SQLite, tree) with no lock
across them while the pipeline runs on.  What has to be right: index, path and
root of one answer belong together; what the sync guard checked is still worth
something when the answer leaves; the guard opens again.

**Rate limiter.**  A channel of tokens, a ticker that refills it, requests that
take one or are refused.  What has to be right: the bound holds for every
stretch of time, also one that begins after a long idle one.

**SDK.**  A call passes a validator, races a timer against a network, and turns
a response in two phases, headers and body, into a result or an error class a
caller acts on.  What has to be right: a typed error is true, the two validators
agree, the timer covers what the documentation says it covers, a witness has
the width its circuit expects.

**Videos.**  A frame is a function of its number; what appears together is timed
by constants in different places.  What has to be right: no gap between stages,
nothing drawn from nothing, nothing cut off before it is complete, no claim
before what it claims.

**Dashboard.**  Answers overtaking one another; constants drawn when a poll
fails.

The behaviours that are hard to test, with their lines and the properties that
watch them, are listed under `hazards` in `PROJECT.json`.

## The modules, and how they correspond to the code

| Module | Models |
|---|---|
| `LedgerWindow` | the uint32 arithmetic of `fetchPage`, `processLoop` and `oldestAvailableLedger`, as operators |
| `WindowCrawl` | `pollLoop` and `fetchPage` reduced to ledger numbers, up to the end of the uint32 range |
| `Ingestion` | pipeline, process and store, with the RPC node and the network as environment |
| `PermanentIndex` | abstract specification of the store |
| `MerkleHash` | the pure part of `internal/crypto/tree.go`: roots and paths as functions of the leaves |
| `MerkleTree` | the tree as it is kept: `leaves`, `filledSubtrees`, `leafIndex` |
| `ProofService` | `handleProof` with its guard and `handleRoot`, composed with all of `Ingestion` and with `MerkleHash` |
| `RateLimiter` | the token bucket of `server.go` |
| `SdkClient` | `ui/sdk/src/index.ts`, calls in parallel, composed with `RateLimiter` and with the answers of the handlers |
| `Timeline` | spans of frames, what both videos share |
| `FlowTimeline`, `IntroTimeline` | what a frame of `MnemoxFlowComposition.tsx` and of `MnemoxIntro.tsx` draws |
| `Video` | the two compositions of `Root.tsx`, played |
| `MCIngestion`, `MCProofService` | values of `LedgerContents` and `Value` for TLC |
| `LedgerWindowProofs`, `WindowCrawlProofs`, `IngestionProofs`, `StoreProofs`, `MerkleHashProofs`, `MerkleTreeProofs`, `ProofServiceProofs`, `SdkClientProofs` | theorems |

`MerkleTree` extends `MerkleHash`; `ProofService` extends `Ingestion` and
`MerkleHash`, and `Ingestion` extends `LedgerWindow`.  `Ingestion` instantiates
`PermanentIndex` with `index <- events`, `frontier <- cursor`.  `SdkClient`
extends `RateLimiter`.  It takes from the handlers only the set of answers they
can give, because a client sees nothing else of them; which of the answers the
state of the pipeline leads to is the question of `ProofService`. `PROJECT.json`
maps each definition to its lines.

### `Ingestion`

An event is its position `<<ledger, index>>` on the chain: the RPC builds event
ids from these two numbers, and the primary key sorts by them.  Of a payload
only its kind matters: a commitment, a commitment that `decodeU256` refuses
(stored with an empty value, never inserted), or another event.

| Variable | In the code |
|---|---|
| `events`, `cursor` | the two tables |
| `synced` | what is durable against a power loss: the state at the last checkpoint |
| `phase` | where `main` is: `down`, `rebuild`, `serving`, `stopping` |
| `leaves` | `t.leaves` |
| `producer`, `from`, `endLedger`, `fetched`, `nextFrom` | where `pollLoop` is, and its and `fetchPage`'s locals |
| `pageCh` | the channel |
| `consumer`, `batch`, `todo` | where `processLoop` is, its page, the inserts left |
| `cancelled` | `innerCtx` |
| `chain`, `oldest` | external: the network and the node's retention |
| `skipped`, `failed`, `resumed`, `rewound` | history only: ledgers anchored past, events of pages that failed to save, where this `Run` started, the lowest ledger that polling has gone back to (`MaxUint32` if it never has) |

| Actions | In the code |
|---|---|
| `Boot`, `RebuildInsert`, `RebuildFails` | `main` up to and in `rebuildTree`, including `log.Fatalf` |
| `StartRun` | `Run` up to the two goroutines: `GetCursor`, its error path, `START_LEDGER`, `oldestAvailableLedger` |
| `Signal`, `Exit` | the signal and `srv.Shutdown`; `main` does not wait for `Run` |
| `Poll`, `FetchMore`, `FetchNothing`, `FetchLast`, `FetchError`, `Reanchor` | a tick of `pollLoop`; every `GetEvents` call is a step, so ledgers close and the retention moves in between |
| `Send`, `StopPolling` | the two selects |
| `Receive`, `SaveBatch`, `SaveFails`, `InsertLeaf`, `InsertFatal`, `PageDone`, `Drain`, `RunReturns` | `processLoop`, each insert a step |
| `Checkpoint`, `PowerLoss`, `Crash`, `Prune`, `CloseLedger` | environment |

The first `GetEvents` call of a window is bounded by `endLedger`; the paginated
ones are not, because the cursor of the RPC replaces start and end.  Hence
`Remaining`, and hence `NextFrom`, the later of window end and last event.

An RPC error either makes the poller try again from where it was (`FetchError`,
fault `"rpc"`) or makes it re-anchor (`Reanchor`).  `isOutOfRangeError` decides
by phrases in the message, so `Reanchor` is not confined to a ledger that the
node has forgotten (`StaleStart`): under fault `"range"` any call may fail with
an error that is taken for it, from whatever ledger.  That covers every error
with `-32600`, an invalid request, and a "startLedger must be within" from a
node that has not come as far as the start ledger, say one of several behind a
load balancer.  Polling may then jump back over ledgers that are committed, or
ahead over ledgers that nobody read.  What it jumps over is in `skipped`, where
it goes back to in `rewound`.  `StartRun` records the same when
it resumes below the cursor.

The abstractions that matter: the transport timeouts and the tick period are
time, and do not appear (an RPC call answers or fails); re-anchoring takes any
of the three results of `oldestAvailableLedger`; the events of a page are a set,
inserted in chain order, which is the order the RPC returns them in.  The RPC is
one node with one view of the chain: a node that lags is modelled by the errors
it gives, not by answers that lack what the others have.

`EventsIn` takes the `endLedger` of `getEvents` as inclusive.  That is an
assumption about the RPC; it is what `fetchPage` assumes when it goes on at
`endLedger + 1` (`streamer.go:272`, `319`).  If the RPC excludes the ledger
itself, the last ledger of every window that needs no pagination is passed
unread, and neither this model nor a test of the repository, whose RPC is a
stub, would show it.  It is in the hazard list.

### `MerkleHash` and `MerkleTree`

One action, `Insert(v)`, or its refusal.  Each method takes the tree's lock for
its whole body, so each is atomic.  Poseidon is a free hash, `Hash(l, r) ==
<<l, r>>`: two nodes are equal exactly when their subtrees are, the idealisation
of collision resistance.  `Climb`, `NextLayer` and `Proof` follow the code's
loops; the reference is `FullTree`, all `2^Depth` leaves hashed row by row.

### `ProofService`

`call` is a handler's program counter and locals.  A handler writes no shared
state, so a single call at a time exhibits every behaviour that several could.
A path or root is kept as the number of leaves of the tree it was computed
from, since leaves are only appended to within a process; `TreeOf(n)` is that
tree again, and `ServedProofVerifies` hashes it with the operators of
`MerkleHash`.  `Value` gives each commitment its field element, zero perhaps
among them, which is what the empty positions of the tree hold.
`ServiceAssumption` makes the bound of `Ingestion` on the leaves, `MaxLeaves`,
the capacity of the tree.

The guard compares with the SQLite cursor, which moves before the page's leaves
are in the tree; `ProofMissesOnePageAtMost` states exactly how much that lets
through.

Under fault `"cursor"`, `GetCursor` may fail, with a different outcome at each
of its three uses.  `Run` takes the stored cursor for 0 and polling starts over;
the guard refuses with a 503; `handleRoot` ignores the error and reports ledger
0.  What handlers serve meanwhile is checked.

### `RateLimiter` and `SdkClient`

`tokens` is the length of the channel; `stretch` is history, the ticks and
admitted requests since some tick.  A stretch may begin at any tick, which is
how `BurstThenRate` speaks of all stretches.

| Variable | In the code |
|---|---|
| `call[c].step` | where the method is: `fetch`, reading a body (`json`, `json503`, `text`), or settled |
| `call[c].method`, `commitment`, `outcome` | the method called, its argument, what its promise settled with |
| `call[c].timer`, `age` | whether the `AbortController`'s timer, or `AbortSignal.timeout`, still runs, and since when |
| `call[c].response`, `request[c]` | the response received; external: where the request is |

| Actions | In the code |
|---|---|
| `GetSiblingPath`, `InvalidCommitment`, `GetTreeRoot`, `GetHealth` | the three methods up to `await fetch` |
| `TimerFires`, `FetchFails` | the two ways `fetch` rejects |
| `HeadersArrive` | `clearTimeout`, and the choice by status of what to read next; statuses without a body to read settle here |
| `BodyArrives`, `BodyBreaks` | `response.json()` or `.text()` resolving or rejecting, with and without a `catch` |
| `RequestThrottled`, `RequestAdmitted` | `rateLimit` |
| `RequestHandled` | the three handlers, by the answers they can give |
| `ProxyAnswers`, `RequestLost`, `ClockTicks` | environment; a proxy answers with errors of its own (404, 429, 502, 503), and so does the sidecar's mux for an unknown path (404) |

A commitment is the value it denotes, indexed or not, and the way it is written:
lower case, upper case, without prefix, too short, or with something after the
digits.  That is all that the validators, `FindLeaf` and the store tell apart.
A hexadecimal string is the number of its digits; 32-byte values have
`HexWidth`, and `%x` prints one less where the first digit is zero.

`getHealth` is the odd one out and is modelled so: its timer covers the body,
and its errors are the platform's own.

### The videos

`Timeline` reduces an element of a frame to its name and the span of frames in
which it comes in.  `po` counts frames instead of dividing by the span; an
easing curve keeps only that it is 0 before, complete after and neither in
between; a spring is at rest after its duration, which is what `remotion`
promises for `durationInFrames`.  `Flow(s, f)` and `Intro(f)` are the elements
of frame `f`, with the conditions the components have for drawing them.

`Video` plays frames in order.  Its only state besides the frame is history,
`gone`, what was drawn and no longer is.  Rendering is parallel in practice, but
a frame depends on nothing but its number, so playback shows every frame there
is.

## The runs

Passing runs, with the distinct states TLC visits:

| Run | States | Question |
|---|---|---|
| `window_crawl` | 1.4 k | Does the window arithmetic skip, repeat or stall anywhere, up to the end of uint32? |
| `ingest_faults` | 2.9 M | Safety under RPC errors, errors taken for a stale start, pruning, failed saves and power losses in every order, with no `START_LEDGER` and a tree that may fill up |
| `ingest_live` | 11 k | Liveness, and refinement of `PermanentIndex`, through RPC errors that are not taken for a stale start and crashes, with a tree that may fill up |
| `merkle_tree` | 9.8 k | Roots, paths and index against the full tree |
| `service` | 1.4 M | What an answer is worth, hashes included, when the pipeline moves between its reads, or starts over because the cursor cannot be read |
| `sdk` | 402 k | What a caller of the SDK may conclude, over a network, a proxy and a limiter that do their worst |
| `video` | 1.1 k | Every frame of both videos |

The properties, with the behaviour they are about, are commented in the modules.
Those that carry most:

- `NothingSkipped`, `NothingFetchedTwice`, `EveryLedgerPassed`: the windows.
- `NoSilentLoss`: an event at or below the cursor is stored, or was in a page
  that failed to save, or lies in a ledger anchored past.
- `CursorBoundsStore`, `CursorMonotone`: rows and cursor move together, and the
  cursor does not move back, even when re-anchoring jumps ahead while old pages
  are still in the channel.  Where an error has made polling go back over
  committed ledgers, the next commit does move the cursor back, below rows that
  are stored.  The properties say how far: never to before the lowest ledger
  that polling has gone back to, and a cursor that lies before that ledger
  bounds the table and moves forwards as ever.
- `TreeMirrorsStore`: between pages the tree holds exactly the commitments of
  the table, whichever of insertion and replay put them there.
- `LeavesInChainOrder`: live insertion gives the order replay would, except in
  the ledgers from where polling has gone back to, and within the ledger a run
  resumed at (see `duplicate_leaf`), which is read once more and not a third
  time.
- `ImplementsPermanentIndex`: every `SaveBatch` is a step of the abstract index;
  no other step changes the store.  This is promised through crashes and RPC
  errors, as long as none of them is taken for a stale start.
- `EveryCommitmentIndexed`, `CancelledRunEnds`.
- `RootIsOfFullTree`, `InsertClimbsToRoot`, `ProofVerifies`, `PathBindsTree`.
- `PathOfCommitment`, `ProofMissesOnePageAtMost`, `RootMissesOnePageAtMost`.
- `ServedProofVerifies`: the served path hashes to the root of the tree it was
  read from, and to the served root exactly when the leaves inserted between the
  two reads are all zero.
- `BurstThenRate`: in any stretch of k ticks at most `Burst` + k requests pass.
- `TypedErrorsAreTrue`, `NeverBadRequest`: what a caller may conclude from an
  error, and for a not-found that is little: the commitment is in no leaf, or
  the 404 was not the sidecar's answer about a commitment at all; a commitment
  the SDK lets through is well-formed for the sidecar.
- `OverdueOnlyInBody`, `EveryCallSettles`: the exact extent of the timeout.
- `LedgerMissingOnlyInUpperCase`, `WitnessIsFixedWidth`.
- `CrossFades`, `TreeGrowsUpward`, `CompleteBeforeItGoes`, `NothingReturns`,
  `CounterTracksLeaves`, `VerdictFollowsProof`, `HexLinesDiffer`.

### Bounds, and why they are enough

The constants keep the ratios of the code, scaled down.

- `MaxUint32` 12 or 15 instead of 2^32-1.  `window_crawl` runs up to the last
  ledger but one, so the overflow guard is taken; everywhere else the chain is
  far from the end, as it is for any real network.
- `WindowSize` is the offset of a window's end, 9999 in the code: 3 in
  `window_crawl`, 1 elsewhere, so a window has two ledgers and a chain of 3 or 4
  has a boundary inside, and pagination can overshoot it.
- `PageLimit` 1 to 3 (100): pages that are full, that are short, and that are
  exactly full.  A full page that happened to be the last makes the code call
  once more for an empty one; `PageLimit` 1 with two events a ledger does that.
- `BufferDepth` 1 or 2 (4): the channel fills, and with 2 it holds two pages
  while a third is saved and a fourth is being fetched, enough for a re-anchor
  to overtake pages in flight.
- `ProbeBuffer` (10) and `FallbackDepth` (100000) do not keep their ratio in
  `ingest_faults`, where they matter: both are 0.  A probe then anchors at the
  oldest ledger the node has, a failed one at the latest or at 1, so a chain of
  three ledgers has both a jump back and a jump over ledgers that could be read.
  The proofs take any values, a fallback that wraps included.
- `MaxLedger` 2 to 4, at most two events a ledger; `LedgerContents` lists what a
  ledger may hold, among them always the empty ledger.
- `MaxLeaves` is 3 in `ingest_faults` and `ingest_live`, where a chain, or
  ledgers read more than once, can fill the tree while pages are in flight and
  at boot, and 4 in `service`.  In the runs with a counterexample it is out of
  the way unless a full tree is the question.
- Nothing bounds power losses, crashes, restarts, failed saves or RPC errors of
  either kind.  The leaves stay finite because the tree does.
- `Depth` 3 in `merkle_tree`: every shape of layer (empty, odd, even, full), and
  eight leaves.  `Values` hold zero, which is also the empty leaf, and one that
  is not a field element.
- `Depth` 2 in `service`, a tree of the four leaves that make it full there, and
  a `Value` that is zero for one commitment, so that an insertion between path
  and root may leave the root as it was.

- `Burst` 1 and `MaxTicks` 1: the bucket empties, overflows, and a stretch is
  one tick or none.  Two calls compete for one token.
- `Timeout` 1 tick: a call is young, due, or over.  `HexWidth` 4.
- `video` has no bounds: both videos in full, 600 and 450 frames.

Which faults a run injects is a choice of size, not of what holds:

- `ingest_faults`, with no `START_LEDGER`: `"rpc"`, `"range"`, `"prune"`,
  `"save"` and `"power"`.  A power loss with nothing to undo is a crash.
- `ingest_live`, with one: `"rpc"` and `"crash"`, which are the faults that the
  refinement is promised for.
- `service`, with one: `"rpc"`, `"save"` and `"cursor"`.

Every safety property of the pipeline but the refinement is also proved, and
then for all faults together.

Every definition that a check turns into a plausible bug (a dropped guard, an
off-by-one, a missing overflow test) stands next to its mutant, marked as such;
`PROJECT.json` lists which property each one breaks.

### Deadlock

Deadlock is checked in every run but `window_crawl`, where the crawl has
nothing left to do at the end of the chain, and `video`, which ends.  In the
others a process can always be signalled or restarted, or a caller can call
again.

## Fairness

`FairSpec` is `Spec` with weak fairness for each action of the process, the
producer and the consumer that is not a fault or an external choice: a runnable
goroutine runs, the ticker keeps ticking, a select whose case is ready takes
one, and a supervisor starts the process again when it has exited
(`streamer.go:67-68` and `173-175` count on one).  The unit file in
`SECURITY.md:172-207` has `Restart=on-failure`, which starts the process again
after a crash or a `log.Fatalf`, but not after the clean exit that a signal
leads to, nor after a fatal insert, where the process does not exit.  No
property depends on a restart after a clean exit: `EveryCommitmentIndexed`
supposes that the process eventually stays up, and for `CancelledRunEnds` an
exit is an end.

There is no fairness for `Signal`, `SaveFails`, `FetchError`, `Crash`, `Prune`,
`CloseLedger`, or a `Reanchor` from a ledger that the node still has: only the
refusal of a ledger it has forgotten is sure to be answered so
(`WF_vars(StaleStart /\ Reanchor)`).

Weak fairness of single actions does not promise that an RPC that keeps failing
ever answers, and must not.  `EveryCommitmentIndexed` therefore has its
hypotheses in the formula: the process eventually stays up, fetch errors
eventually stop, no insert was fatal; and its run has no errors that are taken
for a stale start.  Eventually, not infinitely often, is
needed: `fetchPage` throws away what it paginated at each error and starts over,
so a node that fails every second call never lets a window of several pages
finish.

`SdkFairSpec` assumes only the client's event loop: its clock advances, and a
timer that is due fires.  Network, proxy and sidecar may stay silent for ever,
and `EveryCallSettles` says which calls then never settle: those that wait for
the body of a proof or of a root, for which the timer has been cleared.

## What the runs find

Each of these runs checks one sentence of the repository's comments or
documents, and TLC shows the code doing otherwise.

**`lost_page`: a page that fails to save is lost, not fetched again.**
`streamer.go:169-171` and the log line at 179 say a restart re-fetches it.  The
consumer goes on with the next page, whose `SaveBatch` moves the cursor past the
failed one; a restart resumes there.

**`duplicate_leaf`: a clean restart inserts the last ledger's commitments
twice.**  `Run` resumes at the cursor, not behind it.  `INSERT OR IGNORE` drops
the rows, but `processLoop` inserts every commitment of the page, so the root
differs from the contract's and from what the next rebuild gives.
`main.go:49` and `streamer.go:67-69` promise the opposite.

**`fatal_no_restart`: nothing restarts after a fatal insert.**
`streamer.go:173-175` says returning from `processLoop` triggers a supervisor
restart.  `Run` was started with `go`, and `main` waits for a signal.

**`quiet_contract`: a contract without events shuts the proof endpoint.**  Empty
windows do not move the SQLite cursor, which is what the guard compares with the
network.  `ui/sdk/README.md:222` says the loop re-synchronises by itself.

**`torn_proof`: path and root of one answer can belong to different trees.** Two
lock acquisitions, one insert between them; by `ServedProofVerifies` the path
then leads to another root, unless the new leaves are zero.
`ui/sdk/src/index.ts:38` calls the root that of "the moment the proof was
generated".

### Divergences that need no run

- `streamer.go:326-327` says `isOutOfRangeError` recognises a start ledger
  outside the retention window, and `SECURITY.md:77` counts on it against
  re-anchoring "at the wrong ledger".  It matches any error with `-32600`, the
  code of an invalid request, and "startLedger must be within", which a node
  also answers when it has not come as far as the start ledger.  Polling then
  jumps back over committed ledgers, or, where the probe fails too, to a ledger
  that depends on nothing but the latest one.  Leaves repeat and the cursor
  moves back; `CursorBoundsStore`, `CursorMonotone` and `LeavesInChainOrder` say
  what still holds.
- `SECURITY.md:72` and `ui/sdk/README.md:220` say the guard refuses as soon as
  the network is ahead of the cursor.  `handlers.go:118-121` allows 5 ledgers,
  with a comment that says why.
- `ui/sdk/src/index.ts:260` documents `MnemoxNotFoundError` as "Commitment
  absent from the indexed tree".  Lines 306-308 throw it for every 404 without
  reading the body, so a proxy's 404, or the mux's for a wrong base URL, says
  the same of a commitment that is indexed.
- `ui/sdk/src/index.ts:256-257` documents an optional prefix and 1 to 64 digits;
  the expression at 189 requires `0x` and exactly 64.
- `index.ts:19` and `129` document the timeout as one of the request.  It ends
  with the headers (290), and `getHealth` (377) lets the platform's
  `TimeoutError` through instead of `MnemoxTimeoutError`.
- `index.ts:57` says the commitment of a response is in lower case; the sidecar
  echoes what was asked.  Asked in upper case it finds the leaf but not the
  event, and `event_ledger` is 0 for an event that is stored
  (`LedgerMissingOnlyInUpperCase`).
- `MnemoxFlowComposition.tsx:365` says edges come "leaf→parent, then
  parent→root".  The edges of the second level start at frame 351, before
  leaves 4 to 7 are there, and the root at 401, two frames before the last leaf.
  `TreeGrowsUpward` states what does hold.
- `MnemoxIntro.tsx:116`: at frame 360 every node of the tree is missing, because
  the fade of the last phase starts from zero where the springs of the one
  before ended at one.

## The proofs

All of them hold for every value of the constants that the `ASSUME`s allow: any
chain, window, page, buffer and tree size, and any set of faults.

| Theorem | States |
|---|---|
| `WindowAdvances` | one `fetchPage` always advances, never past what had closed, and ends exactly behind its window or its last event |
| `CrawlTypeCorrect`, `CrawlSkipsNothing`, `CrawlFetchesOnce` | `TypeOK` of `WindowCrawl`, `NothingSkipped`, `NothingFetchedTwice` |
| `TypeCorrect` | `TypeOK` of `Ingestion`, the channel's bound among it |
| `NothingLostSilently` | `NoSilentLoss` |
| `AnchoringLeavesNothingInReach` | where the RPC answers, or its errors are all taken for a stale start: what the cursor has passed from `START_LEDGER` on and the node still has, beyond its `ProbeBuffer` oldest ledgers, is stored or was in a page that failed to save |
| `NothingStoredBeyondCursor`, `CursorNeverMovesBack` | `CursorBoundsStore`, `CursorMonotone`, under every fault |
| `LeavesMirrorTable` | `TreeMirrorsStore` |
| `LeavesFollowTheChain` | `LeavesInChainOrder`, the single rereading included, under every fault |
| `PipelineImplementsIndex` | `ImplementsPermanentIndex`, with a `START_LEDGER` and no faults but crashes and RPC errors that are not taken for a stale start |
| `StoreIsOfTheIndex` | with a `START_LEDGER` and no faults but RPC errors that are not taken for a stale start, crashes and power losses: the tables hold every event that closed from `START_LEDGER` to the cursor, and no other |
| `DiskImplementsIndex` | under the same hypotheses: what is safe on disk implements `PermanentIndex` (`index <- synced.events`, `frontier <- synced.cursor`) |
| `TreeIsOfTheIndex` | under the same hypotheses: between pages the leaves are exactly the commitments from `START_LEDGER` to the cursor |
| `TreeTypeCorrect`, `IndexCorrect` | types and capacity of the tree; `IndexFindsLastLeaf` |
| `RootCorrect`, `InsertCorrect` | `RootIsOfFullTree`; `InsertClimbsToRoot` |
| `PathsVerify`, `PathBinds` | `ProofVerifies`; `PathBindsTree` |
| `ServiceTypeCorrect`, `ServedLeafIsOfItsPath` | `ServiceTypeOK`; `PathOfCommitment` |
| `ProofMissesLittle`, `RootMissesLittle` | `ProofMissesOnePageAtMost`; `RootMissesOnePageAtMost` |
| `ServedTreesAreComplete` | under the hypotheses of `StoreIsOfTheIndex`: the tree of a served path holds every commitment older than the tolerance, but for the page in hand |
| `AnswersMissNothingInReach` | where the RPC answers, or its errors are all taken for a stale start, whatever else fails: a served path or root lacks no commitment that the node still has beyond its `ProbeBuffer` oldest ledgers, but for the page in hand and pages that failed to save |
| `ServedProofsVerify` | `ServedProofVerifies` |
| `BucketBoundsEveryStretch`, `SdkTypeCorrect` | `BurstThenRate`; `SdkTypeOK` |
| `ErrorsTrue`, `ValidatorsAgree` | `TypedErrorsAreTrue`; `NeverBadRequest` |
| `OverdueInBody`, `MissesAreUpperCase`, `WitnessWidth` | `OverdueOnlyInBody`; `LedgerMissingOnlyInUpperCase`; `WitnessIsFixedWidth` |

**The argument of `NothingLostSilently`.**  `NoSilentLoss` relates cursor and
table and says nothing of what is in memory, so it is not inductive: a page in
the channel might hold too little.  `LossInv` follows an event on its way.
Whatever lies before a position of the pipeline is accounted for by what is in
front of that position:

1. before the cursor: stored, failed or skipped (`NoSilentLoss`);
2. before the checkpointed cursor: the same of the checkpointed table, which is
   what a power loss falls back on (`SyncedKept`);
3. before the end of the page being saved: or in that page (`BatchKept`);
4. before the end of the k-th page of the channel: or in one of the first k
   (`PagesKept`);
5. before the ledger to poll next: or in some page; and what has not even closed
   before that ledger is already skipped (`PolledKept`);
6. between that ledger and the end of a window ready to be sent: in the window
   (`SendKept`).

3 to 5 stop holding when the consumer has begun to drain, and need not hold: it
never saves again.  `Bounds` keeps every such end within the closed ledgers, so
that a ledger that closes lies in front of all of them, and `Idle` says that a
process that is not serving has nothing in flight.  The step from a short page
to "the window is complete" is `ShortAnswer`, a cardinality argument; the one
from a window to its end is `WindowEnd`.  TLC agreed to each conjunct before it
was proved.

`PolledKept` speaks of a poller that is `Going`: in a window, or idle and not
cancelled.  A cancelled one asks for no further window, so what its last
re-anchoring passes over is not skipped, and `skipped` says exactly what a run
left out.

**What anchoring leaves out.**  `NoSilentLoss` excuses ledgers anchored past,
and alone says nothing of how many those are.  `AnchorInv` bounds them: where
`oldestAvailableLedger` is answered, it anchors `ProbeBuffer` ledgers inside the
retention window, so every skipped ledger lies before `START_LEDGER`, or the
node has forgotten it, or will within `ProbeBuffer` ledgers
(`OnlyOutOfReachSkipped`; wrapping can only anchor earlier).  Pruning keeps this
true, and `FreshContext` is needed at `StartRun`, because a cancelled context
makes the probe fail.  An error that is merely taken for a stale start does no
harm to the bound, as long as the probe that follows is answered.  With RPC
errors of the other kind (fault `"rpc"`) the bound is false: the probe may fail,
and the fallback to `latest - 100000` may pass over ledgers that the node still
has, or wrap.

**The cursor.**  `SaveBatch` commits whatever cursor its page carries, so
`CursorBoundsStore` and `CursorMonotone` rest on the order of pages in flight.
Without an unreadable cursor and errors taken for a stale start that order is
strict: pages end one behind the other, all behind the cursor, and the poller is
behind them all.  With them it is not, and the invariant is graded: each of its
order claims holds or is excused by `WentBackTo(n)`, that polling has gone back
to ledger `n` or before (`rewound <= n`).  A page that ends no later than one
before it can exist only if polling had gone back to before that end, which is
`After`.

`CursorInv` says so much of a page's events (`Enclosed`), of the pages
(`Ordered`), and of the poller (`Position`): it is `Behind` every page, or at a
ledger the node no longer has.  The second case is what makes a true
re-anchoring safe although `oldestAvailableLedger` may fall back to ledger 1
while pages of higher ledgers wait in the channel: from there no request is
answered until the poller has re-anchored at or beyond the retention window, and
no page in flight ends beyond that window.  A re-anchoring from a ledger the
node does have is recorded in `rewound`, which excuses what it puts out of order
and no more.

**The mirror.**  The gap between table and tree is the page in hand: `Mirrored`
says that, from boot to exit, leaves and `todo` together are the commitments of
the table, in `rebuildTree`, in `processLoop`, and also after a fatal insert,
when `todo` never empties.  `OnChain` is needed because whether an event has a
commitment is read off the chain, which grows.

**The order of the leaves.**  `LeavesInChainOrder` is about what has been
inserted; `InOrder` follows what will be.  An event of a page lies beyond the
pages before it (`Follows`) and beyond the cursor (`New`), but for one ledger
that may be read twice, the one `Run` resumed at (`ReadTwice`), and but for
ledgers that polling went back to.  `PollsNew` says why a true re-anchoring does
not break this: the poller asks for what is new, or for ledgers that the node
has forgotten, and in the latter case the cursor is before all that the node
still has.  When a page is saved, its commitments therefore follow every leaf,
or are excused, and `IsFirst` does the rest.  That the ledger resumed at is not
read a third time is `ReadOnceMore`: as long as it may still come
(`RereadAhead`), the leaves are in order, and its page, once saved, is followed
only by pages behind it.

**The refinement of `PermanentIndex`.**  `IndexInv` adds to the above that no
page failed, no ledger at or beyond `START_LEDGER` was skipped and polling never
went back (`NothingGivenUp`: without pruning the node never refuses, and without
fault `"range"` no other error is taken for it, so the poller never re-anchors,
`NeverReanchors`; with nothing gone back to, the excuses of the graded
invariants are void, `CursorBeforeRewound`), and that everything on its way lies
at `START_LEDGER` or beyond (`FromStart`).  `CloseLedger` is then a step of the
network, and `SaveBatch` one of the index: `BatchKept` of `LossInv` leaves
nothing out up to the new cursor, `CursorBoundsStore` and `OnChain` let nothing
else in, `Ordered` takes the frontier forwards.  Every other step stutters.  The
hypotheses are the ones the promise needs: a failed save (see `lost_page`), a
pruned ledger, an error taken for a stale start, a cursor read as 0 and a power
loss each break it, and without `START_LEDGER` the index does not start at a
known ledger.

**Power losses.**  A power loss takes rows and cursor back, so the tables do not
implement an index that only grows.  Two results say what is left.  `IndexInv`
holds through power losses, because it speaks of the checkpointed state as of
the present one (`StoreIsIndex`); hence `StoreIsOfTheIndex`, and with it
`TreeIsOfTheIndex` and `ServedTreesAreComplete`.  And the checkpointed state
itself only grows: `DurableInv` adds that it is not ahead of the cursor, so
`Checkpoint` is a step of the index and every other step, `PowerLoss` among
them, stutters (`DiskImplementsIndex`).

**The SDK.**  `SdkInv` speaks of one call and its request at a time, so it holds
for any number of them.  It relates the step to the timer (`TimerInv`: only a
body of a proof or of a root is read without one), the step to the response
(`StepInv`), the outcome to the response and the argument (`OutcomeInv`), and
what is under way to the argument it was sent for (`RequestInv`).
`BucketBoundsEveryStretch` is proved of `LimiterSpec`, with the invariant that
tokens and admitted requests together stay within `Burst` and the ticks;
`SdkImplementsLimiter` carries it over to the whole.

**The crawl.**  `CrawlInv` adds that the poller started at a closed ledger and
is at most one past the latest; that one bound keeps every addition below the
wrap except the one `EndLedger` guards.

**The leaf index.**  The invariant is inductive with the types; the case
distinction is between the inserted value and any other.

**Roots and paths.**  Layers, the climb of an insertion and the reference tree
are recursive functions of the level.  The provers cannot instantiate an
induction scheme, but a *set* of levels they can: `LevelInduction` (a set that
has level 0, and with a level the next, has them all) follows from the library's
well-founded minimum.  With it, each recursive function is first shown to
satisfy its definition (the lemmas named `...Def`), and then:

- `RowsExtendLayers`: at every level a row of the full tree is the occupied
  layer followed by zeros of that level; at the top this is `RootCorrect`.
- `PathGoesThroughLayers`: folding a path up to a level gives the entry of that
  layer above the leaf; at the top this is `PathsVerify`.
- `LeavesBindRoot`: trees that agree below agree at the root; together with the
  next lemma, `RootOfGrownTree`: an appended tree has the old root exactly when
  all that was appended is zero.
- `RootBindsLeaves`: equal roots have, level by level, equal rows, hence equal
  leaves; this is where the hash must be free, and what `PathBinds` rests on.
- `InsertCorrect` needs an invariant, because `Insert` never looks at the
  leaves: `FilledSubtreesReady` says that at each level where the next leaf
  climbs as a right child, `filledSubtrees` holds its left sibling.  Elsewhere
  the entry may be stale, which is why the obvious "holds the last complete
  subtree of the level" is not what the proof uses.

**The service.**  `LeavesGrow` says that no step of a living process does
anything to the leaves but append, for which it goes through all actions;
`PathOfCommitment` then survives any step of the pipeline.

What the answers may miss rests on two results about the pipeline taken
together.  `NoSilentLoss` accounts for every event up to the cursor, and
`Mirrored` for every stored commitment, so at the moment a handler reads the
cursor the tree covers it but for `todo` (`CoversCursor`).  `CoverInv` carries
this to the moment the tree is read, and on to the answer: leaves are only
appended to, what failed or was skipped is never forgotten, and what closes
meanwhile lies beyond the ledgers the call is about (`CoversStep`).  The guard
adds the arithmetic: if it passes, the network's ledger less the tolerance is at
most the cursor, wrapping included (`GuardBound`).

`ServedProofsVerify` brings the hashes in.  `SizeInv` keeps the tree within its
capacity and the root's tree within the present leaves, so that `TreesOfCall`
gives both trees of an answer as sequences the lemmas of `MerkleHashProofs`
speak of, the tree of the root extending that of the path.  `PathOfCommitment`
puts the wanted commitment at the index; `PathLeadsToRoot` then takes the path
to the root of its own tree, and `RootOfGrownTree` compares that with the served
one.

`HandlersOnlyRead` lets every theorem about the pipeline be used under the
handlers.  `ServedTreesAreComplete` uses it to put the whole chain together,
from what the network closes to what `handleProof` answers: where
`PermanentIndex` is implemented, nothing has failed or been skipped, and of the
three excuses of `ProofMissesOnePageAtMost` only the page in hand is left.
`AnswersMissNothingInReach` does the same with `AnchorInv` where the node does
prune, saves do fail and polling does go back.

**Assumptions.**  Besides the types of the constants:  `MaxLedger < MaxUint32`
(the chain does not reach the last uint32), and for `ProofService`
`MaxLeaves = 2^Depth` (`Insert` refuses a leaf beyond).  The hash is free.
Hypotheses of single theorems are in the table.

**Only model-checked:**

- liveness and fairness (`EveryLedgerPassed`, `EveryCommitmentIndexed`,
  `CancelledRunEnds`, `EveryCallSettles`), which need `ENABLED`, and that the
  prover does not treat;
- the videos: their constants are concrete, so the run is exhaustive and a
  theorem would say no more; the generator's exclusive or is also out of the
  provers' reach.

## What is not modelled

- `VerifyMonotonicity`: it accepts whatever `SaveBatch` leaves, so `Boot`
  passes. What it overlooks, a row deleted from outside, is in the hazard list.
- `handleEvents` and `GetEvents`: one read of the store, filtered and limited.
- `DEMO_MODE=1` (`server.go:34-39`, `handlers.go:70-73`), which replaces the
  guard by one that always passes and shifts the uptime.  What `ProofService`
  shows of a guarded answer is not claimed of a demo.
- `config.Load`: it reads the environment once; its values are constants here.
- XDR and hexadecimal formats: kinds of events, writings of a commitment.
- Poseidon itself.
- The dashboard: it draws what it last received, and nothing reads it back.  Its
  overlapping polls and the constants it shows when one fails are in the hazard
  list.
- Colours, geometry and easing curves of the videos.  The scenes under
  `ui/src/scenes` with their logo and tree layout: no composition imports them.
- Static pages, styles, demo scripts, CI.

## What could follow

- `VerifyMonotonicity` against tables with missing rows, `GetEvents` against
  ledgers with more events than its limit, the dashboard's overlapping polls.

## Running it

```
tlc -config ingest_faults.cfg MCIngestion
tlapm IngestionProofs.tla
```

The module of each run is in `PROJECT.json`.  No run takes much longer than
two minutes on two workers.
