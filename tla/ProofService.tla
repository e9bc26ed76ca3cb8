----------------------------- MODULE ProofService -----------------------------
(***************************************************************************)
(* The two handlers that serve the tree, handleProof and handleRoot        *)
(* (internal/server/handlers.go), over the pipeline that grows it.         *)
(*                                                                         *)
(* A handler takes no lock of its own.  Every read it makes of the RPC, of *)
(* SQLite or of the tree is one step, and the pipeline may take any number *)
(* of steps between two of them.  Handlers write nothing, so one call at a *)
(* time shows all that several could.                                      *)
(*                                                                         *)
(* A root or a path that a call holds is represented by the number of      *)
(* leaves of the tree it was computed from: within a process the leaves    *)
(* are only appended to.  The hashes themselves are those of MerkleHash,   *)
(* over the field elements that the commitments stand for.  Commitments of *)
(* distinct events are taken to be distinct values.                        *)
(***************************************************************************)
EXTENDS Ingestion, MerkleHash

CONSTANTS
  Tolerance,  \* toleranceLedgers of syncLagExceedsTolerance: 5
  Value       \* the field element of a commitment event, by id

\* Insert refuses a leaf once the tree holds 1 << depth.
ASSUME ServiceAssumption ==
  /\ Tolerance \in Uint32
  /\ MaxLeaves = Capacity

VARIABLE call  \* the handler call in progress

serviceVars == <<vars, call>>

NoEvent == <<0, 0>>
NoCall == [at |-> "none", want |-> NoEvent, network |-> 0,
           leaf |-> 0, path |-> 0, root |-> 0, ledger |-> 0,
           pending |-> {}]

At(step) == call.at = step
AnswerError(status) == call' = [NoCall EXCEPT !.at = status]

\* The commitments that SaveBatch has made durable and that are not leaves
\* yet, for ever if an insert was fatal.  A call records them when it reads
\* the cursor (history).
BeingInserted == todo
-----------------------------------------------------------------------------
(***************************************************************************)
(* GET /tree/proof/:commitment                                             *)
(***************************************************************************)
ProofRequest ==
  /\ At("none")
  /\ phase = "serving"
  /\ \E e \in ChainEvents :
       /\ HasCommitment(e)
       /\ call' = [NoCall EXCEPT !.at = "network", !.want = e]

\* assertSyncState, first half: GetLatestLedger.
ReadNetwork ==
  /\ At("network")
  /\ call' = [call EXCEPT !.at = "cursor", !.network = Latest]

\* syncLagExceedsTolerance.  Mutant: the boundary ledger passes.
LagExceedsLate(network, local) == network > Wrap(local + Tolerance) + 1
LagExceeds(network, local) == network > Wrap(local + Tolerance)

\* assertSyncState, second half: GetCursor and the comparison.
GuardPasses ==
  /\ At("cursor")
  /\ ~LagExceeds(call.network, cursor)
  /\ call' = [call EXCEPT !.at = "find", !.pending = BeingInserted]

\* 503 DESYNC_LAG_PROTECTION: the RPC does not answer, the cursor cannot be
\* read, or it lags.
GuardRefuses ==
  /\ \/ At("network") /\ "rpc" \in Faults
     \/ At("cursor") /\ "cursor" \in Faults
     \/ At("cursor") /\ LagExceeds(call.network, cursor)
  /\ AnswerError("refused")

\* The positions of a leaf; FindLeaf returns the last of them.  Mutant: the
\* position recorded by Insert is taken after the append.
PositionsOf(e) == {i \in DOMAIN leaves : leaves[i] = e}
FoundAfterAppend(e) ==
  (CHOOSE i \in PositionsOf(e) : \A j \in PositionsOf(e) : j <= i) + 1
Found(e) == CHOOSE i \in PositionsOf(e) : \A j \in PositionsOf(e) : j <= i

FindLeaf ==
  /\ At("find")
  /\ PositionsOf(call.want) # {}
  /\ call' = [call EXCEPT !.at = "path", !.leaf = Found(call.want)]

\* 404.
NotFound ==
  /\ At("find")
  /\ PositionsOf(call.want) = {}
  /\ AnswerError("absent")

ReadPath ==
  /\ At("path")
  /\ call' = [call EXCEPT !.at = "root", !.path = Len(leaves)]

ReadRoot ==
  /\ At("root")
  /\ call' = [call EXCEPT !.at = "event", !.root = Len(leaves)]

\* GetEventByValue compares strings, and the store holds bare lower-case
\* hex.  The other forms that pass the SDK or the hex check of handleProof
\* (upper case, 0x prefix, no leading zeros) find the leaf, since FindLeaf
\* normalises its argument, but no row: event_ledger stays zero.  The form the
\* client wrote matters nowhere else, so it is chosen here.
ReadEvent ==
  /\ At("event")
  /\ \E canonical \in BOOLEAN :
       call' = [call EXCEPT !.at = "served",
         !.ledger = IF canonical /\ call.want \in events
                    THEN Ledger(call.want) ELSE 0]
-----------------------------------------------------------------------------
(***************************************************************************)
(* GET /tree/root                                                          *)
(***************************************************************************)
RootRequest ==
  /\ At("none")
  /\ phase = "serving"
  /\ call' = [NoCall EXCEPT !.at = "rootCursor"]

\* The error of GetCursor is dropped: the root is reported as of ledger 0.
RootReadCursor ==
  /\ At("rootCursor")
  /\ \E c \in CursorReads :
       call' = [call EXCEPT !.at = "rootTree", !.ledger = c,
                            !.pending = BeingInserted]

RootReadRoot ==
  /\ At("rootTree")
  /\ call' = [call EXCEPT !.at = "rootCount", !.root = Len(leaves)]

RootReadCount ==
  /\ At("rootCount")
  /\ call' = [call EXCEPT !.at = "rootServed", !.path = Len(leaves)]
-----------------------------------------------------------------------------
Answered == call.at \in {"served", "refused", "absent", "rootServed"}

Respond == Answered /\ call' = NoCall

Handler ==
  \/ ProofRequest \/ ReadNetwork \/ GuardPasses \/ GuardRefuses
  \/ FindLeaf \/ NotFound \/ ReadPath \/ ReadRoot \/ ReadEvent
  \/ RootRequest \/ RootReadCursor \/ RootReadRoot \/ RootReadCount
  \/ Respond

\* A step of the pipeline or the process; the calls die with the process.
Pipeline == Next /\ call' = IF phase' = "down" THEN NoCall ELSE call

ServiceInit == Init /\ call = NoCall
ServiceNext == Pipeline \/ (Handler /\ UNCHANGED vars)
ServiceSpec == ServiceInit /\ [][ServiceNext]_serviceVars

\* A handler that was called runs to its answer.
ServiceFairSpec ==
  /\ ServiceSpec /\ Fairness
  /\ WF_serviceVars(Handler /\ ~At("none") /\ UNCHANGED vars)
-----------------------------------------------------------------------------
CallSteps == {"none", "network", "cursor", "find", "path", "root", "event",
              "served", "refused", "absent",
              "rootCursor", "rootTree", "rootCount", "rootServed"}

\* The type of a call; the pipeline keeps its own.
ServiceTypeOK ==
  /\ TypeOK
  /\ call \in [at : CallSteps, want : EventIds \cup {NoEvent},
               network : Uint32, leaf : Nat, path : Nat, root : Nat,
               ledger : Uint32, pending : SUBSET EventIds]
  /\ phase = "down" => At("none")

\* What handleProof found stays where it found it while the pipeline inserts
\* on: the leaf index is a position of the wanted commitment, inside the tree
\* of the path, which is not newer than the tree of the root.
PathOfCommitment ==
  /\ call.at \in {"path", "root", "event", "served"} =>
       call.leaf \in DOMAIN leaves /\ leaves[call.leaf] = call.want
  /\ call.at \in {"root", "event", "served"} => call.leaf <= call.path
  /\ call.at \in {"event", "served"} => call.path <= call.root

\* The tree a handler saw when it held n leaves.
TreeOf(n) == [i \in 1..n |-> Value[leaves[i]]]

\* What a client finds who hashes the leaf along the served path: the root of
\* the tree the path was read from, which is the served root exactly when the
\* leaves inserted between the two reads are zeros, as empty positions are.
ServedProofVerifies ==
  call.at = "served" =>
    LET reached == Climb(Value[call.want], call.leaf - 1,
                         Proof(TreeOf(call.path), call.leaf - 1))[Depth]
    IN  /\ reached = ComputeRoot(TreeOf(call.path))
        /\ reached = ComputeRoot(TreeOf(call.root)) <=>
             \A i \in (call.path + 1)..call.root : Value[leaves[i]] = 0

\* Every commitment up to a ledger is among the first n leaves, but for those
\* in except, in a page that failed to save, or in a ledger anchored past.
TreeCovers(ledger, n, except) ==
  \A e \in ChainEvents :
    HasCommitment(e) /\ Ledger(e) <= ledger =>
      \/ \E i \in 1..n : leaves[i] = e
      \/ e \in except \cup failed
      \/ Ledger(e) \in skipped

\* What the guard of handleProof buys: the tree of a served path misses no
\* commitment older than the tolerance, but for those of the one page that
\* was being inserted while the guard read the cursor.
ProofMissesOnePageAtMost ==
  call.at \in {"root", "event", "served"} =>
    TreeCovers(call.network - Tolerance, call.path, call.pending)

\* handleRoot reads the cursor before the tree: the root it returns misses no
\* commitment up to the ledger it reports, but for that same page.
RootMissesOnePageAtMost ==
  call.at \in {"rootCount", "rootServed"} =>
    TreeCovers(call.ledger, call.root, call.pending)

\* NoirWitnessPath: the root is the one "at the moment the proof was
\* generated": path and root belong to one tree.
PathAndRootOfOneTree == call.at = "served" => call.path = call.root

\* MnemoxDesyncError: "The ingestion loop re-synchronises automatically": if
\* the process stays up, a refused caller finds the guard open some time
\* later.
Resynchronises ==
  <>[](phase = "serving") =>
    (At("refused") ~> ~LagExceeds(Latest, cursor))
=============================================================================
