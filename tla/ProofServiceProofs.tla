-------------------------- MODULE ProofServiceProofs --------------------------
(***************************************************************************)
(* Whatever the pipeline does between two reads of a handler: what         *)
(* handleProof found stays where it found it, and neither handler misses   *)
(* more than the page that was being inserted when it read the cursor.     *)
(***************************************************************************)
EXTENDS ProofService, StoreProofs, MerkleHashProofs

\* As long as the process lives, the leaves are only appended to, and only
\* while there is room; they die with it.
LEMMA LeavesGrow ==
  ASSUME TypeOK, [Next]_vars
  PROVE  \/ phase' = "down" /\ leaves' = <<>>
         \/ leaves' = leaves
         \/ ~TreeFull /\ \E e \in EventIds : leaves' = Append(leaves, e)
<1> USE DEF env, disk, polling, working, history
<1>1. CASE RebuildInsert
  BY <1>1 DEF RebuildInsert, TypeOK
<1>2. CASE InsertLeaf
  BY <1>2 DEF InsertLeaf, TypeOK
<1>3. CASE RebuildFails \/ Exit \/ Crash \/ PowerLoss
  BY <1>3 DEF RebuildFails, Exit, Crash, PowerLoss, LoseMemory
<1>4. CASE Boot \/ StartRun \/ Signal \/ CloseLedger \/ Prune \/ Checkpoint
  BY <1>4 DEF Boot, StartRun, Signal, CloseLedger, Prune, Checkpoint
<1>5. CASE Producer
  BY <1>5 DEF Producer, Poll, FetchMore, FetchNothing, FetchLast, Reanchor,
              FetchError, Send, StopPolling
<1>6. CASE Receive \/ SaveBatch \/ SaveFails \/ PageDone \/ InsertFatal
           \/ Drain \/ RunReturns
  BY <1>6 DEF Receive, SaveBatch, SaveFails, PageDone, InsertFatal, Drain,
              RunReturns
<1>7. CASE UNCHANGED vars
  BY <1>7 DEF vars
<1> QED
  BY <1>1, <1>2, <1>3, <1>4, <1>5, <1>6, <1>7
     DEF Next, Process, Consumer, Environment

\* A position once filled keeps its leaf.
LEMMA PositionsKeepLeaves ==
  ASSUME TypeOK, [Next]_vars, phase' # "down"
  PROVE  /\ Len(leaves') >= Len(leaves)
         /\ \A i \in DOMAIN leaves : /\ i \in DOMAIN leaves'
                                     /\ leaves'[i] = leaves[i]
<1>1. leaves \in Seq(EventIds)
  BY DEF TypeOK
<1>2. CASE leaves' = leaves
  BY <1>1, <1>2
<1>3. ASSUME NEW e \in EventIds, leaves' = Append(leaves, e)
      PROVE  /\ Len(leaves') >= Len(leaves)
             /\ \A i \in DOMAIN leaves : /\ i \in DOMAIN leaves'
                                         /\ leaves'[i] = leaves[i]
  BY <1>1, <1>3, AppendProperties
<1> QED
  BY <1>2, <1>3, LeavesGrow

\* FindLeaf answers with a position of the commitment.
LEMMA FoundIsPosition ==
  ASSUME TypeOK, NEW e, PositionsOf(e) # {}
  PROVE  Found(e) \in DOMAIN leaves /\ leaves[Found(e)] = e
<1>1. leaves \in Seq(EventIds) /\ DOMAIN leaves = 1..Len(leaves)
  BY DEF TypeOK
<1>2. /\ PositionsOf(e) \subseteq Nat
      /\ \A i \in PositionsOf(e) : i <= Len(leaves)
      /\ Len(leaves) \in Nat
  BY <1>1 DEF PositionsOf
<1>3. \E i \in PositionsOf(e) : \A j \in PositionsOf(e) : j <= i
  BY <1>2, Greatest
<1>4. Found(e) \in PositionsOf(e)
  BY <1>3 DEF Found
<1> QED
  BY <1>4 DEF PositionsOf

\* The inductive invariant: what a call has found is a position of the tree,
\* and the tree has since only outgrown the one its path was read from.
CallInv ==
  /\ ServiceTypeOK
  /\ PathOfCommitment
  /\ call.at \in {"root", "event", "served"} => call.path <= Len(leaves)

LEMMA CallInit == ServiceInit => CallInv
<1> SUFFICES ASSUME ServiceInit PROVE CallInv
  OBVIOUS
<1>1. TypeOK /\ call = NoCall
  BY TypeInit DEF ServiceInit
<1>2. NoCall \in [at : CallSteps, want : EventIds \cup {NoEvent},
                  network : Uint32, leaf : Nat, path : Nat, root : Nat,
                  ledger : Uint32, pending : SUBSET EventIds]
  BY WindowAssumption DEF NoCall, CallSteps, Uint32
<1>3. call.at = "none"
  BY <1>1 DEF NoCall
<1> QED
  BY <1>1, <1>2, <1>3 DEF CallInv, ServiceTypeOK, PathOfCommitment, At

\* A step of the pipeline under a call, or the end of the process.
LEMMA CallUnderPipeline == CallInv /\ Pipeline => CallInv'
<1> SUFFICES ASSUME CallInv, Pipeline PROVE CallInv'
  OBVIOUS
<1>1. TypeOK /\ [Next]_vars /\ TypeOK'
  BY TypeStep DEF CallInv, ServiceTypeOK, Pipeline
<1>2. CASE phase' = "down"
  <2>1. call' = NoCall
    BY <1>2 DEF Pipeline
  <2>2. call'.at = "none"
    BY <2>1 DEF NoCall
  <2>3. call' \in [at : CallSteps, want : EventIds \cup {NoEvent},
                   network : Uint32, leaf : Nat, path : Nat, root : Nat,
                   ledger : Uint32, pending : SUBSET EventIds]
    BY <2>1, WindowAssumption DEF NoCall, CallSteps, Uint32
  <2> QED
    BY <1>1, <2>2, <2>3 DEF CallInv, ServiceTypeOK, PathOfCommitment, At
<1>3. CASE phase' # "down"
  <2>1. call' = call
    BY <1>3 DEF Pipeline
  <2>2. /\ Len(leaves') >= Len(leaves)
        /\ \A i \in DOMAIN leaves : i \in DOMAIN leaves' /\ leaves'[i] = leaves[i]
    BY <1>1, <1>3, PositionsKeepLeaves
  <2>3. ServiceTypeOK'
    BY <1>1, <1>3, <2>1 DEF CallInv, ServiceTypeOK
  <2>4. PathOfCommitment'
    BY <2>1, <2>2 DEF CallInv, PathOfCommitment
  <2>5. Len(leaves) \in Nat /\ Len(leaves') \in Nat /\ call.path \in Nat
    BY <1>1 DEF CallInv, ServiceTypeOK, TypeOK
  <2>6. call'.at \in {"root", "event", "served"} => call'.path <= Len(leaves')
    BY <2>1, <2>2, <2>5 DEF CallInv
  <2> QED
    BY <2>3, <2>4, <2>6 DEF CallInv
<1> QED
  BY <1>2, <1>3

\* A step of a handler.
LEMMA CallByHandler == CallInv /\ Handler /\ UNCHANGED vars => CallInv'
<1> SUFFICES ASSUME CallInv, Handler, UNCHANGED vars PROVE CallInv'
  OBVIOUS
<1> USE WindowAssumption, IngestionAssumption
<1> DEFINE Calls == [at : CallSteps, want : EventIds \cup {NoEvent},
                     network : Uint32, leaf : Nat, path : Nat, root : Nat,
                     ledger : Uint32, pending : SUBSET EventIds]
<1>0. /\ leaves' = leaves /\ phase' = phase
      /\ [Next]_vars /\ TypeOK /\ TypeOK'
      /\ call \in Calls
      /\ phase = "down" => call.at = "none"
      /\ 0 \in Uint32
  BY TypeStep DEF vars, CallInv, ServiceTypeOK, At, Uint32
<1>1. /\ Len(leaves) \in Nat /\ DOMAIN leaves = 1..Len(leaves)
      /\ Latest \in Uint32 /\ cursor \in Uint32 /\ todo \subseteq EventIds
  <2>1. leaves \in Seq(EventIds) /\ cursor \in Uint32 /\ todo \subseteq EventIds
    BY <1>0 DEF TypeOK
  <2>2. Len(chain) \in 1..MaxLedger
    BY <1>0 DEF TypeOK
  <2>3. Latest \in Uint32
    BY <2>2 DEF Latest, Uint32
  <2> QED
    BY <2>1, <2>3
\* It is enough that the step keeps the type of the call, is not made while
\* the process is down, and leaves the claims about the tree true.
<1>2. ASSUME call' \in Calls, phase # "down", PathOfCommitment',
             call'.at \in {"root", "event", "served"} => call'.path <= Len(leaves)
      PROVE  CallInv'
  BY <1>0, <1>2 DEF CallInv, ServiceTypeOK, At
\* The steps before a leaf is found, the answers, and those of handleRoot.
<1>3. ASSUME call' \in Calls, phase # "down",
             call'.at \notin {"path", "root", "event", "served"}
      PROVE  CallInv'
  BY <1>2, <1>3 DEF PathOfCommitment
<1>4. NoCall \in Calls
  BY <1>0 DEF NoCall, CallSteps
<1>5. CASE ProofRequest
  <2>1. PICK e \in ChainEvents :
          call' = [NoCall EXCEPT !.at = "network", !.want = e]
    BY <1>5 DEF ProofRequest
  <2>2. e \in EventIds
    BY <1>0, <2>1, ChainEventsDef
  <2> QED
    BY <1>3, <1>4, <1>5, <2>1, <2>2 DEF ProofRequest, NoCall, CallSteps
<1>6. CASE ReadNetwork
  BY <1>0, <1>1, <1>3, <1>6 DEF ReadNetwork, At, CallSteps
<1>7. CASE GuardPasses
  BY <1>0, <1>1, <1>3, <1>7 DEF GuardPasses, At, CallSteps, BeingInserted
<1>8. CASE GuardRefuses \/ NotFound
  <2>1. phase # "down" /\ call'.at \in {"refused", "absent"} /\ call' \in Calls
    <3>1. phase # "down"
      BY <1>0, <1>8 DEF GuardRefuses, NotFound, At
    <3>2. call' \in Calls /\ call'.at \in {"refused", "absent"}
      BY <1>4, <1>8 DEF GuardRefuses, NotFound, AnswerError, NoCall, CallSteps
    <3> QED
      BY <3>1, <3>2
  <2> QED
    BY <1>3, <2>1
<1>9. CASE FindLeaf
  <2>1. Found(call.want) \in DOMAIN leaves /\ leaves[Found(call.want)] = call.want
    BY <1>0, <1>9, FoundIsPosition DEF FindLeaf
  <2>2. PICK position \in Nat : position = Found(call.want)
    BY <1>1, <2>1
  <2>3. /\ call' \in Calls /\ phase # "down" /\ call'.at = "path"
        /\ call'.leaf = position /\ call'.want = call.want
    BY <1>0, <1>9, <2>2 DEF FindLeaf, At, CallSteps
  <2>4. PathOfCommitment'
    BY <1>0, <2>1, <2>2, <2>3 DEF PathOfCommitment
  <2> QED
    BY <1>2, <2>3, <2>4
<1>10. CASE ReadPath
  <2>1. /\ call' \in Calls /\ phase # "down" /\ call'.at = "root"
        /\ call'.path = Len(leaves)
        /\ call'.leaf = call.leaf /\ call'.want = call.want
    BY <1>0, <1>1, <1>10 DEF ReadPath, At, CallSteps
  <2>2. call.leaf \in DOMAIN leaves /\ leaves[call.leaf] = call.want
    BY <1>10 DEF ReadPath, At, CallInv, PathOfCommitment
  <2>3. PathOfCommitment'
    BY <1>0, <1>1, <2>1, <2>2 DEF PathOfCommitment
  <2> QED
    BY <1>1, <1>2, <2>1, <2>3
<1>11. CASE ReadRoot
  <2>1. /\ call' \in Calls /\ phase # "down" /\ call'.at = "event"
        /\ call'.root = Len(leaves) /\ call'.path = call.path
        /\ call'.leaf = call.leaf /\ call'.want = call.want
    BY <1>0, <1>1, <1>11 DEF ReadRoot, At, CallSteps
  <2>2. /\ call.leaf \in DOMAIN leaves /\ leaves[call.leaf] = call.want
        /\ call.leaf <= call.path /\ call.path <= Len(leaves)
    BY <1>11 DEF ReadRoot, At, CallInv, PathOfCommitment
  <2>3. PathOfCommitment'
    BY <1>0, <2>1, <2>2 DEF PathOfCommitment
  <2> QED
    BY <1>2, <2>1, <2>2, <2>3
<1>12. CASE ReadEvent
  <2>1. PICK canonical \in BOOLEAN :
          call' = [call EXCEPT !.at = "served",
            !.ledger = IF canonical /\ call.want \in events
                       THEN Ledger(call.want) ELSE 0]
    BY <1>12 DEF ReadEvent
  <2>2. \A e \in events : Ledger(e) \in Uint32
    <3>1. events \subseteq EventIds
      BY <1>0 DEF TypeOK
    <3>2. \A e \in EventIds : Ledger(e) \in 1..MaxLedger
      BY DEF EventIds, Ledger
    <3> QED
      BY <3>1, <3>2 DEF Uint32
  <2>3. /\ call' \in Calls /\ phase # "down" /\ call'.at = "served"
        /\ call'.root = call.root /\ call'.path = call.path
        /\ call'.leaf = call.leaf /\ call'.want = call.want
    BY <1>0, <1>12, <2>1, <2>2 DEF ReadEvent, At, CallSteps
  <2>4. /\ call.leaf \in DOMAIN leaves /\ leaves[call.leaf] = call.want
        /\ call.leaf <= call.path /\ call.path <= Len(leaves)
        /\ call.path <= call.root
    BY <1>12 DEF ReadEvent, At, CallInv, PathOfCommitment
  <2>5. PathOfCommitment'
    BY <1>0, <2>3, <2>4 DEF PathOfCommitment
  <2> QED
    BY <1>2, <2>3, <2>4, <2>5
<1>13. CASE RootRequest
  BY <1>3, <1>4, <1>13 DEF RootRequest, NoCall, CallSteps
<1>14. CASE RootReadCursor
  <2>1. PICK c \in CursorReads :
          call' = [call EXCEPT !.at = "rootTree", !.ledger = c,
                               !.pending = BeingInserted]
    BY <1>14 DEF RootReadCursor
  <2>2. c \in Uint32
    BY <1>0, <1>1 DEF CursorReads
  <2> QED
    BY <1>0, <1>1, <1>3, <1>14, <2>1, <2>2
       DEF RootReadCursor, At, CallSteps, BeingInserted
<1>15. CASE RootReadRoot
  BY <1>0, <1>1, <1>3, <1>15 DEF RootReadRoot, At, CallSteps
<1>16. CASE RootReadCount
  BY <1>0, <1>1, <1>3, <1>16 DEF RootReadCount, At, CallSteps
<1>17. CASE Respond
  BY <1>0, <1>3, <1>4, <1>17 DEF Respond, Answered, NoCall, CallSteps
<1> QED
  BY <1>5, <1>6, <1>7, <1>8, <1>9, <1>10, <1>11, <1>12, <1>13, <1>14, <1>15,
     <1>16, <1>17 DEF Handler

LEMMA CallStep == CallInv /\ [ServiceNext]_serviceVars => CallInv'
<1> SUFFICES ASSUME CallInv, UNCHANGED serviceVars PROVE CallInv'
  BY CallUnderPipeline, CallByHandler DEF ServiceNext
<1>1. TypeOK' /\ leaves' = leaves /\ phase' = phase /\ call' = call
  BY TypeStep DEF serviceVars, vars, CallInv, ServiceTypeOK
<1> QED
  BY <1>1 DEF CallInv, ServiceTypeOK, PathOfCommitment, At

\* The calls keep their types, and none outlives the process.
THEOREM ServiceTypeCorrect == ServiceSpec => []ServiceTypeOK
<1>1. CallInv => ServiceTypeOK
  BY DEF CallInv
<1> QED
  BY <1>1, CallInit, CallStep, PTL DEF ServiceSpec

\* In whatever order pipeline and handler interleave, for every size of the
\* buffers and every fault: the leaf a proof is served for is a leaf of the
\* tree of its path, at the index it names, and the root is not older.
THEOREM ServedLeafIsOfItsPath == ServiceSpec => []PathOfCommitment
<1>1. CallInv => PathOfCommitment
  BY DEF CallInv
<1> QED
  BY <1>1, CallInit, CallStep, PTL DEF ServiceSpec
-----------------------------------------------------------------------------
(***************************************************************************)
(* What the trees of the answers cover                                     *)
(*                                                                         *)
(* When a handler reads the cursor, all the commitments up to it are       *)
(* stored, failed or skipped (LossInv), and what is stored is a leaf or    *)
(* still to be inserted (Mirrored).  From then on leaves are only          *)
(* appended, and new ledgers close beyond the one the handler asks for.    *)
(***************************************************************************)

\* No step forgets what failed or was skipped, and what it closes is new.
LEMMA HistoryGrows ==
  ASSUME TypeOK, [Next]_vars
  PROVE  /\ failed \subseteq failed' /\ skipped \subseteq skipped'
         /\ Latest \in Nat /\ Latest <= Latest'
         /\ \A e \in ChainEvents' :
              \/ Ledger(e) = Latest + 1
              \/ e \in ChainEvents /\ HasCommitment(e)' = HasCommitment(e)
<1> USE DEF env, disk, polling, working, history
<1>1. failed \subseteq failed' /\ skipped \subseteq skipped'
  <2>1. CASE Process \/ Environment
    BY <2>1 DEF Process, Environment, Boot, RebuildInsert, RebuildFails,
       StartRun, Signal, Exit, CloseLedger, Prune, Crash, Checkpoint, PowerLoss
  <2>2. CASE Producer
    BY <2>2 DEF Producer, Poll, FetchMore, FetchNothing, FetchLast, Reanchor,
       FetchError, Send, StopPolling
  <2>3. CASE Consumer
    BY <2>3 DEF Consumer, Receive, SaveBatch, SaveFails, InsertLeaf, PageDone,
       InsertFatal, Drain, RunReturns
  <2>4. CASE UNCHANGED vars
    BY <2>4 DEF vars
  <2> QED
    BY <2>1, <2>2, <2>3, <2>4 DEF Next
<1>2. CloseLedger \/ UNCHANGED chain
  <2>1. CASE Process \/ Environment
    BY <2>1 DEF Process, Environment, Boot, RebuildInsert, RebuildFails,
       StartRun, Signal, Exit, Prune, Crash, Checkpoint, PowerLoss
  <2>2. CASE Producer
    BY <2>2 DEF Producer, Poll, FetchMore, FetchNothing, FetchLast, Reanchor,
       FetchError, Send, StopPolling
  <2>3. CASE Consumer
    BY <2>3 DEF Consumer, Receive, SaveBatch, SaveFails, InsertLeaf, PageDone,
       InsertFatal, Drain, RunReturns
  <2>4. CASE UNCHANGED vars
    BY <2>4 DEF vars
  <2> QED
    BY <2>1, <2>2, <2>3, <2>4 DEF Next
<1>3. \A e \in ChainEvents : HasCommitment(e)' = HasCommitment(e)
  BY <1>2, ChainKept
<1>4. /\ Len(chain) \in Nat /\ Len(chain) <= Len(chain')
      /\ \A e \in ChainEvents' : e \in ChainEvents \/ Ledger(e) = Len(chain) + 1
  <2>1. Len(chain) \in Nat /\ DOMAIN chain = 1..Len(chain)
    BY DEF TypeOK
  <2>2. CASE UNCHANGED chain
    BY <2>1, <2>2 DEF ChainEvents
  <2>3. CASE CloseLedger
    <3>1. PICK contents \in LedgerContents : chain' = Append(chain, contents)
      BY <2>3 DEF CloseLedger
    <3>2. /\ Len(chain') = Len(chain) + 1 /\ DOMAIN chain' = 1..(Len(chain) + 1)
          /\ \A l \in 1..Len(chain) : chain'[l] = chain[l]
      BY <3>1, AppendProperties DEF TypeOK
    <3>3. ASSUME NEW e \in ChainEvents'
          PROVE  e \in ChainEvents \/ Ledger(e) = Len(chain) + 1
      <4>1. PICK l \in DOMAIN chain' : \E i \in DOMAIN chain'[l] : e = <<l, i>>
        BY DEF ChainEvents
      <4>2. CASE l \in DOMAIN chain
        BY <2>1, <3>2, <4>1, <4>2 DEF ChainEvents
      <4>3. CASE l = Len(chain) + 1
        BY <2>1, <4>1, <4>3 DEF Ledger
      <4> QED
        BY <2>1, <3>2, <4>1, <4>2, <4>3
    <3> QED
      BY <2>1, <3>2, <3>3
  <2> QED
    BY <1>2, <2>2, <2>3
<1> QED
  BY <1>1, <1>3, <1>4 DEF Latest

\* A tree that covers a closed ledger goes on covering it, as do the larger
\* ones.
LEMMA CoversStep ==
  ASSUME TypeOK, [Next]_vars, phase' # "down",
         NEW ledger \in Int, ledger <= Latest,
         NEW n \in 0..Len(leaves), NEW m \in Nat, n <= m, NEW except,
         TreeCovers(ledger, n, except)
  PROVE  TreeCovers(ledger, m, except)'
<1>1. /\ Len(leaves) \in Nat /\ Len(leaves') \in Nat
      /\ DOMAIN leaves = 1..Len(leaves) /\ DOMAIN leaves' = 1..Len(leaves')
  BY TypeStep DEF TypeOK
<1>2. /\ Len(leaves') >= Len(leaves)
      /\ \A i \in DOMAIN leaves : leaves'[i] = leaves[i]
  BY PositionsKeepLeaves
<1>3. ASSUME NEW e \in ChainEvents', HasCommitment(e)', Ledger(e) <= ledger
      PROVE  \/ \E i \in 1..m : leaves'[i] = e
             \/ e \in except \cup failed'
             \/ Ledger(e) \in skipped'
  <2>1. e \in ChainEvents /\ HasCommitment(e)
    BY <1>3, HistoryGrows
  <2>2. \/ \E i \in 1..n : leaves[i] = e
        \/ e \in except \cup failed
        \/ Ledger(e) \in skipped
    BY <1>3, <2>1 DEF TreeCovers
  <2>3. \A i \in 1..n : i \in 1..m /\ leaves'[i] = leaves[i]
    BY <1>1, <1>2
  <2> QED
    BY <2>2, <2>3, HistoryGrows
<1> QED
  BY <1>3 DEF TreeCovers, Ledger

\* What a tree covers is a matter of the chain, the leaves and the history.
LEMMA CoversUnchanged ==
  UNCHANGED vars =>
    \A ledger, n, except :
      TreeCovers(ledger, n, except)' = TreeCovers(ledger, n, except)
<1> SUFFICES ASSUME UNCHANGED vars, NEW ledger, NEW n, NEW except
             PROVE  TreeCovers(ledger, n, except)' = TreeCovers(ledger, n, except)
  OBVIOUS
<1>1. /\ chain' = chain /\ leaves' = leaves /\ failed' = failed
      /\ skipped' = skipped
  BY DEF vars, env, history
<1>2. ChainEvents' = ChainEvents
  BY <1>1 DEF ChainEvents
<1>3. \A e : HasCommitment(e)' = HasCommitment(e)
  BY <1>1 DEF HasCommitment, Kind, Ledger, Index
<1> QED
  BY <1>1, <1>2, <1>3 DEF TreeCovers, Ledger

\* What covers a ledger covers the older ones.
LEMMA CoversLess ==
  ASSUME TypeOK, NEW newer \in Int, NEW older \in Int, older <= newer,
         NEW n, NEW except, TreeCovers(newer, n, except)
  PROVE  TreeCovers(older, n, except)
<1>1. \A e \in ChainEvents : Ledger(e) \in Nat
  BY ChainEventsDef DEF TypeOK
<1> QED
  BY <1>1 DEF TreeCovers

\* The tree covers the cursor, but for what is being inserted.
LEMMA CoversCursor ==
  ASSUME MirrorInv, phase # "down"
  PROVE  TreeCovers(cursor, Len(leaves), todo)
<1>1. NoSilentLoss /\ TypeOK /\ Range(leaves) \cup todo = Committed
  BY DEF MirrorInv, LossInv, Mirrored
<1>2. DOMAIN leaves = 1..Len(leaves)
  BY <1>1 DEF TypeOK
<1>3. ASSUME NEW e \in ChainEvents, HasCommitment(e), Ledger(e) <= cursor
      PROVE  \/ \E i \in 1..Len(leaves) : leaves[i] = e
             \/ e \in todo \cup failed
             \/ Ledger(e) \in skipped
  <2>1. e \in events \cup failed \/ Ledger(e) \in skipped
    BY <1>1, <1>3 DEF NoSilentLoss
  <2>2. e \in events => e \in Range(leaves) \cup todo
    BY <1>1, <1>3 DEF Committed
  <2>3. e \in Range(leaves) => \E i \in 1..Len(leaves) : leaves[i] = e
    BY <1>2 DEF Range
  <2> QED
    BY <2>1, <2>2, <2>3
<1> QED
  BY <1>3 DEF TreeCovers

\* The steps of the handlers once they have read the cursor, and the tree.
Guarded   == {"find", "path"}
PathRead  == {"root", "event", "served"}
TreeKnown == {"rootCount", "rootServed"}

\* The inductive invariant: what a call will rely on when it reads the tree is
\* already covered by the tree there is.
CoverInv ==
  /\ CallInv /\ MirrorInv
  /\ call.at \in {"cursor"} \cup Guarded \cup PathRead => call.network <= Latest
  /\ call.at \in Guarded =>
       TreeCovers(call.network - Tolerance, Len(leaves), call.pending)
  /\ call.at \in PathRead => call.path <= Len(leaves)
  /\ ProofMissesOnePageAtMost
  /\ call.at \in {"rootTree"} \cup TreeKnown => call.ledger <= Latest
  /\ call.at = "rootTree" => TreeCovers(call.ledger, Len(leaves), call.pending)
  /\ call.at \in TreeKnown => call.root <= Len(leaves)
  /\ RootMissesOnePageAtMost

LEMMA CoverInit == ServiceInit => CoverInv
<1> SUFFICES ASSUME ServiceInit PROVE CoverInv
  OBVIOUS
<1>1. CallInv /\ MirrorInv
  BY CallInit, MirrorInit DEF ServiceInit
<1>2. call.at = "none"
  BY DEF ServiceInit, NoCall
<1> QED
  BY <1>1, <1>2 DEF CoverInv, Guarded, PathRead, TreeKnown,
     ProofMissesOnePageAtMost, RootMissesOnePageAtMost

\* The fields of a call are numbers.
CallNumbersHold ==
  /\ call.network \in Nat /\ call.ledger \in Nat
  /\ call.path \in Nat /\ call.root \in Nat
  /\ Tolerance \in Nat /\ call.network - Tolerance \in Int
  /\ call.network - Tolerance <= call.network
  /\ Len(leaves) \in Nat /\ Latest \in Nat

LEMMA CallNumbers == CallInv => CallNumbersHold
<1> SUFFICES ASSUME CallInv PROVE CallNumbersHold
  OBVIOUS
<1>1. /\ call.network \in Uint32 /\ call.ledger \in Uint32
      /\ call.path \in Nat /\ call.root \in Nat
  BY DEF CallInv, ServiceTypeOK
<1>2. Len(leaves) \in Nat /\ Latest \in Nat
  BY DEF CallInv, ServiceTypeOK, TypeOK, Latest
<1> QED
  BY <1>1, <1>2, ServiceAssumption, WindowAssumption DEF Uint32, CallNumbersHold

\* Under a call the pipeline only adds to the tree, the chain and the history.
LEMMA CoverUnderPipeline == CoverInv /\ Pipeline => CoverInv'
<1> SUFFICES ASSUME CoverInv, Pipeline PROVE CoverInv'
  OBVIOUS
<1>1. CallInv' /\ MirrorInv'
  BY CallUnderPipeline, MirrorStep DEF CoverInv, Pipeline
<1>2. CASE phase' = "down"
  <2>1. call'.at = "none"
    BY <1>2 DEF Pipeline, NoCall
  <2> QED
    BY <1>1, <2>1 DEF CoverInv, Guarded, PathRead, TreeKnown,
       ProofMissesOnePageAtMost, RootMissesOnePageAtMost
<1>3. CASE phase' # "down"
  <2>1. call' = call /\ [Next]_vars /\ TypeOK
    BY <1>3 DEF Pipeline, CoverInv, CallInv, ServiceTypeOK
  <2>2. /\ Latest \in Nat /\ Latest' \in Nat /\ Latest <= Latest'
        /\ Len(leaves) \in Nat /\ Len(leaves') \in Nat
        /\ Len(leaves) <= Len(leaves')
    <3>1. TypeOK'
      BY <2>1, TypeStep
    <3> QED
      BY <1>3, <2>1, <3>1, HistoryGrows, PositionsKeepLeaves DEF TypeOK, Latest
  <2>3. CallNumbersHold
    BY CallNumbers DEF CoverInv, CallNumbersHold
  \* Names for the values that the call and the tree have before the step.
  <2>4. PICK network \in Nat, ledger \in Nat, path \in Nat, root \in Nat :
          /\ network = call.network /\ ledger = call.ledger
          /\ path = call.path /\ root = call.root
    BY <2>3 DEF CallNumbersHold
  <2>5. PICK bound \in Int : bound = call.network - Tolerance /\ bound <= network
    BY <2>3, <2>4 DEF CallNumbersHold
  <2>6. PICK pending : pending = call.pending
    OBVIOUS
  <2>7. PICK n \in Nat, m \in Nat : n = Len(leaves) /\ m = Len(leaves') /\ n <= m
    BY <2>2
  <2>8. ASSUME call.at \in Guarded
        PROVE  TreeCovers(bound, m, pending)'
    <3>1. network <= Latest /\ TreeCovers(bound, n, pending)
      BY <2>4, <2>5, <2>6, <2>7, <2>8 DEF CoverInv
    <3>2. bound <= Latest /\ n \in 0..Len(leaves)
      BY <2>2, <2>4, <2>5, <2>7, <3>1
    <3> QED
      BY <1>3, <2>1, <2>7, <3>1, <3>2, CoversStep
  <2>9. ASSUME call.at \in PathRead
        PROVE  path <= m /\ TreeCovers(bound, path, pending)'
    <3>1. network <= Latest /\ path <= n /\ TreeCovers(bound, path, pending)
      BY <2>4, <2>5, <2>6, <2>7, <2>9
         DEF CoverInv, ProofMissesOnePageAtMost, PathRead
    <3>2. bound <= Latest /\ path \in 0..Len(leaves) /\ path <= m /\ path <= path
      BY <2>2, <2>4, <2>5, <2>7, <3>1
    <3>3. TreeCovers(bound, path, pending)'
      BY <1>3, <2>1, <2>4, <3>1, <3>2, CoversStep
    <3> QED
      BY <3>2, <3>3
  <2>10. ASSUME call.at = "rootTree"
         PROVE  TreeCovers(ledger, m, pending)'
    <3>1. ledger <= Latest /\ TreeCovers(ledger, n, pending)
      BY <2>4, <2>6, <2>7, <2>10 DEF CoverInv
    <3>2. ledger \in Int /\ n \in 0..Len(leaves)
      BY <2>4, <2>7
    <3> QED
      BY <1>3, <2>1, <2>7, <3>1, <3>2, CoversStep
  <2>11. ASSUME call.at \in TreeKnown
         PROVE  root <= m /\ TreeCovers(ledger, root, pending)'
    <3>1. ledger <= Latest /\ root <= n /\ TreeCovers(ledger, root, pending)
      BY <2>4, <2>6, <2>7, <2>11
         DEF CoverInv, RootMissesOnePageAtMost, TreeKnown
    <3>2. ledger \in Int /\ root \in 0..Len(leaves) /\ root <= m /\ root <= root
      BY <2>4, <2>7, <3>1
    <3>3. TreeCovers(ledger, root, pending)'
      BY <1>3, <2>1, <2>4, <3>1, <3>2, CoversStep
    <3> QED
      BY <3>2, <3>3
  <2>12. /\ call.at \in {"cursor"} \cup Guarded \cup PathRead => network <= Latest'
         /\ call.at \in {"rootTree"} \cup TreeKnown => ledger <= Latest'
    BY <2>2, <2>4 DEF CoverInv
  \* The same values are those of the call after the step.
  <2>13. /\ call'.network - Tolerance = bound /\ call'.network = network
         /\ call'.ledger = ledger /\ call'.path = path /\ call'.root = root
         /\ call'.pending = pending /\ call'.at = call.at /\ Len(leaves') = m
    BY <2>1, <2>4, <2>5, <2>6, <2>7
  <2>14. /\ call'.at \in Guarded =>
              TreeCovers(call.network - Tolerance, Len(leaves), call.pending)'
         /\ call'.at \in PathRead =>
              TreeCovers(call.network - Tolerance, call.path, call.pending)'
         /\ call'.at = "rootTree" =>
              TreeCovers(call.ledger, Len(leaves), call.pending)'
         /\ call'.at \in TreeKnown =>
              TreeCovers(call.ledger, call.root, call.pending)'
    BY <2>8, <2>9, <2>10, <2>11, <2>13 DEF TreeCovers
  <2>15. /\ call'.at \in {"cursor"} \cup Guarded \cup PathRead =>
              call'.network <= Latest'
         /\ call'.at \in {"rootTree"} \cup TreeKnown => call'.ledger <= Latest'
         /\ call'.at \in PathRead => call'.path <= Len(leaves')
         /\ call'.at \in TreeKnown => call'.root <= Len(leaves')
    BY <2>9, <2>11, <2>12, <2>13
  <2> QED
    BY <1>1, <2>14, <2>15
       DEF CoverInv, ProofMissesOnePageAtMost, RootMissesOnePageAtMost,
           PathRead, TreeKnown
<1> QED
  BY <1>2, <1>3

\* The guard opens only when the cursor is within the tolerance.
LEMMA GuardBound ==
  ASSUME TypeOK, NEW network \in Uint32, ~LagExceeds(network, cursor)
  PROVE  network - Tolerance <= cursor
<1>1. network \in Nat /\ cursor \in Nat /\ Tolerance \in Nat /\ MaxUint32 \in Nat
  BY ServiceAssumption, WindowAssumption DEF TypeOK, Uint32
<1>2. network <= Wrap(cursor + Tolerance)
  BY <1>1 DEF LagExceeds, Wrap
<1>3. Wrap(cursor + Tolerance) <= cursor + Tolerance
  BY <1>1 DEF Wrap
<1>4. Wrap(cursor + Tolerance) \in Int
  BY <1>1 DEF Wrap
<1> QED
  BY <1>1, <1>2, <1>3, <1>4

\* A step of a handler: it reads the network before the cursor, the cursor
\* before the tree, and the tree is then as large as it is now.
LEMMA CoverByHandler == CoverInv /\ Handler /\ UNCHANGED vars => CoverInv'
<1> SUFFICES ASSUME CoverInv, Handler, UNCHANGED vars PROVE CoverInv'
  OBVIOUS
<1>0. /\ CallInv' /\ MirrorInv' /\ TypeOK /\ CallNumbersHold
      /\ leaves' = leaves /\ Latest' = Latest
      /\ call.at # "none" => phase # "down"
      /\ \A ledger, n, except :
           TreeCovers(ledger, n, except)' = TreeCovers(ledger, n, except)
  <2>1. CallInv' /\ MirrorInv'
    BY CallByHandler, MirrorStep DEF CoverInv
  <2>2. /\ TypeOK /\ CallNumbersHold
        /\ leaves' = leaves /\ Latest' = Latest
        /\ call.at # "none" => phase # "down"
    BY CallNumbers DEF CoverInv, CallInv, ServiceTypeOK, At, Latest, vars, env
  <2>3. \A ledger, n, except :
          TreeCovers(ledger, n, except)' = TreeCovers(ledger, n, except)
    BY CoversUnchanged
  <2> QED
    BY <2>1, <2>2, <2>3
<1>1. \A n \in Nat : n <= n
  OBVIOUS
<1>2. call \in [at : CallSteps, want : EventIds \cup {NoEvent},
                network : Uint32, leaf : Nat, path : Nat, root : Nat,
                ledger : Uint32, pending : SUBSET EventIds]
  BY DEF CoverInv, CallInv, ServiceTypeOK
\* The steps that claim nothing of the tree.
<1>3. ASSUME call'.at \notin {"cursor", "rootTree"} \cup Guarded
                               \cup PathRead \cup TreeKnown
      PROVE  CoverInv'
  BY <1>0, <1>3 DEF CoverInv, ProofMissesOnePageAtMost, RootMissesOnePageAtMost,
     PathRead, TreeKnown
<1>4. CASE ProofRequest \/ RootRequest
  BY <1>3, <1>4 DEF ProofRequest, RootRequest, NoCall, Guarded, PathRead,
     TreeKnown
<1>5. CASE GuardRefuses \/ NotFound
  BY <1>3, <1>5 DEF GuardRefuses, NotFound, AnswerError, NoCall, Guarded,
     PathRead, TreeKnown
<1>6. CASE Respond
  BY <1>3, <1>6 DEF Respond, NoCall, Guarded, PathRead, TreeKnown
<1>7. CASE ReadNetwork
  <2>1. call'.at = "cursor" /\ call'.network = Latest
    BY <1>2, <1>7 DEF ReadNetwork
  <2> QED
    BY <1>0, <1>1, <2>1 DEF CoverInv, CallNumbersHold, Guarded, PathRead,
       TreeKnown, ProofMissesOnePageAtMost, RootMissesOnePageAtMost
<1>8. CASE GuardPasses
  <2>1. /\ call.at = "cursor" /\ ~LagExceeds(call.network, cursor)
        /\ call'.at = "find" /\ call'.network = call.network
        /\ call'.pending = todo
    BY <1>2, <1>8 DEF GuardPasses, At, BeingInserted
  <2>2. TreeCovers(cursor, Len(leaves), todo)
    BY <1>0, <2>1, CoversCursor DEF CoverInv
  <2>3. call.network \in Uint32 /\ call.network - Tolerance <= cursor
    BY <1>0, <1>2, <2>1, GuardBound
  <2>4. TreeCovers(call.network - Tolerance, Len(leaves), todo)
    <3>1. cursor \in Int /\ call.network - Tolerance \in Int
      BY <1>0, WindowAssumption DEF TypeOK, Uint32, CallNumbersHold
    <3> QED
      BY <1>0, <2>2, <2>3, <3>1, CoversLess
  <2>5. call.network <= Latest
    BY <2>1 DEF CoverInv
  <2> QED
    BY <1>0, <2>1, <2>4, <2>5 DEF CoverInv, Guarded, PathRead,
       TreeKnown, ProofMissesOnePageAtMost, RootMissesOnePageAtMost
<1>9. CASE FindLeaf
  <2>1. /\ call.at = "find" /\ call'.at = "path" /\ call'.network = call.network
        /\ call'.pending = call.pending
    BY <1>2, <1>9 DEF FindLeaf, At
  <2> QED
    BY <1>0, <2>1 DEF CoverInv, Guarded, PathRead,
       TreeKnown, ProofMissesOnePageAtMost, RootMissesOnePageAtMost
<1>10. CASE ReadPath
  <2>1. /\ call.at = "path" /\ call'.at = "root" /\ call'.network = call.network
        /\ call'.pending = call.pending /\ call'.path = Len(leaves)
    BY <1>2, <1>10 DEF ReadPath, At
  <2> QED
    BY <1>0, <1>1, <2>1 DEF CoverInv, CallNumbersHold, Guarded, PathRead,
       TreeKnown, ProofMissesOnePageAtMost, RootMissesOnePageAtMost
<1>11. CASE ReadRoot \/ ReadEvent
  <2>1. /\ call.at \in {"root", "event"} /\ call'.at \in {"event", "served"}
        /\ call'.network = call.network /\ call'.pending = call.pending
        /\ call'.path = call.path
    BY <1>2, <1>11 DEF ReadRoot, ReadEvent, At
  <2> QED
    BY <1>0, <2>1 DEF CoverInv, Guarded, PathRead,
       TreeKnown, ProofMissesOnePageAtMost, RootMissesOnePageAtMost
<1>12. CASE RootReadCursor
  <2>0. PICK c \in CursorReads :
          call' = [call EXCEPT !.at = "rootTree", !.ledger = c,
                               !.pending = BeingInserted]
    BY <1>12 DEF RootReadCursor
  <2>1. /\ call.at = "rootCursor" /\ call'.at = "rootTree"
        /\ call'.ledger = c /\ call'.pending = todo
    BY <1>2, <1>12, <2>0 DEF RootReadCursor, At, BeingInserted
  <2>4. cursor \in Nat /\ cursor <= Latest /\ c \in {0, cursor}
    BY <1>0, PageEnds
       DEF CoverInv, MirrorInv, LossInv, Bounds, Latest, CursorReads
  <2>2. TreeCovers(c, Len(leaves), todo)
    <3>1. TreeCovers(cursor, Len(leaves), todo)
      BY <1>0, <2>1, CoversCursor DEF CoverInv
    <3> QED
      BY <1>0, <2>4, <3>1, CoversLess
  <2>3. c <= Latest
    <3>1. Latest \in Nat
      BY <1>0 DEF TypeOK, Latest
    <3> QED
      BY <2>4, <3>1
  <2> QED
    BY <1>0, <2>1, <2>2, <2>3 DEF CoverInv, Guarded, PathRead,
       TreeKnown, ProofMissesOnePageAtMost, RootMissesOnePageAtMost
<1>13. CASE RootReadRoot
  <2>1. /\ call.at = "rootTree" /\ call'.at = "rootCount"
        /\ call'.ledger = call.ledger /\ call'.pending = call.pending
        /\ call'.root = Len(leaves)
    BY <1>2, <1>13 DEF RootReadRoot, At
  <2> QED
    BY <1>0, <1>1, <2>1 DEF CoverInv, CallNumbersHold, Guarded, PathRead,
       TreeKnown, ProofMissesOnePageAtMost, RootMissesOnePageAtMost
<1>14. CASE RootReadCount
  <2>1. /\ call.at = "rootCount" /\ call'.at = "rootServed"
        /\ call'.ledger = call.ledger /\ call'.pending = call.pending
        /\ call'.root = call.root
    BY <1>2, <1>14 DEF RootReadCount, At
  <2> QED
    BY <1>0, <2>1 DEF CoverInv, Guarded, PathRead,
       TreeKnown, ProofMissesOnePageAtMost, RootMissesOnePageAtMost
<1> QED
  BY <1>4, <1>5, <1>6, <1>7, <1>8, <1>9, <1>10, <1>11, <1>12, <1>13, <1>14
     DEF Handler

LEMMA CoverStep == CoverInv /\ [ServiceNext]_serviceVars => CoverInv'
<1> SUFFICES ASSUME CoverInv, UNCHANGED serviceVars PROVE CoverInv'
  BY CoverUnderPipeline, CoverByHandler DEF ServiceNext
<1>1. CallInv' /\ MirrorInv' /\ call' = call /\ leaves' = leaves
      /\ Latest' = Latest
  BY CallStep, MirrorStep DEF CoverInv, serviceVars, vars, env, Latest
<1>2. \A ledger, n, except :
        TreeCovers(ledger, n, except)' = TreeCovers(ledger, n, except)
  BY CoversUnchanged DEF serviceVars
<1> QED
  BY <1>1, <1>2 DEF CoverInv, ProofMissesOnePageAtMost, RootMissesOnePageAtMost

\* What syncLagExceedsTolerance buys a client of handleProof, for every size
\* of the buffers, every tolerance and every fault: the tree of a served path
\* holds all the commitments older than the tolerance, but for those of the
\* page that was being inserted when the guard read the cursor, those of a page
\* that could not be saved, and those of ledgers the anchor went past.
THEOREM ProofMissesLittle == ServiceSpec => []ProofMissesOnePageAtMost
<1>1. CoverInv => ProofMissesOnePageAtMost
  BY DEF CoverInv
<1> QED
  BY <1>1, CoverInit, CoverStep, PTL DEF ServiceSpec

\* Because handleRoot reads the cursor before the tree, the ledger it reports
\* promises no more than the root holds, with the same exceptions.
THEOREM RootMissesLittle == ServiceSpec => []RootMissesOnePageAtMost
<1>1. CoverInv => RootMissesOnePageAtMost
  BY DEF CoverInv
<1> QED
  BY <1>1, CoverInit, CoverStep, PTL DEF ServiceSpec
-----------------------------------------------------------------------------
(***************************************************************************)
(* What a client gets                                                      *)
(***************************************************************************)

\* Under the handlers the pipeline behaves as it does alone.
LEMMA HandlersOnlyRead == ServiceSpec => Spec
<1>1. ServiceInit => Init
  BY DEF ServiceInit
<1>2. [ServiceNext]_serviceVars => [Next]_vars
  BY DEF ServiceNext, Pipeline, serviceVars
<1> QED
  BY <1>1, <1>2, PTL DEF ServiceSpec, Spec

\* The tree of a served path holds every commitment from START_LEDGER to the
\* tolerance before the network's ledger, but for the page in hand.
ServedTreeComplete ==
  call.at \in {"root", "event", "served"} =>
    \A e \in ChainEvents :
      /\ HasCommitment(e)
      /\ StartLedger <= Ledger(e) /\ Ledger(e) <= call.network - Tolerance
      => e \in call.pending \/ \E i \in 1..call.path : leaves[i] = e

\* End to end, from the ledgers the network closes to the answer of
\* handleProof: where no save fails, the node prunes nothing, no RPC error is
\* taken for a stale start and the cursor can be read, the one excuse left for
\* a missing commitment is that its page was being inserted when the guard
\* read the cursor.
THEOREM ServedTreesAreComplete ==
  ASSUME StartLedger # 0, Faults \subseteq {"rpc", "crash", "power"}
  PROVE  ServiceSpec => []ServedTreeComplete
<1>1. IndexInv /\ [Next]_vars => IndexInv'
  BY IndexStep
<1>2. Spec => []IndexInv
  BY IndexInit, <1>1, PTL DEF Spec
<1>3. IndexInv /\ ProofMissesOnePageAtMost => ServedTreeComplete
  <2> SUFFICES ASSUME IndexInv, ProofMissesOnePageAtMost, NEW e \in ChainEvents,
                      call.at \in {"root", "event", "served"}, HasCommitment(e),
                      StartLedger <= Ledger(e),
                      Ledger(e) <= call.network - Tolerance
               PROVE  e \in call.pending \/ \E i \in 1..call.path : leaves[i] = e
    BY DEF ServedTreeComplete
  <2>1. TypeOK /\ StartLedger \in Nat
    BY IngestionAssumption, WindowAssumption
       DEF IndexInv, OrderInv, CursorInv, LossInv, Uint32
  <2>2. Ledger(e) \in Nat
    BY <2>1, ChainEventsDef, OrderNumbers
  <2>3. failed = {} /\ Ledger(e) \notin skipped
    BY <2>1, <2>2 DEF IndexInv, NothingGivenUp
  <2> QED
    BY <2>3 DEF ProofMissesOnePageAtMost, TreeCovers
<1> QED
  BY <1>2, <1>3, HandlersOnlyRead, ProofMissesLittle, PTL

\* Neither answer lacks a commitment that a client could still read from the
\* node, but for those of the page in hand and of pages that failed to save.
AnswersHoldReach ==
  \A e \in ChainEvents :
    HasCommitment(e) /\ StartLedger <= Ledger(e)
      /\ oldest + ProbeBuffer <= Ledger(e) =>
      /\ call.at \in {"root", "event", "served"}
           /\ Ledger(e) <= call.network - Tolerance =>
           \/ \E i \in 1..call.path : leaves[i] = e
           \/ e \in call.pending \cup failed
      /\ call.at \in {"rootCount", "rootServed"} /\ Ledger(e) <= call.ledger =>
           \/ \E i \in 1..call.root : leaves[i] = e
           \/ e \in call.pending \cup failed

\* Also where the node prunes, the cursor cannot be read and no START_LEDGER
\* is set: as long as the RPC answers, or its errors are all taken for a stale
\* start, what a served path or root lacks beside those pages is, or is about
\* to be, out of the node's reach too.
THEOREM AnswersMissNothingInReach ==
  ASSUME "rpc" \notin Faults
  PROVE  ServiceSpec => []AnswersHoldReach
<1>1. AnchorInv /\ [Next]_vars => AnchorInv'
  BY AnchorStep
<1>2. Spec => []AnchorInv
  BY AnchorInit, <1>1, PTL DEF Spec
<1>3. ASSUME AnchorInv, ProofMissesOnePageAtMost, RootMissesOnePageAtMost
      PROVE  AnswersHoldReach
  <2>1. ASSUME NEW e \in ChainEvents, StartLedger <= Ledger(e),
               oldest + ProbeBuffer <= Ledger(e)
        PROVE  Ledger(e) \notin skipped
    <3>1. /\ Ledger(e) \in Nat /\ oldest \in Nat /\ ProbeBuffer \in Nat
          /\ StartLedger \in Nat
      BY <1>3, ChainEventsDef, ProbeIsNear, IngestionAssumption
         DEF AnchorInv, LossInv, Uint32
    <3> QED
      BY <1>3, <2>1, <3>1 DEF AnchorInv, OnlyOutOfReachSkipped, OutOfReach
  <2> QED
    BY <1>3, <2>1 DEF AnswersHoldReach, ProofMissesOnePageAtMost,
       RootMissesOnePageAtMost, TreeCovers
<1> QED
  BY <1>2, <1>3, HandlersOnlyRead, ProofMissesLittle, RootMissesLittle, PTL
-----------------------------------------------------------------------------
(***************************************************************************)
(* What a served proof is worth                                            *)
(*                                                                         *)
(* The lemmas of MerkleHash speak of sequences of leaves no longer than    *)
(* the capacity of the tree; those of a call are prefixes of the leaves.   *)
(***************************************************************************)

\* The tree stays within its capacity, and the leaves outgrow the tree of
\* the root as they do that of the path.
SizeInv ==
  /\ Len(leaves) <= MaxLeaves
  /\ call.at \in {"event", "served"} => call.root <= Len(leaves)

LEMMA SizeInit == ServiceInit => SizeInv
<1> SUFFICES ASSUME ServiceInit PROVE SizeInv
  OBVIOUS
<1>1. leaves = <<>> /\ call.at = "none"
  BY DEF ServiceInit, Init, NoCall
<1>2. Len(leaves) = 0
  BY <1>1
<1> QED
  BY <1>1, <1>2, IngestionAssumption DEF SizeInv

LEMMA LeavesFit ==
  ASSUME TypeOK, [Next]_vars, Len(leaves) <= MaxLeaves
  PROVE  Len(leaves') <= MaxLeaves
<1> USE IngestionAssumption
<1>1. leaves \in Seq(EventIds) /\ Len(leaves) \in Nat
  BY DEF TypeOK
<1>2. CASE leaves' = <<>>
  <2>1. Len(leaves') = 0
    BY <1>2
  <2> QED
    BY <2>1
<1>3. ASSUME NEW e \in EventIds, ~TreeFull, leaves' = Append(leaves, e)
      PROVE  Len(leaves') <= MaxLeaves
  <2>1. Len(leaves') = Len(leaves) + 1
    BY <1>1, <1>3, AppendProperties
  <2> QED
    BY <1>1, <1>3, <2>1 DEF TreeFull
<1> QED
  BY <1>2, <1>3, LeavesGrow

LEMMA SizeStep == CallInv /\ SizeInv /\ [ServiceNext]_serviceVars => SizeInv'
<1> SUFFICES ASSUME CallInv, SizeInv, [ServiceNext]_serviceVars PROVE SizeInv'
  OBVIOUS
<1>1. TypeOK /\ TypeOK' /\ [Next]_vars
  BY TypeStep DEF CallInv, ServiceTypeOK, ServiceNext, Pipeline, serviceVars
<1>2. Len(leaves') <= MaxLeaves
  BY <1>1, LeavesFit DEF SizeInv
<1>3. Len(leaves) \in Nat /\ Len(leaves') \in Nat /\ call.root \in Nat
  BY <1>1 DEF TypeOK, CallInv, ServiceTypeOK
<1>4. CASE Pipeline
  <2>1. CASE phase' = "down"
    <3>1. call'.at = "none"
      BY <1>4, <2>1 DEF Pipeline, NoCall
    <3> QED
      BY <1>2, <3>1 DEF SizeInv
  <2>2. CASE phase' # "down"
    <3>1. call' = call /\ Len(leaves') >= Len(leaves)
      BY <1>1, <1>4, <2>2, PositionsKeepLeaves DEF Pipeline
    <3> QED
      BY <1>2, <1>3, <3>1 DEF SizeInv
  <2> QED
    BY <2>1, <2>2
<1>5. CASE Handler /\ UNCHANGED vars
  <2>1. leaves' = leaves
    BY <1>5 DEF vars
  <2>2. CASE ProofRequest \/ GuardRefuses \/ NotFound \/ RootRequest \/ Respond
    <3>1. call'.at \in {"network", "refused", "absent", "rootCursor", "none"}
      <4>1. CASE ProofRequest
        BY <4>1 DEF ProofRequest, NoCall
      <4>2. CASE GuardRefuses \/ NotFound
        BY <4>2 DEF GuardRefuses, NotFound, AnswerError, NoCall
      <4>3. CASE RootRequest \/ Respond
        BY <4>3 DEF RootRequest, Respond, NoCall
      <4> QED
        BY <2>2, <4>1, <4>2, <4>3
    <3> QED
      BY <1>2, <3>1 DEF SizeInv
  <2>3. CASE ReadNetwork \/ GuardPasses \/ FindLeaf \/ ReadPath \/ RootReadCursor
             \/ RootReadRoot \/ RootReadCount
    <3>1. call \in [at : CallSteps, want : EventIds \cup {NoEvent},
                    network : Uint32, leaf : Nat, path : Nat, root : Nat,
                    ledger : Uint32, pending : SUBSET EventIds]
      BY DEF CallInv, ServiceTypeOK
    <3>2. call'.at \in {"cursor", "find", "path", "root", "rootTree",
                        "rootCount", "rootServed"}
      BY <2>3, <3>1 DEF ReadNetwork, GuardPasses, FindLeaf, ReadPath,
         RootReadCursor, RootReadRoot, RootReadCount
    <3> QED
      BY <1>2, <3>2 DEF SizeInv
  <2>4. CASE ReadRoot
    <3>1. call'.root = Len(leaves)
      BY <2>4 DEF ReadRoot, CallInv, ServiceTypeOK
    <3> QED
      BY <1>2, <1>3, <2>1, <3>1 DEF SizeInv
  <2>5. CASE ReadEvent
    <3>1. call'.root = call.root /\ call.at = "event"
      BY <2>5 DEF ReadEvent, At, CallInv, ServiceTypeOK
    <3> QED
      BY <1>2, <2>1, <3>1 DEF SizeInv
  <2> QED
    BY <1>5, <2>2, <2>3, <2>4, <2>5 DEF Handler
<1>6. CASE UNCHANGED serviceVars
  BY <1>2, <1>6 DEF SizeInv, serviceVars, vars
<1> QED
  BY <1>4, <1>5, <1>6 DEF ServiceNext

\* What the tree functions make of the trees of a call.
LEMMA TreesOfCall ==
  ASSUME NEW k \in Nat, NEW n \in Nat, NEW i \in 1..k, k <= n, n <= Capacity
  PROVE  LET reached == Climb(Value[leaves[i]], i - 1, Proof(TreeOf(k), i - 1))[Depth]
         IN  /\ reached = ComputeRoot(TreeOf(k))
             /\ reached = ComputeRoot(TreeOf(n)) <=>
                  \A j \in (k + 1)..n : Value[leaves[j]] = 0
<1> DEFINE S == {Value[leaves[j]] : j \in 1..n}
<1>1. Capacity \in Nat
  BY CapacityPositive
<1>2. /\ TreeOf(k) \in Seq(S) /\ Len(TreeOf(k)) = k
      /\ \A j \in 1..k : TreeOf(k)[j] = Value[leaves[j]]
  BY DEF TreeOf
<1>3. /\ TreeOf(n) \in Seq(S) /\ Len(TreeOf(n)) = n
      /\ \A j \in 1..n : TreeOf(n)[j] = Value[leaves[j]]
  BY DEF TreeOf
<1> HIDE DEF S
<1>4. Climb(Value[leaves[i]], i - 1, Proof(TreeOf(k), i - 1))[Depth] =
        ComputeRoot(TreeOf(k))
  <2>1. i - 1 \in 0..(Len(TreeOf(k)) - 1) /\ Len(TreeOf(k)) <= Capacity
    BY <1>1, <1>2
  <2>2. TreeOf(k)[(i - 1) + 1] = Value[leaves[i]]
    BY <1>2
  <2>3. Climb(TreeOf(k)[(i - 1) + 1], i - 1, Proof(TreeOf(k), i - 1))[Depth] =
          ComputeRoot(TreeOf(k))
    BY <1>2, <2>1, PathLeadsToRoot
  <2> QED
    BY <2>2, <2>3
<1>5. ComputeRoot(TreeOf(k)) = ComputeRoot(TreeOf(n)) <=>
        \A j \in (k + 1)..n : TreeOf(n)[j] = 0
  <2>1. \A j \in 1..Len(TreeOf(k)) : TreeOf(k)[j] = TreeOf(n)[j]
    BY <1>2, <1>3
  <2>2. Len(TreeOf(k)) <= Len(TreeOf(n)) /\ Len(TreeOf(n)) <= Capacity
    BY <1>2, <1>3
  <2>3. ComputeRoot(TreeOf(k)) = ComputeRoot(TreeOf(n)) <=>
          \A j \in (Len(TreeOf(k)) + 1)..Len(TreeOf(n)) : TreeOf(n)[j] = 0
    BY <1>2, <1>3, <2>1, <2>2, RootOfGrownTree
  <2> QED
    BY <1>2, <1>3, <2>3
<1>6. \A j \in (k + 1)..n : TreeOf(n)[j] = Value[leaves[j]]
  BY <1>3
<1> QED
  BY <1>4, <1>5, <1>6

\* In whatever order pipeline and handler interleave, for every depth, every
\* commitments and every fault: the path that handleProof serves leads from the
\* commitment asked for to the root of the tree it was read from, and to the
\* root served with it exactly when every leaf inserted in between is zero.
THEOREM ServedProofsVerify == ServiceSpec => []ServedProofVerifies
<1>1. CallInv /\ SizeInv => ServedProofVerifies
  <2> SUFFICES ASSUME CallInv, SizeInv, call.at = "served"
               PROVE  ServedProofVerifies
    BY DEF ServedProofVerifies
  <2>1. /\ call.path \in Nat /\ call.root \in Nat /\ Len(leaves) \in Nat
        /\ DOMAIN leaves = 1..Len(leaves) /\ call.leaf \in Nat
    BY DEF CallInv, ServiceTypeOK, TypeOK
  <2>2. /\ call.leaf \in DOMAIN leaves /\ leaves[call.leaf] = call.want
        /\ call.leaf <= call.path /\ call.path <= call.root
    BY DEF CallInv, PathOfCommitment
  <2>3. call.leaf \in 1..call.path /\ call.root <= Capacity
    BY <2>1, <2>2, CapacityPositive, ServiceAssumption DEF SizeInv
  <2>4. PICK k \in Nat, n \in Nat, i \in Nat :
          k = call.path /\ n = call.root /\ i = call.leaf
    BY <2>1
  <2>5. LET reached == Climb(Value[leaves[i]], i - 1, Proof(TreeOf(k), i - 1))[Depth]
        IN  /\ reached = ComputeRoot(TreeOf(k))
            /\ reached = ComputeRoot(TreeOf(n)) <=>
                 \A j \in (k + 1)..n : Value[leaves[j]] = 0
    BY <2>2, <2>3, <2>4, TreesOfCall
  <2>6. leaves[i] = call.want
    BY <2>2, <2>4
  <2> QED
    BY <2>4, <2>5, <2>6, Zenon DEF ServedProofVerifies
<1> QED
  BY <1>1, CallInit, CallStep, SizeInit, SizeStep, PTL DEF ServiceSpec
=============================================================================
