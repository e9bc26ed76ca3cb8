---------------------------- MODULE LedgerWindow ----------------------------
(***************************************************************************)
(* The ledger arithmetic of the ingestion pipeline                         *)
(* (internal/ingestion/streamer.go): the window one poll asks for, the     *)
(* ledger the next poll starts from, the cursor a page commits, and the    *)
(* ledger the streamer anchors at when it has no usable cursor.            *)
(*                                                                         *)
(* Ledger numbers are Go uint32 values.  Wrap is the reduction modulo 2^32 *)
(* of a result that overshoots by less than one turn, the only kind these  *)
(* expressions produce.                                                    *)
(***************************************************************************)
EXTENDS Integers

CONSTANTS
  MaxUint32,      \* math.MaxUint32
  WindowSize,     \* windowSize in fetchPage: 9999
  ProbeBuffer,    \* the 10 ledgers added to a probed OldestLedger
  FallbackDepth   \* the 100000 ledgers subtracted when the probe fails

ASSUME WindowAssumption ==
  /\ MaxUint32 \in Nat \ {0}
  /\ WindowSize \in 0..MaxUint32
  /\ ProbeBuffer \in 0..MaxUint32
  /\ FallbackDepth \in 0..MaxUint32

Uint32 == 0..MaxUint32

\* Mutant: ledgers are unbounded integers.
WrapNever(n) == n
Wrap(n) == IF n < 0 THEN n + (MaxUint32 + 1)
           ELSE IF n > MaxUint32 THEN n - (MaxUint32 + 1)
           ELSE n

Lesser(a, b)  == IF a < b THEN a ELSE b
Greater(a, b) == IF a > b THEN a ELSE b

(***************************************************************************)
(* fetchPage.  The window is [from, min(to, from + 9999)]; near the end of *)
(* the uint32 range it is open ended.  The next poll starts after the      *)
(* window, or after the last event if pagination ran past the window.      *)
(* Mutants: the overflow guard is missing, the latest closed ledger does   *)
(* not bound the window; the last event is ignored, the increment is.      *)
(***************************************************************************)
EndLedgerUnguarded(from, to) == Lesser(to, Wrap(from + WindowSize))
EndLedgerUnclosed(from, to) ==
  IF from > MaxUint32 - WindowSize THEN MaxUint32 ELSE from + WindowSize
EndLedger(from, to) ==
  IF from > MaxUint32 - WindowSize THEN MaxUint32
  ELSE Lesser(to, from + WindowSize)

NextFromWindowOnly(end, last) == Wrap(end + 1)
NextFromReread(end, last) == Greater(end, last)
NextFrom(end, last) == Greater(Wrap(end + 1), Wrap(last + 1))

\* The cursor processLoop commits with a page: page.nextFrom - 1.
\* Mutant: the next ledger to read is committed as read.
BatchCursorAhead(nextFrom) == nextFrom
BatchCursor(nextFrom) == Wrap(nextFrom - 1)

\* The two ledgers oldestAvailableLedger computes from what the RPC says.
FallbackLedger(latest) == Wrap(latest - FallbackDepth)
ProbedLedger(oldest)   == Wrap(oldest + ProbeBuffer)
=============================================================================
