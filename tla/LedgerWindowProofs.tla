-------------------------- MODULE LedgerWindowProofs --------------------------
(***************************************************************************)
(* Facts about the window arithmetic, for every window size and every      *)
(* width of the ledger numbers.                                            *)
(***************************************************************************)
EXTENDS LedgerWindow, TLAPS

\* The reduction modulo 2^32 of a small overshoot is a uint32 value, and
\* changes nothing in range.
LEMMA WrapType ==
  ASSUME NEW n \in -(MaxUint32 + 1)..(2 * MaxUint32 + 1)
  PROVE  Wrap(n) \in Uint32 /\ (n \in Uint32 => Wrap(n) = n)
BY WindowAssumption DEF Wrap, Uint32

\* A window of a closed ledger is not empty, and stays within what has
\* closed unless the overflow guard opens it.
LEMMA WindowNotEmpty ==
  ASSUME NEW from \in Uint32, NEW to \in Uint32, from <= to
  PROVE  /\ EndLedger(from, to) \in Uint32
         /\ EndLedger(from, to) >= from
         /\ EndLedger(from, to) <= to \/ EndLedger(from, to) = MaxUint32
BY WindowAssumption DEF EndLedger, Lesser, Uint32

\* fetchPage always moves on: the next ledger is after the one it started
\* from and after the last event, does not pass what had closed, and ends
\* exactly behind the last event or the window.
THEOREM WindowAdvances ==
  ASSUME NEW from \in Uint32, NEW to \in Uint32, from <= to, to < MaxUint32,
         NEW last \in from..to
  PROVE  LET next == NextFrom(EndLedger(from, to), last)
         IN  /\ next \in (from + 1)..(to + 1)
             /\ next > last
             /\ BatchCursor(next) = next - 1
             /\ \/ next = last + 1
                \/ /\ next = EndLedger(from, to) + 1
                   /\ EndLedger(from, to) >= last
                   /\ EndLedger(from, to) <= to
<1> DEFINE end == EndLedger(from, to)
<1>1. end \in Uint32 /\ end >= from /\ (end <= to \/ end = MaxUint32)
  BY WindowNotEmpty
<1>2. Wrap(last + 1) = last + 1
  BY WindowAssumption DEF Wrap, Uint32
<1>3. Wrap(end + 1) = IF end = MaxUint32 THEN 0 ELSE end + 1
  BY <1>1, WindowAssumption DEF Wrap, Uint32
<1>4. NextFrom(end, last) = IF end <= to /\ end > last THEN end + 1 ELSE last + 1
  <2>1. CASE end = MaxUint32
    BY <1>2, <1>3, <2>1, WindowAssumption DEF NextFrom, Greater, Uint32
  <2>2. CASE end # MaxUint32
    BY <1>1, <1>2, <1>3, <2>2, WindowAssumption DEF NextFrom, Greater, Uint32
  <2> QED BY <2>1, <2>2
<1> QED
  BY <1>1, <1>4, WindowAssumption DEF BatchCursor, Wrap, Uint32
=============================================================================
