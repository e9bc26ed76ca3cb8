--------------------------- MODULE MCProofService ---------------------------
(***************************************************************************)
(* The instance of ProofService that TLC checks, with the ledger contents  *)
(* of MCIngestion.                                                         *)
(***************************************************************************)
EXTENDS ProofService, MCIngestion

\* Distinct commitments; the first one in ledger 2 is the field's zero.
LedgerValues == [e \in EventIds |-> IF e = <<2, 1>> THEN 0 ELSE 2 * Ledger(e) + Index(e)]
=============================================================================
