---------------------------- MODULE MCIngestion ----------------------------
(***************************************************************************)
(* Values for the constants of Ingestion that a cfg cannot write.          *)
(***************************************************************************)
EXTENDS Ingestion

\* Empty ledgers, ledgers with one or two events, with and without leaves.
MixedContents == {<<>>, <<"commitment">>, <<"undecodable", "commitment">>}

\* A ledger is empty or fills more than a page.
SparseContents == {<<>>, <<"undecodable", "commitment">>}

\* Enough commitments per ledger to fill a page and the tree, and a leafless one.
DenseContents == {<<>>, <<"commitment", "commitment">>, <<"undecodable">>}

\* A ledger is empty or a page of two leaves, inserted one after the other.
PairContents == {<<>>, <<"commitment", "commitment">>}

\* At most one leaf per ledger: a page with several spans ledgers.
SingleContents == {<<>>, <<"commitment">>}
=============================================================================
