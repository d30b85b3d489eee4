----------------------------- MODULE MCIndexer -----------------------------
(***************************************************************************)
(* A small instance of Indexer: one transaction with two logs.             *)
(***************************************************************************)
EXTENDS Indexer

CONSTANT t1

MCTxs == {t1}
=============================================================================
