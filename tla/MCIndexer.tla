----------------------------- MODULE MCIndexer -----------------------------
(* The genesis allocation for the instance of Indexer. *)
EXTENDS Indexer, TLC

CONSTANTS a1, a2

IndexerAlloc == {(a1 :> 1) @@ (a2 :> 1) @@ (BadKey :> 0)}
=============================================================================
