----------------------------- MODULE MCStateDB -----------------------------
(* One account and one asset, two values, snapshots two deep. *)
EXTENDS StateDB
=============================================================================
