----------------------------- MODULE MCNetwork -----------------------------
(* Validators and seed peers for the instance of Network. *)
EXTENDS Network, TLC

CONSTANTS n1, n2

TwoValidators == <<n1, n2>>

\* n2 dials n1.
SeedPeers == (n1 :> {}) @@ (n2 :> {n1})
=============================================================================
