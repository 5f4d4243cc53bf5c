---------------------------- MODULE MCPeerTable ----------------------------
(* The addresses and the seed peer's ID for the instance of PeerTable: the    *)
(* second connection comes from the address of the first.                     *)
EXTENDS PeerTable, TLC

CONSTANTS o1, a1, a2, a3, s1

Addresses == 1 :> a1 @@ 2 :> a1 @@ 3 :> a2 @@ 4 :> a3

SeedIds == o1 :> s1
=============================================================================
