------------------------------- MODULE MCVM -------------------------------
(* Genesis allocations for the instances of VM. *)
EXTENDS VM, TLC

CONSTANTS a1, a2

\* A supply that fits in a uint64, and one that does not.
MarketAlloc == {(a1 :> 2) @@ (a2 :> 1) @@ (BadKey :> 0)}
TokenAlloc == {(a1 :> 2) @@ (a2 :> 1) @@ (BadKey :> 0), (a1 :> 3) @@ (a2 :> 2) @@ (BadKey :> 1)}
=============================================================================
