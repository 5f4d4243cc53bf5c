------------------------------- MODULE Lists -------------------------------
(***************************************************************************)
(* The loop with which core/mempool.go and indexer/indexer.go rebuild a    *)
(* list without some of its elements.  It is a recursive function, not     *)
(* SelectSeq, so that DataLemmas can say what it computes.                 *)
(***************************************************************************)
EXTENDS Integers, Sequences

\* The elements of list that are in keep, in their order: filtered[i] is the
\* new list after i rounds of the loop.
Filtered(list, keep) ==
    LET filtered[i \in 0 .. Len(list)] ==
          IF i = 0 THEN << >>
          ELSE IF list[i] \in keep THEN Append(filtered[i - 1], list[i])
          ELSE filtered[i - 1]
    IN  filtered[Len(list)]
=============================================================================
