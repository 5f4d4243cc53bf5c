------------------------------- MODULE Ledger -------------------------------
(***************************************************************************)
(* What the nodes of a network promise together: every genesis block grows *)
(* one ledger, to which blocks are only ever appended, and what a node     *)
(* holds is a prefix of one ledger that only ever gets longer.             *)
(***************************************************************************)
EXTENDS Integers, Sequences

CONSTANTS Node, None

VARIABLES
    log,    \* the ledger each node founded, empty when it founded none
    home,   \* the founder of the ledger a node follows, or None
    kept    \* how much of that ledger the node holds

vars == <<log, home, kept>>

\* At most one ledger is there already, and its founder follows it.
Init ==
    /\ home \in [Node -> Node \cup {None}]
    /\ \A n, m \in Node : None \notin {home[n], home[m]} => home[n] = home[m]
    /\ \A n \in Node : home[n] # None => home[home[n]] # None
    /\ kept = [n \in Node |-> IF home[n] = None THEN 0 ELSE 1]
    /\ \A n \in Node : Len(log[n]) = IF home[n] = n THEN 1 ELSE 0

\* The founder's ledger grows by one block.
Grows(f) ==
    /\ Len(log'[f]) = Len(log[f]) + 1
    /\ SubSeq(log'[f], 1, Len(log[f])) = log[f]
    /\ \A m \in Node \ {f} : log'[m] = log[m]

\* A node without a ledger founds its own.
Found(n) ==
    /\ home[n] = None
    /\ home' = [home EXCEPT ![n] = n]
    /\ kept' = [kept EXCEPT ![n] = 1]
    /\ log[n] = << >>
    /\ Grows(n)

\* A node that holds the whole ledger appends a block to it.
Extend(n) ==
    /\ home[n] # None
    /\ kept[n] = Len(log[home[n]])
    /\ Grows(home[n])
    /\ kept' = [kept EXCEPT ![n] = @ + 1]
    /\ UNCHANGED home

\* A node takes over the next block of its ledger.
Learn(n) ==
    /\ home[n] # None
    /\ kept[n] < Len(log[home[n]])
    /\ kept' = [kept EXCEPT ![n] = @ + 1]
    /\ UNCHANGED <<log, home>>

Next == \E n \in Node : Found(n) \/ Extend(n) \/ Learn(n)

Spec == Init /\ [][Next]_vars
=============================================================================
