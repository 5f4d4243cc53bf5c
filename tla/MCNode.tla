------------------------------- MODULE MCNode -------------------------------
(* Transactions, validators and peer chains for the instances of Node. *)
EXTENDS Node, TLC

CONSTANTS a1, a2, self, other, p1, p2

\* Two transfers that always succeed, a second one of a1, one whose handler
\* refuses, and one that skips a nonce.
xa == [from |-> a1, nonce |-> 0, ok |-> TRUE, stamp |-> 0]
xb == [from |-> a2, nonce |-> 0, ok |-> TRUE, stamp |-> 0]
xa2 == [from |-> a1, nonce |-> 1, ok |-> TRUE, stamp |-> 0]
bad == [from |-> a2, nonce |-> 0, ok |-> FALSE, stamp |-> 0]
early == [from |-> a2, nonce |-> 1, ok |-> TRUE, stamp |-> 0]

GoodTxs == {xa, xb}
MixedTxs == {xa, bad}
ThreeTxs == {xa, xb, bad}
AllTxs == {xa, xb, xa2, bad, early}

\* The next block on the parent, with the given transactions.
Child(parent, txs) ==
    [height |-> parent.height + 1, prev |-> Hash(parent),
     by |-> ProposerOf(parent.height + 1), time |-> 0, sealed |-> TRUE, txs |-> txs,
     root |-> Replay(parent.root, txs)]

b1 == Child(Genesis, <<xa>>)
b2 == Child(b1, <<xb>>)
b3 == Child(b2, <<xa2>>)

\* Blocks that go wrong on top of b1: a transaction fails after one that
\* succeeds, the root is wrong, the seal is broken, the proposer is wrong.
Fails(x) == [Child(b1, <<xb>>) EXCEPT !.txs = <<xa2, x>>]
WrongRoot == [b2 EXCEPT !.root = b1.root]
Unsealed == [b2 EXCEPT !.sealed = FALSE]
OutOfTurn == [b2 EXCEPT !.by = self]

\* What the peers of an instance may have.  With BothValidators b2 is a
\* block of self: one that self produced before its data directory was replaced
\* by an older copy.
NoChains == [q \in Peer |-> {}]
ShortChain == [q \in Peer |-> {{<<b1, b2>>}}]
GrowingChain == [q \in Peer |-> {{<<b1>>, <<b1, b2>>}}]
GoodOrAnyChain ==
    [q \in Peer |-> {{<<b1, b2, b3>>},
                     {<<b1, b2, b3>>, <<b1, Fails(bad), b3>>, <<b1, Fails(early)>>,
                      <<b1, WrongRoot, b3>>, <<b1, Unsealed>>, <<b1, OutOfTurn>>}}]

SoloValidators == <<self>>
OtherValidators == <<other>>
BothValidators == <<self, other>>
=============================================================================
