----------------------------- MODULE NodeProofs -----------------------------
(***************************************************************************)
(* Proofs about Node, for any number of peers, transactions, blocks and    *)
(* faults: what the block store and the mempool, each under its own mutex, *)
(* guarantee whatever the goroutines that share them do.                   *)
(***************************************************************************)
EXTENDS Node, DataLemmas

State == [Account -> Seq(Tx)]

StateOk == view \in State /\ saved \in Seq(State) /\ disk \in State

ChainOk == tip.height \in Nat /\ ChainLinked

PoolOk ==
    /\ pool \in Seq(Tx)
    /\ MempoolInStep
    /\ IsFiniteSet(held)
    /\ Cardinality(held) <= MaxMempool

BlockOk(b) == b.height \in Nat /\ b.txs \in Seq(Tx)

\* The local variables of a goroutine.
Locals(pc, blk, pos, snap, txSnap, acc, batch, full) ==
    [pc |-> pc, blk |-> blk, pos |-> pos, snap |-> snap, txSnap |-> txSnap, acc |-> acc,
     batch |-> batch, full |-> full]

\* It has a block in hand unless it is between blocks, and the index of a
\* transaction of that block while it executes one.
LocalOk(x) ==
    /\ x = Locals(x.pc, x.blk, x.pos, x.snap, x.txSnap, x.acc, x.batch, x.full)
    /\ x.pc \in PC
    /\ x.pos \in Nat /\ x.snap \in Nat /\ x.txSnap \in Nat
    /\ x.acc \in Seq(Tx)
    /\ IsSeq(x.batch)
    /\ \A i \in 1 .. Len(x.batch) : BlockOk(x.batch[i])
    /\ x.full \in BOOLEAN
    /\ x.pc \notin {"idle", "build", "next"} => BlockOk(x.blk)
    /\ x.pc = "exec" => x.pos >= 1
    /\ x.pc \in {"read", "write"} => x.pos \in 1 .. Len(x.blk.txs)

LocalsOk ==
    /\ g = [t \in Goroutine |-> g[t]]
    /\ \A t \in Goroutine : LocalOk(g[t])

EnvOk ==
    /\ \A q \in Peer : serves[q] \in PeerChain[q]
    /\ requests \in [Peer -> Seq(Nat \ {0})]
    /\ submits \in [Tx -> 0 .. MaxSubmits]
    /\ connects \in [Peer -> 0 .. MaxConnects]
    /\ faults \in Nat

IInv == StateOk /\ ChainOk /\ PoolOk /\ LocalsOk /\ EnvOk

-----------------------------------------------------------------------------
(* What a step does to each part, whichever goroutine takes it. *)

StateMove ==
    \/ UNCHANGED stateVars
    \/ S!Snapshot
    \/ \E a \in Account, v \in Seq(Tx) : S!Set(a, v)
    \/ \E id \in Nat : S!RevertToSnapshot(id)
    \/ S!Flush
    \/ S!Crash

ChainMove ==
    \/ UNCHANGED chainVars
    \/ \E b : BlockOk(b) /\ Follows(b) /\ AddBlock(b)

PoolMove ==
    \/ UNCHANGED poolVars
    \/ \E x \in Tx : /\ Cardinality(held) < MaxMempool
                     /\ x \notin held
                     /\ held' = held \cup {x}
                     /\ pool' = Append(pool, x)
    \/ \E txs : RemoveAll(txs)
    \/ held' = {} /\ pool' = << >>

LocalMove ==
    \/ g' = g
    \/ g' = [t \in Goroutine |-> Idle]
    \/ \E t \in Goroutine : \E y : LocalOk(y) /\ Becomes(t, y)

Moves == StateMove /\ ChainMove /\ PoolMove /\ LocalMove /\ EnvOk'

LEMMA IdleOk == LocalOk(Idle)
<1>1. << >> \in Seq(Tx) /\ IsSeq(<< >>) /\ Len(<< >>) = 0
  BY DEF IsSeq
<1> QED BY <1>1 DEF LocalOk, Idle, Locals, PC

\* The updates of several local variables at once that occur in the code.
ToTxSnap(x, v, w) == [x EXCEPT !.pc = v, !.txSnap = w]
ToPosAcc(x, v, w, u) == [x EXCEPT !.pc = v, !.pos = w, !.acc = u]
ToAcc(x, v, u) == [x EXCEPT !.pc = v, !.acc = u]
ToPosBlk(x, v, w, u) == [x EXCEPT !.pc = v, !.pos = w, !.blk = u]
ToBatchFull(x, v, w, u) == [x EXCEPT !.pc = v, !.batch = w, !.full = u]
ToBlkBatch(x, v, w, u) == [x EXCEPT !.pc = v, !.blk = w, !.batch = u]
ToPosSnap(x, v, w, u) == [x EXCEPT !.pc = v, !.pos = w, !.snap = u]
ToBlk(x, v, w) == [x EXCEPT !.blk = w, !.pc = v]

LEMMA LocalUpdates ==
    ASSUME NEW x, x = Locals(x.pc, x.blk, x.pos, x.snap, x.txSnap, x.acc, x.batch, x.full)
    PROVE  /\ \A v, w : ToTxSnap(x, v, w)
                = Locals(v, x.blk, x.pos, x.snap, w, x.acc, x.batch, x.full)
           /\ \A v, w, u : ToPosAcc(x, v, w, u)
                = Locals(v, x.blk, w, x.snap, x.txSnap, u, x.batch, x.full)
           /\ \A v, u : ToAcc(x, v, u)
                = Locals(v, x.blk, x.pos, x.snap, x.txSnap, u, x.batch, x.full)
           /\ \A v, w, u : ToPosBlk(x, v, w, u)
                = Locals(v, u, w, x.snap, x.txSnap, x.acc, x.batch, x.full)
           /\ \A v, w, u : ToBatchFull(x, v, w, u)
                = Locals(v, x.blk, x.pos, x.snap, x.txSnap, x.acc, w, u)
           /\ \A v, w, u : ToBlkBatch(x, v, w, u)
                = Locals(v, w, x.pos, x.snap, x.txSnap, x.acc, u, x.full)
           /\ \A v, w, u : ToPosSnap(x, v, w, u)
                = Locals(v, x.blk, w, u, x.txSnap, x.acc, x.batch, x.full)
           /\ \A v, w : ToBlk(x, v, w)
                = Locals(v, w, x.pos, x.snap, x.txSnap, x.acc, x.batch, x.full)
<1> SUFFICES ASSUME NEW u, NEW v, NEW w
             PROVE
             /\ ToTxSnap(x, v, w)
                  = Locals(v, x.blk, x.pos, x.snap, w, x.acc, x.batch, x.full)
             /\ ToPosAcc(x, v, w, u)
                  = Locals(v, x.blk, w, x.snap, x.txSnap, u, x.batch, x.full)
             /\ ToAcc(x, v, u)
                  = Locals(v, x.blk, x.pos, x.snap, x.txSnap, u, x.batch, x.full)
             /\ ToPosBlk(x, v, w, u)
                  = Locals(v, u, w, x.snap, x.txSnap, x.acc, x.batch, x.full)
             /\ ToBatchFull(x, v, w, u)
                  = Locals(v, x.blk, x.pos, x.snap, x.txSnap, x.acc, w, u)
             /\ ToBlkBatch(x, v, w, u)
                  = Locals(v, w, x.pos, x.snap, x.txSnap, x.acc, u, x.full)
             /\ ToPosSnap(x, v, w, u)
                  = Locals(v, x.blk, w, u, x.txSnap, x.acc, x.batch, x.full)
             /\ ToBlk(x, v, w)
                  = Locals(v, w, x.pos, x.snap, x.txSnap, x.acc, x.batch, x.full)
  OBVIOUS
<1>1. PICK pc, blk, pos, snap, txSnap, acc, batch, full :
        x = Locals(pc, blk, pos, snap, txSnap, acc, batch, full)
  OBVIOUS
<1>2. /\ x.pc = pc /\ x.blk = blk /\ x.pos = pos /\ x.snap = snap /\ x.txSnap = txSnap
      /\ x.acc = acc /\ x.batch = batch /\ x.full = full
  BY <1>1 DEF Locals
<1>3. [x EXCEPT !.pc = v, !.txSnap = w] = Locals(v, blk, pos, snap, w, acc, batch, full)
  <2>1. [Locals(pc, blk, pos, snap, txSnap, acc, batch, full) EXCEPT !.pc = v]
         = Locals(v, blk, pos, snap, txSnap, acc, batch, full)
    BY DEF Locals
  <2>2. [Locals(v, blk, pos, snap, txSnap, acc, batch, full) EXCEPT !.txSnap = w]
         = Locals(v, blk, pos, snap, w, acc, batch, full)
    BY DEF Locals
  <2> QED BY <1>1, <2>1, <2>2, Zenon
<1>5. [x EXCEPT !.pc = v, !.pos = w, !.acc = u] = Locals(v, blk, w, snap, txSnap, u, batch, full)
  <2>1. [Locals(pc, blk, pos, snap, txSnap, acc, batch, full) EXCEPT !.pc = v]
         = Locals(v, blk, pos, snap, txSnap, acc, batch, full)
    BY DEF Locals
  <2>2. [Locals(v, blk, pos, snap, txSnap, acc, batch, full) EXCEPT !.pos = w]
         = Locals(v, blk, w, snap, txSnap, acc, batch, full)
    BY DEF Locals
  <2>3. [Locals(v, blk, w, snap, txSnap, acc, batch, full) EXCEPT !.acc = u]
         = Locals(v, blk, w, snap, txSnap, u, batch, full)
    BY DEF Locals
  <2> QED BY <1>1, <2>1, <2>2, <2>3, Zenon
<1>6. [x EXCEPT !.pc = v, !.acc = u] = Locals(v, blk, pos, snap, txSnap, u, batch, full)
  <2>1. [Locals(pc, blk, pos, snap, txSnap, acc, batch, full) EXCEPT !.pc = v]
         = Locals(v, blk, pos, snap, txSnap, acc, batch, full)
    BY DEF Locals
  <2>2. [Locals(v, blk, pos, snap, txSnap, acc, batch, full) EXCEPT !.acc = u]
         = Locals(v, blk, pos, snap, txSnap, u, batch, full)
    BY DEF Locals
  <2> QED BY <1>1, <2>1, <2>2, Zenon
<1>7. [x EXCEPT !.pc = v, !.pos = w, !.blk = u] = Locals(v, u, w, snap, txSnap, acc, batch, full)
  <2>1. [Locals(pc, blk, pos, snap, txSnap, acc, batch, full) EXCEPT !.pc = v]
         = Locals(v, blk, pos, snap, txSnap, acc, batch, full)
    BY DEF Locals
  <2>2. [Locals(v, blk, pos, snap, txSnap, acc, batch, full) EXCEPT !.pos = w]
         = Locals(v, blk, w, snap, txSnap, acc, batch, full)
    BY DEF Locals
  <2>3. [Locals(v, blk, w, snap, txSnap, acc, batch, full) EXCEPT !.blk = u]
         = Locals(v, u, w, snap, txSnap, acc, batch, full)
    BY DEF Locals
  <2> QED BY <1>1, <2>1, <2>2, <2>3, Zenon
<1>8. [x EXCEPT !.pc = v, !.batch = w, !.full = u] = Locals(v, blk, pos, snap, txSnap, acc, w, u)
  <2>1. [Locals(pc, blk, pos, snap, txSnap, acc, batch, full) EXCEPT !.pc = v]
         = Locals(v, blk, pos, snap, txSnap, acc, batch, full)
    BY DEF Locals
  <2>2. [Locals(v, blk, pos, snap, txSnap, acc, batch, full) EXCEPT !.batch = w]
         = Locals(v, blk, pos, snap, txSnap, acc, w, full)
    BY DEF Locals
  <2>3. [Locals(v, blk, pos, snap, txSnap, acc, w, full) EXCEPT !.full = u]
         = Locals(v, blk, pos, snap, txSnap, acc, w, u)
    BY DEF Locals
  <2> QED BY <1>1, <2>1, <2>2, <2>3, Zenon
<1>9. [x EXCEPT !.pc = v, !.blk = w, !.batch = u] = Locals(v, w, pos, snap, txSnap, acc, u, full)
  <2>1. [Locals(pc, blk, pos, snap, txSnap, acc, batch, full) EXCEPT !.pc = v]
         = Locals(v, blk, pos, snap, txSnap, acc, batch, full)
    BY DEF Locals
  <2>2. [Locals(v, blk, pos, snap, txSnap, acc, batch, full) EXCEPT !.blk = w]
         = Locals(v, w, pos, snap, txSnap, acc, batch, full)
    BY DEF Locals
  <2>3. [Locals(v, w, pos, snap, txSnap, acc, batch, full) EXCEPT !.batch = u]
         = Locals(v, w, pos, snap, txSnap, acc, u, full)
    BY DEF Locals
  <2> QED BY <1>1, <2>1, <2>2, <2>3, Zenon
<1>10. [x EXCEPT !.pc = v, !.pos = w, !.snap = u] = Locals(v, blk, w, u, txSnap, acc, batch, full)
  <2>1. [Locals(pc, blk, pos, snap, txSnap, acc, batch, full) EXCEPT !.pc = v]
         = Locals(v, blk, pos, snap, txSnap, acc, batch, full)
    BY DEF Locals
  <2>2. [Locals(v, blk, pos, snap, txSnap, acc, batch, full) EXCEPT !.pos = w]
         = Locals(v, blk, w, snap, txSnap, acc, batch, full)
    BY DEF Locals
  <2>3. [Locals(v, blk, w, snap, txSnap, acc, batch, full) EXCEPT !.snap = u]
         = Locals(v, blk, w, u, txSnap, acc, batch, full)
    BY DEF Locals
  <2> QED BY <1>1, <2>1, <2>2, <2>3, Zenon
<1>11. [x EXCEPT !.blk = w, !.pc = v] = Locals(v, w, pos, snap, txSnap, acc, batch, full)
  <2>1. [Locals(pc, blk, pos, snap, txSnap, acc, batch, full) EXCEPT !.blk = w]
         = Locals(pc, w, pos, snap, txSnap, acc, batch, full)
    BY DEF Locals
  <2>2. [Locals(pc, w, pos, snap, txSnap, acc, batch, full) EXCEPT !.pc = v]
         = Locals(v, w, pos, snap, txSnap, acc, batch, full)
    BY DEF Locals
  <2> QED BY <1>1, <2>1, <2>2, Zenon
<1> QED BY <1>2, <1>3, <1>5, <1>6, <1>7, <1>8, <1>9, <1>10, <1>11
       DEF ToTxSnap, ToAcc, ToPosAcc, ToPosBlk, ToBatchFull, ToBlkBatch, ToPosSnap, ToBlk

\* A step that moves nothing but goroutine t, and keeps its variables in order.
LEMMA OnlyLocal ==
    ASSUME IInv, NEW t \in Goroutine, NEW y, LocalOk(y), Becomes(t, y),
           UNCHANGED <<stateVars, chainVars, poolVars, envVars>>
    PROVE  Moves
<1>1. EnvOk'
  BY DEF IInv, EnvOk, envVars
<1> QED BY <1>1 DEF Moves, StateMove, ChainMove, PoolMove, LocalMove

\* vm/executor.go.
LEMMA ExecMoves ==
    ASSUME IInv, NEW t \in Goroutine, Exec(t)
    PROVE  Moves
<1> DEFINE x == g[t]
<1>1. LocalOk(x)
  BY DEF IInv, LocalsOk
<1>2. /\ x = Locals(x.pc, x.blk, x.pos, x.snap, x.txSnap, x.acc, x.batch, x.full)
      /\ x.pos \in Nat /\ x.snap \in Nat /\ x.txSnap \in Nat /\ x.acc \in Seq(Tx)
      /\ IsSeq(x.batch) /\ (\A i \in 1 .. Len(x.batch) : BlockOk(x.batch[i])) /\ x.full \in BOOLEAN
  BY <1>1 DEF LocalOk
<1>0. x = Locals(x.pc, x.blk, x.pos, x.snap, x.txSnap, x.acc, x.batch, x.full)
  BY <1>2
<1>3. UNCHANGED envVars => EnvOk'
  BY DEF IInv, EnvOk, envVars
<1>4. saved \in Seq(State) /\ Len(saved) \in Nat
  BY DEF IInv, StateOk
<1>5. ASSUME NEW blk, NEW pos \in Nat, NEW txSnap \in Nat, NEW acc \in Seq(Tx), BlockOk(blk),
             NEW pc \in {"exec", "read", "write", "undo", "revert-continue"},
             pc = "exec" => pos >= 1,
             pc \in {"read", "write"} => pos \in 1 .. Len(blk.txs)
      PROVE  LocalOk(Locals(pc, blk, pos, x.snap, txSnap, acc, x.batch, x.full))
  BY <1>2, <1>5 DEF LocalOk, Locals, PC
<1> HIDE DEF x
<1>6. CASE ExecSnapshot(t)
  <2>1. x.pc = "exec" /\ BlockOk(x.blk) /\ x.pos >= 1 /\ x.pos <= Len(x.blk.txs) /\ Len(x.blk.txs) \in Nat
    BY <1>1, <1>6 DEF ExecSnapshot, At, LocalOk, BlockOk, x
  <2>2. ToTxSnap(x, "read", Len(saved))
          = Locals("read", x.blk, x.pos, x.snap, Len(saved), x.acc, x.batch, x.full)
    BY <1>0, LocalUpdates
  <2>3. LocalOk(Locals("read", x.blk, x.pos, x.snap, Len(saved), x.acc, x.batch, x.full))
    BY <1>2, <1>4, <1>5, <2>1
  <2>4. LocalMove
    BY <1>6, <2>2, <2>3 DEF ExecSnapshot, LocalMove, S!NextId, ToTxSnap, x
  <2> QED BY <1>3, <1>6, <2>4 DEF ExecSnapshot, Moves, StateMove, ChainMove, PoolMove
<1>7. ASSUME x.pc \in {"read", "write"}
      PROVE  /\ BlockOk(x.blk) /\ x.pos \in 1 .. Len(x.blk.txs)
             /\ CurrentTx(t) \in Tx /\ CurrentTx(t).from \in Account
  <2>1. BlockOk(x.blk) /\ x.pos \in 1 .. Len(x.blk.txs)
    BY <1>1, <1>7 DEF LocalOk
  <2>2. CurrentTx(t) = x.blk.txs[x.pos]
    BY DEF CurrentTx, x
  <2> QED BY <2>1, <2>2, TxAssumption DEF BlockOk
<1>8. CASE ExecRead(t)
  <2> DEFINE acc == view[CurrentTx(t).from]
             pc == IF Len(acc) = CurrentTx(t).nonce THEN "write" ELSE "undo"
  <2>1. x.pc = "read"
    BY <1>8 DEF ExecRead, At, x
  <2>2. acc \in Seq(Tx)
    BY <1>7, <2>1 DEF IInv, StateOk, State
  <2>3. Becomes(t, ToAcc(x, pc, acc))
    BY <1>8 DEF ExecRead, ToAcc, x
  <2>4. pc \in {"write", "undo"}
    OBVIOUS
  <2> HIDE DEF acc, pc
  <2>5. ToAcc(x, pc, acc)
          = Locals(pc, x.blk, x.pos, x.snap, x.txSnap, acc, x.batch, x.full)
    BY <1>0, LocalUpdates
  <2>6. LocalOk(Locals(pc, x.blk, x.pos, x.snap, x.txSnap, acc, x.batch, x.full))
    BY <1>2, <1>5, <1>7, <2>1, <2>2, <2>4
  <2> QED BY <1>8, <2>3, <2>5, <2>6, OnlyLocal DEF ExecRead
<1>9. CASE ExecWrite(t)
  <2>1. x.pc = "write"
    BY <1>9 DEF ExecWrite, At, x
  <2>2. Append(x.acc, CurrentTx(t)) \in Seq(Tx) /\ << >> \in Seq(Tx)
    BY <1>2, <1>7, <2>1
  <2>3. StateMove
    BY <1>7, <1>9, <2>1, <2>2, Zenon DEF ExecWrite, StateMove, x
  <2>4. ToPosAcc(x, "exec", x.pos + 1, << >>)
          = Locals("exec", x.blk, x.pos + 1, x.snap, x.txSnap, << >>, x.batch, x.full)
    BY <1>0, LocalUpdates
  <2>5. ToAcc(x, "undo", << >>)
          = Locals("undo", x.blk, x.pos, x.snap, x.txSnap, << >>, x.batch, x.full)
    BY <1>0, LocalUpdates
  <2>6. LocalOk(Locals("exec", x.blk, x.pos + 1, x.snap, x.txSnap, << >>, x.batch, x.full))
    <3>1. x.pos + 1 \in Nat /\ x.pos + 1 >= 1
      BY <1>2
    <3> QED BY <1>2, <1>5, <1>7, <2>1, <2>2, <3>1, Zenon
  <2>7. LocalOk(Locals("undo", x.blk, x.pos, x.snap, x.txSnap, << >>, x.batch, x.full))
    BY <1>2, <1>5, <1>7, <2>1, <2>2, Zenon
  <2>8. LocalMove
    BY <1>9, <2>4, <2>5, <2>6, <2>7 DEF ExecWrite, LocalMove, ToAcc, ToPosAcc, x
  <2> QED BY <1>3, <1>9, <2>3, <2>8 DEF ExecWrite, Moves, ChainMove, PoolMove
<1>10. CASE ExecUndo(t)
  <2>1. x.pc = "undo" /\ BlockOk(x.blk)
    BY <1>1, <1>10 DEF ExecUndo, At, LocalOk, x
  <2>2. StateMove
    BY <1>2, <1>10 DEF ExecUndo, StateMove, x
  <2>3. [x EXCEPT !.pc = "revert-continue"]
          = Locals("revert-continue", x.blk, x.pos, x.snap, x.txSnap, x.acc, x.batch, x.full)
    BY <1>2 DEF Locals
  <2>4. LocalOk(Locals("revert-continue", x.blk, x.pos, x.snap, x.txSnap, x.acc, x.batch, x.full))
    BY <1>2, <1>5, <2>1, Zenon
  <2>5. LocalMove
    BY <1>10, <2>3, <2>4, IdleOk DEF ExecUndo, Return, Goto, LocalMove, x
  <2> QED BY <1>3, <1>10, <2>2, <2>5 DEF ExecUndo, Moves, ChainMove, PoolMove
<1> QED BY <1>6, <1>8, <1>9, <1>10 DEF Exec

\* A change of the program counter alone.
LEMMA GotoOk ==
    ASSUME NEW x, LocalOk(x), NEW v \in PC \ {"exec", "read", "write"},
           v \notin {"idle", "build", "next"} => BlockOk(x.blk)
    PROVE  LocalOk([x EXCEPT !.pc = v])
<1>1. x = Locals(x.pc, x.blk, x.pos, x.snap, x.txSnap, x.acc, x.batch, x.full)
  BY DEF LocalOk
<1>2. [x EXCEPT !.pc = v] = Locals(v, x.blk, x.pos, x.snap, x.txSnap, x.acc, x.batch, x.full)
  BY <1>1 DEF Locals
<1>3. LocalOk(Locals(v, x.blk, x.pos, x.snap, x.txSnap, x.acc, x.batch, x.full))
  BY DEF LocalOk, Locals, PC
<1> QED BY <1>2, <1>3

\* Mempool.Add.
LEMMA AddMoves ==
    ASSUME IInv, NEW x \in Tx, Add(x)
    PROVE  Moves
<1>1. submits' \in [Tx -> 0 .. MaxSubmits]
  BY BoundsAssumption DEF Add, IInv, EnvOk
<1>2. EnvOk'
  BY <1>1 DEF Add, IInv, EnvOk
<1>3. PoolMove
  BY DEF Add, PoolMove
<1> QED BY <1>2, <1>3 DEF Add, Moves, StateMove, ChainMove, LocalMove

\* A block taken from the mempool has at most the transactions that it lists.
LEMMA PendingIsSeq ==
    ASSUME IInv, NEW n \in Nat
    PROVE  Pending(n) \in Seq(Tx)
<1> DEFINE listed == Filtered(pool, held)
<1>1. pool \in Seq(Tx)
  BY DEF IInv, PoolOk
<1>2. listed \in Seq(Tx)
  BY <1>1, FilteredIs
<1>3. Len(listed) \in Nat
  BY <1>2
<1> HIDE DEF listed
<1> DEFINE k == IF n < Len(listed) THEN n ELSE Len(listed)
<1>4. k \in 0 .. Len(listed)
  BY <1>3
<1>5. \A i \in 1 .. k : i \in 1 .. Len(listed)
  BY <1>3, <1>4
<1>6. SubSeq(listed, 1, k) \in Seq(Tx)
  BY <1>2, <1>3, <1>4, <1>5
<1> QED BY <1>6 DEF Pending, listed

\* consensus/poa.go, up to the block.
LEMMA TickMoves ==
    ASSUME IInv, Tick
    PROVE  Moves
<1>1. Poa \in Goroutine /\ LocalOk(g[Poa])
  BY DEF IInv, LocalsOk, Goroutine
<1>2. LocalOk([g[Poa] EXCEPT !.pc = "build"])
  BY <1>1, GotoOk DEF PC
<1> QED BY <1>1, <1>2, OnlyLocal DEF Tick, Goto

LEMMA BuildMoves ==
    ASSUME IInv, Build
    PROVE  Moves
<1> DEFINE x == g[Poa]
<1>1. PICK now \in Time :
        Becomes(Poa, ToPosBlk(x, "exec", 1,
                              [height |-> tip.height + 1, prev |-> Hash(tip),
                               by |-> Self, time |-> now, sealed |-> TRUE,
                               txs |-> Pending(MaxBlockTxs), root |-> None]))
  BY Zenon DEF Build, ToPosBlk
<1> DEFINE b == [height |-> tip.height + 1, prev |-> Hash(tip),
                 by |-> Self, time |-> now, sealed |-> TRUE,
                 txs |-> Pending(MaxBlockTxs), root |-> None]
<1>2. BlockOk(b)
  <2>1. Pending(MaxBlockTxs) \in Seq(Tx)
    BY PendingIsSeq, BoundsAssumption
  <2>2. tip.height + 1 \in Nat
    BY DEF IInv, ChainOk
  <2> QED BY <2>1, <2>2 DEF BlockOk
<1>3. Poa \in Goroutine /\ LocalOk(x)
  BY DEF IInv, LocalsOk, Goroutine
<1>4. Becomes(Poa, ToPosBlk(x, "exec", 1, b))
  BY <1>1
<1> HIDE DEF b, x
<1>5. x = Locals(x.pc, x.blk, x.pos, x.snap, x.txSnap, x.acc, x.batch, x.full)
  BY <1>3 DEF LocalOk
<1>6. ToPosBlk(x, "exec", 1, b) = Locals("exec", b, 1, x.snap, x.txSnap, x.acc, x.batch, x.full)
  BY <1>5, LocalUpdates
<1>7. LocalOk(Locals("exec", b, 1, x.snap, x.txSnap, x.acc, x.batch, x.full))
  BY <1>2, <1>3 DEF LocalOk, Locals, PC
<1> QED BY <1>3, <1>4, <1>6, <1>7, OnlyLocal DEF Build

LEMMA SealMoves ==
    ASSUME IInv, Seal
    PROVE  Moves
<1> DEFINE x == g[Poa]
           b == [x.blk EXCEPT !.root = view]
<1>1. Poa \in Goroutine /\ LocalOk(x) /\ x.pc = "exec" /\ BlockOk(x.blk)
  BY Zenon DEF IInv, LocalsOk, Goroutine, Seal, At, LocalOk
<1>2. BlockOk(b)
  BY <1>1 DEF BlockOk
<1>3. [x EXCEPT !.blk.root = view] = [x EXCEPT !.blk = b]
  OBVIOUS
<1>4. Becomes(Poa, ToBlk(x, "add", b))
  BY <1>3 DEF Seal, ToBlk
<1> HIDE DEF b, x
<1>5. x = Locals(x.pc, x.blk, x.pos, x.snap, x.txSnap, x.acc, x.batch, x.full)
  BY <1>1 DEF LocalOk
<1>6. ToBlk(x, "add", b) = Locals("add", b, x.pos, x.snap, x.txSnap, x.acc, x.batch, x.full)
  BY <1>5, LocalUpdates
<1>7. LocalOk(Locals("add", b, x.pos, x.snap, x.txSnap, x.acc, x.batch, x.full))
  BY <1>1, <1>2 DEF LocalOk, Locals, PC
<1> QED BY <1>1, <1>4, <1>6, <1>7, OnlyLocal DEF Seal

\* The block is stored, refused, or the write fails; then it is flushed and its
\* transactions leave the mempool.
LEMMA ProduceMoves ==
    ASSUME IInv, ProduceAdd \/ ProduceCommit \/ ProduceRemove
    PROVE  Moves
<1> DEFINE x == g[Poa]
<1>1. Poa \in Goroutine /\ LocalOk(x)
  BY DEF IInv, LocalsOk, Goroutine
<1>2. x.pc \in {"add", "commit", "remove"} /\ BlockOk(x.blk)
  BY <1>1, Zenon DEF ProduceAdd, ProduceCommit, ProduceRemove, At, LocalOk
<1>3. Fault \/ UNCHANGED envVars
  BY DEF ProduceAdd, ProduceCommit, ProduceRemove
<1>4. EnvOk'
  <2>1. CASE UNCHANGED envVars
    BY <2>1 DEF IInv, EnvOk, envVars
  <2>2. CASE Fault /\ faults < MaxFaults
    BY <2>2, BoundsAssumption DEF IInv, EnvOk, Fault
  <2> QED BY <2>1, <2>2 DEF ProduceAdd, ProduceCommit, ProduceRemove, MayFault
<1>5. LocalMove
  <2>1. \A v \in {"commit", "remove"} : LocalOk([x EXCEPT !.pc = v])
    BY <1>1, <1>2, GotoOk DEF PC
  <2> QED BY <1>1, <2>1, IdleOk
          DEF ProduceAdd, ProduceCommit, ProduceRemove, Goto, Return, LocalMove
<1>6. ChainMove
  BY <1>2 DEF ProduceAdd, ProduceCommit, ProduceRemove, ChainMove
<1>7. StateMove /\ PoolMove
  BY DEF ProduceAdd, ProduceCommit, ProduceRemove, StateMove, PoolMove
<1> QED BY <1>4, <1>5, <1>6, <1>7 DEF Moves

\* network/sync.go, requests and answers.
LEMMA RequestMoves ==
    ASSUME IInv, NEW q \in Peer, Connect(q) \/ Drop(q)
    PROVE  Moves
<1>1. EnvOk'
  <2>1. CASE Connect(q)
    <3>1. tip.height + 1 \in Nat \ {0}
      BY DEF IInv, ChainOk
    <3>2. requests' \in [Peer -> Seq(Nat \ {0})]
      BY <2>1, <3>1 DEF Connect, IInv, EnvOk
    <3>3. connects' \in [Peer -> 0 .. MaxConnects]
      BY <2>1, BoundsAssumption DEF Connect, IInv, EnvOk
    <3> QED BY <2>1, <3>2, <3>3 DEF Connect, IInv, EnvOk
  <2>2. CASE Drop(q)
    <3>1. requests' \in [Peer -> Seq(Nat \ {0})]
      BY <2>2 DEF Drop, IInv, EnvOk
    <3>2. faults' \in Nat
      BY <2>2, BoundsAssumption DEF Drop, MayFault, IInv, EnvOk
    <3> QED BY <2>2, <3>1, <3>2 DEF Drop, IInv, EnvOk
  <2> QED BY <2>1, <2>2
<1> QED BY <1>1 DEF Connect, Drop, Moves, StateMove, ChainMove, PoolMove, LocalMove

\* The blocks of an answer are blocks of the peer's chain.
LEMMA AnswerOk ==
    ASSUME NEW q \in Peer, NEW chain \in UNION PeerChain[q], NEW from \in Nat \ {0}
    PROVE  /\ IsSeq(Answer(chain, from))
           /\ \A i \in 1 .. Len(Answer(chain, from)) : Answer(chain, from)[i] \in Range(chain)
<1> DEFINE R == Range(chain)
           n == Len(chain)
           l == from + SyncLimit - 1
           k == IF l < n THEN l ELSE n
<1>1. chain \in Seq(R)
  BY PeerChainAssumption
<1>2. n \in Nat /\ k \in Int /\ k <= n
  BY <1>1, BoundsAssumption
<1>3. SubSeq(chain, from, k) \in Seq(R)
  <2> HIDE DEF R, n, k
  <2>1. \A i \in from .. k : i \in 1 .. n
    BY <1>2
  <2>2. \A i \in 1 .. n : chain[i] \in R
    BY <1>1 DEF n
  <2> QED BY <1>2, <2>1, <2>2
<1>4. Answer(chain, from) \in Seq(R)
  BY <1>3 DEF Answer
<1> HIDE DEF R
<1> QED BY <1>4, SeqIsSeq DEF R

LEMMA ReceiveMoves ==
    ASSUME IInv, NEW q \in Peer, Receive(q)
    PROVE  Moves
<1> DEFINE x == g[q]
           from == Head(requests[q])
<1>1. q \in Goroutine /\ LocalOk(x)
  BY DEF IInv, LocalsOk, Goroutine
<1>2. requests[q] \in Seq(Nat \ {0}) /\ requests[q] # << >>
  BY DEF IInv, EnvOk, Receive
<1>3. from \in Nat \ {0} /\ Tail(requests[q]) \in Seq(Nat \ {0})
  BY <1>2
<1>4. PICK chain \in serves[q] :
        Becomes(q, ToBatchFull(x, "next", Answer(chain, from),
                               Len(Answer(chain, from)) >= SyncLimit))
  BY Zenon DEF Receive, ToBatchFull
<1>5. chain \in UNION PeerChain[q]
  BY DEF IInv, EnvOk
<1> DEFINE bs == Answer(chain, from)
           full == Len(bs) >= SyncLimit
<1>6. IsSeq(bs) /\ \A i \in 1 .. Len(bs) : bs[i] \in Range(chain)
  BY <1>3, <1>5, AnswerOk, Zenon
<1>7. \A i \in 1 .. Len(bs) : BlockOk(bs[i])
  BY <1>5, <1>6, PeerChainAssumption DEF BlockOk
<1>8. full \in BOOLEAN
  OBVIOUS
<1>9. Becomes(q, ToBatchFull(x, "next", bs, full))
  BY <1>4
<1>10. EnvOk'
  <2>1. requests' \in [Peer -> Seq(Nat \ {0})]
    BY <1>3 DEF Receive, IInv, EnvOk
  <2> QED BY <2>1 DEF Receive, IInv, EnvOk
<1> HIDE DEF bs, full, x, from
<1>11. x = Locals(x.pc, x.blk, x.pos, x.snap, x.txSnap, x.acc, x.batch, x.full)
  BY <1>1 DEF LocalOk
<1>12. ToBatchFull(x, "next", bs, full)
         = Locals("next", x.blk, x.pos, x.snap, x.txSnap, x.acc, bs, full)
  BY <1>11, LocalUpdates
<1>13. LocalOk(Locals("next", x.blk, x.pos, x.snap, x.txSnap, x.acc, bs, full))
  BY <1>1, <1>6, <1>7, <1>8 DEF LocalOk, Locals, PC
<1>14. LocalMove
  BY <1>1, <1>9, <1>12, <1>13, Zenon DEF LocalMove
<1> QED BY <1>10, <1>14 DEF Receive, Moves, StateMove, ChainMove, PoolMove

\* network/sync.go handleBlocks, up to the execution of a block.
LEMMA SyncStartMoves ==
    ASSUME IInv, NEW q \in Peer, SyncValidate(q) \/ SyncSnapshot(q)
    PROVE  Moves
<1> DEFINE x == g[q]
<1>1. q \in Goroutine /\ LocalOk(x)
  BY DEF IInv, LocalsOk, Goroutine
<1>2. x = Locals(x.pc, x.blk, x.pos, x.snap, x.txSnap, x.acc, x.batch, x.full)
  BY <1>1, Zenon DEF LocalOk
<1>3. CASE SyncValidate(q)
  <2> DEFINE b == Head(x.batch)
             rest == Tail(x.batch)
  <2>1. IsSeq(x.batch) /\ x.batch # << >> /\ \A i \in 1 .. Len(x.batch) : BlockOk(x.batch[i])
    BY <1>1, <1>3 DEF LocalOk, SyncValidate
  <2>2. Len(x.batch) \in Nat /\ Len(x.batch) >= 1
    <3>1. Len(x.batch) \in Nat /\ Len(x.batch) # 0
      BY <2>1, IsSeqProperties, Zenon
    <3> QED BY <3>1
  <2>3. /\ IsSeq(rest) /\ Len(rest) = Len(x.batch) - 1 /\ b = x.batch[1]
        /\ \A i \in 1 .. Len(x.batch) - 1 : rest[i] = x.batch[i + 1]
    BY <2>1, TailIsSeq, Zenon
  <2>4. BlockOk(b)
    BY <2>1, <2>2, <2>3
  <2>5. \A i \in 1 .. Len(rest) : BlockOk(rest[i])
    <3> SUFFICES ASSUME NEW i \in 1 .. Len(rest) PROVE BlockOk(rest[i])
      OBVIOUS
    <3>1. i \in 1 .. Len(x.batch) - 1 /\ i + 1 \in 1 .. Len(x.batch)
      BY <2>2, <2>3
    <3> QED BY <2>1, <2>3, <3>1, Zenon
  <2>6. Becomes(q, ToBlkBatch(x, "snap", b, rest)) \/ Becomes(q, Idle)
    BY <1>3 DEF SyncValidate, ToBlkBatch, Return
  <2> HIDE DEF x, b, rest
  <2>7. ToBlkBatch(x, "snap", b, rest)
          = Locals("snap", b, x.pos, x.snap, x.txSnap, x.acc, rest, x.full)
    BY <1>2, LocalUpdates
  <2>8. LocalOk(Locals("snap", b, x.pos, x.snap, x.txSnap, x.acc, rest, x.full))
    BY <1>1, <2>3, <2>4, <2>5 DEF LocalOk, Locals, PC
  <2> QED BY <1>1, <1>3, <2>6, <2>7, <2>8, IdleOk, OnlyLocal DEF SyncValidate
<1>4. CASE SyncSnapshot(q)
  <2>1. Len(saved) \in Nat
    BY DEF IInv, StateOk
  <2>2. Becomes(q, ToPosSnap(x, "exec", 1, Len(saved)))
    BY <1>4 DEF SyncSnapshot, ToPosSnap, S!NextId
  <2>3. BlockOk(x.blk)
    BY <1>1, <1>4 DEF SyncSnapshot, At, LocalOk
  <2> HIDE DEF x
  <2>4. ToPosSnap(x, "exec", 1, Len(saved))
          = Locals("exec", x.blk, 1, Len(saved), x.txSnap, x.acc, x.batch, x.full)
    BY <1>2, LocalUpdates
  <2>5. LocalOk(Locals("exec", x.blk, 1, Len(saved), x.txSnap, x.acc, x.batch, x.full))
    BY <1>1, <2>1, <2>3 DEF LocalOk, Locals, PC
  <2>6. LocalMove
    BY <1>1, <2>2, <2>4, <2>5 DEF LocalMove
  <2>7. EnvOk'
    BY <1>4 DEF SyncSnapshot, IInv, EnvOk, envVars
  <2> QED BY <1>4, <2>6, <2>7 DEF SyncSnapshot, Moves, StateMove, ChainMove, PoolMove
<1> QED BY <1>3, <1>4

\* The root is compared; the block is stored and flushed, or refused.
LEMMA SyncStoreMoves ==
    ASSUME IInv, NEW q \in Peer, SyncRoot(q) \/ SyncAdd(q) \/ SyncCommit(q)
    PROVE  Moves
<1> DEFINE x == g[q]
<1>1. q \in Goroutine /\ LocalOk(x)
  BY DEF IInv, LocalsOk, Goroutine
<1>2. x.pc \in {"exec", "add", "commit"} /\ BlockOk(x.blk)
  BY <1>1 DEF SyncRoot, SyncAdd, SyncCommit, At, LocalOk
<1>3. EnvOk'
  <2>1. CASE UNCHANGED envVars
    BY <2>1 DEF IInv, EnvOk, envVars
  <2>2. CASE Fault /\ faults < MaxFaults
    BY <2>2, BoundsAssumption, SMTT(30) DEF IInv, EnvOk, Fault
  <2> QED BY <2>1, <2>2 DEF SyncRoot, SyncAdd, SyncCommit, MayFault
<1>4. LocalMove
  <2>1. \A v \in {"revert-return", "revert-continue", "add", "commit", "next"} :
          LocalOk([x EXCEPT !.pc = v])
    BY <1>1, <1>2, GotoOk DEF PC
  <2>2. \E v \in {"revert-return", "revert-continue", "add", "commit", "next"} : Goto(q, v)
    BY DEF SyncRoot, SyncAdd, SyncCommit
  <2> QED BY <1>1, <2>1, <2>2 DEF Goto, LocalMove
<1>5. ChainMove
  BY <1>2 DEF SyncRoot, SyncAdd, SyncCommit, ChainMove
<1>6. StateMove /\ PoolMove
  BY DEF SyncRoot, SyncAdd, SyncCommit, StateMove, PoolMove
<1> QED BY <1>3, <1>4, <1>5, <1>6 DEF Moves

\* main runs again.
LEMMA RestartMoves ==
    ASSUME IInv, Restart, faults' \in Nat
    PROVE  Moves
<1>1. requests' \in [Peer -> Seq(Nat \ {0})]
  BY DEF Restart
<1>2. EnvOk'
  BY <1>1 DEF IInv, EnvOk, Restart
<1> QED BY <1>2 DEF Restart, Moves, StateMove, ChainMove, PoolMove, LocalMove

LEMMA SyncEndMoves ==
    ASSUME IInv, NEW q \in Peer, SyncRevert(q) \/ SyncDone(q)
    PROVE  Moves
<1> DEFINE x == g[q]
<1>1. q \in Goroutine /\ LocalOk(x)
  BY DEF IInv, LocalsOk, Goroutine
<1>2. CASE SyncRevert(q)
  <2>1. CASE Restart /\ faults' = faults + 1
    BY <2>1, RestartMoves DEF IInv, EnvOk
  <2>2. CASE /\ S!RevertToSnapshot(x.snap)
             /\ Goto(q, "next") \/ Return(q)
             /\ UNCHANGED <<chainVars, poolVars, envVars>>
    <3>1. LocalOk([x EXCEPT !.pc = "next"])
      BY <1>1, GotoOk DEF PC
    <3>2. LocalMove
      BY <1>1, <2>2, <3>1, IdleOk, SMTT(30) DEF Goto, Return, LocalMove
    <3>3. StateMove
      BY <1>1, <2>2 DEF StateMove, LocalOk
    <3>4. EnvOk'
      BY <2>2, SMTT(30) DEF IInv, EnvOk, envVars
    <3> QED BY <2>2, <3>2, <3>3, <3>4 DEF Moves, ChainMove, PoolMove
  <2> QED BY <1>2, <2>1, <2>2 DEF SyncRevert
<1>3. CASE SyncDone(q)
  <2>1. tip.height + 1 \in Nat \ {0}
    BY DEF IInv, ChainOk
  <2>2. requests' \in [Peer -> Seq(Nat \ {0})]
    BY <1>3, <2>1 DEF SyncDone, IInv, EnvOk
  <2>3. EnvOk'
    BY <1>3, <2>2 DEF SyncDone, IInv, EnvOk
  <2>4. LocalMove
    BY <1>1, <1>3, IdleOk DEF SyncDone, Return, LocalMove
  <2> QED BY <1>3, <2>3, <2>4 DEF SyncDone, Moves, StateMove, ChainMove, PoolMove
<1> QED BY <1>2, <1>3

LEMMA CrashMoves ==
    ASSUME IInv, Crash
    PROVE  Moves
<1>1. faults' \in Nat
  BY BoundsAssumption DEF Crash, MayFault, IInv, EnvOk
<1> QED BY <1>1, RestartMoves DEF Crash

\* Every step moves the parts in one of the ways above.
LEMMA NextMoves ==
    ASSUME IInv, [Next]_vars
    PROVE  Moves
<1>1. CASE UNCHANGED vars
  BY <1>1 DEF vars, IInv, EnvOk, envVars, Moves, StateMove, ChainMove, PoolMove, LocalMove
<1>2. CASE Produce
  <2>1. Poa \in Goroutine
    BY DEF Goroutine
  <2> QED BY <1>2, <2>1, BuildMoves, ExecMoves, SealMoves, ProduceMoves DEF Produce
<1>3. ASSUME NEW q \in Peer, Connect(q) \/ Sync(q) \/ Drop(q) PROVE Moves
  <2>1. q \in Goroutine
    BY DEF Goroutine
  <2> QED BY <1>3, <2>1, RequestMoves, ReceiveMoves, SyncStartMoves, ExecMoves,
             SyncStoreMoves, SyncEndMoves DEF Sync
<1> QED BY <1>1, <1>2, <1>3, AddMoves, TickMoves, CrashMoves DEF Next

LEMMA StateMoveOk ==
    ASSUME StateOk, StateMove
    PROVE  StateOk'
<1>1. CASE UNCHANGED stateVars
  BY <1>1 DEF StateOk, stateVars
<1>2. CASE S!Snapshot
  BY <1>2 DEF StateOk, S!Snapshot
<1>3. ASSUME NEW a \in Account, NEW v \in Seq(Tx), S!Set(a, v)
      PROVE  StateOk'
  BY <1>3 DEF StateOk, State, S!Set
<1>4. ASSUME NEW id \in Nat, S!RevertToSnapshot(id)
      PROVE  StateOk'
  <2>1. CASE S!Live(id) /\ view' = saved[id + 1] /\ saved' = SubSeq(saved, 1, id) /\ UNCHANGED disk
    <3>1. saved \in Seq(State) /\ Len(saved) \in Nat
      BY DEF StateOk
    <3>2. id + 1 \in 1 .. Len(saved) /\ id <= Len(saved)
      BY <2>1, <3>1 DEF S!Live
    <3>3. view' \in State
      BY <2>1, <3>1, <3>2
    <3>4. \A i \in 1 .. id : i \in 1 .. Len(saved)
      BY <3>1, <3>2
    <3>5. SubSeq(saved, 1, id) \in Seq(State)
      BY <3>1, <3>4
    <3> QED BY <2>1, <3>3, <3>5 DEF StateOk
  <2>2. CASE UNCHANGED <<view, saved, disk>>
    BY <2>2 DEF StateOk
  <2> QED BY <1>4, <2>1, <2>2 DEF S!RevertToSnapshot, S!vars
<1>5. CASE S!Flush
  BY <1>5 DEF StateOk, S!Flush
<1>6. CASE S!Crash
  BY <1>6 DEF StateOk, S!Crash
<1> QED BY <1>1, <1>2, <1>3, <1>4, <1>5, <1>6 DEF StateMove

\* A block that AddBlock accepts goes on top, and leaves the others alone.
LEMMA PutOnTop ==
    ASSUME ChainOk, NEW b, BlockOk(b), Follows(b), AddBlock(b)
    PROVE  /\ DOMAIN blockAt' = 0 .. tip.height + 1
           /\ tip' = b /\ b.height = tip.height + 1
           /\ blockAt'[tip.height + 1] = b
           /\ \A h \in 0 .. tip.height : blockAt'[h] = blockAt[h]
<1>1. tip.height \in Nat /\ DOMAIN blockAt = 0 .. tip.height
  BY DEF ChainOk, ChainLinked
<1>2. b.height = tip.height + 1 /\ tip' = b /\ blockAt' = Put(b)
  BY DEF Follows, AddBlock
<1> DEFINE n == tip.height
<1>3. blockAt' = [h \in 0 .. n + 1 |-> IF h = n + 1 THEN b ELSE blockAt[h]]
  <2>1. (0 .. n) \cup {n + 1} = 0 .. n + 1
    BY <1>1
  <2> QED BY <1>1, <1>2, <2>1 DEF Put
<1> QED BY <1>1, <1>2, <1>3

LEMMA ChainMoveOk ==
    ASSUME ChainOk, ChainMove
    PROVE  ChainOk'
<1>1. CASE UNCHANGED chainVars
  BY <1>1 DEF ChainOk, ChainLinked, chainVars
<1>2. ASSUME NEW b, BlockOk(b), Follows(b), AddBlock(b)
      PROVE  ChainOk'
  <2> DEFINE n == tip.height
  <2>1. /\ DOMAIN blockAt' = 0 .. n + 1
        /\ tip' = b /\ b.height = n + 1
        /\ blockAt'[n + 1] = b
        /\ \A h \in 0 .. n : blockAt'[h] = blockAt[h]
    BY <1>2, PutOnTop
  <2>2. n \in Nat /\ tip = blockAt[n] /\ blockAt[0] = Genesis
    BY DEF ChainOk, ChainLinked
  <2>3. b.prev = Hash(blockAt[n])
    BY <1>2, <2>2 DEF Follows
  <2>4. \A h \in 1 .. n : blockAt[h].height = h /\ blockAt[h].prev = Hash(blockAt[h - 1])
    BY DEF ChainOk, ChainLinked
  <2> HIDE DEF n
  <2>5. ASSUME NEW h \in 1 .. n + 1
        PROVE  blockAt'[h].height = h /\ blockAt'[h].prev = Hash(blockAt'[h - 1])
    <3>1. CASE h = n + 1
      <4>1. h - 1 = n /\ n \in 0 .. n
        BY <2>2, <3>1
      <4> QED BY <2>1, <2>3, <3>1, <4>1
    <3>2. CASE h # n + 1
      <4>1. h \in 1 .. n /\ h \in 0 .. n /\ h - 1 \in 0 .. n
        BY <2>2, <3>2
      <4> QED BY <2>1, <2>4, <4>1
    <3> QED BY <3>1, <3>2
  <2>6. tip'.height = n + 1 /\ n + 1 \in Nat /\ 0 \in 0 .. n
    BY <2>1, <2>2
  <2>7. blockAt'[0] = Genesis
    BY <2>1, <2>2, <2>6
  <2> QED BY <2>1, <2>5, <2>6, <2>7 DEF ChainOk, ChainLinked
<1> QED BY <1>1, <1>2 DEF ChainMove

LEMMA PoolMoveOk ==
    ASSUME PoolOk, PoolMove
    PROVE  PoolOk'
<1>1. CASE UNCHANGED poolVars
  BY <1>1 DEF PoolOk, MempoolInStep, poolVars
<1>0. pool \in Seq(Tx) /\ IsInjective(pool) /\ Range(pool) = held /\ IsFiniteSet(held)
  BY DEF PoolOk, MempoolInStep
<1>2. ASSUME NEW x \in Tx, Cardinality(held) < MaxMempool, x \notin held,
             held' = held \cup {x}, pool' = Append(pool, x)
      PROVE  PoolOk'
  <2>1. IsFiniteSet(held') /\ Cardinality(held') = Cardinality(held) + 1 /\ Cardinality(held) \in Nat
    BY <1>0, <1>2, FS_AddElement, FS_CardinalityType
  <2>2. Cardinality(held') <= MaxMempool
    BY <1>2, <2>1, BoundsAssumption
  <2>3. /\ Len(pool) \in Nat /\ DOMAIN pool = 1 .. Len(pool)
        /\ DOMAIN pool' = 1 .. Len(pool) + 1
        /\ pool'[Len(pool) + 1] = x
        /\ \A i \in 1 .. Len(pool) : pool'[i] = pool[i]
    BY <1>0, <1>2
  <2>4. Range(pool') = held'
    <3>1. \A i \in 1 .. Len(pool) : pool[i] \in held
      BY <1>0, <2>3 DEF Range
    <3>2. \A e \in held : \E i \in 1 .. Len(pool) : pool[i] = e
      BY <1>0, <2>3 DEF Range
    <3>3. \A i \in 1 .. Len(pool) + 1 : pool'[i] \in held'
      BY <1>2, <2>3, <3>1
    <3>4. \A e \in held' : \E i \in 1 .. Len(pool) + 1 : pool'[i] = e
      BY <1>2, <2>3, <3>2
    <3> QED BY <2>3, <3>3, <3>4 DEF Range
  <2>5. IsInjective(pool')
    <3>1. \A i \in 1 .. Len(pool) : pool[i] # x
      BY <1>0, <1>2, <2>3 DEF Range
    <3>2. \A i, j \in 1 .. Len(pool) : pool[i] = pool[j] => i = j
      BY <1>0, <2>3 DEF IsInjective
    <3>3. \A i, j \in 1 .. Len(pool) + 1 : pool'[i] = pool'[j] => i = j
      BY <2>3, <3>1, <3>2
    <3> QED BY <2>3, <3>3 DEF IsInjective
  <2>6. pool' \in Seq(Tx)
    BY <1>0, <1>2
  <2> QED BY <2>1, <2>2, <2>4, <2>5, <2>6 DEF PoolOk, MempoolInStep
<1>3. ASSUME NEW txs, RemoveAll(txs)
      PROVE  PoolOk'
  <2> DEFINE keep == Range(pool) \ Range(txs)
  <2>1. held' = held \ Range(txs) /\ pool' = Filtered(pool, keep)
    BY <1>3 DEF RemoveAll
  <2>2. IsFiniteSet(held') /\ Cardinality(held') <= Cardinality(held)
    BY <1>0, <2>1, FS_Subset
  <2>3. Cardinality(held') \in Nat /\ Cardinality(held) \in Nat
    BY <1>0, <2>2, FS_CardinalityType
  <2>4. Cardinality(held') <= MaxMempool
    BY <2>2, <2>3, BoundsAssumption DEF PoolOk
  <2>5. pool' \in Seq(Tx) /\ IsInjective(pool') /\ Range(pool') = Range(pool) \cap keep
    BY <1>0, <2>1, FilteredIs
  <2>6. Range(pool') = held'
    BY <1>0, <2>1, <2>5, Zenon
  <2> QED BY <2>2, <2>4, <2>5, <2>6, Zenon DEF PoolOk, MempoolInStep
<1>4. CASE held' = {} /\ pool' = << >>
  <2>1. IsFiniteSet({}) /\ Cardinality({}) = 0
    BY FS_EmptySet
  <2>2. pool' \in Seq(Tx) /\ DOMAIN pool' = {}
    BY <1>4
  <2>3. IsInjective(pool') /\ Range(pool') = {}
    BY <2>2 DEF IsInjective, Range
  <2> QED BY <1>4, <2>1, <2>2, <2>3, BoundsAssumption DEF PoolOk, MempoolInStep
<1> QED BY <1>1, <1>2, <1>3, <1>4 DEF PoolMove

LEMMA LocalMoveOk ==
    ASSUME LocalsOk, LocalMove
    PROVE  LocalsOk'
<1>1. CASE g' = g
  BY <1>1 DEF LocalsOk
<1>2. CASE g' = [t \in Goroutine |-> Idle]
  BY <1>2, IdleOk DEF LocalsOk
<1>3. ASSUME NEW t \in Goroutine, NEW y, LocalOk(y), Becomes(t, y)
      PROVE  LocalsOk'
  <2>1. g' = [u \in Goroutine |-> IF u = t THEN y ELSE g[u]]
    BY <1>3 DEF LocalsOk, Becomes
  <2> QED BY <1>3, <2>1 DEF LocalsOk
<1> QED BY <1>1, <1>2, <1>3 DEF LocalMove

LEMMA InitIInv == Init => IInv
<1> SUFFICES ASSUME Init PROVE IInv
  OBVIOUS
<1>1. Genesis.root \in State /\ Genesis.height = 0 /\ << >> \in Seq(State) /\ << >> \in Seq(Tx)
  BY DEF Genesis, State
<1>2. StateOk
  BY <1>1 DEF Init, StateOk
<1>3. ChainOk
  <2>1. blockAt = [h \in {0} |-> Genesis] /\ tip = Genesis
    BY DEF Init
  <2> HIDE DEF Genesis
  <2>2. 0 .. 0 = {0} /\ 1 .. 0 = {}
    OBVIOUS
  <2> QED BY <1>1, <2>1, <2>2 DEF ChainOk, ChainLinked
<1>4. PoolOk
  <2>1. IsFiniteSet({}) /\ Cardinality({}) = 0
    BY FS_EmptySet
  <2>2. pool = << >> /\ held = {} /\ DOMAIN pool = {}
    BY DEF Init
  <2>3. IsInjective(pool) /\ Range(pool) = {}
    BY <2>2 DEF IsInjective, Range
  <2> QED BY <1>1, <2>1, <2>2, <2>3, BoundsAssumption DEF PoolOk, MempoolInStep
<1>5. LocalsOk
  BY IdleOk DEF Init, LocalsOk
<1>6. EnvOk
  BY BoundsAssumption DEF Init, EnvOk
<1> QED BY <1>2, <1>3, <1>4, <1>5, <1>6 DEF IInv

LEMMA StepIInv == IInv /\ [Next]_vars => IInv'
<1> SUFFICES ASSUME IInv, [Next]_vars PROVE IInv'
  OBVIOUS
<1>1. StateMove /\ ChainMove /\ PoolMove /\ LocalMove /\ EnvOk'
  BY NextMoves DEF Moves
<1>2. StateOk /\ ChainOk /\ PoolOk /\ LocalsOk
  BY DEF IInv
<1> QED BY <1>1, <1>2, StateMoveOk, ChainMoveOk, PoolMoveOk, LocalMoveOk DEF IInv

\* The inductive invariant: what is in the state, the hash chain of
\* core/blockchain.go, the two halves of core/mempool.go in step, and the local
\* variables of every goroutine in consensus/poa.go and network/sync.go.
THEOREM Invariant == Spec => []IInv
  BY InitIInv, StepIInv, PTL DEF Spec

\* Every goroutine's variables and the shared state keep their types, and the
\* mempool its bound, whatever blocks the peers send (core/mempool.go Add,
\* network/sync.go handleBlocks).
THEOREM TypesHold == Spec => []TypeOK
<1>1. ASSUME IInv PROVE TypeOK
  <2>1. S!TypeOK
    <3>1. State \subseteq S!Map
      BY DEF State, S!Map
    <3>2. Seq(State) \subseteq Seq(S!Map)
      BY <3>1, SeqMonotonic
    <3> QED BY <1>1, <3>1, <3>2 DEF IInv, StateOk, S!TypeOK
  <2>2. DOMAIN blockAt \subseteq Nat /\ tip.height \in Nat
    BY <1>1 DEF IInv, ChainOk, ChainLinked
  <2>3. held \subseteq Tx
    <3>1. pool \in Seq(Tx) /\ held = Range(pool)
      BY <1>1 DEF IInv, PoolOk, MempoolInStep
    <3>2. DOMAIN pool = 1 .. Len(pool) /\ \A i \in 1 .. Len(pool) : pool[i] \in Tx
      BY <3>1
    <3> QED BY <3>1, <3>2 DEF Range
  <2>4. DOMAIN g = Goroutine
    BY <1>1 DEF IInv, LocalsOk
  <2>5. ASSUME NEW t \in Goroutine
        PROVE  /\ g[t].pc \in PC
               /\ {g[t].pos, g[t].snap, g[t].txSnap} \subseteq Nat
               /\ g[t].acc \in Seq(Tx)
               /\ g[t].full \in BOOLEAN
    BY <1>1 DEF IInv, LocalsOk, LocalOk
  <2> QED BY <1>1, <2>1, <2>2, <2>3, <2>4, <2>5 DEF IInv, PoolOk, EnvOk, TypeOK
<1> QED BY <1>1, Invariant, PTL

\* However the producer and any number of sync goroutines race to extend it,
\* and wherever the process dies, the stored chain is a hash chain from genesis
\* to the tip (core/blockchain.go AddBlock, storage/leveldb.go CommitBlock).
THEOREM ChainIsLinked == Spec => []ChainLinked
<1>1. IInv => ChainLinked
  BY DEF IInv, ChainOk
<1> QED BY <1>1, Invariant, PTL

\* No stored block is ever replaced or dropped (core/blockchain.go AddBlock).
THEOREM BlocksStay == Spec => AppendOnly
<1>1. ASSUME IInv, [Next]_vars
      PROVE  [\A h \in DOMAIN blockAt : h \in DOMAIN blockAt' /\ blockAt'[h] = blockAt[h]]_vars
  <2>0. ChainOk
    BY <1>1 DEF IInv
  <2>1. ChainMove
    BY <1>1, NextMoves DEF Moves
  <2>2. CASE UNCHANGED chainVars
    BY <2>2 DEF chainVars
  <2>3. ASSUME NEW b, BlockOk(b), Follows(b), AddBlock(b), NEW h \in DOMAIN blockAt
        PROVE  h \in DOMAIN blockAt' /\ blockAt'[h] = blockAt[h]
    <3>1. /\ DOMAIN blockAt' = 0 .. tip.height + 1
          /\ \A k \in 0 .. tip.height : blockAt'[k] = blockAt[k]
      BY <2>0, <2>3, PutOnTop
    <3>2. tip.height \in Nat /\ h \in 0 .. tip.height
      BY <2>0 DEF ChainOk, ChainLinked
    <3> QED BY <3>1, <3>2
  <2> QED BY <2>1, <2>2, <2>3 DEF ChainMove
<1> QED BY <1>1, Invariant, PTL DEF Spec, AppendOnly

\* The mempool's map and its order list name the same transactions, each once
\* (core/mempool.go Add, Pending and Remove).
THEOREM PoolInStep == Spec => []MempoolInStep
<1>1. IInv => MempoolInStep
  BY DEF IInv, PoolOk
<1> QED BY <1>1, Invariant, PTL

-----------------------------------------------------------------------------
(* Executing a list of transactions. *)

\* A transaction takes a state to a state, or fails.
LEMMA ApplyTxType ==
    ASSUME NEW s \in State \cup {None}, NEW x \in Tx
    PROVE  ApplyTx(s, x) \in State \cup {None}
<1>1. CASE s \in State
  <2>1. x.from \in Account /\ s[x.from] \in Seq(Tx)
    BY <1>1, TxAssumption DEF State
  <2>2. Append(s[x.from], x) \in Seq(Tx)
    BY <2>1
  <2>3. [s EXCEPT ![x.from] = Append(s[x.from], x)] \in State
    BY <1>1, <2>2, Zenon DEF State
  <2> QED BY <2>3 DEF ApplyTx
<1> QED BY <1>1 DEF ApplyTx

IsRun(f, s, txs) ==
    f = [i \in 0 .. Len(txs) |-> IF i = 0 THEN s ELSE ApplyTx(f[i - 1], txs[i])]

\* The states that a list of transactions leads to, one after the other.
LEMMA StatesRounds ==
    ASSUME NEW s \in State, NEW txs \in Seq(Tx)
    PROVE  /\ States(s, txs)[0] = s
           /\ \A i \in 1 .. Len(txs) : States(s, txs)[i] = ApplyTx(States(s, txs)[i - 1], txs[i])
<1> DEFINE n == Len(txs)
           V == State \cup {None}
           step == [p \in (1 .. n) \X V |-> ApplyTx(p[2], txs[p[1]])]
           f == States(s, txs)
<1>1. n \in Nat /\ s \in V /\ \A i \in 1 .. n : txs[i] \in Tx
  OBVIOUS
<1>2. step \in [(1 .. n) \X V -> V]
  <2> SUFFICES ASSUME NEW p \in (1 .. n) \X V PROVE ApplyTx(p[2], txs[p[1]]) \in V
    BY Zenon
  <2>1. p[1] \in 1 .. n /\ p[2] \in V
    OBVIOUS
  <2> HIDE DEF n
  <2>2. txs[p[1]] \in Tx
    BY <1>1, <2>1
  <2> QED BY <2>1, <2>2, ApplyTxType
<1>3. ASSUME NEW i \in 1 .. n, NEW v \in V
      PROVE  step[<<i, v>>] = ApplyTx(v, txs[i])
  OBVIOUS
<1> HIDE DEF n, V, step
<1>4. PICK h \in [0 .. n -> V] : Recursion(h, s, n, step)
  BY <1>1, <1>2, RecursionExists, SMTT(30)
<1>5. IsRun(h, s, txs)
  <2>1. ASSUME NEW i \in 0 .. n
        PROVE  h[i] = IF i = 0 THEN s ELSE ApplyTx(h[i - 1], txs[i])
    <3>1. h[i] = IF i = 0 THEN s ELSE step[<<i, h[i - 1]>>]
      BY <1>4, Zenon DEF Recursion
    <3>2. i # 0 => i \in 1 .. n /\ h[i - 1] \in V
      BY <1>1
    <3> QED BY <1>3, <3>1, <3>2
  <2>2. h = [i \in 0 .. n |-> h[i]]
    OBVIOUS
  <2> QED BY <2>1, <2>2 DEF IsRun, n
<1>6. f = CHOOSE r : IsRun(r, s, txs)
  BY DEF States, IsRun
<1>7. IsRun(f, s, txs)
  BY <1>5, <1>6
<1> HIDE DEF f
<1>8. f[0] = s
  BY <1>1, <1>7 DEF IsRun, n
<1>9. ASSUME NEW i \in 1 .. n
      PROVE  f[i] = ApplyTx(f[i - 1], txs[i])
  <2>1. i \in 0 .. n /\ i # 0
    BY <1>1
  <2>2. f[i] = IF i = 0 THEN s ELSE ApplyTx(f[i - 1], txs[i])
    BY <1>7, <2>1 DEF IsRun, n
  <2> QED BY <2>1, <2>2
<1> QED BY <1>8, <1>9 DEF f, n

-----------------------------------------------------------------------------
(* A sole validator: without peers, only the producer extends the chain. *)

Sole == Peer = {}

LEMMA SoleSteps ==
    ASSUME Sole, [Next]_vars
    PROVE  (\E x \in Tx : Add(x)) \/ Tick \/ Produce \/ Crash \/ UNCHANGED vars
  BY DEF Sole, Next

LEMMA LocalsFields ==
    ASSUME NEW pc, NEW blk, NEW pos, NEW snap, NEW txSnap, NEW acc, NEW batch, NEW full, NEW y,
           y = Locals(pc, blk, pos, snap, txSnap, acc, batch, full)
    PROVE  y.pc = pc /\ y.blk = blk /\ y.pos = pos /\ y.txSnap = txSnap /\ y.acc = acc
  BY DEF Locals

\* The local variables of ProduceBlock.
LEMMA PoaOk ==
    ASSUME IInv
    PROVE  /\ LocalOk(g[Poa])
           /\ \A y : Becomes(Poa, y) => g'[Poa] = y
<1>1. Poa \in Goroutine /\ DOMAIN g = Goroutine
  BY DEF Goroutine, IInv, LocalsOk
<1> QED BY <1>1 DEF IInv, LocalsOk, Becomes

LEMMA PoaTypes ==
    ASSUME IInv, g[Poa].pc \notin {"idle", "build", "next"}
    PROVE  /\ BlockOk(g[Poa].blk) /\ g[Poa].blk.txs \in Seq(Tx)
           /\ g[Poa].pos \in Nat /\ g[Poa].txSnap \in Nat
           /\ g[Poa].pc = "exec" => g[Poa].pos >= 1
<1>1. LocalOk(g[Poa])
  BY PoaOk
<1> QED BY <1>1, Zenon DEF LocalOk, BlockOk

\* What its steps make of them.
LEMMA PoaGoto ==
    ASSUME IInv, NEW v, Goto(Poa, v)
    PROVE  g'[Poa].pc = v /\ g'[Poa].blk = g[Poa].blk
<1>1. LocalOk(g[Poa]) /\ g'[Poa] = [g[Poa] EXCEPT !.pc = v]
  BY PoaOk, Zenon DEF Goto
<1>2. PICK x : x = g[Poa]
  OBVIOUS
<1>3. x = Locals(x.pc, x.blk, x.pos, x.snap, x.txSnap, x.acc, x.batch, x.full)
  BY <1>1, <1>2, Zenon DEF LocalOk
<1>4. [x EXCEPT !.pc = v] = Locals(v, x.blk, x.pos, x.snap, x.txSnap, x.acc, x.batch, x.full)
  BY <1>3 DEF Locals
<1>5. [x EXCEPT !.pc = v].pc = v /\ [x EXCEPT !.pc = v].blk = x.blk
  BY <1>4, LocalsFields
<1> QED BY <1>1, <1>2, <1>5, Zenon

LEMMA PoaReturn ==
    ASSUME IInv, Return(Poa)
    PROVE  g'[Poa].pc = "idle"
<1>1. g'[Poa] = Idle
  BY PoaOk, Zenon DEF Return
<1>2. Idle.pc = "idle"
  BY DEF Idle
<1> QED BY <1>1, <1>2, Zenon

LEMMA PoaSnapshot ==
    ASSUME IInv, ExecSnapshot(Poa)
    PROVE  /\ g'[Poa].pc = "read" /\ g'[Poa].blk = g[Poa].blk /\ g'[Poa].pos = g[Poa].pos
           /\ g'[Poa].txSnap = Len(saved)
<1>1. LocalOk(g[Poa]) /\ g'[Poa] = ToTxSnap(g[Poa], "read", Len(saved))
  BY PoaOk, Zenon DEF ExecSnapshot, S!NextId, ToTxSnap
<1>2. PICK x, w, y : x = g[Poa] /\ w = Len(saved) /\ y = g'[Poa]
  BY Zenon
<1>3. x = Locals(x.pc, x.blk, x.pos, x.snap, x.txSnap, x.acc, x.batch, x.full)
  BY <1>1, <1>2, Zenon DEF LocalOk
<1>4. y = Locals("read", x.blk, x.pos, x.snap, w, x.acc, x.batch, x.full)
  BY <1>1, <1>2, <1>3, LocalUpdates
<1>5. y.pc = "read" /\ y.blk = x.blk /\ y.pos = x.pos /\ y.txSnap = w
  BY <1>4, LocalsFields
<1> QED BY <1>2, <1>5, Zenon

LEMMA PoaRead ==
    ASSUME IInv, ExecRead(Poa), NEW c, c = CurrentTx(Poa)
    PROVE  /\ g'[Poa].pc = IF Len(view[c.from]) = c.nonce THEN "write" ELSE "undo"
           /\ g'[Poa].blk = g[Poa].blk /\ g'[Poa].pos = g[Poa].pos
           /\ g'[Poa].txSnap = g[Poa].txSnap /\ g'[Poa].acc = view[c.from]
<1>1. PICK x, acc, pc, y : /\ x = g[Poa] /\ acc = view[c.from] /\ y = g'[Poa]
                           /\ pc = IF Len(acc) = c.nonce THEN "write" ELSE "undo"
  OBVIOUS
<1>2. LocalOk(x) /\ y = ToAcc(x, pc, acc)
  BY <1>1, PoaOk, Zenon DEF ExecRead, ToAcc
<1>3. x = Locals(x.pc, x.blk, x.pos, x.snap, x.txSnap, x.acc, x.batch, x.full)
  BY <1>2, Zenon DEF LocalOk
<1>4. y = Locals(pc, x.blk, x.pos, x.snap, x.txSnap, acc, x.batch, x.full)
  BY <1>2, <1>3, LocalUpdates, Zenon
<1>5. y.pc = pc /\ y.blk = x.blk /\ y.pos = x.pos /\ y.txSnap = x.txSnap /\ y.acc = acc
  BY <1>4, LocalsFields
<1> QED BY <1>1, <1>5, Zenon

LEMMA PoaWrite ==
    ASSUME IInv, ExecWrite(Poa)
    PROVE  /\ g'[Poa].blk = g[Poa].blk
           /\ \/ CurrentTx(Poa).ok /\ g'[Poa].pc = "exec" /\ g'[Poa].pos = g[Poa].pos + 1
              \/ /\ g'[Poa].pc = "undo" /\ g'[Poa].pos = g[Poa].pos
                 /\ g'[Poa].txSnap = g[Poa].txSnap
<1>1. PICK x, p, y : x = g[Poa] /\ y = g'[Poa] /\ p = x.pos + 1
  OBVIOUS
<1>2. /\ LocalOk(x)
      /\ \/ CurrentTx(Poa).ok /\ y = ToPosAcc(x, "exec", p, << >>)
         \/ y = ToAcc(x, "undo", << >>)
  BY <1>1, PoaOk, Zenon DEF ExecWrite, ToPosAcc, ToAcc
<1>3. x = Locals(x.pc, x.blk, x.pos, x.snap, x.txSnap, x.acc, x.batch, x.full)
  BY <1>2, Zenon DEF LocalOk
<1>4. CASE CurrentTx(Poa).ok /\ y = ToPosAcc(x, "exec", p, << >>)
  <2>1. y = Locals("exec", x.blk, p, x.snap, x.txSnap, << >>, x.batch, x.full)
    BY <1>3, <1>4, LocalUpdates
  <2>2. y.pc = "exec" /\ y.blk = x.blk /\ y.pos = p
    BY <2>1, LocalsFields
  <2> QED BY <1>1, <1>4, <2>2, Zenon
<1>5. CASE y = ToAcc(x, "undo", << >>)
  <2>1. y = Locals("undo", x.blk, x.pos, x.snap, x.txSnap, << >>, x.batch, x.full)
    BY <1>3, <1>5, LocalUpdates, Zenon
  <2>2. y.pc = "undo" /\ y.blk = x.blk /\ y.pos = x.pos /\ y.txSnap = x.txSnap
    BY <2>1, LocalsFields
  <2> QED BY <1>1, <2>2, Zenon
<1> QED BY <1>2, <1>4, <1>5, Zenon

LEMMA PoaBuild ==
    ASSUME IInv, Build
    PROVE  g'[Poa].pc = "exec" /\ g'[Poa].pos = 1 /\ g'[Poa].blk.txs = Pending(MaxBlockTxs)
<1>1. PICK x, y : x = g[Poa] /\ y = g'[Poa]
  OBVIOUS
<1>2. PICK now \in Time :
        y = ToPosBlk(x, "exec", 1,
                     [height |-> tip.height + 1, prev |-> Hash(tip),
                      by |-> Self, time |-> now, sealed |-> TRUE,
                      txs |-> Pending(MaxBlockTxs), root |-> None])
  BY <1>1, PoaOk, Zenon DEF Build, ToPosBlk
<1> DEFINE b == [height |-> tip.height + 1, prev |-> Hash(tip),
                 by |-> Self, time |-> now, sealed |-> TRUE,
                 txs |-> Pending(MaxBlockTxs), root |-> None]
<1>3. b.txs = Pending(MaxBlockTxs)
  OBVIOUS
<1>4. y = ToPosBlk(x, "exec", 1, b)
  BY <1>2, Zenon
<1> HIDE DEF b
<1>5. LocalOk(x)
  BY <1>1, PoaOk, Zenon
<1>6. x = Locals(x.pc, x.blk, x.pos, x.snap, x.txSnap, x.acc, x.batch, x.full)
  BY <1>5, Zenon DEF LocalOk
<1>7. y = Locals("exec", b, 1, x.snap, x.txSnap, x.acc, x.batch, x.full)
  BY <1>4, <1>6, LocalUpdates
<1>8. y.pc = "exec" /\ y.blk = b /\ y.pos = 1
  BY <1>7, LocalsFields
<1> QED BY <1>1, <1>3, <1>8, Zenon

LEMMA PoaSeal ==
    ASSUME IInv, Seal
    PROVE  g'[Poa].pc = "add" /\ g'[Poa].blk.txs = g[Poa].blk.txs /\ g'[Poa].blk.root = view
<1>1. PICK x, y : x = g[Poa] /\ y = g'[Poa]
  OBVIOUS
<1> DEFINE b == [x.blk EXCEPT !.root = view]
<1>2. [x EXCEPT !.blk.root = view] = [x EXCEPT !.blk = b]
  OBVIOUS
<1>3. y = ToBlk(x, "add", b)
  BY <1>1, <1>2, PoaOk DEF Seal, ToBlk
<1>4. LocalOk(x) /\ x.pc = "exec"
  BY <1>1, PoaOk, Zenon DEF Seal, At
<1>5. b.txs = x.blk.txs /\ b.root = view
  OBVIOUS
<1> HIDE DEF b
<1>6. x = Locals(x.pc, x.blk, x.pos, x.snap, x.txSnap, x.acc, x.batch, x.full)
  BY <1>4, Zenon DEF LocalOk
<1>7. y = Locals("add", b, x.pos, x.snap, x.txSnap, x.acc, x.batch, x.full)
  BY <1>3, <1>6, LocalUpdates, Zenon
<1>8. y.pc = "add" /\ y.blk = b
  BY <1>7, LocalsFields
<1> QED BY <1>1, <1>5, <1>8, Zenon

\* A mined transaction that is still in the mempool has been submitted again,
\* or is in the block that ProduceBlock has just stored.
MinedWaits ==
    \A x \in held \cap Mined :
      \/ submits[x] > 1
      \/ g[Poa].pc \in {"commit", "remove"} /\ x \in Range(g[Poa].blk.txs)

LEMMA MinedWaitsStep ==
    ASSUME Sole, IInv, MinedWaits, [Next]_vars
    PROVE  MinedWaits'
<1> DEFINE p == g[Poa]
<1>0. submits \in [Tx -> 0 .. MaxSubmits] /\ MaxSubmits \in Nat
  BY BoundsAssumption DEF IInv, EnvOk
<1>1. CASE UNCHANGED vars
  BY <1>1 DEF MinedWaits, Mined, vars, chainVars, poolVars, envVars
<1>2. ASSUME NEW x \in Tx, Add(x)
      PROVE  MinedWaits'
  <2>1. /\ submits[x] = 0 => x \notin Mined
        /\ held' = held \cup {x} /\ submits' = [submits EXCEPT ![x] = @ + 1]
        /\ UNCHANGED <<chainVars, g>>
    BY <1>2 DEF Add
  <2>2. Mined' = Mined
    BY <2>1 DEF Mined, chainVars
  <2>3. submits'[x] = submits[x] + 1 /\ \A y : y # x => submits'[y] = submits[y]
    BY <1>0, <2>1
  <2>4. submits[x] \in Nat
    BY <1>0
  <2>5. ASSUME NEW y \in held' \cap Mined', y # x
        PROVE  \/ submits'[y] > 1
               \/ p.pc \in {"commit", "remove"} /\ y \in Range(p.blk.txs)
    BY <2>1, <2>2, <2>3, <2>5 DEF MinedWaits
  <2>6. x \in Mined' => submits'[x] > 1
    BY <2>1, <2>2, <2>3, <2>4
  <2> QED BY <2>1, <2>5, <2>6 DEF MinedWaits
<1>3. CASE p.pc \notin {"commit", "remove"} /\ UNCHANGED <<held, blockAt, submits>>
  BY <1>3 DEF MinedWaits, Mined
<1>4. ASSUME Tick \/ Build \/ Exec(Poa) \/ Seal
      PROVE  MinedWaits'
  <2>1. p.pc \notin {"commit", "remove"}
    BY <1>4, Zenon DEF Tick, Build, Exec, ExecSnapshot, ExecRead, ExecWrite, ExecUndo, Seal, At
  <2>2. UNCHANGED <<held, blockAt, submits>>
    BY <1>4, Zenon DEF Tick, Build, Exec, ExecSnapshot, ExecRead, ExecWrite, ExecUndo, Seal,
                chainVars, poolVars, envVars
  <2> QED BY <1>3, <2>1, <2>2
<1>5. ASSUME ProduceAdd
      PROVE  MinedWaits'
  <2>0. p.pc = "add" /\ UNCHANGED poolVars
    BY <1>5 DEF ProduceAdd, At
  <2>1. CASE UNCHANGED chainVars /\ UNCHANGED submits
    BY <1>3, <2>0, <2>1 DEF chainVars, poolVars
  <2>2. CASE /\ Follows(p.blk) /\ AddBlock(p.blk)
             /\ Goto(Poa, "commit") /\ UNCHANGED envVars
    <3>1. BlockOk(p.blk) /\ ChainOk
      BY <2>0, PoaTypes DEF IInv
    <3>2. /\ DOMAIN blockAt' = 0 .. tip.height + 1
          /\ blockAt'[tip.height + 1] = p.blk
          /\ \A h \in 0 .. tip.height : blockAt'[h] = blockAt[h]
      BY <2>2, <3>1, PutOnTop
    <3>3. tip.height \in Nat /\ DOMAIN blockAt = 0 .. tip.height
      BY <3>1 DEF ChainOk, ChainLinked
    <3>4. \A h \in DOMAIN blockAt' :
            \/ h = tip.height + 1
            \/ h \in DOMAIN blockAt /\ blockAt'[h] = blockAt[h]
      BY <3>2, <3>3
    <3>5. ASSUME NEW y \in Mined'
          PROVE  y \in Mined \/ y \in Range(p.blk.txs)
      BY <3>2, <3>4 DEF Mined
    <3>7. g'[Poa].pc = "commit" /\ g'[Poa].blk = p.blk
      BY <2>2, PoaGoto
    <3>8. held' = held /\ submits' = submits
      BY <2>0, <2>2 DEF poolVars, envVars
    <3>9. ASSUME NEW y \in held' \cap Mined'
          PROVE  submits'[y] > 1 \/ y \in Range(p.blk.txs)
      BY <2>0, <3>5, <3>8, <3>9 DEF MinedWaits
    <3> QED BY <3>7, <3>9 DEF MinedWaits
  <2> QED BY <1>5, <2>1, <2>2 DEF ProduceAdd, Fault, envVars
<1>6. ASSUME ProduceCommit
      PROVE  MinedWaits'
  <2>1. /\ p.pc = "commit" /\ Goto(Poa, "remove")
        /\ UNCHANGED <<held, blockAt, submits>>
    BY <1>6 DEF ProduceCommit, At, chainVars, poolVars, envVars
  <2>3. g'[Poa].pc = "remove" /\ g'[Poa].blk = p.blk
    BY <2>1, PoaGoto
  <2> QED BY <2>1, <2>3 DEF MinedWaits, Mined
<1>7. ASSUME ProduceRemove
      PROVE  MinedWaits'
  <2>1. held' = held \ Range(p.blk.txs) /\ UNCHANGED <<blockAt, submits>>
    BY <1>7 DEF ProduceRemove, RemoveAll, chainVars, envVars
  <2> QED BY <2>1 DEF MinedWaits, Mined
<1>8. ASSUME Crash
      PROVE  MinedWaits'
  BY <1>8 DEF Crash, Restart, MinedWaits
<1> QED BY <1>1, <1>2, <1>4, <1>5, <1>6, <1>7, <1>8, SoleSteps DEF Produce

\* With one validator and each transaction submitted once, what is mined is not
\* in the mempool between blocks, whatever the transactions do when executed,
\* wherever the process dies and whichever writes fail (consensus/poa.go
\* ProduceBlock calls core/mempool.go Remove; network/sync.go never does, and
\* Add takes a mined transaction back).
THEOREM SoleMinedLeavesPool ==
    ASSUME Sole, MaxSubmits <= 1
    PROVE  Spec => []MinedLeavesPool
<1>1. Init => MinedWaits
  BY DEF Init, MinedWaits
<1>2. IInv /\ MinedWaits /\ [Next]_vars => MinedWaits'
  BY MinedWaitsStep
<1>3. IInv /\ MinedWaits => MinedLeavesPool
  <2> SUFFICES ASSUME IInv, MinedWaits, AtRest, NEW x \in held \cap Mined PROVE FALSE
    BY DEF MinedLeavesPool
  <2>1. g[Poa].pc \in {"idle", "build"}
    BY DEF AtRest, Goroutine
  <2>2. held = Range(pool) /\ pool \in Seq(Tx)
    BY DEF IInv, PoolOk, MempoolInStep
  <2>3. x \in Tx
    BY <2>2, RangeOfSeq
  <2>4. submits[x] \in 0 .. MaxSubmits /\ MaxSubmits \in Nat
    BY <2>3, BoundsAssumption DEF IInv, EnvOk
  <2>5. submits[x] > 1
    BY <2>1 DEF MinedWaits
  <2> QED BY <2>4, <2>5
<1> QED BY <1>1, <1>2, <1>3, Invariant, PTL DEF Spec

-----------------------------------------------------------------------------
(* What a failed block of a sole validator leaves behind. *)

LEMMA StatesType ==
    ASSUME NEW s \in State, NEW txs \in Seq(Tx)
    PROVE  \A i \in 0 .. Len(txs) : States(s, txs)[i] \in State \cup {None}
<1> DEFINE n == Len(txs)
           f == States(s, txs)
           G == {i \in Nat : i <= n => f[i] \in State \cup {None}}
<1>1. n \in Nat /\ f[0] = s /\ \A i \in 1 .. n : txs[i] \in Tx /\ f[i] = ApplyTx(f[i - 1], txs[i])
  BY StatesRounds
<1> HIDE DEF n, f
<1>2. 0 \in G
  BY <1>1
<1>3. ASSUME NEW i \in Nat, i \in G PROVE i + 1 \in G
  <2> SUFFICES ASSUME i + 1 <= n PROVE f[i + 1] \in State \cup {None}
    OBVIOUS
  <2>1. i + 1 \in 1 .. n /\ (i + 1) - 1 = i /\ i <= n
    BY <1>1
  <2>2. f[i] \in State \cup {None}
    BY <1>3, <2>1
  <2> QED BY <1>1, <2>1, <2>2, ApplyTxType
<1> HIDE DEF G
<1>4. Nat \subseteq G
  BY <1>2, <1>3, NatSetInduction
<1> QED BY <1>1, <1>4 DEF n, f, G

\* The transactions of the block are the oldest in the mempool.
FromPool(txs) ==
    /\ Len(txs) <= MaxBlockTxs /\ Len(txs) <= Len(pool)
    /\ \A i \in 1 .. Len(txs) : pool[i] = txs[i]

\* Before transaction p of a block, the state s is what the committed state and
\* the transactions before p give, or one of the others is going to fail.
Ahead(txs, p, s) ==
    \/ p \in 1 .. Len(txs) + 1 /\ s = States(disk, txs)[p - 1]
    \/ \E i \in p .. Len(txs) : Spent(s, txs[i])

\* Where ProduceBlock is, and what is buffered: between blocks, nothing or what
\* keeps every further block from being sealed.
Producing(x) ==
    LET txs == x.blk.txs
        before == saved[x.txSnap + 1]
    IN
    /\ x.pc \in {"idle", "build"} => view = disk \/ Stuck(view)
    /\ x.pc \in {"exec", "read", "write", "undo", "add"} => FromPool(txs)
    /\ x.pc = "exec" => Ahead(txs, x.pos, view)
    /\ x.pc \in {"read", "write", "undo"} =>
         /\ Len(saved) = x.txSnap + 1
         /\ x.pos \in 1 .. Len(txs)
         /\ Ahead(txs, x.pos, before)
    /\ x.pc \in {"read", "write"} => view = before
    /\ x.pc = "write" => /\ x.acc = view[txs[x.pos].from]
                         /\ Len(x.acc) = txs[x.pos].nonce
    /\ x.pc = "add" => view = x.blk.root /\ view = Replay(disk, txs)
    /\ x.pc = "commit" => view = tip.root
    /\ x.pc = "remove" => view = disk

NoCrash == faults = 0 \/ "crash" \notin FaultKind

SoleInv ==
    /\ Producing(g[Poa])
    /\ \E h \in 0 .. tip.height : disk = blockAt[h].root
    /\ NoCrash => ChainReplays /\ (g[Poa].pc # "commit" => disk = tip.root)

\* A transaction that has just succeeded is spent.
LEMMA SpentOnceApplied ==
    ASSUME NEW r \in State \cup {None}, NEW x \in Tx, ApplyTx(r, x) # None
    PROVE  Spent(ApplyTx(r, x), x)
<1>1. /\ r # None /\ Len(r[x.from]) = x.nonce
      /\ ApplyTx(r, x) = [r EXCEPT ![x.from] = Append(r[x.from], x)]
  BY DEF ApplyTx
<1>2. r \in State /\ x.from \in Account /\ x.nonce \in Nat
  BY <1>1, TxAssumption
<1>3. r[x.from] \in Seq(Tx)
  BY <1>2 DEF State
<1>4. ApplyTx(r, x)[x.from] = Append(r[x.from], x)
  BY <1>1, <1>2 DEF State
<1>5. Len(Append(r[x.from], x)) = x.nonce + 1
  BY <1>1, <1>3
<1> QED BY <1>2, <1>4, <1>5 DEF Spent

\* Whatever ProduceBlock leaves in the state when it gives up a block is the
\* committed state, or has spent a transaction of the next block.
LEMMA LeftBehind ==
    ASSUME IInv, NEW txs \in Seq(Tx), NEW s \in State, NEW p \in 1 .. Len(txs) + 1,
           FromPool(txs), Ahead(txs, p, s)
    PROVE  s = disk \/ Stuck(s)
<1>1. Len(txs) \in Nat /\ pool \in Seq(Tx) /\ Len(pool) \in Nat /\ MaxBlockTxs \in Nat
  BY BoundsAssumption DEF IInv, PoolOk
<1>2. ASSUME NEW i \in 1 .. Len(txs), Spent(s, txs[i])
      PROVE  Stuck(s)
  <2>1. i \in 1 .. Len(pool) /\ i <= MaxBlockTxs /\ pool[i] = txs[i]
    BY <1>1 DEF FromPool
  <2> QED BY <1>2, <2>1 DEF Stuck
<1>3. ASSUME NEW i \in p .. Len(txs), Spent(s, txs[i])
      PROVE  Stuck(s)
  <2>1. i \in 1 .. Len(txs)
    BY <1>1
  <2> QED BY <1>2, <1>3, <2>1
<1>4. CASE s = States(disk, txs)[p - 1]
  <2>0. disk \in State
    BY DEF IInv, StateOk
  <2>1. CASE p = 1
    BY <1>4, <2>0, <2>1, StatesRounds
  <2>2. CASE p # 1
    <3> DEFINE i == p - 1
               r == States(disk, txs)[i - 1]
    <3>1. i \in 1 .. Len(txs) /\ i - 1 \in 0 .. Len(txs) /\ txs[i] \in Tx
      BY <1>1, <2>2
    <3>2. r \in State \cup {None}
      BY <2>0, <3>1, StatesType
    <3>3. s = ApplyTx(r, txs[i])
      BY <1>4, <2>0, <3>1, StatesRounds
    <3>4. s # None
      BY NoneAssumption DEF State
    <3> HIDE DEF i, r
    <3>5. Spent(s, txs[i])
      BY <3>1, <3>2, <3>3, <3>4, SpentOnceApplied, Zenon
    <3> QED BY <1>2, <3>1, <3>5
  <2> QED BY <2>1, <2>2
<1> QED BY <1>3, <1>4 DEF Ahead

\* A block takes the oldest transactions, as many as fit.
LEMMA PendingIsPrefix ==
    ASSUME IInv, NEW txs, txs = Pending(MaxBlockTxs)
    PROVE  /\ FromPool(txs)
           /\ Len(txs) = MaxBlockTxs \/ Len(txs) = Len(pool)
<1> DEFINE n == Len(pool)
           k == IF MaxBlockTxs < n THEN MaxBlockTxs ELSE n
<1>1. pool \in Seq(Tx) /\ Range(pool) = held /\ n \in Nat /\ MaxBlockTxs \in Nat
  BY BoundsAssumption DEF IInv, PoolOk, MempoolInStep
<1>2. Filtered(pool, held) = pool
  BY <1>1, FilteredAll
<1>3. txs = SubSeq(pool, 1, k)
  BY <1>2 DEF Pending
<1>4. k \in 0 .. n /\ k <= MaxBlockTxs /\ (k = MaxBlockTxs \/ k = n)
  BY <1>1
<1> HIDE DEF k
<1>5. Len(txs) = k /\ \A i \in 1 .. k : txs[i] = pool[i]
  BY <1>1, <1>3, <1>4
<1> QED BY <1>4, <1>5 DEF FromPool

\* A transaction that arrives goes behind the others.
LEMMA AddProducing ==
    ASSUME IInv, Producing(g[Poa]), NEW t \in Tx, Add(t)
    PROVE  Producing(g[Poa])'
<1> DEFINE x == g[Poa]
           txs == x.blk.txs
<1>1. pool' = Append(pool, t) /\ UNCHANGED <<view, saved, disk, tip, g>>
  BY DEF Add, stateVars, chainVars
<1>2. pool \in Seq(Tx)
  BY DEF IInv, PoolOk
<1>3. /\ Len(pool) \in Nat /\ Len(pool') = Len(pool) + 1
      /\ \A i \in 1 .. Len(pool) : pool'[i] = pool[i]
  BY <1>1, <1>2
<1>4. Stuck(view) => Stuck(view)'
  <2> SUFFICES ASSUME NEW i \in 1 .. Len(pool), i <= MaxBlockTxs, Spent(view, pool[i])
               PROVE  Stuck(view)'
    BY DEF Stuck
  <2>1. i \in 1 .. Len(pool') /\ Spent(view', pool'[i])
    BY <1>1, <1>3
  <2> QED BY <2>1 DEF Stuck
<1>5. x.pc \in {"exec", "read", "write", "undo", "add"} => txs \in Seq(Tx)
  BY PoaTypes
<1>6. txs \in Seq(Tx) /\ FromPool(txs) => FromPool(txs)'
  BY <1>1, <1>3 DEF FromPool
<1>7. \A p, s : Ahead(txs, p, s) => Ahead(txs, p, s)'
  BY <1>1 DEF Ahead
<1> QED BY <1>1, <1>4, <1>5, <1>6, <1>7, Zenon DEF Producing

\* The block starts on what the state is, with the oldest transactions.
LEMMA StartProducing ==
    ASSUME IInv, Producing(g[Poa]), Tick \/ Build
    PROVE  Producing(g[Poa])'
<1> DEFINE x == g[Poa]
           y == g'[Poa]
<1>1. UNCHANGED <<view, saved, disk, tip, pool>>
  BY Zenon DEF Tick, Build, stateVars, chainVars, poolVars
<1>2. x.pc \in {"idle", "build"}
  BY Zenon DEF Tick, Build, At
<1>3. view = disk \/ Stuck(view)
  BY <1>2 DEF Producing
<1>4. CASE Tick
  <2>2. y.pc = "build"
    BY <1>4, PoaGoto, Zenon DEF Tick
  <2>3. view' = disk' \/ Stuck(view)'
    BY <1>1, <1>3 DEF Stuck
  <2> QED BY <2>2, <2>3, Zenon DEF Producing
<1>5. CASE Build
  <2>1. PICK txs : txs = Pending(MaxBlockTxs)
    OBVIOUS
  <2>2. y.pc = "exec" /\ y.blk.txs = txs /\ y.pos = 1
    BY <1>5, <2>1, PoaBuild
  <2>3. FromPool(txs) /\ (Len(txs) = MaxBlockTxs \/ Len(txs) = Len(pool))
    BY <2>1, PendingIsPrefix
  <2>0. MaxBlockTxs \in Nat
    BY BoundsAssumption
  <2>4. txs \in Seq(Tx) /\ disk \in State /\ Len(pool) \in Nat /\ MaxBlockTxs \in Nat
    <3>1. txs \in Seq(Tx)
      BY <2>0, <2>1, PendingIsSeq
    <3> QED BY <2>0, <3>1 DEF IInv, StateOk, PoolOk
  <2>5. Ahead(txs, 1, view)
    <3>1. CASE view = disk
      <4>1. 1 \in 1 .. Len(txs) + 1 /\ States(disk, txs)[1 - 1] = disk
        BY <2>4, StatesRounds
      <4> QED BY <3>1, <4>1 DEF Ahead
    <3>2. CASE Stuck(view)
      <4>1. PICK i \in 1 .. Len(pool) : i <= MaxBlockTxs /\ Spent(view, pool[i])
        BY <3>2 DEF Stuck
      <4>2. i \in 1 .. Len(txs) /\ pool[i] = txs[i]
        BY <2>3, <2>4, <4>1 DEF FromPool
      <4> QED BY <4>1, <4>2 DEF Ahead
    <3> QED BY <1>3, <3>1, <3>2
  <2>6. FromPool(txs)' /\ Ahead(txs, 1, view)'
    BY <1>1, <2>3, <2>5 DEF FromPool, Ahead
  <2> QED BY <2>2, <2>6, Zenon DEF Producing
<1> QED BY <1>4, <1>5

\* What is spent stays spent, whichever transaction is executed next.
LEMMA SpentStays ==
    ASSUME NEW s \in State, NEW c \in Tx, NEW e \in Tx, Spent(s, e)
    PROVE  Spent([s EXCEPT ![c.from] = Append(s[c.from], c)], e)
<1> DEFINE t == [s EXCEPT ![c.from] = Append(s[c.from], c)]
<1>1. c.from \in Account /\ e.from \in Account /\ e.nonce \in Nat
  BY TxAssumption
<1>2. s[e.from] \in Seq(Tx)
  BY <1>1 DEF State
<1>3. t[e.from] = IF e.from = c.from THEN Append(s[e.from], c) ELSE s[e.from]
  BY <1>1 DEF State
<1> HIDE DEF t
<1>4. Len(s[e.from]) \in Nat /\ Len(Append(s[e.from], c)) = Len(s[e.from]) + 1
  BY <1>2
<1>5. Len(s[e.from]) > e.nonce
  BY DEF Spent
<1>6. Len(t[e.from]) > e.nonce
  BY <1>1, <1>3, <1>4, <1>5
<1> QED BY <1>6 DEF Spent, t

\* A transaction of the block that succeeds.
LEMMA AheadAdvances ==
    ASSUME disk \in State, NEW txs \in Seq(Tx), NEW p \in 1 .. Len(txs), NEW s \in State,
           NEW c, c = txs[p], Ahead(txs, p, s), c.ok, Len(s[c.from]) = c.nonce
    PROVE  Ahead(txs, p + 1, [s EXCEPT ![c.from] = Append(s[c.from], c)])
<1> DEFINE t == [s EXCEPT ![c.from] = Append(s[c.from], c)]
<1>1. c \in Tx /\ c.nonce \in Nat /\ Len(txs) \in Nat /\ p \in Nat
  BY TxAssumption
<1>2. CASE s = States(disk, txs)[p - 1]
  <2>1. States(disk, txs)[p] = ApplyTx(s, c)
    BY <1>2, StatesRounds
  <2>2. ApplyTx(s, c) = t
    BY NoneAssumption DEF ApplyTx, State
  <2>3. p + 1 \in 1 .. Len(txs) + 1 /\ (p + 1) - 1 = p
    BY <1>1
  <2> QED BY <2>1, <2>2, <2>3 DEF Ahead
<1>3. ASSUME NEW i \in p .. Len(txs), Spent(s, txs[i])
      PROVE  Ahead(txs, p + 1, t)
  <2>1. i # p
    BY <1>1, <1>3 DEF Spent
  <2>2. i \in p + 1 .. Len(txs) /\ txs[i] \in Tx
    BY <1>1, <2>1
  <2>3. Spent(t, txs[i])
    BY <1>1, <1>3, <2>2, SpentStays
  <2> HIDE DEF t
  <2> QED BY <2>2, <2>3 DEF Ahead
<1> QED BY <1>2, <1>3, Zenon DEF Ahead

LEMMA SnapshotProducing ==
    ASSUME IInv, Producing(g[Poa]), ExecSnapshot(Poa)
    PROVE  Producing(g[Poa])'
<1> DEFINE x == g[Poa]
           y == g'[Poa]
<1>1. PICK txs, pos, len : txs = x.blk.txs /\ pos = x.pos /\ len = Len(saved)
  BY Zenon
<1>2. /\ x.pc = "exec" /\ pos <= Len(txs) /\ saved' = Append(saved, view)
      /\ UNCHANGED <<view, disk, tip, pool>>
  BY <1>1 DEF ExecSnapshot, At, S!Snapshot, chainVars, poolVars
<1>3. txs \in Seq(Tx) /\ pos \in Nat /\ pos >= 1
  BY <1>1, <1>2, PoaTypes
<1>5. y.pc = "read" /\ y.blk.txs = txs /\ y.pos = pos /\ y.txSnap = len
  BY <1>1, PoaSnapshot
<1>6. Len(saved') = len + 1 /\ saved'[len + 1] = view
  BY <1>1, <1>2 DEF IInv, StateOk
<1>7. pos \in 1 .. Len(txs)
  BY <1>2, <1>3
<1>8. FromPool(txs) /\ Ahead(txs, pos, view)
  BY <1>1, <1>2, Zenon DEF Producing
<1>9. FromPool(txs)' /\ Ahead(txs, pos, view)'
  BY <1>2, <1>8 DEF FromPool, Ahead
<1> QED BY <1>2, <1>5, <1>6, <1>7, <1>9, Zenon DEF Producing

\* While a transaction is executed, the snapshot under it is there.
LEMMA InTransaction ==
    ASSUME IInv, Producing(g[Poa]), g[Poa].pc \in {"read", "write", "undo"},
           NEW txs, NEW pos, NEW id, NEW s,
           txs = g[Poa].blk.txs, pos = g[Poa].pos, id = g[Poa].txSnap, s = saved[id + 1]
    PROVE  /\ txs \in Seq(Tx) /\ pos \in 1 .. Len(txs) /\ txs[pos] \in Tx /\ id \in Nat
           /\ FromPool(txs) /\ Len(saved) = id + 1 /\ s \in State /\ Ahead(txs, pos, s)
           /\ CurrentTx(Poa) = txs[pos]
<1>1. /\ FromPool(txs) /\ Len(saved) = id + 1 /\ pos \in 1 .. Len(txs) /\ Ahead(txs, pos, s)
  BY Zenon DEF Producing
<1>2. txs \in Seq(Tx) /\ id \in Nat
  BY PoaTypes
<1>3. saved \in Seq(State) /\ id + 1 \in 1 .. Len(saved)
  BY <1>1, <1>2 DEF IInv, StateOk
<1> QED BY <1>1, <1>2, <1>3 DEF CurrentTx

LEMMA ReadProducing ==
    ASSUME IInv, Producing(g[Poa]), ExecRead(Poa)
    PROVE  Producing(g[Poa])'
<1> DEFINE x == g[Poa]
           y == g'[Poa]
<1>1. PICK txs, pos, id, s, c :
        txs = x.blk.txs /\ pos = x.pos /\ id = x.txSnap /\ s = saved[id + 1] /\ c = txs[pos]
  OBVIOUS
<1>2. /\ x.pc = "read" /\ view = s
      /\ UNCHANGED <<view, saved, disk, tip, pool>>
  BY <1>1 DEF ExecRead, At, stateVars, chainVars, poolVars, Producing
<1>3. /\ FromPool(txs) /\ Len(saved) = id + 1 /\ pos \in 1 .. Len(txs) /\ Ahead(txs, pos, s)
      /\ CurrentTx(Poa) = c
  BY <1>1, <1>2, InTransaction, Zenon
<1>4. PICK acc, pc : acc = s[c.from] /\ pc = IF Len(acc) = c.nonce THEN "write" ELSE "undo"
  OBVIOUS
<1>6. y.pc = pc /\ y.blk.txs = txs /\ y.pos = pos /\ y.txSnap = id /\ y.acc = acc
  BY <1>1, <1>2, <1>3, <1>4, PoaRead, Zenon
<1>7. pc = "undo" \/ (pc = "write" /\ Len(acc) = c.nonce)
  BY <1>4
<1>8. FromPool(txs)' /\ Ahead(txs, pos, s)'
  BY <1>2, <1>3 DEF FromPool, Ahead
<1> QED BY <1>1, <1>2, <1>3, <1>4, <1>6, <1>7, <1>8, Zenon DEF Producing

LEMMA WriteProducing ==
    ASSUME IInv, Producing(g[Poa]), ExecWrite(Poa)
    PROVE  Producing(g[Poa])'
<1> DEFINE x == g[Poa]
           y == g'[Poa]
<1>1. PICK txs, pos, id, s, c :
        txs = x.blk.txs /\ pos = x.pos /\ id = x.txSnap /\ s = saved[id + 1] /\ c = txs[pos]
  OBVIOUS
<1>2. x.pc = "write" /\ view = s /\ x.acc = s[c.from] /\ Len(s[c.from]) = c.nonce
  BY <1>1, Zenon DEF ExecWrite, At, Producing
<1>3. /\ txs \in Seq(Tx) /\ pos \in 1 .. Len(txs) /\ FromPool(txs) /\ Len(saved) = id + 1
      /\ s \in State /\ Ahead(txs, pos, s) /\ CurrentTx(Poa) = c /\ disk \in State
  BY <1>1, <1>2, InTransaction, Zenon DEF IInv, StateOk
<1>4. /\ view' = [s EXCEPT ![c.from] = Append(s[c.from], c)]
      /\ UNCHANGED <<saved, disk, tip, pool>>
  BY <1>2, <1>3 DEF ExecWrite, S!Set, chainVars, poolVars
<1>5. FromPool(txs)' /\ \A p, v : Ahead(txs, p, v) => Ahead(txs, p, v)'
  BY <1>3, <1>4, Zenon DEF FromPool, Ahead
<1>6. ASSUME c.ok, y.pc = "exec", y.blk.txs = txs, y.pos = pos + 1
      PROVE  Producing(g[Poa])'
  <2>2. PICK t : t = [s EXCEPT ![c.from] = Append(s[c.from], c)]
    BY Zenon
  <2>3. Ahead(txs, pos + 1, t)
    BY <1>1, <1>2, <1>3, <1>6, <2>2, AheadAdvances, Zenon
  <2>4. Ahead(txs, pos + 1, t)' /\ view' = t
    BY <1>4, <1>5, <2>2, <2>3
  <2> QED BY <1>5, <1>6, <2>4, Zenon DEF Producing
<1>7. ASSUME y.pc = "undo", y.blk.txs = txs, y.pos = pos, y.txSnap = id
      PROVE  Producing(g[Poa])'
  BY <1>1, <1>3, <1>4, <1>5, <1>7, Zenon DEF Producing
<1> QED
  <2>1. /\ y.blk.txs = txs
        /\ \/ c.ok /\ y.pc = "exec" /\ y.pos = pos + 1
           \/ y.pc = "undo" /\ y.pos = pos /\ y.txSnap = id
    BY <1>1, <1>3, PoaWrite
  <2> QED BY <1>6, <1>7, <2>1, Zenon

\* A transaction that fails is rolled back, and the ones before it stay.
LEMMA UndoProducing ==
    ASSUME IInv, Producing(g[Poa]), ExecUndo(Poa)
    PROVE  Producing(g[Poa])'
<1> DEFINE x == g[Poa]
<1>1. PICK txs, pos, id, s :
        txs = x.blk.txs /\ pos = x.pos /\ id = x.txSnap /\ s = saved[id + 1]
  OBVIOUS
<1>2. x.pc = "undo" /\ S!RevertToSnapshot(id) /\ Return(Poa) /\ UNCHANGED pool
  BY <1>1, SMTT(30) DEF ExecUndo, At, poolVars
<1>3. /\ txs \in Seq(Tx) /\ pos \in 1 .. Len(txs) /\ FromPool(txs) /\ Len(saved) = id + 1
      /\ s \in State /\ Ahead(txs, pos, s) /\ id \in Nat
  BY <1>1, <1>2, InTransaction
<1>4. S!Live(id)
  BY <1>3 DEF S!Live
<1>5. view' = s /\ disk' = disk
  BY <1>1, <1>2, <1>4 DEF S!RevertToSnapshot
<1>6. pos \in 1 .. Len(txs) + 1
  BY <1>3
<1>7. s = disk \/ Stuck(s)
  BY <1>3, <1>6, LeftBehind
<1>8. view' = disk' \/ Stuck(view)'
  BY <1>2, <1>5, <1>7 DEF Stuck
<1>9. g'[Poa].pc = "idle"
  BY <1>2, PoaReturn
<1> QED BY <1>8, <1>9, Zenon DEF Producing

\* Nothing in the block is going to fail once all of it is executed.
LEMMA SealProducing ==
    ASSUME IInv, Producing(g[Poa]), Seal
    PROVE  Producing(g[Poa])'
<1> DEFINE x == g[Poa]
           y == g'[Poa]
<1>1. PICK txs, pos : txs = x.blk.txs /\ pos = x.pos
  OBVIOUS
<1>2. x.pc = "exec" /\ pos > Len(txs) /\ UNCHANGED <<view, disk, tip, pool>>
  BY <1>1 DEF Seal, At, stateVars, chainVars, poolVars
<1>3. txs \in Seq(Tx) /\ pos \in Nat
  BY <1>1, <1>2, PoaTypes
<1>4. FromPool(txs) /\ Ahead(txs, pos, view)
  BY <1>1, <1>2, Zenon DEF Producing
<1>5. view = Replay(disk, txs)
  <2>1. pos .. Len(txs) = {} /\ Len(txs) \in Nat
    BY <1>2, <1>3
  <2>2. pos \in 1 .. Len(txs) + 1 /\ view = States(disk, txs)[pos - 1]
    BY <1>4, <2>1 DEF Ahead
  <2>3. pos - 1 = Len(txs)
    BY <1>2, <1>3, <2>1, <2>2
  <2> QED BY <2>2, <2>3 DEF Replay
<1>7. y.pc = "add" /\ y.blk.txs = txs /\ y.blk.root = view
  BY <1>1, PoaSeal
<1>8. FromPool(txs)' /\ view' = Replay(disk', txs)
  BY <1>2, <1>4, <1>5 DEF FromPool
<1> QED BY <1>2, <1>7, <1>8, Zenon DEF Producing

\* The block is stored, or given up with its effects left in the state.
LEMMA StoreProducing ==
    ASSUME IInv, Producing(g[Poa]), ProduceAdd
    PROVE  Producing(g[Poa])'
<1> DEFINE x == g[Poa]
           y == g'[Poa]
<1>1. PICK txs : txs = x.blk.txs
  OBVIOUS
<1>2. x.pc = "add" /\ UNCHANGED <<view, disk, pool>>
  BY DEF ProduceAdd, At, stateVars, poolVars
<1>3. txs \in Seq(Tx) /\ Len(txs) \in Nat
  <2>1. txs \in Seq(Tx)
    BY <1>1, <1>2, PoaTypes, SMTT(30)
  <2> QED BY <2>1
<1>4. FromPool(txs) /\ view = x.blk.root /\ view = Replay(disk, txs)
  BY <1>1, <1>2 DEF Producing
<1>5. CASE AddBlock(x.blk) /\ Goto(Poa, "commit")
  <2>1. tip'.root = view'
    BY <1>2, <1>4, <1>5, Zenon DEF AddBlock
  <2>3. y.pc = "commit"
    BY <1>5, PoaGoto
  <2> QED BY <2>1, <2>3, Zenon DEF Producing
<1>6. CASE Return(Poa)
  <2>1. Len(txs) + 1 \in 1 .. Len(txs) + 1 /\ (Len(txs) + 1) - 1 = Len(txs)
    BY <1>3, SMTT(30)
  <2>2. Ahead(txs, Len(txs) + 1, view)
    BY <1>4, <2>1 DEF Ahead, Replay
  <2>3. view = disk \/ Stuck(view)
    BY <1>3, <1>4, <2>1, <2>2, LeftBehind, SMTT(30) DEF IInv, StateOk
  <2>4. view' = disk' \/ Stuck(view)'
    BY <1>2, <2>3 DEF Stuck
  <2>5. y.pc = "idle"
    BY <1>6, PoaReturn
  <2> QED BY <2>4, <2>5, Zenon DEF Producing
<1> QED BY <1>5, <1>6 DEF ProduceAdd

LEMMA EndProducing ==
    ASSUME IInv, Producing(g[Poa]), ProduceCommit \/ ProduceRemove \/ Crash
    PROVE  Producing(g[Poa])'
<1> DEFINE x == g[Poa]
           y == g'[Poa]
<1>1. CASE ProduceCommit
  <2>1. Goto(Poa, "remove") /\ view' = disk'
    BY <1>1 DEF ProduceCommit, S!Flush
  <2>3. y.pc = "remove"
    BY <2>1, PoaGoto
  <2> QED BY <2>1, <2>3, Zenon DEF Producing
<1>2. CASE ProduceRemove
  <2>1. x.pc = "remove" /\ Return(Poa) /\ UNCHANGED <<view, disk>>
    BY <1>2 DEF ProduceRemove, At, stateVars
  <2>2. view' = disk'
    BY <2>1, Zenon DEF Producing
  <2>3. y.pc = "idle"
    BY <2>1, PoaReturn
  <2> QED BY <2>2, <2>3, Zenon DEF Producing
<1>3. CASE Crash
  <2>1. view' = disk' /\ y = Idle
    BY <1>3 DEF Crash, Restart, S!Crash, Goroutine
  <2>2. y.pc = "idle"
    BY <2>1, SMTT(30) DEF Idle
  <2> QED BY <2>1, <2>2, Zenon DEF Producing
<1> QED BY <1>1, <1>2, <1>3

LEMMA StepProducing ==
    ASSUME Sole, IInv, Producing(g[Poa]), [Next]_vars
    PROVE  Producing(g[Poa])'
<1>1. CASE UNCHANGED vars
  BY <1>1, Zenon DEF vars, stateVars, chainVars, poolVars, Producing, FromPool, Stuck, Ahead
<1> QED BY <1>1, SoleSteps, AddProducing, StartProducing, SnapshotProducing, ReadProducing,
           WriteProducing, UndoProducing, SealProducing, StoreProducing, EndProducing
        DEF Produce, Exec

\* What a step of a sole validator does to the committed state and the chain.
LEMMA SoleChain ==
    ASSUME Sole, IInv, [Next]_vars
    PROVE  \/ Crash /\ UNCHANGED <<disk, blockAt, tip>>
           \/ /\ g[Poa].pc = "add" /\ g'[Poa].pc = "commit"
              /\ BlockOk(g[Poa].blk) /\ Follows(g[Poa].blk) /\ AddBlock(g[Poa].blk)
              /\ UNCHANGED <<disk, faults>>
           \/ /\ g[Poa].pc = "commit"
              /\ disk' = view
              /\ UNCHANGED <<blockAt, tip, faults>>
           \/ /\ g[Poa].pc # "commit" \/ g' = g
              /\ faults' = faults \/ faults' = faults + 1
              /\ UNCHANGED <<disk, blockAt, tip>>
<1> DEFINE x == g[Poa]
<1>1. CASE UNCHANGED vars
  BY <1>1 DEF vars, stateVars, chainVars, envVars
<1>2. CASE \E t \in Tx : Add(t)
  BY <1>2, Zenon DEF Add, stateVars, chainVars
<1>3. CASE Tick \/ Build \/ Exec(Poa) \/ Seal
  <2>1. x.pc # "commit"
    BY <1>3, Zenon DEF Tick, Build, Exec, ExecSnapshot, ExecRead, ExecWrite, ExecUndo, Seal, At
  <2>2. UNCHANGED <<disk, blockAt, tip, faults>>
    BY <1>3, Zenon DEF Tick, Build, Exec, ExecSnapshot, ExecRead, ExecWrite, ExecUndo, Seal,
                S!Snapshot, S!Set, S!RevertToSnapshot, S!vars, stateVars, chainVars, envVars
  <2> QED BY <2>1, <2>2, Zenon
<1>4. CASE ProduceAdd
  <2>1. x.pc = "add" /\ disk' = disk
    BY <1>4, Zenon DEF ProduceAdd, At, stateVars
  <2>2. BlockOk(x.blk)
    BY <2>1, PoaTypes, SMTT(30)
  <2>3. CASE UNCHANGED chainVars /\ (Fault \/ UNCHANGED envVars)
    BY <2>1, <2>3, SMTT(30) DEF chainVars, envVars, Fault
  <2>4. CASE Follows(x.blk) /\ AddBlock(x.blk) /\ Goto(Poa, "commit") /\ UNCHANGED envVars
    <3>2. g'[Poa].pc = "commit"
      BY <2>4, PoaGoto
    <3> QED BY <2>1, <2>2, <2>4, <3>2 DEF envVars
  <2> QED BY <1>4, <2>3, <2>4, Zenon DEF ProduceAdd
<1>5. CASE ProduceCommit
  BY <1>5 DEF ProduceCommit, At, S!Flush, chainVars, envVars
<1>6. CASE ProduceRemove
  BY <1>6 DEF ProduceRemove, At, stateVars, chainVars, envVars
<1>7. CASE Crash
  BY <1>7 DEF Crash, Restart, S!Crash, chainVars
<1> QED BY <1>1, <1>2, <1>3, <1>4, <1>5, <1>6, <1>7, SoleSteps, Zenon DEF Produce

LEMMA SoleInit == Init => SoleInv
<1> SUFFICES ASSUME Init PROVE SoleInv
  OBVIOUS
<1>1. g[Poa] = Idle
  BY DEF Init, Goroutine
<1>2. Producing(g[Poa])
  <2>1. g[Poa].pc = "idle" /\ view = disk
    BY <1>1 DEF Init, Idle
  <2> QED BY <2>1 DEF Producing
<1>3. /\ blockAt = [h \in {0} |-> Genesis] /\ tip = Genesis /\ disk = Genesis.root
      /\ tip.height = 0
  BY DEF Init, Genesis
<1>4. 0 \in 0 .. tip.height /\ blockAt[0] = Genesis /\ DOMAIN blockAt \ {0} = {}
  BY <1>3
<1> HIDE DEF Genesis
<1>5. ChainReplays
  BY <1>4 DEF ChainReplays
<1> QED BY <1>2, <1>3, <1>4, <1>5 DEF SoleInv

LEMMA SoleStep ==
    ASSUME Sole, IInv, SoleInv, [Next]_vars
    PROVE  SoleInv'
<1> DEFINE x == g[Poa]
           n == tip.height
           OnDisk == \E h \in 0 .. tip.height : disk = blockAt[h].root
           Settled == NoCrash => ChainReplays /\ (g[Poa].pc # "commit" => disk = tip.root)
<1>1. Producing(g[Poa])'
  BY StepProducing DEF SoleInv
<1>2. OnDisk /\ Settled /\ Producing(x)
  BY DEF SoleInv
<1>3. n \in Nat /\ DOMAIN blockAt = 0 .. n /\ tip = blockAt[n] /\ ChainOk
  BY DEF IInv, ChainOk, ChainLinked
<1>4. faults \in Nat
  BY SMTT(30) DEF IInv, EnvOk
<1>5. CASE Crash /\ UNCHANGED <<disk, blockAt, tip>>
  <2>1. "crash" \in FaultKind /\ faults' = faults + 1
    BY <1>5 DEF Crash, MayFault
  <2>2. ~NoCrash'
    BY <1>4, <2>1 DEF NoCrash
  <2>3. OnDisk'
    BY <1>2, <1>5
  <2> QED BY <1>1, <2>2, <2>3 DEF SoleInv
<1>6. CASE /\ x.pc = "add" /\ g'[Poa].pc = "commit"
           /\ BlockOk(x.blk) /\ Follows(x.blk) /\ AddBlock(x.blk)
           /\ UNCHANGED <<disk, faults>>
  <2>1. PICK b : b = x.blk
    OBVIOUS
  <2>2. /\ DOMAIN blockAt' = 0 .. n + 1
        /\ tip' = b /\ b.height = n + 1
        /\ blockAt'[n + 1] = b
        /\ \A h \in 0 .. n : blockAt'[h] = blockAt[h]
    BY <1>3, <1>6, <2>1, PutOnTop
  <2>3. OnDisk'
    <3>1. PICK h \in 0 .. n : disk = blockAt[h].root
      BY <1>2
    <3>2. h \in 0 .. n + 1 /\ disk' = blockAt'[h].root
      BY <1>3, <1>6, <2>2, <3>1
    <3> QED BY <2>2, <3>2
  <2>4. NoCrash' => ChainReplays'
    <3> SUFFICES ASSUME NoCrash', NEW h \in DOMAIN blockAt' \ {0}
                 PROVE  Replay(blockAt'[h - 1].root, blockAt'[h].txs) = blockAt'[h].root
      BY DEF ChainReplays
    <3>1. NoCrash /\ ChainReplays /\ disk = tip.root
      BY <1>2, <1>6 DEF NoCrash
    <3>2. CASE h = n + 1
      <4>1. h - 1 = n /\ n \in 0 .. n
        BY <1>3, <3>2
      <4>2. disk = blockAt'[h - 1].root /\ blockAt'[h] = b
        BY <1>3, <2>2, <3>1, <3>2, <4>1
      <4>3. b.root = Replay(disk, b.txs)
        BY <1>2, <1>6, <2>1, Zenon DEF Producing
      <4> QED BY <4>2, <4>3
    <3>3. CASE h # n + 1
      <4>1. h \in 0 .. n /\ h - 1 \in 0 .. n /\ h \in DOMAIN blockAt \ {0}
        BY <1>3, <2>2, <3>3
      <4>2. Replay(blockAt[h - 1].root, blockAt[h].txs) = blockAt[h].root
        BY <3>1, <4>1 DEF ChainReplays
      <4> QED BY <2>2, <4>1, <4>2
    <3> QED BY <3>2, <3>3
  <2> QED BY <1>1, <1>6, <2>3, <2>4 DEF SoleInv
<1>7. CASE x.pc = "commit" /\ disk' = view /\ UNCHANGED <<blockAt, tip, faults>>
  <2>1. view = tip.root
    BY <1>2, <1>7, Zenon DEF Producing
  <2>2. disk' = tip'.root /\ n \in 0 .. n
    BY <1>3, <1>7, <2>1
  <2>3. OnDisk'
    BY <1>3, <1>7, <2>2
  <2>4. NoCrash' => ChainReplays'
    BY <1>2, <1>7 DEF NoCrash, ChainReplays
  <2> QED BY <1>1, <2>2, <2>3, <2>4 DEF SoleInv
<1>8. CASE /\ x.pc # "commit" \/ g' = g
           /\ faults' = faults \/ faults' = faults + 1
           /\ UNCHANGED <<disk, blockAt, tip>>
  <2>1. NoCrash' => NoCrash
    BY <1>4, <1>8 DEF NoCrash
  <2>2. ChainReplays => ChainReplays'
    BY <1>8 DEF ChainReplays
  <2>3. OnDisk'
    BY <1>2, <1>8
  <2>4. Settled'
    BY <1>2, <1>8, <2>1, <2>2
  <2> QED BY <1>1, <2>3, <2>4 DEF SoleInv
<1> QED BY <1>5, <1>6, <1>7, <1>8, SoleChain, Zenon

\* The inductive invariant of a sole validator, whatever transactions clients
\* submit: ProduceBlock gives a block up without rolling it back, but what that
\* leaves in the state has spent a transaction that Pending puts into every
\* further block, so that none of those is sealed (consensus/poa.go).
THEOREM SoleInvariant ==
    ASSUME Sole
    PROVE  Spec => []SoleInv
<1>1. Init => SoleInv
  BY SoleInit
<1>2. IInv /\ SoleInv /\ [Next]_vars => SoleInv'
  BY SoleStep
<1> QED BY <1>1, <1>2, Invariant, PTL DEF Spec

\* What a sole validator keeps of a block that it gave up stops it from sealing
\* another (consensus/poa.go ProduceBlock, core/mempool.go Pending).
THEOREM SoleLeftoversBlock ==
    ASSUME Sole
    PROVE  Spec => []LeftoversBlock
<1>1. SoleInv => LeftoversBlock
  BY DEF SoleInv, Producing, LeftoversBlock, AtRest, Goroutine
<1> QED BY <1>1, SoleInvariant, PTL

\* The committed state of a sole validator that met no fault is the one its tip
\* commits to, even after blocks that failed half-way (consensus/poa.go
\* ProduceBlock, core/block.go StateRoot).
THEOREM SoleMatchesTip ==
    ASSUME Sole
    PROVE  Spec => []StateMatchesTip
<1>1. SoleInv => StateMatchesTip
  <2> SUFFICES ASSUME SoleInv, AtRest, faults = 0 PROVE disk = tip.root
    BY DEF StateMatchesTip
  <2>1. g[Poa].pc # "commit"
    BY DEF AtRest, Goroutine
  <2> QED BY <2>1 DEF SoleInv, NoCrash
<1> QED BY <1>1, SoleInvariant, PTL

\* Wherever it dies, and whichever writes fail, the committed state of a sole
\* validator is the one some stored block commits to (consensus/poa.go
\* ProduceBlock adds the block before it commits the state).
THEOREM SoleOnChain ==
    ASSUME Sole
    PROVE  Spec => []DiskOnChain
<1>1. SoleInv => DiskOnChain
  BY DEF SoleInv, DiskOnChain
<1> QED BY <1>1, SoleInvariant, PTL

\* The chain of a sole validator that does not crash can be replayed by another
\* node, whatever transactions it took, which of them failed, and whichever
\* writes of a block failed (consensus/poa.go ProduceBlock).
THEOREM SoleReplays ==
    ASSUME Sole, "crash" \notin FaultKind
    PROVE  Spec => []ChainReplays
<1>1. SoleInv => ChainReplays
  BY DEF SoleInv, NoCrash
<1> QED BY <1>1, SoleInvariant, PTL
=============================================================================
