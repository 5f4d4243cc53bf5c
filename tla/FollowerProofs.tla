--------------------------- MODULE FollowerProofs ---------------------------
(***************************************************************************)
(* Proofs about Node for a node that only follows: it has one peer and is  *)
(* no validator, so that blocks are executed one after the other.  The     *)
(* chain, the faults and the number of transactions are arbitrary.         *)
(***************************************************************************)
EXTENDS NodeProofs

Follower(q) ==
    /\ Peer = {q}
    /\ \A h \in Nat : ProposerOf(h) # Self

\* The program counters of handleBlocks while a block is in hand: before it has
\* touched the state, and until it is stored or rolled back.
Resting == {"idle", "next", "snap"}
Running == {"exec", "read", "write", "undo", "revert-continue", "revert-return", "add"}

\* Between blocks nothing is buffered and no snapshot is kept.  From the
\* block's snapshot on the oldest one is the committed state, and the block's;
\* a transaction's is a later one.
Undoable(q) ==
    /\ g[Poa] = Idle
    /\ g[q].pc \in Resting \cup Running \cup {"commit"}
    /\ g[q].pc \in Resting => view = disk /\ saved = << >>
    /\ g[q].pc \in Running => saved # << >> /\ saved[1] = disk /\ g[q].snap = 0
    /\ g[q].pc \in {"read", "write", "undo"} => g[q].txSnap >= 1

\* Every block of the peer names a state root, so that handleBlocks compares it.
Rooted(q) ==
    \A chain \in UNION PeerChain[q] : \A b \in Range(chain) : b.root # None

\* The state committed is the root of a stored block, and that of the tip unless
\* the process has died between storing a block and committing its state.
OnChain(q) ==
    /\ \A i \in 1 .. Len(g[q].batch) : g[q].batch[i].root # None
    /\ g[q].pc \in Running \cup {"snap", "commit"} => g[q].blk.root # None
    /\ g[q].pc = "add" => view = g[q].blk.root
    /\ g[q].pc = "commit" => view = tip.root
    /\ \E h \in 0 .. tip.height : disk = blockAt[h].root
    /\ g[q].pc # "commit" /\ (faults = 0 \/ "crash" \notin FaultKind) => disk = tip.root

\* The state in mid-block is the one that the transactions so far lead to.
Executing(q) ==
    LET x == g[q]
        s == States(disk, x.blk.txs)
    IN  /\ x.pc \in {"exec", "read", "write"} =>
             x.pos \in 1 .. Len(x.blk.txs) + 1 /\ view = s[x.pos - 1]
        /\ x.pc = "write" =>
             x.acc = view[CurrentTx(q).from] /\ Len(x.acc) = CurrentTx(q).nonce
        /\ x.pc = "add" => view = Replay(disk, x.blk.txs)

\* The local variables of goroutine q after a step that leaves the producer alone.
Now(q, pc, blk, pos, snap, txSnap, acc, batch) ==
    /\ g'[q].pc = pc /\ g'[q].blk = blk /\ g'[q].pos = pos /\ g'[q].snap = snap
    /\ g'[q].txSnap = txSnap /\ g'[q].acc = acc /\ g'[q].batch = batch
    /\ g'[Poa] = g[Poa]

LEMMA BecomesNow ==
    ASSUME IInv, NEW q \in Peer, NEW pc, NEW blk, NEW pos, NEW snap, NEW txSnap, NEW acc,
           NEW batch, NEW full,
           Becomes(q, Locals(pc, blk, pos, snap, txSnap, acc, batch, full))
    PROVE  Now(q, pc, blk, pos, snap, txSnap, acc, batch)
<1>1. DOMAIN g = Goroutine
  BY DEF IInv, LocalsOk
<1>2. q \in Goroutine /\ Poa \in Goroutine /\ q # Poa
  BY PoaAssumption DEF Goroutine
<1>3. g'[q] = Locals(pc, blk, pos, snap, txSnap, acc, batch, full) /\ g'[Poa] = g[Poa]
  BY <1>1, <1>2 DEF Becomes
<1> QED BY <1>3 DEF Now, Locals

\* What the steps of handleBlocks make of its local variables.
LEMMA SyncLocals ==
    ASSUME IInv, NEW q \in Peer
    PROVE  LET x == g[q] IN
           /\ \A pc : Goto(q, pc) =>
                Now(q, pc, x.blk, x.pos, x.snap, x.txSnap, x.acc, x.batch)
           /\ Return(q) => Now(q, "idle", None, 0, 0, 0, << >>, << >>)
           /\ ExecSnapshot(q) =>
                Now(q, "read", x.blk, x.pos, x.snap, Len(saved), x.acc, x.batch)
           /\ ExecRead(q) =>
                Now(q, IF Len(view[CurrentTx(q).from]) = CurrentTx(q).nonce THEN "write" ELSE "undo",
                    x.blk, x.pos, x.snap, x.txSnap, view[CurrentTx(q).from], x.batch)
           /\ ExecWrite(q) =>
                \/ CurrentTx(q).ok
                   /\ Now(q, "exec", x.blk, x.pos + 1, x.snap, x.txSnap, << >>, x.batch)
                \/ Now(q, "undo", x.blk, x.pos, x.snap, x.txSnap, << >>, x.batch)
           /\ SyncSnapshot(q) =>
                Now(q, "exec", x.blk, 1, Len(saved), x.txSnap, x.acc, x.batch)
           /\ SyncValidate(q) =>
                \/ Return(q)
                \/ Now(q, "snap", Head(x.batch), x.pos, x.snap, x.txSnap, x.acc, Tail(x.batch))
           /\ Receive(q) => \E chain \in UNION PeerChain[q] :
                Now(q, "next", x.blk, x.pos, x.snap, x.txSnap, x.acc,
                    Answer(chain, Head(requests[q])))
<1> DEFINE x == g[q]
<1>1. q \in Goroutine
  BY DEF Goroutine
<1>2. x = Locals(x.pc, x.blk, x.pos, x.snap, x.txSnap, x.acc, x.batch, x.full)
  BY <1>1 DEF IInv, LocalsOk, LocalOk
<1>3. ASSUME NEW pc, Goto(q, pc)
      PROVE  Now(q, pc, x.blk, x.pos, x.snap, x.txSnap, x.acc, x.batch)
  <2>1. [x EXCEPT !.pc = pc] = Locals(pc, x.blk, x.pos, x.snap, x.txSnap, x.acc, x.batch, x.full)
    BY <1>2 DEF Locals
  <2> QED BY <1>3, <2>1, BecomesNow DEF Goto
<1>4. ASSUME Return(q)
      PROVE  Now(q, "idle", None, 0, 0, 0, << >>, << >>)
  <2>1. Becomes(q, Locals("idle", None, 0, 0, 0, << >>, << >>, FALSE))
    BY <1>4 DEF Return, Idle, Locals
  <2> QED BY <2>1, BecomesNow, Zenon
<1>5. ASSUME ExecSnapshot(q)
      PROVE  Now(q, "read", x.blk, x.pos, x.snap, Len(saved), x.acc, x.batch)
  <2>1. Becomes(q, ToTxSnap(x, "read", Len(saved)))
    BY <1>5 DEF ExecSnapshot, S!NextId, ToTxSnap
  <2> HIDE DEF x
  <2> QED BY <1>2, <2>1, LocalUpdates, BecomesNow
<1>6. ASSUME ExecRead(q)
      PROVE  Now(q, IF Len(view[CurrentTx(q).from]) = CurrentTx(q).nonce THEN "write" ELSE "undo",
                 x.blk, x.pos, x.snap, x.txSnap, view[CurrentTx(q).from], x.batch)
  <2> DEFINE acc == view[CurrentTx(q).from]
             pc == IF Len(acc) = CurrentTx(q).nonce THEN "write" ELSE "undo"
  <2>1. Becomes(q, ToAcc(x, pc, acc))
    BY <1>6 DEF ExecRead, ToAcc
  <2> HIDE DEF x, acc, pc
  <2>2. Now(q, pc, x.blk, x.pos, x.snap, x.txSnap, acc, x.batch)
    BY <1>2, <2>1, LocalUpdates, BecomesNow
  <2> QED BY <2>2 DEF acc, pc
<1>7. ASSUME ExecWrite(q)
      PROVE  \/ CurrentTx(q).ok
                /\ Now(q, "exec", x.blk, x.pos + 1, x.snap, x.txSnap, << >>, x.batch)
             \/ Now(q, "undo", x.blk, x.pos, x.snap, x.txSnap, << >>, x.batch)
  <2>1. \/ CurrentTx(q).ok /\ Becomes(q, ToPosAcc(x, "exec", x.pos + 1, << >>))
        \/ Becomes(q, ToAcc(x, "undo", << >>))
    BY <1>7 DEF ExecWrite, ToPosAcc, ToAcc
  <2> HIDE DEF x
  <2>2. ToPosAcc(x, "exec", x.pos + 1, << >>)
          = Locals("exec", x.blk, x.pos + 1, x.snap, x.txSnap, << >>, x.batch, x.full)
    BY <1>2, LocalUpdates
  <2>3. ToAcc(x, "undo", << >>)
          = Locals("undo", x.blk, x.pos, x.snap, x.txSnap, << >>, x.batch, x.full)
    BY <1>2, LocalUpdates
  <2> QED BY <2>1, <2>2, <2>3, BecomesNow
<1>8. ASSUME SyncSnapshot(q)
      PROVE  Now(q, "exec", x.blk, 1, Len(saved), x.txSnap, x.acc, x.batch)
  <2>1. Becomes(q, ToPosSnap(x, "exec", 1, Len(saved)))
    BY <1>8 DEF SyncSnapshot, S!NextId, ToPosSnap
  <2> HIDE DEF x
  <2>2. ToPosSnap(x, "exec", 1, Len(saved))
          = Locals("exec", x.blk, 1, Len(saved), x.txSnap, x.acc, x.batch, x.full)
    BY <1>2, LocalUpdates
  <2> QED BY <2>1, <2>2, BecomesNow
<1>9. ASSUME SyncValidate(q)
      PROVE  \/ Return(q)
             \/ Now(q, "snap", Head(x.batch), x.pos, x.snap, x.txSnap, x.acc, Tail(x.batch))
  <2>1. Return(q) \/ Becomes(q, ToBlkBatch(x, "snap", Head(x.batch), Tail(x.batch)))
    BY <1>9 DEF SyncValidate, ToBlkBatch
  <2> HIDE DEF x
  <2>2. ToBlkBatch(x, "snap", Head(x.batch), Tail(x.batch))
          = Locals("snap", Head(x.batch), x.pos, x.snap, x.txSnap, x.acc, Tail(x.batch), x.full)
    BY <1>2, LocalUpdates
  <2> QED BY <2>1, <2>2, BecomesNow
<1>10. ASSUME Receive(q)
       PROVE  \E chain \in UNION PeerChain[q] :
                Now(q, "next", x.blk, x.pos, x.snap, x.txSnap, x.acc,
                    Answer(chain, Head(requests[q])))
  <2>1. PICK chain \in serves[q] :
          Becomes(q, ToBatchFull(x, "next", Answer(chain, Head(requests[q])),
                                 Len(Answer(chain, Head(requests[q]))) >= SyncLimit))
    BY <1>10, Zenon DEF Receive, ToBatchFull
  <2>2. chain \in UNION PeerChain[q]
    BY DEF IInv, EnvOk
  <2> DEFINE bs == Answer(chain, Head(requests[q]))
             full == Len(bs) >= SyncLimit
  <2>3. Becomes(q, ToBatchFull(x, "next", bs, full))
    BY <2>1
  <2> HIDE DEF x, bs, full
  <2>4. ToBatchFull(x, "next", bs, full)
          = Locals("next", x.blk, x.pos, x.snap, x.txSnap, x.acc, bs, full)
    BY <1>2, LocalUpdates
  <2>5. Now(q, "next", x.blk, x.pos, x.snap, x.txSnap, x.acc, bs)
    BY <2>3, <2>4, BecomesNow, Zenon
  <2> QED BY <2>2, <2>5 DEF bs
<1> QED BY <1>3, <1>4, <1>5, <1>6, <1>7, <1>8, <1>9, <1>10, Zenon

\* The steps of a follower: its producer never starts a block.
LEMMA FollowerSteps ==
    ASSUME NEW q, Follower(q), IInv, g[Poa] = Idle, [Next]_vars
    PROVE  \/ Sync(q)
           \/ Crash
           \/ UNCHANGED <<stateVars, chainVars, g, faults>>
           \/ Drop(q)
<1>1. ~Tick
  <2>1. tip.height + 1 \in Nat
    BY DEF IInv, ChainOk
  <2> QED BY <2>1 DEF Tick, Follower
<1>2. ~Produce
  BY DEF Idle, Produce, Build, Exec, ExecSnapshot, ExecRead, ExecWrite, ExecUndo, Seal,
         ProduceAdd, ProduceCommit, ProduceRemove, At
<1>3. ASSUME NEW x \in Tx, Add(x)
      PROVE  UNCHANGED <<stateVars, chainVars, g, faults>>
  BY <1>3 DEF Add
<1>4. ASSUME NEW p \in Peer, Connect(p)
      PROVE  UNCHANGED <<stateVars, chainVars, g, faults>>
  BY <1>4 DEF Connect
<1>5. UNCHANGED vars => UNCHANGED <<stateVars, chainVars, g, faults>>
  BY DEF vars, envVars
<1>6. \A p \in Peer : p = q
  BY DEF Follower
<1> QED BY <1>1, <1>2, <1>3, <1>4, <1>5, <1>6 DEF Next

\* handleBlocks keeps the way back open.
LEMMA SyncUndoable ==
    ASSUME NEW q, Follower(q), IInv, Undoable(q), Sync(q)
    PROVE  Undoable(q)'
<1>0. q \in Peer
  BY DEF Follower
<1> DEFINE x == g[q]
<1>1. /\ x.snap \in Nat /\ x.txSnap \in Nat /\ saved \in Seq(State) /\ Len(saved) \in Nat
      /\ (saved # << >> => Len(saved) >= 1) /\ (saved = << >> => Len(saved) = 0)
  <2>1. x.snap \in Nat /\ x.txSnap \in Nat
    BY <1>0, Zenon DEF IInv, LocalsOk, LocalOk, Goroutine
  <2>2. saved \in Seq(State)
    BY DEF IInv, StateOk
  <2>3. Len(saved) \in Nat /\ (saved # << >> => Len(saved) >= 1) /\ (saved = << >> => Len(saved) = 0)
    BY <2>2
  <2> QED BY <2>1, <2>2, <2>3
<1>2. /\ g[Poa] = Idle
      /\ x.pc \in Resting \cup Running \cup {"commit"}
      /\ x.pc \in Resting => view = disk /\ saved = << >>
      /\ x.pc \in Running => saved # << >> /\ saved[1] = disk /\ x.snap = 0
      /\ x.pc \in {"read", "write", "undo"} => x.txSnap >= 1
  BY DEF Undoable
<1>3. ASSUME NEW pc \in Resting, g'[q].pc = pc, g'[Poa] = g[Poa], view' = disk', saved' = << >>
      PROVE  Undoable(q)'
  BY <1>2, <1>3 DEF Undoable, Resting, Running
<1>4. ASSUME NEW pc \in Running, g'[q].pc = pc, g'[Poa] = g[Poa], saved' # << >>,
             saved'[1] = disk', g'[q].snap = 0,
             pc \in {"read", "write", "undo"} => g'[q].txSnap >= 1
      PROVE  Undoable(q)'
  BY <1>2, <1>4 DEF Undoable, Resting, Running
<1>5. CASE Receive(q) \/ SyncValidate(q) \/ SyncDone(q)
  <2>1. UNCHANGED <<view, saved, disk>> /\ x.pc \in Resting
    BY <1>5, Zenon DEF Receive, SyncValidate, SyncDone, stateVars, At, Resting
  <2>2. \E pc \in Resting : g'[q].pc = pc /\ g'[Poa] = g[Poa]
    <3>1. CASE Receive(q)
      BY <1>0, <3>1, SyncLocals, Zenon DEF Now, Resting
    <3>2. CASE Return(q)
      BY <1>0, <3>2, SyncLocals, Zenon DEF Now, Resting
    <3>3. CASE SyncValidate(q) /\ ~Return(q)
      BY <1>0, <3>3, SyncLocals, Zenon DEF Now, Resting
    <3> QED BY <1>5, <3>1, <3>2, <3>3 DEF SyncDone
  <2> QED BY <1>2, <1>3, <2>1, <2>2
<1>6. CASE SyncSnapshot(q)
  <2>1. saved' = Append(saved, view) /\ UNCHANGED <<view, disk>> /\ x.pc = "snap"
    BY <1>6 DEF SyncSnapshot, S!Snapshot, At
  <2>2. saved = << >> /\ view = disk
    BY <1>2, <2>1 DEF Resting
  <2>3. saved' = <<disk>> /\ disk' = disk
    BY <2>1, <2>2
  <2>4. Now(q, "exec", x.blk, 1, Len(saved), x.txSnap, x.acc, x.batch)
    BY <1>0, <1>6, SyncLocals, Zenon
  <2>5. g'[q].pc = "exec" /\ g'[q].snap = 0 /\ g'[Poa] = g[Poa]
    BY <1>1, <2>2, <2>4, Zenon DEF Now
  <2>6. saved' # << >> /\ saved'[1] = disk'
    BY <2>3
  <2> QED BY <1>4, <2>5, <2>6, Zenon DEF Running
<1>7. CASE ExecSnapshot(q)
  <2>1. saved' = Append(saved, view) /\ UNCHANGED <<view, disk>> /\ x.pc = "exec"
    BY <1>7 DEF ExecSnapshot, S!Snapshot, At
  <2>2. saved # << >> /\ saved[1] = disk /\ x.snap = 0
    BY <1>2, <2>1 DEF Running
  <2>3. saved' # << >> /\ saved'[1] = disk' /\ Len(saved) >= 1
    <3>1. view \in State
      BY DEF IInv, StateOk
    <3>2. Len(saved') = Len(saved) + 1 /\ saved'[1] = saved[1]
      BY <1>1, <2>1, <2>2, <3>1
    <3> QED BY <1>1, <2>1, <2>2, <3>2
  <2>4. Now(q, "read", x.blk, x.pos, x.snap, Len(saved), x.acc, x.batch)
    BY <1>0, <1>7, SyncLocals, Zenon
  <2>5. g'[q].pc = "read" /\ g'[q].snap = 0 /\ g'[q].txSnap >= 1 /\ g'[Poa] = g[Poa]
    BY <2>2, <2>3, <2>4 DEF Now
  <2> QED BY <1>4, <2>3, <2>5 DEF Running
<1>8. CASE ExecRead(q) \/ ExecWrite(q)
  <2>1. UNCHANGED <<saved, disk>> /\ x.pc \in {"read", "write"}
    BY <1>8 DEF ExecRead, ExecWrite, S!Set, At, stateVars
  <2>2. saved # << >> /\ saved[1] = disk /\ x.snap = 0 /\ x.txSnap >= 1
    BY <1>2, <2>1 DEF Running
  <2>3. \E pc \in {"write", "undo", "exec"} :
          g'[q].pc = pc /\ g'[q].snap = x.snap /\ g'[q].txSnap = x.txSnap /\ g'[Poa] = g[Poa]
    <3>1. CASE ExecRead(q)
      <4>1. \E pc \in {"write", "undo"}, acc \in {view[CurrentTx(q).from]} :
              Now(q, pc, x.blk, x.pos, x.snap, x.txSnap, acc, x.batch)
        BY <1>0, <3>1, SyncLocals, Zenon
      <4> QED BY <4>1 DEF Now
    <3>2. CASE ExecWrite(q)
      BY <1>0, <3>2, SyncLocals, Zenon DEF Now
    <3> QED BY <1>8, <3>1, <3>2
  <2>4. saved' # << >> /\ saved'[1] = disk'
    BY <2>1, <2>2
  <2> QED BY <1>4, <2>2, <2>3, <2>4, Zenon DEF Running
<1>9. CASE ExecUndo(q)
  <2>1. x.pc = "undo" /\ S!RevertToSnapshot(x.txSnap) /\ Goto(q, "revert-continue")
    BY <1>0, <1>9, PoaAssumption DEF ExecUndo, At
  <2>2. saved # << >> /\ saved[1] = disk /\ x.snap = 0 /\ x.txSnap >= 1
    BY <1>2, <2>1 DEF Running
  <2>3. saved' # << >> /\ saved'[1] = disk'
    <3>1. CASE UNCHANGED <<view, saved, disk>>
      BY <2>2, <3>1
    <3>2. CASE S!Live(x.txSnap) /\ saved' = SubSeq(saved, 1, x.txSnap) /\ UNCHANGED disk
      <4>1. x.txSnap <= Len(saved)
        BY <1>1, <3>2 DEF S!Live
      <4>2. IsSeq(saved)
        BY <1>1, SeqIsSeq
      <4> DEFINE n == x.txSnap
      <4>3. n \in Nat /\ n >= 1 /\ n <= Len(saved)
        BY <1>1, <2>2, <4>1
      <4> HIDE DEF n
      <4>4. /\ IsSeq(SubSeq(saved, 1, n)) /\ Len(SubSeq(saved, 1, n)) = n
            /\ SubSeq(saved, 1, n)[1] = saved[1]
        <5>1. /\ IsSeq(SubSeq(saved, 1, n))
              /\ Len(SubSeq(saved, 1, n)) = IF 1 <= n THEN n - 1 + 1 ELSE 0
              /\ \A i \in 1 .. Len(SubSeq(saved, 1, n)) :
                   1 + i - 1 \in 1 .. Len(saved) /\ SubSeq(saved, 1, n)[i] = saved[1 + i - 1]
          BY <4>2, <4>3, SubSeqIsSeq
        <5>2. Len(SubSeq(saved, 1, n)) = n
          BY <4>3, <5>1
        <5>3. 1 \in 1 .. Len(SubSeq(saved, 1, n)) /\ 1 + 1 - 1 = 1
          BY <4>3, <5>2
        <5>4. SubSeq(saved, 1, n)[1] = saved[1 + 1 - 1]
          BY <5>1, <5>3, Zenon
        <5> QED BY <5>1, <5>2, <5>3, <5>4, Zenon
      <4>5. SubSeq(saved, 1, n) # << >>
        BY <4>3, <4>4
      <4> QED BY <2>2, <3>2, <4>4, <4>5, Zenon DEF n
    <3> QED BY <2>1, <3>1, <3>2 DEF S!RevertToSnapshot, S!vars
  <2>4. Now(q, "revert-continue", x.blk, x.pos, x.snap, x.txSnap, x.acc, x.batch)
    BY <1>0, <2>1, SyncLocals, Zenon
  <2>5. g'[q].pc = "revert-continue" /\ g'[q].snap = 0 /\ g'[Poa] = g[Poa]
    BY <2>2, <2>4 DEF Now
  <2> QED BY <1>4, <2>3, <2>5, Zenon DEF Running
<1>10. CASE SyncRoot(q)
  <2>1. UNCHANGED <<view, saved, disk>> /\ x.pc = "exec"
    BY <1>10 DEF SyncRoot, At, stateVars
  <2>2. \E pc \in {"revert-return", "add"} : Goto(q, pc)
    BY <1>10 DEF SyncRoot
  <2>3. \E pc \in {"revert-return", "add"} :
          g'[q].pc = pc /\ g'[q].snap = x.snap /\ g'[Poa] = g[Poa]
    BY <1>0, <2>2, SyncLocals, Zenon DEF Now
  <2>4. saved # << >> /\ saved[1] = disk /\ x.snap = 0
    BY <1>2, <2>1, Zenon DEF Running
  <2>5. saved' # << >> /\ saved'[1] = disk'
    BY <2>1, <2>4, Zenon
  <2> QED BY <1>4, <2>3, <2>4, <2>5 DEF Running
<1>11. CASE SyncAdd(q)
  <2>1. UNCHANGED <<view, saved, disk>> /\ x.pc = "add"
    BY <1>11 DEF SyncAdd, At, stateVars
  <2>2. \E pc \in {"revert-continue", "commit"} : Goto(q, pc)
    BY <1>11 DEF SyncAdd
  <2>3. PICK pc \in {"revert-continue", "commit"} :
          g'[q].pc = pc /\ g'[q].snap = x.snap /\ g'[Poa] = g[Poa]
    BY <1>0, <2>2, SyncLocals, Zenon DEF Now
  <2>4. saved # << >> /\ saved[1] = disk /\ x.snap = 0
    BY <1>2, <2>1, Zenon DEF Running
  <2>5. saved' # << >> /\ saved'[1] = disk'
    BY <2>1, <2>4, Zenon
  <2>6. CASE pc = "commit"
    BY <1>2, <2>3, <2>6 DEF Undoable, Resting, Running
  <2>7. CASE pc = "revert-continue"
    BY <1>4, <2>3, <2>4, <2>5, <2>7 DEF Running
  <2> QED BY <2>6, <2>7
<1>12. CASE SyncCommit(q)
  <2>1. view' = disk' /\ saved' = << >> /\ Goto(q, "next")
    BY <1>12 DEF SyncCommit, S!Flush
  <2>2. g'[q].pc = "next" /\ g'[Poa] = g[Poa]
    BY <1>0, <2>1, SyncLocals, ZenonT(30) DEF Now
  <2> QED BY <1>3, <2>1, <2>2 DEF Resting
<1>13. CASE SyncRevert(q)
  <2>1. x.pc \in Running
    BY <1>13, Zenon DEF SyncRevert, Reverting, Running
  <2>2. saved # << >> /\ saved[1] = disk /\ x.snap = 0
    BY <1>2, <2>1, Zenon
  <2>3. S!Live(x.snap)
    BY <1>1, <2>2 DEF S!Live
  <2>4. view' = saved[1] /\ saved' = SubSeq(saved, 1, 0) /\ disk' = disk
    BY <1>13, <2>2, <2>3 DEF SyncRevert, S!RevertToSnapshot
  <2>5. saved' = << >>
    BY <1>1, <2>4
  <2>6. Goto(q, "next") \/ Return(q)
    BY <1>13, <2>3, SMTT(30) DEF SyncRevert
  <2>7. \E pc \in Resting : g'[q].pc = pc /\ g'[Poa] = g[Poa]
    BY <1>0, <2>6, SyncLocals DEF Now, Resting
  <2> QED BY <1>3, <2>2, <2>4, <2>5, <2>7, Zenon
<1> QED BY <1>5, <1>6, <1>7, <1>8, <1>9, <1>10, <1>11, <1>12, <1>13 DEF Sync, Exec

LEMMA StepUndoable ==
    ASSUME NEW q, Follower(q), IInv, Undoable(q), [Next]_vars
    PROVE  Undoable(q)'
<1>0. q \in Peer /\ q \in Goroutine /\ Poa \in Goroutine
  BY SMTT(30) DEF Follower, Goroutine
<1>1. CASE Crash
  <2>1. /\ g'[Poa] = Idle /\ g'[q] = Idle
        /\ view' = disk' /\ saved' = << >>
    BY <1>0, <1>1 DEF Crash, Restart, S!Crash
  <2> QED BY <2>1 DEF Undoable, Idle, Resting, Running
<1>2. CASE UNCHANGED <<stateVars, chainVars, g, faults>> \/ Drop(q)
  BY <1>2 DEF Drop, Undoable, stateVars
<1> QED BY <1>1, <1>2, SyncUndoable, FollowerSteps, Zenon DEF Undoable

LEMMA InitUndoable ==
    ASSUME NEW q, Follower(q)
    PROVE  Init => Undoable(q)
  BY DEF Follower, Init, Undoable, Idle, Goroutine, Resting, Running

\* When a follower rolls a block back, the snapshot it goes back to is there:
\* the log.Fatalf of handleBlocks is never reached (network/sync.go).
THEOREM FollowerReverts ==
    ASSUME NEW CONSTANT q, Follower(q)
    PROVE  Spec => []RevertsAreLive
<1>1. Init => Undoable(q)
  BY InitUndoable
<1>2. IInv /\ Undoable(q) /\ [Next]_vars => Undoable(q)'
  BY StepUndoable
<1>3. ASSUME IInv, Undoable(q) PROVE RevertsAreLive
  <2>1. saved \in Seq(State) /\ Len(saved) \in Nat
    BY <1>3 DEF IInv, StateOk
  <2>2. saved # << >> => Len(saved) >= 1
    BY <2>1
  <2> QED BY <1>3, <2>1, <2>2 DEF Undoable, Follower, RevertsAreLive, Reverting, Running, S!Live
<1> QED BY <1>1, <1>2, <1>3, Invariant, PTL DEF Spec

\* Between blocks a follower reads the committed state: whatever a rejected
\* block did to the state is undone, wherever it was rejected and whichever
\* write failed (network/sync.go handleBlocks, vm/executor.go ExecuteBlock).
THEOREM FollowerUndoes ==
    ASSUME NEW CONSTANT q, Follower(q)
    PROVE  Spec => []NothingLeftBehind
<1>1. Init => Undoable(q)
  BY InitUndoable
<1>2. IInv /\ Undoable(q) /\ [Next]_vars => Undoable(q)'
  BY StepUndoable
<1>3. Undoable(q) => NothingLeftBehind
  BY DEF Undoable, Follower, NothingLeftBehind, AtRest, Goroutine, Running, Resting
<1> QED BY <1>1, <1>2, <1>3, Invariant, PTL DEF Spec

\* handleBlocks stores no block whose root it has not reached, and commits none
\* that it has not stored.
LEMMA SyncOnChain ==
    ASSUME NEW q, Follower(q), Rooted(q), IInv, Undoable(q), OnChain(q), Sync(q)
    PROVE  OnChain(q)'
<1>0. q \in Peer /\ q # Poa
  BY PoaAssumption DEF Follower
<1> DEFINE x == g[q]
           Clean == faults = 0 \/ "crash" \notin FaultKind
<1>1. /\ IsSeq(x.batch) /\ tip.height \in Nat /\ faults \in Nat
      /\ x.pc \notin {"idle", "build", "next"} => BlockOk(x.blk)
  <2>1. LocalOk(x)
    BY <1>0 DEF IInv, LocalsOk, Goroutine
  <2>2. tip.height \in Nat /\ faults \in Nat
    BY DEF IInv, ChainOk, EnvOk
  <2> QED BY <2>1, <2>2 DEF LocalOk
<1>2. /\ \A i \in 1 .. Len(x.batch) : x.batch[i].root # None
      /\ x.pc \in Running \cup {"snap", "commit"} => x.blk.root # None
      /\ x.pc = "add" => view = x.blk.root
      /\ x.pc = "commit" => view = tip.root
      /\ \E h \in 0 .. tip.height : disk = blockAt[h].root
      /\ x.pc # "commit" /\ Clean => disk = tip.root
  BY DEF OnChain
<1>3. ASSUME NEW pc, g'[q].pc = pc, pc # "commit", x.pc # "commit",
             UNCHANGED <<disk, blockAt, tip>>, faults' \in {faults, faults + 1},
             pc \in Running \cup {"snap"} => g'[q].blk.root # None,
             pc = "add" => view' = g'[q].blk.root,
             \A i \in 1 .. Len(g'[q].batch) : g'[q].batch[i].root # None
      PROVE  OnChain(q)'
  <2>1. Clean' => Clean
    BY <1>1, <1>3
  <2> QED BY <1>2, <1>3, <2>1, Zenon DEF OnChain
<1>4. CASE Receive(q)
  <2>1. UNCHANGED <<disk, blockAt, tip, faults>> /\ x.pc = "idle"
    BY <1>4 DEF Receive, stateVars, chainVars, At
  <2>2. PICK chain \in UNION PeerChain[q] :
          Now(q, "next", x.blk, x.pos, x.snap, x.txSnap, x.acc, Answer(chain, Head(requests[q])))
    BY <1>0, <1>4, SyncLocals, Zenon
  <2> DEFINE bs == Answer(chain, Head(requests[q]))
  <2>3. requests[q] \in Seq(Nat \ {0}) /\ requests[q] # << >>
    BY <1>0, <1>4 DEF IInv, EnvOk, Receive
  <2>4. Head(requests[q]) \in Nat \ {0}
    BY <2>3
  <2>5. \A i \in 1 .. Len(bs) : bs[i] \in Range(chain)
    BY <1>0, <2>4, AnswerOk
  <2> HIDE DEF bs
  <2>6. \A i \in 1 .. Len(bs) : bs[i].root # None
    BY <2>5 DEF Rooted
  <2>7. g'[q].pc = "next" /\ g'[q].batch = bs
    BY <2>2 DEF Now, bs
  <2> QED BY <1>3, <2>1, <2>6, <2>7, Zenon DEF Running
<1>5. ASSUME Return(q), UNCHANGED <<disk, blockAt, tip, faults>>, x.pc # "commit"
      PROVE  OnChain(q)'
  <2>1. Now(q, "idle", None, 0, 0, 0, << >>, << >>)
    BY <1>0, <1>5, SyncLocals, Zenon
  <2>2. g'[q].pc = "idle" /\ g'[q].batch = << >>
    BY <2>1 DEF Now
  <2>3. \A i \in 1 .. Len(g'[q].batch) : g'[q].batch[i].root # None
    BY <2>2
  <2> QED BY <1>3, <1>5, <2>2, <2>3 DEF Running
<1>6. CASE SyncValidate(q) \/ SyncDone(q)
  <2>1. UNCHANGED <<disk, blockAt, tip, faults>> /\ x.pc = "next"
    BY <1>6 DEF SyncValidate, SyncDone, stateVars, chainVars, envVars, At
  <2>2. CASE Return(q)
    BY <1>5, <2>1, <2>2
  <2>3. CASE SyncValidate(q) /\ ~Return(q)
    <3>1. Now(q, "snap", Head(x.batch), x.pos, x.snap, x.txSnap, x.acc, Tail(x.batch))
      BY <1>0, <2>3, SyncLocals, Zenon
    <3> DEFINE bs == x.batch
    <3>2. IsSeq(bs) /\ bs # << >>
      BY <1>1, <2>3 DEF SyncValidate
    <3>3. Len(bs) \in Nat /\ Len(bs) >= 1
      BY <3>2, IsSeqProperties
    <3>4. /\ Len(Tail(bs)) = Len(bs) - 1 /\ Head(bs) = bs[1]
          /\ \A i \in 1 .. Len(bs) - 1 : Tail(bs)[i] = bs[i + 1]
      BY <3>2, TailIsSeq
    <3>5. \A i \in 1 .. Len(bs) : bs[i].root # None
      BY <1>2
    <3>6. g'[q].pc = "snap" /\ g'[q].blk = Head(bs) /\ g'[q].batch = Tail(bs)
      BY <3>1 DEF Now
    <3> HIDE DEF bs
    <3>7. \A i \in 1 .. Len(Tail(bs)) : i \in 1 .. Len(bs) - 1 /\ i + 1 \in 1 .. Len(bs)
      BY <3>3, <3>4
    <3>8. \A i \in 1 .. Len(Tail(bs)) : Tail(bs)[i].root # None
      BY <3>4, <3>5, <3>7
    <3>9. Head(bs).root # None
      BY <3>3, <3>4, <3>5
    <3> QED BY <1>3, <2>1, <3>6, <3>8, <3>9
  <2> QED BY <1>6, <2>2, <2>3 DEF SyncDone
<1>7. ASSUME NEW pc, g'[q].pc = pc, pc # "commit", x.pc \in Running \cup {"snap"},
             g'[q].blk = x.blk, g'[q].batch = x.batch,
             UNCHANGED <<disk, blockAt, tip>>, faults' \in {faults, faults + 1},
             pc = "add" => view' = x.blk.root
      PROVE  OnChain(q)'
  <2>1. x.pc # "commit"
    BY <1>7 DEF Running
  <2> QED BY <1>2, <1>3, <1>7, <2>1
<1>8. CASE SyncSnapshot(q) \/ Exec(q)
  <2>1. UNCHANGED <<disk, blockAt, tip, faults>> /\ x.pc \in Running \cup {"snap"}
    BY <1>8, SMTT(30) DEF SyncSnapshot, Exec, ExecSnapshot, ExecRead, ExecWrite, ExecUndo, S!Snapshot,
                S!Set, S!RevertToSnapshot, S!vars, stateVars, chainVars, envVars, At, Running
  <2>2. \E pc \in {"exec", "read", "write", "undo", "revert-continue"} :
          g'[q].pc = pc /\ g'[q].blk = x.blk /\ g'[q].batch = x.batch
    <3>1. CASE SyncSnapshot(q)
      BY <1>0, <3>1, SyncLocals, Zenon DEF Now
    <3>2. CASE ExecSnapshot(q)
      BY <1>0, <3>2, SyncLocals, Zenon DEF Now
    <3>3. CASE ExecRead(q)
      <4>1. \E pc \in {"write", "undo"}, acc \in {view[CurrentTx(q).from]} :
              Now(q, pc, x.blk, x.pos, x.snap, x.txSnap, acc, x.batch)
        BY <1>0, <3>3, SyncLocals, Zenon
      <4> QED BY <4>1, Zenon DEF Now
    <3>4. CASE ExecWrite(q)
      BY <1>0, <3>4, SyncLocals, Zenon DEF Now
    <3>5. CASE ExecUndo(q)
      <4>1. Goto(q, "revert-continue")
        BY <1>0, <3>5 DEF ExecUndo
      <4> QED BY <1>0, <4>1, SyncLocals, Zenon DEF Now
    <3> QED BY <1>8, <3>1, <3>2, <3>3, <3>4, <3>5 DEF Exec
  <2> QED BY <1>7, <2>1, <2>2
<1>9. CASE SyncRoot(q)
  <2>1. UNCHANGED <<view, disk, blockAt, tip, faults>> /\ x.pc = "exec"
    BY <1>9, Zenon DEF SyncRoot, stateVars, chainVars, envVars, At
  <2>2. x.blk.root # None
    BY <1>2, <2>1, Zenon DEF Running
  <2>3. \/ Goto(q, "revert-return")
        \/ Goto(q, "add") /\ view = x.blk.root
    BY <1>9, <2>2 DEF SyncRoot
  <2>4. CASE Goto(q, "revert-return")
    <3>1. g'[q].pc = "revert-return" /\ g'[q].blk = x.blk /\ g'[q].batch = x.batch
      BY <1>0, <2>4, SyncLocals, Zenon DEF Now
    <3> QED BY <1>7, <2>1, <3>1, Zenon DEF Running
  <2>5. CASE Goto(q, "add") /\ view = x.blk.root
    <3>1. g'[q].pc = "add" /\ g'[q].blk = x.blk /\ g'[q].batch = x.batch
      BY <1>0, <2>5, SyncLocals, Zenon DEF Now
    <3> QED BY <1>7, <2>1, <2>5, <3>1, Zenon DEF Running
  <2> QED BY <2>3, <2>4, <2>5
<1>10. CASE SyncAdd(q)
  <2>1. UNCHANGED <<view, disk>> /\ x.pc = "add" /\ BlockOk(x.blk)
    BY <1>1, <1>10 DEF SyncAdd, stateVars, At
  <2>2. \/ Follows(x.blk) /\ AddBlock(x.blk) /\ Goto(q, "commit")
        \/ /\ Goto(q, "revert-continue")
           /\ UNCHANGED <<blockAt, tip>>
           /\ faults' \in {faults, faults + 1}
    BY <1>10 DEF SyncAdd, Fault, chainVars, envVars
  <2>3. CASE Follows(x.blk) /\ AddBlock(x.blk) /\ Goto(q, "commit")
    <3>1. ChainOk
      BY DEF IInv
    <3>2. /\ tip' = x.blk /\ x.blk.height = tip.height + 1
          /\ \A h \in 0 .. tip.height : blockAt'[h] = blockAt[h]
      BY <2>1, <2>3, <3>1, PutOnTop
    <3>3. g'[q].pc = "commit" /\ g'[q].blk = x.blk /\ g'[q].batch = x.batch
      BY <1>0, <2>3, SyncLocals, Zenon DEF Now
    <3>4. view' = tip'.root
      BY <1>2, <2>1, <3>2, Zenon
    <3>5. \E h \in 0 .. tip'.height : disk' = blockAt'[h].root
      <4>1. PICK h \in 0 .. tip.height : disk = blockAt[h].root
        BY <1>2
      <4>2. h \in 0 .. tip.height + 1 /\ blockAt'[h] = blockAt[h] /\ tip'.height = tip.height + 1
        BY <1>1, <3>2
      <4> QED BY <2>1, <4>1, <4>2, Zenon
    <3>6. x.blk.root # None
      BY <1>2, <2>1 DEF Running
    <3> QED BY <1>2, <3>3, <3>4, <3>5, <3>6 DEF OnChain, Running
  <2>4. CASE /\ Goto(q, "revert-continue")
             /\ UNCHANGED <<blockAt, tip>>
             /\ faults' \in {faults, faults + 1}
    <3>1. g'[q].pc = "revert-continue" /\ g'[q].blk = x.blk /\ g'[q].batch = x.batch
      BY <1>0, <2>4, SyncLocals, Zenon DEF Now
    <3> QED BY <1>7, <2>1, <2>4, <3>1, Zenon DEF Running
  <2> QED BY <2>2, <2>3, <2>4
<1>11. CASE SyncCommit(q)
  <2>1. disk' = view /\ x.pc = "commit" /\ Goto(q, "next") /\ UNCHANGED <<blockAt, tip>>
    BY <1>11, Zenon DEF SyncCommit, S!Flush, At, chainVars
  <2>2. disk' = tip.root /\ tip = blockAt[tip.height]
    BY <1>2, <2>1 DEF IInv, ChainOk, ChainLinked
  <2>3. tip.height \in 0 .. tip.height
    <3>1. tip.height \in Nat
      BY <1>1
    <3> QED BY <3>1
  <2>4. g'[q].pc = "next" /\ g'[q].batch = x.batch
    BY <1>0, <2>1, SyncLocals, Zenon DEF Now
  <2> QED BY <1>2, <2>1, <2>2, <2>3, <2>4, Zenon DEF OnChain, Running
<1>12. CASE SyncRevert(q)
  <2>1. x.pc \in Running /\ x.pc # "commit"
    BY <1>12 DEF SyncRevert, Reverting, Running
  <2>2. S!Live(x.snap)
    <3>1. saved # << >> /\ x.snap = 0 /\ saved \in Seq(State)
      BY <2>1 DEF Undoable, IInv, StateOk
    <3>2. Len(saved) \in Nat /\ Len(saved) >= 1
      BY <3>1
    <3> QED BY <3>1, <3>2 DEF S!Live
  <2>3. UNCHANGED <<disk, blockAt, tip, faults>> /\ (Goto(q, "next") \/ Return(q))
    BY <1>12, <2>2, Zenon DEF SyncRevert, S!RevertToSnapshot, S!vars, chainVars, envVars
  <2>4. CASE Goto(q, "next")
    <3>1. g'[q].pc = "next" /\ g'[q].blk = x.blk /\ g'[q].batch = x.batch
      BY <1>0, <2>4, SyncLocals, Zenon DEF Now
    <3> QED BY <1>7, <2>1, <2>3, <3>1
  <2> QED BY <1>5, <2>1, <2>3, <2>4
<1> QED BY <1>4, <1>6, <1>8, <1>9, <1>10, <1>11, <1>12 DEF Sync

LEMMA StepOnChain ==
    ASSUME NEW q, Follower(q), Rooted(q), IInv, Undoable(q), OnChain(q), [Next]_vars
    PROVE  OnChain(q)'
<1>0. q \in Peer /\ q \in Goroutine
  BY DEF Follower, Goroutine
<1>1. CASE Crash
  <2>1. /\ g'[q] = Idle
        /\ UNCHANGED <<disk, blockAt, tip>> /\ "crash" \in FaultKind /\ faults' = faults + 1
    BY <1>0, <1>1 DEF Crash, MayFault, Restart, S!Crash, chainVars
  <2>2. g'[q].pc = "idle" /\ g'[q].batch = << >> /\ Len(g'[q].batch) = 0
    BY <2>1 DEF Idle
  <2>3. faults' # 0
    BY <2>1 DEF IInv, EnvOk
  <2> QED BY <2>1, <2>2, <2>3 DEF OnChain, Running
<1>2. CASE UNCHANGED <<stateVars, chainVars, g, faults>>
  BY <1>2 DEF OnChain, stateVars, chainVars
<1>3. CASE Drop(q)
  <2>1. UNCHANGED <<view, disk, blockAt, tip, g>> /\ faults' = faults + 1 /\ faults \in Nat
    BY <1>3 DEF Drop, stateVars, chainVars, IInv, EnvOk
  <2>2. faults' # 0
    BY <2>1
  <2> QED BY <2>1, <2>2, ZenonT(30) DEF OnChain
<1> QED BY <1>1, <1>2, <1>3, SyncOnChain, FollowerSteps, Zenon DEF Undoable

LEMMA InitOnChain ==
    ASSUME NEW q, Follower(q)
    PROVE  Init => OnChain(q)
<1> SUFFICES ASSUME Init PROVE OnChain(q)
  OBVIOUS
<1>1. g[q] = Idle
  BY DEF Follower, Init, Goroutine
<1>2. g[q].pc = "idle" /\ g[q].batch = << >> /\ Len(g[q].batch) = 0
  BY <1>1 DEF Idle
<1>3. tip = Genesis /\ blockAt[0] = Genesis /\ disk = Genesis.root /\ Genesis.height = 0
  BY Zenon DEF Init, Genesis
<1>4. 0 \in 0 .. tip.height
  BY <1>3
<1> HIDE DEF Genesis
<1> QED BY <1>2, <1>3, <1>4 DEF OnChain, Running

\* Unless it died between storing a block and committing its state, or lost a
\* write, the committed state of a follower is the one its tip commits to
\* (network/sync.go handleBlocks, core/block.go StateRoot).
THEOREM FollowerMatchesTip ==
    ASSUME NEW CONSTANT q, Follower(q), Rooted(q)
    PROVE  Spec => []StateMatchesTip
<1>1. Init => Undoable(q) /\ OnChain(q)
  BY InitUndoable, InitOnChain
<1>2. IInv /\ Undoable(q) /\ OnChain(q) /\ [Next]_vars => Undoable(q)' /\ OnChain(q)'
  BY StepUndoable, StepOnChain
<1>3. OnChain(q) => StateMatchesTip
  BY SMTT(30) DEF OnChain, Follower, StateMatchesTip, AtRest, Goroutine
<1> QED BY <1>1, <1>2, <1>3, Invariant, PTL DEF Spec

\* Wherever it dies, and whichever writes fail, the committed state of a
\* follower is the one some stored block commits to (network/sync.go
\* handleBlocks adds the block before it commits the state).
THEOREM FollowerOnChain ==
    ASSUME NEW CONSTANT q, Follower(q), Rooted(q)
    PROVE  Spec => []DiskOnChain
<1>1. Init => Undoable(q) /\ OnChain(q)
  BY InitUndoable, InitOnChain
<1>2. IInv /\ Undoable(q) /\ OnChain(q) /\ [Next]_vars => Undoable(q)' /\ OnChain(q)'
  BY StepUndoable, StepOnChain
<1>3. OnChain(q) => DiskOnChain
  BY DEF OnChain, DiskOnChain
<1> QED BY <1>1, <1>2, <1>3, Invariant, PTL DEF Spec

\* ExecuteBlock computes what the model's Replay says.
LEMMA SyncExecuting ==
    ASSUME NEW q, Follower(q), IInv, Undoable(q), Executing(q), Sync(q)
    PROVE  Executing(q)'
<1>0. q \in Peer /\ q # Poa /\ q \in Goroutine
  BY PoaAssumption DEF Follower, Goroutine
<1> DEFINE x == g[q]
           c == CurrentTx(q)
<1>1. LocalOk(x) /\ view \in State /\ disk \in State
  BY <1>0 DEF IInv, LocalsOk, StateOk
<1>2. c = x.blk.txs[x.pos]
  BY DEF CurrentTx
<1>3. ASSUME g'[q].pc \notin {"exec", "read", "write", "add"}
      PROVE  Executing(q)'
  BY <1>3 DEF Executing
<1>4. CASE Receive(q) \/ SyncValidate(q) \/ SyncDone(q)
  <2>1. CASE Return(q)
    BY <1>0, <1>3, <2>1, SyncLocals, Zenon DEF Now
  <2>2. CASE Receive(q)
    BY <1>0, <1>3, <2>2, SyncLocals, Zenon DEF Now
  <2>3. CASE SyncValidate(q) /\ ~Return(q)
    BY <1>0, <1>3, <2>3, SyncLocals, Zenon DEF Now
  <2> QED BY <1>4, <2>1, <2>2, <2>3 DEF SyncDone
<1>5. CASE ExecUndo(q) \/ SyncAdd(q) \/ SyncCommit(q) \/ SyncRevert(q)
  <2>1. \/ \E pc \in {"revert-continue", "commit", "next"} : Goto(q, pc)
        \/ Return(q)
        \/ Restart
    BY <1>0, <1>5, Zenon DEF ExecUndo, SyncAdd, SyncCommit, SyncRevert
  <2>2. CASE \E pc \in {"revert-continue", "commit", "next"} : Goto(q, pc)
    BY <1>0, <1>3, <2>2, SyncLocals, Zenon DEF Now
  <2>3. CASE Return(q)
    BY <1>0, <1>3, <2>3, SyncLocals, Zenon DEF Now
  <2>4. CASE Restart
    BY <1>0, <1>3, <2>4 DEF Restart, Idle
  <2> QED BY <2>1, <2>2, <2>3, <2>4
<1>6. CASE SyncSnapshot(q)
  <2>1. x.pc = "snap" /\ UNCHANGED <<view, disk>>
    BY <1>6 DEF SyncSnapshot, S!Snapshot, At
  <2>2. view = disk /\ BlockOk(x.blk)
    BY <1>1, <2>1, Zenon DEF Undoable, Resting, LocalOk
  <2>3. g'[q].pc = "exec" /\ g'[q].blk = x.blk /\ g'[q].pos = 1
    BY <1>0, <1>6, SyncLocals, Zenon DEF Now
  <2>4. x.blk.txs \in Seq(Tx) /\ Len(x.blk.txs) \in Nat
    BY <2>2 DEF BlockOk
  <2>5. States(disk, x.blk.txs)[0] = disk
    BY <1>1, <2>4, StatesRounds
  <2>6. 1 \in 1 .. Len(x.blk.txs) + 1 /\ 1 - 1 = 0
    BY <2>4
  <2> QED BY <2>1, <2>2, <2>3, <2>5, <2>6, Zenon DEF Executing
<1>7. CASE ExecSnapshot(q)
  <2>1. x.pc = "exec" /\ UNCHANGED <<view, disk>>
    BY <1>7 DEF ExecSnapshot, S!Snapshot, At
  <2>2. g'[q].pc = "read" /\ g'[q].blk = x.blk /\ g'[q].pos = x.pos
    BY <1>0, <1>7, SyncLocals, Zenon DEF Now
  <2> QED BY <2>1, <2>2, Zenon DEF Executing
<1>8. CASE ExecRead(q)
  <2>1. x.pc = "read" /\ UNCHANGED <<view, disk>>
    BY <1>8 DEF ExecRead, At, stateVars
  <2> DEFINE acc == view[c.from]
             pc == IF Len(acc) = c.nonce THEN "write" ELSE "undo"
  <2>2. Now(q, pc, x.blk, x.pos, x.snap, x.txSnap, acc, x.batch)
    BY <1>0, <1>8, SyncLocals, Zenon
  <2>3. g'[q].pc = pc /\ g'[q].blk = x.blk /\ g'[q].pos = x.pos /\ g'[q].acc = acc
    BY <2>2, Zenon DEF Now
  <2>4. CASE pc = "undo"
    BY <1>3, <2>3, <2>4
  <2>5. CASE pc = "write"
    <3>1. Len(acc) = c.nonce
      BY <2>5
    <3>2. CurrentTx(q)' = c
      BY <1>2, <2>3, Zenon DEF CurrentTx
    <3>3. x.pos \in 1 .. Len(x.blk.txs) + 1 /\ view = States(disk, x.blk.txs)[x.pos - 1]
      BY <2>1 DEF Executing
    <3> HIDE DEF c
    <3> QED BY <2>1, <2>3, <2>5, <3>1, <3>2, <3>3, Zenon DEF Executing
  <2> QED BY <2>4, <2>5
<1>9. CASE ExecWrite(q)
  <2>1. /\ x.pc = "write" /\ view' = [view EXCEPT ![c.from] = Append(x.acc, c)] /\ disk' = disk
    BY <1>9 DEF ExecWrite, S!Set, At
  <2>2. CASE g'[q].pc = "undo"
    BY <1>3, <2>2, Zenon
  <2>3. CASE c.ok /\ g'[q].pc = "exec" /\ g'[q].blk = x.blk /\ g'[q].pos = x.pos + 1
    <3>1. /\ x.pos \in 1 .. Len(x.blk.txs) /\ x.blk.txs \in Seq(Tx) /\ Len(x.blk.txs) \in Nat
      BY <1>1, <2>1, SMTT(30) DEF LocalOk, BlockOk
    <3>2. x.acc = view[c.from] /\ Len(x.acc) = c.nonce
      BY <2>1, SMTT(30) DEF Executing
    <3>3. view = States(disk, x.blk.txs)[x.pos - 1]
      BY <2>1, SMTT(30) DEF Executing
    <3>4. States(disk, x.blk.txs)[x.pos] = ApplyTx(States(disk, x.blk.txs)[x.pos - 1], c)
      BY <1>1, <1>2, <3>1, StatesRounds
    <3>5. view # None
      BY <1>1, NoneAssumption DEF State
    <3>6. ApplyTx(view, c) = view'
      BY <2>1, <2>3, <3>2, <3>5 DEF ApplyTx
    <3>7. x.pos + 1 \in 1 .. Len(x.blk.txs) + 1 /\ (x.pos + 1) - 1 = x.pos
      BY <3>1, SMTT(30)
    <3>8. view' = States(disk, x.blk.txs)[(x.pos + 1) - 1]
      BY <3>3, <3>4, <3>6, <3>7
    <3>9. disk' = disk /\ g'[q].blk = x.blk /\ g'[q].pos = x.pos + 1 /\ g'[q].pc = "exec"
      BY <2>1, <2>3, Zenon
    <3>10. g'[q].pos \in 1 .. Len(g'[q].blk.txs) + 1
      BY <3>7, <3>9
    <3>11. States(disk', g'[q].blk.txs) = States(disk, x.blk.txs)
      BY <3>9, Zenon
    <3>12. view' = States(disk', g'[q].blk.txs)[g'[q].pos - 1]
      BY <3>8, <3>9, <3>11, Zenon
    <3> QED BY <3>9, <3>10, <3>12, ZenonT(30) DEF Executing
  <2> QED BY <1>0, <1>9, <2>2, <2>3, SyncLocals, Zenon DEF Now
<1>10. CASE SyncRoot(q)
  <2>1. x.pc = "exec" /\ x.pos > Len(x.blk.txs) /\ UNCHANGED <<view, disk>>
    BY <1>10, Zenon DEF SyncRoot, At, stateVars
  <2>2. \E pc \in {"revert-return", "add"} : Goto(q, pc)
    BY <1>10 DEF SyncRoot
  <2>3. CASE g'[q].pc = "revert-return"
    BY <1>3, <2>3
  <2>4. CASE g'[q].pc = "add" /\ g'[q].blk = x.blk
    <3>1. Len(x.blk.txs) \in Nat
      BY <1>1, <2>1 DEF LocalOk, BlockOk
    <3>2. x.pos \in 1 .. Len(x.blk.txs) + 1 /\ view = States(disk, x.blk.txs)[x.pos - 1]
      BY <2>1, Zenon DEF Executing
    <3>3. x.pos - 1 = Len(x.blk.txs)
      BY <2>1, <3>1, <3>2, SMTT(30)
    <3>4. view = Replay(disk, x.blk.txs)
      BY <3>2, <3>3, SMTT(30) DEF Replay
    <3> QED BY <2>1, <2>4, <3>4, Zenon DEF Executing
  <2> QED BY <1>0, <2>2, <2>3, <2>4, SyncLocals, Zenon DEF Now
<1> QED BY <1>4, <1>5, <1>6, <1>7, <1>8, <1>9, <1>10, SMTT(30) DEF Sync, Exec

LEMMA StepExecuting ==
    ASSUME NEW q, Follower(q), IInv, Undoable(q), Executing(q), [Next]_vars
    PROVE  Executing(q)'
<1>0. q \in Goroutine
  BY DEF Follower, Goroutine
<1>1. CASE Crash
  <2>1. g'[q].pc = "idle"
    BY <1>0, <1>1 DEF Crash, Restart, Idle
  <2> QED BY <2>1 DEF Executing
<1>2. CASE UNCHANGED <<stateVars, chainVars, g, faults>> \/ Drop(q)
  <2>1. UNCHANGED <<view, disk, g>>
    BY <1>2 DEF Drop, stateVars
  <2> QED BY <2>1, Zenon DEF Executing, CurrentTx
<1> QED BY <1>1, <1>2, SyncExecuting, FollowerSteps DEF Undoable

\* A block that a follower stores is replayable on the block below.
LEMMA StepReplays ==
    ASSUME NEW q, Follower(q), Rooted(q), "crash" \notin FaultKind,
           IInv, Undoable(q), OnChain(q), Executing(q), ChainReplays, [Next]_vars
    PROVE  ChainReplays'
<1>0. q \in Peer /\ q \in Goroutine
  BY DEF Follower, Goroutine
<1>1. CASE UNCHANGED <<blockAt, tip>>
  BY <1>1 DEF ChainReplays
<1>2. CASE SyncAdd(q) /\ Follows(g[q].blk) /\ AddBlock(g[q].blk)
  <2> DEFINE b == g[q].blk
             n == tip.height
  <2>1. g[q].pc = "add"
    BY <1>2 DEF SyncAdd, At
  <2>2. BlockOk(b)
    BY <1>0, <2>1, SMTT(30) DEF IInv, LocalsOk, LocalOk
  <2>3. ChainOk /\ n \in Nat /\ DOMAIN blockAt = 0 .. n /\ tip = blockAt[n]
    BY SMTT(30) DEF IInv, ChainOk, ChainLinked
  <2>4. /\ DOMAIN blockAt' = 0 .. n + 1 /\ blockAt'[n + 1] = b
        /\ \A h \in 0 .. n : blockAt'[h] = blockAt[h]
    BY <1>2, <2>2, <2>3, PutOnTop, Zenon
  <2>5. disk = tip.root /\ view = b.root /\ view = Replay(disk, b.txs)
    BY <2>1, Zenon DEF OnChain, Executing
  <2> HIDE DEF n, b
  <2>6. ASSUME NEW h \in 1 .. n + 1
        PROVE  Replay(blockAt'[h - 1].root, blockAt'[h].txs) = blockAt'[h].root
    <3>1. CASE h = n + 1
      <4>1. h - 1 = n /\ n \in 0 .. n
        BY <2>3, <3>1
      <4>2. blockAt'[h - 1] = tip /\ blockAt'[h] = b
        BY <2>3, <2>4, <3>1, <4>1
      <4> QED BY <2>5, <4>2, Zenon
    <3>2. CASE h # n + 1
      <4>1. h \in 0 .. n /\ h - 1 \in 0 .. n /\ h # 0
        BY <2>3, <3>2
      <4>2. Replay(blockAt[h - 1].root, blockAt[h].txs) = blockAt[h].root
        BY <2>3, <4>1 DEF ChainReplays
      <4> QED BY <2>4, <4>1, <4>2
    <3> QED BY <3>1, <3>2
  <2>7. DOMAIN blockAt' \ {0} = 1 .. n + 1
    BY <2>3, <2>4
  <2> QED BY <2>6, <2>7 DEF ChainReplays
<1>3. ASSUME Sync(q) PROVE UNCHANGED <<blockAt, tip>> \/ (SyncAdd(q) /\ Follows(g[q].blk) /\ AddBlock(g[q].blk))
  BY <1>3, Zenon DEF Sync, Receive, SyncValidate, SyncSnapshot, Exec, ExecSnapshot, ExecRead, ExecWrite,
              ExecUndo, SyncRoot, SyncAdd, SyncCommit, SyncRevert, SyncDone, Restart, chainVars
<1>4. Crash \/ Drop(q) \/ UNCHANGED <<stateVars, chainVars, g, faults>> => UNCHANGED <<blockAt, tip>>
  BY DEF Crash, Restart, Drop, chainVars
<1> QED BY <1>1, <1>2, <1>3, <1>4, FollowerSteps, Zenon DEF Undoable

\* On a follower that does not crash, each stored block's root is what executing
\* its transactions on its parent's state gives, whatever blocks the peer sends
\* (network/sync.go "(A) Verify state root matches after execution").
THEOREM FollowerReplays ==
    ASSUME NEW CONSTANT q, Follower(q), Rooted(q), "crash" \notin FaultKind
    PROVE  Spec => []ChainReplays
<1>1. Init => Undoable(q) /\ OnChain(q) /\ Executing(q) /\ ChainReplays
  <2> SUFFICES ASSUME Init PROVE Undoable(q) /\ OnChain(q) /\ Executing(q) /\ ChainReplays
    OBVIOUS
  <2>1. g[q].pc = "idle"
    BY DEF Follower, Init, Goroutine, Idle
  <2>2. Executing(q)
    BY <2>1, SMTT(30) DEF Executing
  <2>3. DOMAIN blockAt \ {0} = {}
    BY DEF Init
  <2>4. ChainReplays
    BY <2>3 DEF ChainReplays
  <2> QED BY <2>2, <2>4, InitUndoable, InitOnChain
<1>2. IInv /\ Undoable(q) /\ OnChain(q) /\ Executing(q) /\ ChainReplays /\ [Next]_vars
        => Undoable(q)' /\ OnChain(q)' /\ Executing(q)' /\ ChainReplays'
  BY StepUndoable, StepOnChain, StepExecuting, StepReplays
<1> QED BY <1>1, <1>2, Invariant, PTL DEF Spec
=============================================================================
