-------------------------------- MODULE Node --------------------------------
(***************************************************************************)
(* One running node: the block producer (consensus/poa.go) and one sync    *)
(* goroutine per peer (network/sync.go, called from readLoop) over the     *)
(* shared state (Store), block store (core/blockchain.go) and mempool      *)
(* (core/mempool.go).  Each of these three has its own mutex and nothing   *)
(* locks a block as a whole, so an action is one call into one of them.    *)
(*                                                                         *)
(* A transaction is abstracted to its sender, its nonce and whether its    *)
(* handler accepts it; the state maps an account to the transactions it    *)
(* has had executed, whose number is its nonce.                            *)
(***************************************************************************)
EXTENDS Integers, FiniteSets, Functions, Lists

CONSTANTS
    Account,
    Tx,             \* records [from, nonce, ok, stamp]
    None,
    Self,           \* this node's public key
    Validators,     \* the configured validators, in round-robin order
    Poa,            \* the goroutine of PoA.Run
    Peer,           \* the connected peers, and their goroutines
    PeerChain,      \* for each peer, the sets of chains (above genesis) it may have
    Time,           \* what reading the wall clock can return
    Drift,          \* maxBlockTimeDrift
    SyncLimit,      \* blocks per request: 50 in the code
    MaxBlockTxs,
    MaxMempool,     \* maxMempoolSize
    MaxTxAge,       \* maxTxAge
    MaxTxFuture,    \* maxTxFuture
    MaxSnapshots,   \* bound on the snapshot stack, never reached
    MaxHeight,      \* bound on the chain
    MaxIdleHeight,  \* bound on the chain while the mempool is empty
    MaxSubmits,     \* bound on how often one transaction is submitted
    MaxConnects,    \* bound on the requests started by a connection
    FaultKind,      \* the faults that may happen: "crash", "write", "drop"
    MaxFaults       \* bound on their number

ASSUME ValidatorsAssumption == Validators # << >>

ASSUME BoundsAssumption ==
    /\ SyncLimit \in Nat \ {0}
    /\ MaxBlockTxs \in Nat \ {0}
    /\ {MaxMempool, MaxTxAge, MaxTxFuture} \subseteq Nat
    /\ {MaxSnapshots, MaxHeight, MaxIdleHeight} \subseteq Nat
    /\ {MaxSubmits, MaxConnects, MaxFaults} \subseteq Nat

ASSUME PoaAssumption == Poa \notin Peer

ASSUME TxAssumption == \A x \in Tx : x.from \in Account /\ x.nonce \in Nat

\* Whatever else may be wrong with a block of a peer, it decodes to a header
\* with a height and a list of transactions; None stands for an empty root.
ASSUME PeerChainAssumption ==
    \A q \in Peer : \A chain \in UNION PeerChain[q] :
      /\ chain \in Seq(Range(chain))
      /\ \A b \in Range(chain) :
           /\ b.height \in Nat
           /\ b.txs \in Seq(Tx)
           /\ b.root \in [Account -> Seq(Tx)] \cup {None}

ASSUME NoneAssumption == None \notin [Account -> Seq(Tx)]

VARIABLES
    view, saved, disk,  \* the state: see Store
    blockAt,            \* the blocks the height index leads to, by height
    tip,                \* the block under chain:tip, cached in Blockchain.tip
    held,               \* Mempool.txs
    pool,               \* Mempool.ord, the identifiers in insertion order
    g,                  \* the program state of each goroutine
    serves,             \* the chains each peer answers from
    requests,           \* the get_blocks requests each peer has yet to answer
    submits,            \* how often each transaction has been submitted
    connects,           \* how often each peer has been greeted
    faults              \* how many faults have happened

stateVars == <<view, saved, disk>>
chainVars == <<blockAt, tip>>
poolVars == <<held, pool>>
envVars == <<serves, requests, submits, connects, faults>>
vars == <<stateVars, chainVars, poolVars, g, envVars>>

Goroutine == {Poa} \cup Peer

S == INSTANCE Store WITH Key <- Account, Value <- Seq(Tx), NotFound <- None,
                         AssetKey <- {}

\* The header and transactions of a block.  sealed says that the chain ID, the
\* hash, the signature and the transaction root check out; root is the state
\* itself, which the root's hash identifies.  The peers have the same genesis
\* block: between nodes that each made their own, no block validates.
Genesis == [height |-> 0, prev |-> None, by |-> Self, time |-> 0, sealed |-> TRUE,
            txs |-> << >>, root |-> [a \in Account |-> << >>]]

\* A collision-free hash of a block.
Hash(b) == <<"hash", b>>

ProposerOf(h) == Validators[(h % Len(Validators)) + 1]

Idle == [pc |-> "idle", blk |-> None, pos |-> 0, snap |-> 0, txSnap |-> 0,
         acc |-> << >>, batch |-> << >>, full |-> FALSE]

Init ==
    /\ disk = Genesis.root
    /\ view = disk
    /\ saved = << >>
    /\ blockAt = [h \in {0} |-> Genesis]
    /\ tip = Genesis
    /\ held = {}
    /\ pool = << >>
    /\ g = [t \in Goroutine |-> Idle]
    /\ serves \in {f \in [Peer -> UNION Range(PeerChain)] : \A q \in Peer : f[q] \in PeerChain[q]}
    /\ requests = [q \in Peer |-> << >>]
    /\ submits = [x \in Tx |-> 0]
    /\ connects = [q \in Peer |-> 0]
    /\ faults = 0

At(t, pc) == g[t].pc = pc
Becomes(t, x) == g' = [g EXCEPT ![t] = x]
Goto(t, pc) == Becomes(t, [g[t] EXCEPT !.pc = pc])
Return(t) == Becomes(t, Idle)

MayFault(kind) == kind \in FaultKind /\ faults < MaxFaults
Fault == faults' = faults + 1 /\ UNCHANGED <<serves, requests, submits, connects>>

\* The process exits, by a crash or by log.Fatalf, and main runs again: what
\* LevelDB holds is all that is left.
Restart ==
    /\ S!Crash
    /\ held' = {}
    /\ pool' = << >>
    /\ g' = [t \in Goroutine |-> Idle]
    /\ requests' = [q \in Peer |-> << >>]
    /\ UNCHANGED <<chainVars, serves, submits, connects>>

-----------------------------------------------------------------------------
(* core/mempool.go *)

Mined == UNION {Range(blockAt[h].txs) : h \in DOMAIN blockAt}

\* The transaction is neither too old nor from too far in the future.
Fresh(x, now) ==
    /\ now - x.stamp <= MaxTxAge
    /\ x.stamp - now <= MaxTxFuture

\* Mutant: the size of the pool is not checked.
AddToFullPool(x) ==
    /\ submits[x] < MaxSubmits
    /\ submits[x] = 0 => x \notin Mined
    /\ \E now \in Time : Fresh(x, now)
    /\ x \notin held
    /\ held' = held \cup {x}
    /\ pool' = Append(pool, x)
    /\ submits' = [submits EXCEPT ![x] = @ + 1]
    /\ UNCHANGED <<stateVars, chainVars, g, serves, requests, connects, faults>>

\* Add, from rpc sendTx or a peer's tx message.  A client submits a
\* transaction that is not mined, and may submit it again later.
Add(x) ==
    /\ submits[x] < MaxSubmits
    /\ submits[x] = 0 => x \notin Mined
    /\ \E now \in Time : Fresh(x, now)
    /\ Cardinality(held) < MaxMempool
    /\ x \notin held
    /\ held' = held \cup {x}
    /\ pool' = Append(pool, x)
    /\ submits' = [submits EXCEPT ![x] = @ + 1]
    /\ UNCHANGED <<stateVars, chainVars, g, serves, requests, connects, faults>>

\* Mutant: the loop stops one transaction early.
PendingOneLess(n) ==
    LET listed == Filtered(pool, held)
    IN  SubSeq(listed, 1, (IF n < Len(listed) THEN n ELSE Len(listed)) - 1)

\* Up to n transactions in insertion order.
Pending(n) ==
    LET listed == Filtered(pool, held)
    IN  SubSeq(listed, 1, IF n < Len(listed) THEN n ELSE Len(listed))

\* Mutant: nothing is removed.
RemoveNone(txs) == UNCHANGED poolVars

\* Mutant: the order is left as it is, since Pending skips what is not held.
RemoveFromMap(txs) ==
    /\ held' = held \ Range(txs)
    /\ UNCHANGED pool

RemoveAll(txs) ==
    /\ held' = held \ Range(txs)
    /\ pool' = Filtered(pool, Range(pool) \ Range(txs))

-----------------------------------------------------------------------------
(* core/blockchain.go *)

\* Mutant: old heights are not refused and the link is not checked.
FollowsAnything(b) == b.height <= tip.height + 1

\* AddBlock accepts b.
Follows(b) ==
    /\ b.height = tip.height + 1
    /\ b.prev = Hash(tip)

\* The block goes under its height, whether or not there is one already.
Put(b) == [h \in DOMAIN blockAt \cup {b.height} |-> IF h = b.height THEN b ELSE blockAt[h]]

\* Mutant: the tip is left where it was.
AddBlockKeepsTip(b) ==
    /\ blockAt' = Put(b)
    /\ UNCHANGED tip

\* CommitBlock writes the block, the height index and the tip in one batch.
AddBlock(b) ==
    /\ blockAt' = Put(b)
    /\ tip' = b

-----------------------------------------------------------------------------
(* vm/executor.go ExecuteBlock and ExecuteTx, in any goroutine *)

CurrentTx(t) == g[t].blk.txs[g[t].pos]

ExecSnapshot(t) ==
    /\ At(t, "exec")
    /\ g[t].pos <= Len(g[t].blk.txs)
    /\ S!Snapshot
    /\ Becomes(t, [g[t] EXCEPT !.pc = "read", !.txSnap = S!NextId])
    /\ UNCHANGED <<chainVars, poolVars, envVars>>

\* applyTx loads the sender and compares the nonce.
ExecRead(t) ==
    /\ At(t, "read")
    /\ LET acc == view[CurrentTx(t).from]
       IN  Becomes(t, [g[t] EXCEPT !.pc = IF Len(acc) = CurrentTx(t).nonce THEN "write" ELSE "undo",
                                   !.acc = acc])
    /\ UNCHANGED <<stateVars, chainVars, poolVars, envVars>>

\* applyTx saves the sender; then the handler accepts or refuses.
ExecWrite(t) ==
    /\ At(t, "write")
    /\ S!Set(CurrentTx(t).from, Append(g[t].acc, CurrentTx(t)))
    /\ Becomes(t, IF CurrentTx(t).ok
                  THEN [g[t] EXCEPT !.pc = "exec", !.pos = @ + 1, !.acc = << >>]
                  ELSE [g[t] EXCEPT !.pc = "undo", !.acc = << >>])
    /\ UNCHANGED <<chainVars, poolVars, envVars>>

\* The transaction is rolled back, or the rollback fails too: either way
\* ExecuteBlock returns an error.  ProduceBlock passes it on; handleBlocks
\* reverts the block and goes on with the next one.
ExecUndo(t) ==
    /\ At(t, "undo")
    /\ S!RevertToSnapshot(g[t].txSnap)
    /\ IF t = Poa THEN Return(t) ELSE Goto(t, "revert-continue")
    /\ UNCHANGED <<chainVars, poolVars, envVars>>

-----------------------------------------------------------------------------
(* consensus/poa.go *)

\* The ticker fires and IsProposer says yes.
Tick ==
    /\ At(Poa, "idle")
    /\ tip.height < IF held = {} THEN MaxIdleHeight ELSE MaxHeight
    /\ ProposerOf(tip.height + 1) = Self
    /\ Goto(Poa, "build")
    /\ UNCHANGED <<stateVars, chainVars, poolVars, envVars>>

\* Pending, Tip and NewBlock.
Build ==
    /\ At(Poa, "build")
    /\ tip.height < MaxHeight
    /\ \E now \in Time :
         Becomes(Poa, [g[Poa] EXCEPT !.pc = "exec", !.pos = 1,
                                     !.blk = [height |-> tip.height + 1, prev |-> Hash(tip),
                                              by |-> Self, time |-> now, sealed |-> TRUE,
                                              txs |-> Pending(MaxBlockTxs), root |-> None]])
    /\ UNCHANGED <<stateVars, chainVars, poolVars, envVars>>

\* Mutant: the root is that of the database, without the buffer.
SealWithOldRoot ==
    /\ At(Poa, "exec")
    /\ g[Poa].pos > Len(g[Poa].blk.txs)
    /\ Becomes(Poa, [g[Poa] EXCEPT !.blk.root = disk, !.pc = "add"])
    /\ UNCHANGED <<stateVars, chainVars, poolVars, envVars>>

\* ComputeRoot and Sign.
Seal ==
    /\ At(Poa, "exec")
    /\ g[Poa].pos > Len(g[Poa].blk.txs)
    /\ Becomes(Poa, [g[Poa] EXCEPT !.blk.root = view, !.pc = "add"])
    /\ UNCHANGED <<stateVars, chainVars, poolVars, envVars>>

\* Mutant: a block that could not be stored takes its transactions with it.
ProduceAddDropsTxs ==
    /\ At(Poa, "add")
    /\ \/ /\ Follows(g[Poa].blk)
          /\ AddBlock(g[Poa].blk)
          /\ Goto(Poa, "commit")
          /\ UNCHANGED <<poolVars, envVars>>
       \/ /\ MayFault("write")
          /\ Return(Poa)
          /\ Fault
          /\ RemoveAll(g[Poa].blk.txs)
          /\ UNCHANGED chainVars
    /\ UNCHANGED stateVars

ProduceAdd ==
    /\ At(Poa, "add")
    /\ \/ /\ Follows(g[Poa].blk)
          /\ AddBlock(g[Poa].blk)
          /\ Goto(Poa, "commit")
          /\ UNCHANGED envVars
       \/ /\ ~Follows(g[Poa].blk)
          /\ Return(Poa)
          /\ UNCHANGED <<chainVars, envVars>>
       \/ /\ MayFault("write")
          /\ Follows(g[Poa].blk)
          /\ Return(Poa)
          /\ Fault
          /\ UNCHANGED chainVars
    /\ UNCHANGED <<stateVars, poolVars>>

\* Mutant: the state is not flushed after the block is stored.
ProduceWithoutCommit ==
    /\ At(Poa, "commit")
    /\ Goto(Poa, "remove")
    /\ UNCHANGED <<stateVars, chainVars, poolVars, envVars>>

ProduceCommit ==
    /\ At(Poa, "commit")
    /\ S!Flush
    /\ Goto(Poa, "remove")
    /\ UNCHANGED <<chainVars, poolVars, envVars>>

ProduceRemove ==
    /\ At(Poa, "remove")
    /\ RemoveAll(g[Poa].blk.txs)
    /\ Return(Poa)
    /\ UNCHANGED <<stateVars, chainVars, envVars>>

\* ValidateBlock, when the clock reads now.
Valid(b, now) ==
    /\ b.by = ProposerOf(b.height)
    /\ b.sealed
    /\ b.time <= now + Drift
    /\ b.prev = Hash(tip)
    /\ b.height = tip.height + 1
    /\ b.time >= tip.time

-----------------------------------------------------------------------------
(* network/sync.go *)

\* A hello arrives, or main calls SyncWithPeer: ask for what follows the tip.
Connect(q) ==
    /\ connects[q] < MaxConnects
    /\ connects' = [connects EXCEPT ![q] = @ + 1]
    /\ requests' = [requests EXCEPT ![q] = Append(@, tip.height + 1)]
    /\ UNCHANGED <<stateVars, chainVars, poolVars, g, serves, submits, faults>>

\* What handleGetBlocks of the peer answers.
Answer(chain, from) ==
    LET last == from + SyncLimit - 1
    IN  SubSeq(chain, from, IF last < Len(chain) THEN last ELSE Len(chain))

\* Mutant: > for >= when a full batch is recognised.
ReceiveMoreThanFull(q) ==
    /\ At(q, "idle")
    /\ requests[q] # << >>
    /\ \E chain \in serves[q] :
         LET blocks == Answer(chain, Head(requests[q]))
         IN  Becomes(q, [g[q] EXCEPT !.pc = "next", !.batch = blocks,
                                   !.full = Len(blocks) > SyncLimit])
    /\ requests' = [requests EXCEPT ![q] = Tail(@)]
    /\ UNCHANGED <<stateVars, chainVars, poolVars, serves, submits, connects, faults>>

\* The answer to the oldest request reaches handleBlocks.
Receive(q) ==
    /\ At(q, "idle")
    /\ requests[q] # << >>
    /\ \E chain \in serves[q] :
         LET blocks == Answer(chain, Head(requests[q]))
         IN  Becomes(q, [g[q] EXCEPT !.pc = "next", !.batch = blocks,
                                   !.full = Len(blocks) >= SyncLimit])
    /\ requests' = [requests EXCEPT ![q] = Tail(@)]
    /\ UNCHANGED <<stateVars, chainVars, poolVars, serves, submits, connects, faults>>

\* The connection goes down before the answer arrives; nothing asks again.
Drop(q) ==
    /\ MayFault("drop")
    /\ requests[q] # << >>
    /\ requests' = [requests EXCEPT ![q] = << >>]
    /\ faults' = faults + 1
    /\ UNCHANGED <<stateVars, chainVars, poolVars, g, serves, submits, connects>>

\* Validate the next block of the batch; an invalid one ends the batch.
SyncValidate(q) ==
    /\ At(q, "next")
    /\ g[q].batch # << >>
    /\ \E now \in Time :
         LET b == Head(g[q].batch)
         IN  IF Valid(b, now)
             THEN Becomes(q, [g[q] EXCEPT !.pc = "snap", !.blk = b, !.batch = Tail(@)])
             ELSE Return(q)
    /\ UNCHANGED <<stateVars, chainVars, poolVars, envVars>>

\* Mutant: the snapshot's identifier is one too high.
SyncSnapshotOffByOne(q) ==
    /\ At(q, "snap")
    /\ S!Snapshot
    /\ Becomes(q, [g[q] EXCEPT !.pc = "exec", !.pos = 1, !.snap = S!NextId + 1])
    /\ UNCHANGED <<chainVars, poolVars, envVars>>

SyncSnapshot(q) ==
    /\ At(q, "snap")
    /\ S!Snapshot
    /\ Becomes(q, [g[q] EXCEPT !.pc = "exec", !.pos = 1, !.snap = S!NextId])
    /\ UNCHANGED <<chainVars, poolVars, envVars>>

\* Mutant: a block with the wrong root is dropped and not rolled back.
SyncRootWithoutRevert(q) ==
    /\ At(q, "exec")
    /\ g[q].pos > Len(g[q].blk.txs)
    /\ IF view # g[q].blk.root THEN Return(q) ELSE Goto(q, "add")
    /\ UNCHANGED <<stateVars, chainVars, poolVars, envVars>>

\* Mutant: the root is not compared.
SyncRootUnchecked(q) ==
    /\ At(q, "exec")
    /\ g[q].pos > Len(g[q].blk.txs)
    /\ Goto(q, "add")
    /\ UNCHANGED <<stateVars, chainVars, poolVars, envVars>>

\* Mutant: the state is flushed before the block is stored.
SyncRootThenFlush(q) ==
    /\ At(q, "exec")
    /\ g[q].pos > Len(g[q].blk.txs)
    /\ IF view # g[q].blk.root
       THEN Goto(q, "revert-return") /\ UNCHANGED stateVars
       ELSE Goto(q, "add") /\ S!Flush
    /\ UNCHANGED <<chainVars, poolVars, envVars>>

\* Every transaction succeeded: compare the state root.
SyncRoot(q) ==
    /\ At(q, "exec")
    /\ g[q].pos > Len(g[q].blk.txs)
    /\ Goto(q, IF g[q].blk.root # None /\ view # g[q].blk.root
               THEN "revert-return" ELSE "add")
    /\ UNCHANGED <<stateVars, chainVars, poolVars, envVars>>

SyncAdd(q) ==
    /\ At(q, "add")
    /\ \/ /\ Follows(g[q].blk)
          /\ AddBlock(g[q].blk)
          /\ Goto(q, "commit")
          /\ UNCHANGED envVars
       \/ /\ ~Follows(g[q].blk)
          /\ Goto(q, "revert-continue")
          /\ UNCHANGED <<chainVars, envVars>>
       \/ /\ MayFault("write")
          /\ Follows(g[q].blk)
          /\ Goto(q, "revert-continue")
          /\ Fault
          /\ UNCHANGED chainVars
    /\ UNCHANGED <<stateVars, poolVars>>

\* Mutant: the state is not flushed after the block is stored.
SyncWithoutCommit(q) ==
    /\ At(q, "commit")
    /\ Goto(q, "next")
    /\ UNCHANGED <<stateVars, chainVars, poolVars, envVars>>

SyncCommit(q) ==
    /\ At(q, "commit")
    /\ S!Flush
    /\ Goto(q, "next")
    /\ UNCHANGED <<chainVars, poolVars, envVars>>

Reverting(q) == g[q].pc \in {"revert-continue", "revert-return"}

\* The block is rolled back; a rollback that fails ends the process, which is a
\* death like any other and needs no leave of MaxFaults.
SyncRevert(q) ==
    /\ Reverting(q)
    /\ \/ /\ S!Live(g[q].snap)
          /\ S!RevertToSnapshot(g[q].snap)
          /\ IF At(q, "revert-continue") THEN Goto(q, "next") ELSE Return(q)
          /\ UNCHANGED <<chainVars, poolVars, envVars>>
       \/ /\ ~S!Live(g[q].snap)
          /\ Restart
          /\ faults' = faults + 1

\* The batch is done; a full one is followed by another request.
SyncDone(q) ==
    /\ At(q, "next")
    /\ g[q].batch = << >>
    /\ Return(q)
    /\ requests' = [requests EXCEPT ![q] =
                      IF g[q].full THEN Append(@, tip.height + 1) ELSE @]
    /\ UNCHANGED <<stateVars, chainVars, poolVars, serves, submits, connects, faults>>

\* The process is killed at any point.
Crash ==
    /\ MayFault("crash")
    /\ faults' = faults + 1
    /\ Restart

-----------------------------------------------------------------------------
Exec(t) == ExecSnapshot(t) \/ ExecRead(t) \/ ExecWrite(t) \/ ExecUndo(t)

Produce == Build \/ Exec(Poa) \/ Seal \/ ProduceAdd \/ ProduceCommit \/ ProduceRemove

Sync(q) ==
    \/ Receive(q) \/ SyncValidate(q) \/ SyncSnapshot(q) \/ Exec(q) \/ SyncRoot(q)
    \/ SyncAdd(q) \/ SyncCommit(q) \/ SyncRevert(q) \/ SyncDone(q)

Next ==
    \/ \E x \in Tx : Add(x)
    \/ Tick
    \/ Produce
    \/ \E q \in Peer : Connect(q) \/ Sync(q) \/ Drop(q)
    \/ Crash

Spec == Init /\ [][Next]_vars

\* The ticker keeps firing, and the Go scheduler runs every goroutine that can
\* run; a connected peer answers.  Clients and faults are under no obligation.
Fairness ==
    /\ WF_vars(Tick)
    /\ WF_vars(Produce)
    /\ \A q \in Peer : WF_vars(Sync(q))

FairSpec == Spec /\ Fairness

-----------------------------------------------------------------------------
PC == {"idle", "build", "exec", "read", "write", "undo", "add", "commit", "remove",
       "next", "snap", "revert-continue", "revert-return"}

TypeOK ==
    /\ S!TypeOK
    /\ DOMAIN blockAt \subseteq Nat
    /\ tip.height \in Nat
    /\ held \subseteq Tx /\ Cardinality(held) <= MaxMempool
    /\ pool \in Seq(Tx)
    /\ DOMAIN g = Goroutine
    /\ \A t \in Goroutine :
         /\ g[t].pc \in PC
         /\ {g[t].pos, g[t].snap, g[t].txSnap} \subseteq Nat
         /\ g[t].acc \in Seq(Tx)
         /\ g[t].full \in BOOLEAN
    /\ requests \in [Peer -> Seq(Nat \ {0})]
    /\ submits \in [Tx -> 0 .. MaxSubmits]
    /\ connects \in [Peer -> 0 .. MaxConnects]
    /\ faults \in Nat

\* The stored chain is a hash chain from genesis to the tip, with no gap and
\* nothing above the tip, whichever goroutines race to extend it and wherever
\* the process dies (blockchain.go AddBlock, leveldb.go CommitBlock).
ChainLinked ==
    /\ DOMAIN blockAt = 0 .. tip.height
    /\ tip = blockAt[tip.height]
    /\ blockAt[0] = Genesis
    /\ \A h \in 1 .. tip.height :
         /\ blockAt[h].height = h
         /\ blockAt[h].prev = Hash(blockAt[h - 1])

\* A stored block is never replaced or dropped: whoever read block h from this
\* node reads the same block later (blockchain.go AddBlock, "(F) ... fork
\* prevention").
AppendOnly ==
    [][\A h \in DOMAIN blockAt : h \in DOMAIN blockAt' /\ blockAt'[h] = blockAt[h]]_vars

AtRest == \A t \in Goroutine : g[t].pc \in {"idle", "build"}

\* Between blocks, nothing is buffered: reads see the committed state, and the
\* effects of every rejected block are gone (sync.go handleBlocks, poa.go
\* ProduceBlock, executor.go "A failing transaction causes the whole block to
\* be rejected").
NothingLeftBehind == AtRest => view = disk

\* The nonce of x is behind the state s: x can only fail from now on.
Spent(s, x) == Len(s[x.from]) > x.nonce

\* A transaction that the next block must take is spent in the state s.
Stuck(s) == \E i \in 1 .. Len(pool) : i <= MaxBlockTxs /\ Spent(s, pool[i])

\* What a block that was given up leaves in the buffer never gets into a later
\* block's root: it has spent one of the oldest transactions in the mempool,
\* which every further block takes and fails on (poa.go ProduceBlock, which
\* returns without a rollback; mempool.go Pending, in insertion order).
LeftoversBlock == AtRest => view = disk \/ Stuck(view)

\* Between blocks, and unless the process has died or a write has failed, the
\* committed state is the one the tip's header commits to
\* (block.go StateRoot, "hash of state after executing this block").
StateMatchesTip == AtRest /\ faults = 0 => disk = tip.root

\* Between blocks, the committed state is the one some stored block commits to,
\* so what a crash can cost a follower is blocks whose effects are missing,
\* never the effects of a block it does not have (sync.go handleBlocks adds the
\* block before it commits the state).
DiskOnChain ==
    AtRest => \E h \in 0 .. tip.height : disk = blockAt[h].root

\* Executing a transaction on the state s; None once one has failed.
ApplyTx(s, x) ==
    IF s = None THEN None
    ELSE IF x.ok /\ Len(s[x.from]) = x.nonce THEN [s EXCEPT ![x.from] = Append(@, x)]
    ELSE None

\* The states from s on while txs are executed one after the other.
States(s, txs) ==
    LET after[i \in 0 .. Len(txs)] == IF i = 0 THEN s ELSE ApplyTx(after[i - 1], txs[i])
    IN  after

Replay(s, txs) == States(s, txs)[Len(txs)]

\* Each stored block's root is what executing its transactions on its parent's
\* state gives, so another node can replay the chain (block.go StateRoot,
\* sync.go "(A) Verify state root matches after execution").
ChainReplays ==
    \A h \in DOMAIN blockAt \ {0} :
      Replay(blockAt[h - 1].root, blockAt[h].txs) = blockAt[h].root

\* When handleBlocks rolls a block back, its snapshot is still there, so the
\* process does not exit (sync.go, the log.Fatalf after RevertToSnapshot).
RevertsAreLive == \A q \in Peer : Reverting(q) => S!Live(g[q].snap)

\* Between blocks, no mined transaction waits in the mempool (mempool.go
\* Remove, "called after block commit").
MinedLeavesPool == AtRest => held \cap Mined = {}

\* The order list names what the pool holds, each once, so that a block never
\* takes a transaction twice and a removed one that is submitted again goes to
\* the back (mempool.go Add, Pending and Remove, which keep both).
MempoolInStep == IsInjective(pool) /\ Range(pool) = held

\* The first transactions of their senders that their handlers accept.
Firsts == {x \in Tx : x.ok /\ x.nonce = 0}

\* Once in the mempool, such a transaction is mined, unless a fault intervenes
\* or another kind comes into the mempool (poa.go Run, ProduceBlock; mempool.go
\* Pending).
PendingIsMined ==
    \A x \in Firsts :
      (x \in held) ~> (x \in Mined \/ faults > 0 \/ ~(held \subseteq Firsts))

\* Once a peer that has one chain is greeted, that whole chain is fetched and
\* applied, batch after batch, unless a fault intervenes (sync.go handleBlocks,
\* the follow-up request after a full batch).
CatchesUp ==
    \A q \in Peer : \A chain \in UNION PeerChain[q] :
      (connects[q] > 0 /\ serves[q] = {chain}) ~> (tip.height >= Len(chain) \/ faults > 0)
=============================================================================
