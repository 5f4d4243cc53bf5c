# A TLA+ verification of tolchain

tolchain is a small proof-of-authority blockchain for game assets. This
directory holds TLA+ models of its core, the TLC runs that check them and the
TLAPS proofs about them. Everything is translated from the Go code; `PROJECT.json` maps each definition to its lines.

## The system

| part | code | module | status |
|---|---|---|---|
| world state: write buffer, snapshots, root, commit | `storage/statedb.go`, `core/state.go` | `StateDB`, `Store` | modelled, proved |
| executor and registry: nonce, fee, dispatch, rollback | `vm/executor.go`, `vm/registry.go` | `VM` (what), `Node` (interleaved) | modelled, proved |
| handlers: tokens, templates, assets, market, sessions | `vm/modules/` | `VM` | modelled, proved |
| block production and validation | `consensus/poa.go` | `Node`, `Network` | modelled, proved for a sole validator |
| block store | `core/blockchain.go`, `storage/leveldb.go` | `Node` | modelled, proved |
| block sync | `network/sync.go` | `Node`, `Network` | modelled, proved for one peer |
| mempool | `core/mempool.go` | `Node`, `Lists` | modelled, proved |
| peer table, connections, shutdown | `network/node.go`, `network/peer.go` | `PeerTable` | modelled, proved |
| genesis, start-up, several nodes | `config/genesis.go`, `cmd/node/main.go` | `Network`, `Ledger` | modelled, proved |
| indexer, events | `indexer/`, `events/` | `Indexer`, `Lists` | modelled, proved |
| RPC | `rpc/` | `Node` (`sendTx` as `Add`), `Indexer` (`getAssetsByOwner`) | partly |
| blocks and transactions | `core/block.go`, `core/transaction.go` | `Node`, `VM`, `Network` | partly |
| configuration | `config/config.go` | `Network` (`ValidConfig`) | partly |
| TLS, wallet, crypto, test doubles | `config/tls.go`, `wallet/`, `crypto/`, `internal/` | | not modelled |

A transaction enters the mempool by RPC or from a peer. Every two seconds
`PoA.Run` asks whether it is this node's turn and if so takes the oldest
transactions, executes them in the StateDB buffer, computes the root, stores
the block and commits the buffer. Blocks of others arrive in answer to
`get_blocks` requests, which a node sends when it connects or is greeted; each
peer's `readLoop` goroutine runs `handleBlocks` itself. StateDB, block store and mempool each have a mutex. Nothing locks a
block as a whole. Handlers emit events while a block executes, and the indexer
writes its lists as they come.

## The modules

**`Store`** is what `core.State` promises: a map (`view`), a stack of saved
copies (`saved`) and the copy that survives a crash (`disk`).

**`StateDB`** is the implementation: `db`, `dirty`, `deleted`, `snapshots`.
Each method holds the mutex throughout, so each is one action; a failed commit
and an invalid snapshot identifier are disjuncts that change nothing. The root
is modelled by the map it hashes, since the sorted length-prefixed encoding is
injective. `INSTANCE Store WITH disk <- db` and the definitions `view` and
`saved` are the refinement mapping.

**`VM`** has the world state as one record `st`. A handler is an operator that
yields the state it leaves and whether it failed, so the writes made before an
error exist and `ExecuteTx` has something to roll back. There is one action per
transaction type. An executed transaction is identified by sender and nonce;
asset and listing identifiers are hashes of it, hence injective. `BadKey` is a
string that is no public key, `None` an empty or absent one. A session's players are
any strings (`Address`): `handleSessionOpen` does not look at them, so stakes can be
taken from, and rewards paid to, an account nobody has the key of. Who is paid before
a reward overflows depends on Go's map order; the state is rolled back either
way, so `Paid` simply pays everybody who can be paid.

**`Node`** composes `Store` with the chain, the mempool, the producer and one
sync goroutine per peer. An action is one call into a shared component, which
is what other goroutines can interleave with. Where two reads are one action
they commute with everything another goroutine can do in between: `IsProposer`
in `Run` and in `ProduceBlock` (`Tick`; if the second says no nothing happens),
`Pending` and `Tip` (`Build`; sync does not touch the mempool, clients do not
touch the tip). The sender's account stands for what a transaction writes: it
holds the transactions executed so far, so two states are equal exactly when
the same transactions ran for each sender. A commit that fails ends the process
(`log.Fatalf`) and is an instance of `Crash`; a rollback to a snapshot that is gone
ends it too (`SyncRevert`), and counts as a fault like any other death. Reading the clock returns any
element of `Time`. The peers share this node's genesis block. `Restart` keeps
the chain and the disk and nothing else. The mempool is its map (`held`) and
its order list (`pool`), which `Add`, `Pending` and `RemoveAll` treat as the code
does. The block store is a function on the heights that have a block
(`blockAt`), and `Put` writes one, over an older one if there is any. Each peer has a set of chains (`serves`), fixed at the start, and answers
from any of them.

**`Indexer`** extends `VM` with the index (`IndexInit`, `IndexNext`, `IndexSpec`). It
runs the handlers of `VM`, block by block (`ExecuteNext`), and delivers the event each emits to `onAssetMinted`, `onAssetTransferred`, `onAssetBurned` and
`onSessionOpen`. `st` is the state the executing block sees, `disk` the committed
one; `owned` and `joined` are the lists in LevelDB, which no rollback reaches.
`AbandonBlock` stands for a rejected block and for a crash before the commit.
The ghost variable `astray` collects the assets a change of which the index has
missed: sold on the market (no subscription), touched by a block given up, or
hit by a failed update.

**`PeerTable`** is the table `peers` with the goroutines around it: `acceptLoop`,
a `readLoop` per connection (`pc`), and `main`, which dials the seed peers, sends
the hello and the first request and later calls `Stop`. What runs under `n.mu`
is one action; `Stop`, which keeps it over several, blocks the others meanwhile
(`Unlocked`). `holder` is who holds a peer's own mutex: `Send` holds it for as
long as the write takes, `Close` waits for it. A connection in `gone` delivers
nothing any more. Inbound connections are numbered as they arrive and keyed by
the address they come from (`RemoteAddr`, the constant and the call), which may
be one that was used before: TCP has one connection from an address at a time
(`AddressFree`), but the remote end can be done with one before its `readLoop`
here has noticed. Seed peers are keyed by their configured ID, which need not be
unique either. `Shared` says that another connection with the same ID was made,
`Lost` that it has taken this one's entry, or deleted it.

**`Network`** has several nodes: start-up (`InitChain`, `CreditAlloc`,
`AddGenesis`), `Dial`, `Run`, `Stop` at any point, `ProduceBlock`, and both ends of
the sync protocol. `stored` is what LevelDB holds, `chain` what the running
process serves. Validating and adding a block is one action, and so is building
and adding one: `AddBlock` compares the parent's hash with the tip, so a block
whose tip has moved since is refused, which is one of the outcomes of
`HandleBlock`. Account states are left to `Node`; that a block's execution or root
fails is a choice. Messages are a set, handled in any order, which covers nodes
connected twice. Each node founds its own genesis block unless it starts from a
copy of another's data directory; both happen.

**`Ledger`** is what the nodes promise together: one append-only ledger per
genesis block, of which every node holds a prefix that only grows. `Agreed`
instantiates it with the longest chain any node holds for each founder.

**`Lists`** is the loop that rebuilds a list without some elements, in the
mempool and in the indexer.

**`MCStateDB`, `MCVM`, `MCNode`, `MCIndexer`, `MCPeerTable`, `MCNetwork`** hold the
constants of the instances. The theorems are in **`StateDBProofs`**,
**`PeerTableProofs`**, **`VMProofs`** (execution and the index, with what each
handler does in **`VMSteps`**), **`NodeProofs`**, **`FollowerProofs`** and **`NetworkProofs`**;
**`DataLemmas`** has what they need to know of sums, sequences and recursive
functions.

Operators whose comment starts with "Mutant" are the plausible bugs each
property is tested against; no specification uses them.

## The runs

Runs that pass:

| run | question | distinct states |
|---|---|---|
| `statedb` | does the buffer implement the store; is the root a function of the view, unchanged by commit | 6,327 |
| `vm_market` | can an asset be sold twice, unpaid, after a burn or against its template | 6,909 |
| `vm_tokens` | are tokens conserved, additions checked, sessions paid once, stakes recoverable | 5,354 |
| `follower` | what do rejected blocks, write errors, lost connections and crashes leave behind; is a good peer's chain fetched to its end (fair) | 5,568 |
| `producer` | does a sole validator mine what it holds (fair); do transactions that fail and writes that fail ever reach its chain | 5,548 |
| `concurrent` | producer against sync, with a crash or a write error: is the chain linked and append-only | 63,588 |
| `indexer` | does the owner index tell the truth, through rollbacks and failed writes | 314,749 |
| `peers` | do the limit, the table, the deadlines and `Stop` do their work, whatever arrives, hangs or ends (fair) | 630,579 |
| `network` | do validators that stop, restart and disagree on the time keep one ledger | 410,404 |

Runs that end in a counterexample, each against a sentence of the repository
(quoted in `PROJECT.json`):

| run | what the code does |
|---|---|
| `leak` | a failed production leaves the earlier transactions of the block in the buffer |
| `crash` | after a crash between `AddBlock` and `Commit` the node builds blocks nobody can replay |
| `two_peers` | a sync goroutine that rejects its copy of a block rolls back the other's writes after their root was compared; the block is stored, the state committed without it |

So the passing properties have preconditions. In `producer` one of the three
transactions is always refused, and every later tick proposes it again:
`NothingLeftBehind` fails there as in `leak`, and `LeftoversBlock` says what holds
instead, that a node with leftovers in its buffer seals no further block.
`PendingIsMined` promises nothing after a fault or once the mempool holds a
transaction that is refused or that waits for another's nonce. `MinedLeavesPool` needs a sole
validator and clients that submit each transaction once. `StateMatchesTip` and `CatchesUp` speak of behaviours without
faults, `DiskOnChain` is what remains of the first with them. `OwnerIndexExact`
excludes the assets in `astray`: a sale, a block given up or a failed write does
make the entry of the asset concerned wrong, and the property says that it
spoils no other. `OpenIsRegistered` excludes connections whose ID another one has
used, `InboundBounded` and `StopCloses` those that lost their entry to it; each of
the three is false without that, in the instance of `peers`. `StakesRecoverable` supposes a genesis supply
that fits in a uint64, which `config` does not enforce: otherwise stakes whose
total overflows can be locked and never paid out. In `concurrent` the peer may
serve a block of this node's own, as after its data directory was replaced by
an older copy; only then do the two goroutines compete for one height.

### What the models show beside the runs

These follow from the code as modelled and have no run of their own:

- Two peers that serve the same full batch can end each other's sync: the block
  one goroutine has just added fails validation in the other, which returns
  before its follow-up request (`sync.go:112`).
- A transaction mined by another validator stays in the mempool, since
  `handleBlocks` never calls `Remove`, and makes the next produced block fail.
- The owner index does not hear of market sales, and the session index stays
  empty: the players are emitted as `[]string` and read as `[]any`
  (`indexer.go:88`).
- The table is keyed by ID and `readLoop` deletes by ID (`node.go:193`), so of two
  connections with one ID the one that ends deletes the entry of the other. Two
  seed peers configured under one ID are such a case; the other is a remote end
  that connects again from the same address before the first `readLoop` has
  noticed that its connection is over. The connection without an entry stays open
  and is read, but it does not count against `maxPeers`, so more than `maxPeers`
  inbound connections can be open, `Peer` and `Broadcast` do not find it, and `Stop`
  does not close it.
- Dialled peers are not counted against the limit, so the table can hold more
  than `maxPeers`.
- Nodes that each found their own genesis block never accept each other's
  blocks. Nothing calls `BroadcastBlock`, so blocks travel only when nodes
  connect.
- A validator whose clock is behind its tip's time stores a block that nobody
  else accepts, and the ledger stays at that height for the others.
- A listing cannot be cancelled, although burning and transferring ask for it
  (`asset.go:84`, `asset.go:126`): a listed asset is stuck until it is bought.
- The age of a transaction is checked when it enters the mempool, not when it is
  mined.

### Bounds

- `MaxUint64` and `MaxNonce` are 3: the code compares and adds, so a small top
  value reaches the same branches. In `vm_tokens` amounts go up to it.
- Two accounts, one of them or both proposing; player lists of up to two, which
  may repeat an account, name one that is not the creator or a string that is no
  account.
- Two transactions per block and chains of three blocks: a block that fails
  after its first transaction, one before it and one after it.
- `SyncLimit` 1 or 2 instead of 50, so full and partial batches both occur.
- Two snapshots in `StateDB`: revert past one and revert to the latest. In
  `Node` the limit of nine is never reached.
- `MaxIdleHeight` bounds empty blocks, so that in fair runs the bound on the
  chain cannot be what stops a transaction from being mined.
- One or two crashes, write errors or dropped connections per behaviour.
- `indexer`: five transactions in blocks of two, one block given up, one failed
  update. Mint, transfer, a rollback and the same again fit.
- `peers`: four inbound connections, the first two from one address, one seed peer
  and a limit of two, so that the limit is met, one connection waits in
  `acceptLoop` while others end, and `Stop` meets two open ones. The second
  connection can take the entry of the first and lose it to the first's `readLoop`,
  and two more can then arrive. One peer falls silent (`MaxGone`), which is what
  it takes to use an address again; any other may end by an error. The proofs
  cover any number of each, and seed peers that share an ID.
- `network`: two validators taking turns, three blocks, batches of one, clocks
  that read 0 or 1, and two stops: each node can restart once, or one twice, so
  a block can be made, fetched, built upon and carried back.

The `Node`, `Indexer`, `PeerTable` and `Network` runs switch deadlock checking
off: a node at rest waits for a tick, a client or a peer, a stopped one for
nothing, and at the bounds none comes.

### Fairness

`Tick` is weakly fair because the ticker keeps firing, `Produce` and each
`Sync(q)` because the Go scheduler runs every runnable goroutine and no call in
them blocks; a connected peer answers. Clients, connections and faults are under
no obligation.

In `PeerTable`, `acceptLoop` with a connection in hand, `main` and each `readLoop` are
weakly fair: they are goroutines, and reads and writes on a connection end by
their 30-second deadlines. Nobody has to connect, to hang up or to stop the node.

## The proofs

`StateDBProofs` proves, for all sets of keys and values, any set of deletable
keys and any snapshot depth:

- `TypeCorrect`: `Spec => []TypeOK`;
- `BufferStaysDisjoint`: no key is buffered as written and deleted;
- `RootIsViewAlways`: the root is determined by what reads return;
- `RootSurvivesCommit`: a step that changes the database keeps the root;
- `Refinement`: `Spec => RefinesStore`.

They assume `NotFoundAssumption` (an absent value is not a value) and the types
of `AssetKey` and `MaxSnapshots`. `TypeOK` is inductive and carries the others.
Disjointness must speak of every saved buffer too, since a revert makes one the
live buffer again. For the refinement, `MappedTypes` shows that the mapped
`view` and `saved` are a map and a sequence of maps, and `StepRefines` maps each
action: a set or a deletion changes the view at one key; a commit changes `db`
while the view stays, which also empties the mapped stack; a revert restores
the saved view because `db` cannot have changed since the snapshot was taken,
every commit emptying the stack.

`PeerTableProofs` proves, for any connections with finitely many IDs, any limit
and any remote addresses and seed IDs, shared and reused ones included:

- `OpenStaysRegistered`: `Spec => []OpenIsRegistered`;
- `LimitHolds`: `Spec => []InboundBounded`;
- `StopClosesAll`: `Spec => []StopCloses`.

They assume `ConnAssumption` (finitely many IDs, inbound and outbound connections
distinct) and that the limit is a natural number. `Control`
is the invariant of the goroutines: types, `acceptLoop` has at most one
connection in hand, a dialled connection is the one `main` is busy with, and the
listener closes before the table does. `OpenIsRegistered` is inductive with it:
an entry is deleted only after its connection is closed, or by a connection of
the same ID. The limit needs `RoomForAdmitted`: between the check and the
insertion nobody else inserts an inbound connection, so the place that was free
stays free. That the open inbound connections that have not lost their entry are
no more than the entries counted follows from `OpenIsRegistered`: each of them is
in the table under its ID, and the table has one connection per ID. After `Stop`, `StoppedLeft` must also speak of the
connection in hand, since it may be entered later.

### Execution

`VMProofs` proves, for any accounts, templates, session and transaction
identifiers, any uint64 bound, amounts, fees, proposers and genesis balances:

- `TypesHold` (`TypeOK`), `TokensAreConserved` (`Conservation`), `MarketIsConsistent`
  (`ListingsMatchAssets`), `StakesComeBack` (`StakesRecoverable`);
- of every step, `NothingReturns` (`BurnedForever`), `ClosedOnce`
  (`SessionsCloseOnce`), `NonTradeableIsBound` (`NonTradeableStays`) and
  `SellersArePaid` (`SalesArePaid`).

They assume finitely many accounts and session identifiers
(`FiniteAssumption`; a sum over infinitely many has no meaning), that absent
values are no values (`NoneAssumption`, `AbsentAssumption`), that amounts and
fees are uint64 (`UintAssumption`) and that proposers have accounts.

`VMSteps` says what each handler does when it succeeds, as a relation between
the state before and after (`TransferStep`, `BuyStep`, `SessionOpenStep`...), and
that a transaction that fails changes nothing, since `ExecuteTx` goes back to its
snapshot. The invariant `IInv` is then carried over each relation. Beside the
three properties it needs `Numbered`: an asset or listing exists only under an
identifier whose nonce was used, so the identifier of a new one is free and no
nonce brings back a burned one; `FlagsFromTemplates`: an asset's tradeable flag
is its template's; and `SessionsHavePlayers`, without which there would be nobody
to pay stakes to. Conservation uses the lemmas of `DataLemmas` on sums: a sum
changes by what one of its terms changes. The loop of `handleSessionOpen`, which
may meet an account several times, is followed entry by entry. For
`StakesComeBack` the payout goes to a single player: conservation says that the
stakes and that player's balance are both part of the genesis supply, so
neither overflow check refuses it.

### The index

The same module proves of `IndexSpec`, for any transactions, block lengths and
numbers of rolled-back blocks and failed writes, under the same assumptions and
`IndexBoundsAssumption`:

- `IndexExact` (`OwnerIndexExact`) and `IndexListsAreSets` (`ListsAreSets`).

`IndexInv` is the conjunction of the two with the types and with `Numbered` of
both `st` and `disk`. `Numbered` is what makes `OwnerIndexExact` inductive: an
asset about to be minted exists under no identifier yet, neither in the state
nor, after a rollback, in the committed one, so the entry a mint adds is its
first. The state of an `IndexSpec` step moves by `ExecuteTx` as in `VM`, so the
relations of `VMSteps` serve again; each subscription then has one lemma that
says which list it changes, with and without a failed write. An abandoned block
puts every asset whose owner differs between `st` and `disk` into `astray`.

### The node

`NodeProofs` proves, for any peers, chains they serve, transactions, bounds and
faults, with the producer and all sync goroutines interleaved:

- `TypesHold` (`TypeOK`, which includes the bound on the mempool), `ChainIsLinked`
  (`ChainLinked`), `PoolInStep` (`MempoolInStep`);
- of every step, `BlocksStay` (`AppendOnly`).

They assume that a transaction has a sender and a nonce (`TxAssumption`) and that
a peer's block has decoded to a height, a list of transactions and a root or
none (`PeerChainAssumption`); nothing else about it. The argument is in two
parts. The `Moves` lemmas say of each action what it does to the state, the
chain, the mempool and the goroutines' variables, and that these are moves of a
few kinds: the chain, for one, only ever receives a block that follows the tip
as it is at that moment, however old the tip a goroutine has read. Then each
conjunct of `IInv` is kept by its kinds of moves. `LocalOk` is needed for types
alone: a goroutine has a block in hand and an index into it where it uses them.

For a sole validator, that is without peers (`Sole`), the same module proves,
whatever transactions clients submit and whichever of them fail:

- `SoleMinedLeavesPool` (`MinedLeavesPool`), when each is submitted at most once;
- `SoleMatchesTip` (`StateMatchesTip`) and `SoleOnChain` (`DiskOnChain`), with write
  errors and crashes;
- `SoleLeftoversBlock` (`LeftoversBlock`), with both as well;
- when there are no crashes, `SoleReplays` (`ChainReplays`).

The hypotheses are again necessary: `handleBlocks` never calls `Remove`, `Add` takes
back a transaction that was mined, and `crash` shows what a restart does to
`ChainReplays`. `MinedWaits` is the invariant of the first: what is mined and still
held is in the block just stored, which `ProduceBlock` is about to remove. The
others are less obvious, because `ProduceBlock` gives a block up without rolling
it back, so the next one is executed on a state that is not the tip's (`leak`).
`SoleInv` says why no such block is ever stored: what was left behind has spent
one of the oldest transactions of the pool (`Stuck`), `Pending` puts that one into
every further block, and its nonce makes the block fail. `Ahead` carries this
through the execution: either the state is the one the committed state and the
transactions so far give, or one of the transactions still to come is spent. At
`Seal` none is to come. TLC has checked `SoleInv` on instances with failing
transactions, write errors and crashes.

`FollowerProofs` proves, for a node that is no validator and has one peer
(`Follower`), with any chains, write errors, lost connections and crashes:

- `FollowerReverts` (`RevertsAreLive`) and `FollowerUndoes` (`NothingLeftBehind`);
- when the peer's blocks name a root (`Rooted`), `FollowerMatchesTip`
  (`StateMatchesTip`) and `FollowerOnChain` (`DiskOnChain`);
- when besides there are no crashes, `FollowerReplays` (`ChainReplays`).

The hypotheses are those without which the properties are false: `two_peers`
and `leak` show what a second goroutine and a producer do; `handleBlocks` does
not compare an empty root; and after a crash between storing and committing the
state is a block behind, where a peer's block is accepted if its root is right
on that state, and so does not replay on its parent's. The chains of the
`follower` run, which satisfies `Follower` and `Rooted`, have no such block, so
`ChainReplays` holds there in spite of crashes. `Undoable` is the invariant of the first two: between blocks nothing
is buffered and no snapshot kept, from the block's snapshot on the oldest saved
state is the committed one. `OnChain` adds which root the state has at each
point, and `Executing` that in mid-block the state is the one that the
transactions executed so far lead to.

### The network

`NetworkProofs` proves, for any nodes, validators, clocks, heights and number of
stops:

- `AlwaysFunded` (`GenesisIsFunded`) and `BackwardsIsLocal` (`BackwardsStaysHome`);
- `LedgerIsImplemented` (`OneLedger`): `Network` implements `Ledger`.

They assume what `Config.Validate` asks of the validators (`ValidConfig`), that
times are integers and that `None` is no node. The invariant's heart is `Made`: a
block in any chain or message is in its maker's own chain, at its height. A
validator makes one block per height, so two chains with the same genesis block
agree as far as both go (`ChainsAgree`), and the longest chain of a founder
extends all others. `ChainOk` adds who may have made a block, `LoadedOk` that the
chain in memory is the one on disk. In the refinement a node's `AddBlock` either
extends the longest chain, which is a step of the ledger, or catches up with
it, which moves that node alone; a start loads what is stored and is a stutter.

### Only model-checked

- The liveness properties `PendingIsMined`, `CatchesUp`, `SilentPeersLeave` and
  `StopReturns`: fairness is beyond the prover.

For several goroutines at once the types, `ChainLinked`, `AppendOnly` and
`MempoolInStep` are what is proved; `two_peers` shows that the state is not safe
there.

`DataLemmas` needs induction (sums over sets, recursive functions). The provers
cannot instantiate the library's induction principles with an operator, so
they are used with sets instead: `NatSetInduction` says that a set of numbers
with 0 and successors has them all.

## Not modelled

- TLS, the wallet and the cryptographic wrappers: library primitives, files and
  certificates. The models assume hashes without collisions and signatures that
  nobody else can make; `sealed` says whether a block's check out.
- Parsing of configuration files. What `Validate` asks of the validators is
  `ValidConfig`; a node without a configuration file has no validators and
  neither makes nor accepts blocks.
- The RPC server and the queries, which read and change nothing; `getBalance` and
  its like read the StateDB buffer, so in the middle of a block they see it
  half executed.
- `Broadcast`, `BroadcastTx` and `BroadcastBlock`: nothing calls them.
- Two goroutines in the indexer's lists at once: `Indexer` executes one block at a
  time, as `two_peers` shows the state itself does not survive more.
- The JSON encodings, and the in-memory stores of the tests.
