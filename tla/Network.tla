------------------------------ MODULE Network ------------------------------
(***************************************************************************)
(* Several nodes from start-up on: cmd/node/main.go opens the database or  *)
(* founds a chain (config/genesis.go), listens, dials the seed peers and   *)
(* runs consensus; network/sync.go carries the blocks between nodes.       *)
(*                                                                         *)
(* A block is validated or built on a tip and added only while that is     *)
(* still the tip (blockchain.go AddBlock), so each is one action here;     *)
(* module Node has the steps in between and the account state, here        *)
(* reduced to whether the genesis balances are there.                      *)
(***************************************************************************)
EXTENDS Integers, Sequences, Functions

CONSTANTS
    Node,
    None,
    Validators,     \* the configured validators, in round-robin order
    Seeds,          \* the seed peers of each node
    Time,           \* what reading a wall clock can return
    Drift,          \* maxBlockTimeDrift
    SyncLimit,      \* blocks per request: 50 in the code
    MaxHeight,      \* bound on the chain
    MaxStops        \* bound on how often processes end

\* What config.go Validate asks of the validators.
ValidConfig == Validators # << >> /\ IsInjective(Validators)

ASSUME ValidatorsAssumption == ValidConfig

ASSUME BoundsAssumption ==
    /\ SyncLimit \in Nat \ {0}
    /\ {MaxHeight, MaxStops} \subseteq Nat

ASSUME TimeAssumption == Time \subseteq Int /\ Drift \in Int

ASSUME NoneAssumption == None \notin Node

VARIABLES
    phase,      \* how far main is in each node
    stored,     \* the chain in each node's LevelDB, genesis first
    chain,      \* the chain Blockchain serves, while the process runs
    funded,     \* the nodes whose LevelDB has the genesis balances
    todo,       \* the seed peers a node has yet to dial
    msgs,       \* the messages under way
    stops

vars == <<phase, stored, chain, funded, todo, msgs, stops>>

ProposerOf(h) == Validators[(h % Len(Validators)) + 1]

\* A collision-free hash of a block.
Hash(b) == <<"hash", b>>

GenesisBlock(n, now) == [height |-> 0, prev |-> None, by |-> n, time |-> now]

\* The nodes in copies start with the data directory the founder started with,
\* the others with an empty one.
Init ==
    /\ \E founder \in Node, copies \in SUBSET Node :
         /\ copies # {} => founder \in copies
         /\ stored = [n \in Node |-> IF n \in copies THEN <<GenesisBlock(founder, 0)>> ELSE << >>]
         /\ funded = copies
    /\ phase = [n \in Node |-> "down"]
    /\ chain = [n \in Node |-> << >>]
    /\ todo = [n \in Node |-> {}]
    /\ msgs = {}
    /\ stops = 0

Goto(n, p) == phase' = [phase EXCEPT ![n] = p]

-----------------------------------------------------------------------------
(* cmd/node/main.go and config/genesis.go *)

\* Node.Start; the seed peers are next.
Start(n) ==
    /\ Goto(n, "listen")
    /\ todo' = [todo EXCEPT ![n] = Seeds[n]]

\* Mutant: the genesis block is made anew on every start.
InitAlwaysFresh(n) ==
    /\ phase[n] = "down"
    /\ chain' = [chain EXCEPT ![n] = << >>]
    /\ Goto(n, "fresh")
    /\ UNCHANGED <<stored, funded, todo, msgs, stops>>

\* Blockchain.Init loads the tip; without one the node founds a chain.
InitChain(n) ==
    /\ phase[n] = "down"
    /\ chain' = [chain EXCEPT ![n] = stored[n]]
    /\ IF stored[n] = << >>
       THEN Goto(n, "fresh") /\ UNCHANGED todo
       ELSE Start(n)
    /\ UNCHANGED <<stored, funded, msgs, stops>>

\* Mutant: the balances stay in the write buffer.
CreditWithoutCommit(n) ==
    /\ phase[n] = "fresh"
    /\ Goto(n, "credited")
    /\ UNCHANGED <<stored, chain, funded, todo, msgs, stops>>

\* CreateGenesisBlock sets the balances and commits them.
CreditAlloc(n) ==
    /\ phase[n] = "fresh"
    /\ funded' = funded \cup {n}
    /\ Goto(n, "credited")
    /\ UNCHANGED <<stored, chain, todo, msgs, stops>>

\* Mutant: the batch is not synced; a process that ends takes the block along.
AddBlockInMemory(n, b) ==
    /\ chain' = [chain EXCEPT ![n] = Append(@, b)]
    /\ UNCHANGED stored

\* AddBlock: the batch is written with Sync, then the tip advances.
AddBlock(n, b) ==
    /\ chain' = [chain EXCEPT ![n] = Append(@, b)]
    /\ stored' = [stored EXCEPT ![n] = Append(@, b)]

\* CreateGenesisBlock's block, under the node's own key and clock, is added.
AddGenesis(n) ==
    /\ phase[n] = "credited"
    /\ \E now \in Time : AddBlock(n, GenesisBlock(n, now))
    /\ Start(n)
    /\ UNCHANGED <<funded, msgs, stops>>

Up(n) == phase[n] \in {"listen", "run"}

Tip(n) == chain[n][Len(chain[n])]

GetBlocks(n, m) == [type |-> "get_blocks", from |-> n, to |-> m, first |-> Tip(n).height + 1]

\* AddPeer and SyncWithPeer; a seed peer that cannot be reached is skipped.
Dial(n, m) ==
    /\ phase[n] = "listen"
    /\ m \in todo[n]
    /\ todo' = [todo EXCEPT ![n] = @ \ {m}]
    /\ msgs' = IF Up(m)
               THEN msgs \cup {[type |-> "hello", from |-> n, to |-> m], GetBlocks(n, m)}
               ELSE msgs
    /\ UNCHANGED <<phase, stored, chain, funded, stops>>

Run(n) ==
    /\ phase[n] = "listen"
    /\ todo[n] = {}
    /\ Goto(n, "run")
    /\ UNCHANGED <<stored, chain, funded, todo, msgs, stops>>

\* The process ends at any point.  What it has sent may still arrive.
Stop(n) ==
    /\ stops < MaxStops
    /\ phase[n] # "down"
    /\ Goto(n, "down")
    /\ chain' = [chain EXCEPT ![n] = << >>]
    /\ todo' = [todo EXCEPT ![n] = {}]
    /\ msgs' = {m \in msgs : m.to # n}
    /\ stops' = stops + 1
    /\ UNCHANGED <<stored, funded>>

-----------------------------------------------------------------------------
(* consensus/poa.go *)

\* ProduceBlock when it is this node's turn; its own clock is not compared
\* with the tip's time.
ProduceBlock(n) ==
    /\ phase[n] = "run"
    /\ Tip(n).height < MaxHeight
    /\ ProposerOf(Tip(n).height + 1) = n
    /\ \E now \in Time :
         AddBlock(n, [height |-> Tip(n).height + 1, prev |-> Hash(Tip(n)), by |-> n,
                      time |-> now])
    /\ UNCHANGED <<phase, funded, todo, msgs, stops>>

\* Mutant: the time of the parent is not looked at.
ValidWhateverTime(n, b, now) ==
    /\ b.by = ProposerOf(b.height)
    /\ b.time <= now + Drift
    /\ b.prev = Hash(Tip(n))
    /\ b.height = Tip(n).height + 1

\* ValidateBlock at node n, when its clock reads now.
Valid(n, b, now) ==
    /\ b.by = ProposerOf(b.height)
    /\ b.time <= now + Drift
    /\ b.prev = Hash(Tip(n))
    /\ b.height = Tip(n).height + 1
    /\ b.time >= Tip(n).time

-----------------------------------------------------------------------------
(* network/sync.go.  Two nodes may be connected twice, each connection with  *)
(* a goroutine of its own, so messages are handled in any order.             *)

HandleHello(m) ==
    /\ m.type = "hello"
    /\ Up(m.to)
    /\ msgs' = (msgs \ {m}) \cup {GetBlocks(m.to, m.from)}
    /\ UNCHANGED <<phase, stored, chain, funded, todo, stops>>

HandleGetBlocks(m) ==
    /\ m.type = "get_blocks"
    /\ Up(m.to)
    /\ LET have == chain[m.to]
           last == IF m.first + SyncLimit < Len(have) THEN m.first + SyncLimit ELSE Len(have)
           batch == SubSeq(have, m.first + 1, last)
       IN  msgs' = (msgs \ {m}) \cup
                     {[type |-> "blocks", from |-> m.to, to |-> m.from, blocks |-> batch,
                       full |-> Len(batch) >= SyncLimit]}
    /\ UNCHANGED <<phase, stored, chain, funded, todo, stops>>

\* The next block of the batch: added when it is valid; an invalid one, or one
\* with the wrong state root, ends the batch; one that cannot be executed or
\* stored is skipped.
HandleBlock(m) ==
    /\ m.type = "blocks"
    /\ Up(m.to)
    /\ m.blocks # << >>
    /\ LET b == Head(m.blocks)
           rest == (msgs \ {m}) \cup {[m EXCEPT !.blocks = Tail(@)]}
       IN  \E now \in Time :
             \/ /\ Valid(m.to, b, now)
                /\ AddBlock(m.to, b)
                /\ msgs' = rest
             \/ /\ Valid(m.to, b, now)
                /\ msgs' = rest
                /\ UNCHANGED <<stored, chain>>
             \/ /\ msgs' = msgs \ {m}
                /\ UNCHANGED <<stored, chain>>
    /\ UNCHANGED <<phase, funded, todo, stops>>

\* A full batch is followed by another request.
HandleBlocksDone(m) ==
    /\ m.type = "blocks"
    /\ Up(m.to)
    /\ m.blocks = << >>
    /\ msgs' = (msgs \ {m}) \cup (IF m.full THEN {GetBlocks(m.to, m.from)} ELSE {})
    /\ UNCHANGED <<phase, stored, chain, funded, todo, stops>>

-----------------------------------------------------------------------------
StartUp(n) == InitChain(n) \/ CreditAlloc(n) \/ AddGenesis(n) \/ Run(n)

Receive(m) == HandleHello(m) \/ HandleGetBlocks(m) \/ HandleBlock(m) \/ HandleBlocksDone(m)

Next ==
    \/ \E n \in Node : StartUp(n) \/ Stop(n) \/ ProduceBlock(n)
    \/ \E n, m \in Node : Dial(n, m)
    \/ \E m \in msgs : Receive(m)

Spec == Init /\ [][Next]_vars

-----------------------------------------------------------------------------
\* What a node serves while it runs, and has on disk while it does not.
Holds(n) == IF phase[n] = "down" THEN stored[n] ELSE chain[n]

\* The chains that start with a genesis block of f.
FoundedBy(f) == {Holds(n) : n \in {k \in Node : Holds(k) # << >> /\ Holds(k)[1].by = f}}

Longest(chains) == CHOOSE c \in chains : \A d \in chains : Len(d) <= Len(c)

\* The ledger each node founded, the one a node follows, and how much of it.
LogOf == [f \in Node |-> IF FoundedBy(f) = {} THEN << >> ELSE Longest(FoundedBy(f))]
HomeOf == [n \in Node |-> IF Holds(n) = << >> THEN None ELSE Holds(n)[1].by]
KeptOf == [n \in Node |-> Len(Holds(n))]

Agreed == INSTANCE Ledger WITH log <- LogOf, home <- HomeOf, kept <- KeptOf

\* The nodes implement Ledger: through stops and restarts, clocks that differ
\* and messages out of order, what a node has once served stays in place,
\* nobody accepts a block that contradicts another node's, and a proposer signs
\* one block per height (poa.go IsProposer and ValidateBlock,
\* blockchain.go AddBlock, leveldb.go CommitBlock, main.go's genesis).
OneLedger == Agreed!Spec

\* A node that has a chain has the genesis balances, wherever main was stopped
\* (genesis.go commits the state before main.go adds the block).
GenesisIsFunded == \A n \in Node : stored[n] # << >> => n \in funded

\* A block older than its parent, made by a validator whose clock is behind, is
\* stored by its maker alone (block.go NewBlock, poa.go "Timestamp must not go
\* backwards").
BackwardsStaysHome ==
    \A n \in Node : \A h \in 2 .. Len(stored[n]) :
      stored[n][h].time < stored[n][h - 1].time => stored[n][h].by = n
=============================================================================
