--------------------------------- MODULE VM ---------------------------------
(***************************************************************************)
(* vm/executor.go and the handlers of vm/modules: what one transaction     *)
(* does to the world state.  The state is the view the executor has of     *)
(* core.State (see Store); an operation yields the view it leaves behind   *)
(* and whether it returned an error, so the writes a handler makes before  *)
(* it fails are there for ExecuteTx to roll back.                          *)
(***************************************************************************)
EXTENDS Integers, Sequences, FiniteSets, FiniteSetsExt, Functions

CONSTANTS
    Account,        \* public keys
    Proposer,       \* the accounts that propose blocks
    Template,       \* template identifiers
    SessionId,      \* session identifiers
    None,           \* an empty string, or a key the state does not hold
    BadKey,         \* a string that is no public key
    Fee,            \* the fees tried
    Amount,         \* the prices, amounts, stakes and rewards tried
    Registered,     \* the transaction types with a registered handler
    MaxUint64,      \* math.MaxUint64, scaled down, for balances
    MaxNonce,       \* math.MaxUint64, scaled down, for nonces
    MaxPlayers,     \* bound on the length of a session's player list
    Alloc           \* the genesis allocations tried

\* What an account record may be stored under: any string.
Address == Account \cup {BadKey}

ASSUME AccountAssumption == Proposer \subseteq Account

ASSUME NoneAssumption ==
    /\ None \notin Account \cup Template \cup SessionId
    /\ BadKey \notin Account \cup {None}

ASSUME UintAssumption ==
    /\ MaxUint64 \in Nat
    /\ MaxNonce \in Nat
    /\ Fee \cup Amount \subseteq 0 .. MaxUint64
    /\ MaxPlayers \in Nat
    /\ Alloc \subseteq [Address -> 0 .. MaxUint64]

VARIABLES
    genesis,        \* cfg.Genesis.Alloc
    st

vars == <<genesis, st>>

Uint64 == 0 .. MaxUint64

\* An executed transaction is identified by its sender and nonce; the hashes
\* that name assets and listings are injective in the transaction's ID.
TxId == Account \X (0 .. MaxNonce)

TemplateRec == [tradeable : BOOLEAN, creator : Account]

AssetRec == [template : Template, owner : Account, tradeable : BOOLEAN,
             listing : TxId \cup {None}]

ListingRec == [asset : TxId, seller : Account, price : Uint64, active : BOOLEAN]

SessionRec == [creator : Account, players : Seq(Address), stakes : Uint64,
               status : {"open", "closed"}]

State == [balance : [Address -> Uint64],
          nonce : [Account -> 0 .. MaxNonce],
          templates : [Template -> TemplateRec \cup {None}],
          assets : [TxId -> AssetRec \cup {None}],
          listings : [TxId -> ListingRec \cup {None}],
          sessions : [SessionId -> SessionRec \cup {None}]]

\* None is no record and no identifier: a key is absent or it is there.
ASSUME AbsentAssumption ==
    /\ None \notin TxId
    /\ None \notin TemplateRec
    /\ None \notin AssetRec
    /\ None \notin ListingRec
    /\ None \notin SessionRec

ASSUME FiniteAssumption == IsFiniteSet(Account) /\ IsFiniteSet(SessionId)

TypeOK ==
    /\ genesis \in Alloc
    /\ st \in State

-----------------------------------------------------------------------------
\* What an operation on the state s returns.
Ok(s) == [st |-> s, err |-> FALSE]
Err(s) == [st |-> s, err |-> TRUE]

Id(tx) == <<tx.from, tx.nonce>>

Debit(s, a, n) == [s EXCEPT !.balance[a] = @ - n]
Credit(s, a, n) == [s EXCEPT !.balance[a] = @ + n]

\* Debit from, then load and credit to: the read comes after the write, so
\* the two accounts may be the same one.
Pay(s, from, to, n) ==
    LET debited == Debit(s, from, n)
    IN  IF s.balance[from] < n THEN Err(s)
        ELSE IF debited.balance[to] > MaxUint64 - n THEN Err(debited)
        ELSE Ok(Credit(debited, to, n))

handleTransfer(s, tx) ==
    IF tx.amount = 0 \/ tx.to = BadKey THEN Err(s)
    ELSE Pay(s, tx.from, tx.to, tx.amount)

handleRegisterTemplate(s, tx) ==
    IF tx.template # None /\ s.templates[tx.template] = None
    THEN Ok([s EXCEPT !.templates[tx.template] =
                [tradeable |-> tx.tradeable, creator |-> tx.from]])
    ELSE Err(s)

\* Mutant: the given owner is not validated.
MintWithoutOwnerCheck(s, tx) ==
    IF tx.template # None /\ s.templates[tx.template] # None
    THEN Ok([s EXCEPT !.assets[Id(tx)] =
                [template |-> tx.template,
                 owner |-> IF tx.to = None THEN tx.from ELSE tx.to,
                 tradeable |-> s.templates[tx.template].tradeable,
                 listing |-> None]])
    ELSE Err(s)

handleMintAsset(s, tx) ==
    IF /\ tx.template # None
       /\ s.templates[tx.template] # None
       /\ tx.to # BadKey
    THEN Ok([s EXCEPT !.assets[Id(tx)] =
                [template |-> tx.template,
                 owner |-> IF tx.to = None THEN tx.from ELSE tx.to,
                 tradeable |-> s.templates[tx.template].tradeable,
                 listing |-> None]])
    ELSE Err(s)

\* Mutant: the active listing is not looked at.
OwnEvenListed(s, tx) ==
    /\ s.assets[tx.asset] # None
    /\ s.assets[tx.asset].owner = tx.from

\* The check burn, transfer and list share: the asset exists, is the
\* sender's and has no active listing.
OwnUnlisted(s, tx) ==
    /\ s.assets[tx.asset] # None
    /\ s.assets[tx.asset].owner = tx.from
    /\ s.assets[tx.asset].listing = None

handleBurnAsset(s, tx) ==
    IF OwnUnlisted(s, tx) THEN Ok([s EXCEPT !.assets[tx.asset] = None])
    ELSE Err(s)

\* Mutant: the tradeable flag is not looked at.
TransferNonTradeable(s, tx) ==
    IF tx.to # BadKey /\ OwnUnlisted(s, tx)
    THEN Ok([s EXCEPT !.assets[tx.asset].owner = tx.to])
    ELSE Err(s)

handleTransferAsset(s, tx) ==
    IF tx.to # BadKey /\ OwnUnlisted(s, tx) /\ s.assets[tx.asset].tradeable
    THEN Ok([s EXCEPT !.assets[tx.asset].owner = tx.to])
    ELSE Err(s)

handleListMarket(s, tx) ==
    IF tx.amount # 0 /\ OwnUnlisted(s, tx) /\ s.assets[tx.asset].tradeable
    THEN Ok([s EXCEPT !.listings[Id(tx)] =
                        [asset |-> tx.asset, seller |-> tx.from,
                         price |-> tx.amount, active |-> TRUE],
                      !.assets[tx.asset].listing = Id(tx)])
    ELSE Err(s)

\* Mutant: the buyer pays and the seller is not credited.
BuyWithoutCredit(s, tx) ==
    LET l == s.listings[tx.listing]
    IN  IF l = None THEN Err(s)
        ELSE IF ~l.active \/ l.seller = tx.from \/ s.balance[tx.from] < l.price THEN Err(s)
        ELSE Ok([Debit(s, tx.from, l.price) EXCEPT
                   !.assets[l.asset].owner = tx.from,
                   !.assets[l.asset].listing = None,
                   !.listings[tx.listing].active = FALSE])

handleBuyMarket(s, tx) ==
    LET l == s.listings[tx.listing]
        paid == Pay(s, tx.from, l.seller, l.price)
    IN  IF l = None THEN Err(s)
        ELSE IF ~l.active \/ l.seller = tx.from THEN Err(s)
        ELSE IF paid.err \/ s.assets[l.asset] = None THEN Err(paid.st)
        ELSE Ok([paid.st EXCEPT !.assets[l.asset].owner = tx.from,
                                !.assets[l.asset].listing = None,
                                !.listings[tx.listing].active = FALSE])

\* The balances once the first n entries of the player list have paid the
\* stake: an account listed twice pays twice.
Locked(s, tx, n) ==
    [a \in Address |->
        s.balance[a] - tx.amount * Cardinality({i \in 1 .. n : tx.players[i] = a})]

\* Mutant: every player is checked against the balance before the loop.
ShortBeforeLocking(s, tx) ==
    {i \in DOMAIN tx.players : s.balance[tx.players[i]] < tx.amount}

\* The entries of the player list that cannot pay when their turn comes.
Short(s, tx) ==
    {i \in DOMAIN tx.players : Locked(s, tx, i - 1)[tx.players[i]] < tx.amount}

\* Mutant: an existing session is overwritten.
OpenAgain(s, tx) ==
    IF tx.session = None \/ tx.players = << >> \/ Short(s, tx) # {} THEN Err(s)
    ELSE Ok([s EXCEPT !.balance = Locked(s, tx, Len(tx.players)),
                      !.sessions[tx.session] =
                        [creator |-> tx.from, players |-> tx.players,
                         stakes |-> tx.amount, status |-> "open"]])

handleSessionOpen(s, tx) ==
    IF \/ tx.session = None
       \/ tx.players = << >>
       \/ s.sessions[tx.session] # None
    THEN Err(s)
    ELSE IF Short(s, tx) # {}
    THEN Err([s EXCEPT !.balance = Locked(s, tx, Min(Short(s, tx)) - 1)])
    ELSE Ok([s EXCEPT !.balance = Locked(s, tx, Len(tx.players)),
                      !.sessions[tx.session] =
                        [creator |-> tx.from, players |-> tx.players,
                         stakes |-> tx.amount, status |-> "open"]])

\* Mutant: >= for > in the overflow check.
StakesOverflowEarly(sess) ==
    sess.stakes > 0 /\ Len(sess.players) >= MaxUint64 \div sess.stakes

\* Stakes * nPlayers would wrap around.
StakesOverflow(sess) ==
    sess.stakes > 0 /\ Len(sess.players) > MaxUint64 \div sess.stakes

\* Who is paid before an overflow stops the loop depends on Go's map order;
\* here everybody who can be paid is.
Paid(s, outcome) ==
    [a \in Address |->
        IF a \in DOMAIN outcome /\ s.balance[a] + outcome[a] <= MaxUint64
        THEN s.balance[a] + outcome[a] ELSE s.balance[a]]

handleSessionResult(s, tx) ==
    LET sess == s.sessions[tx.session]
        paid == [s EXCEPT !.balance = Paid(s, tx.outcome)]
    IN  IF tx.session = None \/ sess = None THEN Err(s)
        ELSE IF \/ sess.status # "open"
                \/ tx.from # sess.creator
                \/ ~(DOMAIN tx.outcome \subseteq Range(sess.players))
                \/ StakesOverflow(sess)
                \/ SumFunction(tx.outcome) # sess.stakes * Len(sess.players)
        THEN Err(s)
        ELSE IF \E a \in DOMAIN tx.outcome : s.balance[a] > MaxUint64 - tx.outcome[a]
        THEN Err(paid)
        ELSE Ok([paid EXCEPT !.sessions[tx.session].status = "closed"])

-----------------------------------------------------------------------------
\* The handler registered for a type.  A payload that does not decode fails
\* like a type nobody registered: before anything is written.
Execute(s, tx) ==
    IF tx.type \notin Registered THEN Err(s)
    ELSE CASE tx.type = "transfer"          -> handleTransfer(s, tx)
           [] tx.type = "register_template" -> handleRegisterTemplate(s, tx)
           [] tx.type = "mint_asset"        -> handleMintAsset(s, tx)
           [] tx.type = "burn_asset"        -> handleBurnAsset(s, tx)
           [] tx.type = "transfer_asset"    -> handleTransferAsset(s, tx)
           [] tx.type = "list_market"       -> handleListMarket(s, tx)
           [] tx.type = "buy_market"        -> handleBuyMarket(s, tx)
           [] tx.type = "session_open"      -> handleSessionOpen(s, tx)
           [] tx.type = "session_result"    -> handleSessionResult(s, tx)

\* Mutant: an old nonce is accepted.
chargeFeeOnReplay(s, proposer, tx) ==
    IF \/ s.nonce[tx.from] < tx.nonce
       \/ s.balance[tx.from] < tx.fee
       \/ s.nonce[tx.from] = MaxNonce
    THEN Err(s)
    ELSE Ok([s EXCEPT !.nonce[tx.from] = @ + 1])

\* The sender's nonce goes up and the fee goes to the block's proposer.  A
\* sender who is the proposer keeps it.
chargeFee(s, proposer, tx) ==
    LET counted == [s EXCEPT !.nonce[tx.from] = @ + 1]
        debited == Debit(counted, tx.from, tx.fee)
    IN  IF \/ s.nonce[tx.from] # tx.nonce
           \/ s.balance[tx.from] < tx.fee
           \/ s.nonce[tx.from] = MaxNonce
        THEN Err(s)
        ELSE IF tx.fee = 0 \/ tx.from = proposer THEN Ok(counted)
        ELSE IF s.balance[proposer] > MaxUint64 - tx.fee THEN Err(debited)
        ELSE Ok(Credit(debited, proposer, tx.fee))

applyTx(s, proposer, tx) ==
    LET charged == chargeFee(s, proposer, tx)
    IN  IF charged.err THEN charged ELSE Execute(charged.st, tx)

\* Mutant: a failed transaction is not rolled back.
ExecuteTxWithoutRevert(proposer, tx) ==
    /\ st' = applyTx(st, proposer, tx).st
    /\ UNCHANGED genesis

\* A failed transaction is rolled back to the snapshot taken before it.
ExecuteTx(proposer, tx) ==
    LET result == applyTx(st, proposer, tx)
    IN  /\ st' = IF result.err THEN st ELSE result.st
        /\ UNCHANGED genesis

-----------------------------------------------------------------------------
\* The transactions of each type, with the payloads that reach every branch.
Nonce == 0 .. MaxNonce

TransferTx == [type : {"transfer"}, from : Account, nonce : Nonce, fee : Fee,
               to : Address, amount : Amount]
RegisterTemplateTx == [type : {"register_template"}, from : Account, nonce : Nonce,
                       fee : Fee, template : Template \cup {None}, tradeable : BOOLEAN]
MintAssetTx == [type : {"mint_asset"}, from : Account, nonce : Nonce, fee : Fee,
                template : Template \cup {None}, to : Address \cup {None}]
BurnAssetTx == [type : {"burn_asset"}, from : Account, nonce : Nonce, fee : Fee,
                asset : TxId]
TransferAssetTx == [type : {"transfer_asset"}, from : Account, nonce : Nonce,
                    fee : Fee, asset : TxId, to : Address]
ListMarketTx == [type : {"list_market"}, from : Account, nonce : Nonce, fee : Fee,
                 asset : TxId, amount : Amount]
BuyMarketTx == [type : {"buy_market"}, from : Account, nonce : Nonce, fee : Fee,
                listing : TxId]
SessionOpenTx == [type : {"session_open"}, from : Account, nonce : Nonce, fee : Fee,
                  session : SessionId \cup {None},
                  players : UNION {[1 .. n -> Address] : n \in 0 .. MaxPlayers},
                  amount : Amount]
Outcome == UNION {[P -> Amount] : P \in SUBSET Address}
SessionResultTx == [type : {"session_result"}, from : Account, nonce : Nonce,
                    fee : Fee, session : SessionId \cup {None}, outcome : Outcome]

Init ==
    /\ genesis \in Alloc
    /\ st = [balance |-> genesis,
             nonce |-> [a \in Account |-> 0],
             templates |-> [t \in Template |-> None],
             assets |-> [i \in TxId |-> None],
             listings |-> [i \in TxId |-> None],
             sessions |-> [i \in SessionId |-> None]]

Transfer == \E p \in Proposer, tx \in TransferTx : ExecuteTx(p, tx)
RegisterTemplate == \E p \in Proposer, tx \in RegisterTemplateTx : ExecuteTx(p, tx)
MintAsset == \E p \in Proposer, tx \in MintAssetTx : ExecuteTx(p, tx)
BurnAsset == \E p \in Proposer, tx \in BurnAssetTx : ExecuteTx(p, tx)
TransferAsset == \E p \in Proposer, tx \in TransferAssetTx : ExecuteTx(p, tx)
ListMarket == \E p \in Proposer, tx \in ListMarketTx : ExecuteTx(p, tx)
BuyMarket == \E p \in Proposer, tx \in BuyMarketTx : ExecuteTx(p, tx)
SessionOpen == \E p \in Proposer, tx \in SessionOpenTx : ExecuteTx(p, tx)
SessionResult == \E p \in Proposer, tx \in SessionResultTx : ExecuteTx(p, tx)

Next == \/ Transfer
        \/ RegisterTemplate
        \/ MintAsset
        \/ BurnAsset
        \/ TransferAsset
        \/ ListMarket
        \/ BuyMarket
        \/ SessionOpen
        \/ SessionResult

Spec == Init /\ [][Next]_vars

-----------------------------------------------------------------------------
\* The stakes a session holds while it is open.
Escrow(sess) ==
    IF sess = None THEN 0
    ELSE IF sess.status = "open" THEN sess.stakes * Len(sess.players) ELSE 0

\* Tokens are neither created nor destroyed: balances and open sessions hold
\* the genesis supply after every transaction, failed ones included
\* (executor.go ExecuteTx and applyTx, token.go, market.go, session.go).
Conservation ==
    SumFunction(st.balance) + SumFunction([i \in SessionId |-> Escrow(st.sessions[i])])
      = SumFunction(genesis)

\* A listing is active exactly while its asset exists, belongs to the seller,
\* is tradeable and points back to it; so no asset is sold twice or sold by
\* somebody who gave it away (market.go; the ActiveListingID checks of asset.go).
ListingsMatchAssets ==
    /\ \A l \in TxId :
         st.listings[l] # None =>
           (st.listings[l].active =>
              LET a == st.assets[st.listings[l].asset]
              IN  /\ a # None
                  /\ a.listing = l
                  /\ a.owner = st.listings[l].seller
                  /\ a.tradeable)
    /\ \A i \in TxId :
         st.assets[i] # None =>
           (st.assets[i].listing # None =>
              LET l == st.listings[st.assets[i].listing]
              IN  l # None /\ l.active /\ l.asset = i)

\* An identifier whose transaction has been executed and that names no asset
\* never names one again: a burned asset cannot come back through a replay of
\* the transaction that minted it (executor.go applyTx, asset.go).
BurnedForever ==
    [][\A i \in TxId :
         st.assets[i] = None /\ st.nonce[i[1]] > i[2] => st'.assets[i] = None]_vars

\* While it exists, an asset of a non-tradeable template stays with the owner
\* it was minted to (asset.go handleTransferAsset, market.go handleListMarket).
NonTradeableStays ==
    [][\A i \in TxId :
         /\ st.assets[i] # None
         /\ st'.assets[i] # None
         /\ ~st.templates[st.assets[i].template].tradeable
         => st'.assets[i].owner = st.assets[i].owner]_vars

\* A listed asset leaves its seller only in a step that pays the seller the
\* listed price, whatever fees the same step moves (market.go handleBuyMarket).
SalesArePaid ==
    [][\A i \in TxId :
         LET a == st.assets[i]
         IN  /\ a # None
             /\ a.listing # None
             /\ st'.assets[i] # a
             => /\ st'.assets[i] # None
                /\ st'.balance[a.owner] >=
                     st.balance[a.owner] + st.listings[a.listing].price]_vars

\* A session's stakes are paid out once: a closed session never changes, and
\* an open one only closes (session.go handleSessionOpen, handleSessionResult).
SessionsCloseOnce ==
    [][\A i \in SessionId :
         st.sessions[i] # None =>
           \/ st'.sessions[i] = st.sessions[i]
           \/ /\ st.sessions[i].status = "open"
              /\ st'.sessions[i] = [st.sessions[i] EXCEPT !.status = "closed"]
              /\ SumFunction(st'.balance) =
                   SumFunction(st.balance) + Escrow(st.sessions[i])]_vars

\* The result a session's creator could submit next.
ResultTx(i, outcome) ==
    [type |-> "session_result", from |-> st.sessions[i].creator, nonce |-> 0,
     fee |-> 0, session |-> i, outcome |-> outcome]

\* Unless genesis hands out more than a uint64 can count, staked tokens can
\* always be distributed: for every open session there is an outcome
\* handleSessionResult accepts from its creator (session.go, "(E) Require all
\* staked tokens to be distributed").
StakesRecoverable ==
    SumFunction(genesis) <= MaxUint64 =>
      \A i \in SessionId :
        st.sessions[i] # None =>
          (st.sessions[i].status = "open" =>
             \E outcome \in UNION {[P -> Uint64] : P \in SUBSET Address} :
                ~handleSessionResult(st, ResultTx(i, outcome)).err)
=============================================================================
