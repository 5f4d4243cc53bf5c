------------------------------ MODULE VMSteps ------------------------------
(***************************************************************************)
(* What one transaction does when it succeeds: lemmas about chargeFee and  *)
(* the handlers of VM, and which facts about the state a transaction       *)
(* preserves, for VMProofs to build on.                                    *)
(***************************************************************************)
EXTENDS VM, DataLemmas

-----------------------------------------------------------------------------
(* Moving tokens. *)

\* Public keys are strings, and there are finitely many in an instance.
LEMMA AddressFacts == Account \subseteq Address /\ IsFiniteSet(Address)
  BY FiniteAssumption, FS_AddElement, Zenon DEF Address

\* The states t that differ from s in the balances alone.
OnlyBalances(s, t) ==
    /\ t.nonce = s.nonce
    /\ t.templates = s.templates
    /\ t.assets = s.assets
    /\ t.listings = s.listings
    /\ t.sessions = s.sessions

\* Taking n from an account that has it (token.go, "acc.Balance -= amount").
LEMMA DebitState ==
    ASSUME NEW s \in State, NEW a \in Account, NEW n \in Uint64, s.balance[a] >= n
    PROVE  /\ Debit(s, a, n) \in State
           /\ Debit(s, a, n).balance = [s.balance EXCEPT ![a] = s.balance[a] - n]
           /\ OnlyBalances(s, Debit(s, a, n))
  BY AddressFacts, UintAssumption DEF Debit, State, OnlyBalances, Uint64

\* Giving n to an account that has room for it (token.go's overflow check).
LEMMA CreditState ==
    ASSUME NEW s \in State, NEW a \in Account, NEW n \in Uint64,
           s.balance[a] <= MaxUint64 - n
    PROVE  /\ Credit(s, a, n) \in State
           /\ Credit(s, a, n).balance = [s.balance EXCEPT ![a] = s.balance[a] + n]
           /\ OnlyBalances(s, Credit(s, a, n))
  BY AddressFacts, UintAssumption DEF Credit, State, OnlyBalances, Uint64

\* What all accounts have together.
Supply(s) == SumFunction(s.balance)

\* Moving n between two accounts leaves the supply as it was.
LEMMA MovedSupply ==
    ASSUME NEW s \in State, NEW t \in State, NEW u \in State,
           NEW a \in Account, NEW b \in Account, NEW n \in Uint64,
           t.balance = [s.balance EXCEPT ![a] = s.balance[a] - n],
           u.balance = [t.balance EXCEPT ![b] = t.balance[b] + n]
    PROVE  Supply(u) = Supply(s)
<1>1. /\ s.balance \in [Address -> Int]
      /\ t.balance \in [Address -> Int]
      /\ n \in Int
      /\ s.balance[a] \in Int
      /\ t.balance[b] \in Int
  BY AddressFacts, UintAssumption DEF State, Uint64
<1>2. SumFunction(t.balance) = SumFunction(s.balance) - s.balance[a] + (s.balance[a] - n)
  BY <1>1, AddressFacts, SumExcept
<1>3. SumFunction(u.balance) = SumFunction(t.balance) - t.balance[b] + (t.balance[b] + n)
  BY <1>1, AddressFacts, SumExcept
<1>4. SumFunction(s.balance) \in Int /\ SumFunction(t.balance) \in Int
  BY <1>1, AddressFacts, SumOfFunction
<1> QED BY <1>1, <1>2, <1>3, <1>4 DEF Supply

\* The payment of token.go and market.go: the receiver's balance is read after
\* the payer's is written, so paying oneself changes nothing.
LEMMA PayState ==
    ASSUME NEW s \in State, NEW a \in Account, NEW b \in Account, NEW n \in Uint64,
           ~Pay(s, a, b, n).err
    PROVE  /\ Pay(s, a, b, n).st \in State
           /\ OnlyBalances(s, Pay(s, a, b, n).st)
           /\ Supply(Pay(s, a, b, n).st) = Supply(s)
           /\ a # b => Pay(s, a, b, n).st.balance[b] = s.balance[b] + n
<1> DEFINE t == Debit(s, a, n)
           u == Credit(t, b, n)
<1>1. s.balance[a] >= n /\ t.balance[b] <= MaxUint64 - n /\ Pay(s, a, b, n).st = u
  <2>1. s.balance[a] >= n => t \in State
    BY DebitState, Zenon
  <2> HIDE DEF u
  <2> QED BY <2>1, AddressFacts, UintAssumption DEF Pay, Ok, Err, State, Uint64, u
<1>2. /\ t \in State
      /\ t.balance = [s.balance EXCEPT ![a] = s.balance[a] - n]
      /\ OnlyBalances(s, t)
  BY <1>1, DebitState
<1> HIDE DEF t
<1>3. /\ u \in State
      /\ u.balance = [t.balance EXCEPT ![b] = t.balance[b] + n]
      /\ OnlyBalances(t, u)
  BY <1>1, <1>2, CreditState, Zenon
<1> HIDE DEF u
<1>4. Supply(u) = Supply(s)
  BY <1>2, <1>3, MovedSupply
<1>5. a # b => u.balance[b] = s.balance[b] + n
  BY <1>2, <1>3, AddressFacts DEF State
<1>6. OnlyBalances(s, u)
  BY <1>2, <1>3 DEF OnlyBalances
<1> QED BY <1>1, <1>3, <1>4, <1>5, <1>6

-----------------------------------------------------------------------------
(* What chargeFee leaves behind when it succeeds. *)

\* The parts every transaction has.
Signed(tx) == tx.from \in Account /\ tx.nonce \in Nonce /\ tx.fee \in Uint64

\* The state c is s with the nonce counted and the fee moved: nobody but the
\* sender has less than before.
Charged(s, tx, c) ==
    /\ c \in State
    /\ s.nonce[tx.from] = tx.nonce
    /\ c.nonce = [s.nonce EXCEPT ![tx.from] = tx.nonce + 1]
    /\ \A a \in Account \ {tx.from} : c.balance[a] >= s.balance[a]
    /\ Supply(c) = Supply(s)
    /\ c.templates = s.templates
    /\ c.assets = s.assets
    /\ c.listings = s.listings
    /\ c.sessions = s.sessions

\* chargeFee (executor.go applyTx) fails or charges.
LEMMA ChargeFee ==
    ASSUME NEW s \in State, NEW p \in Account, NEW tx, Signed(tx),
           ~chargeFee(s, p, tx).err
    PROVE  Charged(s, tx, chargeFee(s, p, tx).st)
<1> DEFINE counted == [s EXCEPT !.nonce[tx.from] = @ + 1]
           debited == Debit(counted, tx.from, tx.fee)
           r == chargeFee(s, p, tx)
<1>1. /\ s.nonce[tx.from] = tx.nonce
      /\ s.balance[tx.from] >= tx.fee
      /\ s.nonce[tx.from] # MaxNonce
      /\ \/ r.st = counted
         \/ /\ tx.from # p
            /\ s.balance[p] <= MaxUint64 - tx.fee
            /\ r.st = Credit(debited, p, tx.fee)
  BY AddressFacts, UintAssumption DEF chargeFee, Ok, Err, Signed, State, Uint64, Nonce
<1>2. /\ counted \in State
      /\ counted.balance = s.balance
      /\ Charged(s, tx, counted)
  BY <1>1, AddressFacts, UintAssumption, SMTT(30) DEF Charged, State, Signed, Nonce, Uint64, Supply
<1> HIDE DEF counted
<1>3. ASSUME tx.from # p, s.balance[p] <= MaxUint64 - tx.fee
      PROVE  Charged(s, tx, Credit(debited, p, tx.fee))
  <2> DEFINE credited == Credit(debited, p, tx.fee)
  <2>1. /\ debited \in State
        /\ debited.balance = [s.balance EXCEPT ![tx.from] = s.balance[tx.from] - tx.fee]
        /\ OnlyBalances(counted, debited)
    BY <1>1, <1>2, DebitState DEF Signed
  <2> HIDE DEF debited
  <2>2. debited.balance[p] = s.balance[p]
    BY <1>3, <2>1, AddressFacts DEF State
  <2>3. /\ credited \in State
        /\ credited.balance = [debited.balance EXCEPT ![p] = debited.balance[p] + tx.fee]
        /\ OnlyBalances(debited, credited)
    BY <1>3, <2>1, <2>2, CreditState, Zenon DEF Signed
  <2> HIDE DEF credited
  <2>4. \A a \in Account \ {tx.from} : credited.balance[a] >= s.balance[a]
    BY <2>1, <2>3, AddressFacts, UintAssumption DEF State, Uint64, Signed
  <2>5. Supply(credited) = Supply(s)
    BY <2>1, <2>3, MovedSupply DEF Signed
  <2>6. Charged(s, tx, credited)
    BY <1>2, <2>1, <2>3, <2>4, <2>5 DEF Charged, OnlyBalances
  <2> QED BY <2>6 DEF credited
<1> QED BY <1>1, <1>2, <1>3

-----------------------------------------------------------------------------
(* What a handler does when it succeeds: the step from the state s it starts *)
(* in to the state t it leaves.  Nonces are chargeFee's.                     *)

KeepsTokens(s, t) == Supply(t) = Supply(s) /\ t.sessions = s.sessions

KeepsMarket(s, t) ==
    /\ t.templates = s.templates
    /\ t.assets = s.assets
    /\ t.listings = s.listings

TransferStep(s, tx, t) ==
    /\ KeepsMarket(s, t)
    /\ KeepsTokens(s, t)

RegisterStep(s, tx, t) ==
    /\ KeepsTokens(s, t)
    /\ t.assets = s.assets /\ t.listings = s.listings
    /\ tx.template \in Template
    /\ s.templates[tx.template] = None
    /\ \E r \in TemplateRec : t.templates = [s.templates EXCEPT ![tx.template] = r]

\* A step that gives the asset i the value r and touches no other asset.
AssetStep(s, i, r, t) ==
    /\ KeepsTokens(s, t)
    /\ t.templates = s.templates /\ t.listings = s.listings
    /\ i \in TxId
    /\ t.assets = [s.assets EXCEPT ![i] = r]

MintStep(s, tx, t) ==
    /\ tx.template \in Template
    /\ s.templates[tx.template] # None
    /\ \E o \in Account :
         AssetStep(s, Id(tx), [template |-> tx.template, owner |-> o,
                               tradeable |-> s.templates[tx.template].tradeable,
                               listing |-> None], t)

BurnStep(s, tx, t) == OwnUnlisted(s, tx) /\ AssetStep(s, tx.asset, None, t)

TransferAssetStep(s, tx, t) ==
    /\ OwnUnlisted(s, tx)
    /\ s.assets[tx.asset].tradeable
    /\ tx.to \in Account
    /\ AssetStep(s, tx.asset, [s.assets[tx.asset] EXCEPT !.owner = tx.to], t)

ListStep(s, tx, t) ==
    /\ OwnUnlisted(s, tx)
    /\ s.assets[tx.asset].tradeable
    /\ tx.asset \in TxId
    /\ tx.amount \in Uint64
    /\ KeepsTokens(s, t)
    /\ t.templates = s.templates
    /\ t.assets = [s.assets EXCEPT ![tx.asset] = [@ EXCEPT !.listing = Id(tx)]]
    /\ t.listings = [s.listings EXCEPT ![Id(tx)] =
                       [asset |-> tx.asset, seller |-> tx.from,
                        price |-> tx.amount, active |-> TRUE]]

BuyStep(s, tx, t) ==
    LET l == s.listings[tx.listing]
    IN  /\ tx.listing \in TxId
        /\ l # None
        /\ l.active
        /\ l.seller # tx.from
        /\ s.assets[l.asset] # None
        /\ KeepsTokens(s, t)
        /\ t.templates = s.templates
        /\ t.assets = [s.assets EXCEPT ![l.asset] =
                         [@ EXCEPT !.owner = tx.from, !.listing = None]]
        /\ t.listings = [s.listings EXCEPT ![tx.listing] = [@ EXCEPT !.active = FALSE]]
        /\ t.balance[l.seller] >= s.balance[l.seller] + l.price

\* The handler's result r is the state it leaves: well typed, nonces untouched.
Leaves(s, r, t) == r.st = t /\ t \in State /\ t.nonce = s.nonce

\* token.go handleTransfer.
LEMMA TransferHandler ==
    ASSUME NEW s \in State, NEW tx \in TransferTx, ~handleTransfer(s, tx).err
    PROVE  \E t : Leaves(s, handleTransfer(s, tx), t) /\ TransferStep(s, tx, t)
<1> DEFINE r == Pay(s, tx.from, tx.to, tx.amount)
<1>1. /\ handleTransfer(s, tx) = r
      /\ tx.to \in Account
      /\ tx.from \in Account
      /\ tx.amount \in Uint64
  BY UintAssumption DEF handleTransfer, Err, TransferTx, Address, Uint64
<1>2. /\ r.st \in State
      /\ OnlyBalances(s, r.st)
      /\ Supply(r.st) = Supply(s)
  BY <1>1, PayState
<1> QED BY <1>1, <1>2 DEF OnlyBalances, TransferStep, KeepsMarket, KeepsTokens, Leaves

\* asset.go handleRegisterTemplate.
LEMMA RegisterHandler ==
    ASSUME NEW s \in State, NEW tx \in RegisterTemplateTx, ~handleRegisterTemplate(s, tx).err
    PROVE  \E t : Leaves(s, handleRegisterTemplate(s, tx), t) /\ RegisterStep(s, tx, t)
<1> DEFINE rec == [tradeable |-> tx.tradeable, creator |-> tx.from]
           t == [s EXCEPT !.templates[tx.template] = rec]
<1>1. /\ tx.template # None /\ s.templates[tx.template] = None
      /\ handleRegisterTemplate(s, tx) = Ok(t)
  BY DEF handleRegisterTemplate, Err
<1>2. tx.template \in Template /\ rec \in TemplateRec
  BY <1>1 DEF RegisterTemplateTx, TemplateRec
<1> HIDE DEF rec
<1>3. t \in State
  BY <1>2 DEF State
<1>4. RegisterStep(s, tx, t)
  BY <1>1, <1>2 DEF RegisterStep, KeepsTokens, Supply, State
<1>5. Leaves(s, handleRegisterTemplate(s, tx), t)
  BY <1>1, <1>3, SMTT(30) DEF Leaves, Ok, State
<1> QED BY <1>4, <1>5

\* Writing one asset leaves a well-typed state.
LEMMA AssetState ==
    ASSUME NEW s \in State, NEW i \in TxId, NEW r \in AssetRec \cup {None}
    PROVE  LET t == [s EXCEPT !.assets[i] = r]
           IN  t \in State /\ t.nonce = s.nonce /\ AssetStep(s, i, r, t)
  BY DEF State, AssetStep, KeepsTokens, Supply

\* asset.go handleMintAsset.
LEMMA MintHandler ==
    ASSUME NEW s \in State, NEW tx \in MintAssetTx, ~handleMintAsset(s, tx).err
    PROVE  \E t : Leaves(s, handleMintAsset(s, tx), t) /\ MintStep(s, tx, t)
<1> DEFINE o == IF tx.to = None THEN tx.from ELSE tx.to
           r == [template |-> tx.template, owner |-> o,
                 tradeable |-> s.templates[tx.template].tradeable, listing |-> None]
           t == [s EXCEPT !.assets[Id(tx)] = r]
<1>1. /\ tx.template # None
      /\ s.templates[tx.template] # None
      /\ tx.to # BadKey
      /\ handleMintAsset(s, tx) = Ok(t)
  BY DEF handleMintAsset, Err
<1>2. tx.template \in Template /\ o \in Account /\ Id(tx) \in TxId
  BY <1>1 DEF MintAssetTx, Address, Id, TxId, Nonce
<1>3. r \in AssetRec
  <2>1. s.templates[tx.template] \in TemplateRec
    BY <1>1, <1>2 DEF State
  <2> QED BY <1>2, <2>1 DEF AssetRec, TemplateRec
<1>4. t \in State /\ t.nonce = s.nonce /\ AssetStep(s, Id(tx), r, t)
  <2> HIDE DEF r
  <2> QED BY <1>2, <1>3, AssetState
<1> HIDE DEF o, t
<1>5. MintStep(s, tx, t)
  BY <1>1, <1>2, <1>4 DEF MintStep
<1> QED BY <1>1, <1>4, <1>5 DEF Leaves, Ok

\* asset.go handleBurnAsset.
LEMMA BurnHandler ==
    ASSUME NEW s \in State, NEW tx \in BurnAssetTx, ~handleBurnAsset(s, tx).err
    PROVE  \E t : Leaves(s, handleBurnAsset(s, tx), t) /\ BurnStep(s, tx, t)
<1> DEFINE t == [s EXCEPT !.assets[tx.asset] = None]
<1>1. OwnUnlisted(s, tx) /\ handleBurnAsset(s, tx) = Ok(t)
  BY DEF handleBurnAsset, Err
<1>2. tx.asset \in TxId
  BY DEF BurnAssetTx
<1>3. t \in State /\ t.nonce = s.nonce /\ AssetStep(s, tx.asset, None, t)
  BY <1>2, AssetState
<1> HIDE DEF t
<1> QED BY <1>1, <1>3 DEF Leaves, Ok, BurnStep

\* asset.go handleTransferAsset.
LEMMA TransferAssetHandler ==
    ASSUME NEW s \in State, NEW tx \in TransferAssetTx, ~handleTransferAsset(s, tx).err
    PROVE  \E t : Leaves(s, handleTransferAsset(s, tx), t) /\ TransferAssetStep(s, tx, t)
<1> DEFINE r == [s.assets[tx.asset] EXCEPT !.owner = tx.to]
           t == [s EXCEPT !.assets[tx.asset] = r]
<1>1. /\ tx.to # BadKey
      /\ OwnUnlisted(s, tx)
      /\ s.assets[tx.asset].tradeable
      /\ handleTransferAsset(s, tx) = Ok([s EXCEPT !.assets[tx.asset].owner = tx.to])
  BY DEF handleTransferAsset, Err
<1>2. tx.asset \in TxId /\ tx.to \in Account
  BY <1>1 DEF TransferAssetTx, Address
<1>3. [s EXCEPT !.assets[tx.asset].owner = tx.to] = t
  BY <1>2 DEF State
<1>4. r \in AssetRec
  <2>1. s.assets[tx.asset] \in AssetRec
    BY <1>1, <1>2 DEF State, OwnUnlisted
  <2> QED BY <1>2, <2>1 DEF AssetRec
<1>5. t \in State /\ t.nonce = s.nonce /\ AssetStep(s, tx.asset, r, t)
  <2> HIDE DEF r
  <2> QED BY <1>2, <1>4, AssetState
<1> HIDE DEF t
<1>6. TransferAssetStep(s, tx, t)
  BY <1>1, <1>2, <1>5 DEF TransferAssetStep
<1> QED BY <1>1, <1>3, <1>5, <1>6 DEF Leaves, Ok

\* market.go handleListMarket.
LEMMA ListHandler ==
    ASSUME NEW s \in State, NEW tx \in ListMarketTx, ~handleListMarket(s, tx).err
    PROVE  \E t : Leaves(s, handleListMarket(s, tx), t) /\ ListStep(s, tx, t)
<1> DEFINE l == [asset |-> tx.asset, seller |-> tx.from, price |-> tx.amount, active |-> TRUE]
           r == [s.assets[tx.asset] EXCEPT !.listing = Id(tx)]
           t == [s EXCEPT !.listings[Id(tx)] = l, !.assets[tx.asset].listing = Id(tx)]
<1>1. /\ OwnUnlisted(s, tx)
      /\ s.assets[tx.asset].tradeable
      /\ handleListMarket(s, tx) = Ok(t)
  BY DEF handleListMarket, Err
<1>2. /\ tx.asset \in TxId
      /\ tx.amount \in Uint64
      /\ Id(tx) \in TxId
      /\ l \in ListingRec
  BY UintAssumption DEF ListMarketTx, ListingRec, Id, TxId, Nonce, Uint64
<1>3. r \in AssetRec
  <2>1. s.assets[tx.asset] \in AssetRec
    BY <1>1, <1>2 DEF State, OwnUnlisted
  <2> QED BY <1>2, <2>1 DEF AssetRec
<1>4. /\ t.balance = s.balance
      /\ t.nonce = s.nonce
      /\ t.templates = s.templates
      /\ t.sessions = s.sessions
      /\ t.assets = [s.assets EXCEPT ![tx.asset] = r]
      /\ t.listings = [s.listings EXCEPT ![Id(tx)] = l]
      /\ t = [s EXCEPT !.assets = t.assets, !.listings = t.listings]
  <2> HIDE DEF l
  <2> QED BY <1>2, Zenon DEF State
<1> HIDE DEF t
<1>5. t \in State
  <2> HIDE DEF l, r
  <2>1. t.assets \in [TxId -> AssetRec \cup {None}]
    BY <1>2, <1>3, <1>4 DEF State
  <2>2. t.listings \in [TxId -> ListingRec \cup {None}]
    BY <1>2, <1>4 DEF State
  <2> QED BY <1>4, <2>1, <2>2 DEF State
<1>6. ListStep(s, tx, t)
  BY <1>1, <1>2, <1>4 DEF ListStep, KeepsTokens, Supply
<1>7. Leaves(s, handleListMarket(s, tx), t)
  BY <1>1, <1>4, <1>5 DEF Leaves, Ok
<1> QED BY <1>6, <1>7

\* market.go handleBuyMarket.
LEMMA BuyHandler ==
    ASSUME NEW s \in State, NEW tx \in BuyMarketTx, ~handleBuyMarket(s, tx).err
    PROVE  \E t : Leaves(s, handleBuyMarket(s, tx), t) /\ BuyStep(s, tx, t)
<1> DEFINE l == s.listings[tx.listing]
           paid == Pay(s, tx.from, l.seller, l.price)
           p == paid.st
           t == [p EXCEPT !.assets[l.asset].owner = tx.from,
                          !.assets[l.asset].listing = None,
                          !.listings[tx.listing].active = FALSE]
           r == [s.assets[l.asset] EXCEPT !.owner = tx.from, !.listing = None]
           closed == [l EXCEPT !.active = FALSE]
<1>1. /\ l # None
      /\ l.active
      /\ l.seller # tx.from
      /\ ~paid.err
      /\ s.assets[l.asset] # None
      /\ handleBuyMarket(s, tx) = Ok(t)
  <2> HIDE DEF paid, t
  <2> QED BY Zenon DEF handleBuyMarket, Err, Ok, t, p, paid, l
<1>2. /\ tx.listing \in TxId /\ tx.from \in Account
      /\ l \in ListingRec
  BY <1>1, Zenon DEF BuyMarketTx, State
<1>3. /\ l.asset \in TxId /\ l.seller \in Account /\ l.price \in Uint64
      /\ closed \in ListingRec
  BY <1>2, Zenon DEF ListingRec
<1>4. s.assets[l.asset] \in AssetRec
  BY <1>1, <1>3, Zenon DEF State
<1>5. r \in AssetRec
  BY <1>2, <1>4, Zenon DEF AssetRec
<1>6. /\ p \in State
      /\ OnlyBalances(s, p)
      /\ Supply(p) = Supply(s)
      /\ p.balance[l.seller] = s.balance[l.seller] + l.price
  <2> HIDE DEF l, t, r, closed
  <2>1. /\ tx.from \in Account /\ l.seller \in Account /\ l.price \in Uint64
        /\ tx.from # l.seller
        /\ ~Pay(s, tx.from, l.seller, l.price).err
    BY <1>1, <1>2, <1>3
  <2> QED BY <2>1, PayState
<1> HIDE DEF p, l, paid
<1>7. /\ t.balance = p.balance
      /\ t.nonce = p.nonce
      /\ t.templates = p.templates
      /\ t.sessions = p.sessions
      /\ t.assets = [p.assets EXCEPT ![l.asset] = [@ EXCEPT !.owner = tx.from, !.listing = None]]
      /\ t.listings = [p.listings EXCEPT ![tx.listing] = [@ EXCEPT !.active = FALSE]]
      /\ t = [p EXCEPT !.assets = t.assets, !.listings = t.listings]
  BY <1>2, <1>3, <1>6, ZenonT(30) DEF State
<1> HIDE DEF t
<1>8. /\ t.assets = [s.assets EXCEPT ![l.asset] = r]
      /\ t.listings = [s.listings EXCEPT ![tx.listing] = closed]
  BY <1>6, <1>7 DEF OnlyBalances, l
<1>9. t \in State
  <2> HIDE DEF r, closed
  <2>1. t.assets \in [TxId -> AssetRec \cup {None}]
    BY <1>3, <1>5, <1>8 DEF State
  <2>2. t.listings \in [TxId -> ListingRec \cup {None}]
    BY <1>2, <1>3, <1>8 DEF State
  <2> QED BY <1>6, <1>7, <2>1, <2>2, Zenon DEF State
<1>10. t.balance[l.seller] >= s.balance[l.seller] + l.price
  BY <1>3, <1>6, <1>7, AddressFacts, UintAssumption DEF State, Uint64
<1>11. BuyStep(s, tx, t)
  BY <1>1, <1>2, <1>6, <1>7, <1>8, <1>10, Zenon DEF BuyStep, KeepsTokens, Supply, OnlyBalances, l
<1>12. Leaves(s, handleBuyMarket(s, tx), t)
  BY <1>1, <1>6, <1>7, <1>9 DEF Leaves, Ok, OnlyBalances
<1> QED BY <1>11, <1>12

-----------------------------------------------------------------------------
(* session.go. *)

SessionOpenStep(s, tx, t) ==
    /\ KeepsMarket(s, t)
    /\ tx.session \in SessionId
    /\ s.sessions[tx.session] = None
    /\ tx.players \in Seq(Address)
    /\ tx.players # << >>
    /\ tx.amount \in Uint64
    /\ t.sessions = [s.sessions EXCEPT ![tx.session] =
                       [creator |-> tx.from, players |-> tx.players,
                        stakes |-> tx.amount, status |-> "open"]]
    /\ Supply(t) = Supply(s) - tx.amount * Len(tx.players)

SessionResultStep(s, tx, t) ==
    LET sess == s.sessions[tx.session]
    IN  /\ KeepsMarket(s, t)
        /\ tx.session \in SessionId
        /\ sess # None
        /\ sess.status = "open"
        /\ t.sessions = [s.sessions EXCEPT ![tx.session] = [@ EXCEPT !.status = "closed"]]
        /\ Supply(t) = Supply(s) + sess.stakes * Len(sess.players)

\* How often an account is among the first n players.
Entries(tx, n, a) == {i \in 1 .. n : tx.players[i] = a}

\* One more entry of the player list pays once more.
LEMMA EntriesStep ==
    ASSUME NEW tx, NEW n \in Nat, NEW a
    PROVE  /\ Cardinality(Entries(tx, n, a)) \in Nat
           /\ Cardinality(Entries(tx, 0, a)) = 0
           /\ Cardinality(Entries(tx, n + 1, a)) =
                Cardinality(Entries(tx, n, a)) + (IF tx.players[n + 1] = a THEN 1 ELSE 0)
<1>1. IsFiniteSet(Entries(tx, n, a))
  <2>1. IsFiniteSet(1 .. n)
    BY FS_Interval
  <2> QED BY <2>1, FS_Subset DEF Entries
<1>2. Entries(tx, 0, a) = {}
  BY DEF Entries
<1>3. Entries(tx, n + 1, a) =
        IF tx.players[n + 1] = a THEN Entries(tx, n, a) \cup {n + 1} ELSE Entries(tx, n, a)
  BY DEF Entries
<1>4. n + 1 \notin Entries(tx, n, a)
  BY DEF Entries
<1>5. Cardinality(Entries(tx, n, a)) \in Nat /\ Cardinality(Entries(tx, 0, a)) = 0
  BY <1>1, <1>2, FS_CardinalityType, FS_EmptySet, Zenon
<1>6. Cardinality(Entries(tx, n, a) \cup {n + 1}) = Cardinality(Entries(tx, n, a)) + 1
  BY <1>1, <1>4, FS_AddElement
<1> QED BY <1>3, <1>5, <1>6

\* The players a session may be opened with, and what each of them pays.
Staked(tx) == tx.players \in Seq(Address) /\ tx.amount \in Uint64

\* Locked is the loop of handleSessionOpen: the next entry pays its stake.
LEMMA LockedStep ==
    ASSUME NEW s \in State, NEW tx, Staked(tx), NEW n \in Nat
    PROVE  /\ Locked(s, tx, 0) = s.balance
           /\ Locked(s, tx, n) \in [Address -> Int]
           /\ n < Len(tx.players) =>
                Locked(s, tx, n + 1) =
                  [Locked(s, tx, n) EXCEPT ![tx.players[n + 1]] = @ - tx.amount]
<1> DEFINE C(m, a) == Cardinality(Entries(tx, m, a))
<1>0. tx.amount \in Nat /\ s.balance \in [Address -> Int]
  BY UintAssumption DEF Staked, State, Uint64
<1>1. \A m \in Nat : Locked(s, tx, m) = [a \in Address |-> s.balance[a] - tx.amount * C(m, a)]
  BY DEF Locked, Entries
<1>2. \A m \in Nat, a \in Address :
        /\ C(m, a) \in Nat
        /\ C(0, a) = 0
        /\ C(m + 1, a) = C(m, a) + (IF tx.players[m + 1] = a THEN 1 ELSE 0)
  BY EntriesStep
<1> HIDE DEF C
<1>3. Locked(s, tx, 0) = s.balance
  BY <1>0, <1>1, <1>2
<1>4. Locked(s, tx, n) \in [Address -> Int]
  <2>1. \A a \in Address : s.balance[a] - tx.amount * C(n, a) \in Int
    BY <1>0, <1>2
  <2> QED BY <1>1, <2>1
<1>5. ASSUME n < Len(tx.players)
      PROVE  Locked(s, tx, n + 1) =
               [Locked(s, tx, n) EXCEPT ![tx.players[n + 1]] = @ - tx.amount]
  <2>1. tx.players[n + 1] \in Address
    BY <1>5 DEF Staked
  <2>2. Locked(s, tx, n + 1) = [a \in Address |-> s.balance[a] - tx.amount * C(n + 1, a)]
    BY <1>1
  <2>3. Locked(s, tx, n) = [a \in Address |-> s.balance[a] - tx.amount * C(n, a)]
    BY <1>1
  <2>4. ASSUME NEW a \in Address
        PROVE  s.balance[a] - tx.amount * C(n + 1, a) =
                 IF tx.players[n + 1] = a THEN (s.balance[a] - tx.amount * C(n, a)) - tx.amount
                 ELSE s.balance[a] - tx.amount * C(n, a)
    <3>1. C(n, a) \in Nat /\ s.balance[a] \in Int
      BY <1>0, <1>2
    <3>2. CASE tx.players[n + 1] = a
      <4>1. C(n + 1, a) = C(n, a) + 1
        BY <1>2, <3>2
      <4>2. tx.amount * (C(n, a) + 1) = tx.amount * C(n, a) + tx.amount
        BY <1>0, <3>1
      <4>3. tx.amount * C(n, a) \in Int
        BY <1>0, <3>1
      <4> QED BY <1>0, <3>1, <3>2, <4>1, <4>2, <4>3
    <3>3. CASE tx.players[n + 1] # a
      <4>1. C(n + 1, a) = C(n, a)
        BY <1>2, <3>1, <3>3
      <4> QED BY <3>3, <4>1
    <3> QED BY <3>2, <3>3
  <2> QED BY <2>1, <2>2, <2>3, <2>4
<1> QED BY <1>3, <1>4, <1>5

\* After n entries the supply is down by n stakes; while everybody can pay when
\* their turn comes, no balance has gone below zero.
LEMMA LockedSupply ==
    ASSUME NEW s \in State, NEW tx, Staked(tx)
    PROVE  \A n \in 0 .. Len(tx.players) :
             /\ SumFunction(Locked(s, tx, n)) = Supply(s) - tx.amount * n
             /\ Short(s, tx) = {} => Locked(s, tx, n) \in [Address -> Uint64]
<1> DEFINE P(n) == /\ SumFunction(Locked(s, tx, n)) = Supply(s) - tx.amount * n
                   /\ Short(s, tx) = {} => Locked(s, tx, n) \in [Address -> Uint64]
           G == {n \in Nat : n <= Len(tx.players) => P(n)}
<1>0. tx.amount \in Nat /\ s.balance \in [Address -> Uint64] /\ s.balance \in [Address -> Int]
  BY UintAssumption DEF Staked, State, Uint64
<1>1. Supply(s) \in Int
  BY <1>0, AddressFacts, SumOfFunction DEF Supply
<1>2. 0 \in G
  <2>1. Locked(s, tx, 0) = s.balance
    BY LockedStep, Zenon
  <2>2. Supply(s) = Supply(s) - tx.amount * 0
    BY <1>0, <1>1
  <2> QED BY <1>0, <2>1, <2>2 DEF Supply
<1>3. ASSUME NEW n \in Nat, n \in G PROVE n + 1 \in G
  <2> SUFFICES ASSUME n + 1 <= Len(tx.players) PROVE P(n + 1)
    OBVIOUS
  <2> DEFINE b == Locked(s, tx, n)
             a == tx.players[n + 1]
  <2>0. Len(tx.players) \in Nat /\ n < Len(tx.players) /\ n + 1 \in 1 .. Len(tx.players)
    BY DEF Staked
  <2>1. b \in [Address -> Int] /\ Locked(s, tx, n + 1) = [b EXCEPT ![a] = b[a] - tx.amount]
    BY <2>0, LockedStep
  <2>2. P(n)
    BY <1>3, <2>0
  <2>3. a \in Address
    BY <2>0 DEF Staked
  <2>4. Short(s, tx) = {} => b[a] >= tx.amount
    <3>1. DOMAIN tx.players = 1 .. Len(tx.players) /\ (n + 1) - 1 = n
      BY DEF Staked
    <3>2. Short(s, tx) = {} => ~(b[a] < tx.amount)
      BY <2>0, <3>1 DEF Short
    <3> HIDE DEF b, a
    <3>3. b[a] \in Int
      BY <2>1, <2>3
    <3> QED BY <1>0, <3>2, <3>3
  <2> HIDE DEF b, a
  <2>5. PICK v \in Int : v = b[a] - tx.amount
    BY <1>0, <2>1, <2>3
  <2>6. SumFunction([b EXCEPT ![a] = v]) = SumFunction(b) - b[a] + v
    <3>1. IsFiniteSet(Address) /\ b \in [Address -> Int] /\ a \in Address
      BY <2>1, <2>3, AddressFacts
    <3> HIDE DEF P, G
    <3> QED BY <3>1, SumExcept, Zenon
  <2>7. SumFunction(b) = Supply(s) - tx.amount * n
    BY <2>2 DEF b
  <2>71. tx.amount * (n + 1) = tx.amount * n + tx.amount /\ tx.amount * n \in Int
    BY <1>0
  <2>72. b[a] \in Int
    BY <2>1, <2>3
  <2>8. SumFunction(Locked(s, tx, n + 1)) = Supply(s) - tx.amount * (n + 1)
    BY <1>0, <1>1, <2>1, <2>5, <2>6, <2>7, <2>71, <2>72, SMTT(30)
  <2>9. ASSUME Short(s, tx) = {} PROVE Locked(s, tx, n + 1) \in [Address -> Uint64]
    <3>1. b \in [Address -> Uint64]
      BY <2>2, <2>9 DEF b
    <3>2. b[a] - tx.amount \in Uint64
      BY <1>0, <2>3, <2>4, <2>9, <3>1, UintAssumption DEF Uint64
    <3> QED BY <2>1, <3>1, <3>2, Zenon
  <2> QED BY <2>8, <2>9
<1> HIDE DEF G
<1>4. Nat \subseteq G
  BY <1>2, <1>3, NatSetInduction
<1> QED BY <1>4 DEF G, Staked

\* session.go handleSessionOpen.
LEMMA SessionOpenHandler ==
    ASSUME NEW s \in State, NEW tx \in SessionOpenTx, ~handleSessionOpen(s, tx).err
    PROVE  \E t : Leaves(s, handleSessionOpen(s, tx), t) /\ SessionOpenStep(s, tx, t)
<1> DEFINE n == Len(tx.players)
           sess == [creator |-> tx.from, players |-> tx.players,
                    stakes |-> tx.amount, status |-> "open"]
           t == [s EXCEPT !.balance = Locked(s, tx, n), !.sessions[tx.session] = sess]
<1>1. /\ tx.session # None
      /\ tx.players # << >>
      /\ s.sessions[tx.session] = None
      /\ Short(s, tx) = {}
      /\ handleSessionOpen(s, tx) = Ok(t)
  BY DEF handleSessionOpen, Err
<1>2. tx.session \in SessionId /\ tx.from \in Account /\ Staked(tx)
  <2>1. tx.players \in Seq(Address)
    <3>1. PICK m \in 0 .. MaxPlayers : tx.players \in [1 .. m -> Address]
      BY DEF SessionOpenTx
    <3> QED BY <3>1, UintAssumption
  <2> QED BY <1>1, <2>1, UintAssumption DEF SessionOpenTx, Staked, Uint64
<1>3. n \in 0 .. n
  BY <1>2 DEF Staked
<1>4. /\ SumFunction(Locked(s, tx, n)) = Supply(s) - tx.amount * n
      /\ Locked(s, tx, n) \in [Address -> Uint64]
  BY <1>1, <1>2, <1>3, LockedSupply
<1>5. sess \in SessionRec
  BY <1>2 DEF SessionRec, Staked
<1>6. /\ t.balance = Locked(s, tx, n)
      /\ t.sessions = [s.sessions EXCEPT ![tx.session] = sess]
      /\ KeepsMarket(s, t)
      /\ t.nonce = s.nonce
      /\ t \in State
  <2> HIDE DEF sess, n
  <2> QED BY <1>2, <1>4, <1>5, Zenon DEF State, KeepsMarket
<1> HIDE DEF t
<1>7. SessionOpenStep(s, tx, t)
  BY <1>1, <1>2, <1>4, <1>6 DEF SessionOpenStep, Supply, Staked
<1>8. Leaves(s, handleSessionOpen(s, tx), t)
  BY <1>1, <1>6 DEF Leaves, Ok
<1> QED BY <1>7, <1>8

\* session.go handleSessionResult: everybody in the outcome is paid.
LEMMA SessionResultHandler ==
    ASSUME NEW s \in State, NEW tx \in SessionResultTx, ~handleSessionResult(s, tx).err
    PROVE  \E t : Leaves(s, handleSessionResult(s, tx), t) /\ SessionResultStep(s, tx, t)
<1> DEFINE sess == s.sessions[tx.session]
           o == tx.outcome
           paid == [s EXCEPT !.balance = Paid(s, o)]
           t == [paid EXCEPT !.sessions[tx.session].status = "closed"]
<1>1. /\ tx.session # None
      /\ sess # None
      /\ sess.status = "open"
      /\ DOMAIN o \subseteq Range(sess.players)
      /\ SumFunction(o) = sess.stakes * Len(sess.players)
      /\ \A a \in DOMAIN o : ~(s.balance[a] > MaxUint64 - o[a])
      /\ handleSessionResult(s, tx) = Ok(t)
  <2> HIDE DEF t
  <2> QED BY DEF handleSessionResult, Err, Ok, t
<1>2. tx.session \in SessionId /\ sess \in SessionRec
  BY <1>1 DEF SessionResultTx, State
<1>3. PICK Q \in SUBSET Address : o \in [Q -> Uint64]
  <2>1. PICK Q \in SUBSET Address : o \in [Q -> Amount]
    BY DEF SessionResultTx, Outcome
  <2> QED BY <2>1, UintAssumption DEF Uint64
<1>4. /\ Q = DOMAIN o
      /\ IsFiniteSet(Q)
      /\ \A a \in Q : o[a] \in Int
      /\ \A a \in Address : s.balance[a] \in Int
  BY <1>3, AddressFacts, FS_Subset, UintAssumption DEF Uint64, State
<1>5. \A a \in Address :
        /\ Paid(s, o)[a] = IF a \in Q THEN s.balance[a] + o[a] ELSE s.balance[a]
        /\ Paid(s, o)[a] \in Uint64
  <2> TAKE a \in Address
  <2>1. s.balance[a] \in Uint64
    BY DEF State
  <2>2. Paid(s, o)[a] = IF a \in Q /\ s.balance[a] + o[a] <= MaxUint64
                        THEN s.balance[a] + o[a] ELSE s.balance[a]
    BY <1>4 DEF Paid
  <2>3. a \in Q => o[a] \in Uint64 /\ ~(s.balance[a] > MaxUint64 - o[a])
    BY <1>1, <1>3, <1>4
  <2> HIDE DEF o
  <2> QED BY <2>1, <2>2, <2>3, UintAssumption DEF Uint64
<1>6. Paid(s, o) \in [Address -> Uint64] /\ Paid(s, o) \in [Address -> Int]
  <2>1. Paid(s, o) = [a \in Address |-> Paid(s, o)[a]]
    BY DEF Paid
  <2> QED BY <1>5, <2>1, UintAssumption DEF Uint64
<1>7. SumFunction(Paid(s, o)) = Supply(s) + SumFunction(o)
  <2>1. SumFunctionOnSet(Paid(s, o), Address)
          = SumFunctionOnSet(s.balance, Address) + SumFunctionOnSet(o, Q)
    <3> HIDE DEF o
    <3> QED BY <1>4, <1>5, AddressFacts, SumAdd
  <2>2. SumFunction(Paid(s, o)) = SumFunctionOnSet(Paid(s, o), Address)
    BY <1>6, AddressFacts, SumOfFunction
  <2>3. SumFunction(s.balance) = SumFunctionOnSet(s.balance, Address)
    <3>1. s.balance \in [Address -> Int]
      BY UintAssumption DEF State, Uint64
    <3> QED BY <3>1, AddressFacts, SumOfFunction
  <2>4. SumFunction(o) = SumFunctionOnSet(o, Q)
    <3>1. o \in [Q -> Int]
      BY <1>3, <1>4
    <3> QED BY <1>4, <3>1, SumOfFunction
  <2> QED BY <2>1, <2>2, <2>3, <2>4 DEF Supply
<1>8. /\ t.balance = Paid(s, o)
      /\ t.sessions = [s.sessions EXCEPT ![tx.session] = [@ EXCEPT !.status = "closed"]]
      /\ KeepsMarket(s, t)
      /\ t.nonce = s.nonce
      /\ t = [s EXCEPT !.balance = t.balance, !.sessions = t.sessions]
  <2> HIDE DEF o
  <2> QED BY <1>2 DEF State, KeepsMarket
<1> HIDE DEF t, o
<1>9. t \in State
  <2>1. [sess EXCEPT !.status = "closed"] \in SessionRec
    BY <1>2 DEF SessionRec
  <2>2. t.sessions \in [SessionId -> SessionRec \cup {None}]
    BY <1>2, <1>8, <2>1 DEF State
  <2> QED BY <1>6, <1>8, <2>2, Zenon DEF State
<1>10. SessionResultStep(s, tx, t)
  BY <1>1, <1>2, <1>7, <1>8 DEF SessionResultStep, Supply
<1>11. Leaves(s, handleSessionResult(s, tx), t)
  BY <1>1, <1>8, <1>9 DEF Leaves, Ok
<1> QED BY <1>10, <1>11

-----------------------------------------------------------------------------
(* A whole transaction. *)

\* One of the handlers took tx and succeeded.
Handled(s, tx, t) ==
    \/ tx \in TransferTx /\ TransferStep(s, tx, t)
    \/ tx \in RegisterTemplateTx /\ RegisterStep(s, tx, t)
    \/ tx \in MintAssetTx /\ MintStep(s, tx, t)
    \/ tx \in BurnAssetTx /\ BurnStep(s, tx, t)
    \/ tx \in TransferAssetTx /\ TransferAssetStep(s, tx, t)
    \/ tx \in ListMarketTx /\ ListStep(s, tx, t)
    \/ tx \in BuyMarketTx /\ BuyStep(s, tx, t)
    \/ tx \in SessionOpenTx /\ SessionOpenStep(s, tx, t)
    \/ tx \in SessionResultTx /\ SessionResultStep(s, tx, t)

\* The transaction tx was next in its sender's count and leads from s to t.
Applied(s, tx, t) ==
    /\ Signed(tx)
    /\ s \in State /\ t \in State
    /\ s.nonce[tx.from] = tx.nonce
    /\ t.nonce = [s.nonce EXCEPT ![tx.from] = tx.nonce + 1]
    /\ Handled(s, tx, t)

\* Every transaction of the model is signed.
AnyTx == UNION {TransferTx, RegisterTemplateTx, MintAssetTx, BurnAssetTx, TransferAssetTx,
                ListMarketTx, BuyMarketTx, SessionOpenTx, SessionResultTx}

\* Every transaction has a sender, a nonce and a fee within bounds.
LEMMA AllSigned == \A tx \in AnyTx : Signed(tx)
<1>1. Fee \subseteq Uint64
  BY UintAssumption DEF Uint64
<1> SUFFICES ASSUME NEW tx \in AnyTx PROVE Signed(tx)
  OBVIOUS
<1>2. CASE tx \in TransferTx
  BY <1>1, <1>2 DEF Signed, TransferTx
<1>3. CASE tx \in RegisterTemplateTx
  BY <1>1, <1>3 DEF Signed, RegisterTemplateTx
<1>4. CASE tx \in MintAssetTx
  BY <1>1, <1>4 DEF Signed, MintAssetTx
<1>5. CASE tx \in BurnAssetTx
  BY <1>1, <1>5 DEF Signed, BurnAssetTx
<1>6. CASE tx \in TransferAssetTx
  BY <1>1, <1>6 DEF Signed, TransferAssetTx
<1>7. CASE tx \in ListMarketTx
  BY <1>1, <1>7 DEF Signed, ListMarketTx
<1>8. CASE tx \in BuyMarketTx
  BY <1>1, <1>8 DEF Signed, BuyMarketTx
<1>9. CASE tx \in SessionOpenTx
  BY <1>1, <1>9 DEF Signed, SessionOpenTx
<1>10. CASE tx \in SessionResultTx
  BY <1>1, <1>10 DEF Signed, SessionResultTx
<1> QED BY <1>2, <1>3, <1>4, <1>5, <1>6, <1>7, <1>8, <1>9, <1>10 DEF AnyTx

\* executor.go's registry: a transaction that succeeds went to the handler of
\* its type.
LEMMA ExecuteHandler ==
    ASSUME NEW c \in State, NEW tx \in AnyTx, ~Execute(c, tx).err
    PROVE  \E t : Leaves(c, Execute(c, tx), t) /\ Handled(c, tx, t)
<1>0. tx.type \in Registered
  BY DEF Execute, Err
<1>1. CASE tx \in TransferTx
  <2>1. Execute(c, tx) = handleTransfer(c, tx)
    BY <1>0, <1>1 DEF Execute, TransferTx
  <2>2. \E t : Leaves(c, handleTransfer(c, tx), t) /\ TransferStep(c, tx, t)
    BY <1>1, <2>1, TransferHandler
  <2> QED BY <1>1, <2>1, <2>2 DEF Handled
<1>2. CASE tx \in RegisterTemplateTx
  <2>1. Execute(c, tx) = handleRegisterTemplate(c, tx)
    BY <1>0, <1>2 DEF Execute, RegisterTemplateTx
  <2>2. \E t : Leaves(c, handleRegisterTemplate(c, tx), t) /\ RegisterStep(c, tx, t)
    BY <1>2, <2>1, RegisterHandler
  <2> QED BY <1>2, <2>1, <2>2 DEF Handled
<1>3. CASE tx \in MintAssetTx
  <2>1. Execute(c, tx) = handleMintAsset(c, tx)
    BY <1>0, <1>3 DEF Execute, MintAssetTx
  <2>2. \E t : Leaves(c, handleMintAsset(c, tx), t) /\ MintStep(c, tx, t)
    BY <1>3, <2>1, MintHandler
  <2> QED BY <1>3, <2>1, <2>2 DEF Handled
<1>4. CASE tx \in BurnAssetTx
  <2>1. Execute(c, tx) = handleBurnAsset(c, tx)
    BY <1>0, <1>4 DEF Execute, BurnAssetTx
  <2>2. \E t : Leaves(c, handleBurnAsset(c, tx), t) /\ BurnStep(c, tx, t)
    BY <1>4, <2>1, BurnHandler
  <2> QED BY <1>4, <2>1, <2>2 DEF Handled
<1>5. CASE tx \in TransferAssetTx
  <2>1. Execute(c, tx) = handleTransferAsset(c, tx)
    BY <1>0, <1>5 DEF Execute, TransferAssetTx
  <2>2. \E t : Leaves(c, handleTransferAsset(c, tx), t) /\ TransferAssetStep(c, tx, t)
    BY <1>5, <2>1, TransferAssetHandler
  <2> QED BY <1>5, <2>1, <2>2 DEF Handled
<1>6. CASE tx \in ListMarketTx
  <2>1. Execute(c, tx) = handleListMarket(c, tx)
    BY <1>0, <1>6 DEF Execute, ListMarketTx
  <2>2. \E t : Leaves(c, handleListMarket(c, tx), t) /\ ListStep(c, tx, t)
    BY <1>6, <2>1, ListHandler
  <2> QED BY <1>6, <2>1, <2>2 DEF Handled
<1>7. CASE tx \in BuyMarketTx
  <2>1. Execute(c, tx) = handleBuyMarket(c, tx)
    BY <1>0, <1>7 DEF Execute, BuyMarketTx
  <2>2. \E t : Leaves(c, handleBuyMarket(c, tx), t) /\ BuyStep(c, tx, t)
    BY <1>7, <2>1, BuyHandler
  <2> QED BY <1>7, <2>1, <2>2 DEF Handled
<1>8. CASE tx \in SessionOpenTx
  <2>1. Execute(c, tx) = handleSessionOpen(c, tx)
    BY <1>0, <1>8 DEF Execute, SessionOpenTx
  <2>2. \E t : Leaves(c, handleSessionOpen(c, tx), t) /\ SessionOpenStep(c, tx, t)
    BY <1>8, <2>1, SessionOpenHandler
  <2> QED BY <1>8, <2>1, <2>2 DEF Handled
<1>9. CASE tx \in SessionResultTx
  <2>1. Execute(c, tx) = handleSessionResult(c, tx)
    BY <1>0, <1>9, SMTT(30) DEF Execute, SessionResultTx
  <2>2. \E t : Leaves(c, handleSessionResult(c, tx), t) /\ SessionResultStep(c, tx, t)
    BY <1>9, <2>1, SessionResultHandler
  <2> QED BY <1>9, <2>1, <2>2 DEF Handled
<1> QED BY <1>1, <1>2, <1>3, <1>4, <1>5, <1>6, <1>7, <1>8, <1>9 DEF AnyTx

\* What a handler does after chargeFee it does to the state before it as well:
\* the two differ in the sender's nonce and in who has the fee.
LEMMA HandledFromStart ==
    ASSUME NEW s \in State, NEW tx, NEW c, NEW t, Charged(s, tx, c), Handled(c, tx, t),
           t \in State
    PROVE  Handled(s, tx, t)
<1>1. /\ c \in State
      /\ Supply(c) = Supply(s)
      /\ c.templates = s.templates
      /\ c.assets = s.assets
      /\ c.listings = s.listings
      /\ c.sessions = s.sessions
  BY DEF Charged
<1>2. CASE tx \in TransferTx /\ TransferStep(c, tx, t)
  BY <1>1, <1>2 DEF Handled, TransferStep, KeepsTokens, KeepsMarket
<1>3. CASE tx \in RegisterTemplateTx /\ RegisterStep(c, tx, t)
  BY <1>1, <1>3 DEF Handled, RegisterStep, KeepsTokens
<1>4. CASE tx \in MintAssetTx /\ MintStep(c, tx, t)
  <2>1. MintStep(s, tx, t)
    BY <1>1, <1>4, SMTT(30) DEF MintStep, AssetStep, KeepsTokens
  <2> QED BY <1>4, <2>1 DEF Handled
<1>5. CASE tx \in BurnAssetTx /\ BurnStep(c, tx, t)
  BY <1>1, <1>5 DEF Handled, BurnStep, OwnUnlisted, AssetStep, KeepsTokens
<1>6. CASE tx \in TransferAssetTx /\ TransferAssetStep(c, tx, t)
  BY <1>1, <1>6 DEF Handled, TransferAssetStep, OwnUnlisted, AssetStep, KeepsTokens
<1>7. CASE tx \in ListMarketTx /\ ListStep(c, tx, t)
  BY <1>1, <1>7 DEF Handled, ListStep, OwnUnlisted, KeepsTokens
<1>8. CASE tx \in BuyMarketTx /\ BuyStep(c, tx, t)
  <2> DEFINE l == s.listings[tx.listing]
  <2>1. l \in ListingRec /\ l.seller # tx.from
    BY <1>1, <1>8 DEF BuyStep, State
  <2>2. l.seller \in Account \ {tx.from} /\ l.price \in Int
    BY <2>1, UintAssumption, SMTT(30) DEF ListingRec, Uint64
  <2>3. /\ c.balance[l.seller] >= s.balance[l.seller]
        /\ t.balance[l.seller] >= c.balance[l.seller] + l.price
    BY <1>1, <1>8, <2>2 DEF BuyStep, Charged
  <2> HIDE DEF l
  <2>4. t.balance[l.seller] >= s.balance[l.seller] + l.price
    BY <1>1, <2>2, <2>3, AddressFacts, UintAssumption, SMTT(30) DEF State, Uint64
  <2>5. BuyStep(s, tx, t)
    BY <1>1, <1>8, <2>4, SMTT(30) DEF BuyStep, KeepsTokens, l
  <2> QED BY <1>8, <2>5 DEF Handled
<1>9. CASE tx \in SessionOpenTx /\ SessionOpenStep(c, tx, t)
  BY <1>1, <1>9 DEF Handled, SessionOpenStep, KeepsMarket
<1>10. CASE tx \in SessionResultTx /\ SessionResultStep(c, tx, t)
  BY <1>1, <1>10 DEF Handled, SessionResultStep, KeepsMarket
<1> QED BY <1>2, <1>3, <1>4, <1>5, <1>6, <1>7, <1>8, <1>9, <1>10, SMTT(30) DEF Handled

\* ExecuteTx: a transaction that fails leaves the state as it was, one that
\* succeeds has been applied.
LEMMA ExecuteTxStep ==
    ASSUME TypeOK, NEW p \in Proposer, NEW tx \in AnyTx, ExecuteTx(p, tx)
    PROVE  /\ genesis' = genesis
           /\ \/ applyTx(st, p, tx).err /\ st' = st
              \/ Applied(st, tx, st')
<1> DEFINE r == applyTx(st, p, tx)
           c == chargeFee(st, p, tx).st
<1>1. genesis' = genesis /\ st' = IF r.err THEN st ELSE r.st
  BY DEF ExecuteTx
<1>2. ASSUME ~r.err PROVE Applied(st, tx, r.st)
  <2>1. st \in State /\ p \in Account /\ Signed(tx)
    BY AccountAssumption, AllSigned DEF TypeOK
  <2>2. ~chargeFee(st, p, tx).err /\ r = Execute(c, tx)
    BY <1>2, Zenon DEF applyTx
  <2>3. Charged(st, tx, c)
    BY <2>1, <2>2, ChargeFee
  <2> HIDE DEF c
  <2>4. c \in State /\ ~Execute(c, tx).err
    BY <1>2, <2>2, <2>3 DEF Charged
  <2>5. PICK t : Leaves(c, Execute(c, tx), t) /\ Handled(c, tx, t)
    BY <2>4, ExecuteHandler
  <2>6. t = r.st /\ t \in State /\ t.nonce = c.nonce
    BY <2>2, <2>5 DEF Leaves
  <2>7. Handled(st, tx, t)
    BY <2>1, <2>3, <2>5, <2>6, HandledFromStart
  <2>8. Applied(st, tx, t)
    BY <2>1, <2>3, <2>6, <2>7 DEF Applied, Charged
  <2> QED BY <2>6, <2>8
<1> QED BY <1>1, <1>2

\* Every step of the specification is one of these.
LEMMA NextStep ==
    ASSUME TypeOK, [Next]_vars
    PROVE  genesis' = genesis /\ (st' = st \/ \E tx : Applied(st, tx, st'))
<1>1. CASE UNCHANGED vars
  BY <1>1 DEF vars
<1>2. CASE Next
  <2>1. PICK p \in Proposer, tx \in AnyTx : ExecuteTx(p, tx)
    BY <1>2, Zenon DEF Next, Transfer, RegisterTemplate, MintAsset, BurnAsset, TransferAsset,
                       ListMarket, BuyMarket, SessionOpen, SessionResult, AnyTx
  <2> QED BY <2>1, ExecuteTxStep
<1> QED BY <1>1, <1>2

-----------------------------------------------------------------------------
(* Identifiers and nonces. *)

\* An identifier names an asset or a listing only once the transaction it
\* comes from has been executed.
Numbered(s) ==
    \A i \in TxId : s.assets[i] # None \/ s.listings[i] # None => i[2] < s.nonce[i[1]]

\* A transaction makes no asset and no listing but the one named after it.
LEMMA OneNewId ==
    ASSUME NEW s, NEW tx, NEW t, Applied(s, tx, t), NEW i \in TxId
    PROVE  /\ t.assets[i] # None => s.assets[i] # None \/ i = Id(tx)
           /\ t.listings[i] # None => s.listings[i] # None \/ i = Id(tx)
<1>0. s \in State /\ t \in State
  BY DEF Applied
<1>1. CASE KeepsMarket(s, t)
  BY <1>1 DEF KeepsMarket
<1>2. CASE RegisterStep(s, tx, t)
  BY <1>2 DEF RegisterStep
<1>3. CASE MintStep(s, tx, t)
  BY <1>0, <1>3 DEF MintStep, AssetStep, State
<1>4. CASE BurnStep(s, tx, t)
  BY <1>0, <1>4 DEF BurnStep, AssetStep, State
<1>5. CASE TransferAssetStep(s, tx, t)
  BY <1>0, <1>5 DEF TransferAssetStep, OwnUnlisted, AssetStep, State
<1>6. CASE ListStep(s, tx, t)
  <2>1. t.assets[i] # None => s.assets[i] # None
    BY <1>0, <1>6 DEF ListStep, OwnUnlisted, State
  <2>2. t.listings[i] # None => s.listings[i] # None \/ i = Id(tx)
    BY <1>0, <1>6 DEF ListStep, State
  <2> QED BY <2>1, <2>2
<1>7. CASE BuyStep(s, tx, t)
  BY <1>0, <1>7 DEF BuyStep, State
<1> QED BY <1>1, <1>2, <1>3, <1>4, <1>5, <1>6, <1>7
        DEF Applied, Handled, TransferStep, SessionOpenStep, SessionResultStep

\* Nonces only go up, and the sender's passes the transaction's.
LEMMA NoncesGrow ==
    ASSUME NEW s, NEW tx, NEW t, Applied(s, tx, t)
    PROVE  /\ \A a \in Account : t.nonce[a] >= s.nonce[a]
           /\ Id(tx) \in TxId
           /\ Id(tx)[2] = s.nonce[Id(tx)[1]]
           /\ Id(tx)[2] < t.nonce[Id(tx)[1]]
<1>1. s.nonce \in [Account -> 0 .. MaxNonce] /\ MaxNonce \in Nat
  BY UintAssumption DEF Applied, State
<1>2. tx.from \in Account /\ tx.nonce \in 0 .. MaxNonce
  BY DEF Applied, Signed, Nonce
<1>3. s.nonce[tx.from] = tx.nonce /\ t.nonce = [s.nonce EXCEPT ![tx.from] = tx.nonce + 1]
  BY DEF Applied
<1>4. Id(tx) = <<tx.from, tx.nonce>>
  BY DEF Id
<1>5. Id(tx) \in TxId /\ Id(tx)[1] = tx.from /\ Id(tx)[2] = tx.nonce
  BY <1>2, <1>4 DEF TxId
<1>6. t.nonce[tx.from] = tx.nonce + 1 /\ \A a \in Account \ {tx.from} : t.nonce[a] = s.nonce[a]
  BY <1>1, <1>2, <1>3
<1> QED BY <1>1, <1>2, <1>3, <1>5, <1>6

\* An identifier is a sender and a nonce.
LEMMA IdParts == \A i \in TxId : i[1] \in Account /\ i[2] \in Int
  BY UintAssumption DEF TxId

\* Numbered survives every transaction.
LEMMA NumberedStep ==
    ASSUME NEW s, NEW tx, NEW t, Numbered(s), Applied(s, tx, t)
    PROVE  Numbered(t)
<1> SUFFICES ASSUME NEW i \in TxId, t.assets[i] # None \/ t.listings[i] # None
             PROVE  i[2] < t.nonce[i[1]]
  BY DEF Numbered
<1>1. CASE i = Id(tx)
  BY <1>1, NoncesGrow
<1>2. CASE i # Id(tx)
  <2>1. i[2] < s.nonce[i[1]]
    BY <1>2, OneNewId DEF Numbered
  <2>2. t.nonce[i[1]] >= s.nonce[i[1]] /\ i[1] \in Account /\ i[2] \in Int
    BY NoncesGrow, IdParts
  <2>3. s.nonce[i[1]] \in Int /\ t.nonce[i[1]] \in Int
    BY <2>2, UintAssumption DEF Applied, State
  <2> QED BY <2>1, <2>2, <2>3
<1> QED BY <1>1, <1>2

\* So what a transaction names after itself was not there before.
LEMMA FreshId ==
    ASSUME NEW s, NEW tx, NEW t, Numbered(s), Applied(s, tx, t)
    PROVE  s.assets[Id(tx)] = None /\ s.listings[Id(tx)] = None
<1>1. Id(tx) \in TxId /\ Id(tx)[2] = s.nonce[Id(tx)[1]]
  BY NoncesGrow
<1>2. Id(tx)[2] \in Int
  BY <1>1, IdParts, SMTT(30)
<1> QED BY <1>1, <1>2 DEF Numbered

-----------------------------------------------------------------------------
(* Templates and the tradeable flag. *)

\* An asset has the tradeable flag of its template, which never goes away.
FlagsFromTemplates ==
    \A i \in TxId :
      st.assets[i] # None =>
        /\ st.templates[st.assets[i].template] # None
        /\ st.assets[i].tradeable <=> st.templates[st.assets[i].template].tradeable

\* FlagsFromTemplates survives every transaction.
LEMMA FlagsStep ==
    ASSUME TypeOK, FlagsFromTemplates, NEW tx, Applied(st, tx, st')
    PROVE  FlagsFromTemplates'
<1> DEFINE s == st
           t == st'
<1>0. s \in State /\ t \in State
  BY DEF Applied
<1> SUFFICES ASSUME NEW i \in TxId, t.assets[i] # None
             PROVE  /\ t.templates[t.assets[i].template] # None
                    /\ t.assets[i].tradeable <=> t.templates[t.assets[i].template].tradeable
  BY DEF FlagsFromTemplates
<1> DEFINE Good(a) == /\ s.templates[a.template] # None
                      /\ a.tradeable <=> s.templates[a.template].tradeable
<1>1. s.assets[i] # None => Good(s.assets[i])
  BY DEF FlagsFromTemplates
<1>2. CASE KeepsMarket(s, t)
  BY <1>1, <1>2 DEF KeepsMarket
<1>3. CASE RegisterStep(s, tx, t)
  <2>1. t.assets[i] = s.assets[i]
    BY <1>3 DEF RegisterStep
  <2>2. s.assets[i].template # tx.template
    BY <1>1, <1>3, <2>1 DEF RegisterStep
  <2>3. s.assets[i].template \in Template
    BY <1>0, <2>1 DEF State, AssetRec
  <2>4. t.templates[s.assets[i].template] = s.templates[s.assets[i].template]
    BY <1>0, <1>3, <2>2, <2>3 DEF RegisterStep, State
  <2> QED BY <1>1, <2>1, <2>4
<1>4. ASSUME t.templates = s.templates, Good(t.assets[i])
      PROVE  /\ t.templates[t.assets[i].template] # None
             /\ t.assets[i].tradeable <=> t.templates[t.assets[i].template].tradeable
  BY <1>4
<1>5. CASE MintStep(s, tx, t)
  <2>1. t.templates = s.templates /\ Good(t.assets[i])
    BY <1>0, <1>1, <1>5 DEF MintStep, AssetStep, State
  <2> QED BY <1>4, <2>1
<1>6. CASE BurnStep(s, tx, t)
  <2>1. t.templates = s.templates /\ t.assets[i] = s.assets[i]
    BY <1>0, <1>6 DEF BurnStep, AssetStep, State
  <2> QED BY <1>1, <1>4, <2>1
<1>7. ASSUME t.templates = s.templates,
             s.assets[i] # None,
             t.assets[i].template = s.assets[i].template,
             t.assets[i].tradeable = s.assets[i].tradeable
      PROVE  /\ t.templates[t.assets[i].template] # None
             /\ t.assets[i].tradeable <=> t.templates[t.assets[i].template].tradeable
  BY <1>1, <1>7
<1>8. s.assets[i] # None => s.assets[i] \in AssetRec
  BY <1>0 DEF State
<1>9. CASE TransferAssetStep(s, tx, t)
  <2>1. /\ t.templates = s.templates
        /\ s.assets[i] # None
        /\ t.assets[i].template = s.assets[i].template
        /\ t.assets[i].tradeable = s.assets[i].tradeable
    BY <1>0, <1>8, <1>9 DEF TransferAssetStep, OwnUnlisted, AssetStep, State, AssetRec
  <2> QED BY <1>7, <2>1
<1>10. CASE ListStep(s, tx, t)
  <2>1. /\ t.templates = s.templates
        /\ s.assets[i] # None
        /\ t.assets[i].template = s.assets[i].template
        /\ t.assets[i].tradeable = s.assets[i].tradeable
    BY <1>0, <1>8, <1>10, SMTT(30) DEF ListStep, OwnUnlisted, State, AssetRec
  <2> QED BY <1>7, <2>1
<1>11. CASE BuyStep(s, tx, t)
  <2>1. /\ t.templates = s.templates
        /\ s.assets[i] # None
        /\ t.assets[i].template = s.assets[i].template
        /\ t.assets[i].tradeable = s.assets[i].tradeable
    BY <1>0, <1>8, <1>11 DEF BuyStep, State, AssetRec
  <2> QED BY <1>7, <2>1
<1> QED BY <1>2, <1>3, <1>5, <1>6, <1>9, <1>10, <1>11
        DEF Applied, Handled, TransferStep, SessionOpenStep, SessionResultStep

-----------------------------------------------------------------------------
(* The market. *)

\* The two halves of ListingsMatchAssets, for one listing and one asset.
ListingOk(s, l) ==
    s.listings[l] # None =>
      (s.listings[l].active =>
         LET a == s.assets[s.listings[l].asset]
         IN  a # None /\ a.listing = l /\ a.owner = s.listings[l].seller /\ a.tradeable)

AssetOk(s, i) ==
    s.assets[i] # None =>
      (s.assets[i].listing # None =>
         LET l == s.listings[s.assets[i].listing]
         IN  l # None /\ l.active /\ l.asset = i)

\* ListingsMatchAssets survives every transaction.
LEMMA MarketStep ==
    ASSUME TypeOK, Numbered(st), ListingsMatchAssets, NEW tx, Applied(st, tx, st')
    PROVE  ListingsMatchAssets'
<1> DEFINE s == st
           t == st'
<1>0. s \in State /\ t \in State
  BY DEF Applied
<1>1. (\A l \in TxId : ListingOk(s, l)) /\ (\A i \in TxId : AssetOk(s, i))
  BY SMTT(30) DEF ListingsMatchAssets, ListingOk, AssetOk
<1> SUFFICES (\A l \in TxId : ListingOk(t, l)) /\ (\A i \in TxId : AssetOk(t, i))
  BY Zenon DEF ListingsMatchAssets, ListingOk, AssetOk
<1>2. \A l \in TxId : s.listings[l] # None =>
        s.listings[l] \in ListingRec /\ s.listings[l].asset \in TxId
  BY <1>0 DEF State, ListingRec
<1>3. \A i \in TxId : s.assets[i] # None =>
        s.assets[i] \in AssetRec /\ s.assets[i].listing \in TxId \cup {None}
  BY <1>0 DEF State, AssetRec
<1>4. s.assets[Id(tx)] = None /\ s.listings[Id(tx)] = None /\ Id(tx) \in TxId
  BY FreshId, NoncesGrow, SMTT(30)
<1> HIDE DEF s, t
<1>5. CASE t.assets = s.assets /\ t.listings = s.listings
  BY <1>1, <1>5 DEF ListingOk, AssetOk
<1>6. ASSUME NEW k \in TxId, NEW r \in AssetRec \cup {None},
             t.listings = s.listings,
             t.assets = [s.assets EXCEPT ![k] = r],
             s.assets[k] # None => s.assets[k].listing = None,
             r # None => r.listing = None
      PROVE  (\A l \in TxId : ListingOk(t, l)) /\ (\A i \in TxId : AssetOk(t, i))
  <2>1. \A i \in TxId : t.assets[i] = IF i = k THEN r ELSE s.assets[i]
    BY <1>0, <1>6 DEF State
  <2>2. ASSUME NEW l \in TxId PROVE ListingOk(t, l)
    <3> SUFFICES ASSUME s.listings[l] # None, s.listings[l].active
                 PROVE  t.assets[s.listings[l].asset] = s.assets[s.listings[l].asset]
      BY <1>1, <1>6 DEF ListingOk
    <3>1. s.listings[l].asset # k
      BY <1>1, <1>6, AbsentAssumption DEF ListingOk
    <3> QED BY <1>2, <2>1, <3>1
  <2>3. ASSUME NEW i \in TxId PROVE AssetOk(t, i)
    BY <1>1, <1>6, <2>1 DEF AssetOk
  <2> QED BY <2>2, <2>3
<1>7. CASE MintStep(s, tx, t)
  <2>1. PICK r : r \in AssetRec \cup {None} /\ AssetStep(s, Id(tx), r, t) /\ r.listing = None
    BY <1>0, <1>4, <1>7 DEF MintStep, AssetRec, State, TemplateRec
  <2> QED BY <1>4, <1>6, <2>1 DEF AssetStep
<1>8. CASE BurnStep(s, tx, t)
  BY <1>6, <1>8 DEF BurnStep, AssetStep, OwnUnlisted
<1>9. CASE TransferAssetStep(s, tx, t)
  <2> DEFINE r == [s.assets[tx.asset] EXCEPT !.owner = tx.to]
  <2>1. tx.asset \in TxId /\ s.assets[tx.asset] \in AssetRec /\ s.assets[tx.asset].listing = None
    BY <1>3, <1>9 DEF TransferAssetStep, OwnUnlisted, AssetStep
  <2>2. r \in AssetRec /\ r.listing = None
    BY <1>9, <2>1 DEF TransferAssetStep, AssetRec
  <2>3. t.listings = s.listings /\ t.assets = [s.assets EXCEPT ![tx.asset] = r]
    BY <1>9 DEF TransferAssetStep, AssetStep
  <2> HIDE DEF r
  <2> QED BY <1>6, <2>1, <2>2, <2>3
<1>10. CASE ListStep(s, tx, t)
  <2> DEFINE k == tx.asset
             new == [asset |-> k, seller |-> tx.from, price |-> tx.amount, active |-> TRUE]
             r == [s.assets[k] EXCEPT !.listing = Id(tx)]
  <2>1. /\ k \in TxId
        /\ s.assets[k] \in AssetRec
        /\ s.assets[k].listing = None
        /\ s.assets[k].owner = tx.from
        /\ s.assets[k].tradeable
    BY <1>3, <1>10 DEF ListStep, OwnUnlisted
  <2>2. /\ r \in AssetRec
        /\ r.listing = Id(tx) /\ r.owner = tx.from /\ r.tradeable
    BY <1>4, <2>1 DEF AssetRec
  <2>3. new # None
    <3>1. new \in ListingRec
      BY <1>10, <2>1 DEF ListStep, ListingRec, Applied, Signed
    <3> QED BY <3>1, AbsentAssumption, Zenon
  <2>4. /\ new.asset = k /\ new.seller = tx.from /\ new.active
        /\ r # None
    BY <2>2, AbsentAssumption
  <2>5. \A i \in TxId : /\ t.assets[i] = IF i = k THEN r ELSE s.assets[i]
                        /\ t.listings[i] = IF i = Id(tx) THEN new ELSE s.listings[i]
    BY <1>0, <1>4, <1>10, <2>1 DEF ListStep, State
  <2> HIDE DEF r, new, k
  <2>6. ASSUME NEW l \in TxId PROVE ListingOk(t, l)
    <3>1. CASE l = Id(tx)
      BY <2>1, <2>2, <2>3, <2>4, <2>5, <3>1 DEF ListingOk
    <3>2. CASE l # Id(tx)
      <4>1. t.listings[l] = s.listings[l]
        BY <2>5, <3>2
      <4> SUFFICES ASSUME s.listings[l] # None, s.listings[l].active
                   PROVE  t.assets[s.listings[l].asset] = s.assets[s.listings[l].asset]
        BY <1>1, <4>1 DEF ListingOk
      <4>2. s.listings[l].asset # k
        BY <1>1, <2>1, AbsentAssumption DEF ListingOk
      <4> QED BY <1>2, <2>5, <4>2
    <3> QED BY <3>1, <3>2
  <2>7. ASSUME NEW i \in TxId PROVE AssetOk(t, i)
    <3>1. CASE i = k
      BY <1>4, <2>2, <2>3, <2>4, <2>5, <3>1 DEF AssetOk
    <3>2. CASE i # k
      <4>1. t.assets[i] = s.assets[i]
        BY <2>5, <3>2
      <4> SUFFICES ASSUME s.assets[i] # None, s.assets[i].listing # None
                   PROVE  t.listings[s.assets[i].listing] = s.listings[s.assets[i].listing]
        BY <1>1, <4>1 DEF AssetOk
      <4>2. s.assets[i].listing \in TxId /\ s.assets[i].listing # Id(tx)
        BY <1>1, <1>3, <1>4, SMTT(30) DEF AssetOk
      <4> QED BY <2>5, <4>2
    <3> QED BY <3>1, <3>2
  <2> QED BY <2>6, <2>7
<1>11. CASE BuyStep(s, tx, t)
  <2> DEFINE sold == s.listings[tx.listing]
             k == sold.asset
             r == [s.assets[k] EXCEPT !.owner = tx.from, !.listing = None]
             closed == [sold EXCEPT !.active = FALSE]
  <2>1. /\ tx.listing \in TxId /\ sold # None /\ sold.active
        /\ sold \in ListingRec /\ k \in TxId
        /\ s.assets[k] \in AssetRec
    BY <1>2, <1>3, <1>11 DEF BuyStep
  <2>2. r.listing = None /\ ~closed.active
    BY <2>1 DEF AssetRec, ListingRec
  <2>3. \A i \in TxId : /\ t.assets[i] = IF i = k THEN r ELSE s.assets[i]
                        /\ t.listings[i] = IF i = tx.listing THEN closed ELSE s.listings[i]
    BY <1>0, <1>11, <2>1 DEF BuyStep, State
  <2>4. s.assets[k].listing = tx.listing
    BY <1>1, <2>1 DEF ListingOk
  <2> HIDE DEF r, closed, k
  <2>5. ASSUME NEW l \in TxId PROVE ListingOk(t, l)
    <3>1. CASE l = tx.listing
      BY <2>2, <2>3, <3>1 DEF ListingOk
    <3>2. CASE l # tx.listing
      <4>1. t.listings[l] = s.listings[l]
        BY <2>3, <3>2
      <4> SUFFICES ASSUME s.listings[l] # None, s.listings[l].active
                   PROVE  t.assets[s.listings[l].asset] = s.assets[s.listings[l].asset]
        BY <1>1, <4>1 DEF ListingOk
      <4>2. s.listings[l].asset # k
        BY <1>1, <2>4, <3>2 DEF ListingOk
      <4> QED BY <1>2, <2>3, <4>2
    <3> QED BY <3>1, <3>2
  <2>6. ASSUME NEW i \in TxId PROVE AssetOk(t, i)
    <3>1. CASE i = k
      BY <2>2, <2>3, <3>1 DEF AssetOk
    <3>2. CASE i # k
      <4>1. t.assets[i] = s.assets[i]
        BY <2>3, <3>2
      <4> SUFFICES ASSUME s.assets[i] # None, s.assets[i].listing # None
                   PROVE  t.listings[s.assets[i].listing] = s.listings[s.assets[i].listing]
        BY <1>1, <4>1 DEF AssetOk
      <4>2. s.assets[i].listing \in TxId /\ s.assets[i].listing # tx.listing
        BY <1>1, <1>3, <3>2 DEF AssetOk, k
      <4> QED BY <2>3, <4>2
    <3> QED BY <3>1, <3>2
  <2> QED BY <2>5, <2>6
<1> QED BY <1>5, <1>7, <1>8, <1>9, <1>10, <1>11
        DEF Applied, Handled, TransferStep, RegisterStep, SessionOpenStep,
            SessionResultStep, KeepsMarket, s, t

-----------------------------------------------------------------------------
(* The token supply. *)

\* What the sessions hold, session by session.
Escrows(s) == [i \in SessionId |-> Escrow(s.sessions[i])]

\* A session holds a natural number of tokens.
LEMMA EscrowType ==
    ASSUME NEW s \in State
    PROVE  /\ Escrows(s) \in [SessionId -> Nat]
           /\ Escrows(s) \in [SessionId -> Int]
           /\ SumFunction(Escrows(s)) \in Nat
           /\ SumFunction(s.balance) \in Nat
<1>1. ASSUME NEW i \in SessionId PROVE Escrow(s.sessions[i]) \in Nat
  <2>1. CASE s.sessions[i] = None
    BY <2>1 DEF Escrow
  <2>2. CASE s.sessions[i] # None
    <3>1. s.sessions[i] \in SessionRec
      BY <2>2 DEF State
    <3>2. s.sessions[i].stakes \in Nat /\ Len(s.sessions[i].players) \in Nat
      BY <3>1, UintAssumption DEF SessionRec, Uint64
    <3>3. s.sessions[i].stakes * Len(s.sessions[i].players) \in Nat
      BY <3>2
    <3> QED BY <2>2, <3>3 DEF Escrow
  <2> QED BY <2>1, <2>2
<1>2. Escrows(s) \in [SessionId -> Nat] /\ Escrows(s) \in [SessionId -> Int]
  BY <1>1 DEF Escrows
<1>3. s.balance \in [Address -> Nat]
  BY UintAssumption DEF State, Uint64
<1> QED BY <1>2, <1>3, AddressFacts, FiniteAssumption, SumOfFunction, Zenon

\* No transaction changes what accounts and sessions hold together.
LEMMA TokensStep ==
    ASSUME NEW s, NEW tx, NEW t, Applied(s, tx, t)
    PROVE  Supply(t) + SumFunction(Escrows(t)) = Supply(s) + SumFunction(Escrows(s))
<1>0. s \in State /\ t \in State
  BY DEF Applied
<1>1. /\ Supply(s) \in Int /\ Supply(t) \in Int
      /\ SumFunction(Escrows(s)) \in Int
      /\ Escrows(s) \in [SessionId -> Int]
  BY <1>0, EscrowType DEF Supply
<1>2. CASE KeepsTokens(s, t)
  <2>1. Escrows(t) = Escrows(s)
    BY <1>2 DEF KeepsTokens, Escrows
  <2> QED BY <1>2, <2>1 DEF KeepsTokens
<1>3. CASE SessionOpenStep(s, tx, t)
  <2> DEFINE i == tx.session
             v == tx.amount * Len(tx.players)
             sess == [creator |-> tx.from, players |-> tx.players,
                      stakes |-> tx.amount, status |-> "open"]
  <2>1. /\ i \in SessionId
        /\ s.sessions[i] = None
        /\ t.sessions = [s.sessions EXCEPT ![i] = sess]
        /\ Supply(t) = Supply(s) - v
    BY <1>3 DEF SessionOpenStep
  <2>2. v \in Int
    BY <1>3, UintAssumption DEF SessionOpenStep, Uint64
  <2>3. Escrow(sess) = v
    <3>1. sess \in SessionRec
      BY <1>3 DEF SessionOpenStep, SessionRec, Applied, Signed
    <3>2. sess # None
      BY <3>1, AbsentAssumption
    <3> QED BY <3>2 DEF Escrow
  <2> HIDE DEF v, sess, i
  <2>4. Escrows(t) = [Escrows(s) EXCEPT ![i] = v] /\ Escrows(s)[i] = 0
    <3>1. t.sessions[i] = sess /\ \A k \in SessionId \ {i} : t.sessions[k] = s.sessions[k]
      BY <1>0, <2>1 DEF State
    <3>2. Escrow(s.sessions[i]) = 0
      BY <2>1 DEF Escrow
    <3> QED BY <2>1, <2>3, <3>1, <3>2, Zenon DEF Escrows
  <2>5. SumFunction([Escrows(s) EXCEPT ![i] = v])
          = SumFunction(Escrows(s)) - Escrows(s)[i] + v
    <3>1. IsFiniteSet(SessionId) /\ Escrows(s) \in [SessionId -> Int] /\ i \in SessionId
      BY <1>1, <2>1, FiniteAssumption
    <3> QED BY <2>2, <3>1, SumExcept, Zenon
  <2> QED BY <1>1, <2>1, <2>2, <2>4, <2>5
<1>4. CASE SessionResultStep(s, tx, t)
  <2> DEFINE i == tx.session
             sess == s.sessions[i]
             closed == [sess EXCEPT !.status = "closed"]
  <2>1. /\ i \in SessionId
        /\ sess # None
        /\ sess.status = "open"
        /\ t.sessions = [s.sessions EXCEPT ![i] = closed]
        /\ Supply(t) = Supply(s) + sess.stakes * Len(sess.players)
    BY <1>4 DEF SessionResultStep
  <2>2. Escrow(sess) = sess.stakes * Len(sess.players)
    BY <2>1 DEF Escrow
  <2>3. sess \in SessionRec
    BY <1>0, <2>1 DEF State
  <2>0. PICK v \in Int : v = 0
    OBVIOUS
  <2>4. Escrow(closed) = v
    BY <2>0, <2>3 DEF Escrow, SessionRec
  <2> HIDE DEF sess, closed, i
  <2>5. Escrows(t) = [Escrows(s) EXCEPT ![i] = v] /\ Escrows(s)[i] = Escrow(sess)
    <3>1. t.sessions[i] = closed /\ \A k \in SessionId \ {i} : t.sessions[k] = s.sessions[k]
      BY <1>0, <2>1 DEF State
    <3> QED BY <2>1, <2>4, <3>1, Zenon DEF Escrows, sess
  <2>6. SumFunction([Escrows(s) EXCEPT ![i] = v])
          = SumFunction(Escrows(s)) - Escrows(s)[i] + v
    <3>1. IsFiniteSet(SessionId) /\ Escrows(s) \in [SessionId -> Int] /\ i \in SessionId
      BY <1>1, <2>1, FiniteAssumption
    <3> QED BY <3>1, SumExcept, Zenon
  <2>7. Escrows(s)[i] \in Int
    BY <1>1, <2>1
  <2>8. SumFunction(Escrows(t)) = SumFunction(Escrows(s)) - Escrows(s)[i]
    BY <1>1, <2>0, <2>5, <2>6, <2>7
  <2>9. Supply(t) = Supply(s) + Escrows(s)[i]
    BY <2>1, <2>2, <2>5
  <2> QED BY <1>1, <2>7, <2>8, <2>9
<1> QED BY <1>2, <1>3, <1>4, Zenon
        DEF Applied, Handled, TransferStep, RegisterStep, MintStep, BurnStep, AssetStep,
            TransferAssetStep, ListStep, BuyStep

\* A session is opened once and then at most closed; closing it pays its stakes
\* out.
LEMMA SessionStep ==
    ASSUME NEW s, NEW tx, NEW t, Applied(s, tx, t), NEW i \in SessionId
    PROVE  s.sessions[i] # None =>
             \/ t.sessions[i] = s.sessions[i]
             \/ /\ s.sessions[i].status = "open"
                /\ t.sessions[i] = [s.sessions[i] EXCEPT !.status = "closed"]
                /\ Supply(t) = Supply(s) + Escrow(s.sessions[i])
<1>0. s \in State /\ t \in State
  BY DEF Applied
<1>2. CASE KeepsTokens(s, t)
  BY <1>2 DEF KeepsTokens
<1>3. CASE SessionOpenStep(s, tx, t)
  BY <1>0, <1>3 DEF SessionOpenStep, State
<1>4. CASE SessionResultStep(s, tx, t)
  BY <1>0, <1>4, Zenon DEF SessionResultStep, State, Escrow
<1> QED BY <1>2, <1>3, <1>4, Zenon
        DEF Applied, Handled, TransferStep, RegisterStep, MintStep, BurnStep, AssetStep,
            TransferAssetStep, ListStep, BuyStep

\* A session is opened with players.
LEMMA OpenedWithPlayers ==
    ASSUME NEW s, NEW tx, NEW t, Applied(s, tx, t), NEW i \in SessionId,
           s.sessions[i] = None, t.sessions[i] # None
    PROVE  t.sessions[i].players # << >>
<1>0. s \in State /\ t \in State
  BY DEF Applied
<1>1. SessionOpenStep(s, tx, t) \/ SessionResultStep(s, tx, t)
  BY Zenon DEF Applied, Handled, KeepsTokens, TransferStep, RegisterStep, MintStep, BurnStep,
         AssetStep, TransferAssetStep, ListStep, BuyStep
<1>2. ~SessionResultStep(s, tx, t)
  BY <1>0 DEF SessionResultStep, State
<1> QED BY <1>0, <1>1, <1>2 DEF SessionOpenStep, State
=============================================================================
