------------------------------ MODULE VMProofs ------------------------------
(***************************************************************************)
(* Proofs about VM: whatever transactions are executed, in whatever order, *)
(* the market, the assets and the token supply stay consistent.  And about *)
(* Indexer, which adds blocks and the index to the same transactions: the  *)
(* index follows every change that it hears of.                            *)
(***************************************************************************)
EXTENDS Indexer, VMSteps

-----------------------------------------------------------------------------
(* The inductive invariant of VM. *)

\* A session has players.
SessionsHavePlayers ==
    \A i \in SessionId : st.sessions[i] # None => st.sessions[i].players # << >>

IInv ==
    /\ TypeOK
    /\ Numbered(st)
    /\ FlagsFromTemplates
    /\ ListingsMatchAssets
    /\ SessionsHavePlayers
    /\ Conservation

-----------------------------------------------------------------------------
(* The invariant holds. *)

\* A new chain: accounts have the genesis balances and nothing else is there.
LEMMA InitHolds == Init => IInv
<1> SUFFICES ASSUME Init PROVE IInv
  OBVIOUS
<1>1. /\ genesis \in [Address -> Uint64]
      /\ \A a \in Account : 0 \in 0 .. MaxNonce
  BY UintAssumption DEF Init, Uint64
<1>2. /\ st.balance = genesis
      /\ \A i \in TxId : st.assets[i] = None /\ st.listings[i] = None
      /\ \A i \in SessionId : st.sessions[i] = None
  BY DEF Init
<1>3. TypeOK
  BY <1>1 DEF Init, TypeOK, State
<1>4. Numbered(st) /\ FlagsFromTemplates /\ ListingsMatchAssets /\ SessionsHavePlayers
  BY <1>2 DEF Numbered, FlagsFromTemplates, ListingsMatchAssets, SessionsHavePlayers
<1>5. Conservation
  <2>1. \A i \in SessionId : Escrows(st)[i] = 0
    BY <1>2 DEF Escrows, Escrow
  <2>2. SumFunctionOnSet(Escrows(st), SessionId) = 0
    BY <2>1, FiniteAssumption, SumTrivial
  <2>3. SumFunction(Escrows(st)) = 0 /\ SumFunction(st.balance) \in Nat
    <3>1. Escrows(st) \in [SessionId -> Int] /\ SumFunction(st.balance) \in Nat
      BY <1>3, EscrowType DEF TypeOK
    <3> QED BY <2>2, <3>1, FiniteAssumption, SumOfFunction
  <2> QED BY <1>2, <2>3 DEF Conservation, Escrows
<1> QED BY <1>3, <1>4, <1>5 DEF IInv

\* Every step keeps it.
LEMMA StepHolds == IInv /\ [Next]_vars => IInv'
<1> SUFFICES ASSUME IInv, [Next]_vars PROVE IInv'
  OBVIOUS
<1>0. TypeOK
  BY DEF IInv
<1>1. genesis' = genesis /\ (st' = st \/ \E tx : Applied(st, tx, st'))
  BY <1>0, NextStep, SMTT(30)
<1>2. CASE st' = st
  BY <1>1, <1>2 DEF IInv, TypeOK, Numbered, FlagsFromTemplates, ListingsMatchAssets,
                    SessionsHavePlayers, Conservation
<1>3. ASSUME NEW tx, Applied(st, tx, st') PROVE IInv'
  <2>1. TypeOK'
    BY <1>0, <1>1, <1>3 DEF TypeOK, Applied
  <2>2. Numbered(st')
    BY <1>0, <1>3, NumberedStep DEF IInv
  <2>3. FlagsFromTemplates'
    BY <1>0, <1>3, FlagsStep DEF IInv
  <2>4. ListingsMatchAssets'
    BY <1>0, <1>3, MarketStep DEF IInv
  <2>5. SessionsHavePlayers'
    <3> SUFFICES ASSUME NEW i \in SessionId, st'.sessions[i] # None
                 PROVE  st'.sessions[i].players # << >>
      BY DEF SessionsHavePlayers
    <3>1. CASE st.sessions[i] = None
      BY <1>3, <3>1, OpenedWithPlayers
    <3>2. CASE st.sessions[i] # None
      <4>1. st.sessions[i] \in SessionRec /\ st.sessions[i].players # << >>
        BY <1>0, <3>2 DEF TypeOK, State, IInv, SessionsHavePlayers
      <4>2. \/ st'.sessions[i] = st.sessions[i]
            \/ st'.sessions[i] = [st.sessions[i] EXCEPT !.status = "closed"]
        BY <1>3, <3>2, SessionStep
      <4> QED BY <4>1, <4>2 DEF SessionRec
    <3> QED BY <3>1, <3>2
  <2>6. Conservation'
    <3>1. Supply(st') + SumFunction(Escrows(st')) = Supply(st) + SumFunction(Escrows(st))
      BY <1>3, TokensStep
    <3>2. Supply(st) + SumFunction(Escrows(st)) = SumFunction(genesis)
      BY DEF IInv, Conservation, Supply, Escrows
    <3>3. SumFunction(genesis') = SumFunction(genesis)
      BY <1>1
    <3>4. Supply(st') + SumFunction(Escrows(st')) = SumFunction(genesis')
      BY <3>1, <3>2, <3>3
    <3> QED BY <3>4 DEF Conservation, Supply, Escrows
  <2> QED BY <2>1, <2>2, <2>3, <2>4, <2>5, <2>6 DEF IInv
<1> QED BY <1>1, <1>2, <1>3

\* The inductive invariant holds in every reachable state.
THEOREM Invariant == Spec => []IInv
<1> QED BY InitHolds, StepHolds, PTL DEF Spec

\* The state stays well typed: no balance leaves the range of a uint64, no
\* asset belongs to anything but an account (vm/modules, executor.go).
THEOREM TypesHold == Spec => []TypeOK
<1>1. IInv => TypeOK
  BY DEF IInv
<1> QED BY <1>1, Invariant, PTL

\* Listings and assets agree, for any accounts, nonces and transactions
\* (market.go, asset.go).
THEOREM MarketIsConsistent == Spec => []ListingsMatchAssets
<1>1. IInv => ListingsMatchAssets
  BY DEF IInv
<1> QED BY <1>1, Invariant, PTL

\* Accounts and open sessions always hold the genesis supply, however many
\* accounts and sessions there are (executor.go, token.go, market.go,
\* session.go).
THEOREM TokensAreConserved == Spec => []Conservation
<1>1. IInv => Conservation
  BY DEF IInv
<1> QED BY <1>1, Invariant, PTL

-----------------------------------------------------------------------------
(* Stakes. *)

\* session.go's overflow test: the product fits exactly when the test passes.
LEMMA NoOverflow ==
    ASSUME NEW sess \in SessionRec, sess.stakes * Len(sess.players) <= MaxUint64
    PROVE  ~StakesOverflow(sess)
<1> DEFINE k == sess.stakes
           n == Len(sess.players)
           q == MaxUint64 \div k
<1>1. k \in Nat /\ n \in Nat /\ MaxUint64 \in Nat
  BY UintAssumption DEF SessionRec, Uint64
<1> SUFFICES ASSUME k > 0 PROVE ~(n > q)
  BY DEF StakesOverflow
<1>2. k * n <= MaxUint64
  OBVIOUS
<1> HIDE DEF k, n
<1>3. q \in Int /\ MaxUint64 < k * (q + 1)
  BY <1>1
<1> HIDE DEF q
<1>4. ASSUME n >= q + 1 PROVE FALSE
  <2>1. k * n >= k * (q + 1)
    BY <1>1, <1>3, <1>4
  <2>2. k * n \in Int /\ k * (q + 1) \in Int
    BY <1>1, <1>3
  <2> QED BY <1>1, <1>2, <1>3, <2>1, <2>2
<1> QED BY <1>1, <1>3, <1>4

\* An open session can always be settled: all of it to the first player.
LEMMA Settled == IInv => StakesRecoverable
<1> SUFFICES ASSUME IInv, SumFunction(genesis) <= MaxUint64, NEW i \in SessionId,
                    st.sessions[i] # None, st.sessions[i].status = "open"
             PROVE  \E outcome \in UNION {[P -> Uint64] : P \in SUBSET Address} :
                      ~handleSessionResult(st, ResultTx(i, outcome)).err
  BY DEF StakesRecoverable
<1> DEFINE sess == st.sessions[i]
           e == sess.stakes * Len(sess.players)
           x == sess.players[1]
           o == [a \in {x} |-> e]
<1>1. /\ st \in State
      /\ sess \in SessionRec
      /\ sess.players # << >>
      /\ sess.players \in Seq(Address)
  BY DEF IInv, TypeOK, State, SessionsHavePlayers, SessionRec
<1>2. x \in Address /\ x \in Range(sess.players)
  BY <1>1 DEF Range
<1>3. Supply(st) + SumFunction(Escrows(st)) <= MaxUint64
  BY DEF IInv, Conservation, Supply, Escrows
<1>4. e = Escrows(st)[i]
  BY DEF Escrows, Escrow
<1>5. e \in Nat /\ e <= SumFunction(Escrows(st)) /\ SumFunction(Escrows(st)) \in Nat
  BY <1>1, <1>4, EscrowType, FiniteAssumption, SumBound
<1>6. st.balance[x] \in Nat /\ st.balance[x] <= Supply(st) /\ Supply(st) \in Nat
  <2>1. st.balance \in [Address -> Nat]
    BY <1>1, UintAssumption DEF State, Uint64
  <2>2. SumFunction(st.balance) \in Nat
    BY <1>1, EscrowType
  <2> QED BY <1>2, <2>1, <2>2, AddressFacts, SumBound DEF Supply
<1> HIDE DEF e, x
<1>7. st.balance[x] + e <= MaxUint64 /\ e \in Uint64
  BY <1>3, <1>5, <1>6, UintAssumption DEF Uint64
<1>8. ~StakesOverflow(sess)
  BY <1>1, <1>5, <1>7, NoOverflow, UintAssumption DEF e, Uint64
<1>9. SumFunction(o) = e
  <2>1. IsFiniteSet({x}) /\ o \in [{x} -> Int] /\ o[x] = e /\ e \in Int
    <3>1. IsFiniteSet({x})
      BY FS_Singleton, Zenon
    <3>2. e \in Int
      BY <1>5
    <3> QED BY <3>1, <3>2
  <2> HIDE DEF o
  <2>2. SumFunction(o) = SumFunctionOnSet(o, {x})
    BY <2>1, SumOfFunction
  <2>3. SumFunctionOnSet(o, {x}) = o[x]
    <3>1. o[x] \in Int /\ x \in {x}
      BY <2>1
    <3> QED BY <2>1, <3>1, SumTrivial
  <2> QED BY <2>1, <2>2, <2>3
<1>10. o \in UNION {[P -> Uint64] : P \in SUBSET Address}
  <2>1. o \in [{x} -> Uint64] /\ {x} \in SUBSET Address
    BY <1>2, <1>7
  <2> HIDE DEF o
  <2> QED BY <2>1
<1>11. DOMAIN o = {x} /\ o[x] = e
  OBVIOUS
<1> HIDE DEF o
<1>12. ~handleSessionResult(st, ResultTx(i, o)).err
  <2> DEFINE tx == ResultTx(i, o)
  <2>1. tx.session = i /\ tx.from = sess.creator /\ tx.outcome = o
    BY DEF ResultTx
  <2> HIDE DEF tx
  <2>2. i # None
    BY NoneAssumption
  <2>3. ~(\E a \in DOMAIN o : st.balance[a] > MaxUint64 - o[a])
    BY <1>5, <1>6, <1>7, <1>11, UintAssumption
  <2>4. DOMAIN o \subseteq Range(sess.players)
    BY <1>2, <1>11
  <2>5. ~handleSessionResult(st, tx).err
    BY <1>8, <1>9, <2>1, <2>2, <2>3, <2>4 DEF handleSessionResult, Ok, e
  <2> QED BY <2>5 DEF tx
<1> QED BY <1>10, <1>12

\* Unless genesis hands out more than a uint64 can count, every open session
\* has an outcome its creator can submit, whatever the players' balances
\* (session.go handleSessionResult).
THEOREM StakesComeBack == Spec => []StakesRecoverable
<1> QED BY Settled, Invariant, PTL

-----------------------------------------------------------------------------
(* What a step never does. *)

\* A step of the specification, with the invariant before it.
LEMMA StepOrStutter ==
    ASSUME IInv, [Next]_vars
    PROVE  st' = st \/ \E tx : Applied(st, tx, st')
  BY NextStep DEF IInv

\* An asset that is gone stays gone (executor.go applyTx's nonce check,
\* asset.go).
THEOREM NothingReturns == Spec => BurnedForever
<1>1. ASSUME IInv, [Next]_vars, NEW i \in TxId, st.assets[i] = None, st.nonce[i[1]] > i[2]
      PROVE  st'.assets[i] = None
  <2>1. CASE st' = st
    BY <1>1, <2>1
  <2>2. ASSUME NEW tx, Applied(st, tx, st') PROVE st'.assets[i] = None
    <3>1. Id(tx)[2] = st.nonce[Id(tx)[1]]
      BY <2>2, NoncesGrow
    <3>2. i[2] \in Int
      BY IdParts
    <3>3. i # Id(tx)
      BY <1>1, <3>1, <3>2
    <3> QED BY <1>1, <2>2, <3>3, OneNewId
  <2> QED BY <1>1, <2>1, <2>2, StepOrStutter
<1>2. IInv /\ [Next]_vars =>
        [\A i \in TxId :
           st.assets[i] = None /\ st.nonce[i[1]] > i[2] => st'.assets[i] = None]_vars
  BY <1>1
<1> QED BY <1>2, Invariant, PTL DEF Spec, BurnedForever

\* A session is never opened twice or paid out twice (session.go).
THEOREM ClosedOnce == Spec => SessionsCloseOnce
<1>1. ASSUME IInv, [Next]_vars, NEW i \in SessionId, st.sessions[i] # None
      PROVE  \/ st'.sessions[i] = st.sessions[i]
             \/ /\ st.sessions[i].status = "open"
                /\ st'.sessions[i] = [st.sessions[i] EXCEPT !.status = "closed"]
                /\ SumFunction(st'.balance) =
                     SumFunction(st.balance) + Escrow(st.sessions[i])
  <2>1. CASE st' = st
    BY <2>1
  <2>2. CASE \E tx : Applied(st, tx, st')
    BY <1>1, <2>2, SessionStep DEF Supply
  <2> QED BY <1>1, <2>1, <2>2, StepOrStutter
<1>2. IInv /\ [Next]_vars =>
        [\A i \in SessionId :
           st.sessions[i] # None =>
             \/ st'.sessions[i] = st.sessions[i]
             \/ /\ st.sessions[i].status = "open"
                /\ st'.sessions[i] = [st.sessions[i] EXCEPT !.status = "closed"]
                /\ SumFunction(st'.balance) =
                     SumFunction(st.balance) + Escrow(st.sessions[i])]_vars
  BY <1>1, SMTT(30)
<1> QED BY <1>2, Invariant, PTL DEF Spec, SessionsCloseOnce

\* When an asset gets another owner it was tradeable, and when it was listed
\* it was sold: the buyer paid its owner the price.
LEMMA OwnersChange ==
    ASSUME IInv, NEW tx, Applied(st, tx, st'), NEW i \in TxId, st.assets[i] # None,
           st'.assets[i] # st.assets[i]
    PROVE  LET a == st.assets[i]
           IN  /\ st'.assets[i] # None =>
                    st'.assets[i].owner = a.owner \/ a.tradeable
               /\ a.listing # None =>
                    /\ st'.assets[i] # None
                    /\ st'.balance[a.owner] >= st.balance[a.owner] + st.listings[a.listing].price
<1> DEFINE s == st
           t == st'
           a == s.assets[i]
<1>0. s \in State /\ t \in State /\ a \in AssetRec
  BY DEF Applied, State
<1>1. s.assets[Id(tx)] = None
  BY FreshId, SMTT(30) DEF IInv
<1>2. \A l \in TxId : ListingOk(s, l)
  BY DEF IInv, ListingsMatchAssets, ListingOk
<1>3. t.assets[i] # s.assets[i] /\ a # None
  OBVIOUS
<1> SUFFICES /\ t.assets[i] # None => t.assets[i].owner = a.owner \/ a.tradeable
             /\ a.listing # None =>
                  /\ t.assets[i] # None
                  /\ t.balance[a.owner] >= s.balance[a.owner] + s.listings[a.listing].price
  OBVIOUS
<1> HIDE DEF s, t
<1>4. t.assets # s.assets
  BY <1>3
<1>5. CASE MintStep(s, tx, t)
  BY <1>0, <1>1, <1>3, <1>5 DEF MintStep, AssetStep, State
<1>6. CASE BurnStep(s, tx, t)
  <2>1. i = tx.asset
    BY <1>0, <1>3, <1>6 DEF BurnStep, AssetStep, State
  <2>2. t.assets[i] = None
    BY <1>0, <1>6, <2>1 DEF BurnStep, AssetStep, State
  <2> QED BY <1>6, <2>1, <2>2 DEF BurnStep, OwnUnlisted
<1>7. CASE TransferAssetStep(s, tx, t)
  <2>1. i = tx.asset
    BY <1>0, <1>3, <1>7, SMTT(30) DEF TransferAssetStep, AssetStep, State
  <2> QED BY <1>7, <2>1 DEF TransferAssetStep, OwnUnlisted
<1>8. CASE ListStep(s, tx, t)
  <2>1. i = tx.asset
    BY <1>0, <1>3, <1>8 DEF ListStep, State
  <2> QED BY <1>8, <2>1 DEF ListStep, OwnUnlisted
<1>9. CASE BuyStep(s, tx, t)
  <2> DEFINE l == s.listings[tx.listing]
  <2>1. tx.listing \in TxId /\ l # None /\ l.active
    BY <1>9 DEF BuyStep
  <2>2. l.asset \in TxId
    BY <1>0, <2>1 DEF State, ListingRec
  <2>3. i = l.asset
    BY <1>0, <1>3, <1>9, <2>2 DEF BuyStep, State
  <2>4. a.listing = tx.listing /\ a.owner = l.seller /\ a.tradeable
    BY <1>2, <2>1, <2>3, Zenon DEF ListingOk
  <2>5. t.assets[i] # None
    <3>1. t.assets[i] = [a EXCEPT !.owner = tx.from, !.listing = None]
      BY <1>0, <1>9, <2>2, <2>3, Zenon DEF BuyStep, State
    <3>2. tx.from \in Account
      BY DEF Applied, Signed
    <3>3. t.assets[i] \in AssetRec
      BY <1>0, <3>1, <3>2, ZenonT(30) DEF AssetRec
    <3> QED BY <3>3, AbsentAssumption
  <2>6. t.balance[l.seller] >= s.balance[l.seller] + l.price
    BY <1>9 DEF BuyStep
  <2> QED BY <2>4, <2>5, <2>6, SMTT(30)
<1> QED BY <1>4, <1>5, <1>6, <1>7, <1>8, <1>9
        DEF Applied, Handled, TransferStep, RegisterStep, SessionOpenStep, SessionResultStep,
            KeepsMarket, s, t

\* An asset of a non-tradeable template never changes hands (asset.go
\* handleTransferAsset, market.go handleListMarket).
THEOREM NonTradeableIsBound == Spec => NonTradeableStays
<1>1. ASSUME IInv, [Next]_vars, NEW i \in TxId, st.assets[i] # None, st'.assets[i] # None,
             ~st.templates[st.assets[i].template].tradeable
      PROVE  st'.assets[i].owner = st.assets[i].owner
  <2>1. ~st.assets[i].tradeable
    BY <1>1 DEF IInv, FlagsFromTemplates
  <2>2. CASE st'.assets[i] = st.assets[i]
    BY <2>2
  <2>3. CASE st'.assets[i] # st.assets[i]
    <3>1. PICK tx : Applied(st, tx, st')
      BY <1>1, <2>3, StepOrStutter
    <3> QED BY <1>1, <2>1, <2>3, <3>1, OwnersChange
  <2> QED BY <2>2, <2>3
<1>2. IInv /\ [Next]_vars =>
        [\A i \in TxId :
           /\ st.assets[i] # None
           /\ st'.assets[i] # None
           /\ ~st.templates[st.assets[i].template].tradeable
           => st'.assets[i].owner = st.assets[i].owner]_vars
  BY <1>1
<1> QED BY <1>2, Invariant, PTL DEF Spec, NonTradeableStays

\* A seller who loses a listed asset has been paid for it (market.go
\* handleBuyMarket).
THEOREM SellersArePaid == Spec => SalesArePaid
<1>1. ASSUME IInv, [Next]_vars, NEW i \in TxId, st.assets[i] # None,
             st.assets[i].listing # None, st'.assets[i] # st.assets[i]
      PROVE  /\ st'.assets[i] # None
             /\ st'.balance[st.assets[i].owner] >=
                  st.balance[st.assets[i].owner] + st.listings[st.assets[i].listing].price
  <2>1. PICK tx : Applied(st, tx, st')
    BY <1>1, StepOrStutter
  <2> QED BY <1>1, <2>1, OwnersChange
<1>2. IInv /\ [Next]_vars =>
        [\A i \in TxId :
           LET a == st.assets[i]
           IN  /\ a # None
               /\ a.listing # None
               /\ st'.assets[i] # a
               => /\ st'.assets[i] # None
                  /\ st'.balance[a.owner] >=
                       st.balance[a.owner] + st.listings[a.listing].price]_vars
  BY <1>1
<1> QED BY <1>2, Invariant, PTL DEF Spec, SalesArePaid

-----------------------------------------------------------------------------
(* The lists of the index. *)

\* addToList makes the element present and repeats none.
LEMMA AddToList ==
    ASSUME NEW E, NEW s \in Seq(E), NEW x \in E
    PROVE  /\ addToList(s, x) \in Seq(E)
           /\ Range(addToList(s, x)) = Range(s) \cup {x}
           /\ IsInjective(s) => IsInjective(addToList(s, x))
<1>1. CASE x \in Range(s)
  BY <1>1 DEF addToList
<1>2. CASE x \notin Range(s)
  <2>1. addToList(s, x) = Append(s, x)
    BY <1>2 DEF addToList
  <2>2. /\ Append(s, x) \in Seq(E)
        /\ Len(s) \in Nat /\ DOMAIN s = 1 .. Len(s)
        /\ DOMAIN Append(s, x) = 1 .. Len(s) + 1
        /\ \A j \in 1 .. Len(s) : Append(s, x)[j] = s[j]
        /\ Append(s, x)[Len(s) + 1] = x
    OBVIOUS
  <2> DEFINE t == Append(s, x)
  <2> HIDE DEF t
  <2>3. Range(t) = Range(s) \cup {x}
    BY <2>2 DEF Range, t
  <2>4. IsInjective(s) => IsInjective(t)
    BY <1>2, <2>2 DEF IsInjective, Range, t
  <2> QED BY <2>1, <2>2, <2>3, <2>4 DEF t
<1> QED BY <1>1, <1>2

\* removeFromList makes it absent and leaves the others.
LEMMA RemoveFromList ==
    ASSUME NEW E, NEW s \in Seq(E), NEW x
    PROVE  /\ removeFromList(s, x) \in Seq(E)
           /\ Range(removeFromList(s, x)) = Range(s) \ {x}
           /\ IsInjective(s) => IsInjective(removeFromList(s, x))
<1>1. Range(s) \cap (Range(s) \ {x}) = Range(s) \ {x}
  OBVIOUS
<1> QED BY <1>1, FilteredIs, Zenon DEF removeFromList

\* One list of identifiers for each account, none with the same one twice.
OwnerLists(lists) ==
    /\ lists \in [Account -> Seq(TxId)]
    /\ \A a \in Account : IsInjective(lists[a])

\* The list of account a now holds the elements of S, or writing it failed.
Rewritten(lists, new, a, S, failed) ==
    /\ OwnerLists(new)
    /\ \A b \in Account : Range(new[b]) = IF b = a /\ ~failed THEN S ELSE Range(lists[b])

\* One write changes the list of one account, by one identifier, or fails.
LEMMA AddedIs ==
    ASSUME NEW lists, OwnerLists(lists), NEW a \in Account, NEW x \in TxId,
           NEW failed
    PROVE  Rewritten(lists, Added(lists, a, x, failed), a, Range(lists[a]) \cup {x}, failed)
<1>1. CASE failed
  <2>1. Added(lists, a, x, failed) = lists
    BY <1>1 DEF Added, WriteOwned
  <2> QED BY <1>1, <2>1, Zenon DEF Rewritten
<1>2. CASE ~failed
  <2> DEFINE new == addToList(lists[a], x)
  <2>1. Added(lists, a, x, failed) = [lists EXCEPT ![a] = new]
    BY <1>2 DEF Added, WriteOwned
  <2>2. new \in Seq(TxId) /\ Range(new) = Range(lists[a]) \cup {x} /\ IsInjective(new)
    BY AddToList DEF OwnerLists
  <2> HIDE DEF new
  <2>3. OwnerLists([lists EXCEPT ![a] = new])
    BY <2>2 DEF OwnerLists
  <2>4. \A b \in Account : [lists EXCEPT ![a] = new][b] = IF b = a THEN new ELSE lists[b]
    BY DEF OwnerLists
  <2> QED BY <1>2, <2>1, <2>2, <2>3, <2>4, Zenon DEF Rewritten
<1> QED BY <1>1, <1>2

LEMMA RemovedIs ==
    ASSUME NEW lists, OwnerLists(lists), NEW a \in Account, NEW x \in TxId,
           NEW failed
    PROVE  Rewritten(lists, Removed(lists, a, x, failed), a, Range(lists[a]) \ {x}, failed)
<1>1. CASE failed
  <2>1. Removed(lists, a, x, failed) = lists
    BY <1>1 DEF Removed, WriteOwned
  <2> QED BY <1>1, <2>1, Zenon DEF Rewritten
<1>2. CASE ~failed
  <2> DEFINE new == removeFromList(lists[a], x)
  <2>1. Removed(lists, a, x, failed) = [lists EXCEPT ![a] = new]
    BY <1>2 DEF Removed, WriteOwned
  <2>2. new \in Seq(TxId) /\ Range(new) = Range(lists[a]) \ {x} /\ IsInjective(new)
    BY RemoveFromList DEF OwnerLists
  <2> HIDE DEF new
  <2>3. OwnerLists([lists EXCEPT ![a] = new])
    BY <2>2 DEF OwnerLists
  <2>4. \A b \in Account : [lists EXCEPT ![a] = new][b] = IF b = a THEN new ELSE lists[b]
    BY DEF OwnerLists
  <2> QED BY <1>2, <2>1, <2>2, <2>3, <2>4, Zenon DEF Rewritten
<1> QED BY <1>1, <1>2

-----------------------------------------------------------------------------
(* What an event says of the step that emits it. *)

OwnedBy(s, i, a) == s.assets[i] # None /\ s.assets[i].owner = a

\* No asset but those in M changes hands.
OwnersStay(s, t, M) ==
    \A i \in TxId \ M, a \in Account : OwnedBy(t, i, a) <=> OwnedBy(s, i, a)

\* A mint makes one asset for one account.
LEMMA MintOwner ==
    ASSUME NEW s, NEW tx \in MintAssetTx, NEW t, Numbered(s), Applied(s, tx, t),
           MintStep(s, tx, t)
    PROVE  /\ Id(tx) \in TxId
           /\ t.assets[Id(tx)].owner \in Account
           /\ \A a \in Account : /\ ~OwnedBy(s, Id(tx), a)
                                 /\ OwnedBy(t, Id(tx), a) <=> a = t.assets[Id(tx)].owner
           /\ OwnersStay(s, t, {Id(tx)})
<1>1. s \in State /\ t \in State /\ Id(tx) \in TxId
  BY NoncesGrow DEF Applied
<1>2. s.assets[Id(tx)] = None
  BY FreshId
<1>3. PICK o \in Account :
        AssetStep(s, Id(tx), [template |-> tx.template, owner |-> o,
                              tradeable |-> s.templates[tx.template].tradeable,
                              listing |-> None], t)
  BY DEF MintStep
<1>4. /\ t.assets[Id(tx)].owner = o
      /\ \A i \in TxId \ {Id(tx)} : t.assets[i] = s.assets[i]
  BY <1>1, <1>3 DEF AssetStep, State
<1>5. t.assets[Id(tx)] # None
  <2>1. [template |-> tx.template, owner |-> o,
         tradeable |-> s.templates[tx.template].tradeable, listing |-> None] \in AssetRec
    <3>1. s.templates[tx.template] \in TemplateRec /\ tx.template \in Template
      BY <1>1 DEF MintStep, State
    <3>2. s.templates[tx.template].tradeable \in BOOLEAN
      BY <3>1 DEF TemplateRec
    <3> QED BY <3>1, <3>2 DEF AssetRec
  <2>2. t.assets[Id(tx)] = [template |-> tx.template, owner |-> o,
                            tradeable |-> s.templates[tx.template].tradeable, listing |-> None]
    BY <1>1, <1>3 DEF AssetStep, State
  <2> QED BY <2>1, <2>2, AbsentAssumption
<1> QED BY <1>1, <1>2, <1>4, <1>5 DEF OwnedBy, OwnersStay

\* A burn takes one asset from its owner, who has signed for it.
LEMMA BurnOwner ==
    ASSUME NEW s \in State, NEW tx, NEW t \in State, BurnStep(s, tx, t)
    PROVE  /\ tx.asset \in TxId
           /\ s.assets[tx.asset].owner \in Account
           /\ \A a \in Account : /\ OwnedBy(s, tx.asset, a) <=> a = s.assets[tx.asset].owner
                                 /\ ~OwnedBy(t, tx.asset, a)
           /\ OwnersStay(s, t, {tx.asset})
<1>1. tx.asset \in TxId /\ s.assets[tx.asset] # None
  BY DEF BurnStep, OwnUnlisted, AssetStep
<1>2. s.assets[tx.asset].owner \in Account
  BY <1>1 DEF State, AssetRec
<1>3. t.assets[tx.asset] = None /\ \A i \in TxId \ {tx.asset} : t.assets[i] = s.assets[i]
  BY <1>1 DEF BurnStep, AssetStep, State
<1> QED BY <1>1, <1>2, <1>3 DEF OwnedBy, OwnersStay

\* A transfer takes one asset from its sender to its receiver.
LEMMA TransferOwner ==
    ASSUME NEW s \in State, NEW tx, NEW t \in State, TransferAssetStep(s, tx, t)
    PROVE  /\ tx.asset \in TxId
           /\ tx.to \in Account
           /\ \A a \in Account : /\ OwnedBy(s, tx.asset, a) <=> a = tx.from
                                 /\ OwnedBy(t, tx.asset, a) <=> a = tx.to
           /\ OwnersStay(s, t, {tx.asset})
<1> DEFINE r == s.assets[tx.asset]
<1>1. tx.asset \in TxId /\ tx.to \in Account /\ r # None /\ r.owner = tx.from
  BY DEF TransferAssetStep, OwnUnlisted, AssetStep
<1>2. r \in AssetRec
  BY <1>1 DEF State
<1>3. /\ t.assets[tx.asset] = [r EXCEPT !.owner = tx.to]
      /\ \A i \in TxId \ {tx.asset} : t.assets[i] = s.assets[i]
  BY <1>1 DEF TransferAssetStep, AssetStep, State
<1> HIDE DEF r
<1>4. [r EXCEPT !.owner = tx.to] \in AssetRec /\ [r EXCEPT !.owner = tx.to].owner = tx.to
  BY <1>1, <1>2 DEF AssetRec
<1>5. t.assets[tx.asset] # None /\ t.assets[tx.asset].owner = tx.to
  BY <1>3, <1>4, AbsentAssumption
<1> QED BY <1>1, <1>3, <1>5 DEF OwnedBy, OwnersStay, r

\* A sale changes the owner of the asset on sale and of no other.
LEMMA BuyOwner ==
    ASSUME NEW s \in State, NEW tx, NEW t \in State, BuyStep(s, tx, t)
    PROVE  /\ s.listings[tx.listing].asset \in TxId
           /\ OwnersStay(s, t, {s.listings[tx.listing].asset})
<1> DEFINE i == s.listings[tx.listing].asset
<1>1. s.listings[tx.listing] \in ListingRec
  BY DEF BuyStep, State
<1>2. i \in TxId
  BY <1>1 DEF ListingRec
<1>3. \A j \in TxId \ {i} : t.assets[j] = s.assets[j]
  BY <1>2 DEF BuyStep, State
<1> QED BY <1>2, <1>3 DEF OwnedBy, OwnersStay

\* An offer changes the listing an asset is under, not its owner.
LEMMA ListOwner ==
    ASSUME NEW s \in State, NEW tx, NEW t \in State, ListStep(s, tx, t), Id(tx) \in TxId
    PROVE  OwnersStay(s, t, {})
<1> DEFINE r == s.assets[tx.asset]
<1>1. tx.asset \in TxId /\ r \in AssetRec
  BY DEF ListStep, OwnUnlisted, State
<1>2. /\ t.assets[tx.asset] = [r EXCEPT !.listing = Id(tx)]
      /\ \A i \in TxId \ {tx.asset} : t.assets[i] = s.assets[i]
  BY <1>1 DEF ListStep, State
<1>3. t.assets[tx.asset] # None
  <2>1. [r EXCEPT !.listing = Id(tx)] \in AssetRec
    BY <1>1 DEF AssetRec
  <2> QED BY <1>2, <2>1, AbsentAssumption
<1>4. t.assets[tx.asset].owner = r.owner
  BY <1>1, <1>2 DEF AssetRec
<1>5. r # None
  BY <1>1, AbsentAssumption
<1> QED BY <1>2, <1>3, <1>4, <1>5, Zenon DEF OwnedBy, OwnersStay

-----------------------------------------------------------------------------
(* The inductive invariant of the index. *)

\* AbandonBlock goes back to disk, so its assets are numbered as well.
IndexInv ==
    /\ IndexTypeOK
    /\ OwnerIndexExact
    /\ ListsAreSets
    /\ Numbered(st)
    /\ Numbered(disk)

\* The part of it that an event can disturb.
Exact(lists, s, off) ==
    \A i \in TxId \ off, a \in Account : i \in Range(lists[a]) <=> OwnedBy(s, i, a)

IndexKept ==
    /\ OwnerLists(owned')
    /\ joined' = joined
    /\ errors' \in 0 .. MaxErrors
    /\ astray' \subseteq TxId
    /\ Exact(owned', st', astray')

\* What failed updates do to the counters.
LEMMA FailuresCounted ==
    ASSUME errors \in 0 .. MaxErrors, astray \subseteq TxId, NEW n \in Nat, NEW i \in TxId,
           Failures(n, i)
    PROVE  /\ errors' \in 0 .. MaxErrors
           /\ astray' \subseteq TxId
           /\ astray \subseteq astray'
           /\ n > 0 => i \in astray'
  BY IndexBoundsAssumption DEF Failures

\* onAssetMinted, onAssetBurned and onAssetTransferred each follow one asset.
LEMMA OneAssetFollowed ==
    ASSUME OwnerLists(owned), Exact(owned, st, astray), NEW x \in TxId,
           OwnersStay(st, st', {x}), OwnerLists(owned'), astray \subseteq astray',
           \A i \in TxId \ {x}, a \in Account : i \in Range(owned'[a]) <=> i \in Range(owned[a]),
           x \notin astray' =>
             \A a \in Account : x \in Range(owned'[a]) <=> OwnedBy(st', x, a)
    PROVE  Exact(owned', st', astray')
<1> SUFFICES ASSUME NEW i \in TxId \ astray', NEW a \in Account
             PROVE  i \in Range(owned'[a]) <=> OwnedBy(st', i, a)
  BY Zenon DEF Exact
<1>1. CASE i = x
  BY <1>1
<1>2. CASE i # x
  BY <1>2 DEF Exact, OwnersStay
<1> QED BY <1>1, <1>2

LEMMA IndexParts ==
    ASSUME IndexInv
    PROVE  /\ OwnerLists(owned) /\ Exact(owned, st, astray)
           /\ errors \in 0 .. MaxErrors /\ astray \subseteq TxId
  BY DEF IndexInv, IndexTypeOK, ListsAreSets, OwnerLists, OwnerIndexExact, Exact, OwnedBy,
         GetAssetsByOwner

\* A minted asset enters its owner's list, and was in none.
LEMMA MintIndexed ==
    ASSUME IndexInv, NEW tx \in MintAssetTx, Applied(st, tx, st'), MintStep(st, tx, st'),
           Emit(EventOf(tx, st, st'))
    PROVE  IndexKept
<1> DEFINE x == Id(tx)
           o == st'.assets[Id(tx)].owner
           ev == EventOf(tx, st, st')
<1>1. /\ OwnerLists(owned) /\ Exact(owned, st, astray)
      /\ errors \in 0 .. MaxErrors /\ astray \subseteq TxId
  BY IndexParts
<1>2. /\ x \in TxId /\ o \in Account
      /\ \A a \in Account : ~OwnedBy(st, x, a) /\ (OwnedBy(st', x, a) <=> a = o)
      /\ OwnersStay(st, st', {x})
  BY MintOwner, Zenon DEF IndexInv
<1>3. ev = [type |-> "asset_minted", asset |-> x, owner |-> o]
  BY DEF EventOf, MintAssetTx
<1>4. onAssetMinted(ev)
  BY <1>3 DEF Emit
<1> HIDE DEF ev, x, o
<1>5. PICK failed \in BOOLEAN :
        /\ owned' = Added(owned, o, x, failed)
        /\ Failures(IF failed THEN 1 ELSE 0, x)
        /\ joined' = joined
  BY <1>3, <1>4 DEF onAssetMinted
<1>6. Rewritten(owned, owned', o, Range(owned[o]) \cup {x}, failed)
  BY <1>1, <1>2, <1>5, AddedIs, Zenon
<1>7. /\ errors' \in 0 .. MaxErrors /\ astray' \subseteq TxId /\ astray \subseteq astray'
      /\ failed => x \in astray'
  BY <1>1, <1>2, <1>5, FailuresCounted
<1>8. x \notin astray' => \A a \in Account : x \in Range(owned'[a]) <=> OwnedBy(st', x, a)
  <2> SUFFICES ASSUME x \notin astray', NEW a \in Account
               PROVE  x \in Range(owned'[a]) <=> OwnedBy(st', x, a)
    OBVIOUS
  <2>1. ~failed /\ x \notin astray
    BY <1>7
  <2>2. x \notin Range(owned[a])
    BY <1>1, <1>2, <2>1 DEF Exact
  <2> QED BY <1>2, <1>6, <2>1, <2>2 DEF Rewritten
<1>9. \A i \in TxId \ {x}, a \in Account : i \in Range(owned'[a]) <=> i \in Range(owned[a])
  BY <1>6 DEF Rewritten
<1>10. Exact(owned', st', astray')
  BY <1>1, <1>2, <1>6, <1>7, <1>8, <1>9, OneAssetFollowed DEF Rewritten
<1> QED BY <1>5, <1>6, <1>7, <1>10 DEF IndexKept, Rewritten

\* A burnt asset leaves its owner's list, and was in no other.
LEMMA BurnIndexed ==
    ASSUME IndexInv, NEW tx \in BurnAssetTx, Applied(st, tx, st'), BurnStep(st, tx, st'),
           Emit(EventOf(tx, st, st'))
    PROVE  IndexKept
<1> DEFINE x == tx.asset
           o == st.assets[tx.asset].owner
           ev == EventOf(tx, st, st')
<1>1. /\ OwnerLists(owned) /\ Exact(owned, st, astray)
      /\ errors \in 0 .. MaxErrors /\ astray \subseteq TxId
  BY IndexParts
<1>2. /\ x \in TxId /\ o \in Account
      /\ \A a \in Account : (OwnedBy(st, x, a) <=> a = o) /\ ~OwnedBy(st', x, a)
      /\ OwnersStay(st, st', {x})
  BY BurnOwner, Zenon DEF Applied
<1>3. ev = [type |-> "asset_burned", asset |-> x, owner |-> o]
  BY DEF EventOf, BurnAssetTx
<1>4. onAssetBurned(ev)
  BY <1>3 DEF Emit
<1> HIDE DEF ev, x, o
<1>5. PICK failed \in BOOLEAN :
        /\ owned' = Removed(owned, o, x, failed)
        /\ Failures(IF failed THEN 1 ELSE 0, x)
        /\ joined' = joined
  BY <1>3, <1>4 DEF onAssetBurned
<1>6. Rewritten(owned, owned', o, Range(owned[o]) \ {x}, failed)
  BY <1>1, <1>2, <1>5, RemovedIs, Zenon
<1>7. /\ errors' \in 0 .. MaxErrors /\ astray' \subseteq TxId /\ astray \subseteq astray'
      /\ failed => x \in astray'
  BY <1>1, <1>2, <1>5, FailuresCounted
<1>8. x \notin astray' => \A a \in Account : x \in Range(owned'[a]) <=> OwnedBy(st', x, a)
  <2> SUFFICES ASSUME x \notin astray', NEW a \in Account
               PROVE  x \in Range(owned'[a]) <=> OwnedBy(st', x, a)
    OBVIOUS
  <2>1. ~failed /\ x \notin astray
    BY <1>7
  <2>2. x \in Range(owned[a]) <=> a = o
    BY <1>1, <1>2, <2>1 DEF Exact
  <2> QED BY <1>2, <1>6, <2>1, <2>2 DEF Rewritten
<1>9. \A i \in TxId \ {x}, a \in Account : i \in Range(owned'[a]) <=> i \in Range(owned[a])
  BY <1>6 DEF Rewritten
<1>10. Exact(owned', st', astray')
  BY <1>1, <1>2, <1>6, <1>7, <1>8, <1>9, OneAssetFollowed DEF Rewritten
<1> QED BY <1>5, <1>6, <1>7, <1>10 DEF IndexKept, Rewritten

\* A transferred asset leaves one list and enters another, which may be the same.
LEMMA TransferIndexed ==
    ASSUME IndexInv, NEW tx \in TransferAssetTx, Applied(st, tx, st'),
           TransferAssetStep(st, tx, st'), Emit(EventOf(tx, st, st'))
    PROVE  IndexKept
<1> DEFINE x == tx.asset
           ev == EventOf(tx, st, st')
<1>1. /\ OwnerLists(owned) /\ Exact(owned, st, astray)
      /\ errors \in 0 .. MaxErrors /\ astray \subseteq TxId
  BY IndexParts
<1>2. /\ x \in TxId /\ tx.from \in Account /\ tx.to \in Account
      /\ \A a \in Account : (OwnedBy(st, x, a) <=> a = tx.from) /\ (OwnedBy(st', x, a) <=> a = tx.to)
      /\ OwnersStay(st, st', {x})
  BY TransferOwner DEF Applied, Signed
<1>3. ev = [type |-> "asset_transfer", asset |-> x, from |-> tx.from, to |-> tx.to]
  BY DEF EventOf, TransferAssetTx
<1>4. onAssetTransferred(ev)
  BY <1>3 DEF Emit
<1> HIDE DEF ev, x
<1>5. PICK failed \in SUBSET {"remove", "add"} :
        /\ owned' = Added(Removed(owned, tx.from, x, "remove" \in failed),
                          tx.to, x, "add" \in failed)
        /\ Failures(Cardinality(failed), x)
        /\ joined' = joined
  BY <1>3, <1>4 DEF onAssetTransferred
<1> DEFINE r == "remove" \in failed
           d == "add" \in failed
           mid == Removed(owned, tx.from, x, r)
<1>6. r \in BOOLEAN /\ d \in BOOLEAN
  OBVIOUS
<1>7. Cardinality(failed) \in Nat /\ (r \/ d => Cardinality(failed) > 0)
  <2>1. IsFiniteSet(failed)
    <3>1. IsFiniteSet({} \cup {"remove"})
      BY FS_EmptySet, FS_AddElement, Zenon
    <3>2. IsFiniteSet(({} \cup {"remove"}) \cup {"add"})
      BY <3>1, FS_AddElement, Zenon
    <3>3. failed \subseteq ({} \cup {"remove"}) \cup {"add"}
      OBVIOUS
    <3> QED BY <3>2, <3>3, FS_Subset, Zenon
  <2> QED BY <2>1, FS_CardinalityType, FS_EmptySet
<1> HIDE DEF r, d
<1>8. Rewritten(owned, mid, tx.from, Range(owned[tx.from]) \ {x}, r)
  BY <1>1, <1>2, RemovedIs, Zenon
<1>9. owned' = Added(mid, tx.to, x, d)
  BY <1>5 DEF r, d
<1> HIDE DEF mid
<1>10. Rewritten(mid, owned', tx.to, Range(mid[tx.to]) \cup {x}, d)
  <2>1. OwnerLists(mid)
    BY <1>8 DEF Rewritten
  <2> QED BY <1>2, <1>9, <2>1, AddedIs, Zenon
<1>11. /\ errors' \in 0 .. MaxErrors /\ astray' \subseteq TxId /\ astray \subseteq astray'
       /\ r \/ d => x \in astray'
  BY <1>1, <1>2, <1>5, <1>7, FailuresCounted
<1>12. x \notin astray' => \A a \in Account : x \in Range(owned'[a]) <=> OwnedBy(st', x, a)
  <2> SUFFICES ASSUME x \notin astray', NEW a \in Account
               PROVE  x \in Range(owned'[a]) <=> OwnedBy(st', x, a)
    OBVIOUS
  <2>1. ~r /\ ~d /\ x \notin astray
    BY <1>11
  <2>2. x \in Range(owned[a]) <=> a = tx.from
    BY <1>1, <1>2, <2>1 DEF Exact
  <2> QED BY <1>2, <1>8, <1>10, <2>1, <2>2 DEF Rewritten
<1>13. \A i \in TxId \ {x}, a \in Account : i \in Range(owned'[a]) <=> i \in Range(owned[a])
  BY <1>8, <1>10 DEF Rewritten
<1>14. Exact(owned', st', astray')
  BY <1>1, <1>2, <1>10, <1>11, <1>12, <1>13, OneAssetFollowed DEF Rewritten
<1> QED BY <1>5, <1>10, <1>11, <1>14, Zenon DEF IndexKept, Rewritten

\* Nobody follows a sale, so the asset is astray from then on.
LEMMA BuyIndexed ==
    ASSUME IndexInv, NEW tx \in BuyMarketTx, Applied(st, tx, st'), BuyStep(st, tx, st'),
           Emit(EventOf(tx, st, st'))
    PROVE  IndexKept
<1> DEFINE x == st.listings[tx.listing].asset
           ev == EventOf(tx, st, st')
<1>1. /\ OwnerLists(owned) /\ Exact(owned, st, astray)
      /\ errors \in 0 .. MaxErrors /\ astray \subseteq TxId
  BY IndexParts
<1>2. x \in TxId /\ OwnersStay(st, st', {x})
  BY BuyOwner DEF Applied
<1>3. ev = [type |-> "market_buy", asset |-> x]
  BY DEF EventOf, BuyMarketTx
<1>4. Unheard(ev)
  BY <1>3 DEF Emit
<1> HIDE DEF ev, x
<1>5. astray' = astray \cup {x} /\ owned' = owned /\ joined' = joined /\ errors' = errors
  BY <1>3, <1>4 DEF Unheard
<1>6. OwnerLists(owned') /\ astray \subseteq astray' /\ astray' \subseteq TxId
  BY <1>1, <1>2, <1>5
<1>7. \A i \in TxId \ {x}, a \in Account : i \in Range(owned'[a]) <=> i \in Range(owned[a])
  BY <1>5
<1>8. Exact(owned', st', astray')
  BY <1>1, <1>2, <1>5, <1>6, <1>7, OneAssetFollowed
<1> QED BY <1>1, <1>5, <1>6, <1>8 DEF IndexKept

\* The other transactions change no owner and the index does nothing: nobody
\* subscribes to their events, and the players of a new session are not found.
LEMMA OthersIndexed ==
    ASSUME IndexInv, OwnersStay(st, st', {}), NEW tx, Emit(EventOf(tx, st, st')),
           tx.type \in {"transfer", "register_template", "list_market", "session_open",
                        "session_result"}
    PROVE  IndexKept
<1> DEFINE ev == EventOf(tx, st, st')
<1>1. /\ OwnerLists(owned) /\ Exact(owned, st, astray)
      /\ errors \in 0 .. MaxErrors /\ astray \subseteq TxId
  BY IndexParts
<1>2. owned' = owned /\ errors' = errors /\ astray' = astray /\ joined' = joined
  <2>1. CASE tx.type = "session_open"
    <3>1. ev.type = "session_open"
      BY <2>1 DEF EventOf
    <3>2. onSessionOpen(ev)
      BY <3>1 DEF Emit
    <3> HIDE DEF ev
    <3>3. Range(PlayersAsAny(ev)) = {}
      BY DEF PlayersAsAny, Range
    <3>4. joined' = [a \in Address |-> joined[a]]
      BY <3>2, <3>3 DEF onSessionOpen
    <3>5. joined' = joined
      BY <3>4 DEF IndexInv, IndexTypeOK
    <3> QED BY <3>2, <3>5 DEF onSessionOpen
  <2>2. CASE tx.type # "session_open"
    <3>1. ev = [type |-> tx.type]
      BY <2>2 DEF EventOf
    <3>2. Unheard(ev) /\ ev.type # "market_buy"
      BY <2>2, <3>1 DEF Emit
    <3> HIDE DEF ev
    <3> QED BY <3>2 DEF Unheard
  <2> QED BY <2>1, <2>2
<1>3. Exact(owned', st', astray')
  BY <1>1, <1>2 DEF Exact, OwnersStay
<1> QED BY <1>1, <1>2, <1>3 DEF IndexKept

\* Whatever the transaction, the index follows it.
LEMMA TxIndexed ==
    ASSUME IndexInv, NEW tx, Applied(st, tx, st'), Emit(EventOf(tx, st, st'))
    PROVE  IndexKept
<1>0. st \in State /\ st' \in State /\ Id(tx) \in TxId
  BY NoncesGrow DEF Applied
<1>1. CASE tx \in TransferTx /\ TransferStep(st, tx, st')
  <2>1. tx.type = "transfer" /\ OwnersStay(st, st', {})
    BY <1>1 DEF TransferTx, TransferStep, KeepsMarket, OwnersStay, OwnedBy
  <2> QED BY <2>1, OthersIndexed
<1>2. CASE tx \in RegisterTemplateTx /\ RegisterStep(st, tx, st')
  <2>1. tx.type = "register_template" /\ OwnersStay(st, st', {})
    BY <1>2 DEF RegisterTemplateTx, RegisterStep, OwnersStay, OwnedBy
  <2> QED BY <2>1, OthersIndexed
<1>3. CASE tx \in MintAssetTx /\ MintStep(st, tx, st')
  BY <1>3, MintIndexed
<1>4. CASE tx \in BurnAssetTx /\ BurnStep(st, tx, st')
  BY <1>4, BurnIndexed
<1>5. CASE tx \in TransferAssetTx /\ TransferAssetStep(st, tx, st')
  BY <1>5, TransferIndexed
<1>6. CASE tx \in ListMarketTx /\ ListStep(st, tx, st')
  <2>1. tx.type = "list_market" /\ OwnersStay(st, st', {})
    BY <1>0, <1>6, ListOwner DEF ListMarketTx
  <2> QED BY <2>1, OthersIndexed
<1>7. CASE tx \in BuyMarketTx /\ BuyStep(st, tx, st')
  BY <1>7, BuyIndexed
<1>8. CASE tx \in SessionOpenTx /\ SessionOpenStep(st, tx, st')
  <2>1. tx.type = "session_open" /\ OwnersStay(st, st', {})
    BY <1>8 DEF SessionOpenTx, SessionOpenStep, KeepsMarket, OwnersStay, OwnedBy
  <2> QED BY <2>1, OthersIndexed
<1>9. CASE tx \in SessionResultTx /\ SessionResultStep(st, tx, st')
  <2>1. tx.type = "session_result" /\ OwnersStay(st, st', {})
    BY <1>9 DEF SessionResultTx, SessionResultStep, KeepsMarket, OwnersStay, OwnedBy
  <2> QED BY <2>1, OthersIndexed
<1> QED BY <1>1, <1>2, <1>3, <1>4, <1>5, <1>6, <1>7, <1>8, <1>9 DEF Applied, Handled

LEMMA ExecuteNextIndexed ==
    ASSUME IndexInv, NEW p \in Proposer, NEW tx \in NextTx, ExecuteNext(p, tx)
    PROVE  IndexInv'
<1>1. TypeOK /\ tx \in AnyTx
  BY DEF IndexInv, IndexTypeOK, NextTx, AnyTx
<1>2. genesis' = genesis /\ Applied(st, tx, st')
  BY <1>1, ExecuteTxStep DEF ExecuteNext
<1>3. IndexKept
  BY <1>2, TxIndexed DEF ExecuteNext
<1>4. disk' = disk /\ abandoned' = abandoned
  BY DEF ExecuteNext
<1>5. open' \in 0 .. MaxBlockTxs /\ executed' \in 0 .. MaxTxs
  BY IndexBoundsAssumption DEF ExecuteNext, IndexInv, IndexTypeOK
<1>6. TypeOK'
  BY <1>1, <1>2 DEF TypeOK, Applied
<1>7. IndexTypeOK'
  BY <1>3, <1>4, <1>5, <1>6, Zenon DEF IndexTypeOK, IndexInv, IndexKept, OwnerLists
<1>8. OwnerIndexExact' /\ ListsAreSets'
  BY <1>3 DEF IndexKept, IndexInv, OwnerIndexExact, ListsAreSets, Exact, OwnedBy, OwnerLists,
              GetAssetsByOwner
<1>9. Numbered(st') /\ Numbered(disk')
  BY <1>2, <1>4, NumberedStep DEF IndexInv
<1> QED BY <1>7, <1>8, <1>9 DEF IndexInv

\* CommitBlock leaves the state the block has built.
LEMMA CommitBlockIndexed ==
    ASSUME IndexInv, CommitBlock
    PROVE  IndexInv'
<1>1. /\ disk' = st /\ st' = st /\ genesis' = genesis
      /\ open' = 0 /\ executed' = executed /\ abandoned' = abandoned
      /\ owned' = owned /\ joined' = joined /\ errors' = errors /\ astray' = astray
  BY DEF CommitBlock, indexVars
<1>2. IndexTypeOK'
  BY <1>1, IndexBoundsAssumption DEF IndexInv, IndexTypeOK, TypeOK
<1>3. OwnerIndexExact' /\ ListsAreSets'
  BY <1>1 DEF IndexInv, OwnerIndexExact, ListsAreSets, GetAssetsByOwner
<1>4. Numbered(st') /\ Numbered(disk')
  BY <1>1 DEF IndexInv
<1> QED BY <1>2, <1>3, <1>4 DEF IndexInv

\* AbandonBlock takes back the state and not the index: the assets the two
\* states place differently are astray, the others have the owner they had.
LEMMA AbandonBlockIndexed ==
    ASSUME IndexInv, AbandonBlock
    PROVE  IndexInv'
<1>1. /\ disk' = disk /\ st' = disk /\ genesis' = genesis
      /\ open' = 0 /\ executed' = executed /\ abandoned' = abandoned + 1
      /\ abandoned < MaxAbandoned
      /\ owned' = owned /\ joined' = joined /\ errors' = errors
      /\ astray' = astray \cup Moved(st, disk)
  BY DEF AbandonBlock
<1>2. IndexTypeOK'
  <2>1. astray' \subseteq TxId
    BY <1>1 DEF IndexInv, IndexTypeOK, Moved
  <2>2. TypeOK' /\ disk' \in State
    BY <1>1 DEF IndexInv, IndexTypeOK, TypeOK
  <2>3. abandoned' \in 0 .. MaxAbandoned /\ open' \in 0 .. MaxBlockTxs
    BY <1>1, IndexBoundsAssumption DEF IndexInv, IndexTypeOK
  <2> QED BY <1>1, <2>1, <2>2, <2>3 DEF IndexInv, IndexTypeOK
<1>3. OwnerIndexExact'
  <2> SUFFICES ASSUME NEW i \in TxId \ astray', NEW a \in Account
               PROVE  i \in Range(owned'[a]) <=> OwnedBy(st', i, a)
    BY DEF OwnerIndexExact, GetAssetsByOwner, OwnedBy
  <2>1. i \notin astray /\ i \notin Moved(st, disk)
    BY <1>1
  <2>2. OwnedBy(disk, i, a) <=> OwnedBy(st, i, a)
    BY <2>1 DEF Moved, OwnedBy
  <2>3. Exact(owned, st, astray)
    BY IndexParts
  <2> QED BY <1>1, <2>1, <2>2, <2>3 DEF Exact
<1>4. ListsAreSets' /\ Numbered(st') /\ Numbered(disk')
  BY <1>1 DEF IndexInv, ListsAreSets
<1> QED BY <1>2, <1>3, <1>4 DEF IndexInv

\* Every step of the specification keeps the invariant.
LEMMA IndexStep == IndexInv /\ [IndexNext]_allVars => IndexInv'
<1> SUFFICES ASSUME IndexInv, [IndexNext]_allVars PROVE IndexInv'
  OBVIOUS
<1>1. ASSUME NEW p \in Proposer, NEW tx \in NextTx, ExecuteNext(p, tx) PROVE IndexInv'
  BY <1>1, ExecuteNextIndexed
<1>2. CASE CommitBlock
  BY <1>2, CommitBlockIndexed
<1>3. CASE AbandonBlock
  BY <1>3, AbandonBlockIndexed
<1>4. CASE UNCHANGED allVars
  BY <1>4 DEF allVars, vars, indexVars, IndexInv, IndexTypeOK, TypeOK, OwnerIndexExact,
              ListsAreSets, GetAssetsByOwner
<1> QED BY <1>1, <1>2, <1>3, <1>4 DEF IndexNext

\* At the start there is no asset and every list is empty.
LEMMA IndexStarts == IndexInit => IndexInv
<1> SUFFICES ASSUME IndexInit PROVE IndexInv
  OBVIOUS
<1>1. IInv
  BY InitHolds DEF IndexInit
<1>2. /\ disk = st /\ open = 0 /\ executed = 0 /\ abandoned = 0 /\ errors = 0 /\ astray = {}
      /\ owned = [a \in Account |-> << >>] /\ joined = [a \in Address |-> << >>]
  BY DEF IndexInit
<1>3. TypeOK /\ Numbered(st) /\ \A i \in TxId : st.assets[i] = None
  BY <1>1 DEF IInv, IndexInit, Init
<1>4. << >> \in Seq(TxId) /\ << >> \in Seq(SessionId) /\ Range(<< >>) = {} /\ IsInjective(<< >>)
  BY DEF Range, IsInjective
<1>5. IndexTypeOK
  BY <1>2, <1>3, <1>4, IndexBoundsAssumption DEF IndexTypeOK, TypeOK
<1>6. OwnerIndexExact /\ ListsAreSets
  BY <1>2, <1>3, <1>4 DEF OwnerIndexExact, ListsAreSets, GetAssetsByOwner
<1> QED BY <1>2, <1>3, <1>5, <1>6 DEF IndexInv

\* The inductive invariant of the index holds in every reachable state.
THEOREM IndexInvariant == IndexSpec => []IndexInv
  BY IndexStarts, IndexStep, PTL DEF IndexSpec

\* The index answers with exactly the assets an account owns, those it has
\* missed a change of aside, whatever is executed, committed, rolled back or
\* fails to be written (indexer.go, onAssetMinted and the handlers after it).
THEOREM IndexExact == IndexSpec => []OwnerIndexExact
<1>1. IndexInv => OwnerIndexExact
  BY DEF IndexInv
<1> QED BY <1>1, IndexInvariant, PTL

\* No list of the index ever holds an identifier twice (indexer.go addToList).
THEOREM IndexListsAreSets == IndexSpec => []ListsAreSets
<1>1. IndexInv => ListsAreSets
  BY DEF IndexInv
<1> QED BY <1>1, IndexInvariant, PTL
=============================================================================
