------------------------------ MODULE Indexer ------------------------------
(***************************************************************************)
(* indexer/indexer.go, fed through events/emitter.go by the handlers of    *)
(* vm/modules while a block executes.  The handlers and the state are      *)
(* those of VM; st is the state the executing block sees, disk the last    *)
(* committed one.  The index lies in the same LevelDB but is written at    *)
(* once, outside the state's buffer: no rollback reaches it and a killed   *)
(* process leaves it as it was.                                            *)
(***************************************************************************)
EXTENDS VM, Lists

CONSTANTS
    MaxBlockTxs,    \* transactions in one block
    MaxTxs,         \* bound on the transactions executed, rolled back or not
    MaxAbandoned,   \* bound on the blocks given up
    MaxErrors       \* bound on the index updates that fail

ASSUME IndexBoundsAssumption ==
    /\ MaxBlockTxs \in Nat \ {0}
    /\ {MaxTxs, MaxAbandoned, MaxErrors} \subseteq Nat

VARIABLES
    disk,           \* the committed state
    owned,          \* idx:owner:asset:<owner>, a list of asset IDs
    joined,         \* idx:player:session:<player>, a list of session IDs
    open,           \* how many transactions of the open block were executed
    executed,       \* how many transactions were executed in all
    abandoned,      \* how many blocks were given up
    errors,         \* how many index updates failed
    astray          \* ghost: assets the index has missed a change of

indexVars == <<owned, joined, errors, astray>>
allVars == <<vars, disk, open, executed, abandoned, indexVars>>

IndexInit ==
    /\ Init
    /\ disk = st
    /\ owned = [a \in Account |-> << >>]
    /\ joined = [a \in Address |-> << >>]
    /\ open = 0
    /\ executed = 0
    /\ abandoned = 0
    /\ errors = 0
    /\ astray = {}

-----------------------------------------------------------------------------
(* The lists of the index. *)

\* Mutant: the list is not searched first.
appendToList(list, x) == Append(list, x)

addToList(list, x) == IF x \in Range(list) THEN list ELSE Append(list, x)

removeFromList(list, x) == Filtered(list, Range(list) \ {x})

\* What GetAssetsByOwner answers, and with it the RPC method getAssetsByOwner.
GetAssetsByOwner(a) == Range(owned[a])

\* The list of a is rewritten, or its read or write fails, which is only logged.
WriteOwned(before, a, list, failed) ==
    IF failed THEN before ELSE [before EXCEPT ![a] = list]

Added(lists, a, x, failed) == WriteOwned(lists, a, addToList(lists[a], x), failed)
Removed(lists, a, x, failed) == WriteOwned(lists, a, removeFromList(lists[a], x), failed)

-----------------------------------------------------------------------------
(* Events and their subscriber. *)

\* The event the handler of tx emits on the way from state s to state t.
EventOf(tx, s, t) ==
    CASE tx.type = "mint_asset" ->
           [type |-> "asset_minted", asset |-> Id(tx), owner |-> t.assets[Id(tx)].owner]
      [] tx.type = "burn_asset" ->
           [type |-> "asset_burned", asset |-> tx.asset, owner |-> s.assets[tx.asset].owner]
      [] tx.type = "transfer_asset" ->
           [type |-> "asset_transfer", asset |-> tx.asset, from |-> tx.from, to |-> tx.to]
      [] tx.type = "buy_market" ->
           [type |-> "market_buy", asset |-> s.listings[tx.listing].asset]
      [] tx.type = "session_open" ->
           [type |-> "session_open", session |-> tx.session, players |-> tx.players]
      [] OTHER -> [type |-> tx.type]

\* The number of updates that failed, and the asset they leave astray.
Failures(n, i) ==
    /\ errors + n <= MaxErrors
    /\ errors' = errors + n
    /\ astray' = IF n > 0 THEN astray \cup {i} ELSE astray

onAssetMinted(ev) ==
    \E failed \in BOOLEAN :
      /\ owned' = Added(owned, ev.owner, ev.asset, failed)
      /\ Failures(IF failed THEN 1 ELSE 0, ev.asset)
      /\ UNCHANGED joined

\* Mutant: the old owner's list is left alone.
onAssetGiven(ev) ==
    \E failed \in BOOLEAN :
      /\ owned' = Added(owned, ev.to, ev.asset, failed)
      /\ Failures(IF failed THEN 1 ELSE 0, ev.asset)
      /\ UNCHANGED joined

\* The asset leaves one list and enters another, in two writes.
onAssetTransferred(ev) ==
    \E failed \in SUBSET {"remove", "add"} :
      /\ owned' = Added(Removed(owned, ev.from, ev.asset, "remove" \in failed),
                        ev.to, ev.asset, "add" \in failed)
      /\ Failures(Cardinality(failed), ev.asset)
      /\ UNCHANGED joined

onAssetBurned(ev) ==
    \E failed \in BOOLEAN :
      /\ owned' = Removed(owned, ev.owner, ev.asset, failed)
      /\ Failures(IF failed THEN 1 ELSE 0, ev.asset)
      /\ UNCHANGED joined

\* The players of the event as the type assertion to []any yields them: the
\* handler put a []string there, so the assertion fails and there are none.
PlayersAsAny(ev) == << >>

onSessionOpen(ev) ==
    /\ joined' = [a \in Address |->
                    IF a \in Range(PlayersAsAny(ev))
                    THEN addToList(joined[a], ev.session) ELSE joined[a]]
    /\ UNCHANGED <<owned, errors, astray>>

\* Nobody subscribes to the other events.  A sale is one of them, so the index
\* misses it.
Unheard(ev) ==
    /\ astray' = IF ev.type = "market_buy" THEN astray \cup {ev.asset} ELSE astray
    /\ UNCHANGED <<owned, joined, errors>>

Emit(ev) ==
    CASE ev.type = "asset_minted"   -> onAssetMinted(ev)
      [] ev.type = "asset_transfer" -> onAssetTransferred(ev)
      [] ev.type = "asset_burned"   -> onAssetBurned(ev)
      [] ev.type = "session_open"   -> onSessionOpen(ev)
      [] OTHER                      -> Unheard(ev)

-----------------------------------------------------------------------------
(* Blocks. *)

\* ExecuteTx of the open block's next transaction succeeds; its handler emits
\* its event as its last act.
ExecuteNext(p, tx) ==
    /\ open < MaxBlockTxs
    /\ executed < MaxTxs
    /\ ~applyTx(st, p, tx).err
    /\ ExecuteTx(p, tx)
    /\ Emit(EventOf(tx, st, st'))
    /\ open' = open + 1
    /\ executed' = executed + 1
    /\ UNCHANGED <<disk, abandoned>>

CommitBlock ==
    /\ open > 0
    /\ disk' = st
    /\ open' = 0
    /\ UNCHANGED <<genesis, st, executed, abandoned, indexVars>>

\* The assets whose owner the two states disagree on.
Moved(s, t) ==
    {i \in TxId :
       \/ (s.assets[i] = None) # (t.assets[i] = None)
       \/ /\ s.assets[i] # None
          /\ t.assets[i] # None
          /\ s.assets[i].owner # t.assets[i].owner}

\* The block is rolled back because a later transaction fails, its root is
\* wrong or it cannot be stored, or the process dies before the commit.
AbandonBlock ==
    /\ open > 0
    /\ abandoned < MaxAbandoned
    /\ abandoned' = abandoned + 1
    /\ st' = disk
    /\ open' = 0
    /\ astray' = astray \cup Moved(st, disk)
    /\ UNCHANGED <<genesis, disk, executed, owned, joined, errors>>

\* The transactions that can be next for their sender.
NextTx ==
    {tx \in UNION {TransferTx, RegisterTemplateTx, MintAssetTx, BurnAssetTx,
                   TransferAssetTx, ListMarketTx, BuyMarketTx, SessionOpenTx,
                   SessionResultTx} :
       tx.type \in Registered /\ tx.nonce = st.nonce[tx.from]}

IndexNext ==
    \/ \E p \in Proposer, tx \in NextTx : ExecuteNext(p, tx)
    \/ CommitBlock
    \/ AbandonBlock

IndexSpec == IndexInit /\ [][IndexNext]_allVars

-----------------------------------------------------------------------------
IndexTypeOK ==
    /\ TypeOK
    /\ disk \in State
    /\ owned \in [Account -> Seq(TxId)]
    /\ joined \in [Address -> Seq(SessionId)]
    /\ open \in 0 .. MaxBlockTxs
    /\ executed \in 0 .. MaxTxs
    /\ abandoned \in 0 .. MaxAbandoned
    /\ errors \in 0 .. MaxErrors
    /\ astray \subseteq TxId

\* Whoever owns an asset, and nobody else, is told so by GetAssetsByOwner
\* ("returns all asset IDs owned by the given pubkey"), in the middle of a
\* block as well, unless the index has missed a change of that asset: a sale on
\* the market, a rollback, or an update that failed.  A missed change of one asset
\* never spoils the entries of another.
OwnerIndexExact ==
    \A i \in TxId \ astray, a \in Account :
      i \in GetAssetsByOwner(a) <=>
        (st.assets[i] # None /\ st.assets[i].owner = a)

\* No identifier is in a list twice, even when a block is rolled back and its
\* transactions are executed again (indexer.go addToList).
ListsAreSets ==
    /\ \A a \in Account : IsInjective(owned[a])
    /\ \A a \in Address : IsInjective(joined[a])
=============================================================================
