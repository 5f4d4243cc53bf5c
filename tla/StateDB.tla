------------------------------ MODULE StateDB ------------------------------
(***************************************************************************)
(* storage/statedb.go: a write buffer (dirty, deleted) over a persistent   *)
(* key-value store (db), with a stack of copies of the buffer.  A key that *)
(* a Go map does not hold is mapped to NotFound.  Every exported method    *)
(* holds StateDB.mu for its whole body, so each is one action.             *)
(***************************************************************************)
EXTENDS Integers, Sequences

CONSTANTS Key, Value, NotFound, AssetKey, MaxSnapshots

ASSUME NotFoundAssumption == NotFound \notin Value

ASSUME AssetKeyAssumption == AssetKey \subseteq Key

ASSUME MaxSnapshotsAssumption == MaxSnapshots \in Nat

VARIABLES
    db,         \* the entries LevelDB holds
    dirty,      \* buffered writes
    deleted,    \* keys whose deletion is buffered
    snapshots   \* copies of [dirty, deleted], oldest first

vars == <<db, dirty, deleted, snapshots>>

Map == [Key -> Value \cup {NotFound}]

Buffer == [dirty : Map, deleted : SUBSET Key]

Empty == [k \in Key |-> NotFound]

TypeOK ==
    /\ db \in Map
    /\ dirty \in Map
    /\ deleted \in SUBSET Key
    /\ snapshots \in Seq(Buffer)

-----------------------------------------------------------------------------
\* The value under k as seen through the buffer b.
Lookup(b, k) ==
    IF k \in b.deleted THEN NotFound
    ELSE IF b.dirty[k] # NotFound THEN b.dirty[k]
    ELSE db[k]

get(k) == Lookup([dirty |-> dirty, deleted |-> deleted], k)

\* Mutant: step 3 of ComputeRoot is missing.
ComputeRootWithDeleted ==
    [k \in Key |-> IF dirty[k] # NotFound THEN dirty[k] ELSE db[k]]

\* What ComputeRoot hashes: the entries of the database, overwritten by the
\* buffered writes, without the deleted keys.  The sorted, length-prefixed
\* encoding is injective, so the map stands for its hash.
ComputeRoot ==
    LET overlaid == [k \in Key |-> IF dirty[k] # NotFound THEN dirty[k] ELSE db[k]]
    IN  [k \in Key |-> IF k \in deleted THEN NotFound ELSE overlaid[k]]

\* Mutant: the batch writes and never deletes.
FlushedWithoutDeletes ==
    [k \in Key |-> IF dirty[k] # NotFound THEN dirty[k] ELSE db[k]]

\* The database once the batch of Commit is applied: writes, then deletions.
Flushed ==
    [k \in Key |-> IF k \in deleted THEN NotFound
                   ELSE IF dirty[k] # NotFound THEN dirty[k] ELSE db[k]]

-----------------------------------------------------------------------------
\* NewStateDB over whatever the database holds.
Init ==
    /\ db \in Map
    /\ dirty = Empty
    /\ deleted = {}
    /\ snapshots = << >>

\* Mutant: a write does not cancel a buffered deletion.
SetKeepsDeletion(k, v) ==
    /\ dirty' = [dirty EXCEPT ![k] = v]
    /\ UNCHANGED <<db, deleted, snapshots>>

Set(k, v) ==
    /\ deleted' = deleted \ {k}
    /\ dirty' = [dirty EXCEPT ![k] = v]
    /\ UNCHANGED <<db, snapshots>>

\* Mutant: a deletion is buffered as a write of an empty value.
DelWritesEmpty(k) ==
    /\ dirty' = [dirty EXCEPT ![k] = << >>]
    /\ UNCHANGED <<db, deleted, snapshots>>

Del(k) ==
    /\ dirty' = [dirty EXCEPT ![k] = NotFound]
    /\ deleted' = deleted \cup {k}
    /\ UNCHANGED <<db, snapshots>>

Snapshot ==
    /\ Len(snapshots) < MaxSnapshots
    /\ snapshots' = Append(snapshots, [dirty |-> dirty, deleted |-> deleted])
    /\ UNCHANGED <<db, dirty, deleted>>

RevertToSnapshot(id) ==
    \/ /\ ~(id < 0 \/ id >= Len(snapshots))
       /\ dirty' = snapshots[id + 1].dirty
       /\ deleted' = snapshots[id + 1].deleted
       /\ snapshots' = SubSeq(snapshots, 1, id)
       /\ UNCHANGED db
    \/ /\ id < 0 \/ id >= Len(snapshots)
       /\ UNCHANGED vars

\* Mutant: the snapshots outlive the commit.
CommitKeepsSnapshots ==
    \/ /\ db' = Flushed
       /\ dirty' = Empty
       /\ deleted' = {}
       /\ UNCHANGED snapshots
    \/ UNCHANGED vars

Commit ==
    \/ /\ db' = Flushed
       /\ dirty' = Empty
       /\ deleted' = {}
       /\ snapshots' = << >>
    \/ UNCHANGED vars

\* The process dies and NewStateDB runs again: only the database survives.
Crash ==
    /\ dirty' = Empty
    /\ deleted' = {}
    /\ snapshots' = << >>
    /\ UNCHANGED db

Next ==
    \/ \E k \in Key, v \in Value : Set(k, v)
    \/ \E k \in AssetKey : Del(k)
    \/ Snapshot
    \/ \E id \in -1 .. MaxSnapshots : RevertToSnapshot(id)
    \/ Commit
    \/ Crash

Spec == Init /\ [][Next]_vars

-----------------------------------------------------------------------------
\* The root is a function of what get returns, whatever mix of database,
\* buffered writes and deletions that came from (statedb.go ComputeRoot, get).
RootIsView == ComputeRoot = [k \in Key |-> get(k)]

\* The root signed before Commit is the root of the database after it: a step
\* that changes the database leaves the root alone (statedb.go ComputeRoot,
\* Commit; poa.go ProduceBlock calls them in this order).
CommitKeepsRoot == [][db' # db => ComputeRoot' = ComputeRoot]_vars

\* No key is buffered both as written and as deleted, in the live buffer or
\* in any copy a revert can bring back (statedb.go set, del, Snapshot).
BufferDisjoint ==
    /\ \A k \in deleted : dirty[k] = NotFound
    /\ \A i \in DOMAIN snapshots :
         \A k \in snapshots[i].deleted : snapshots[i].dirty[k] = NotFound

\* The view each saved buffer had when it was saved, and the current one.
ViewOf(b) == [k \in Key |-> Lookup(b, k)]
view == [k \in Key |-> get(k)]
saved == [i \in 1 .. Len(snapshots) |-> ViewOf(snapshots[i])]

A == INSTANCE Store WITH disk <- db

\* StateDB is a map with a stack of copies: a revert restores the very view
\* its snapshot saw, a commit makes the view durable and forgets the
\* snapshots, a crash loses exactly the buffer (statedb.go as a whole).
RefinesStore == A!Spec
=============================================================================
