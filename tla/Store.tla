------------------------------- MODULE Store -------------------------------
(***************************************************************************)
(* What core.State promises its callers, with no write buffer in sight: a  *)
(* map from keys to values (view), a stack of saved copies of it, and the  *)
(* copy that survives a crash (disk).  StateDB implements it; the modules  *)
(* that only use the state are composed with this one.                     *)
(***************************************************************************)
EXTENDS Integers, Sequences

CONSTANTS
    Key,            \* the keys under the state prefixes
    Value,          \* what can be stored under a key
    NotFound,       \* core.ErrNotFound
    AssetKey,       \* the keys that can be deleted: only DeleteAsset exists
    MaxSnapshots    \* bound on the depth of the snapshot stack

VARIABLES view, saved, disk

vars == <<view, saved, disk>>

Map == [Key -> Value \cup {NotFound}]

TypeOK ==
    /\ view \in Map
    /\ saved \in Seq(Map)
    /\ disk \in Map

Init ==
    /\ disk \in Map
    /\ view = disk
    /\ saved = << >>

Set(k, v) ==
    /\ view' = [view EXCEPT ![k] = v]
    /\ UNCHANGED <<saved, disk>>

Del(k) ==
    /\ view' = [view EXCEPT ![k] = NotFound]
    /\ UNCHANGED <<saved, disk>>

\* The identifier Snapshot returns, and the identifiers Revert accepts.
NextId == Len(saved)
Live(id) == id \in 0 .. Len(saved) - 1

Snapshot ==
    /\ Len(saved) < MaxSnapshots
    /\ saved' = Append(saved, view)
    /\ UNCHANGED <<view, disk>>

RevertToSnapshot(id) ==
    \/ /\ Live(id)
       /\ view' = saved[id + 1]
       /\ saved' = SubSeq(saved, 1, id)
       /\ UNCHANGED disk
    \/ /\ ~Live(id)
       /\ UNCHANGED vars

Flush ==
    /\ disk' = view
    /\ saved' = << >>
    /\ UNCHANGED view

\* A failed write leaves everything as it was, and its callers exit.
Commit == Flush \/ UNCHANGED vars

Crash ==
    /\ view' = disk
    /\ saved' = << >>
    /\ UNCHANGED disk

Next ==
    \/ \E k \in Key, v \in Value : Set(k, v)
    \/ \E k \in AssetKey : Del(k)
    \/ Snapshot
    \/ \E id \in -1 .. MaxSnapshots : RevertToSnapshot(id)
    \/ Commit
    \/ Crash

Spec == Init /\ [][Next]_vars
=============================================================================
