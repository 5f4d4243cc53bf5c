--------------------------- MODULE StateDBProofs ---------------------------
(***************************************************************************)
(* StateDB for every set of keys and values and every snapshot depth: its  *)
(* type, the disjointness of the buffer, the agreement of ComputeRoot with *)
(* reads and with Commit, and the refinement of Store.                     *)
(***************************************************************************)
EXTENDS StateDB, SequenceTheorems, TLAPS

\* The maps the operations build are maps (statedb.go ComputeRoot, Commit).
LEMMA MapsAreMaps ==
    ASSUME TypeOK
    PROVE  Empty \in Map /\ Flushed \in Map /\ ComputeRoot \in Map
  BY DEF TypeOK, Map, Empty, Flushed, ComputeRoot

\* Every state of StateDB is well typed (the fields of statedb.go StateDB).
THEOREM TypeCorrect == Spec => []TypeOK
<1>1. Init => TypeOK
  BY EmptySeq DEF Init, TypeOK, Map, Empty
<1>2. TypeOK /\ [Next]_vars => TypeOK'
  <2> SUFFICES ASSUME TypeOK, [Next]_vars PROVE TypeOK'
    OBVIOUS
  <2> USE DEF TypeOK
  <2>1. ASSUME NEW k \in Key, NEW v \in Value, Set(k, v) PROVE TypeOK'
    BY <2>1 DEF Set, Map
  <2>2. ASSUME NEW k \in AssetKey, Del(k) PROVE TypeOK'
    BY <2>2, AssetKeyAssumption DEF Del, Map
  <2>3. CASE Snapshot
    BY <2>3 DEF Snapshot, Buffer
  <2>4. ASSUME NEW id \in -1 .. MaxSnapshots, RevertToSnapshot(id) PROVE TypeOK'
    <3>1. CASE ~(id < 0 \/ id >= Len(snapshots))
      <4>1. id + 1 \in 1 .. Len(snapshots) /\ id \in 0 .. Len(snapshots)
        BY <3>1, MaxSnapshotsAssumption, LenProperties
      <4>2. snapshots[id + 1] \in Buffer
        BY <4>1, ElementOfSeq
      <4>3. SubSeq(snapshots, 1, id) \in Seq(Buffer)
        BY <4>1, SubSeqProperties
      <4> QED BY <2>4, <3>1, <4>2, <4>3 DEF RevertToSnapshot, Buffer
    <3>2. CASE id < 0 \/ id >= Len(snapshots)
      BY <2>4, <3>2 DEF RevertToSnapshot, vars
    <3> QED BY <3>1, <3>2
  <2>5. CASE Commit
    BY <2>5, MapsAreMaps, EmptySeq DEF Commit, vars
  <2>6. CASE Crash
    BY <2>6, MapsAreMaps, EmptySeq DEF Crash
  <2>7. CASE UNCHANGED vars
    BY <2>7 DEF vars
  <2> QED BY <2>1, <2>2, <2>3, <2>4, <2>5, <2>6, <2>7 DEF Next
<1> QED BY <1>1, <1>2, PTL DEF Spec

\* ComputeRoot agrees with reads in every state (statedb.go ComputeRoot, get).
THEOREM RootIsViewAlways == Spec => []RootIsView
<1>1. TypeOK => RootIsView
  BY DEF TypeOK, RootIsView, ComputeRoot, get, Lookup, Map
<1> QED BY <1>1, TypeCorrect, PTL

\* A commit does not change the root that was signed (statedb.go ComputeRoot,
\* Commit): Commit is the only step that writes the database, and what it
\* writes is what ComputeRoot hashed.
THEOREM RootSurvivesCommit == Spec => CommitKeepsRoot
<1>1. TypeOK /\ TypeOK' /\ [Next]_vars => [db' # db => ComputeRoot' = ComputeRoot]_vars
  <2> SUFFICES ASSUME TypeOK, TypeOK', [Next]_vars, db' # db
               PROVE  ComputeRoot' = ComputeRoot
    OBVIOUS
  <2>1. db' = Flushed /\ dirty' = Empty /\ deleted' = {}
    BY DEF Next, vars, Set, Del, Snapshot, RevertToSnapshot, Commit, Crash
  <2> QED BY <2>1 DEF ComputeRoot, Flushed, Empty, TypeOK, Map
<1> QED BY <1>1, TypeCorrect, PTL DEF Spec, CommitKeepsRoot

\* No key is buffered as written and as deleted at once, in the live buffer or
\* in a saved one (statedb.go set, del, Snapshot, RevertToSnapshot).
THEOREM BufferStaysDisjoint == Spec => []BufferDisjoint
<1>1. Init => BufferDisjoint
  BY DEF Init, BufferDisjoint
<1>2. TypeOK /\ BufferDisjoint /\ [Next]_vars => BufferDisjoint'
  <2> SUFFICES ASSUME TypeOK, BufferDisjoint, [Next]_vars PROVE BufferDisjoint'
    OBVIOUS
  <2> USE DEF BufferDisjoint, TypeOK
  <2>1. ASSUME NEW k \in Key, NEW v \in Value, Set(k, v) PROVE BufferDisjoint'
    BY <2>1 DEF Set, Map
  <2>2. ASSUME NEW k \in AssetKey, Del(k) PROVE BufferDisjoint'
    BY <2>2, AssetKeyAssumption DEF Del, Map
  <2>3. CASE Snapshot
    BY <2>3 DEF Snapshot, Buffer
  <2>4. ASSUME NEW id \in -1 .. MaxSnapshots, RevertToSnapshot(id) PROVE BufferDisjoint'
    <3>1. CASE ~(id < 0 \/ id >= Len(snapshots))
      <4>1. id + 1 \in DOMAIN snapshots /\ id \in 0 .. Len(snapshots)
        BY <3>1, MaxSnapshotsAssumption, LenProperties
      <4>2. SubSeq(snapshots, 1, id) = [i \in 1 .. id |-> snapshots[i]]
        BY <4>1, LenProperties
      <4>3. \A i \in 1 .. id : i \in DOMAIN snapshots
        BY <4>1, LenProperties
      <4> QED BY <2>4, <3>1, <4>1, <4>2, <4>3 DEF RevertToSnapshot
    <3>2. CASE id < 0 \/ id >= Len(snapshots)
      BY <2>4, <3>2 DEF RevertToSnapshot, vars
    <3> QED BY <3>1, <3>2
  <2>5. CASE Commit
    BY <2>5 DEF Commit, vars
  <2>6. CASE Crash
    BY <2>6 DEF Crash
  <2>7. CASE UNCHANGED vars
    BY <2>7 DEF vars
  <2> QED BY <2>1, <2>2, <2>3, <2>4, <2>5, <2>6, <2>7 DEF Next
<1> QED BY <1>1, <1>2, TypeCorrect, PTL DEF Spec

\* The abstract stack of views is well typed (statedb.go Snapshot).
LEMMA MappedTypes ==
    ASSUME TypeOK
    PROVE  /\ view \in Map
           /\ saved \in Seq(Map)
           /\ Len(saved) = Len(snapshots)
           /\ \A i \in 1 .. Len(snapshots) : saved[i] = ViewOf(snapshots[i])
<1>1. view \in Map
  BY DEF TypeOK, view, get, Lookup, Map
<1>2. Len(snapshots) \in Nat
  BY LenProperties DEF TypeOK
<1>3. \A i \in 1 .. Len(snapshots) : ViewOf(snapshots[i]) \in Map
  <2> TAKE i \in 1 .. Len(snapshots)
  <2>1. snapshots[i] \in Buffer
    BY ElementOfSeq DEF TypeOK
  <2> QED BY <2>1 DEF TypeOK, ViewOf, Lookup, Map, Buffer
<1> QED BY <1>1, <1>2, <1>3, IsASeq DEF saved

\* Every step of StateDB is a step of Store, or changes nothing there.
LEMMA StepRefines ==
    ASSUME TypeOK, TypeOK', [Next]_vars
    PROVE  [A!Next]_(A!vars)
<1> USE DEF TypeOK
<1>0. MaxSnapshots \in Nat /\ Len(snapshots) \in Nat
  BY MaxSnapshotsAssumption, LenProperties
<1>1. ASSUME NEW k \in Key, NEW v \in Value, Set(k, v) PROVE A!Next
  <2>1. view' = [view EXCEPT ![k] = v]
    BY <1>1, NotFoundAssumption DEF Set, view, get, Lookup, Map
  <2>2. saved' = saved
    BY <1>1 DEF Set, saved, ViewOf, Lookup
  <2>3. A!Set(k, v)
    BY <1>1, <2>1, <2>2 DEF Set, A!Set
  <2> QED BY <2>3 DEF A!Next
<1>2. ASSUME NEW k \in AssetKey, Del(k) PROVE A!Next
  <2>1. view' = [view EXCEPT ![k] = NotFound]
    BY <1>2, AssetKeyAssumption DEF Del, view, get, Lookup, Map
  <2>2. saved' = saved
    BY <1>2 DEF Del, saved, ViewOf, Lookup
  <2>3. A!Del(k)
    BY <1>2, <2>1, <2>2 DEF Del, A!Del
  <2> QED BY <2>3 DEF A!Next
<1>3. CASE Snapshot
  <2> DEFINE b == [dirty |-> dirty, deleted |-> deleted]
  <2>1. Len(snapshots') = Len(snapshots) + 1
        /\ snapshots'[Len(snapshots) + 1] = b
        /\ \A i \in 1 .. Len(snapshots) : snapshots'[i] = snapshots[i]
    BY <1>3, <1>0 DEF Snapshot
  <2>2. view' = view
    BY <1>3 DEF Snapshot, view, get, Lookup
  <2>3. db' = db
    BY <1>3 DEF Snapshot
  <2>4. ViewOf(b) = view
    BY DEF ViewOf, view, get
  <2>5. saved' = [i \in 1 .. Len(snapshots) + 1 |->
                    IF i = Len(snapshots) + 1 THEN view ELSE ViewOf(snapshots[i])]
    <3>1. saved' = [i \in 1 .. Len(snapshots) + 1 |-> ViewOf(snapshots'[i])]
      BY <2>1, <2>3 DEF saved, ViewOf, Lookup
    <3> QED BY <3>1, <2>1, <2>4, <1>0
  <2>6. saved' = Append(saved, view)
    <3>1. saved \in Seq(Map) /\ view \in Map
      BY MappedTypes
    <3>2. saved' \in Seq(Map) /\ Len(saved') = Len(snapshots) + 1
      <4>1. \A i \in 1 .. Len(snapshots) : ViewOf(snapshots[i]) \in Map
        BY <3>1, MappedTypes, ElementOfSeq
      <4> QED BY <2>5, <3>1, <4>1, <1>0, IsASeq
    <3>3. /\ Append(saved, view) \in Seq(Map)
          /\ Len(Append(saved, view)) = Len(snapshots) + 1
          /\ \A i \in 1 .. Len(snapshots) : Append(saved, view)[i] = ViewOf(snapshots[i])
          /\ Append(saved, view)[Len(snapshots) + 1] = view
      BY <3>1, <1>0, MappedTypes, AppendProperties
    <3>4. ASSUME NEW i \in 1 .. Len(snapshots) + 1
          PROVE  saved'[i] = Append(saved, view)[i]
      BY <2>5, <3>3, <1>0
    <3> QED BY <3>2, <3>3, <3>4, SeqEqual
  <2>7. A!Snapshot
    BY <1>3, <2>2, <2>3, <2>6, MappedTypes DEF Snapshot, A!Snapshot
  <2> QED BY <2>7 DEF A!Next
<1>4. ASSUME NEW id \in -1 .. MaxSnapshots, RevertToSnapshot(id) PROVE A!Next
  <2>1. CASE ~(id < 0 \/ id >= Len(snapshots))
    <3>1. id \in 0 .. Len(snapshots) - 1 /\ id + 1 \in 1 .. Len(snapshots)
      BY <2>1, <1>0
    <3>2. /\ dirty' = snapshots[id + 1].dirty
          /\ deleted' = snapshots[id + 1].deleted
          /\ snapshots' = SubSeq(snapshots, 1, id)
          /\ db' = db
      BY <1>4, <2>1 DEF RevertToSnapshot
    <3>3. view' = saved[id + 1]
      BY <3>1, <3>2, MappedTypes DEF view, get, ViewOf, Lookup
    <3>4. Len(snapshots') = id /\ \A i \in 1 .. id : snapshots'[i] = snapshots[i]
      BY <3>1, <3>2, <1>0
    <3>5. saved' = [i \in 1 .. id |-> ViewOf(snapshots[i])]
      BY <3>2, <3>4 DEF saved, ViewOf, Lookup
    <3>6. SubSeq(saved, 1, id) = [i \in 1 .. id |-> saved[i]]
      BY <3>1, <1>0, MappedTypes
    <3>7. saved' = SubSeq(saved, 1, id)
      BY <3>5, <3>6, <3>1, <1>0, MappedTypes
    <3>8. A!RevertToSnapshot(id)
      BY <3>1, <3>2, <3>3, <3>7, MappedTypes DEF A!RevertToSnapshot, A!Live
    <3> QED BY <3>8 DEF A!Next
  <2>2. CASE id < 0 \/ id >= Len(snapshots)
    <3>1. UNCHANGED vars
      BY <1>4, <2>2 DEF RevertToSnapshot
    <3>2. UNCHANGED <<view, saved, db>>
      BY <3>1 DEF vars, view, get, Lookup, saved, ViewOf
    <3>3. A!RevertToSnapshot(id)
      BY <2>2, <3>2, <1>0, MappedTypes DEF A!RevertToSnapshot, A!Live, A!vars
    <3> QED BY <3>3 DEF A!Next
  <2> QED BY <2>1, <2>2
<1>5. CASE UNCHANGED vars
  BY <1>5 DEF vars, A!vars, view, get, Lookup, saved, ViewOf
<1>6. CASE Commit
  <2>1. CASE db' = Flushed /\ dirty' = Empty /\ deleted' = {} /\ snapshots' = << >>
    <3>1. view' = view /\ db' = view
      BY <2>1 DEF Flushed, Empty, view, get, Lookup, Map
    <3>2. saved' = << >>
      BY <2>1 DEF saved
    <3>3. A!Commit
      BY <3>1, <3>2 DEF A!Commit, A!Flush
    <3> QED BY <3>3 DEF A!Next
  <2> QED BY <1>5, <1>6, <2>1 DEF Commit
<1>7. CASE Crash
  <2>1. view' = db /\ db' = db
    BY <1>7 DEF Crash, Empty, view, get, Lookup, Map
  <2>2. saved' = << >>
    BY <1>7 DEF Crash, saved
  <2>3. A!Crash
    BY <2>1, <2>2 DEF A!Crash
  <2> QED BY <2>3 DEF A!Next
<1> QED BY <1>1, <1>2, <1>3, <1>4, <1>5, <1>6, <1>7 DEF Next

\* StateDB implements Store: the buffer, its copies and the database are
\* together a map, a stack of earlier maps and a durable map, and no caller
\* can tell the difference (statedb.go as a whole).
THEOREM Refinement == Spec => RefinesStore
<1>1. Init => A!Init
  <2> SUFFICES ASSUME Init PROVE A!Init
    OBVIOUS
  <2>1. view = db
    BY DEF Init, view, get, Lookup, Empty, Map
  <2>2. saved = << >>
    BY DEF Init, saved
  <2> QED BY <2>1, <2>2 DEF Init, A!Init, A!Map, Map
<1>2. TypeOK /\ TypeOK' /\ [Next]_vars => [A!Next]_(A!vars)
  BY StepRefines
<1> QED BY <1>1, <1>2, TypeCorrect, PTL DEF Spec, RefinesStore, A!Spec
=============================================================================
