-------------------------- MODULE PeerTableProofs --------------------------
(***************************************************************************)
(* PeerTable for any number of connections and seed peers, any limit and   *)
(* any assignment of addresses and IDs, repeated ones included: the        *)
(* inbound limit holds for the connections that did not lose their entry   *)
(* to another of the same ID, the others are in the table, and Stop closes *)
(* what it can know of.                                                    *)
(***************************************************************************)
EXTENDS PeerTable, FiniteSetTheorems, TLAPS

\* main is busy with a connection exactly while it dials or sends; a dialled
\* connection that is not yet in the table is the one main is busy with.
MainBusy ==
    /\ main \in {"hello", "lookup", "request"} => current \in Conn
    /\ \A c \in Conn : pc[c] = "dialed" => main = "dial" /\ current = c

\* The connections acceptLoop has in hand: one goroutine, so at most one.
InHand(c) == pc[c] \in {"accepted", "admitted"}

AcceptOne == \A c, d \in Inbound : InHand(c) /\ InHand(d) => c = d

AcceptsInbound == \A c \in Outbound : ~InHand(c)

\* The open connections that have not lost their entry in the table.
Kept == {c \in Open : ~Lost(c)}

Counted == {c \in Open \cap Inbound : ~Lost(c)}

\* Until an admitted connection is entered, its place is kept free.
RoomForAdmitted ==
    \A c \in Inbound : pc[c] = "admitted" => Cardinality(Counted) < MaxPeers

\* Stop closes the listener first.
ListenerFirst == listening => main \notin {"stop", "closing", "stopped"}

\* After Stop, a connection that is open and in the table or about to be is
\* inbound and the one acceptLoop had in hand.
StoppedLeft ==
    main = "stopped" =>
      /\ \A c \in Kept : c \in Inbound
      /\ \A c, d \in Inbound : (InHand(c) \/ c \in Kept) /\ (InHand(d) \/ d \in Kept) => c = d

\* The invariant of the goroutines, without the table.
Control == TypeOK /\ MainBusy /\ AcceptOne /\ AcceptsInbound /\ ListenerFirst

\* Every connection has an ID.
LEMMA IdType == \A c \in Conn : ID(c) \in Id
  BY DEF Id

\* The initial state has every invariant.
LEMMA InitControl == Init => Control
<1> SUFFICES ASSUME Init PROVE Control
  OBVIOUS
<1>1. TypeOK
  BY DEF Init, TypeOK, ConnPC, MainPC
<1>2. MainBusy /\ AcceptOne /\ AcceptsInbound
  BY DEF Init, MainBusy, AcceptOne, AcceptsInbound, InHand, Conn
<1>3. ListenerFirst
  BY DEF Init, ListenerFirst
<1> QED BY <1>1, <1>2, <1>3 DEF Control

USE DEF Goto

\* acceptLoop keeps Control (node.go acceptLoop).
LEMMA AcceptKeepsControl ==
    ASSUME Control, NEW c \in Inbound, Accept(c) \/ Admit(c) \/ Insert(c)
    PROVE  Control'
<1> USE DEF Control, TypeOK, MainBusy, AcceptOne, AcceptsInbound, InHand, ListenerFirst,
            ConnPC, MainPC, Conn
<1> USE IdType, ConnAssumption
<1>1. CASE Accept(c)
  BY <1>1 DEF Accept, Accepting
<1>2. CASE Admit(c)
  BY <1>2 DEF Admit
<1>3. CASE Insert(c)
  BY <1>3 DEF Insert
<1> QED BY <1>1, <1>2, <1>3

\* main keeps Control (main.go, node.go AddPeer and Stop).
LEMMA MainKeepsControl ==
    ASSUME Control, Main \/ StopListener
    PROVE  Control'
<1> USE DEF Control, TypeOK, MainBusy, AcceptOne, AcceptsInbound, InHand, ListenerFirst,
            ConnPC, MainPC, Conn
<1> USE IdType, ConnAssumption
<1>1. ASSUME NEW c \in Outbound, Dial(c) PROVE Control'
  BY <1>1 DEF Dial
<1>2. ASSUME NEW c \in Outbound, Register(c) PROVE Control'
  BY <1>2 DEF Register
<1>3. CASE SendHello
  BY <1>3 DEF SendHello, BeginSend, EndSend
<1>4. CASE Lookup
  BY <1>4 DEF Lookup
<1>5. CASE SendRequest
  BY <1>5 DEF SendRequest, BeginSend, EndSend
<1>6. CASE Serve
  BY <1>6 DEF Serve
<1>7. CASE StopListener \/ StopLock \/ StopDone
  <2>1. TypeOK' /\ MainBusy' /\ AcceptOne' /\ AcceptsInbound'
    BY <1>7 DEF StopListener, StopLock, StopDone
  <2>2. ~listening'
    BY <1>7, Zenon DEF StopListener, StopLock, StopDone
  <2> QED BY <2>1, <2>2, Zenon
<1>8. ASSUME NEW c \in Conn, StopClose(c) PROVE Control'
  BY <1>8 DEF StopClose
<1> QED BY <1>1, <1>2, <1>3, <1>4, <1>5, <1>6, <1>7, <1>8 DEF Main

\* The goroutine of a connection keeps Control (node.go readLoop).
LEMMA ReadKeepsControl ==
    ASSUME Control, NEW c \in Conn, ReadLoop(c) \/ GoAway(c)
    PROVE  Control'
<1> USE DEF Control, TypeOK, MainBusy, AcceptOne, AcceptsInbound, InHand, ListenerFirst,
            ConnPC, MainPC, Conn
<1> USE IdType, ConnAssumption
<1>1. CASE ReceiveMessage(c) \/ Handle(c) \/ ReceiveError(c)
  BY <1>1 DEF ReceiveMessage, Handle, ReceiveError
<1>2. CASE Reply(c)
  BY <1>2 DEF Reply, BeginSend, EndSend
<1>3. CASE Close(c) \/ Delete(c) \/ GoAway(c)
  BY <1>3 DEF Close, Delete, GoAway
<1> QED BY <1>1, <1>2, <1>3 DEF ReadLoop

\* The control invariant holds in every state.
THEOREM ControlHolds == Spec => []Control
<1>1. Control /\ [Next]_vars => Control'
  <2> SUFFICES ASSUME Control, [Next]_vars PROVE Control'
    OBVIOUS
  <2>1. CASE UNCHANGED vars
    BY <2>1 DEF vars, Control, TypeOK, MainBusy, AcceptOne, AcceptsInbound, InHand,
                ListenerFirst
  <2> QED BY <2>1, AcceptKeepsControl, MainKeepsControl, ReadKeepsControl
          DEF Next, AcceptLoop
<1> QED BY <1>1, InitControl, PTL DEF Spec

-----------------------------------------------------------------------------
(* The table. *)

\* A step adds no open connection, or enters one in the table and keeps what
\* is registered under other IDs (node.go acceptLoop, AddPeer, readLoop).
LEMMA OpenGrows ==
    ASSUME Control, Next
    PROVE  \/ Open' \subseteq Open
           \/ \E c \in Inbound : Insert(c)
           \/ \E c \in Outbound : Register(c)
<1> USE DEF Control, TypeOK, Conn, Open
<1>1. ASSUME NEW c \in Inbound, Accept(c) \/ Admit(c) PROVE Open' \subseteq Open
  BY <1>1 DEF Accept, Admit
<1>2. ASSUME NEW c \in Outbound, Dial(c) PROVE Open' \subseteq Open
  BY <1>2 DEF Dial
<1>3. CASE SendHello \/ Lookup \/ SendRequest \/ Serve \/ StopListener \/ StopLock \/ StopDone
  BY <1>3 DEF SendHello, Lookup, SendRequest, Serve, StopListener, StopLock, StopDone
<1>4. ASSUME NEW c \in Conn, StopClose(c) \/ GoAway(c) PROVE Open' \subseteq Open
  BY <1>4 DEF StopClose, GoAway
<1>5. ASSUME NEW c \in Conn, ReadLoop(c) PROVE Open' \subseteq Open
  BY <1>5 DEF ReadLoop, ReceiveMessage, Handle, Reply, ReceiveError, Close, Delete
<1> QED BY <1>1, <1>2, <1>3, <1>4, <1>5 DEF Next, AcceptLoop, Main

\* A step leaves the entry of an open connection alone, unless it enters or
\* deletes one of the same ID (node.go acceptLoop, AddPeer, readLoop).
LEMMA EntriesStay ==
    ASSUME Control, Next
    PROVE  \/ peers' = peers
           \/ \E c \in Inbound : Insert(c)
           \/ \E c \in Outbound : Register(c)
           \/ \E c \in Conn : Delete(c)
<1>1. ASSUME NEW c \in Conn, Accept(c) \/ Admit(c) \/ Dial(c) \/ StopClose(c) \/ GoAway(c)
      PROVE  peers' = peers
  BY <1>1 DEF Accept, Admit, Dial, StopClose, GoAway
<1>2. CASE SendHello \/ Lookup \/ SendRequest \/ Serve \/ StopListener \/ StopLock \/ StopDone
  BY <1>2 DEF SendHello, Lookup, SendRequest, Serve, StopListener, StopLock, StopDone
<1>3. ASSUME NEW c \in Conn, ReceiveMessage(c) \/ Handle(c) \/ Reply(c) \/ ReceiveError(c) \/ Close(c)
      PROVE  peers' = peers
  BY <1>3 DEF ReceiveMessage, Handle, Reply, ReceiveError, Close
<1> QED BY <1>1, <1>2, <1>3 DEF Next, AcceptLoop, Main, ReadLoop, Conn

\* A connection is made once (node.go acceptLoop, AddPeer).
LEMMA MadeOnce ==
    ASSUME Control, Next, NEW d \in Conn, pc[d] # "new"
    PROVE  pc'[d] # "new"
  BY DEF Next, AcceptLoop, Main, ReadLoop, Accept, Admit, Insert, Dial, Register, SendHello,
         Lookup, SendRequest, Serve, StopListener, StopLock, StopClose, StopDone,
         ReceiveMessage, Handle, Reply, ReceiveError, Close, Delete, GoAway, Control, TypeOK,
         Conn

\* So an ID that is shared stays shared.
LEMMA SharedStays ==
    ASSUME Control, Next, NEW c \in Conn, Shared(c)
    PROVE  Shared(c)'
<1>1. PICK d \in Conn \ {c} : ID(d) = ID(c) /\ pc[d] # "new"
  BY DEF Shared
<1>2. pc'[d] # "new"
  BY <1>1, MadeOnce
<1> QED BY <1>1, <1>2 DEF Shared

\* A step keeps open connections in the table (node.go readLoop's deferred
\* delete comes after the close), or makes another of the same ID.
LEMMA RegisteredStep ==
    ASSUME Control, OpenIsRegistered, [Next]_vars
    PROVE  OpenIsRegistered'
<1>1. CASE UNCHANGED vars
  BY <1>1 DEF vars, Open, OpenIsRegistered, Shared
<1>2. CASE Next
  <2> SUFFICES ASSUME NEW d \in Open', ~Shared(d)' PROVE peers'[ID(d)] = d
    BY DEF OpenIsRegistered
  <2>0. d \in Conn /\ ~Shared(d)
    BY <1>2, SharedStays DEF Open
  <2>1. ASSUME NEW c \in Conn \ {d}, pc'[c] # "new" PROVE ID(c) # ID(d)
    BY <2>0, <2>1 DEF Shared
  <2>2. ASSUME NEW c \in Conn, Insert(c) \/ Register(c) PROVE peers'[ID(d)] = d
    <3>1. /\ pc' = [pc EXCEPT ![c] = "read"]
          /\ peers' = [peers EXCEPT ![ID(c)] = c]
          /\ closed' = closed
      BY <2>2 DEF Insert, Register
    <3>2. CASE c = d
      BY <2>0, <3>1, <3>2, IdType DEF Control, TypeOK
    <3>3. CASE c # d
      <4>1. ID(c) # ID(d)
        BY <2>1, <3>1, <3>3 DEF Control, TypeOK
      <4>2. d \in Open
        BY <2>0, <3>1, <3>3 DEF Open, Control, TypeOK
      <4> QED BY <2>0, <3>1, <4>1, <4>2, IdType DEF OpenIsRegistered, Control, TypeOK
    <3> QED BY <3>2, <3>3
  <2>3. ASSUME NEW c \in Conn, Delete(c) PROVE peers'[ID(d)] = d
    <3>1. /\ pc' = [pc EXCEPT ![c] = "done"]
          /\ peers' = [peers EXCEPT ![ID(c)] = None]
          /\ closed' = closed
      BY <2>3 DEF Delete
    <3>2. c # d
      BY <3>1 DEF Open, Control, TypeOK
    <3>3. ID(c) # ID(d)
      BY <2>1, <3>1, <3>2 DEF Control, TypeOK
    <3>4. d \in Open
      BY <2>0, <3>1, <3>2 DEF Open, Control, TypeOK
    <3> QED BY <2>0, <3>1, <3>3, <3>4, IdType DEF OpenIsRegistered, Control, TypeOK
  <2>4. CASE peers' = peers /\ Open' \subseteq Open
    BY <2>0, <2>4 DEF OpenIsRegistered
  <2> QED BY <1>2, <2>2, <2>3, <2>4, OpenGrows, EntriesStay DEF Conn
<1> QED BY <1>1, <1>2

\* For every assignment of addresses and IDs, an open connection is in the
\* table under its ID unless another of that ID was made (node.go AddPeer,
\* acceptLoop, readLoop).
THEOREM OpenStaysRegistered == Spec => []OpenIsRegistered
<1>1. Init => OpenIsRegistered
  BY DEF Init, OpenIsRegistered, Open
<1> QED BY <1>1, ControlHolds, RegisteredStep, PTL DEF Spec

\* A connection that lost its entry never gets it back (node.go acceptLoop,
\* AddPeer, readLoop).
LEMMA KeptGrows ==
    ASSUME Control, Next
    PROVE  \/ Kept' \subseteq Kept
           \/ \E c \in Inbound : Insert(c) /\ Kept' \subseteq Kept \cup {c}
           \/ \E c \in Outbound : Register(c) /\ Kept' \subseteq Kept \cup {c}
<1>1. ASSUME NEW d \in Open, d \in Open', Lost(d) PROVE Lost(d)'
  <2>0. d \in Conn /\ Shared(d)' /\ peers[ID(d)] # d
    BY <1>1, SharedStays DEF Open, Lost
  <2>1. CASE peers' = peers
    BY <2>0, <2>1 DEF Lost
  <2>2. ASSUME NEW c \in Conn, Insert(c) \/ Register(c) PROVE Lost(d)'
    <3>1. c # d
      BY <2>2 DEF Insert, Register, Open
    <3>2. peers' = [peers EXCEPT ![ID(c)] = c]
      BY <2>2 DEF Insert, Register
    <3> QED BY <2>0, <3>1, <3>2, IdType DEF Lost, Control, TypeOK
  <2>3. ASSUME NEW c \in Conn, Delete(c) PROVE Lost(d)'
    <3>1. peers' = [peers EXCEPT ![ID(c)] = None]
      BY <2>3 DEF Delete
    <3> QED BY <2>0, <3>1, IdType, ConnAssumption DEF Lost, Control, TypeOK
  <2> QED BY <2>1, <2>2, <2>3, EntriesStay DEF Conn
<1>2. ASSUME Open' \subseteq Open PROVE Kept' \subseteq Kept
  BY <1>1, <1>2 DEF Kept
<1>3. ASSUME NEW c \in Conn, Insert(c) \/ Register(c) PROVE Kept' \subseteq Kept \cup {c}
  <2>1. Open' \subseteq Open \cup {c}
    BY <1>3 DEF Insert, Register, Open, Control, TypeOK
  <2> QED BY <1>1, <2>1 DEF Kept
<1> QED BY <1>2, <1>3, OpenGrows DEF Conn

-----------------------------------------------------------------------------
(* The limit. *)

\* There are no more counted connections than entries in the table.
LEMMA OpenAreCounted ==
    ASSUME Control, OpenIsRegistered
    PROVE  /\ IsFiniteSet(Registered)
           /\ IsFiniteSet(Counted)
           /\ Cardinality(Registered) \in Nat
           /\ Cardinality(Counted) \in Nat
           /\ Cardinality(Counted) <= Cardinality(Registered)
<1>1. IsFiniteSet(Registered)
  BY FS_Subset, ConnAssumption DEF Registered
<1>2. \A c \in Counted : c \in Conn /\ peers[ID(c)] = c
  BY DEF Counted, Lost, Open, OpenIsRegistered
<1> DEFINE f == [c \in Counted |-> ID(c)]
<1>3. f \in Injection(Counted, Registered)
  <2>1. \A c \in Counted : ID(c) \in Registered
    BY <1>2, IdType, ConnAssumption DEF Registered
  <2>2. \A c, d \in Counted : f[c] = f[d] => c = d
    BY <1>2
  <2> QED BY <2>1, <2>2 DEF Injection, IsInjective
<1>4. IsFiniteSet(Counted) /\ Cardinality(Counted) <= Cardinality(Registered)
  BY <1>1, <1>3, FS_Injection
<1> QED BY <1>1, <1>4, FS_CardinalityType

Limit == RoomForAdmitted /\ InboundBounded

\* A step keeps the limit (node.go acceptLoop).
LEMMA LimitStep ==
    ASSUME Control, OpenIsRegistered, Limit, Control', OpenIsRegistered', [Next]_vars
    PROVE  Limit'
<1>1. /\ IsFiniteSet(Counted) /\ Cardinality(Counted) \in Nat
      /\ Cardinality(Counted) <= Cardinality(Registered)
      /\ Cardinality(Registered) \in Nat
  BY OpenAreCounted
<1>2. Counted = Kept \cap Inbound /\ Counted' = Kept' \cap Inbound
  BY DEF Counted, Kept
<1>3. InboundBounded <=> Cardinality(Counted) <= MaxPeers
  BY DEF InboundBounded, Counted
<1>4. InboundBounded' <=> Cardinality(Counted') <= MaxPeers
  BY DEF InboundBounded, Counted
<1>5. ASSUME Counted' \subseteq Counted,
             \A d \in Inbound : pc'[d] = "admitted" => Cardinality(Counted) < MaxPeers
      PROVE  Limit'
  <2>1. Cardinality(Counted') \in Nat /\ Cardinality(Counted') <= Cardinality(Counted)
    BY <1>1, <1>5, FS_Subset, FS_CardinalityType
  <2> QED BY <1>1, <1>3, <1>4, <1>5, <2>1, MaxPeersAssumption DEF Limit, RoomForAdmitted
<1>6. ASSUME NEW c \in Inbound, Insert(c), Kept' \subseteq Kept \cup {c} PROVE Limit'
  <2>1. Counted' \subseteq Counted \cup {c}
    BY <1>2, <1>6
  <2>2. /\ Cardinality(Counted') \in Nat
        /\ Cardinality(Counted') <= Cardinality(Counted) + 1
    <3>1. /\ IsFiniteSet(Counted \cup {c})
          /\ Cardinality(Counted \cup {c})
               = IF c \in Counted THEN Cardinality(Counted) ELSE Cardinality(Counted) + 1
      BY <1>1, FS_AddElement
    <3>2. IsFiniteSet(Counted') /\ Cardinality(Counted') <= Cardinality(Counted \cup {c})
      BY <2>1, <3>1, FS_Subset
    <3> QED BY <1>1, <3>1, <3>2, FS_CardinalityType
  <2>3. Cardinality(Counted) < MaxPeers
    BY <1>6 DEF Limit, RoomForAdmitted, Insert
  <2>4. \A d \in Inbound : pc'[d] # "admitted"
    BY <1>6 DEF Insert, Control, TypeOK, AcceptOne, InHand, Conn
  <2> QED BY <1>1, <1>4, <2>2, <2>3, <2>4, MaxPeersAssumption DEF Limit, RoomForAdmitted
<1>7. ASSUME NEW c \in Outbound, Register(c), Kept' \subseteq Kept \cup {c} PROVE Limit'
  <2>1. Counted' \subseteq Counted
    BY <1>2, <1>7, ConnAssumption
  <2>2. \A d \in Inbound : pc'[d] = "admitted" => pc[d] = "admitted"
    BY <1>7, ConnAssumption DEF Register, Control, TypeOK, Conn
  <2> QED BY <1>5, <2>1, <2>2 DEF Limit, RoomForAdmitted
<1>8. ASSUME Kept' \subseteq Kept, NEW c \in Inbound, Admit(c) PROVE Limit'
  <2>1. \A d \in Inbound : pc'[d] = "admitted" => Cardinality(Counted) < MaxPeers
    BY <1>1, <1>8, MaxPeersAssumption
       DEF Admit, Control, TypeOK, Conn, Limit, RoomForAdmitted
  <2> QED BY <1>2, <1>5, <1>8, <2>1
<1>9. CASE UNCHANGED vars
  BY <1>9 DEF vars, Limit, RoomForAdmitted, InboundBounded, Counted, Lost, Shared, Open
<1>10. ASSUME Next, Kept' \subseteq Kept, ~(\E c \in Inbound : Admit(c)) PROVE Limit'
  <2>1. \A d \in Inbound : pc'[d] = "admitted" => pc[d] = "admitted"
    BY <1>10 DEF Next, AcceptLoop, Main, ReadLoop, Accept, Insert, Dial, Register, SendHello,
                 Lookup, SendRequest, Serve, StopListener, StopLock, StopClose, StopDone,
                 ReceiveMessage, Handle, Reply, ReceiveError, Close, Delete, GoAway, Control,
                 TypeOK, Conn
  <2> QED BY <1>2, <1>5, <1>10, <2>1 DEF Limit, RoomForAdmitted
<1> QED BY <1>6, <1>7, <1>8, <1>9, <1>10, KeptGrows

\* For any limit, any number of connections and any addresses, no more than
\* MaxPeers inbound ones are open that did not lose their entry to another of
\* the same ID (node.go acceptLoop).
THEOREM LimitHolds == Spec => []InboundBounded
<1>1. Init => Limit
  <2> SUFFICES ASSUME Init PROVE Limit
    OBVIOUS
  <2>1. Counted = {}
    BY DEF Init, Open, Counted
  <2>2. \A c \in Inbound : pc[c] # "admitted"
    BY DEF Init, Conn
  <2>3. InboundBounded <=> Cardinality(Counted) <= MaxPeers
    BY DEF InboundBounded, Counted
  <2> QED BY <2>1, <2>2, <2>3, FS_EmptySet, MaxPeersAssumption DEF Limit, RoomForAdmitted
<1>2. Limit => InboundBounded
  BY DEF Limit
<1> QED BY <1>1, <1>2, ControlHolds, OpenStaysRegistered, LimitStep, PTL DEF Spec

-----------------------------------------------------------------------------
(* Stop. *)

\* A step keeps what Stop has achieved (node.go Stop, acceptLoop).
LEMMA StoppedStep ==
    ASSUME Control, OpenIsRegistered, StoppedLeft, [Next]_vars
    PROVE  StoppedLeft'
<1>1. CASE UNCHANGED vars
  BY <1>1 DEF vars, StoppedLeft, InHand, Kept, Lost, Shared, Open
<1>2. CASE StopDone
  <2>1. Kept = {}
    BY <1>2, IdType, ConnAssumption
       DEF StopDone, Registered, OpenIsRegistered, Kept, Lost, Open
  <2>2. Kept' = Kept /\ pc' = pc
    BY <1>2 DEF StopDone, Kept, Lost, Shared, Open
  <2> QED BY <2>1, <2>2 DEF StoppedLeft, Control, AcceptOne, InHand
<1>3. ASSUME Next, ~StopDone PROVE StoppedLeft'
  <2> SUFFICES ASSUME main' = "stopped" PROVE StoppedLeft'
    BY DEF StoppedLeft
  <2>1. main = "stopped"
    BY <1>3 DEF Next, AcceptLoop, Main, ReadLoop, Accept, Admit, Insert, Dial, Register,
                SendHello, Lookup, SendRequest, Serve, StopListener, StopLock, StopClose,
                ReceiveMessage, Handle, Reply, ReceiveError, Close, Delete, GoAway
  <2>2. CASE \E c \in Inbound : Accept(c)
    BY <2>1, <2>2, Zenon DEF Accept, Control, ListenerFirst
  <2>3. ASSUME NEW c \in Conn PROVE ~(c \in Outbound /\ Register(c))
    BY <2>1 DEF Register, Control, MainBusy
  <2>4. ASSUME NEW c \in Inbound, Admit(c) \/ Insert(c) PROVE StoppedLeft'
    <3>1. /\ InHand(c)
          /\ \A d \in Inbound \ {c} : InHand(d)' <=> InHand(d)
      BY <2>4 DEF Admit, Insert, InHand, Control, TypeOK, Conn
    <3>2. Kept' \subseteq Kept \cup {c}
      <4>1. ASSUME NEW d \in Inbound, Insert(d) PROVE d = c
        BY <2>4, <4>1, <3>1 DEF Insert, InHand, Control, AcceptOne
      <4> QED BY <1>3, <2>3, <4>1, KeptGrows DEF Conn
    <3> QED BY <2>1, <3>1, <3>2 DEF StoppedLeft
  <2>5. CASE ~(\E c \in Inbound : Accept(c) \/ Admit(c) \/ Insert(c))
    <3>1. Kept' \subseteq Kept
      BY <1>3, <2>3, <2>5, KeptGrows DEF Conn
    <3>2. \A d \in Inbound : InHand(d)' => InHand(d)
      BY <1>3, <2>3, <2>5
         DEF Next, AcceptLoop, Main, ReadLoop, Dial, SendHello, Lookup, SendRequest, Serve,
             StopListener, StopLock, StopClose, ReceiveMessage, Handle, Reply, ReceiveError,
             Close, Delete, GoAway, Control, TypeOK, Conn, InHand
    <3> QED BY <2>1, <3>1, <3>2 DEF StoppedLeft
  <2> QED BY <2>2, <2>4, <2>5
<1> QED BY <1>1, <1>2, <1>3

\* For any connections and addresses, once Stop has returned what is open is
\* the one connection acceptLoop had in hand, or lost its entry (node.go Stop).
THEOREM StopClosesAll == Spec => []StopCloses
<1>1. Init => StoppedLeft
  BY DEF Init, StoppedLeft
<1>2. StoppedLeft => StopCloses
  BY DEF StoppedLeft, StopCloses, Kept
<1> QED BY <1>1, <1>2, ControlHolds, OpenStaysRegistered, StoppedStep, PTL DEF Spec
=============================================================================
