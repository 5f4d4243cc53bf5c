----------------------------- MODULE PeerTable -----------------------------
(***************************************************************************)
(* network/node.go and network/peer.go: the table of peers, the goroutine  *)
(* that accepts connections (acceptLoop), the one per connection that      *)
(* reads it (readLoop), and main, which dials the seed peers and at the    *)
(* end stops the node.  n.mu guards the table, each peer's mutex its       *)
(* connection; Send holds the latter while it writes.  An action is what   *)
(* runs under one lock.                                                    *)
(***************************************************************************)
EXTENDS Integers, FiniteSets

CONSTANTS
    Inbound,    \* connections that arrive, numbered in that order
    Outbound,   \* connections to the seed peers
    RemoteAddr, \* the address each inbound one comes from; may come again
    SeedId,     \* the configured ID of each seed peer; need not be unique
    None,
    MaxPeers,   \* DefaultMaxPeers
    MaxGone     \* bound on the peers that fall silent

Conn == Inbound \cup Outbound

\* An inbound connection's ID is its RemoteAddr().
ID(c) == IF c \in Inbound THEN RemoteAddr[c] ELSE SeedId[c]

Id == {ID(c) : c \in Conn}

ASSUME MaxPeersAssumption == MaxPeers \in Nat

ASSUME ArrivalAssumption == Inbound \subseteq Nat

ASSUME ConnAssumption ==
    /\ IsFiniteSet(Id)
    /\ Inbound \cap Outbound = {}
    /\ None \notin Conn

VARIABLES
    peers,      \* Node.peers
    pc,         \* how far the goroutine that handles a connection is
    closed,     \* the connections closed at this end
    gone,       \* the connections on which nothing arrives any more
    holder,     \* who holds the mutex of a peer: "main", "loop" or None
    listening,  \* the listener is open
    main,       \* how far main is
    current     \* the seed connection main is busy with, or None

vars == <<peers, pc, closed, gone, holder, listening, main, current>>

ConnPC == {"new", "accepted", "admitted", "dialed", "read", "handle", "reply", "fail", "delete", "done"}

MainPC == {"dial", "hello", "lookup", "request", "run", "stop", "closing", "stopped"}

TypeOK ==
    /\ peers \in [Id -> Conn \cup {None}]
    /\ pc \in [Conn -> ConnPC]
    /\ closed \subseteq Conn
    /\ gone \subseteq Conn
    /\ holder \in [Conn -> {"main", "loop", None}]
    /\ listening \in BOOLEAN
    /\ main \in MainPC
    /\ current \in Conn \cup {None}

Init ==
    /\ peers = [i \in Id |-> None]
    /\ pc = [c \in Conn |-> "new"]
    /\ closed = {}
    /\ gone = {}
    /\ holder = [c \in Conn |-> None]
    /\ listening = TRUE
    /\ main = "dial"
    /\ current = None

\* Stop keeps n.mu until it has closed every peer in the table.
Unlocked == main # "closing"

Goto(c, label) == pc' = [pc EXCEPT ![c] = label]

Registered == {i \in Id : peers[i] # None}

-----------------------------------------------------------------------------
(* Send: the peer's mutex is held for as long as the write takes. *)

BeginSend(c, who) ==
    /\ holder[c] = None
    /\ c \notin closed
    /\ holder' = [holder EXCEPT ![c] = who]

\* Mutant: no write deadline, so a write to a silent peer never ends.
EndSendWithoutDeadline(c, who) ==
    \/ /\ holder[c] = None
       /\ c \in closed
       /\ UNCHANGED holder
    \/ /\ holder[c] = who
       /\ c \notin gone
       /\ holder' = [holder EXCEPT ![c] = None]

\* A closed peer refuses; a write is over by its deadline at the latest.
EndSend(c, who) ==
    \/ /\ holder[c] = None
       /\ c \in closed
       /\ UNCHANGED holder
    \/ /\ holder[c] = who
       /\ holder' = [holder EXCEPT ![c] = None]

-----------------------------------------------------------------------------
(* acceptLoop: one goroutine, so it handles one connection at a time. *)

Accepting == \A c \in Inbound : pc[c] \notin {"accepted", "admitted"}

\* The kernel has one connection from an address at a time: the other end may
\* connect from it again once the earlier connection is over at either end,
\* which its readLoop may not have seen yet.
AddressFree(c) ==
    \A d \in Inbound \ {c} :
      RemoteAddr[d] = RemoteAddr[c] /\ pc[d] # "new" => d \in closed \cup gone

Accept(c) ==
    /\ listening
    /\ Accepting
    /\ pc[c] = "new"
    /\ \A d \in Inbound : d < c => pc[d] # "new"
    /\ AddressFree(c)
    /\ Goto(c, "accepted")
    /\ UNCHANGED <<peers, closed, gone, holder, listening, main, current>>

\* Mutant: > for >=.
AdmitOneMore(c) ==
    /\ pc[c] = "accepted"
    /\ Unlocked
    /\ IF Cardinality(Registered) > MaxPeers
       THEN Goto(c, "done") /\ closed' = closed \cup {c}
       ELSE Goto(c, "admitted") /\ UNCHANGED closed
    /\ UNCHANGED <<peers, gone, holder, listening, main, current>>

\* The table is counted under a read lock that is released again.
Admit(c) ==
    /\ pc[c] = "accepted"
    /\ Unlocked
    /\ IF Cardinality(Registered) >= MaxPeers
       THEN Goto(c, "done") /\ closed' = closed \cup {c}
       ELSE Goto(c, "admitted") /\ UNCHANGED closed
    /\ UNCHANGED <<peers, gone, holder, listening, main, current>>

\* Enter the connection in the table and start its readLoop.
Insert(c) ==
    /\ pc[c] = "admitted"
    /\ Unlocked
    /\ peers' = [peers EXCEPT ![ID(c)] = c]
    /\ Goto(c, "read")
    /\ UNCHANGED <<closed, gone, holder, listening, main, current>>

-----------------------------------------------------------------------------
(* main: AddPeer and SyncWithPeer for each seed peer, then Stop. *)

\* Connect succeeds, or fails and main goes on with the next seed peer.
Dial(c) ==
    /\ main = "dial"
    /\ current = None
    /\ pc[c] = "new"
    /\ \/ Goto(c, "dialed") /\ current' = c
       \/ Goto(c, "done") /\ UNCHANGED current
    /\ UNCHANGED <<peers, closed, gone, holder, listening, main>>

\* AddPeer enters the peer under the configured ID, whatever is there, and
\* starts its readLoop.
Register(c) ==
    /\ current = c
    /\ pc[c] = "dialed"
    /\ peers' = [peers EXCEPT ![ID(c)] = c]
    /\ Goto(c, "read")
    /\ main' = "hello"
    /\ UNCHANGED <<closed, gone, holder, listening, current>>

SendHello ==
    /\ main = "hello"
    /\ \/ BeginSend(current, "main") /\ UNCHANGED main
       \/ EndSend(current, "main") /\ main' = "lookup"
    /\ UNCHANGED <<peers, pc, closed, gone, listening, current>>

\* Peer(sp.ID): the entry may be gone by now, or be another connection's.
Lookup ==
    /\ main = "lookup"
    /\ LET found == peers[ID(current)]
       IN  /\ current' = found
           /\ main' = IF found = None THEN "dial" ELSE "request"
    /\ UNCHANGED <<peers, pc, closed, gone, holder, listening>>

\* SyncWithPeer's request; then on to the next seed peer.
SendRequest ==
    /\ main = "request"
    /\ \/ BeginSend(current, "main") /\ UNCHANGED <<main, current>>
       \/ EndSend(current, "main") /\ main' = "dial" /\ current' = None
    /\ UNCHANGED <<peers, pc, closed, gone, listening>>

Serve ==
    /\ main = "dial"
    /\ current = None
    /\ \A c \in Outbound : pc[c] # "new"
    /\ main' = "run"
    /\ UNCHANGED <<peers, pc, closed, gone, holder, listening, current>>

\* Mutant: the listener is left open.
StopKeepsListening ==
    /\ main = "run"
    /\ main' = "stop"
    /\ UNCHANGED <<peers, pc, closed, gone, holder, listening, current>>

\* A signal arrives; Stop closes stopCh and the listener.
StopListener ==
    /\ main = "run"
    /\ main' = "stop"
    /\ listening' = FALSE
    /\ UNCHANGED <<peers, pc, closed, gone, holder, current>>

StopLock ==
    /\ main = "stop"
    /\ main' = "closing"
    /\ UNCHANGED <<peers, pc, closed, gone, holder, listening, current>>

\* Under n.mu, close the peers in the table one by one, in any order; Close
\* waits for the peer's mutex.
StopClose(c) ==
    /\ main = "closing"
    /\ \E i \in Id : peers[i] = c
    /\ c \notin closed
    /\ holder[c] = None
    /\ closed' = closed \cup {c}
    /\ UNCHANGED <<peers, pc, gone, holder, listening, main, current>>

StopDone ==
    /\ main = "closing"
    /\ \A i \in Registered : peers[i] \in closed
    /\ main' = "stopped"
    /\ UNCHANGED <<peers, pc, closed, gone, holder, listening, current>>

-----------------------------------------------------------------------------
(* readLoop *)

ReceiveMessage(c) ==
    /\ pc[c] = "read"
    /\ c \notin closed \cup gone
    /\ Goto(c, "handle")
    /\ UNCHANGED <<peers, closed, gone, holder, listening, main, current>>

\* Look the handler up under n.mu: there is none or it does not answer, it
\* answers, or it panics, which ends the loop.
Handle(c) ==
    /\ pc[c] = "handle"
    /\ Unlocked
    /\ \E label \in {"read", "reply", "fail"} : Goto(c, label)
    /\ UNCHANGED <<peers, closed, gone, holder, listening, main, current>>

Reply(c) ==
    /\ pc[c] = "reply"
    /\ \/ BeginSend(c, "loop") /\ UNCHANGED pc
       \/ EndSend(c, "loop") /\ Goto(c, "read")
    /\ UNCHANGED <<peers, closed, gone, listening, main, current>>

\* Mutant: no read deadline, so only a connection closed here ends the loop.
ReceiveWithoutDeadline(c) ==
    /\ pc[c] = "read"
    /\ c \in closed
    /\ Goto(c, "fail")
    /\ UNCHANGED <<peers, closed, gone, holder, listening, main, current>>

\* Receive returns an error: the connection is closed at one end, nothing came
\* for 30 seconds, or what came is no message.
ReceiveError(c) ==
    /\ pc[c] = "read"
    /\ Goto(c, "fail")
    /\ UNCHANGED <<peers, closed, gone, holder, listening, main, current>>

\* Mutant: the entry is deleted first, the connection closed after that.
DeleteThenClose(c) ==
    /\ pc[c] = "fail"
    /\ Unlocked
    /\ peers' = [peers EXCEPT ![ID(c)] = None]
    /\ Goto(c, "delete")
    /\ UNCHANGED <<closed, gone, holder, listening, main, current>>

\* The deferred function: close the connection, then delete the entry under
\* its ID, whichever connection that is.
Close(c) ==
    /\ pc[c] = "fail"
    /\ holder[c] = None
    /\ closed' = closed \cup {c}
    /\ Goto(c, "delete")
    /\ UNCHANGED <<peers, gone, holder, listening, main, current>>

Delete(c) ==
    /\ pc[c] = "delete"
    /\ Unlocked
    /\ peers' = [peers EXCEPT ![ID(c)] = None]
    /\ Goto(c, "done")
    /\ UNCHANGED <<closed, gone, holder, listening, main, current>>

\* The other end crashes, hangs or hangs up.
GoAway(c) ==
    /\ pc[c] \in {"accepted", "admitted", "dialed", "read", "handle", "reply"}
    /\ c \notin gone
    /\ Cardinality(gone) < MaxGone
    /\ gone' = gone \cup {c}
    /\ UNCHANGED <<peers, pc, closed, holder, listening, main, current>>

-----------------------------------------------------------------------------
AcceptLoop == \E c \in Inbound : Admit(c) \/ Insert(c)

Main ==
    \/ \E c \in Outbound : Dial(c) \/ Register(c)
    \/ SendHello \/ Lookup \/ SendRequest \/ Serve
    \/ StopLock \/ StopDone
    \/ \E c \in Conn : StopClose(c)

ReadLoop(c) == ReceiveMessage(c) \/ Handle(c) \/ Reply(c) \/ ReceiveError(c) \/ Close(c) \/ Delete(c)

Next ==
    \/ \E c \in Inbound : Accept(c)
    \/ AcceptLoop
    \/ Main
    \/ StopListener
    \/ \E c \in Conn : ReadLoop(c) \/ GoAway(c)

Spec == Init /\ [][Next]_vars

\* The Go scheduler runs every goroutine that can run, and deadlines expire.
\* Nobody has to connect, to hang up or to stop the node.
Fairness ==
    /\ WF_vars(AcceptLoop)
    /\ WF_vars(Main)
    /\ \A c \in Conn : WF_vars(ReadLoop(c))

FairSpec == Spec /\ Fairness

-----------------------------------------------------------------------------
\* The connections that are read and not yet closed.
Open == {c \in Conn : pc[c] \in {"read", "handle", "reply", "fail", "delete"} /\ c \notin closed}

\* Another connection with the ID of c has been made: from the same address, or
\* to a seed peer configured under the same ID.
Shared(c) == \E d \in Conn \ {c} : ID(d) = ID(c) /\ pc[d] # "new"

\* It has taken the place of c in the table, or deleted c from it.
Lost(c) == Shared(c) /\ peers[ID(c)] # c

\* However connections arrive while main dials and others end, no more than
\* MaxPeers inbound ones are open, not counting those that lost their entry to
\* another of the same ID, which len(n.peers) does not count either: the count
\* is taken before the lock that inserts, and an entry is deleted only once its
\* connection is closed (node.go acceptLoop, readLoop).
InboundBounded == Cardinality({c \in Open \cap Inbound : ~Lost(c)}) <= MaxPeers

\* An open connection is in the table under its ID, where Broadcast, Peer and
\* Stop find it, unless another connection of that ID was made (node.go
\* AddPeer, acceptLoop, readLoop's deferred delete, which is by ID).
OpenIsRegistered == \A c \in Open : peers[ID(c)] = c \/ Shared(c)

\* Once Stop has returned, every connection it could know of is closed: what
\* is open was in acceptLoop's hands when the listener closed, at most one, or
\* lost its entry to another of the same ID (node.go Stop).
StopCloses ==
    main = "stopped" =>
      \A c, d \in Open : ~Lost(c) /\ ~Lost(d) => c \in Inbound /\ c = d

\* Peers that fall silent are dropped from the table, so they do not use up
\* MaxPeers for ever (peer.go Receive, "A 30-second read deadline prevents a
\* stalled peer from blocking indefinitely").  As gone only grows, each of them
\* leaves.
SilentPeersLeave == (gone # {}) ~> (\A c \in gone : peers[ID(c)] # c)

\* Stop returns, although it waits, with the table locked, for peers that are
\* being written to (node.go Stop, peer.go Send and Close).
StopReturns == (main = "stop") ~> (main = "stopped")
=============================================================================
