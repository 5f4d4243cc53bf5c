---------------------------- MODULE NetworkProofs ----------------------------
(***************************************************************************)
(* Proofs about Network: however many nodes there are and wherever they    *)
(* stop, they implement Ledger.                                            *)
(***************************************************************************)
EXTENDS Network, DataLemmas

-----------------------------------------------------------------------------
(* The inductive invariant. *)

\* A block lies at its height in the chain of the node that made it.  The
\* chains are a parameter, so that the ones before and after a step can be told
\* apart.
Made(chains, b) ==
    /\ b.by \in Node
    /\ b.time \in Int
    /\ b.height \in Nat
    /\ b.height < Len(chains[b.by])
    /\ chains[b.by][b.height + 1] = b

ChainOk(chains, n) ==
    /\ IsSeq(chains[n])
    /\ Len(chains[n]) <= MaxHeight + 1
    /\ \A i \in 1 .. Len(chains[n]) :
         /\ chains[n][i].height = i - 1
         /\ Made(chains, chains[n][i])
         /\ i > 1 => chains[n][i].by = ProposerOf(i - 1)

\* A block that is older than its parent was made here.
BackwardsOk(chains, n) ==
    \A h \in 2 .. Len(chains[n]) :
      chains[n][h].time < chains[n][h - 1].time => chains[n][h].by = n

\* The chain is in memory exactly while the node serves it.
LoadedOk(n) ==
    /\ chain[n] = IF Up(n) THEN stored[n] ELSE << >>
    /\ Up(n) => stored[n] # << >>
    /\ phase[n] \in {"fresh", "credited"} => stored[n] = << >>

FundedOk(n) == phase[n] = "credited" \/ stored[n] # << >> => n \in funded

\* Only blocks that were made are under way.
MsgOk(chains, m) ==
    /\ m.from \in Node
    /\ m.to \in Node
    /\ m.type = "get_blocks" => m.first \in Nat
    /\ m.type = "blocks" =>
         /\ m = [type |-> "blocks", from |-> m.from, to |-> m.to, blocks |-> m.blocks,
                 full |-> m.full]
         /\ IsSeq(m.blocks)
         /\ \A j \in 1 .. Len(m.blocks) : Made(chains, m.blocks[j])

Shape ==
    /\ phase \in [Node -> {"down", "fresh", "credited", "listen", "run"}]
    /\ stored = [n \in Node |-> stored[n]]
    /\ chain = [n \in Node |-> chain[n]]

IInv ==
    /\ Shape
    /\ \A n \in Node : ChainOk(stored, n) /\ BackwardsOk(stored, n) /\ LoadedOk(n) /\ FundedOk(n)
    /\ \A m \in msgs : MsgOk(stored, m)

-----------------------------------------------------------------------------
(* Appending a block to one of the chains. *)

\* AddBlock seen from the disk: node n's chain S[n] gets the block b.
Grown(S, n, b, T) ==
    /\ S = [k \in Node |-> S[k]]
    /\ \A k \in Node : IsSeq(S[k])
    /\ T = [S EXCEPT ![n] = Append(S[n], b)]

\* The chain t starts with all of s.
Extends(s, t) ==
    /\ IsSeq(s) /\ IsSeq(t)
    /\ Len(s) \in Nat /\ Len(t) \in Nat
    /\ Len(s) <= Len(t)
    /\ \A i \in 1 .. Len(s) : t[i] = s[i]

\* Every chain keeps what it had.
LEMMA GrownChains ==
    ASSUME NEW S, NEW n \in Node, NEW b, NEW T, Grown(S, n, b, T)
    PROVE  /\ T = [k \in Node |-> T[k]]
           /\ Len(S[n]) \in Nat
           /\ Len(T[n]) = Len(S[n]) + 1
           /\ T[n][Len(S[n]) + 1] = b
           /\ T[n] = Append(S[n], b)
           /\ \A k \in Node : k # n => T[k] = S[k]
           /\ \A k \in Node : Extends(S[k], T[k])
<1>1. /\ T = [k \in Node |-> T[k]]
      /\ T[n] = Append(S[n], b)
      /\ \A k \in Node : k # n => T[k] = S[k]
  BY Zenon DEF Grown
<1>2. \A k \in Node : IsSeq(S[k]) /\ Len(S[k]) \in Nat
  BY IsSeqProperties DEF Grown
<1>3. /\ IsSeq(T[n])
      /\ Len(T[n]) = Len(S[n]) + 1
      /\ T[n][Len(S[n]) + 1] = b
      /\ \A i \in 1 .. Len(S[n]) : T[n][i] = S[n][i]
  <2>1. IsSeq(S[n])
    BY <1>2
  <2>2. /\ IsSeq(Append(S[n], b))
        /\ Len(Append(S[n], b)) = Len(S[n]) + 1
        /\ \A i \in 1 .. Len(S[n]) : Append(S[n], b)[i] = S[n][i]
        /\ Append(S[n], b)[Len(S[n]) + 1] = b
    BY <2>1, AppendIsSeq
  <2> QED BY <1>1, <2>2, Zenon
<1>4. ASSUME NEW k \in Node PROVE Extends(S[k], T[k])
  BY <1>1, <1>2, <1>3 DEF Extends
<1> QED BY <1>1, <1>2, <1>3, <1>4

\* So a block that was made stays where it was made.
LEMMA MadeStays ==
    ASSUME NEW S, NEW n \in Node, NEW b, NEW T, Grown(S, n, b, T), NEW c, Made(S, c)
    PROVE  Made(T, c)
<1>1. /\ c.by \in Node /\ c.height \in Nat
      /\ c.height < Len(S[c.by])
      /\ S[c.by][c.height + 1] = c
  BY DEF Made
<1>2. /\ Len(S[c.by]) \in Nat /\ Len(T[c.by]) \in Nat
      /\ Len(T[c.by]) >= Len(S[c.by])
      /\ \A i \in 1 .. Len(S[c.by]) : T[c.by][i] = S[c.by][i]
  <2>1. Extends(S[c.by], T[c.by])
    BY <1>1, GrownChains, Zenon
  <2> QED BY <2>1 DEF Extends
<1>3. c.height + 1 \in 1 .. Len(S[c.by])
  BY <1>1, <1>2
<1> QED BY <1>1, <1>2, <1>3 DEF Made

\* A block that fits on the chain, made by this node or by another, keeps the
\* chains in order.
LEMMA ChainsStay ==
    ASSUME NEW S, NEW n \in Node, NEW b, NEW T, Grown(S, n, b, T),
           \A k \in Node : ChainOk(S, k) /\ BackwardsOk(S, k),
           Len(S[n]) <= MaxHeight,
           b.height = Len(S[n]),
           Made(T, b),
           Len(S[n]) > 0 => b.by = ProposerOf(Len(S[n])),
           Len(S[n]) > 0 => b.by = n \/ b.time >= S[n][Len(S[n])].time
    PROVE  \A k \in Node : ChainOk(T, k) /\ BackwardsOk(T, k)
<1> DEFINE L == Len(S[n])
<1>1. /\ L \in Nat /\ Len(T[n]) = L + 1 /\ T[n][L + 1] = b /\ IsSeq(T[n])
      /\ \A i \in 1 .. L : T[n][i] = S[n][i]
      /\ \A k \in Node : k # n => T[k] = S[k]
  <2>1. Extends(S[n], T[n])
    BY GrownChains
  <2> QED BY <2>1, GrownChains DEF Extends
<1>2. MaxHeight \in Nat
  BY BoundsAssumption
<1>3. ASSUME NEW k \in Node, NEW i \in 1 .. Len(S[k]) PROVE Made(T, S[k][i])
  BY MadeStays DEF ChainOk
<1>4. ASSUME NEW k \in Node, k # n PROVE ChainOk(T, k) /\ BackwardsOk(T, k)
  BY <1>1, <1>3, <1>4 DEF ChainOk, BackwardsOk
<1>5. ChainOk(T, n)
  <2>1. ASSUME NEW i \in 1 .. L + 1
        PROVE  /\ T[n][i].height = i - 1
               /\ Made(T, T[n][i])
               /\ i > 1 => T[n][i].by = ProposerOf(i - 1)
    <3>1. CASE i = L + 1
      <4>1. T[n][i] = b /\ i - 1 = L /\ (i > 1 => L > 0)
        BY <1>1, <3>1
      <4> QED BY <4>1
    <3>2. CASE i # L + 1
      <4>1. i \in 1 .. L
        BY <1>1, <3>2
      <4>2. T[n][i] = S[n][i] /\ Made(T, S[n][i])
        BY <1>1, <1>3, <4>1
      <4> QED BY <4>1, <4>2 DEF ChainOk
    <3> QED BY <3>1, <3>2
  <2> QED BY <1>1, <1>2, <2>1 DEF ChainOk
<1>6. BackwardsOk(T, n)
  <2> SUFFICES ASSUME NEW h \in 2 .. L + 1, T[n][h].time < T[n][h - 1].time
               PROVE  T[n][h].by = n
    BY <1>1 DEF BackwardsOk
  <2>1. h - 1 \in 1 .. L /\ T[n][h - 1] = S[n][h - 1]
    BY <1>1
  <2>2. CASE h = L + 1
    <3>1. T[n][h] = b /\ h - 1 = L /\ L > 0
      BY <1>1, <2>1, <2>2
    <3>2. b.time \in Int /\ S[n][L].time \in Int
      BY <2>1, <3>1, Zenon DEF Made, ChainOk
    <3> QED BY <2>1, <3>1, <3>2
  <2>3. CASE h # L + 1
    <3>1. h \in 2 .. L
      BY <1>1, <2>3
    <3>2. h \in 1 .. L
      BY <1>1, <3>1
    <3> QED BY <1>1, <2>1, <3>1, <3>2 DEF BackwardsOk
  <2> QED BY <2>2, <2>3
<1> QED BY <1>4, <1>5, <1>6

\* Messages under way stay in order as well.
LEMMA MsgsStay ==
    ASSUME NEW S, NEW n \in Node, NEW b, NEW T, Grown(S, n, b, T), NEW m, MsgOk(S, m)
    PROVE  MsgOk(T, m)
<1>1. m.type = "blocks" => \A j \in 1 .. Len(m.blocks) : Made(T, m.blocks[j])
  BY MadeStays DEF MsgOk
<1> QED BY <1>1 DEF MsgOk

-----------------------------------------------------------------------------
(* The invariant holds. *)

\* The database a founder's was copied from, or none.
LEMMA InitHolds == Init => IInv
<1> SUFFICES ASSUME Init PROVE IInv
  OBVIOUS
<1>1. PICK founder \in Node, copies \in SUBSET Node :
        /\ copies # {} => founder \in copies
        /\ stored = [n \in Node |-> IF n \in copies THEN <<GenesisBlock(founder, 0)>> ELSE << >>]
        /\ funded = copies
  BY Zenon DEF Init
<1> DEFINE g == GenesisBlock(founder, 0)
<1>2. g.height = 0 /\ g.by = founder /\ g.time = 0
  BY DEF GenesisBlock
<1> HIDE DEF g
<1>3. /\ IsSeq(<<g>>) /\ Len(<<g>>) = 1 /\ <<g>>[1] = g
      /\ IsSeq(<< >>) /\ Len(<< >>) = 0
  <2>1. <<g>> \in Seq({g}) /\ << >> \in Seq({g})
    OBVIOUS
  <2> QED BY <2>1, SeqIsSeq, Zenon
<1>4. \A n \in Node : stored[n] = IF n \in copies THEN <<g>> ELSE << >>
  BY <1>1 DEF g
<1>5. copies # {} => Made(stored, g)
  BY <1>1, <1>2, <1>3, <1>4 DEF Made
<1>6. ASSUME NEW n \in Node PROVE ChainOk(stored, n) /\ BackwardsOk(stored, n)
  <2>1. CASE n \in copies
    <3>1. IsSeq(stored[n]) /\ Len(stored[n]) = 1 /\ stored[n][1] = g /\ Made(stored, g)
      BY <1>3, <1>4, <1>5, <2>1
    <3>2. \A i \in 1 .. Len(stored[n]) : i = 1
      BY <3>1
    <3>3. Len(stored[n]) <= MaxHeight + 1
      BY <3>1, BoundsAssumption
    <3>4. ChainOk(stored, n)
      BY <1>2, <3>1, <3>2, <3>3 DEF ChainOk
    <3>5. BackwardsOk(stored, n)
      BY <3>1 DEF BackwardsOk
    <3> QED BY <3>4, <3>5
  <2>2. CASE n \notin copies
    BY <1>3, <1>4, <2>2, BoundsAssumption DEF ChainOk, BackwardsOk
  <2> QED BY <2>1, <2>2
<1>7. ASSUME NEW n \in Node PROVE LoadedOk(n) /\ FundedOk(n)
  BY <1>1, <1>4 DEF Init, LoadedOk, FundedOk, Up
<1>8. Shape /\ \A m \in msgs : MsgOk(stored, m)
  BY <1>1 DEF Init, Shape
<1> QED BY <1>6, <1>7, <1>8 DEF IInv

\* The tip a running node serves is the last block it has stored.
LEMMA TipStored ==
    ASSUME IInv, NEW n \in Node, Up(n)
    PROVE  /\ chain[n] = stored[n]
           /\ IsSeq(stored[n])
           /\ Len(stored[n]) \in Nat \ {0}
           /\ Tip(n) = stored[n][Len(stored[n])]
           /\ Tip(n).height = Len(stored[n]) - 1
           /\ Tip(n).time \in Int
           /\ GetBlocks(n, n).first \in Nat
<1>1. chain[n] = stored[n] /\ stored[n] # << >> /\ ChainOk(stored, n)
  BY DEF IInv, LoadedOk
<1>2. IsSeq(stored[n]) /\ Len(stored[n]) \in Nat \ {0}
  BY <1>1, IsSeqProperties DEF ChainOk
<1>3. Tip(n) = stored[n][Len(stored[n])]
  BY <1>1 DEF Tip
<1>4. Len(stored[n]) \in 1 .. Len(stored[n])
  BY <1>2
<1>5. Tip(n).height = Len(stored[n]) - 1 /\ Tip(n).time \in Int
  BY <1>1, <1>3, <1>4 DEF ChainOk, Made
<1> QED BY <1>1, <1>2, <1>3, <1>5 DEF GetBlocks

\* A request is a message in order.
LEMMA RequestOk ==
    ASSUME IInv, NEW n \in Node, NEW m \in Node, Up(n), NEW S
    PROVE  MsgOk(S, GetBlocks(n, m))
<1>1. Tip(n).height + 1 \in Nat
  BY TipStored
<1> QED BY <1>1 DEF MsgOk, GetBlocks

\* A step that stores nothing keeps the invariant when it keeps the rest.
LEMMA QuietStep ==
    ASSUME IInv, stored' = stored, Shape', \A n \in Node : LoadedOk(n)' /\ FundedOk(n)',
           \A m \in msgs' : MsgOk(stored, m)
    PROVE  IInv'
  BY DEF IInv

\* A step of start-up or shutdown that stores nothing: node n goes to phase p.
LEMMA PhaseStep ==
    ASSUME IInv, NEW n \in Node, NEW p \in {"down", "fresh", "credited", "listen", "run"},
           NEW c,
           phase' = [phase EXCEPT ![n] = p],
           chain' = [chain EXCEPT ![n] = c],
           stored' = stored,
           funded \subseteq funded',
           msgs' \subseteq msgs,
           c = IF p \in {"listen", "run"} THEN stored[n] ELSE << >>,
           p \in {"listen", "run"} => stored[n] # << >>,
           p \in {"fresh", "credited"} => stored[n] = << >>,
           p = "credited" => n \in funded'
    PROVE  IInv'
<1>1. Shape'
  BY DEF IInv, Shape
<1>2. phase'[n] = p /\ chain'[n] = c
  BY DEF IInv, Shape
<1>3. \A k \in Node : k # n => phase'[k] = phase[k] /\ chain'[k] = chain[k]
  BY DEF IInv, Shape
<1>4. ASSUME NEW k \in Node PROVE LoadedOk(k)' /\ FundedOk(k)'
  <2>1. CASE k = n
    BY <1>2, <2>1 DEF IInv, LoadedOk, FundedOk, Up
  <2>2. CASE k # n
    BY <1>3, <2>2 DEF IInv, LoadedOk, FundedOk, Up
  <2> QED BY <2>1, <2>2
<1>5. \A m \in msgs' : MsgOk(stored, m)
  BY DEF IInv
<1> QED BY <1>1, <1>4, <1>5, QuietStep

\* A running node adds a block to its chain.
LEMMA AddStep ==
    ASSUME IInv, NEW n \in Node, NEW b, AddBlock(n, b),
           phase[n] = "credited" \/ Up(n),
           phase' = [phase EXCEPT ![n] = IF Up(n) THEN @ ELSE "listen"],
           funded' = funded,
           \A m \in msgs' : MsgOk(stored', m),
           Len(stored[n]) <= MaxHeight,
           b.height = Len(stored[n]),
           Made(stored', b),
           Len(stored[n]) > 0 => b.by = ProposerOf(Len(stored[n])),
           Len(stored[n]) > 0 => b.by = n \/ b.time >= stored[n][Len(stored[n])].time
    PROVE  IInv'
<1>1. Grown(stored, n, b, stored')
  BY Zenon DEF AddBlock, Grown, IInv, Shape, ChainOk
<1>2. \A k \in Node : ChainOk(stored', k) /\ BackwardsOk(stored', k)
  BY <1>1, ChainsStay DEF IInv
<1>3. chain[n] = stored[n]
  BY DEF IInv, LoadedOk, Up
<1>4. /\ stored' = [k \in Node |-> stored'[k]]
      /\ Len(stored'[n]) = Len(stored[n]) + 1
      /\ Len(stored[n]) \in Nat
      /\ stored'[n] = Append(stored[n], b)
      /\ \A k \in Node : k # n => stored'[k] = stored[k]
  BY <1>1, GrownChains
<1>5. stored'[n] # << >>
  BY <1>4
<1>6. /\ chain' = [k \in Node |-> chain'[k]]
      /\ chain'[n] = stored'[n]
      /\ \A k \in Node : k # n => chain'[k] = chain[k]
  BY <1>3, <1>4, Zenon DEF AddBlock, IInv, Shape
<1>7. /\ phase' \in [Node -> {"down", "fresh", "credited", "listen", "run"}]
      /\ phase'[n] \in {"listen", "run"}
      /\ \A k \in Node : k # n => phase'[k] = phase[k]
  BY DEF IInv, Shape, Up
<1>8. Shape'
  BY <1>4, <1>6, <1>7 DEF Shape
<1>9. ASSUME NEW k \in Node PROVE LoadedOk(k)' /\ FundedOk(k)'
  <2>1. CASE k = n
    BY <1>5, <1>6, <1>7, <2>1 DEF IInv, LoadedOk, FundedOk, Up
  <2>2. CASE k # n
    BY <1>4, <1>6, <1>7, <2>2 DEF IInv, LoadedOk, FundedOk, Up
  <2> QED BY <2>1, <2>2
<1> QED BY <1>2, <1>8, <1>9 DEF IInv

\* What was under way stays in order when a block is added.
LEMMA OldMsgsStay ==
    ASSUME IInv, NEW n \in Node, NEW b, AddBlock(n, b)
    PROVE  \A m \in msgs : MsgOk(stored', m)
<1>1. Grown(stored, n, b, stored')
  BY Zenon DEF AddBlock, Grown, IInv, Shape, ChainOk
<1> QED BY <1>1, MsgsStay DEF IInv

\* A block that node n makes, on top of its chain or as its genesis block, is
\* made.
LEMMA OwnBlockMade ==
    ASSUME IInv, NEW n \in Node, NEW b, AddBlock(n, b), b.by = n, b.time \in Int,
           b.height = Len(stored[n])
    PROVE  Made(stored', b)
<1>1. Grown(stored, n, b, stored')
  BY Zenon DEF AddBlock, Grown, IInv, Shape, ChainOk
<1>2. /\ Len(stored[n]) \in Nat
      /\ Len(stored'[n]) = Len(stored[n]) + 1
      /\ stored'[n][Len(stored[n]) + 1] = b
  BY <1>1, GrownChains
<1> QED BY <1>2 DEF Made

\* cmd/node/main.go: every step of start-up, and stopping.
LEMMA StartUpHolds ==
    ASSUME IInv, NEW n \in Node, StartUp(n) \/ Stop(n)
    PROVE  IInv'
<1>0. /\ phase = [k \in Node |-> phase[k]]
      /\ chain = [k \in Node |-> chain[k]]
      /\ LoadedOk(n)
  BY DEF IInv, Shape
<1>1. CASE InitChain(n)
  <2>1. CASE stored[n] = << >>
    <3>1. phase' = [phase EXCEPT ![n] = "fresh"] /\ chain' = [chain EXCEPT ![n] = << >>]
          /\ stored' = stored /\ funded' = funded /\ msgs' = msgs
      BY <1>1, <2>1 DEF InitChain, Goto
    <3> QED BY <2>1, <3>1, PhaseStep, Zenon
  <2>2. CASE stored[n] # << >>
    <3>1. phase' = [phase EXCEPT ![n] = "listen"] /\ chain' = [chain EXCEPT ![n] = stored[n]]
          /\ stored' = stored /\ funded' = funded /\ msgs' = msgs
      BY <1>1, <2>2 DEF InitChain, Start, Goto
    <3> QED BY <2>2, <3>1, PhaseStep, Zenon
  <2> QED BY <2>1, <2>2
<1>2. CASE CreditAlloc(n)
  <2>1. stored[n] = << >> /\ chain[n] = << >>
    BY <1>0, <1>2 DEF CreditAlloc, LoadedOk, Up
  <2>2. /\ phase' = [phase EXCEPT ![n] = "credited"]
        /\ chain' = [chain EXCEPT ![n] = << >>]
        /\ stored' = stored /\ funded' = funded \cup {n} /\ msgs' = msgs
    BY <1>0, <1>2, <2>1 DEF CreditAlloc, Goto
  <2> QED BY <2>1, <2>2, PhaseStep, Zenon
<1>3. CASE AddGenesis(n)
  <2>1. PICK now \in Time : AddBlock(n, GenesisBlock(n, now))
    BY <1>3 DEF AddGenesis
  <2> DEFINE b == GenesisBlock(n, now)
  <2>2. b.height = 0 /\ b.by = n /\ b.time \in Int
    BY TimeAssumption DEF GenesisBlock
  <2>3. stored[n] = << >> /\ phase[n] = "credited" /\ ~Up(n)
    BY <1>0, <1>3 DEF AddGenesis, LoadedOk, Up
  <2>4. Len(stored[n]) = 0
    BY <2>3
  <2> HIDE DEF b
  <2>5. Made(stored', b)
    BY <2>1, <2>2, <2>4, OwnBlockMade DEF b
  <2>6. \A m \in msgs' : MsgOk(stored', m)
    BY <1>3, <2>1, OldMsgsStay DEF AddGenesis
  <2>7. /\ phase' = [phase EXCEPT ![n] = IF Up(n) THEN @ ELSE "listen"]
        /\ funded' = funded
    BY <1>3, <2>3 DEF AddGenesis, Start, Goto
  <2>8. AddBlock(n, b) /\ Len(stored[n]) <= MaxHeight /\ ~(Len(stored[n]) > 0)
    BY <2>1, <2>4, BoundsAssumption DEF b
  <2> QED BY <2>2, <2>3, <2>4, <2>5, <2>6, <2>7, <2>8, AddStep, Zenon
<1>4. CASE Run(n)
  <2>1. stored[n] # << >> /\ chain[n] = stored[n]
    BY <1>0, <1>4 DEF Run, LoadedOk, Up
  <2>2. /\ phase' = [phase EXCEPT ![n] = "run"]
        /\ chain' = [chain EXCEPT ![n] = stored[n]]
        /\ stored' = stored /\ funded' = funded /\ msgs' = msgs
    BY <1>0, <1>4, <2>1 DEF Run, Goto
  <2> QED BY <2>1, <2>2, PhaseStep, Zenon
<1>5. CASE Stop(n)
  <2>1. /\ phase' = [phase EXCEPT ![n] = "down"]
        /\ chain' = [chain EXCEPT ![n] = << >>]
        /\ stored' = stored /\ funded' = funded /\ msgs' \subseteq msgs
    BY <1>5 DEF Stop, Goto
  <2> QED BY <2>1, PhaseStep, Zenon
<1> QED BY <1>1, <1>2, <1>3, <1>4, <1>5 DEF StartUp

\* consensus/poa.go ProduceBlock.
LEMMA ProduceHolds ==
    ASSUME IInv, NEW n \in Node, ProduceBlock(n)
    PROVE  IInv'
<1> DEFINE L == Len(stored[n])
<1>1. Up(n) /\ phase[n] = "run"
  BY DEF ProduceBlock, Up
<1>2. L \in Nat \ {0} /\ Tip(n).height = L - 1
  BY <1>1, TipStored
<1>3. L - 1 < MaxHeight /\ (L - 1) + 1 = L /\ ProposerOf(L) = n
  BY <1>2 DEF ProduceBlock
<1>4. PICK now \in Time :
        AddBlock(n, [height |-> Tip(n).height + 1, prev |-> Hash(Tip(n)), by |-> n,
                     time |-> now])
  BY DEF ProduceBlock
<1> DEFINE b == [height |-> Tip(n).height + 1, prev |-> Hash(Tip(n)), by |-> n, time |-> now]
<1>5. b.height = L /\ b.by = n /\ b.time \in Int
  BY <1>2, TimeAssumption
<1>6. AddBlock(n, b)
  BY <1>4
<1> HIDE DEF b
<1>7. Made(stored', b)
  BY <1>5, <1>6, OwnBlockMade
<1>8. \A m \in msgs' : MsgOk(stored', m)
  BY <1>6, OldMsgsStay DEF ProduceBlock
<1>9. phase' = [phase EXCEPT ![n] = IF Up(n) THEN @ ELSE "listen"] /\ funded' = funded
  BY <1>1 DEF ProduceBlock, IInv, Shape
<1>10. L <= MaxHeight
  BY <1>2, <1>3, BoundsAssumption
<1> QED BY <1>1, <1>3, <1>5, <1>6, <1>7, <1>8, <1>9, <1>10, AddStep, Zenon

\* A step that only changes the messages.
LEMMA MessageStep ==
    ASSUME IInv, phase' = phase, stored' = stored, chain' = chain, funded' = funded,
           \A m \in msgs' : MsgOk(stored, m)
    PROVE  IInv'
<1>1. Shape' /\ \A n \in Node : LoadedOk(n)' /\ FundedOk(n)'
  BY Zenon DEF IInv, Shape, LoadedOk, FundedOk, Up
<1> QED BY <1>1, QuietStep

\* network/sync.go SyncWithPeer.
LEMMA DialHolds ==
    ASSUME IInv, NEW n \in Node, NEW m \in Node, Dial(n, m)
    PROVE  IInv'
<1> DEFINE hello == [type |-> "hello", from |-> n, to |-> m]
<1>1. MsgOk(stored, hello)
  BY DEF MsgOk
<1>2. MsgOk(stored, GetBlocks(n, m))
  BY RequestOk DEF Dial, Up
<1>3. \A k \in msgs : MsgOk(stored, k)
  BY DEF IInv
<1>4. msgs' \subseteq msgs \cup {hello, GetBlocks(n, m)}
  BY DEF Dial
<1>5. phase' = phase /\ stored' = stored /\ chain' = chain /\ funded' = funded
  BY DEF Dial
<1> HIDE DEF hello
<1>6. \A k \in msgs' : MsgOk(stored, k)
  BY <1>1, <1>2, <1>3, <1>4
<1> QED BY <1>5, <1>6, MessageStep

\* network/sync.go: the answer to a request has blocks the node stores.
LEMMA GetBlocksHolds ==
    ASSUME IInv, NEW m \in msgs, HandleGetBlocks(m)
    PROVE  IInv'
<1> DEFINE have == chain[m.to]
           last == IF m.first + SyncLimit < Len(have) THEN m.first + SyncLimit ELSE Len(have)
           batch == SubSeq(have, m.first + 1, last)
           full == Len(batch) >= SyncLimit
           answer == [type |-> "blocks", from |-> m.to, to |-> m.from, blocks |-> batch,
                      full |-> full]
<1>1. m.to \in Node /\ m.from \in Node /\ m.first \in Nat /\ Up(m.to)
  BY DEF HandleGetBlocks, IInv, MsgOk
<1>2. have = stored[m.to] /\ IsSeq(have) /\ Len(have) \in Nat
  BY <1>1, TipStored
<1>3. /\ phase' = phase /\ stored' = stored /\ chain' = chain /\ funded' = funded
      /\ msgs' = (msgs \ {m}) \cup {answer}
  BY DEF HandleGetBlocks
<1>4. m.first + 1 \in Nat \ {0} /\ last \in Nat /\ last <= Len(have)
  BY <1>1, <1>2, BoundsAssumption
<1> HIDE DEF last
<1>5. /\ IsSeq(batch)
      /\ \A j \in 1 .. Len(batch) : \E i \in 1 .. Len(have) : batch[j] = have[i]
  <2> HIDE DEF have
  <2>1. /\ IsSeq(batch)
        /\ \A j \in 1 .. Len(batch) :
             /\ (m.first + 1) + j - 1 \in 1 .. Len(have)
             /\ batch[j] = have[(m.first + 1) + j - 1]
    BY <1>2, <1>4, SubSeqIsSeq, ZenonT(30)
  <2> HIDE DEF batch
  <2> QED BY <2>1
<1>6. \A i \in 1 .. Len(have) : Made(stored, have[i])
  BY <1>1, <1>2 DEF IInv, ChainOk
<1> HIDE DEF batch, have, full
<1>7. \A j \in 1 .. Len(batch) : Made(stored, batch[j])
  BY <1>5, <1>6
<1>8. MsgOk(stored, answer)
  BY <1>1, <1>5, <1>7 DEF MsgOk
<1>9. \A k \in msgs : MsgOk(stored, k)
  BY DEF IInv
<1> HIDE DEF answer
<1>10. \A k \in msgs' : MsgOk(stored, k)
  BY <1>3, <1>8, <1>9
<1> QED BY <1>3, <1>10, MessageStep

\* network/sync.go handleBlocks: a block that is added fits on the chain and is
\* not older than its parent.
LEMMA HandleBlockHolds ==
    ASSUME IInv, NEW m \in msgs, HandleBlock(m)
    PROVE  IInv'
<1> DEFINE n == m.to
           b == Head(m.blocks)
           tail == [m EXCEPT !.blocks = Tail(@)]
           rest == (msgs \ {m}) \cup {tail}
<1>1. MsgOk(stored, m) /\ m.type = "blocks" /\ m.blocks # << >> /\ n \in Node /\ Up(n)
  BY DEF HandleBlock, IInv, MsgOk
<1>2. /\ m = [type |-> "blocks", from |-> m.from, to |-> m.to, blocks |-> m.blocks,
              full |-> m.full]
      /\ m.from \in Node /\ m.to \in Node
      /\ IsSeq(m.blocks)
      /\ \A j \in 1 .. Len(m.blocks) : Made(stored, m.blocks[j])
  BY <1>1 DEF MsgOk
<1>3. /\ IsSeq(Tail(m.blocks))
      /\ Len(m.blocks) \in Nat \ {0}
      /\ Len(Tail(m.blocks)) = Len(m.blocks) - 1
      /\ \A j \in 1 .. Len(m.blocks) - 1 : Tail(m.blocks)[j] = m.blocks[j + 1]
      /\ b = m.blocks[1]
  BY <1>1, <1>2, TailIsSeq, IsSeqProperties
<1>4. Made(stored, b)
  BY <1>2, <1>3
<1>5. MsgOk(stored, tail)
  <2>1. tail = [type |-> "blocks", from |-> m.from, to |-> m.to, blocks |-> Tail(m.blocks),
                full |-> m.full]
    <3>1. PICK f, t, bs, u :
            m = [type |-> "blocks", from |-> f, to |-> t, blocks |-> bs, full |-> u]
      BY <1>2
    <3>2. m.from = f /\ m.to = t /\ m.blocks = bs /\ m.full = u
      BY <3>1
    <3>3. PICK x : x = Tail(m.blocks)
      BY Zenon
    <3>4. [[type |-> "blocks", from |-> f, to |-> t, blocks |-> bs, full |-> u]
             EXCEPT !.blocks = x]
          = [type |-> "blocks", from |-> f, to |-> t, blocks |-> x, full |-> u]
      OBVIOUS
    <3> QED BY <3>1, <3>2, <3>3, <3>4
  <2>2. \A j \in 1 .. Len(Tail(m.blocks)) : Made(stored, Tail(m.blocks)[j])
    BY <1>2, <1>3
  <2> HIDE DEF tail
  <2>3. /\ tail.type = "blocks" /\ tail.from = m.from /\ tail.to = m.to
        /\ tail.blocks = Tail(m.blocks) /\ tail.full = m.full
    BY <2>1
  <2> QED BY <1>2, <1>3, <2>1, <2>2, <2>3 DEF MsgOk
<1>6. \A k \in msgs : MsgOk(stored, k)
  BY DEF IInv
<1> HIDE DEF tail
<1>7. \A k \in rest : MsgOk(stored, k)
  BY <1>5, <1>6
<1> HIDE DEF rest
<1>8. /\ phase' = phase /\ funded' = funded
      /\ \/ \E now \in Time : Valid(n, b, now) /\ AddBlock(n, b) /\ msgs' = rest
         \/ (msgs' = rest \/ msgs' = msgs \ {m}) /\ stored' = stored /\ chain' = chain
  BY DEF HandleBlock, rest, tail
<1>9. CASE (msgs' = rest \/ msgs' = msgs \ {m}) /\ stored' = stored /\ chain' = chain
  <2>1. \A k \in msgs' : MsgOk(stored, k)
    BY <1>6, <1>7, <1>9
  <2> QED BY <1>8, <1>9, <2>1, MessageStep
<1>10. ASSUME NEW now \in Time, Valid(n, b, now), AddBlock(n, b), msgs' = rest
       PROVE  IInv'
  <2> DEFINE L == Len(stored[n])
  <2>1. L \in Nat \ {0} /\ Tip(n).height = L - 1 /\ Tip(n) = stored[n][L]
    BY <1>1, TipStored
  <2>2. b.by = ProposerOf(b.height) /\ b.height = Tip(n).height + 1 /\ b.time >= Tip(n).time
    BY <1>10 DEF Valid
  <2>3. b.height = L
    BY <2>1, <2>2
  <2>4. Grown(stored, n, b, stored')
    BY <1>1, <1>10, Zenon DEF AddBlock, Grown, IInv, Shape, ChainOk
  <2> HIDE DEF n, b
  <2>5. Made(stored', b)
    BY <1>1, <1>4, <2>4, MadeStays
  <2>6. \A k \in msgs' : MsgOk(stored', k)
    BY <1>1, <1>7, <1>10, <2>4, MsgsStay
  <2>7. L <= MaxHeight
    <3>1. b.by \in Node /\ b.height < Len(stored[b.by])
      BY <1>4 DEF Made
    <3>2. Len(stored[b.by]) \in Nat /\ Len(stored[b.by]) <= MaxHeight + 1
      BY <3>1, IsSeqProperties DEF IInv, ChainOk
    <3> QED BY <2>1, <2>3, <3>1, <3>2, BoundsAssumption
  <2>8. phase' = [phase EXCEPT ![n] = IF Up(n) THEN @ ELSE "listen"]
    BY <1>1, <1>8 DEF IInv, Shape
  <2> QED BY <1>1, <1>8, <1>10, <2>1, <2>2, <2>3, <2>5, <2>6, <2>7, <2>8, AddStep, Zenon
<1> QED BY <1>8, <1>9, <1>10

\* Every step keeps the invariant.
LEMMA StepHolds == IInv /\ [Next]_vars => IInv'
<1> SUFFICES ASSUME IInv, [Next]_vars PROVE IInv'
  OBVIOUS
<1>0. \A k \in msgs : MsgOk(stored, k) /\ k.to \in Node /\ k.from \in Node
  BY DEF IInv, MsgOk
<1>1. CASE UNCHANGED vars
  BY <1>0, <1>1, MessageStep DEF vars
<1>2. ASSUME NEW n \in Node, StartUp(n) \/ Stop(n) \/ ProduceBlock(n) PROVE IInv'
  BY <1>2, StartUpHolds, ProduceHolds
<1>3. ASSUME NEW n \in Node, NEW m \in Node, Dial(n, m) PROVE IInv'
  BY <1>3, DialHolds
<1>4. ASSUME NEW m \in msgs, Receive(m) PROVE IInv'
  <2>1. m.to \in Node /\ m.from \in Node
    BY <1>0
  <2>2. CASE HandleHello(m)
    <3>1. MsgOk(stored, GetBlocks(m.to, m.from))
      BY <2>1, <2>2, RequestOk DEF HandleHello
    <3>2. \A k \in msgs' : MsgOk(stored, k)
      BY <1>0, <2>2, <3>1 DEF HandleHello
    <3> QED BY <2>2, <3>2, MessageStep DEF HandleHello
  <2>3. CASE HandleGetBlocks(m)
    BY <2>3, GetBlocksHolds
  <2>4. CASE HandleBlock(m)
    BY <2>4, HandleBlockHolds
  <2>5. CASE HandleBlocksDone(m)
    <3>1. MsgOk(stored, GetBlocks(m.to, m.from))
      BY <2>1, <2>5, RequestOk DEF HandleBlocksDone
    <3>2. \A k \in msgs' : MsgOk(stored, k)
      BY <1>0, <2>5, <3>1 DEF HandleBlocksDone
    <3> QED BY <2>5, <3>2, MessageStep DEF HandleBlocksDone
  <2> QED BY <1>4, <2>2, <2>3, <2>4, <2>5 DEF Receive
<1> QED BY <1>1, <1>2, <1>3, <1>4 DEF Next

\* The inductive invariant holds in every reachable state.
THEOREM Invariant == Spec => []IInv
<1> QED BY InitHolds, StepHolds, PTL DEF Spec

\* A node that has a chain has the genesis balances, however often and wherever
\* in main it was stopped (genesis.go, main.go).
THEOREM AlwaysFunded == Spec => []GenesisIsFunded
<1>1. IInv => GenesisIsFunded
  BY DEF IInv, FundedOk, GenesisIsFunded
<1> QED BY <1>1, Invariant, PTL

\* A block older than its parent is on no disk but its maker's (poa.go
\* ValidateBlock).
THEOREM BackwardsIsLocal == Spec => []BackwardsStaysHome
<1>1. IInv => BackwardsStaysHome
  BY DEF IInv, BackwardsOk, BackwardsStaysHome
<1> QED BY <1>1, Invariant, PTL

-----------------------------------------------------------------------------
(* The refinement: what the ledgers are, in terms of the chains on disk. *)

Follows(S, n, f) == S[n] # << >> /\ S[n][1].by = f

FoundedIn(S, f) == {S[n] : n \in {k \in Node : Follows(S, k, f)}}

LogIn(S) == [f \in Node |-> IF FoundedIn(S, f) = {} THEN << >> ELSE Longest(FoundedIn(S, f))]

HomeIn(S) == [n \in Node |-> IF S[n] = << >> THEN None ELSE S[n][1].by]

KeptIn(S) == [n \in Node |-> Len(S[n])]

DisksMapped == LogOf = LogIn(stored) /\ HomeOf = HomeIn(stored) /\ KeptOf = KeptIn(stored)

\* A node holds what it has stored, so the mapping is one of the disks alone.
LEMMA Mapped == IInv => DisksMapped
<1> SUFFICES ASSUME IInv PROVE DisksMapped
  OBVIOUS
<1>1. ASSUME NEW n \in Node PROVE Holds(n) = stored[n]
  <2>1. phase[n] \in {"down", "fresh", "credited", "listen", "run"} /\ LoadedOk(n)
    BY DEF IInv, Shape
  <2> QED BY <2>1 DEF Holds, LoadedOk, Up
<1>2. ASSUME NEW f \in Node PROVE FoundedBy(f) = FoundedIn(stored, f)
  BY <1>1 DEF FoundedBy, FoundedIn, Follows
<1>3. LogOf = LogIn(stored)
  BY <1>2 DEF LogOf, LogIn
<1> QED BY <1>1, <1>3 DEF DisksMapped, HomeOf, HomeIn, KeptOf, KeptIn

\* The node k has a longest chain of the founder f.
Leads(S, k, f) ==
    /\ k \in Node
    /\ Follows(S, k, f)
    /\ \A m \in Node : Follows(S, m, f) => Len(S[m]) <= Len(S[k])

\* Two chains of the same founder agree as far as both go: at height 0 both
\* have the founder's genesis block, above it both have the one block of the
\* validator whose turn it was.
LEMMA ChainsAgree ==
    ASSUME NEW S, \A k \in Node : ChainOk(S, k), NEW f,
           NEW n \in Node, NEW m \in Node, Follows(S, n, f), Follows(S, m, f),
           NEW i \in Nat, 1 <= i, i <= Len(S[n]), i <= Len(S[m])
    PROVE  S[n][i] = S[m][i]
<1>1. ASSUME NEW k \in Node, i <= Len(S[k])
      PROVE  /\ S[k][i].height = i - 1
             /\ S[k][i].by \in Node
             /\ S[S[k][i].by][i] = S[k][i]
             /\ i > 1 => S[k][i].by = ProposerOf(i - 1)
  <2>1. Len(S[k]) \in Nat
    BY IsSeqProperties DEF ChainOk
  <2>2. i \in 1 .. Len(S[k])
    BY <1>1, <2>1
  <2>3. /\ S[k][i].height = i - 1
        /\ Made(S, S[k][i])
        /\ i > 1 => S[k][i].by = ProposerOf(i - 1)
    BY <2>2 DEF ChainOk
  <2>4. S[k][i].height + 1 = i
    BY <2>3
  <2> QED BY <2>3, <2>4 DEF Made
<1>2. CASE i = 1
  BY <1>1, <1>2 DEF Follows
<1>3. CASE i > 1
  BY <1>1, <1>3
<1> QED BY <1>2, <1>3

\* So a founder's ledger is the chain of any node that leads.
LEMMA LogOfLeader ==
    ASSUME NEW S, \A k \in Node : ChainOk(S, k), NEW f \in Node, NEW k \in Node, Leads(S, k, f)
    PROVE  LogIn(S)[f] = S[k]
<1> DEFINE chains == FoundedIn(S, f)
           c == Longest(chains)
<1>1. S[k] \in chains /\ \A d \in chains : Len(d) <= Len(S[k])
  BY DEF Leads, FoundedIn
<1>2. c \in chains /\ \A d \in chains : Len(d) <= Len(c)
  BY <1>1 DEF Longest
<1>3. LogIn(S)[f] = c
  BY <1>1 DEF LogIn
<1> HIDE DEF c
<1>4. PICK j \in Node : Follows(S, j, f) /\ c = S[j]
  BY <1>2 DEF FoundedIn
<1>5. IsSeq(c) /\ IsSeq(S[k])
  BY <1>4 DEF ChainOk
<1>6. Len(c) \in Nat /\ Len(S[k]) \in Nat
  BY <1>5, IsSeqProperties
<1>7. Len(c) = Len(S[k])
  BY <1>1, <1>2, <1>6
<1>8. ASSUME NEW i \in 1 .. Len(c) PROVE c[i] = S[k][i]
  <2>1. i \in Nat /\ 1 <= i /\ i <= Len(S[j]) /\ i <= Len(S[k])
    BY <1>4, <1>6, <1>7
  <2>2. Follows(S, j, f) /\ Follows(S, k, f)
    BY <1>4 DEF Leads
  <2> QED BY <1>4, <2>1, <2>2, ChainsAgree
<1>9. c = S[k]
  BY <1>5, <1>7, <1>8, IsSeqEqual
<1> QED BY <1>3, <1>9

\* Somebody leads unless nobody follows.
LEMMA SomebodyLeads ==
    ASSUME NEW S, \A k \in Node : ChainOk(S, k), NEW f \in Node,
           NEW n \in Node, Follows(S, n, f)
    PROVE  \E k \in Node : Leads(S, k, f)
<1> DEFINE lens == {Len(S[m]) : m \in {k \in Node : Follows(S, k, f)}}
<1>1. \A k \in Node : Len(S[k]) \in Nat /\ Len(S[k]) <= MaxHeight + 1
  BY IsSeqProperties DEF ChainOk
<1>2. lens \subseteq Nat /\ lens # {} /\ \A l \in lens : l <= MaxHeight + 1
  BY <1>1, Zenon
<1>3. MaxHeight + 1 \in Nat
  BY BoundsAssumption
<1> HIDE DEF lens
<1>4. PICK l \in lens : \A x \in lens : x <= l
  BY <1>2, <1>3, GreatestNat, Zenon
<1>5. PICK k \in Node : Follows(S, k, f) /\ l = Len(S[k])
  BY <1>4 DEF lens
<1> QED BY <1>4, <1>5, Zenon DEF Leads, lens

\* Nobody follows: the ledger is empty.
LEMMA NobodyFollows ==
    ASSUME NEW S, NEW f \in Node, \A n \in Node : ~Follows(S, n, f)
    PROVE  LogIn(S)[f] = << >>
<1>1. FoundedIn(S, f) = {}
  BY DEF FoundedIn
<1> QED BY <1>1 DEF LogIn

-----------------------------------------------------------------------------
(* Appending a block, seen by the ledgers. *)

\* The chain keeps all it had as a prefix.
LEMMA GrownPrefix ==
    ASSUME NEW S, NEW n \in Node, NEW b, NEW T, Grown(S, n, b, T)
    PROVE  SubSeq(T[n], 1, Len(S[n])) = S[n]
<1> DEFINE s == S[n]
           t == T[n]
           L == Len(s)
<1>1. Extends(s, t)
  BY GrownChains
<1>2. IsSeq(s) /\ IsSeq(t) /\ L \in Nat /\ Len(t) \in Nat /\ L <= Len(t) /\ \A i \in 1 .. L : t[i] = s[i]
  BY <1>1 DEF Extends
<1> HIDE DEF s, t, L
<1>3. 1 \in Nat \ {0} /\ L = Len(s)
  BY DEF L
<1>4. /\ IsSeq(SubSeq(t, 1, L)) /\ Len(SubSeq(t, 1, L)) = L
      /\ \A i \in 1 .. L : SubSeq(t, 1, L)[i] = t[i]
  BY <1>2, <1>3, SubSeqIsSeq
<1>5. SubSeq(t, 1, L) = s
  BY <1>2, <1>3, <1>4, IsSeqEqual, Zenon
<1> QED BY <1>5 DEF s, t, L

\* The ledgers that node n does not follow are as they were.
LEMMA OtherLogs ==
    ASSUME NEW S, NEW n \in Node, NEW b, NEW T, Grown(S, n, b, T), NEW f \in Node,
           ~Follows(S, n, f), ~Follows(T, n, f)
    PROVE  LogIn(T)[f] = LogIn(S)[f]
<1>1. \A k \in Node : k # n => T[k] = S[k]
  BY DEF Grown
<1>2. FoundedIn(T, f) = FoundedIn(S, f)
  BY <1>1 DEF FoundedIn, Follows
<1> QED BY <1>2 DEF LogIn

\* A node without a chain gets its own genesis block: it founds a ledger.
LEMMA GenesisFounds ==
    ASSUME NEW S, NEW n \in Node, NEW b, NEW T, Grown(S, n, b, T),
           \A k \in Node : ChainOk(S, k), \A k \in Node : ChainOk(T, k)
    PROVE  Len(S[n]) = 0 /\ b.by = n =>
           /\ HomeIn(S)[n] = None
           /\ HomeIn(T) = [HomeIn(S) EXCEPT ![n] = n]
           /\ KeptIn(T) = [KeptIn(S) EXCEPT ![n] = 1]
           /\ LogIn(S)[n] = << >>
           /\ Len(LogIn(T)[n]) = Len(LogIn(S)[n]) + 1
           /\ SubSeq(LogIn(T)[n], 1, Len(LogIn(S)[n])) = LogIn(S)[n]
           /\ \A m \in Node \ {n} : LogIn(T)[m] = LogIn(S)[m]
<1>0. Len(T[n]) = Len(S[n]) + 1 /\ T[n][Len(S[n]) + 1] = b
  BY GrownChains
<1> HAVE Len(S[n]) = 0 /\ b.by = n
<1>1. S[n] = << >>
  BY IsSeqProperties DEF ChainOk
<1>2. /\ Len(T[n]) = 1 /\ T[n][1] = b /\ \A k \in Node : k # n => T[k] = S[k]
  BY <1>0 DEF Grown
<1>3. IsSeq(T[n]) /\ T[n] # << >>
  BY <1>2 DEF ChainOk
<1>4. ASSUME NEW m \in Node, Follows(S, m, n) PROVE FALSE
  <2>1. IsSeq(S[m]) /\ S[m] # << >>
    BY <1>4 DEF ChainOk, Follows
  <2>2. Len(S[m]) \in Nat \ {0}
    BY <2>1, IsSeqProperties
  <2>3. 1 \in 1 .. Len(S[m])
    BY <2>2
  <2>4. Made(S, S[m][1]) /\ S[m][1].height = 1 - 1
    BY <2>3 DEF ChainOk
  <2> QED BY <1>4, <2>4 DEF Made, Follows
<1>5. LogIn(S)[n] = << >>
  BY <1>4, NobodyFollows
<1>6. Follows(T, n, n)
  BY <1>2, <1>3 DEF Follows
<1>7. ASSUME NEW m \in Node, Follows(T, m, n) PROVE m = n
  BY <1>2, <1>4, <1>7 DEF Follows
<1>8. Leads(T, n, n)
  <2>1. Len(T[n]) <= Len(T[n])
    BY <1>2
  <2> QED BY <1>6, <1>7, <2>1 DEF Leads
<1>9. LogIn(T)[n] = T[n]
  BY <1>8, LogOfLeader
<1>10. ASSUME NEW m \in Node \ {n} PROVE LogIn(T)[m] = LogIn(S)[m]
  <2>1. ~Follows(S, n, m) /\ ~Follows(T, n, m)
    BY <1>1, <1>2 DEF Follows
  <2> QED BY <2>1, OtherLogs
<1>11. SubSeq(T[n], 1, Len(S[n])) = S[n]
  BY GrownPrefix
<1>12. HomeIn(T) = [HomeIn(S) EXCEPT ![n] = n] /\ HomeIn(S)[n] = None
  <2>1. T[n] # << >> /\ T[n][1].by = n
    BY <1>2, <1>3
  <2>2. \A k \in Node : k # n => T[k] = S[k]
    BY <1>2
  <2>3. HomeIn(T)[n] = n /\ HomeIn(S)[n] = None
    BY <1>1, <2>1 DEF HomeIn
  <2>4. \A k \in Node : k # n => HomeIn(T)[k] = HomeIn(S)[k]
    BY <2>2 DEF HomeIn
  <2>5. /\ HomeIn(T) = [k \in Node |-> HomeIn(T)[k]]
        /\ HomeIn(S) = [k \in Node |-> HomeIn(S)[k]]
    BY DEF HomeIn
  <2> QED BY <2>3, <2>4, <2>5
<1>13. KeptIn(T) = [KeptIn(S) EXCEPT ![n] = 1]
  BY <1>2, Zenon DEF KeptIn
<1> QED BY <1>1, <1>2, <1>5, <1>9, <1>10, <1>11, <1>12, <1>13

\* A node with a chain gets a block: either the block is in its ledger, or it
\* held all of its ledger and the ledger gets the block.
LEMMA BlockExtends ==
    ASSUME NEW S, NEW n \in Node, NEW b, NEW T, Grown(S, n, b, T),
           \A k \in Node : ChainOk(S, k), \A k \in Node : ChainOk(T, k),
           S[n] # << >>
    PROVE  LET h == HomeIn(S)[n] IN
           /\ h # None
           /\ HomeIn(T) = HomeIn(S)
           /\ KeptIn(T) = [KeptIn(S) EXCEPT ![n] = @ + 1]
           /\ \/ KeptIn(S)[n] < Len(LogIn(S)[h]) /\ LogIn(T) = LogIn(S)
              \/ /\ KeptIn(S)[n] = Len(LogIn(S)[h])
                 /\ Len(LogIn(T)[h]) = Len(LogIn(S)[h]) + 1
                 /\ SubSeq(LogIn(T)[h], 1, Len(LogIn(S)[h])) = LogIn(S)[h]
                 /\ \A m \in Node \ {h} : LogIn(T)[m] = LogIn(S)[m]
<1> DEFINE h == S[n][1].by
<1>1. Len(S[n]) \in Nat \ {0}
  BY IsSeqProperties DEF ChainOk
<1>2. /\ Len(T[n]) = Len(S[n]) + 1 /\ Extends(S[n], T[n])
      /\ \A k \in Node : k # n => T[k] = S[k]
  BY GrownChains
<1>3. T[n][1] = S[n][1] /\ T[n] # << >>
  BY <1>1, <1>2 DEF Extends
<1>4. 1 \in 1 .. Len(S[n])
  BY <1>1
<1>5. h \in Node
  BY <1>4, Zenon DEF ChainOk, Made
<1>6. \A k \in Node : Len(S[k]) \in Nat
  BY IsSeqProperties DEF ChainOk
<1>7. \A m \in Node, f \in Node : Follows(T, m, f) <=> Follows(S, m, f)
  BY <1>2, <1>3 DEF Follows
<1>8. Follows(S, n, h)
  BY DEF Follows
<1>9. ASSUME NEW m \in Node \ {h} PROVE LogIn(T)[m] = LogIn(S)[m]
  <2>1. ~Follows(S, n, m) /\ ~Follows(T, n, m)
    BY <1>7 DEF Follows
  <2> QED BY <2>1, OtherLogs
<1>10. HomeIn(S)[n] = h /\ h # None
  BY <1>5, NoneAssumption DEF HomeIn
<1>11. HomeIn(T) = HomeIn(S)
  BY <1>2, <1>3 DEF HomeIn
<1>12. KeptIn(T) = [KeptIn(S) EXCEPT ![n] = @ + 1] /\ KeptIn(S)[n] = Len(S[n])
  BY <1>2, Zenon DEF KeptIn
<1> HIDE DEF h
<1>13. PICK k \in Node : Leads(S, k, h)
  BY <1>5, <1>8, SomebodyLeads
<1>14. LogIn(S)[h] = S[k] /\ Len(S[n]) <= Len(S[k])
  BY <1>5, <1>8, <1>13, LogOfLeader DEF Leads
<1>15. CASE Len(S[n]) < Len(S[k])
  <2>1. k # n /\ T[k] = S[k]
    BY <1>2, <1>6, <1>15
  <2>2. \A m \in Node : Follows(T, m, h) => Len(T[m]) <= Len(T[k])
    BY <1>2, <1>5, <1>6, <1>7, <1>13, <1>15, <2>1 DEF Leads
  <2>3. Leads(T, k, h)
    BY <1>5, <1>7, <1>13, <2>2 DEF Leads
  <2>4. LogIn(T)[h] = S[k]
    BY <1>5, <2>1, <2>3, LogOfLeader
  <2>5. \A m \in Node : LogIn(T)[m] = LogIn(S)[m]
    BY <1>9, <1>14, <2>4
  <2>6. LogIn(T) = LogIn(S)
    BY <2>5 DEF LogIn
  <2> QED BY <1>10, <1>11, <1>12, <1>14, <1>15, <2>6
<1>16. CASE Len(S[n]) = Len(S[k])
  <2>1. Leads(S, n, h)
    BY <1>8, <1>13, <1>16 DEF Leads
  <2>2. LogIn(S)[h] = S[n]
    BY <1>5, <2>1, LogOfLeader
  <2>3. \A m \in Node : Follows(T, m, h) => Len(T[m]) <= Len(T[n])
    BY <1>2, <1>5, <1>6, <1>7, <2>1 DEF Leads
  <2>4. Leads(T, n, h)
    BY <1>5, <1>7, <1>8, <2>3 DEF Leads
  <2>5. LogIn(T)[h] = T[n]
    BY <1>5, <2>4, LogOfLeader
  <2>6. SubSeq(T[n], 1, Len(S[n])) = S[n]
    BY GrownPrefix
  <2> QED BY <1>2, <1>9, <1>10, <1>11, <1>12, <2>2, <2>5, <2>6
<1> QED BY <1>6, <1>14, <1>15, <1>16

\* A node adds a block: a step of the ledgers.
LEMMA AddIsLedgerStep ==
    ASSUME IInv, IInv', NEW n \in Node, NEW b, AddBlock(n, b), stored[n] = << >> => b.by = n
    PROVE  Agreed!Next
<1>1. Grown(stored, n, b, stored')
  BY Zenon DEF AddBlock, Grown, IInv, Shape, ChainOk
<1>2. (\A k \in Node : ChainOk(stored, k)) /\ (\A k \in Node : ChainOk(stored', k))
  BY DEF IInv
<1>3. DisksMapped
  BY Mapped
<1>4. DisksMapped'
  BY Mapped, PTL
<1>5. CASE stored[n] = << >>
  <2>1. Len(stored[n]) = 0 /\ b.by = n
    BY <1>5
  <2>2. Agreed!Found(n)
    BY <1>1, <1>2, <1>3, <1>4, <2>1, GenesisFounds
    DEF Agreed!Found, Agreed!Grows, DisksMapped
  <2> QED BY <2>2 DEF Agreed!Next
<1>6. CASE stored[n] # << >>
  <2>1. Agreed!Learn(n) \/ Agreed!Extend(n)
    BY <1>1, <1>2, <1>3, <1>4, <1>6, BlockExtends
    DEF Agreed!Learn, Agreed!Extend, Agreed!Grows, DisksMapped
  <2> QED BY <2>1 DEF Agreed!Next
<1> QED BY <1>5, <1>6

\* A step that stores nothing is a stutter of the ledgers.
LEMMA QuietStutters ==
    ASSUME IInv, IInv', stored' = stored
    PROVE  UNCHANGED Agreed!vars
<1>1. DisksMapped
  BY Mapped
<1>2. DisksMapped'
  BY Mapped, PTL
<1> QED BY <1>1, <1>2 DEF Agreed!vars, DisksMapped

\* Every step of the nodes is a step or a stutter of the ledgers.
LEMMA StepIsLedgerStep == IInv /\ IInv' /\ [Next]_vars => [Agreed!Next]_(Agreed!vars)
<1> SUFFICES ASSUME IInv, IInv', [Next]_vars PROVE Agreed!Next \/ UNCHANGED Agreed!vars
  OBVIOUS
<1>1. CASE stored' = stored
  BY <1>1, QuietStutters
<1>2. CASE stored' # stored
  <2>1. PICK n \in Node : \E b : AddBlock(n, b) /\ (stored[n] = << >> => b.by = n)
    <3>1. CASE \E n \in Node : AddGenesis(n)
      BY <3>1 DEF AddGenesis, GenesisBlock
    <3>2. CASE \E n \in Node : ProduceBlock(n)
      BY <3>2 DEF ProduceBlock
    <3>3. ASSUME NEW m \in msgs, HandleBlock(m), stored' # stored
          PROVE  \E n \in Node : \E b : AddBlock(n, b) /\ (stored[n] = << >> => b.by = n)
      <4>1. m.to \in Node /\ Up(m.to) /\ AddBlock(m.to, Head(m.blocks))
        BY <3>3 DEF HandleBlock, IInv, MsgOk
      <4>2. stored[m.to] # << >>
        BY <4>1 DEF IInv, LoadedOk
      <4> QED BY <4>1, <4>2
    <3>4. (\E n \in Node : AddGenesis(n) \/ ProduceBlock(n)) \/ \E m \in msgs : HandleBlock(m)
      <4>1. ASSUME NEW n \in Node, StartUp(n) \/ Stop(n) PROVE AddGenesis(n)
        BY <1>2, <4>1 DEF StartUp, InitChain, CreditAlloc, Run, Stop
      <4>2. ASSUME NEW n \in Node, NEW m \in Node, Dial(n, m) PROVE FALSE
        BY <1>2, <4>2 DEF Dial
      <4>3. ASSUME NEW m \in msgs, Receive(m) PROVE HandleBlock(m)
        BY <1>2, <4>3 DEF Receive, HandleHello, HandleGetBlocks, HandleBlocksDone
      <4> QED BY <1>2, <4>1, <4>2, <4>3 DEF Next, vars
    <3> QED BY <1>2, <3>1, <3>2, <3>3, <3>4
  <2> QED BY <2>1, AddIsLedgerStep
<1> QED BY <1>1, <1>2

\* At the start the disks hold at most one ledger, with its genesis block.
LEMMA InitIsLedgerInit == Init => Agreed!Init
<1> SUFFICES ASSUME Init PROVE Agreed!Init
  OBVIOUS
<1>1. PICK founder \in Node, copies \in SUBSET Node :
        /\ copies # {} => founder \in copies
        /\ stored = [n \in Node |-> IF n \in copies THEN <<GenesisBlock(founder, 0)>> ELSE << >>]
  BY Zenon DEF Init
<1> DEFINE g == GenesisBlock(founder, 0)
<1>2. IInv
  BY InitHolds
<1>3. \A k \in Node : ChainOk(stored, k)
  BY <1>2 DEF IInv
<1>4. ASSUME NEW n \in Node
      PROVE  /\ n \in copies => Len(stored[n]) = 1 /\ stored[n] # << >> /\ stored[n][1].by = founder
             /\ n \notin copies => Len(stored[n]) = 0 /\ stored[n] = << >>
  <2>1. stored[n] = IF n \in copies THEN <<g>> ELSE << >>
    BY <1>1
  <2>2. g.by = founder
    BY DEF GenesisBlock
  <2> HIDE DEF g
  <2> QED BY <2>1, <2>2
<1>5. HomeIn(stored) = [n \in Node |-> IF n \in copies THEN founder ELSE None]
  BY <1>4 DEF HomeIn
<1>6. KeptIn(stored) = [n \in Node |-> IF n \in copies THEN 1 ELSE 0]
  BY <1>4, Zenon DEF KeptIn
<1>7. ASSUME NEW n \in Node PROVE Len(LogIn(stored)[n]) = IF n \in copies /\ n = founder THEN 1 ELSE 0
  <2>1. CASE n \in copies /\ n = founder
    <3>1. Leads(stored, n, n)
      BY <1>4, <2>1 DEF Leads, Follows
    <3>2. LogIn(stored)[n] = stored[n]
      BY <1>3, <3>1, LogOfLeader
    <3> QED BY <1>4, <2>1, <3>2
  <2>2. CASE ~(n \in copies /\ n = founder)
    <3>1. \A m \in Node : ~Follows(stored, m, n)
      BY <1>1, <1>4, <2>2 DEF Follows
    <3>2. LogIn(stored)[n] = << >>
      BY <3>1, NobodyFollows
    <3> QED BY <2>2, <3>2
  <2> QED BY <2>1, <2>2
<1>8. LogOf = LogIn(stored) /\ HomeOf = HomeIn(stored) /\ KeptOf = KeptIn(stored)
  BY <1>2, Mapped DEF DisksMapped
<1>9. /\ HomeOf \in [Node -> Node \cup {None}]
      /\ \A n, m \in Node : None \notin {HomeOf[n], HomeOf[m]} => HomeOf[n] = HomeOf[m]
      /\ \A n \in Node : HomeOf[n] # None => HomeOf[HomeOf[n]] # None
  BY <1>1, <1>5, <1>8, NoneAssumption
<1>10. KeptOf = [n \in Node |-> IF HomeOf[n] = None THEN 0 ELSE 1]
  BY <1>5, <1>6, <1>8, NoneAssumption
<1>11. \A n \in Node : Len(LogOf[n]) = IF HomeOf[n] = n THEN 1 ELSE 0
  BY <1>5, <1>7, <1>8, NoneAssumption
<1> QED BY <1>9, <1>10, <1>11 DEF Agreed!Init

\* The nodes together implement the ledger specification: every genesis block
\* grows one ledger that only ever gets longer, and what a node serves or has on
\* disk is a prefix of one of them, through blocks of other nodes, restarts and
\* clocks that differ (blockchain.go AddBlock, poa.go, sync.go, main.go).
THEOREM LedgerIsImplemented == Spec => OneLedger
<1>1. Init => Agreed!Init
  BY InitIsLedgerInit
<1>2. IInv /\ IInv' /\ [Next]_vars => [Agreed!Next]_(Agreed!vars)
  BY StepIsLedgerStep
<1> QED BY <1>1, <1>2, Invariant, PTL DEF Spec, OneLedger, Agreed!Spec
=============================================================================
