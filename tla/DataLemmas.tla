----------------------------- MODULE DataLemmas -----------------------------
(***************************************************************************)
(* What the proofs need to know of natural numbers, finite sets, sequences *)
(* and sums, beyond the library's theorems.  The induction rules take the  *)
(* set of the values for which the claim holds, so that a first-order      *)
(* prover can apply them.                                                  *)
(***************************************************************************)
EXTENDS Integers, FiniteSets, Functions, Lists, SequenceTheorems,
        FiniteSetTheorems, TLAPS

\* A set of natural numbers has a least element.
LEMMA LeastNat ==
    ASSUME NEW T, T \subseteq Nat, T # {}
    PROVE  \E n \in T : \A m \in T : n <= m
<1> DEFINE R == {ss \in Nat \X Nat : ss[1] < ss[2]}
<1>1. IsWellFoundedOn(R, Nat)
  BY NatLessThanWellFounded DEF OpToRel
<1>2. \A y \in Nat, x \in Nat : y < x => <<y, x>> \in R
  OBVIOUS
<1>3. PICK x \in T : \A y \in T : ~ (<<y, x>> \in R)
  <2> HIDE DEF R
  <2> QED BY <1>1, WFMin, Zenon
<1>4. \A y \in T : ~(y < x)
  BY <1>2, <1>3, Zenon
<1>5. \A y \in T : x <= y
  BY <1>4
<1> QED BY <1>5

\* Induction over the natural numbers.
LEMMA NatSetInduction ==
    ASSUME NEW G, 0 \in G, \A n \in Nat : n \in G => n + 1 \in G
    PROVE  Nat \subseteq G
<1> SUFFICES ASSUME Nat \ G # {} PROVE FALSE
  OBVIOUS
<1>1. PICK n \in Nat \ G : \A m \in Nat \ G : n <= m
  BY LeastNat, Zenon
<1>2. n # 0 /\ n - 1 \in Nat /\ n - 1 \in G
  BY <1>1
<1> QED BY <1>1, <1>2

\* A bounded set of natural numbers has a greatest element.
LEMMA GreatestNat ==
    ASSUME NEW T, T \subseteq Nat, T # {}, NEW b \in Nat, \A n \in T : n <= b
    PROVE  \E n \in T : \A m \in T : m <= n
<1> DEFINE Bounds == {k \in Nat : \A n \in T : n <= k}
<1>1. PICK k \in Bounds : \A j \in Bounds : k <= j
  <2>1. b \in Bounds /\ Bounds \subseteq Nat
    OBVIOUS
  <2> QED BY <2>1, LeastNat, Zenon
<1>2. k \in T
  <2> SUFFICES ASSUME k \notin T PROVE FALSE
    OBVIOUS
  <2>1. \A n \in T : n <= k - 1
    BY <1>1
  <2>2. k - 1 \in Nat
    <3>1. PICK n \in T : n \in Nat
      BY Zenon
    <3> QED BY <2>1, <3>1
  <2>3. k - 1 \in Bounds
    BY <2>1, <2>2
  <2> QED BY <2>3, <1>1
<1> QED BY <1>1, <1>2

\* Induction over the subsets of a finite set, by their size.
LEMMA SubsetInduction ==
    ASSUME NEW S, IsFiniteSet(S), NEW G,
           \A T \in SUBSET S :
             (\A U \in SUBSET S : Cardinality(U) < Cardinality(T) => U \in G) => T \in G
    PROVE  \A T \in SUBSET S : T \in G
<1> SUFFICES ASSUME NEW B \in SUBSET S, B \notin G PROVE FALSE
  OBVIOUS
<1> DEFINE Sizes == {n \in Nat : \E T \in SUBSET S : T \notin G /\ Cardinality(T) = n}
<1>1. \A T \in SUBSET S : Cardinality(T) \in Nat
  BY FS_Subset, FS_CardinalityType
<1>2. Sizes # {} /\ Sizes \subseteq Nat
  BY <1>1
<1> HIDE DEF Sizes
<1>3. PICK n \in Sizes : \A m \in Sizes : n <= m
  BY <1>2, LeastNat, Zenon
<1>4. PICK T \in SUBSET S : T \notin G /\ Cardinality(T) = n
  BY <1>3 DEF Sizes
<1>5. ASSUME NEW U \in SUBSET S, Cardinality(U) < Cardinality(T) PROVE U \in G
  <2> SUFFICES ASSUME U \notin G PROVE FALSE
    OBVIOUS
  <2>1. Cardinality(U) \in Sizes
    BY <1>1 DEF Sizes
  <2> QED BY <2>1, <1>1, <1>3, <1>4, <1>5
<1> QED BY <1>4, <1>5

-----------------------------------------------------------------------------
(* Sequences whose elements have no type of their own. *)

IsSeq(s) == s \in Seq(Range(s))

LEMMA SeqIsSeq ==
    ASSUME NEW S, NEW s \in Seq(S)
    PROVE  IsSeq(s)
<1>1. DOMAIN s = 1 .. Len(s) /\ Len(s) \in Nat
  BY LenProperties
<1>2. s \in [1 .. Len(s) -> Range(s)]
  BY <1>1 DEF Range
<1> QED BY <1>1, <1>2 DEF IsSeq

LEMMA IsSeqProperties ==
    ASSUME NEW s, IsSeq(s)
    PROVE  /\ Len(s) \in Nat
           /\ DOMAIN s = 1 .. Len(s)
           /\ s = << >> <=> Len(s) = 0
<1>1. s \in Seq(Range(s))
  BY DEF IsSeq
<1> HIDE DEF IsSeq
<1> QED BY <1>1, LenProperties, EmptySeq

\* Two sequences with the same elements are equal.
LEMMA IsSeqEqual ==
    ASSUME NEW s, NEW t, IsSeq(s), IsSeq(t), Len(s) = Len(t),
           \A i \in 1 .. Len(s) : s[i] = t[i]
    PROVE  s = t
<1>1. s \in Seq(Range(s) \cup Range(t)) /\ t \in Seq(Range(s) \cup Range(t))
  BY SeqMonotonic DEF IsSeq
<1> QED BY <1>1, SeqEqual

LEMMA AppendIsSeq ==
    ASSUME NEW s, NEW e, IsSeq(s)
    PROVE  /\ IsSeq(Append(s, e))
           /\ Len(Append(s, e)) = Len(s) + 1
           /\ \A i \in 1 .. Len(s) : Append(s, e)[i] = s[i]
           /\ Append(s, e)[Len(s) + 1] = e
<1> DEFINE S == Range(s) \cup {e}
<1>1. s \in Seq(S) /\ e \in S
  BY SeqMonotonic DEF IsSeq
<1> HIDE DEF S
<1>2. /\ Append(s, e) \in Seq(S)
      /\ Len(Append(s, e)) = Len(s) + 1
      /\ \A i \in 1 .. Len(s) : Append(s, e)[i] = s[i]
      /\ Append(s, e)[Len(s) + 1] = e
  BY <1>1, AppendProperties
<1>3. IsSeq(Append(s, e))
  BY <1>2, SeqIsSeq, Zenon
<1> QED BY <1>2, <1>3

LEMMA TailIsSeq ==
    ASSUME NEW s, IsSeq(s), s # << >>
    PROVE  /\ IsSeq(Tail(s))
           /\ Len(Tail(s)) = Len(s) - 1
           /\ \A i \in 1 .. Len(s) - 1 : Tail(s)[i] = s[i + 1]
           /\ Head(s) = s[1]
<1>1. s \in Seq(Range(s))
  BY DEF IsSeq
<1>2. /\ Tail(s) \in Seq(Range(s))
      /\ Len(Tail(s)) = Len(s) - 1
      /\ \A i \in 1 .. Len(Tail(s)) : Tail(s)[i] = s[i + 1]
  BY <1>1, HeadTailProperties
<1>3. Head(s) = s[1]
  BY <1>1
<1> QED BY <1>2, <1>3, SeqIsSeq, Zenon

\* A piece of a sequence has elements of it, in place when it is a prefix.
LEMMA SubSeqIsSeq ==
    ASSUME NEW s, IsSeq(s), NEW m \in Nat \ {0}, NEW n \in Nat, n <= Len(s)
    PROVE  /\ IsSeq(SubSeq(s, m, n))
           /\ Len(SubSeq(s, m, n)) = IF m <= n THEN n - m + 1 ELSE 0
           /\ \A i \in 1 .. Len(SubSeq(s, m, n)) :
                /\ m + i - 1 \in 1 .. Len(s)
                /\ SubSeq(s, m, n)[i] = s[m + i - 1]
<1>1. s \in Seq(Range(s)) /\ Len(s) \in Nat
  BY DEF IsSeq
<1>2. \A i \in m .. n : s[i] \in Range(s)
  BY <1>1
<1>3. /\ SubSeq(s, m, n) \in Seq(Range(s))
      /\ Len(SubSeq(s, m, n)) = IF m <= n THEN n - m + 1 ELSE 0
      /\ \A i \in 1 .. n - m + 1 : SubSeq(s, m, n)[i] = s[m + i - 1]
  BY <1>2, SubSeqProperties
<1>4. ASSUME NEW i \in 1 .. Len(SubSeq(s, m, n))
      PROVE  m + i - 1 \in 1 .. Len(s) /\ SubSeq(s, m, n)[i] = s[m + i - 1]
  <2>1. i \in 1 .. n - m + 1
    BY <1>3
  <2> QED BY <1>1, <1>3, <2>1
<1> QED BY <1>3, <1>4, SeqIsSeq, Zenon

-----------------------------------------------------------------------------
(* SumFunctionOnSet(f, S) adds f up over S, element by element in the order  *)
(* CHOOSE picks them; the order does not matter.                             *)

Picked(s) == CHOOSE x \in s : TRUE

\* The table the fold of SumFunctionOnSet looks its result up in.
SumTable(f, S, table) ==
    table = [s \in SUBSET S |->
               IF s = {} THEN 0 ELSE f[Picked(s)] + table[s \ {Picked(s)}]]

LEMMA SumIsTable ==
    ASSUME NEW f, NEW S
    PROVE  SumFunctionOnSet(f, S) = (CHOOSE table : SumTable(f, S, table))[S]
  BY Zenon DEF SumFunctionOnSet, FoldFunctionOnSet, MapThenFoldSet, SumTable, Picked

\* Taking the picked element away makes a set smaller.
LEMMA PickedSmaller ==
    ASSUME NEW S, IsFiniteSet(S)
    PROVE  \A s \in SUBSET S :
             /\ IsFiniteSet(s)
             /\ Cardinality(s) \in Nat
             /\ s # {} => /\ Picked(s) \in s
                          /\ s \ {Picked(s)} \in SUBSET S
                          /\ Cardinality(s \ {Picked(s)}) = Cardinality(s) - 1
<1> TAKE s \in SUBSET S
<1>1. IsFiniteSet(s)
  BY FS_Subset
<1>2. Cardinality(s) \in Nat
  BY <1>1, FS_CardinalityType
<1>3. ASSUME s # {} PROVE Picked(s) \in s
  BY <1>3 DEF Picked
<1>4. ASSUME NEW x \in s PROVE Cardinality(s \ {x}) = Cardinality(s) - 1
  BY <1>1, FS_RemoveElement
<1> QED BY <1>1, <1>2, <1>3, <1>4

\* There is such a table, by induction on the size of the sets it covers.
LEMMA SumTableExists ==
    ASSUME NEW f, NEW S, IsFiniteSet(S)
    PROVE  \E table : SumTable(f, S, table)
<1> DEFINE D(n) == {s \in SUBSET S : Cardinality(s) <= n}
           Row(g, s) == IF s = {} THEN 0 ELSE f[Picked(s)] + g[s \ {Picked(s)}]
           Covers(g, n) == g = [s \in D(n) |-> Row(g, s)]
           G == {n \in Nat : \E g : Covers(g, n)}
<1>0. \A s \in SUBSET S :
        /\ Cardinality(s) \in Nat
        /\ Cardinality(s) = 0 <=> s = {}
        /\ s # {} => /\ s \ {Picked(s)} \in SUBSET S
                     /\ Cardinality(s \ {Picked(s)}) = Cardinality(s) - 1
  <2> TAKE s \in SUBSET S
  <2>1. IsFiniteSet(s)
    BY PickedSmaller, Zenon
  <2>2. Cardinality(s) = 0 <=> s = {}
    BY <2>1, FS_EmptySet
  <2> QED BY <2>2, PickedSmaller
<1>1. 0 \in G
  <2> DEFINE g == [s \in D(0) |-> 0]
  <2>1. ASSUME NEW s \in D(0) PROVE s = {}
    <3>1. s \in SUBSET S /\ Cardinality(s) <= 0
      BY <2>1
    <3>2. Cardinality(s) \in Nat /\ (Cardinality(s) = 0 <=> s = {})
      BY <1>0, <3>1, Zenon
    <3> QED BY <3>1, <3>2
  <2>2. Covers(g, 0)
    BY <2>1
  <2> QED BY <2>2, Zenon
<1>2. ASSUME NEW n \in Nat, n \in G PROVE n + 1 \in G
  <2>1. PICK g : Covers(g, n)
    BY <1>2, Zenon
  <2> DEFINE h == [s \in D(n + 1) |-> Row(g, s)]
  <2>2. ASSUME NEW s \in D(n) PROVE s \in D(n + 1)
    <3>1. s \in SUBSET S /\ Cardinality(s) <= n
      BY <2>2
    <3>2. Cardinality(s) \in Nat
      BY <1>0, <3>1, Zenon
    <3> QED BY <3>1, <3>2
  <2>3. \A s \in D(n + 1) : s # {} => s \ {Picked(s)} \in D(n)
    BY <1>0
  <2> HIDE DEF D
  <2>4. \A s \in D(n) : h[s] = g[s]
    BY <2>1, <2>2, Zenon
  <2> HIDE DEF h
  <2>5. \A s \in D(n + 1) : Row(h, s) = Row(g, s)
    BY <2>3, <2>4
  <2>6. Covers(h, n + 1)
    BY <2>5, Zenon DEF h
  <2> HIDE DEF Covers
  <2> QED BY <2>6
<1>3. Cardinality(S) \in G
  <2> HIDE DEF G
  <2>1. Nat \subseteq G
    BY <1>1, <1>2, NatSetInduction
  <2> QED BY <2>1, FS_CardinalityType
<1>4. D(Cardinality(S)) = SUBSET S
  BY FS_Subset
<1> QED BY <1>3, <1>4, Zenon DEF SumTable

\* Tables agree where both have an entry.
LEMMA SumTableUnique ==
    ASSUME NEW f, NEW S, NEW T, IsFiniteSet(S), T \subseteq S, NEW g, NEW h,
           SumTable(f, S, g), SumTable(f, T, h)
    PROVE  \A s \in SUBSET T : g[s] = h[s]
<1> DEFINE G == {s \in SUBSET T : g[s] = h[s]}
<1>0. IsFiniteSet(T)
  BY FS_Subset
<1>1. ASSUME NEW s \in SUBSET T,
             \A u \in SUBSET T : Cardinality(u) < Cardinality(s) => u \in G
      PROVE  s \in G
  <2>1. g[s] = IF s = {} THEN 0 ELSE f[Picked(s)] + g[s \ {Picked(s)}]
    BY Zenon DEF SumTable
  <2>2. h[s] = IF s = {} THEN 0 ELSE f[Picked(s)] + h[s \ {Picked(s)}]
    BY Zenon DEF SumTable
  <2>3. s # {} => g[s \ {Picked(s)}] = h[s \ {Picked(s)}]
    BY <1>0, <1>1, PickedSmaller
  <2> QED BY <2>1, <2>2, <2>3
<1> HIDE DEF G
<1>2. \A s \in SUBSET T : s \in G
  BY <1>0, <1>1, SubsetInduction, Zenon
<1> QED BY <1>2 DEF G

\* The sum over no element is 0; the sum over a set adds the picked element to
\* the sum over the others.
LEMMA SumRec ==
    ASSUME NEW f, NEW S, IsFiniteSet(S)
    PROVE  /\ SumFunctionOnSet(f, {}) = 0
           /\ S # {} => SumFunctionOnSet(f, S)
                          = f[Picked(S)] + SumFunctionOnSet(f, S \ {Picked(S)})
<1> DEFINE Table(T) == CHOOSE table : SumTable(f, T, table)
<1>1. ASSUME NEW T \in SUBSET S PROVE SumTable(f, T, Table(T))
  <2>1. IsFiniteSet(T)
    BY FS_Subset
  <2> QED BY <2>1, SumTableExists
<1>2. ASSUME NEW T \in SUBSET S PROVE SumFunctionOnSet(f, T) = Table(S)[T]
  <2>1. SumFunctionOnSet(f, T) = Table(T)[T]
    BY SumIsTable
  <2>2. SumTable(f, T, Table(T)) /\ SumTable(f, S, Table(S))
    BY <1>1
  <2> HIDE DEF Table
  <2>3. T \subseteq S
    OBVIOUS
  <2>4. \A g, h : SumTable(f, S, g) /\ SumTable(f, T, h) => g[T] = h[T]
    BY <2>3, SumTableUnique
  <2>5. Table(S)[T] = Table(T)[T]
    BY <2>2, <2>4
  <2> QED BY <2>1, <2>5
<1>3. SumTable(f, S, Table(S))
  BY <1>1
<1> HIDE DEF Table
<1>4. /\ Table(S)[{}] = 0
      /\ S # {} => Table(S)[S] = f[Picked(S)] + Table(S)[S \ {Picked(S)}]
  BY <1>3, Zenon DEF SumTable
<1> QED BY <1>2, <1>4

\* A sum of integers is one, and of naturals is a natural.
LEMMA SumType ==
    ASSUME NEW S, IsFiniteSet(S), NEW f, NEW N, N \in {Int, Nat}, \A x \in S : f[x] \in N
    PROVE  SumFunctionOnSet(f, S) \in N
<1> DEFINE G == {T \in SUBSET S : SumFunctionOnSet(f, T) \in N}
<1>1. ASSUME NEW T \in SUBSET S,
             \A U \in SUBSET S : Cardinality(U) < Cardinality(T) => U \in G
      PROVE  T \in G
  <2>1. IsFiniteSet(T)
    BY FS_Subset
  <2>2. CASE T = {}
    <3>1. SumFunctionOnSet(f, {}) = 0
      BY FS_EmptySet, SumRec, Zenon
    <3> QED BY <2>2, <3>1
  <2>3. CASE T # {}
    <3>1. Picked(T) \in T /\ T \ {Picked(T)} \in G
      BY <1>1, <2>3, PickedSmaller
    <3>2. f[Picked(T)] \in N /\ SumFunctionOnSet(f, T \ {Picked(T)}) \in N
      BY <3>1
    <3>3. SumFunctionOnSet(f, T) = f[Picked(T)] + SumFunctionOnSet(f, T \ {Picked(T)})
      BY <2>1, <2>3, SumRec
    <3> QED BY <3>2, <3>3
  <2> QED BY <2>2, <2>3
<1> HIDE DEF G
<1>2. \A T \in SUBSET S : T \in G
  BY <1>1, SubsetInduction
<1> QED BY <1>2 DEF G

\* Whichever element is taken out first, the sum is the same.
LEMMA SumStep ==
    ASSUME NEW S, IsFiniteSet(S), NEW f, \A x \in S : f[x] \in Int, NEW a \in S
    PROVE  SumFunctionOnSet(f, S) = f[a] + SumFunctionOnSet(f, S \ {a})
<1> DEFINE Sum(T) == SumFunctionOnSet(f, T)
           G == {T \in SUBSET S : \A x \in T : Sum(T) = f[x] + Sum(T \ {x})}
<1>0. \A T \in SUBSET S : IsFiniteSet(T) /\ Sum(T) \in Int
  <2> TAKE T \in SUBSET S
  <2>1. IsFiniteSet(T)
    BY FS_Subset
  <2> QED BY <2>1, SumType
<1>1. ASSUME NEW T \in SUBSET S,
             \A U \in SUBSET S : Cardinality(U) < Cardinality(T) => U \in G
      PROVE  T \in G
  <2> SUFFICES ASSUME NEW x \in T PROVE Sum(T) = f[x] + Sum(T \ {x})
    OBVIOUS
  <2> DEFINE p == Picked(T)
  <2>1. p \in T /\ Sum(T) = f[p] + Sum(T \ {p})
    BY <1>0, SumRec, PickedSmaller, Zenon
  <2> HIDE DEF p
  <2>2. ASSUME x # p PROVE Sum(T) = f[x] + Sum(T \ {x})
    <3>1. ASSUME NEW y \in T PROVE T \ {y} \in G
      <4>1. Cardinality(T \ {y}) = Cardinality(T) - 1 /\ Cardinality(T) \in Nat
        BY <1>0, FS_RemoveElement, FS_CardinalityType, Zenon
      <4> QED BY <1>1, <4>1
    <3>2. Sum(T \ {p}) = f[x] + Sum((T \ {p}) \ {x})
      BY <2>1, <2>2, <3>1
    <3>3. Sum(T \ {x}) = f[p] + Sum((T \ {x}) \ {p})
      BY <2>1, <2>2, <3>1
    <3>4. (T \ {p}) \ {x} = (T \ {x}) \ {p}
      OBVIOUS
    <3>5. f[x] \in Int /\ f[p] \in Int /\ Sum((T \ {x}) \ {p}) \in Int
      BY <1>0, <2>1
    <3> HIDE DEF Sum
    <3>6. Sum((T \ {p}) \ {x}) = Sum((T \ {x}) \ {p})
      BY <3>4
    <3> QED BY <2>1, <3>2, <3>3, <3>5, <3>6
  <2> QED BY <2>1, <2>2, Zenon
<1> HIDE DEF G
<1>2. \A T \in SUBSET S : T \in G
  BY <1>1, SubsetInduction
<1> QED BY <1>2 DEF G

\* Functions that agree on a set have the same sum over it.
LEMMA SumEqual ==
    ASSUME NEW S, IsFiniteSet(S), NEW f, NEW g, \A x \in S : f[x] = g[x]
    PROVE  SumFunctionOnSet(f, S) = SumFunctionOnSet(g, S)
<1> DEFINE G == {T \in SUBSET S : SumFunctionOnSet(f, T) = SumFunctionOnSet(g, T)}
<1>1. ASSUME NEW T \in SUBSET S,
             \A U \in SUBSET S : Cardinality(U) < Cardinality(T) => U \in G
      PROVE  T \in G
  <2>1. IsFiniteSet(T)
    BY FS_Subset
  <2>2. T # {} => Picked(T) \in T /\ T \ {Picked(T)} \in G
    BY <1>1, PickedSmaller
  <2>3. T # {} => /\ f[Picked(T)] = g[Picked(T)]
                  /\ SumFunctionOnSet(f, T \ {Picked(T)}) = SumFunctionOnSet(g, T \ {Picked(T)})
    BY <2>2
  <2> QED BY <2>1, <2>3, SumRec
<1> HIDE DEF G
<1>2. \A T \in SUBSET S : T \in G
  BY <1>1, SubsetInduction
<1> QED BY <1>2 DEF G

\* The sum of a function is over its domain.
LEMMA SumOfFunction ==
    ASSUME NEW S, IsFiniteSet(S), NEW N, N \in {Int, Nat}, NEW f \in [S -> N]
    PROVE  /\ SumFunction(f) = SumFunctionOnSet(f, S)
           /\ SumFunction(f) \in N
<1>1. SumFunction(f) = SumFunctionOnSet(f, S)
  <2>1. DOMAIN f = S
    OBVIOUS
  <2> QED BY <2>1, Zenon DEF SumFunction
<1>2. \A x \in S : f[x] \in N
  OBVIOUS
<1> QED BY <1>1, <1>2, SumType

\* Changing one value changes the sum by the difference.
LEMMA SumExcept ==
    ASSUME NEW S, IsFiniteSet(S), NEW f \in [S -> Int], NEW a \in S, NEW v \in Int
    PROVE  SumFunction([f EXCEPT ![a] = v]) = SumFunction(f) - f[a] + v
<1> DEFINE g == [f EXCEPT ![a] = v]
<1>1. /\ g \in [S -> Int]
      /\ g[a] = v
      /\ \A x \in S \ {a} : f[x] = g[x]
      /\ \A x \in S : f[x] \in Int
      /\ \A x \in S : g[x] \in Int
  OBVIOUS
<1> HIDE DEF g
<1>2. IsFiniteSet(S \ {a})
  BY FS_Subset
<1>3. SumFunctionOnSet(f, S \ {a}) = SumFunctionOnSet(g, S \ {a})
  BY <1>1, <1>2, SumEqual
<1>4. SumFunctionOnSet(f, S \ {a}) \in Int
  BY <1>1, <1>2, SumType
<1>5. SumFunctionOnSet(f, S) = f[a] + SumFunctionOnSet(f, S \ {a})
  BY <1>1, SumStep
<1>6. SumFunctionOnSet(g, S) = g[a] + SumFunctionOnSet(g, S \ {a})
  BY <1>1, SumStep
<1>7. SumFunction(f) = SumFunctionOnSet(f, S) /\ SumFunction(g) = SumFunctionOnSet(g, S)
  BY <1>1, SumOfFunction
<1>8. SumFunction(g) = SumFunction(f) - f[a] + v
  BY <1>1, <1>3, <1>4, <1>5, <1>6, <1>7
<1> QED BY <1>8 DEF g

\* No value of a function into the naturals is above the sum.
LEMMA SumBound ==
    ASSUME NEW S, IsFiniteSet(S), NEW f \in [S -> Nat], NEW a \in S
    PROVE  f[a] <= SumFunction(f)
<1>1. SumFunctionOnSet(f, S) = f[a] + SumFunctionOnSet(f, S \ {a})
  BY SumStep
<1>2. SumFunctionOnSet(f, S \ {a}) \in Nat
  <2>1. IsFiniteSet(S \ {a}) /\ \A x \in S \ {a} : f[x] \in Nat
    BY FS_Subset
  <2> QED BY <2>1, SumType, Zenon
<1>3. SumFunction(f) = SumFunctionOnSet(f, S) /\ f[a] \in Nat
  BY SumOfFunction
<1> QED BY <1>1, <1>2, <1>3

\* Elements that add nothing can be left out, and two functions can be added
\* up value by value.
LEMMA SumAdd ==
    ASSUME NEW S, IsFiniteSet(S), NEW P \in SUBSET S,
           NEW f, NEW g, NEW h,
           \A x \in S : f[x] \in Int,
           \A x \in P : g[x] \in Int,
           \A x \in S : h[x] = IF x \in P THEN f[x] + g[x] ELSE f[x]
    PROVE  SumFunctionOnSet(h, S) = SumFunctionOnSet(f, S) + SumFunctionOnSet(g, P)
<1> DEFINE G == {T \in SUBSET S : SumFunctionOnSet(h, T)
                   = SumFunctionOnSet(f, T) + SumFunctionOnSet(g, T \cap P)}
<1>0. \A T \in SUBSET S :
        /\ IsFiniteSet(T) /\ IsFiniteSet(T \cap P)
        /\ SumFunctionOnSet(f, T) \in Int
        /\ SumFunctionOnSet(g, T \cap P) \in Int
  <2> TAKE T \in SUBSET S
  <2>1. IsFiniteSet(T) /\ IsFiniteSet(T \cap P)
    BY FS_Subset
  <2>2. SumFunctionOnSet(f, T) \in Int
    BY <2>1, SumType
  <2>3. SumFunctionOnSet(g, T \cap P) \in Int
    <3>1. \A x \in T \cap P : g[x] \in Int
      OBVIOUS
    <3> QED BY <2>1, <3>1, SumType
  <2> QED BY <2>1, <2>2, <2>3
<1>1. ASSUME NEW T \in SUBSET S,
             \A U \in SUBSET S : Cardinality(U) < Cardinality(T) => U \in G
      PROVE  T \in G
  <2>1. CASE T = {}
    <3>1. T \cap P = {}
      BY <2>1
    <3>2. /\ SumFunctionOnSet(h, {}) = 0
          /\ SumFunctionOnSet(f, {}) = 0
          /\ SumFunctionOnSet(g, {}) = 0
      BY FS_EmptySet, SumRec, Zenon
    <3> QED BY <2>1, <3>1, <3>2
  <2>2. CASE T # {}
    <3>0. Picked(T) \in T
      BY <2>2, PickedSmaller, Zenon
    <3>1. PICK p \in T : SumFunctionOnSet(h, T) = h[p] + SumFunctionOnSet(h, T \ {p})
      BY <1>0, <2>2, <3>0, SumRec, Zenon
    <3> DEFINE R == T \ {p}
    <3>2. R \in G
      <4>1. Cardinality(R) = Cardinality(T) - 1 /\ Cardinality(T) \in Nat
        BY <1>0, FS_RemoveElement, FS_CardinalityType, Zenon
      <4> QED BY <1>1, <4>1
    <3>3. R \in SUBSET S /\ p \in S
      OBVIOUS
    <3>4. SumFunctionOnSet(f, T) = f[p] + SumFunctionOnSet(f, R)
      <4>1. IsFiniteSet(T) /\ \A x \in T : f[x] \in Int
        BY <1>0, Zenon
      <4> QED BY <4>1, SumStep
    <3>5. SumFunctionOnSet(g, T \cap P)
            = (IF p \in P THEN g[p] ELSE 0) + SumFunctionOnSet(g, R \cap P)
      <4>1. CASE p \in P
        <5>1. R \cap P = (T \cap P) \ {p}
          OBVIOUS
        <5>2. IsFiniteSet(T \cap P) /\ p \in T \cap P /\ \A x \in T \cap P : g[x] \in Int
          BY <1>0, <4>1
        <5>3. SumFunctionOnSet(g, T \cap P) = g[p] + SumFunctionOnSet(g, (T \cap P) \ {p})
          BY <5>2, SumStep
        <5> QED BY <4>1, <5>1, <5>3, SMTT(30)
      <4>2. CASE p \notin P
        <5>1. R \cap P = T \cap P
          BY <4>2
        <5>2. SumFunctionOnSet(g, T \cap P) \in Int
          BY <1>0
        <5> QED BY <4>2, <5>1, <5>2, SMTT(30)
      <4> QED BY <4>1, <4>2
    <3>6. SumFunctionOnSet(h, R) = SumFunctionOnSet(f, R) + SumFunctionOnSet(g, R \cap P)
      BY <3>2
    <3>7. SumFunctionOnSet(f, R) \in Int /\ SumFunctionOnSet(g, R \cap P) \in Int
      BY <1>0, Zenon
    <3>8. f[p] \in Int /\ (p \in P => g[p] \in Int)
          /\ h[p] = IF p \in P THEN f[p] + g[p] ELSE f[p]
      BY <3>3
    <3> QED BY <3>1, <3>4, <3>5, <3>6, <3>7, <3>8
  <2> QED BY <2>1, <2>2
<1> HIDE DEF G
<1>2. \A T \in SUBSET S : T \in G
  BY <1>1, SubsetInduction
<1>3. S \in G /\ S \cap P = P
  BY <1>2
<1> QED BY <1>3, Zenon DEF G

\* Zeros add up to zero, and the sum of a function on one element is its value.
LEMMA SumTrivial ==
    ASSUME NEW S, IsFiniteSet(S), NEW f
    PROVE  /\ (\A x \in S : f[x] = 0) => SumFunctionOnSet(f, S) = 0
           /\ \A x \in S : S = {x} /\ f[x] \in Int => SumFunctionOnSet(f, S) = f[x]
<1>1. ASSUME \A x \in S : f[x] = 0 PROVE SumFunctionOnSet(f, S) = 0
  <2>1. /\ \A x \in S : f[x] \in Int
        /\ \A x \in S : f[x] = IF x \in S THEN f[x] + f[x] ELSE f[x]
    BY <1>1
  <2>2. SumFunctionOnSet(f, S) = SumFunctionOnSet(f, S) + SumFunctionOnSet(f, S)
    BY <2>1, SumAdd
  <2>3. SumFunctionOnSet(f, S) \in Int
    BY <2>1, SumType
  <2> QED BY <2>2, <2>3, SMTT(30)
<1>2. ASSUME NEW x \in S, S = {x}, f[x] \in Int PROVE SumFunctionOnSet(f, S) = f[x]
  <2>1. SumFunctionOnSet(f, S) = f[x] + SumFunctionOnSet(f, S \ {x})
    BY <1>2, SumStep
  <2>2. S \ {x} = {}
    BY <1>2
  <2>3. SumFunctionOnSet(f, {}) = 0
    BY SumRec, Zenon
  <2>4. SumFunctionOnSet(f, S \ {x}) = 0
    BY <2>2, <2>3
  <2> QED BY <1>2, <2>1, <2>4
<1> QED BY <1>1, <1>2

-----------------------------------------------------------------------------
(* Functions defined by recursion over a range of numbers. *)

Recursion(f, a, n, step) == f = [i \in 0 .. n |-> IF i = 0 THEN a ELSE step[<<i, f[i - 1]>>]]

\* There is a function that satisfies the recursive equation.
LEMMA RecursionExists ==
    ASSUME NEW V, NEW a \in V, NEW n \in Nat, NEW step \in [(1 .. n) \X V -> V]
    PROVE  \E f \in [0 .. n -> V] : Recursion(f, a, n, step)
<1> DEFINE G == {m \in Nat : m <= n => \E f \in [0 .. m -> V] : Recursion(f, a, m, step)}
<1>1. 0 \in G
  <2> DEFINE f == [i \in 0 .. 0 |-> a]
  <2>1. f \in [0 .. 0 -> V] /\ Recursion(f, a, 0, step)
    BY DEF Recursion
  <2> QED BY <2>1
<1>2. ASSUME NEW m \in Nat, m \in G PROVE m + 1 \in G
  <2> SUFFICES ASSUME m + 1 <= n
               PROVE  \E f \in [0 .. m + 1 -> V] : Recursion(f, a, m + 1, step)
    OBVIOUS
  <2>1. PICK f \in [0 .. m -> V] : Recursion(f, a, m, step)
    BY <1>2
  <2> DEFINE v == step[<<m + 1, f[m]>>]
             h == [i \in 0 .. m + 1 |-> IF i <= m THEN f[i] ELSE v]
  <2>2. v \in V
    <3>1. <<m + 1, f[m]>> \in (1 .. n) \X V
      OBVIOUS
    <3> QED BY <3>1
  <2>3. h \in [0 .. m + 1 -> V]
    BY <2>2
  <2>4. ASSUME NEW i \in 0 .. m + 1 PROVE h[i] = IF i = 0 THEN a ELSE step[<<i, h[i - 1]>>]
    <3>1. CASE i <= m
      <4>1. f[i] = IF i = 0 THEN a ELSE step[<<i, f[i - 1]>>]
        BY <2>1, <3>1 DEF Recursion
      <4>2. h[i] = f[i] /\ (i # 0 => h[i - 1] = f[i - 1])
        BY <3>1
      <4> HIDE DEF h
      <4> QED BY <4>1, <4>2, Zenon
    <3>2. CASE i = m + 1
      <4>1. h[i] = v /\ h[i - 1] = f[m] /\ i # 0
        BY <3>2
      <4> QED BY <3>2, <4>1
    <3> QED BY <3>1, <3>2
  <2>5. Recursion(h, a, m + 1, step)
    <3>1. h = [i \in 0 .. m + 1 |-> h[i]]
      OBVIOUS
    <3> HIDE DEF h
    <3> QED BY <2>4, <3>1 DEF Recursion
  <2> QED BY <2>3, <2>5
<1> HIDE DEF G
<1>3. n \in G
  BY <1>1, <1>2, NatSetInduction
<1> QED BY <1>3 DEF G

IsFilter(f, s, keep) ==
    f = [i \in 0 .. Len(s) |->
           IF i = 0 THEN << >>
           ELSE IF s[i] \in keep THEN Append(f[i - 1], s[i]) ELSE f[i - 1]]

FilterTable(s, keep) == CHOOSE f : IsFilter(f, s, keep)

\* The loop of Lists!Filtered, round by round.
LEMMA FilterRounds ==
    ASSUME NEW E, NEW s \in Seq(E), NEW keep
    PROVE  LET f == FilterTable(s, keep) IN
           /\ Filtered(s, keep) = f[Len(s)]
           /\ f[0] = << >>
           /\ \A i \in 1 .. Len(s) : f[i] = IF s[i] \in keep THEN Append(f[i - 1], s[i]) ELSE f[i - 1]
<1> DEFINE n == Len(s)
           V == Seq(E)
           step == [p \in (1 .. n) \X V |-> IF s[p[1]] \in keep THEN Append(p[2], s[p[1]]) ELSE p[2]]
           f == FilterTable(s, keep)
<1>1. n \in Nat /\ << >> \in V
  OBVIOUS
<1>2. step \in [(1 .. n) \X V -> V]
  OBVIOUS
<1>3. ASSUME NEW i \in 1 .. n, NEW x \in V
      PROVE  step[<<i, x>>] = IF s[i] \in keep THEN Append(x, s[i]) ELSE x
  OBVIOUS
<1> HIDE DEF n, V, step
<1>4. PICK h \in [0 .. n -> V] : Recursion(h, << >>, n, step)
  BY <1>1, <1>2, RecursionExists, Zenon
<1>5. IsFilter(h, s, keep)
  <2>1. ASSUME NEW i \in 0 .. n
        PROVE  h[i] = IF i = 0 THEN << >>
                      ELSE IF s[i] \in keep THEN Append(h[i - 1], s[i]) ELSE h[i - 1]
    <3>1. h[i] = IF i = 0 THEN << >> ELSE step[<<i, h[i - 1]>>]
      BY <1>4, Zenon DEF Recursion
    <3>2. i # 0 => i \in 1 .. n /\ h[i - 1] \in V
      BY <1>1
    <3> QED BY <1>3, <3>1, <3>2
  <2>2. h = [i \in 0 .. n |-> h[i]]
    OBVIOUS
  <2> QED BY <2>1, <2>2 DEF IsFilter, n
<1>6. IsFilter(f, s, keep)
  BY <1>5 DEF FilterTable
<1>7. Filtered(s, keep) = f[n]
  BY DEF Filtered, FilterTable, IsFilter, n
<1> HIDE DEF f
<1>8. f[0] = << >>
  BY <1>1, <1>6 DEF IsFilter, n
<1>9. ASSUME NEW i \in 1 .. n
      PROVE  f[i] = IF s[i] \in keep THEN Append(f[i - 1], s[i]) ELSE f[i - 1]
  <2>1. i \in 0 .. n /\ i # 0
    BY <1>1
  <2>2. f[i] = IF i = 0 THEN << >>
               ELSE IF s[i] \in keep THEN Append(f[i - 1], s[i]) ELSE f[i - 1]
    BY <1>6, <2>1, Zenon DEF IsFilter, n
  <2> QED BY <2>1, <2>2
<1> QED BY <1>7, <1>8, <1>9 DEF f, n

\* What it computes: the elements to keep, and each as often as before when
\* none was there twice.
LEMMA FilteredIs ==
    ASSUME NEW E, NEW s \in Seq(E), NEW keep
    PROVE  /\ Filtered(s, keep) \in Seq(E)
           /\ Range(Filtered(s, keep)) = Range(s) \cap keep
           /\ IsInjective(s) => IsInjective(Filtered(s, keep))
<1> DEFINE n == Len(s)
           f == FilterTable(s, keep)
           first(i) == {s[j] : j \in 1 .. i}
           Good(i) == /\ f[i] \in Seq(E)
                      /\ Range(f[i]) = first(i) \cap keep
                      /\ IsInjective(s) => IsInjective(f[i])
           G == {i \in Nat : i <= n => Good(i)}
<1>1. Filtered(s, keep) = f[n] /\ f[0] = << >> /\ n \in Nat
  BY FilterRounds
<1>2. \A i \in 1 .. n : f[i] = IF s[i] \in keep THEN Append(f[i - 1], s[i]) ELSE f[i - 1]
  BY FilterRounds
<1>3. DOMAIN s = 1 .. n /\ \A i \in 1 .. n : s[i] \in E
  OBVIOUS
<1> HIDE DEF n, f
<1>4. 0 \in G
  <2>1. << >> \in Seq(E) /\ Range(<< >>) = {} /\ IsInjective(<< >>)
    BY DEF Range, IsInjective
  <2>2. first(0) = {}
    OBVIOUS
  <2> HIDE DEF first
  <2> QED BY <1>1, <2>1, <2>2, Zenon
<1>5. ASSUME NEW i \in Nat, i \in G PROVE i + 1 \in G
  <2> SUFFICES ASSUME i + 1 <= n PROVE Good(i + 1)
    OBVIOUS
  <2> DEFINE x == s[i + 1]
  <2>1. i + 1 \in 1 .. n /\ i \in 0 .. n /\ (i + 1) - 1 = i
    BY <1>1
  <2>2. x \in E /\ Good(i)
    BY <1>1, <1>3, <1>5, <2>1
  <2>3. first(i + 1) = first(i) \cup {x}
    OBVIOUS
  <2>4. IsInjective(s) => x \notin first(i)
    <3> SUFFICES ASSUME IsInjective(s), NEW j \in 1 .. i, s[j] = x PROVE FALSE
      OBVIOUS
    <3>1. n \in Nat
      BY <1>1
    <3>2. j \in 1 .. n /\ j # i + 1
      BY <2>1, <3>1
    <3> QED BY <1>3, <2>1, <3>2 DEF IsInjective
  <2>5. f[i + 1] = IF x \in keep THEN Append(f[i], x) ELSE f[i]
    BY <1>2, <2>1
  <2> HIDE DEF first, x
  <2>6. CASE x \in keep
    <3> DEFINE t == f[i]
    <3>1. f[i + 1] = Append(t, x) /\ t \in Seq(E)
      BY <2>2, <2>5, <2>6
    <3> HIDE DEF t
    <3>2. /\ Append(t, x) \in Seq(E)
          /\ DOMAIN Append(t, x) = 1 .. Len(t) + 1 /\ DOMAIN t = 1 .. Len(t) /\ Len(t) \in Nat
          /\ \A j \in 1 .. Len(t) : Append(t, x)[j] = t[j]
          /\ Append(t, x)[Len(t) + 1] = x
      BY <2>2, <3>1
    <3> DEFINE u == Append(t, x)
    <3> HIDE DEF u
    <3>3. Range(u) = Range(t) \cup {x}
      BY <3>2 DEF Range, u
    <3>4. IsInjective(t) /\ x \notin Range(t) => IsInjective(u)
      BY <3>2 DEF IsInjective, Range, u
    <3> QED BY <2>2, <2>3, <2>4, <2>6, <3>1, <3>2, <3>3, <3>4 DEF t, u
  <2>7. CASE x \notin keep
    BY <2>2, <2>3, <2>5, <2>7
  <2> QED BY <2>6, <2>7
<1> HIDE DEF G
<1>6. n \in G
  BY <1>1, <1>4, <1>5, NatSetInduction
<1>7. Good(n)
  BY <1>1, <1>6 DEF G
<1>8. first(n) = Range(s)
  BY <1>3 DEF Range
<1> QED BY <1>1, <1>7, <1>8

\* When there is nothing to leave out, the loop copies the list.
LEMMA FilteredAll ==
    ASSUME NEW E, NEW s \in Seq(E), NEW keep, Range(s) \subseteq keep
    PROVE  Filtered(s, keep) = s
<1> DEFINE n == Len(s)
           f == FilterTable(s, keep)
           Good(i) == /\ f[i] \in Seq(E)
                      /\ Len(f[i]) = i
                      /\ \A j \in 1 .. i : f[i][j] = s[j]
           G == {i \in Nat : i <= n => Good(i)}
<1>1. Filtered(s, keep) = f[n] /\ f[0] = << >> /\ n \in Nat
  BY FilterRounds
<1>2. \A i \in 1 .. n : f[i] = IF s[i] \in keep THEN Append(f[i - 1], s[i]) ELSE f[i - 1]
  BY FilterRounds
<1>3. \A i \in 1 .. n : s[i] \in E /\ s[i] \in keep
  BY DEF Range
<1> HIDE DEF n, f
<1>4. 0 \in G
  <2>1. << >> \in Seq(E) /\ Len(<< >>) = 0 /\ 1 .. 0 = {}
    OBVIOUS
  <2> QED BY <1>1, <2>1
<1>5. ASSUME NEW i \in Nat, i \in G PROVE i + 1 \in G
  <2> SUFFICES ASSUME i + 1 <= n PROVE Good(i + 1)
    OBVIOUS
  <2>1. i + 1 \in 1 .. n /\ (i + 1) - 1 = i
    BY <1>1
  <2> DEFINE t == f[i]
             x == s[i + 1]
  <2>2. t \in Seq(E) /\ Len(t) = i /\ \A j \in 1 .. i : t[j] = s[j]
    BY <1>1, <1>5, <2>1
  <2>3. f[i + 1] = Append(t, x) /\ x \in E
    BY <1>2, <1>3, <2>1
  <2> HIDE DEF t
  <2>4. /\ Append(t, x) \in Seq(E) /\ Len(Append(t, x)) = i + 1
        /\ \A j \in 1 .. i : Append(t, x)[j] = t[j]
        /\ Append(t, x)[i + 1] = x
    BY <2>2, <2>3
  <2>5. \A j \in 1 .. i + 1 : Append(t, x)[j] = s[j]
    BY <2>2, <2>4
  <2> QED BY <2>3, <2>4, <2>5
<1> HIDE DEF G
<1>6. n \in G
  BY <1>1, <1>4, <1>5, NatSetInduction
<1>7. Good(n)
  BY <1>1, <1>6 DEF G
<1> QED BY <1>1, <1>7, SeqEqual DEF n
=============================================================================
