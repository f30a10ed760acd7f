---------------------------- MODULE OrderingProofs ----------------------------
(***************************************************************************)
(* The sequences Ordering makes by counting what comes before an element:  *)
(* each element once, in the order, for any finite set and strict total    *)
(* order.  And induction, for the proofs that use these.                   *)
(***************************************************************************)
EXTENDS Ordering, Integers, Sequences, FiniteSetTheorems, SequenceTheorems, WellFoundedInduction, TLAPS

-----------------------------------------------------------------------------
(* Induction over finite sets, numbers and sequences.                      *)

\* Induction over finite sets, as the smallest counterexample: among finite sets
\* one has no proper subset among them.
LEMMA SmallestSubset ==
  ASSUME NEW S, NEW T, T \subseteq FiniteSubsetsOf(S), T # {}
  PROVE \E U \in T : \A V \in T : V \subseteq U => V = U
<1>1. IsWellFoundedOn(StrictSubsetOrdering(S), FiniteSubsetsOf(S))
  BY FS_StrictSubsetOrderingWellFounded
<1>2. \E U \in T : \A V \in T : ~ (<<V, U>> \in StrictSubsetOrdering(S))
  BY <1>1, WFMin
<1> QED BY <1>2 DEF StrictSubsetOrdering, FiniteSubsetsOf

\* A set of numbers has a least one.
LEMMA Smallest ==
  ASSUME NEW T \in SUBSET Nat, T # {}
  PROVE \E n \in T : \A m \in T : n <= m
<1> DEFINE F == {0 .. n : n \in T}
<1>1. F \subseteq FiniteSubsetsOf(Nat) /\ F # {}
  <2>1. ASSUME NEW n \in T
        PROVE 0 .. n \in FiniteSubsetsOf(Nat)
    <3>1. 0 \in Int /\ n \in Int /\ 0 .. n \subseteq Nat
      OBVIOUS
    <3>2. IsFiniteSet(0 .. n)
      BY <3>1, FS_Interval
    <3> QED BY <3>1, <3>2 DEF FiniteSubsetsOf
  <2> QED BY <2>1
<1>2. \E U \in F : \A V \in F : V \subseteq U => V = U
  <2> HIDE DEF F
  <2> QED BY <1>1, SmallestSubset
<1>3. PICK n \in T : \A m \in T : 0 .. m \subseteq 0 .. n => 0 .. m = 0 .. n
  <2>1. PICK U \in F : \A V \in F : V \subseteq U => V = U
    BY <1>2
  <2>2. PICK n \in T : U = 0 .. n
    BY <2>1
  <2>3. ASSUME NEW m \in T, 0 .. m \subseteq 0 .. n
        PROVE 0 .. m = 0 .. n
    <3>1. 0 .. m \in F
      OBVIOUS
    <3> QED BY <2>1, <2>2, <2>3, <3>1
  <2> QED BY <2>3
<1>4. ASSUME NEW m \in T, m < n
      PROVE FALSE
  <2>1. 0 .. m = 0 .. n
    BY <1>3, <1>4
  <2>2. n \in 0 .. n /\ n \notin 0 .. m
    BY <1>4
  <2> QED BY <2>1, <2>2
<1> QED BY <1>4

\* Induction from 0 up to N.
LEMMA StepByStep ==
  ASSUME NEW N \in Nat, NEW T, 0 \in T, \A n \in 0 .. N - 1 : n \in T => n + 1 \in T
  PROVE \A n \in 0 .. N : n \in T
<1> DEFINE Bad == {n \in 0 .. N : n \notin T}
<1>1. Bad = {}
  <2> SUFFICES ASSUME Bad # {} PROVE FALSE
    OBVIOUS
  <2>1. Bad \in SUBSET Nat
    OBVIOUS
  <2>2. \E n \in Bad : \A m \in Bad : n <= m
    <3> HIDE DEF Bad
    <3> QED BY <2>1, Smallest
  <2>3. PICK n \in Bad : \A m \in Bad : n <= m
    BY <2>2
  <2>4. n \in 1 .. N /\ n - 1 \in 0 .. N - 1 /\ n - 1 \notin Bad
    BY <2>3
  <2>5. n - 1 \in T
    BY <2>4
  <2>6. (n - 1) + 1 \in T
    BY <2>4, <2>5
  <2> QED BY <2>3, <2>4, <2>6
<1> QED BY <1>1

\* Induction over sequences: what holds of none and of one more holds of all.
LEMMA LineByLine ==
  ASSUME NEW S, NEW G, <<>> \in G, \A s \in Seq(S), e \in S : s \in G => Append(s, e) \in G
  PROVE  \A s \in Seq(S) : s \in G
<1> SUFFICES ASSUME NEW s \in Seq(S) PROVE s \in G
  OBVIOUS
<1>1. PICK N \in Nat : N = Len(s)
  BY LenProperties
<1>2. PICK T : T = {n \in Nat : \A t \in Seq(S) : Len(t) = n => t \in G}
  OBVIOUS
<1>3. 0 \in T
  <2>1. \A t \in Seq(S) : Len(t) = 0 => t = <<>>
    BY EmptySeq
  <2> QED BY <1>2, <2>1
<1>4. ASSUME NEW n \in 0 .. N - 1, n \in T
      PROVE  n + 1 \in T
  <2>1. ASSUME NEW t \in Seq(S), Len(t) = n + 1
        PROVE  t \in G
    <3>1. t # <<>>
      BY <2>1, EmptySeq
    <3>2. PICK u \in Seq(S), e \in S : t = Append(u, e)
      BY <3>1, SequenceEmptyOrAppend
    <3>3. Len(t) = Len(u) + 1 /\ Len(u) \in Nat
      BY <3>2, AppendProperties, LenProperties
    <3>4. Len(u) = n
      BY <2>1, <3>3
    <3>5. u \in G
      BY <1>2, <1>4, <3>4
    <3> QED BY <3>2, <3>5
  <2> QED BY <1>2, <2>1
<1>5. \A n \in 0 .. N : n \in T
  BY <1>3, <1>4, StepByStep
<1>6. N \in T
  BY <1>5
<1> QED BY <1>1, <1>2, <1>6

-----------------------------------------------------------------------------
(* Sets in an order.                                                       *)

\* A strict total order on a set, as pairs.
Orders(R, S) ==
  /\ \A x \in S : <<x, x>> \notin R
  /\ \A x, y, z \in S : <<x, y>> \in R /\ <<y, z>> \in R => <<x, z>> \in R
  /\ \A x, y \in S : x = y \/ <<x, y>> \in R \/ <<y, x>> \in R
Rank(R, S) == [x \in S |-> Cardinality({y \in S : <<y, x>> \in R})]

\* Ranks are those from none to all but one, each once, and follow the order.
LEMMA Ranks ==
  ASSUME NEW S, IsFiniteSet(S), NEW R, Orders(R, S)
  PROVE  /\ Cardinality(S) \in Nat
         /\ \A x \in S : Rank(R, S)[x] \in 0 .. Cardinality(S) - 1
         /\ \A x, y \in S : <<x, y>> \in R => Rank(R, S)[x] < Rank(R, S)[y]
         /\ \A n \in 0 .. Cardinality(S) - 1 : \E x \in S : Rank(R, S)[x] = n
<1> DEFINE T == 0 .. Cardinality(S) - 1
           Before(x) == {y \in S : <<y, x>> \in R}
           rank == Rank(R, S)
<1>1. Cardinality(S) \in Nat
  BY FS_CardinalityType
<1>2. IsFiniteSet(T) /\ Cardinality(T) = Cardinality(S)
  <2>1. 0 \in Int /\ Cardinality(S) - 1 \in Int
    BY <1>1
  <2>2. IsFiniteSet(T) /\ Cardinality(T) = IF 0 > Cardinality(S) - 1 THEN 0 ELSE (Cardinality(S) - 1) - 0 + 1
    BY <2>1, FS_Interval
  <2> QED BY <1>1, <2>2
<1>3. \A x \in S : rank[x] = Cardinality(Before(x)) /\ IsFiniteSet(Before(x)) /\ rank[x] \in Nat
  BY FS_Subset, FS_CardinalityType DEF Rank
<1>4. ASSUME NEW x \in S PROVE rank[x] \in T
  <2>1. Before(x) \in SUBSET S /\ Before(x) # S
    BY DEF Orders
  <2>2. Cardinality(Before(x)) <= Cardinality(S) /\ Cardinality(Before(x)) # Cardinality(S)
    BY <2>1, FS_Subset
  <2> QED BY <1>1, <1>3, <2>2
<1>5. ASSUME NEW x \in S, NEW y \in S, <<x, y>> \in R PROVE rank[x] < rank[y]
  <2>1. Before(x) \in SUBSET Before(y)
    BY <1>5 DEF Orders
  <2>2. x \in Before(y) /\ x \notin Before(x)
    BY <1>5 DEF Orders
  <2>3. Cardinality(Before(x)) <= Cardinality(Before(y)) /\ Cardinality(Before(x)) # Cardinality(Before(y))
    <3> HIDE DEF Before
    <3> QED BY <1>3, <2>1, <2>2, FS_Subset
  <2> QED BY <1>3, <2>3
<1>6. rank \in Injection(S, T)
  <2>1. rank \in [S -> T]
    BY <1>4 DEF Rank
  <2> HIDE DEF rank, Before
  <2>2. ASSUME NEW x \in S, NEW y \in S, rank[x] = rank[y] PROVE x = y
    <3>1. ~(rank[x] < rank[y]) /\ ~(rank[y] < rank[x])
      BY <2>2, <1>4, <1>1
    <3> QED BY <1>5, <3>1 DEF Orders
  <2> HIDE DEF rank, T
  <2> QED BY <2>1, <2>2 DEF Injection, IsInjective
<1>7. rank \in Surjection(S, T)
  <2> HIDE DEF rank, T
  <2> QED BY <1>2, <1>6, FS_Injection
<1>8. \A n \in T : \E x \in S : rank[x] = n
  <2> HIDE DEF rank, T
  <2> QED BY <1>7 DEF Surjection
<1> QED BY <1>1, <1>4, <1>5, <1>8

\* Of a finite set in an order one comes first.
LEMMA FirstInOrder ==
  ASSUME NEW S, IsFiniteSet(S), S # {}, NEW R, Orders(R, S)
  PROVE  \E x \in S : \A y \in S \ {x} : <<x, y>> \in R
<1>1. Cardinality(S) \in Nat /\ Cardinality(S) # 0
  BY FS_CardinalityType, FS_EmptySet
<1>2. 0 \in 0 .. Cardinality(S) - 1
  BY <1>1
<1>3. PICK x \in S : Rank(R, S)[x] = 0
  BY <1>2, Ranks
<1>4. ASSUME NEW y \in S, <<y, x>> \in R PROVE FALSE
  <2>1. Rank(R, S)[y] < 0 /\ Rank(R, S)[y] \in 0 .. Cardinality(S) - 1
    BY <1>3, <1>4, Ranks
  <2> QED BY <1>1, <2>1
<1> QED BY <1>4 DEF Orders

\* A line of the elements of S: each once, in the order R.
Lines(at, S, R) ==
  /\ Cardinality(S) \in Nat
  /\ at \in [1 .. Cardinality(S) -> S]
  /\ \A x \in S : \E n \in 1 .. Cardinality(S) : at[n] = x
  /\ \A m, n \in 1 .. Cardinality(S) : m < n => <<at[m], at[n]>> \in R

\* Such is what takes for each place an element with so many before it.
LEMMA RankedLines ==
  ASSUME NEW S, IsFiniteSet(S), NEW R, Orders(R, S),
         NEW at, DOMAIN at = 1 .. Cardinality(S), at = [n \in DOMAIN at |-> at[n]],
         \A n \in DOMAIN at : at[n] \in S /\ Rank(R, S)[at[n]] = n - 1
  PROVE  Lines(at, S, R)
<1> DEFINE rank == Rank(R, S)
<1>1. /\ Cardinality(S) \in Nat
      /\ \A x \in S : rank[x] \in 0 .. Cardinality(S) - 1
      /\ \A x, y \in S : <<x, y>> \in R => rank[x] < rank[y]
  BY Ranks
<1> HIDE DEF rank
<1>2. ASSUME NEW x \in S PROVE \E n \in 1 .. Cardinality(S) : at[n] = x
  <2>1. rank[x] + 1 \in 1 .. Cardinality(S) /\ rank[x] \in Nat
    BY <1>1
  <2>2. rank[at[rank[x] + 1]] = rank[x] /\ at[rank[x] + 1] \in S
    BY <2>1 DEF rank
  <2>3. at[rank[x] + 1] = x
    <3> DEFINE y == at[rank[x] + 1]
    <3>1. ~(rank[x] < rank[y]) /\ ~(rank[y] < rank[x])
      BY <2>1, <2>2
    <3>2. y \in S
      BY <2>2
    <3> HIDE DEF y
    <3>3. x = y
      BY <1>1, <3>1, <3>2 DEF Orders
    <3> QED BY <3>3 DEF y
  <2> QED BY <2>1, <2>3
<1>3. ASSUME NEW m \in 1 .. Cardinality(S), NEW n \in 1 .. Cardinality(S), m < n
      PROVE <<at[m], at[n]>> \in R
  <2>1. rank[at[m]] = m - 1 /\ rank[at[n]] = n - 1 /\ at[m] \in S /\ at[n] \in S
    BY DEF rank
  <2>2. at[m] # at[n] /\ ~(rank[at[n]] < rank[at[m]])
    BY <1>1, <1>3, <2>1
  <2> QED BY <1>1, <2>1, <2>2 DEF Orders
<1> QED BY <1>1, <1>2, <1>3 DEF Lines

\* Places in their order.
Less(I) == {p \in I \X I : p[1] < p[2]}

LEMMA InOrderLines ==
  ASSUME NEW I \in SUBSET Nat, IsFiniteSet(I)
  PROVE  Lines(InOrder(I), I, Less(I))
<1> DEFINE R == Less(I)
           at == InOrder(I)
           Has(x, n) == Cardinality({y \in I : y < x}) = n - 1
<1>1. Orders(R, I)
  BY DEF Orders, Less
<1>2. \A x, n : x \in I => (Has(x, n) <=> Rank(R, I)[x] = n - 1)
  <2> SUFFICES ASSUME NEW x \in I PROVE Rank(R, I)[x] = Cardinality({y \in I : y < x})
    OBVIOUS
  <2>1. {y \in I : y < x} = {y \in I : <<y, x>> \in R}
    BY DEF Less
  <2> QED BY <2>1 DEF Rank
<1>3. at = [n \in 1 .. Cardinality(I) |-> CHOOSE x \in I : Has(x, n)]
  BY DEF InOrder, Sorted
<1>4. ASSUME NEW n \in 1 .. Cardinality(I) PROVE \E x \in I : Has(x, n)
  <2>1. n - 1 \in 0 .. Cardinality(I) - 1
    BY <1>1, Ranks
  <2>2. \E x \in I : Rank(R, I)[x] = n - 1
    BY <1>1, <2>1, Ranks
  <2> QED BY <1>2, <2>2
<1> HIDE DEF Has, at
<1>5. \A n \in 1 .. Cardinality(I) : at[n] \in I /\ Has(at[n], n)
  BY <1>3, <1>4
<1>6. DOMAIN at = 1 .. Cardinality(I) /\ at = [n \in DOMAIN at |-> at[n]]
  BY <1>3
<1>7. \A n \in DOMAIN at : at[n] \in I /\ Rank(R, I)[at[n]] = n - 1
  BY <1>2, <1>5, <1>6
<1> HIDE DEF R
<1> QED BY <1>1, <1>6, <1>7, RankedLines DEF at, R

\* The places of a sequence.
LEMMA PlacesFinite ==
  ASSUME NEW T, NEW s \in Seq(T), NEW I \in SUBSET DOMAIN s
  PROVE  IsFiniteSet(I) /\ I \in SUBSET Nat /\ DOMAIN s = 1 .. Len(s) /\ Len(s) \in Nat
<1>1. DOMAIN s = 1 .. Len(s) /\ Len(s) \in Nat
  BY LenProperties
<1>2. IsFiniteSet(1 .. Len(s))
  BY <1>1, FS_Interval
<1> QED BY <1>1, <1>2, FS_Subset

\* What is taken in some order are the elements at those places.
LEMMA TakenElements ==
  ASSUME NEW T, NEW s \in Seq(T), NEW I \in SUBSET DOMAIN s, NEW R, NEW at, Lines(at, I, R)
  PROVE  /\ Taken(s, at) \in Seq(T)
         /\ DOMAIN Taken(s, at) = 1 .. Cardinality(I) /\ Len(Taken(s, at)) = Cardinality(I)
         /\ \A n \in DOMAIN Taken(s, at) : at[n] \in I /\ Taken(s, at)[n] = s[at[n]]
<1> DEFINE n == Cardinality(I)
<1>1. n \in Nat /\ at \in [1 .. n -> I]
  BY DEF Lines
<1>2. Taken(s, at) = [k \in 1 .. n |-> s[at[k]]]
  BY <1>1 DEF Taken
<1>3. \A i \in I : s[i] \in T
  <2>1. DOMAIN s = 1 .. Len(s)
    BY LenProperties
  <2> QED BY <2>1, ElementOfSeq
<1>4. Taken(s, at) \in [1 .. n -> T]
  BY <1>1, <1>2, <1>3
<1>5. Taken(s, at) \in Seq(T)
  <2> HIDE DEF n
  <2>1. Taken(s, at) \in UNION {[1 .. m -> T] : m \in Nat}
    BY <1>1, <1>4
  <2> QED BY <2>1, SeqDef
<1>6. Len(Taken(s, at)) = n
  <2> HIDE DEF n
  <2> QED BY <1>1, <1>2, <1>5, LenProperties
<1> QED BY <1>1, <1>2, <1>5, <1>6 DEF Lines

\* Only: the elements at the places I, and the first stays the first.
LEMMA OnlyElements ==
  ASSUME NEW T, NEW s \in Seq(T), NEW I \in SUBSET DOMAIN s
  PROVE  /\ Only(s, I) \in Seq(T)
         /\ \A n \in DOMAIN Only(s, I) : \E i \in I : Only(s, I)[n] = s[i]
         /\ \A i \in I : \E n \in DOMAIN Only(s, I) : Only(s, I)[n] = s[i]
         /\ 1 \in I => 1 \in DOMAIN Only(s, I) /\ Only(s, I)[1] = s[1]
<1>1. Lines(InOrder(I), I, Less(I))
  BY PlacesFinite, InOrderLines
<1>2. PICK at, R : at = InOrder(I) /\ R = Less(I) /\ Lines(at, I, R)
  BY <1>1
<1>3. PICK o : o = Taken(s, at)
  OBVIOUS
<1>4. /\ o \in Seq(T) /\ DOMAIN o = 1 .. Cardinality(I)
      /\ \A n \in DOMAIN o : at[n] \in I /\ o[n] = s[at[n]]
      /\ \A i \in I : \E n \in DOMAIN o : at[n] = i /\ o[n] = s[i]
  <2>1. /\ o \in Seq(T) /\ DOMAIN o = 1 .. Cardinality(I)
        /\ \A n \in DOMAIN o : at[n] \in I /\ o[n] = s[at[n]]
    BY <1>2, <1>3, TakenElements
  <2>2. \A i \in I : \E n \in 1 .. Cardinality(I) : at[n] = i
    BY <1>2 DEF Lines
  <2> QED BY <2>1, <2>2
<1>5. Only(s, I) = o
  BY <1>2, <1>3 DEF Only
<1>6. ASSUME 1 \in I PROVE 1 \in DOMAIN o /\ o[1] = s[1]
  <2>1. PICK n \in DOMAIN o : at[n] = 1 /\ o[n] = s[1]
    BY <1>4, <1>6
  <2>2. Cardinality(I) \in Nat /\ n \in Nat /\ 1 <= n /\ n <= Cardinality(I) /\ 1 \in DOMAIN o
    BY <1>2, <1>4 DEF Lines
  <2>3. at[1] \in I /\ at[1] \in Nat \ {0}
    BY <1>4, <2>2, PlacesFinite
  <2>4. ~(1 < n)
    <3> SUFFICES ASSUME 1 < n PROVE FALSE
      OBVIOUS
    <3>1. <<at[1], at[n]>> \in R
      BY <1>2, <2>2 DEF Lines
    <3>2. at[1] < at[n]
      BY <1>2, <3>1 DEF Less
    <3> QED BY <2>1, <2>3, <3>2
  <2>5. n = 1
    BY <2>2, <2>4
  <2> QED BY <2>1, <2>2, <2>5
<1> QED BY <1>4, <1>5, <1>6

\* Of numbers there is a least.
LEMMA LeastPlace ==
  ASSUME NEW I \in SUBSET Nat, I # {}
  PROVE  \E i \in I : \A j \in I : i <= j
<1>1. PICK R : R = OpToRel(<, Nat)
  OBVIOUS
<1>2. IsWellFoundedOn(R, Nat)
  BY <1>1, NatLessThanWellFounded
<1>3. PICK i \in I : \A j \in I : ~(<<j, i>> \in R)
  BY <1>2, WFMin
<1>4. \A j \in I : j < i => <<j, i>> \in R
  BY <1>1 DEF OpToRel
<1>5. ASSUME NEW j \in I PROVE i <= j
  <2>1. ~(j < i)
    BY <1>3, <1>4
  <2>2. i \in Nat /\ j \in Nat
    OBVIOUS
  <2> QED BY <2>1, <2>2
<1> QED BY <1>5

\* What comes before all others is first, and what comes before the rest second.
LEMMA LineStarts ==
  ASSUME NEW S, NEW R, Orders(R, S), NEW at, Lines(at, S, R),
         NEW x \in S, \A z \in S \ {x} : <<x, z>> \in R
  PROVE  /\ Cardinality(S) >= 1 /\ at[1] = x
         /\ \A y \in S \ {x} : (\A z \in S \ {x, y} : <<y, z>> \in R) => Cardinality(S) >= 2 /\ at[2] = y
<1>1. PICK n : n = Cardinality(S) /\ n \in Nat
  BY DEF Lines
<1>2. /\ \A i \in 1 .. n : at[i] \in S
      /\ \A z \in S : \E i \in 1 .. n : at[i] = z
      /\ \A i, j \in 1 .. n : i < j => <<at[i], at[j]>> \in R
  BY <1>1 DEF Lines
<1>3. \A y, z \in S : <<y, z>> \in R => <<z, y>> \notin R /\ y # z
  BY DEF Orders
<1>4. PICK i \in 1 .. n : at[i] = x
  BY <1>2
<1>5. 1 \in 1 .. n /\ at[1] \in S
  BY <1>1, <1>2
<1>6. ~(1 < i)
  <2> SUFFICES ASSUME 1 < i PROVE FALSE
    OBVIOUS
  <2>1. <<at[1], x>> \in R
    BY <1>2, <1>4, <1>5
  <2> QED BY <1>3, <1>5, <2>1
<1>7. i = 1
  BY <1>1, <1>6
<1>8. at[1] = x
  BY <1>4, <1>7
<1>9. ASSUME NEW y \in S \ {x}, \A z \in S \ {x, y} : <<y, z>> \in R
      PROVE  n >= 2 /\ at[2] = y
  <2>1. PICK j \in 1 .. n : at[j] = y
    BY <1>2
  <2>2. j # 1
    BY <1>8, <2>1
  <2>3. n >= 2 /\ 2 \in 1 .. n /\ at[2] \in S
    BY <1>1, <1>2, <2>2
  <2>4. <<x, at[2]>> \in R
    BY <1>2, <1>5, <1>8, <2>3
  <2>5. at[2] # x
    BY <1>3, <2>3, <2>4
  <2>6. ~(2 < j)
    <3> SUFFICES ASSUME 2 < j PROVE FALSE
      OBVIOUS
    <3>1. <<at[2], y>> \in R
      BY <1>2, <2>1, <2>3
    <3>2. at[2] # y
      BY <1>3, <2>3, <3>1
    <3> QED BY <1>3, <1>9, <2>3, <2>5, <3>1, <3>2
  <2>7. j = 2
    BY <1>1, <2>2, <2>6
  <2> QED BY <2>1, <2>3, <2>7
<1> QED BY <1>1, <1>5, <1>8, <1>9
==============================================================================
