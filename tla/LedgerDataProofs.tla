--------------------------- MODULE LedgerDataProofs ---------------------------
(***************************************************************************)
(* What is proved about what is computed from ledgers and prices: the     *)
(* reports, the price files that hold what conversion looks up, and the   *)
(* transactions rows are turned into.                                     *)
(***************************************************************************)
EXTENDS Reports, Prices, LedgerView, OrderingProofs, TLAPS, FiniteSetTheorems, SequenceTheorems, WellFoundedInduction
-----------------------------------------------------------------------------
(* Sums over finite sets.                                                  *)

\* The element a sum over s takes first, and the sums over all subsets of U.
Picked(s) == CHOOSE x \in s : TRUE
IsSum(f, U, g) == g = [s \in SUBSET U |-> IF s = {} THEN 0 ELSE f[Picked(s)] + g[s \ {Picked(s)}]]

LEMMA IsSumAt ==
  ASSUME NEW f, NEW U, NEW g, IsSum(f, U, g), NEW s \in SUBSET U
  PROVE g[s] = IF s = {} THEN 0 ELSE f[Picked(s)] + g[s \ {Picked(s)}]
BY DEF IsSum

\* Two of them agree.
LEMMA SumsAgree ==
  ASSUME NEW f, NEW U, NEW V, IsFiniteSet(U), NEW g, NEW h, IsSum(f, U, g), IsSum(f, V, h),
         NEW s \in SUBSET U, s \subseteq V
  PROVE g[s] = h[s]
<1> DEFINE Bad == {t \in SUBSET (U \cap V) : g[t] # h[t]}
<1>1. Bad = {}
  <2> SUFFICES ASSUME Bad # {} PROVE FALSE
    OBVIOUS
  <2>1. Bad \subseteq FiniteSubsetsOf(U)
    BY FS_Subset DEF FiniteSubsetsOf
  <2>2. \E t \in Bad : \A r \in Bad : r \subseteq t => r = t
    <3> HIDE DEF Bad
    <3> QED BY <2>1, SmallestSubset
  <2>3. PICK t \in Bad : \A r \in Bad : r \subseteq t => r = t
    BY <2>2
  <2>4. t \in SUBSET U /\ t \in SUBSET V /\ g[t] # h[t]
    BY DEF Bad
  <2>5. /\ g[t] = IF t = {} THEN 0 ELSE f[Picked(t)] + g[t \ {Picked(t)}]
        /\ h[t] = IF t = {} THEN 0 ELSE f[Picked(t)] + h[t \ {Picked(t)}]
    BY <2>4, IsSumAt
  <2>6. t # {}
    BY <2>4, <2>5
  <2>7. Picked(t) \in t
    BY <2>6 DEF Picked
  <2>8. t \ {Picked(t)} \in SUBSET (U \cap V) /\ t \ {Picked(t)} \subseteq t /\ t \ {Picked(t)} # t
    BY <2>4, <2>7
  <2>9. g[t \ {Picked(t)}] = h[t \ {Picked(t)}]
    BY <2>3, <2>8 DEF Bad
  <2> QED BY <2>4, <2>5, <2>6, <2>9
<1> QED BY <1>1 DEF Bad

\* There is one.
LEMMA SumsExist ==
  ASSUME NEW f, NEW U, IsFiniteSet(U)
  PROVE \E g : IsSum(f, U, g)
<1> DEFINE Bad == {V \in SUBSET U : ~ \E g : IsSum(f, V, g)}
<1>1. Bad = {}
  <2> SUFFICES ASSUME Bad # {} PROVE FALSE
    OBVIOUS
  <2>1. Bad \subseteq FiniteSubsetsOf(U)
    BY FS_Subset DEF FiniteSubsetsOf
  <2>2. \E V \in Bad : \A W \in Bad : W \subseteq V => W = V
    <3> HIDE DEF Bad
    <3> QED BY <2>1, SmallestSubset
  <2>3. PICK V \in Bad : \A W \in Bad : W \subseteq V => W = V
    BY <2>2
  <2> DEFINE G(W) == CHOOSE g : IsSum(f, W, g)
             rest == V \ {Picked(V)}
             sums == [s \in SUBSET V |-> IF s = V /\ V # {} THEN f[Picked(V)] + G(rest)[rest]
                                         ELSE IF s = {} THEN 0 ELSE G(s)[s]]
  <2>4. \A W \in SUBSET V : W # V => IsSum(f, W, G(W)) /\ IsFiniteSet(W)
    BY <2>3, FS_Subset DEF Bad
  <2> HIDE DEF G
  <2>5. ASSUME NEW s \in SUBSET V
        PROVE sums[s] = IF s = {} THEN 0 ELSE f[Picked(s)] + sums[s \ {Picked(s)}]
    <3>1. CASE s = {}
      BY <3>1
    <3>2. CASE s = V /\ s # {}
      <4>1. Picked(V) \in V
        BY <3>2 DEF Picked
      <4>2. rest \in SUBSET V /\ rest # V
        BY <4>1
      <4>3. rest = {} => G(rest)[rest] = 0
        BY <2>4, <4>2, IsSumAt
      <4>4. sums[rest] = G(rest)[rest]
        BY <4>2, <4>3
      <4> HIDE DEF rest
      <4>5. sums[s] = f[Picked(V)] + G(rest)[rest]
        BY <3>2
      <4> QED BY <3>2, <4>4, <4>5 DEF rest
    <3>3. CASE s # V /\ s # {}
      <4> DEFINE less == s \ {Picked(s)}
      <4>1. Picked(s) \in s
        BY <3>3 DEF Picked
      <4>2. less \in SUBSET V /\ less # V /\ less \subseteq s /\ less \in SUBSET s
        BY <3>3, <4>1
      <4>3. IsSum(f, s, G(s)) /\ IsSum(f, less, G(less)) /\ IsFiniteSet(less)
        BY <2>4, <3>3, <4>2
      <4>4. G(s)[s] = f[Picked(s)] + G(s)[less]
        BY <3>3, <4>3, IsSumAt
      <4>5. G(s)[less] = G(less)[less]
        <5>1. less \in SUBSET less
          OBVIOUS
        <5> HIDE DEF less
        <5> QED BY <4>2, <4>3, <5>1, SumsAgree
      <4>6. less = {} => G(less)[less] = 0
        BY <4>3, IsSumAt
      <4>7. sums[less] = G(less)[less]
        BY <4>2, <4>6
      <4>8. sums[s] = G(s)[s]
        BY <3>3
      <4> QED BY <3>3, <4>4, <4>5, <4>7, <4>8
    <3> QED BY <3>1, <3>2, <3>3
  <2>6. IsSum(f, V, sums)
    <3>1. sums = [s \in SUBSET V |-> sums[s]]
      OBVIOUS
    <3> HIDE DEF sums
    <3>2. [s \in SUBSET V |-> sums[s]] = [s \in SUBSET V |-> IF s = {} THEN 0 ELSE f[Picked(s)] + sums[s \ {Picked(s)}]]
      BY <2>5
    <3> QED BY <3>1, <3>2 DEF IsSum
  <2> HIDE DEF sums
  <2> QED BY <2>3, <2>6 DEF Bad
<1> QED BY <1>1 DEF Bad

LEMMA SumIsSum ==
  ASSUME NEW f, NEW S, IsFiniteSet(S), NEW g, IsSum(f, S, g)
  PROVE SumOver(S, f) = g[S]
<1> DEFINE h == CHOOSE h : IsSum(f, S, h)
<1>1. IsSum(f, S, h)
  BY SumsExist
<1>2. SumOver(S, f) = h[S]
  BY DEF SumOver, FoldFunctionOnSet, MapThenFoldSet, IsSum, Picked
<1> HIDE DEF h
<1> QED BY <1>1, <1>2, SumsAgree

\* Induction over a finite set, one element more at a time.
LEMMA OneByOne ==
  ASSUME NEW S, IsFiniteSet(S), NEW T, T \subseteq SUBSET S, {} \in T,
         \A V \in T, x \in S : x \notin V => V \cup {x} \in T
  PROVE S \in T
<1> DEFINE Bad == (SUBSET S) \ T
<1>1. Bad = {}
  <2> SUFFICES ASSUME Bad # {} PROVE FALSE
    OBVIOUS
  <2>1. Bad \subseteq FiniteSubsetsOf(S)
    BY FS_Subset DEF FiniteSubsetsOf
  <2>2. \E V \in Bad : \A W \in Bad : W \subseteq V => W = V
    <3> HIDE DEF Bad
    <3> QED BY <2>1, SmallestSubset
  <2>3. PICK V \in Bad : \A W \in Bad : W \subseteq V => W = V
    BY <2>2
  <2>4. PICK x \in V : TRUE
    BY <2>3
  <2>5. V \ {x} \in T
    BY <2>3, <2>4
  <2>6. V = (V \ {x}) \cup {x} /\ x \in S /\ x \notin V \ {x}
    BY <2>4
  <2>7. (V \ {x}) \cup {x} \in T
    BY <2>5, <2>6
  <2> QED BY <2>3, <2>6, <2>7
<1> QED BY <1>1

LEMMA SumEmpty ==
  ASSUME NEW f
  PROVE SumOver({}, f) = 0
<1>1. IsFiniteSet({})
  BY FS_EmptySet
<1>2. PICK g : IsSum(f, {}, g)
  BY <1>1, SumsExist
<1> QED BY <1>1, <1>2, SumIsSum, IsSumAt

LEMMA SumPicked ==
  ASSUME NEW f, NEW S, IsFiniteSet(S), S # {}
  PROVE SumOver(S, f) = f[Picked(S)] + SumOver(S \ {Picked(S)}, f)
<1> DEFINE less == S \ {Picked(S)}
<1>1. IsFiniteSet(less) /\ less \subseteq S
  BY FS_Subset
<1>2. PICK g : IsSum(f, S, g)
  BY SumsExist
<1>3. PICK h : IsSum(f, less, h)
  BY <1>1, SumsExist
<1>4. g[less] = h[less]
  <2>1. less \in SUBSET S /\ less \subseteq less
    OBVIOUS
  <2> HIDE DEF less
  <2> QED BY <2>1, <1>2, <1>3, SumsAgree
<1>5. SumOver(S, f) = g[S] /\ SumOver(less, f) = h[less]
  BY <1>1, <1>2, <1>3, SumIsSum
<1>6. g[S] = f[Picked(S)] + g[less]
  BY <1>2, IsSumAt
<1> QED BY <1>4, <1>5, <1>6

LEMMA SumInt ==
  ASSUME NEW S, IsFiniteSet(S), NEW f, \A x \in S : f[x] \in Int
  PROVE SumOver(S, f) \in Int
<1> DEFINE T == {V \in SUBSET S : SumOver(V, f) \in Int}
           Bad == (SUBSET S) \ T
<1>1. Bad = {}
  <2> SUFFICES ASSUME Bad # {} PROVE FALSE
    OBVIOUS
  <2>1. Bad \subseteq FiniteSubsetsOf(S)
    BY FS_Subset DEF FiniteSubsetsOf
  <2>2. \E V \in Bad : \A W \in Bad : W \subseteq V => W = V
    <3> HIDE DEF Bad
    <3> QED BY <2>1, SmallestSubset
  <2>3. PICK V \in Bad : \A W \in Bad : W \subseteq V => W = V
    BY <2>2
  <2>4. V # {} /\ V \subseteq S /\ IsFiniteSet(V)
    <3>1. V \in SUBSET S /\ SumOver(V, f) \notin Int
      BY <2>3
    <3>2. SumOver({}, f) \in Int
      BY SumEmpty
    <3>3. IsFiniteSet(V)
      BY <3>1, FS_Subset
    <3> QED BY <3>1, <3>2, <3>3
  <2>5. Picked(V) \in V
    BY <2>4 DEF Picked
  <2>6. V \ {Picked(V)} \in T
    BY <2>3, <2>4, <2>5
  <2>7. SumOver(V, f) = f[Picked(V)] + SumOver(V \ {Picked(V)}, f)
    BY <2>4, SumPicked
  <2>8. f[Picked(V)] \in Int /\ SumOver(V \ {Picked(V)}, f) \in Int
    BY <2>4, <2>5, <2>6
  <2>9. SumOver(V, f) \in Int
    BY <2>7, <2>8
  <2> QED BY <2>3, <2>9
<1> QED BY <1>1

\* Any element may come first.
LEMMA SumWithout ==
  ASSUME NEW S, IsFiniteSet(S), NEW f, \A x \in S : f[x] \in Int, NEW x \in S
  PROVE SumOver(S, f) = f[x] + SumOver(S \ {x}, f)
<1> DEFINE Bad == {V \in SUBSET S : \E y \in V : SumOver(V, f) # f[y] + SumOver(V \ {y}, f)}
<1>1. Bad = {}
  <2> SUFFICES ASSUME Bad # {} PROVE FALSE
    OBVIOUS
  <2>1. Bad \subseteq FiniteSubsetsOf(S)
    BY FS_Subset DEF FiniteSubsetsOf
  <2>2. \E V \in Bad : \A W \in Bad : W \subseteq V => W = V
    <3> HIDE DEF Bad
    <3> QED BY <2>1, SmallestSubset
  <2>3. PICK V \in Bad : \A W \in Bad : W \subseteq V => W = V
    BY <2>2
  <2>4. PICK y \in V : SumOver(V, f) # f[y] + SumOver(V \ {y}, f)
    BY <2>3
  <2> DEFINE p == Picked(V)
  <2>5. p \in V /\ V \subseteq S /\ IsFiniteSet(V)
    BY <2>3, FS_Subset DEF Picked
  <2>6. SumOver(V, f) = f[p] + SumOver(V \ {p}, f)
    BY <2>5, SumPicked
  <2>7. y # p
    BY <2>4, <2>6
  <2>8. V \ {p} \notin Bad /\ V \ {y} \notin Bad
    <3> HIDE DEF p
    <3>1. V \ {p} # V /\ V \ {y} # V
      BY <2>5
    <3> QED BY <2>3, <3>1
  <2> HIDE DEF p
  <2>9. /\ SumOver(V \ {p}, f) = f[y] + SumOver((V \ {p}) \ {y}, f)
        /\ SumOver(V \ {y}, f) = f[p] + SumOver((V \ {y}) \ {p}, f)
    BY <2>5, <2>7, <2>8
  <2>10. (V \ {p}) \ {y} = (V \ {y}) \ {p}
    OBVIOUS
  <2> DEFINE both == (V \ {y}) \ {p}
  <2>11. f[y] \in Int /\ f[p] \in Int /\ SumOver(both, f) \in Int
    <3>1. both \subseteq V /\ IsFiniteSet(both)
      BY <2>5, FS_Subset
    <3>2. SumOver(both, f) \in Int
      <4>1. \A z \in both : f[z] \in Int
        BY <2>5, <3>1
      <4> HIDE DEF both
      <4> QED BY <3>1, <4>1, SumInt
    <3> QED BY <2>5, <3>2
  <2> HIDE DEF both
  <2>12. /\ SumOver(V \ {p}, f) = f[y] + SumOver(both, f)
         /\ SumOver(V \ {y}, f) = f[p] + SumOver(both, f)
    BY <2>9, <2>10 DEF both
  <2> QED BY <2>4, <2>6, <2>11, <2>12
<1> QED BY <1>1

\* One element more.
LEMMA SumWith ==
  ASSUME NEW S, IsFiniteSet(S), NEW f, \A x \in S : f[x] \in Int, NEW x, x \notin S, f[x] \in Int
  PROVE SumOver(S \cup {x}, f) = SumOver(S, f) + f[x]
<1>1. IsFiniteSet(S \cup {x}) /\ (S \cup {x}) \ {x} = S
  BY FS_AddElement
<1>2. SumOver(S \cup {x}, f) = f[x] + SumOver((S \cup {x}) \ {x}, f)
  BY <1>1, SumWithout
<1>3. SumOver(S, f) \in Int
  BY SumInt
<1>4. SumOver(S \cup {x}, f) = f[x] + SumOver(S, f)
  BY <1>1, <1>2
<1> QED BY <1>3, <1>4

LEMMA SumEqual ==
  ASSUME NEW S, IsFiniteSet(S), NEW f, NEW g, \A x \in S : f[x] \in Int /\ f[x] = g[x]
  PROVE SumOver(S, f) = SumOver(S, g)
<1> DEFINE T == {V \in SUBSET S : SumOver(V, f) = SumOver(V, g)}
<1>1. {} \in T
  BY SumEmpty
<1>2. ASSUME NEW V \in T, NEW x \in S, x \notin V
      PROVE V \cup {x} \in T
  <2>1. IsFiniteSet(V)
    BY FS_Subset
  <2>2. SumOver(V \cup {x}, f) = SumOver(V, f) + f[x] /\ SumOver(V \cup {x}, g) = SumOver(V, g) + g[x]
    BY <1>2, <2>1, SumWith
  <2> QED BY <2>2
<1> HIDE DEF T
<1>3. S \in T
  <2>1. T \subseteq SUBSET S
    BY DEF T
  <2> QED BY <1>1, <1>2, <2>1, OneByOne
<1> QED BY <1>3 DEF T

LEMMA SumAdd ==
  ASSUME NEW S, IsFiniteSet(S), NEW f, NEW g, NEW h,
         \A x \in S : f[x] \in Int /\ g[x] \in Int /\ h[x] = f[x] + g[x]
  PROVE SumOver(S, h) = SumOver(S, f) + SumOver(S, g)
<1> DEFINE T == {V \in SUBSET S : SumOver(V, h) = SumOver(V, f) + SumOver(V, g)}
<1>1. {} \in T
  BY SumEmpty
<1>2. ASSUME NEW V \in T, NEW x \in S, x \notin V
      PROVE V \cup {x} \in T
  <2>1. IsFiniteSet(V) /\ \A y \in V : y \in S
    BY FS_Subset
  <2>2. SumOver(V \cup {x}, f) = SumOver(V, f) + f[x] /\ SumOver(V \cup {x}, g) = SumOver(V, g) + g[x]
    BY <1>2, <2>1, SumWith
  <2>3. h[x] \in Int /\ \A y \in V : h[y] \in Int
    BY <2>1
  <2>4. SumOver(V \cup {x}, h) = SumOver(V, h) + h[x]
    BY <1>2, <2>1, <2>3, SumWith
  <2>5. SumOver(V, f) \in Int /\ SumOver(V, g) \in Int
    BY <2>1, SumInt
  <2>6. SumOver(V, h) = SumOver(V, f) + SumOver(V, g) /\ h[x] = f[x] + g[x] /\ f[x] \in Int /\ g[x] \in Int
    OBVIOUS
  <2>7. SumOver(V \cup {x}, h) = SumOver(V \cup {x}, f) + SumOver(V \cup {x}, g)
    BY <2>2, <2>4, <2>5, <2>6
  <2> QED BY <2>7
<1> HIDE DEF T
<1>3. S \in T
  <2>1. T \subseteq SUBSET S
    BY DEF T
  <2> QED BY <1>1, <1>2, <2>1, OneByOne
<1> QED BY <1>3 DEF T

LEMMA SumNat ==
  ASSUME NEW S, IsFiniteSet(S), NEW f, \A x \in S : f[x] \in Nat
  PROVE SumOver(S, f) \in Nat
<1> DEFINE T == {V \in SUBSET S : SumOver(V, f) \in Nat}
<1>1. {} \in T
  BY SumEmpty
<1>2. ASSUME NEW V \in T, NEW x \in S, x \notin V
      PROVE V \cup {x} \in T
  <2>1. IsFiniteSet(V)
    BY FS_Subset
  <2>2. SumOver(V \cup {x}, f) = SumOver(V, f) + f[x]
    BY <1>2, <2>1, SumWith
  <2> QED BY <2>2
<1> HIDE DEF T
<1>3. S \in T
  <2>1. T \subseteq SUBSET S
    BY DEF T
  <2> QED BY <1>1, <1>2, <2>1, OneByOne
<1> QED BY <1>3 DEF T

LEMMA SumZero ==
  ASSUME NEW S, IsFiniteSet(S), NEW f, \A x \in S : f[x] = 0
  PROVE SumOver(S, f) = 0
<1> DEFINE T == {V \in SUBSET S : SumOver(V, f) = 0}
<1>1. {} \in T
  BY SumEmpty
<1>2. ASSUME NEW V \in T, NEW x \in S, x \notin V
      PROVE V \cup {x} \in T
  <2>1. IsFiniteSet(V)
    BY FS_Subset
  <2>2. SumOver(V \cup {x}, f) = SumOver(V, f) + f[x]
    BY <1>2, <2>1, SumWith
  <2> QED BY <2>2
<1> HIDE DEF T
<1>3. S \in T
  <2>1. T \subseteq SUBSET S
    BY DEF T
  <2> QED BY <1>1, <1>2, <2>1, OneByOne
<1> QED BY <1>3 DEF T

LEMMA SumUnion ==
  ASSUME NEW R, NEW S, IsFiniteSet(R), IsFiniteSet(S), R \cap S = {},
         NEW f, \A x \in R \cup S : f[x] \in Int
  PROVE SumOver(R \cup S, f) = SumOver(R, f) + SumOver(S, f)
<1> DEFINE T == {V \in SUBSET S : SumOver(R \cup V, f) = SumOver(R, f) + SumOver(V, f)}
<1>0. SumOver(R, f) \in Int
  BY SumInt
<1>1. {} \in T
  <2>1. R \cup {} = R
    OBVIOUS
  <2>2. SumOver(R \cup {}, f) = SumOver(R, f) + SumOver({}, f)
    BY <1>0, <2>1, SumEmpty
  <2> QED BY <2>2
<1>2. ASSUME NEW V \in T, NEW x \in S, x \notin V
      PROVE V \cup {x} \in T
  <2>1. IsFiniteSet(V) /\ IsFiniteSet(R \cup V)
    BY FS_Subset, FS_Union
  <2>2. SumOver(V \cup {x}, f) = SumOver(V, f) + f[x]
    BY <1>2, <2>1, SumWith
  <2>3. SumOver((R \cup V) \cup {x}, f) = SumOver(R \cup V, f) + f[x]
    BY <1>2, <2>1, SumWith
  <2>4. (R \cup V) \cup {x} = R \cup (V \cup {x})
    OBVIOUS
  <2>5. SumOver(V, f) \in Int /\ f[x] \in Int
    BY <2>1, SumInt
  <2>6. SumOver(R \cup V, f) = SumOver(R, f) + SumOver(V, f)
    OBVIOUS
  <2>7. SumOver(R \cup (V \cup {x}), f) = SumOver(R, f) + SumOver(V \cup {x}, f)
    <3> DEFINE a == SumOver(R, f)
               b == SumOver(V, f)
               d == SumOver(V \cup {x}, f)
               e == SumOver(R \cup (V \cup {x}), f)
    <3>1. d = b + f[x] /\ e = (a + b) + f[x]
      BY <2>2, <2>3, <2>4, <2>6
    <3>2. a \in Int /\ b \in Int /\ f[x] \in Int
      BY <1>0, <2>5
    <3> HIDE DEF a, b, d, e
    <3>3. e = a + d
      BY <3>1, <3>2
    <3> QED BY <3>3 DEF a, d, e
  <2> QED BY <2>7
<1> HIDE DEF T
<1>3. S \in T
  <2>1. T \subseteq SUBSET S
    BY DEF T
  <2> QED BY <1>1, <1>2, <2>1, OneByOne
<1> QED BY <1>3 DEF T

LEMMA SumOne ==
  ASSUME NEW f, NEW x, f[x] \in Int
  PROVE SumOver({x}, f) = f[x]
<1>1. IsFiniteSet({}) /\ {} \cup {x} = {x}
  BY FS_EmptySet
<1>2. SumOver({} \cup {x}, f) = SumOver({}, f) + f[x]
  BY <1>1, SumWith
<1> QED BY <1>1, <1>2, SumEmpty

\* A sum may be taken kind by kind.
LEMMA SumByKind ==
  ASSUME NEW C, IsFiniteSet(C), NEW S, IsFiniteSet(S), NEW f, \A x \in S : f[x] \in Int,
         NEW kind, \A x \in S : kind[x] \in C
  PROVE SumOver(C, [c \in C |-> SumOver({x \in S : kind[x] = c}, f)]) = SumOver(S, f)
<1> DEFINE Of(D) == {x \in S : kind[x] \in D}
           one == [c \in C |-> SumOver({x \in S : kind[x] = c}, f)]
           T == {D \in SUBSET C : SumOver(D, one) = SumOver(Of(D), f)}
<1>0. \A c \in C : one[c] \in Int
  <2> TAKE c \in C
  <2>1. IsFiniteSet({x \in S : kind[x] = c})
    BY FS_Subset
  <2> QED BY <2>1, SumInt
<1>1. {} \in T
  <2>1. Of({}) = {}
    OBVIOUS
  <2>2. SumOver({}, one) = SumOver(Of({}), f)
    BY <2>1, SumEmpty
  <2> QED BY <2>2
<1>2. ASSUME NEW D \in T, NEW c \in C, c \notin D
      PROVE D \cup {c} \in T
  <2> DEFINE mine == {x \in S : kind[x] = c}
  <2>1. IsFiniteSet(D) /\ IsFiniteSet(Of(D)) /\ IsFiniteSet(mine)
    BY FS_Subset
  <2>2. Of(D) \cap mine = {} /\ Of(D) \cup mine = Of(D \cup {c})
    BY <1>2
  <2>3. SumOver(Of(D) \cup mine, f) = SumOver(Of(D), f) + SumOver(mine, f)
    <3>1. \A x \in Of(D) \cup mine : f[x] \in Int
      OBVIOUS
    <3> HIDE DEF Of, mine
    <3> QED BY <2>1, <2>2, <3>1, SumUnion
  <2>4. one[c] = SumOver(mine, f) /\ D \in SUBSET C /\ SumOver(D, one) = SumOver(Of(D), f)
    OBVIOUS
  <2> HIDE DEF Of, mine, one
  <2>5. SumOver(D \cup {c}, one) = SumOver(D, one) + one[c]
    BY <1>0, <1>2, <2>1, <2>4, SumWith
  <2>6. SumOver(D \cup {c}, one) = SumOver(Of(D \cup {c}), f)
    BY <2>2, <2>3, <2>4, <2>5
  <2> QED BY <2>4, <2>6
<1>3. C \in T
  <2>1. T \subseteq SUBSET C
    OBVIOUS
  <2> HIDE DEF T
  <2> QED BY <1>1, <1>2, <2>1, OneByOne
<1>4. Of(C) = S
  OBVIOUS
<1> HIDE DEF Of
<1> QED BY <1>3, <1>4

-----------------------------------------------------------------------------
(* Sums over the first places of a sequence.                               *)

LEMMA SumNext ==
  ASSUME NEW n \in Nat, NEW f, \A i \in 1 .. n + 1 : f[i] \in Int
  PROVE SumOver(1 .. n + 1, f) = SumOver(1 .. n, f) + f[n + 1]
<1>1. IsFiniteSet(1 .. n) /\ n + 1 \notin 1 .. n /\ (1 .. n) \cup {n + 1} = 1 .. n + 1
  BY FS_Interval
<1>2. \A i \in 1 .. n : f[i] \in Int
  OBVIOUS
<1>3. f[n + 1] \in Int
  OBVIOUS
<1>4. SumOver((1 .. n) \cup {n + 1}, f) = SumOver(1 .. n, f) + f[n + 1]
  <2> DEFINE S == 1 .. n
             x == n + 1
  <2>1. IsFiniteSet(S) /\ x \notin S /\ f[x] \in Int /\ \A i \in S : f[i] \in Int
    BY <1>1, <1>2, <1>3
  <2> HIDE DEF S, x
  <2>2. SumOver(S \cup {x}, f) = SumOver(S, f) + f[x]
    BY <2>1, SumWith
  <2> QED BY <2>2 DEF S, x
<1> QED BY <1>1, <1>4

LEMMA SumSplit ==
  ASSUME NEW k \in Nat, NEW n \in Nat, k <= n, NEW f, \A i \in 1 .. n : f[i] \in Int
  PROVE SumOver(1 .. n, f) = SumOver(1 .. k, f) + SumOver(k + 1 .. n, f)
<1>1. IsFiniteSet(1 .. k) /\ IsFiniteSet(k + 1 .. n) /\ (1 .. k) \cap (k + 1 .. n) = {}
      /\ (1 .. k) \cup (k + 1 .. n) = 1 .. n
  BY FS_Interval
<1>2. \A i \in (1 .. k) \cup (k + 1 .. n) : f[i] \in Int
  OBVIOUS
<1>3. SumOver((1 .. k) \cup (k + 1 .. n), f) = SumOver(1 .. k, f) + SumOver(k + 1 .. n, f)
  BY <1>1, <1>2, SumUnion
<1> QED BY <1>1, <1>3

\* The same numbers at other places.
LEMMA SumShifted ==
  ASSUME NEW k \in Nat, NEW n \in Nat, NEW f, \A i \in k + 1 .. k + n : f[i] \in Int,
         NEW g, \A i \in 1 .. n : g[i] = f[k + i]
  PROVE SumOver(1 .. n, g) = SumOver(k + 1 .. k + n, f)
<1> DEFINE T == {m \in 0 .. n : SumOver(1 .. m, g) = SumOver(k + 1 .. k + m, f)}
<1>1. 0 \in T
  <2>1. 1 .. 0 = {} /\ k + 1 .. k + 0 = {}
    OBVIOUS
  <2> QED BY <2>1, SumEmpty
<1>2. ASSUME NEW m \in 0 .. n - 1, m \in T
      PROVE m + 1 \in T
  <2>1. \A i \in 1 .. m + 1 : g[i] \in Int
    OBVIOUS
  <2>2. SumOver(1 .. m + 1, g) = SumOver(1 .. m, g) + g[m + 1]
    BY <2>1, SumNext
  <2>3. IsFiniteSet(k + 1 .. k + m) /\ k + m + 1 \notin k + 1 .. k + m
        /\ (k + 1 .. k + m) \cup {k + m + 1} = k + 1 .. k + (m + 1)
    <3>1. k + 1 \in Int /\ k + m \in Int
      OBVIOUS
    <3>2. IsFiniteSet(k + 1 .. k + m)
      BY <3>1, FS_Interval
    <3> QED BY <3>2
  <2>4. f[k + m + 1] \in Int /\ \A i \in k + 1 .. k + m : f[i] \in Int
    OBVIOUS
  <2>5. SumOver((k + 1 .. k + m) \cup {k + m + 1}, f) = SumOver(k + 1 .. k + m, f) + f[k + m + 1]
    <3> DEFINE S == k + 1 .. k + m
               x == k + m + 1
    <3>1. IsFiniteSet(S) /\ x \notin S /\ f[x] \in Int /\ \A i \in S : f[i] \in Int
      BY <2>3, <2>4
    <3> HIDE DEF S, x
    <3>2. SumOver(S \cup {x}, f) = SumOver(S, f) + f[x]
      BY <3>1, SumWith
    <3> QED BY <3>2 DEF S, x
  <2>6. g[m + 1] = f[k + (m + 1)] /\ k + (m + 1) = k + m + 1
    OBVIOUS
  <2>7. SumOver(1 .. m, g) = SumOver(k + 1 .. k + m, f)
    BY <1>2
  <2>8. SumOver(1 .. m + 1, g) = SumOver(k + 1 .. k + (m + 1), f)
    BY <2>2, <2>3, <2>5, <2>6, <2>7
  <2> QED BY <2>8
<1>3. \A m \in 0 .. n : m \in T
  <2> HIDE DEF T
  <2> QED BY <1>1, <1>2, StepByStep
<1>4. n \in T
  <2> HIDE DEF T
  <2> QED BY <1>3
<1> QED BY <1>4

\* The sum of two sequences, one behind the other.
LEMMA SumConcat ==
  ASSUME NEW m \in Nat, NEW n \in Nat, NEW f, NEW g, NEW h,
         \A i \in 1 .. m : f[i] \in Int /\ h[i] = f[i],
         \A i \in 1 .. n : g[i] \in Int /\ h[m + i] = g[i]
  PROVE SumOver(1 .. m + n, h) = SumOver(1 .. m, f) + SumOver(1 .. n, g)
<1>1. ASSUME NEW i \in 1 .. m + n
      PROVE h[i] \in Int
  <2>1. CASE i <= m
    BY <2>1
  <2>2. CASE i > m
    <3>1. i - m \in 1 .. n /\ m + (i - m) = i
      BY <2>2
    <3> QED BY <3>1
  <2> QED BY <2>1, <2>2
<1>2. SumOver(1 .. m + n, h) = SumOver(1 .. m, h) + SumOver(m + 1 .. m + n, h)
  BY <1>1, SumSplit
<1>3. SumOver(1 .. m, h) = SumOver(1 .. m, f)
  <2>1. IsFiniteSet(1 .. m)
    BY FS_Interval
  <2> QED BY <2>1, SumEqual
<1>4. SumOver(1 .. n, g) = SumOver(m + 1 .. m + n, h)
  <2>1. \A i \in m + 1 .. m + n : h[i] \in Int
    BY <1>1
  <2>2. \A i \in 1 .. n : g[i] = h[m + i]
    OBVIOUS
  <2> QED BY <2>1, <2>2, SumShifted
<1> QED BY <1>2, <1>3, <1>4

\* A set of numbers that has with each number the lower ones, down to 1.
LEMMA FirstOnes ==
  ASSUME NEW N \in Nat, NEW D \in SUBSET (1 .. N), \A i \in D : \A j \in 1 .. i : j \in D
  PROVE Cardinality(D) \in 0 .. N /\ D = 1 .. Cardinality(D)
<1> DEFINE B == {k \in 0 .. N : \A d \in D : d <= k}
<1>1. N \in B
  OBVIOUS
<1>2. \E k \in B : \A j \in B : k <= j
  <2>1. B \in SUBSET Nat
    OBVIOUS
  <2> HIDE DEF B
  <2> QED BY <1>1, <2>1, Smallest
<1>3. PICK k \in B : \A j \in B : k <= j
  BY <1>2
<1>4. k \in 0 .. N /\ \A d \in D : d <= k
  BY <1>3
<1>5. k = 0 \/ k \in D
  <2> SUFFICES ASSUME k # 0, k \notin D PROVE FALSE
    OBVIOUS
  <2>1. k - 1 \in B
    BY <1>4
  <2> QED BY <1>3, <1>4, <2>1
<1>6. D = 1 .. k
  <2>1. D \subseteq 1 .. k
    BY <1>4
  <2>2. ASSUME k # 0
        PROVE 1 .. k \subseteq D
    <3>1. k \in D
      BY <1>5, <2>2
    <3>2. \A j \in 1 .. k : j \in D
      BY <3>1
    <3> QED BY <3>2
  <2>3. k = 0 => 1 .. k = {}
    BY <1>4
  <2> QED BY <2>1, <2>2, <2>3
<1>7. Cardinality(1 .. k) = k
  BY <1>4, FS_Interval
<1> QED BY <1>4, <1>6, <1>7

\* What is zero at the end, or at the beginning, may be left out.
LEMMA SumCutEnd ==
  ASSUME NEW N \in Nat, NEW t \in 0 .. N, NEW f, \A i \in 1 .. N : f[i] \in Int, \A i \in t + 1 .. N : f[i] = 0,
         NEW g, \A i \in 1 .. t : g[i] = f[i]
  PROVE SumOver(1 .. t, g) = SumOver(1 .. N, f)
<1>1. SumOver(1 .. N, f) = SumOver(1 .. t, f) + SumOver(t + 1 .. N, f)
  BY SumSplit
<1>2. SumOver(t + 1 .. N, f) = 0
  <2>1. IsFiniteSet(t + 1 .. N)
    <3>1. t + 1 \in Int /\ N \in Int
      OBVIOUS
    <3> QED BY <3>1, FS_Interval
  <2> QED BY <2>1, SumZero
<1>3. IsFiniteSet(1 .. t) /\ \A i \in 1 .. t : f[i] \in Int /\ f[i] = g[i]
  <2>1. 1 \in Int /\ t \in Int
    OBVIOUS
  <2>2. IsFiniteSet(1 .. t)
    BY <2>1, FS_Interval
  <2> QED BY <2>2
<1>4. SumOver(1 .. t, f) = SumOver(1 .. t, g) /\ SumOver(1 .. t, f) \in Int
  BY <1>3, SumEqual, SumInt
<1> QED BY <1>1, <1>2, <1>4

LEMMA SumCutFront ==
  ASSUME NEW N \in Nat, NEW e \in 0 .. N, NEW f, \A i \in 1 .. N : f[i] \in Int, \A i \in 1 .. e : f[i] = 0,
         NEW g, \A i \in 1 .. N - e : g[i] = f[e + i]
  PROVE SumOver(1 .. N - e, g) = SumOver(1 .. N, f)
<1>1. SumOver(1 .. N, f) = SumOver(1 .. e, f) + SumOver(e + 1 .. N, f)
  BY SumSplit
<1>2. SumOver(1 .. e, f) = 0
  <2>1. IsFiniteSet(1 .. e)
    <3>1. 1 \in Int /\ e \in Int
      OBVIOUS
    <3> QED BY <3>1, FS_Interval
  <2> QED BY <2>1, SumZero
<1>3. SumOver(1 .. N - e, g) = SumOver(e + 1 .. e + (N - e), f)
  <2>1. N - e \in Nat /\ e \in Nat /\ \A i \in e + 1 .. e + (N - e) : f[i] \in Int
    OBVIOUS
  <2> QED BY <2>1, SumShifted
<1>4. e + (N - e) = N
  OBVIOUS
<1>5. SumOver(e + 1 .. N, f) \in Int
  <2>1. IsFiniteSet(e + 1 .. N) /\ \A i \in e + 1 .. N : f[i] \in Int
    <3>1. e + 1 \in Int /\ N \in Int
      OBVIOUS
    <3>2. IsFiniteSet(e + 1 .. N)
      BY <3>1, FS_Interval
    <3> QED BY <3>2
  <2> QED BY <2>1, SumInt
<1> QED BY <1>1, <1>2, <1>3, <1>4, <1>5

-----------------------------------------------------------------------------
(* FIFO lots.                                                              *)

Lot == [qty : Nat \ {0}, cost : Nat, got : Nat]
Qtys(lots) == [i \in DOMAIN lots |-> lots[i].qty]
Costs(lots) == [i \in DOMAIN lots |-> lots[i].qty * lots[i].cost]

LEMMA LotSums ==
  ASSUME NEW lots
  PROVE /\ \A I : UnitsAt(lots, I) = SumOver(I, Qtys(lots))
        /\ Quantity(lots) = SumOver(DOMAIN lots, Qtys(lots))
        /\ Cost(lots) = SumOver(DOMAIN lots, Costs(lots))
BY DEF UnitsAt, Quantity, Cost, AddUp, Qtys, Costs

LEMMA LotTypes ==
  ASSUME NEW lots \in Seq(Lot)
  PROVE /\ Len(lots) \in Nat /\ DOMAIN lots = 1 .. Len(lots)
        /\ \A i \in 1 .. Len(lots) :
             /\ lots[i] \in Lot
             /\ lots[i].qty \in Nat \ {0} /\ lots[i].cost \in Nat /\ lots[i].got \in Nat
             /\ Qtys(lots)[i] = lots[i].qty /\ Costs(lots)[i] = lots[i].qty * lots[i].cost
             /\ Costs(lots)[i] \in Nat
<1>1. Len(lots) \in Nat /\ DOMAIN lots = 1 .. Len(lots)
  BY LenProperties
<1>2. ASSUME NEW i \in 1 .. Len(lots)
      PROVE lots[i] \in Lot
  BY ElementOfSeq
<1>3. ASSUME NEW i \in 1 .. Len(lots)
      PROVE lots[i].qty \in Nat \ {0} /\ lots[i].cost \in Nat /\ lots[i].got \in Nat
  BY <1>2 DEF Lot
<1>4. ASSUME NEW i \in 1 .. Len(lots)
      PROVE Qtys(lots)[i] = lots[i].qty /\ Costs(lots)[i] = lots[i].qty * lots[i].cost
  BY <1>1 DEF Qtys, Costs
<1>5. \A x, y \in Nat : x * y \in Nat
  OBVIOUS
<1>6. ASSUME NEW i \in 1 .. Len(lots)
      PROVE Costs(lots)[i] \in Nat
  BY <1>3, <1>4, <1>5
<1> QED BY <1>1, <1>2, <1>3, <1>4, <1>6

\* The lots up to a place have numbers that grow with the place.
LEMMA UnitsGrow ==
  ASSUME NEW lots \in Seq(Lot), NEW m \in 0 .. Len(lots), NEW n \in 0 .. Len(lots)
  PROVE /\ UnitsAt(lots, 1 .. n) \in Nat
        /\ n >= 1 => UnitsAt(lots, 1 .. n) = UnitsAt(lots, 1 .. n - 1) + lots[n].qty
        /\ m < n => UnitsAt(lots, 1 .. m) < UnitsAt(lots, 1 .. n)
        /\ n = 0 => UnitsAt(lots, 1 .. n) = 0
<1> DEFINE f == Qtys(lots)
<1>1. \A i \in 1 .. Len(lots) : f[i] \in Nat \ {0} /\ f[i] = lots[i].qty
  BY LotTypes
<1>2. \A I : UnitsAt(lots, I) = SumOver(I, f)
  BY LotSums
<1>3. Len(lots) \in Nat
  BY LotTypes
<1> HIDE DEF f
<1>4. \A k \in 0 .. Len(lots) : SumOver(1 .. k, f) \in Nat
  <2> TAKE k \in 0 .. Len(lots)
  <2>1. IsFiniteSet(1 .. k) /\ \A i \in 1 .. k : f[i] \in Nat
    <3>1. \A i \in 1 .. k : f[i] \in Nat
      BY <1>1, <1>3
    <3>2. IsFiniteSet(1 .. k)
      BY <1>3, FS_Interval
    <3> QED BY <3>1, <3>2
  <2> QED BY <2>1, SumNat
<1>5. ASSUME n >= 1
      PROVE SumOver(1 .. n, f) = SumOver(1 .. n - 1, f) + lots[n].qty
  <2>1. n - 1 \in Nat /\ (n - 1) + 1 = n /\ f[n] = lots[n].qty
    BY <1>1, <1>3, <1>5
  <2>2. \A i \in 1 .. n : f[i] \in Int
    BY <1>1, <1>3
  <2> QED BY <2>1, <2>2, SumNext
<1>6. ASSUME m < n
      PROVE SumOver(1 .. m, f) < SumOver(1 .. n, f)
  <2>1. n \in 1 .. Len(lots) /\ n - 1 \in 0 .. Len(lots) /\ m <= n - 1
    BY <1>3, <1>6
  <2>2. SumOver(1 .. n, f) = SumOver(1 .. n - 1, f) + lots[n].qty /\ lots[n].qty \in Nat \ {0}
    BY <1>1, <1>5, <2>1
  <2>3. SumOver(1 .. n - 1, f) = SumOver(1 .. m, f) + SumOver(m + 1 .. n - 1, f)
    <3>1. m \in Nat /\ n - 1 \in Nat /\ \A i \in 1 .. n - 1 : f[i] \in Int
      BY <1>1, <1>3, <2>1
    <3> QED BY <2>1, <3>1, SumSplit
  <2>4. SumOver(m + 1 .. n - 1, f) \in Nat
    <3>1. \A i \in m + 1 .. n - 1 : f[i] \in Nat
      BY <1>1, <1>3, <2>1
    <3>2. IsFiniteSet(m + 1 .. n - 1)
      <4>1. m + 1 \in Int /\ n - 1 \in Int
        BY <2>1
      <4> QED BY <4>1, FS_Interval
    <3> QED BY <3>1, <3>2, SumNat
  <2>5. SumOver(1 .. m, f) \in Nat
    BY <1>4
  <2> DEFINE a == SumOver(1 .. n, f)
             b == SumOver(1 .. n - 1, f)
             c == SumOver(1 .. m, f)
             d == SumOver(m + 1 .. n - 1, f)
             e == lots[n].qty
  <2>6. a = b + e /\ e \in Nat \ {0} /\ b = c + d /\ c \in Nat /\ d \in Nat
    BY <2>2, <2>3, <2>4, <2>5
  <2> HIDE DEF a, b, c, d, e
  <2>7. c < a
    BY <2>6
  <2> QED BY <2>7 DEF a, c
<1>7. n = 0 => SumOver(1 .. n, f) = 0
  <2>1. n = 0 => 1 .. n = {}
    BY <1>3
  <2> QED BY <2>1, SumEmpty
<1> QED BY <1>2, <1>4, <1>5, <1>6, <1>7

\* What a disposal takes of a lot.
LEMMA TakenOfOne ==
  ASSUME NEW lots \in Seq(Lot), NEW q \in Nat, NEW i \in 1 .. Len(lots)
  PROVE LET took == consumed(lots, q)[i]
            upTo == UnitsAt(lots, 1 .. i)
            before == UnitsAt(lots, 1 .. i - 1)
        IN /\ took = [qty |-> took.qty, cost |-> lots[i].cost, got |-> lots[i].got]
           /\ took.qty \in 0 .. lots[i].qty
           /\ (took.qty = lots[i].qty <=> upTo <= q)
           /\ (took.qty > 0 <=> before < q)
           /\ Least(upTo, q) = Least(before, q) + took.qty
           /\ upTo \in Nat /\ before \in Nat
<1> DEFINE took == consumed(lots, q)[i]
           upTo == UnitsAt(lots, 1 .. i)
           before == UnitsAt(lots, 1 .. i - 1)
<1>1. /\ Len(lots) \in Nat /\ DOMAIN lots = 1 .. Len(lots) /\ lots[i] \in Lot
      /\ lots[i].qty \in Nat \ {0} /\ lots[i].cost \in Nat /\ lots[i].got \in Nat
  BY LotTypes
<1>2. took = [lots[i] EXCEPT !.qty = Most(0, Least(lots[i].qty, q - before))]
  BY <1>1 DEF consumed
<1>3. i \in 0 .. Len(lots) /\ i - 1 \in 0 .. Len(lots) /\ i >= 1
  BY <1>1
<1>4. upTo \in Nat /\ before \in Nat /\ upTo = before + lots[i].qty
  BY <1>3, UnitsGrow
<1> HIDE DEF took, upTo, before
<1>5. /\ took.qty = Most(0, Least(lots[i].qty, q - before))
      /\ took = [qty |-> took.qty, cost |-> lots[i].cost, got |-> lots[i].got]
  BY <1>1, <1>2 DEF Lot
<1>6. /\ took.qty \in 0 .. lots[i].qty
      /\ (took.qty = lots[i].qty <=> upTo <= q)
      /\ (took.qty > 0 <=> before < q)
      /\ Least(upTo, q) = Least(before, q) + took.qty
  BY <1>1, <1>4, <1>5 DEF Most, Least
<1> QED BY <1>4, <1>5, <1>6 DEF took, upTo, before

\* Left and taken lots are the old ones, split.
LEMMA Fifo ==
  ASSUME NEW lots \in Seq(Lot), NEW q \in Nat
  PROVE LET r == consume_fifo(lots, q)
        IN /\ r.lots \in Seq(Lot) /\ r.taken \in Seq(Lot)
           /\ Quantity(r.lots) = Quantity(lots) - Least(Quantity(lots), q)
           /\ Quantity(r.taken) = Least(Quantity(lots), q)
           /\ Cost(r.lots) + Cost(r.taken) = Cost(lots)
           /\ Quantity(lots) \in Nat /\ Cost(lots) \in Nat /\ Cost(r.lots) \in Nat /\ Cost(r.taken) \in Nat
           /\ \A i \in 1 .. Len(r.lots) : \E j \in 1 .. Len(lots) : r.lots[i].got = lots[j].got
           /\ \A i \in 1 .. Len(r.taken) : \E j \in 1 .. Len(lots) : r.taken[i].got = lots[j].got
<1> DEFINE N == Len(lots)
           took == consumed(lots, q)
           left == [i \in DOMAIN lots |-> [lots[i] EXCEPT !.qty = @ - took[i].qty]]
           Empty == {i \in DOMAIN lots : left[i].qty = 0}
           Touched == {i \in DOMAIN lots : took[i].qty > 0}
           e == Cardinality(Empty)
           t == Cardinality(Touched)
           kept == SubSeq(left, e + 1, N)
           taken == SubSeq(took, 1, t)
           Upto(i) == UnitsAt(lots, 1 .. i)
<1>1. consume_fifo(lots, q) = [lots |-> kept, taken |-> taken]
  BY DEF consume_fifo
<1>2. N \in Nat /\ DOMAIN lots = 1 .. N /\ DOMAIN took = 1 .. N /\ DOMAIN left = 1 .. N
  BY LotTypes DEF consumed
<1>3. ASSUME NEW i \in 1 .. N
      PROVE /\ took[i] = [qty |-> took[i].qty, cost |-> lots[i].cost, got |-> lots[i].got]
            /\ left[i] = [qty |-> lots[i].qty - took[i].qty, cost |-> lots[i].cost, got |-> lots[i].got]
            /\ took[i].qty \in Nat /\ left[i].qty \in Nat
            /\ lots[i].qty \in Nat /\ lots[i].cost \in Nat /\ lots[i].got \in Nat
            /\ (left[i].qty = 0 <=> Upto(i) <= q)
            /\ (took[i].qty > 0 <=> Upto(i - 1) < q)
            /\ Least(Upto(i), q) = Least(Upto(i - 1), q) + took[i].qty
            /\ Upto(i) \in Nat /\ Upto(i - 1) \in Nat
  <2>1. /\ took[i] = [qty |-> took[i].qty, cost |-> lots[i].cost, got |-> lots[i].got]
        /\ took[i].qty \in 0 .. lots[i].qty
        /\ (took[i].qty = lots[i].qty <=> Upto(i) <= q)
        /\ (took[i].qty > 0 <=> Upto(i - 1) < q)
        /\ Least(Upto(i), q) = Least(Upto(i - 1), q) + took[i].qty
        /\ Upto(i) \in Nat /\ Upto(i - 1) \in Nat
    BY TakenOfOne
  <2>2. lots[i] \in Lot /\ lots[i].qty \in Nat /\ lots[i].cost \in Nat /\ lots[i].got \in Nat
    BY LotTypes DEF Lot
  <2>3. left[i] = [lots[i] EXCEPT !.qty = @ - took[i].qty]
    BY <1>2
  <2> HIDE DEF left, took
  <2>4. left[i] = [qty |-> lots[i].qty - took[i].qty, cost |-> lots[i].cost, got |-> lots[i].got]
    BY <2>2, <2>3 DEF Lot
  <2> HIDE DEF Upto
  <2>5. left[i].qty \in Nat /\ (left[i].qty = 0 <=> took[i].qty = lots[i].qty)
    BY <2>1, <2>2, <2>4
  <2> QED BY <2>1, <2>2, <2>4, <2>5
<1>4. /\ e \in 0 .. N /\ Empty = 1 .. e
      /\ t \in 0 .. N /\ Touched = 1 .. t
  <2>1. ASSUME NEW i \in 1 .. N, NEW j \in 1 .. i
        PROVE j \in 1 .. N /\ Upto(j) <= Upto(i) /\ Upto(j - 1) <= Upto(i - 1)
    <3>1. /\ i \in 0 .. N /\ j \in 0 .. N /\ i - 1 \in 0 .. N /\ j - 1 \in 0 .. N /\ j \in 1 .. N
          /\ (j < i \/ j = i) /\ (j < i => j - 1 < i - 1)
      BY <1>2
    <3>2. (j < i => Upto(j) < Upto(i)) /\ (j - 1 < i - 1 => Upto(j - 1) < Upto(i - 1))
      BY <3>1, UnitsGrow
    <3>3. Upto(i) \in Nat /\ Upto(j) \in Nat /\ Upto(i - 1) \in Nat /\ Upto(j - 1) \in Nat
      BY <1>3, <3>1
    <3> HIDE DEF Upto
    <3> QED BY <3>1, <3>2, <3>3
  <2> HIDE DEF Upto, took, left
  <2>2. \A i \in Empty : \A j \in 1 .. i : j \in Empty
    <3> SUFFICES ASSUME NEW i \in Empty, NEW j \in 1 .. i PROVE j \in Empty
      OBVIOUS
    <3>1. i \in 1 .. N /\ left[i].qty = 0
      BY <1>2
    <3>2. j \in 1 .. N /\ Upto(j) <= Upto(i)
      BY <2>1, <3>1
    <3>3. Upto(i) <= q /\ Upto(i) \in Nat /\ Upto(j) \in Nat
      BY <1>3, <3>1, <3>2
    <3>4. left[j].qty = 0 <=> Upto(j) <= q
      BY <1>3, <3>2
    <3>5. left[j].qty = 0
      BY <3>2, <3>3, <3>4
    <3> QED BY <1>2, <3>2, <3>5
  <2>3. \A i \in Touched : \A j \in 1 .. i : j \in Touched
    <3> SUFFICES ASSUME NEW i \in Touched, NEW j \in 1 .. i PROVE j \in Touched
      OBVIOUS
    <3>1. i \in 1 .. N /\ took[i].qty > 0
      BY <1>2
    <3>2. j \in 1 .. N /\ Upto(j - 1) <= Upto(i - 1)
      BY <2>1, <3>1
    <3>3. Upto(i - 1) < q /\ Upto(i - 1) \in Nat /\ Upto(j - 1) \in Nat
      BY <1>3, <3>1, <3>2
    <3>4. took[j].qty > 0 <=> Upto(j - 1) < q
      BY <1>3, <3>2
    <3>5. took[j].qty > 0
      BY <3>2, <3>3, <3>4
    <3> QED BY <1>2, <3>2, <3>5
  <2>4. Empty \in SUBSET (1 .. N) /\ Touched \in SUBSET (1 .. N)
    BY <1>2
  <2> HIDE DEF Empty, Touched
  <2> QED BY <1>2, <2>2, <2>3, <2>4, FirstOnes
<1> HIDE DEF Upto
<1>5. ASSUME NEW i \in 1 .. N
      PROVE (i <= e <=> left[i].qty = 0) /\ (i <= t <=> took[i].qty > 0)
  <2> HIDE DEF took, left, e, t
  <2> QED BY <1>2, <1>4
<1> HIDE DEF took, left
<1>6. /\ kept \in Seq(Lot) /\ Len(kept) = N - e
      /\ \A i \in 1 .. N - e : kept[i] = left[e + i]
  <2> HIDE DEF e
  <2>1. \A i \in e + 1 .. N : left[i] \in Lot
    <3> SUFFICES ASSUME NEW i \in e + 1 .. N PROVE left[i] \in Lot
      OBVIOUS
    <3>1. i \in 1 .. N /\ ~ (i <= e)
      BY <1>2, <1>4
    <3>2. left[i].qty \in Nat \ {0}
      BY <1>3, <1>5, <3>1
    <3>3. left[i] = [qty |-> lots[i].qty - took[i].qty, cost |-> lots[i].cost, got |-> lots[i].got]
          /\ lots[i].cost \in Nat /\ lots[i].got \in Nat
      BY <1>3, <3>1
    <3> QED BY <3>2, <3>3 DEF Lot
  <2>2. e + 1 \in Int /\ N \in Int
    BY <1>2, <1>4
  <2>3. /\ kept \in Seq(Lot) /\ Len(kept) = IF e + 1 <= N THEN N - (e + 1) + 1 ELSE 0
        /\ \A i \in 1 .. N - (e + 1) + 1 : kept[i] = left[(e + 1) + i - 1]
    BY <2>1, <2>2, SubSeqProperties
  <2> HIDE DEF kept, N
  <2>4. N - (e + 1) + 1 = N - e /\ (~(e + 1 <= N) => N - e = 0)
    BY <1>2, <1>4
  <2>5. ASSUME NEW i \in 1 .. N - e
        PROVE kept[i] = left[e + i]
    <3>1. i \in 1 .. N - (e + 1) + 1 /\ (e + 1) + i - 1 = e + i
      BY <1>2, <1>4
    <3> QED BY <2>3, <3>1
  <2> QED BY <2>3, <2>4, <2>5
<1>7. /\ taken \in Seq(Lot) /\ Len(taken) = t
      /\ \A i \in 1 .. t : taken[i] = took[i]
  <2> HIDE DEF t
  <2>1. \A i \in 1 .. t : took[i] \in Lot
    <3> SUFFICES ASSUME NEW i \in 1 .. t PROVE took[i] \in Lot
      OBVIOUS
    <3>1. i \in 1 .. N /\ i <= t
      BY <1>2, <1>4
    <3>2. took[i].qty \in Nat /\ took[i].qty > 0
      BY <1>3, <1>5, <3>1
    <3>3. took[i] = [qty |-> took[i].qty, cost |-> lots[i].cost, got |-> lots[i].got]
          /\ lots[i].cost \in Nat /\ lots[i].got \in Nat
      BY <1>3, <3>1
    <3> QED BY <3>2, <3>3 DEF Lot
  <2>2. 1 \in Int /\ t \in Int
    BY <1>4
  <2>3. /\ taken \in Seq(Lot) /\ Len(taken) = IF 1 <= t THEN t - 1 + 1 ELSE 0
        /\ \A i \in 1 .. t - 1 + 1 : taken[i] = took[1 + i - 1]
    BY <2>1, <2>2, SubSeqProperties
  <2> HIDE DEF taken, N
  <2>4. t - 1 + 1 = t /\ (~(1 <= t) => t = 0)
    BY <1>2, <1>4
  <2>5. ASSUME NEW i \in 1 .. t
        PROVE taken[i] = took[i]
    <3>1. i \in 1 .. t - 1 + 1 /\ 1 + i - 1 = i
      BY <1>2, <1>4
    <3> QED BY <2>3, <3>1
  <2> QED BY <2>3, <2>4, <2>5
<1> HIDE DEF kept, taken, e, t, N
<1> DEFINE qs == Qtys(lots)
           cs == Costs(lots)
           tq == [i \in 1 .. N |-> took[i].qty]
           tc == [i \in 1 .. N |-> took[i].qty * lots[i].cost]
           lq == [i \in 1 .. N |-> left[i].qty]
           lc == [i \in 1 .. N |-> left[i].qty * lots[i].cost]
<1>8. ASSUME NEW i \in 1 .. N
      PROVE /\ qs[i] = tq[i] + lq[i] /\ cs[i] = tc[i] + lc[i]
            /\ qs[i] \in Nat /\ tq[i] \in Nat /\ lq[i] \in Nat
            /\ cs[i] \in Nat /\ tc[i] \in Nat /\ lc[i] \in Nat
            /\ (i > t => tq[i] = 0 /\ tc[i] = 0) /\ (i <= e => lq[i] = 0 /\ lc[i] = 0)
  <2> DEFINE q1 == took[i].qty
             q2 == left[i].qty
             q3 == lots[i].qty
             c == lots[i].cost
  <2>1. /\ q1 \in Nat /\ q2 \in Nat /\ q3 \in Nat /\ c \in Nat /\ q2 = q3 - q1
        /\ (i > t => q1 = 0) /\ (i <= e => q2 = 0)
    <3>1. t \in Int /\ i \in Int
      BY <1>2, <1>4
    <3>2. q1 \in Nat /\ q2 \in Nat /\ q3 \in Nat /\ c \in Nat /\ q2 = q3 - q1
      <4>1. left[i] = [qty |-> lots[i].qty - took[i].qty, cost |-> lots[i].cost, got |-> lots[i].got]
        BY <1>3
      <4>2. left[i].qty = lots[i].qty - took[i].qty
        BY <4>1
      <4> QED BY <1>3, <4>2
    <3>3. (i <= t <=> q1 > 0) /\ (i <= e <=> q2 = 0)
      BY <1>5
    <3> HIDE DEF q1, q2, q3, c
    <3> QED BY <3>1, <3>2, <3>3
  <2>2. qs[i] = q3 /\ cs[i] = q3 * c
    BY LotTypes DEF N
  <2>3. tq[i] = q1 /\ tc[i] = q1 * c /\ lq[i] = q2 /\ lc[i] = q2 * c
    OBVIOUS
  <2> HIDE DEF q1, q2, q3, c, qs, cs, tq, tc, lq, lc
  <2>4. q3 = q1 + q2 /\ q3 * c = q1 * c + q2 * c /\ q1 * c \in Nat /\ q2 * c \in Nat /\ q3 * c \in Nat
        /\ (q1 = 0 => q1 * c = 0) /\ (q2 = 0 => q2 * c = 0)
    BY <2>1
  <2> QED BY <2>1, <2>2, <2>3, <2>4
<1> HIDE DEF qs, cs, tq, tc, lq, lc
<1>9. IsFiniteSet(1 .. N)
  <2>1. 1 \in Int /\ N \in Int
    BY <1>2
  <2> QED BY <2>1, FS_Interval
<1>10. /\ SumOver(1 .. N, qs) = SumOver(1 .. N, tq) + SumOver(1 .. N, lq)
       /\ SumOver(1 .. N, cs) = SumOver(1 .. N, tc) + SumOver(1 .. N, lc)
       /\ SumOver(1 .. N, qs) \in Nat /\ SumOver(1 .. N, tq) \in Nat /\ SumOver(1 .. N, lq) \in Nat
       /\ SumOver(1 .. N, cs) \in Nat /\ SumOver(1 .. N, tc) \in Nat /\ SumOver(1 .. N, lc) \in Nat
  <2>1. /\ \A i \in 1 .. N : tq[i] \in Int /\ lq[i] \in Int /\ qs[i] = tq[i] + lq[i]
        /\ \A i \in 1 .. N : tc[i] \in Int /\ lc[i] \in Int /\ cs[i] = tc[i] + lc[i]
    BY <1>8
  <2>2. SumOver(1 .. N, qs) = SumOver(1 .. N, tq) + SumOver(1 .. N, lq)
    BY <1>9, <2>1, SumAdd
  <2>3. SumOver(1 .. N, cs) = SumOver(1 .. N, tc) + SumOver(1 .. N, lc)
    BY <1>9, <2>1, SumAdd
  <2>4. SumOver(1 .. N, qs) \in Nat /\ SumOver(1 .. N, tq) \in Nat /\ SumOver(1 .. N, lq) \in Nat
    BY <1>8, <1>9, SumNat
  <2>5. SumOver(1 .. N, cs) \in Nat /\ SumOver(1 .. N, tc) \in Nat /\ SumOver(1 .. N, lc) \in Nat
    BY <1>8, <1>9, SumNat
  <2> QED BY <2>2, <2>3, <2>4, <2>5
<1>11. SumOver(1 .. N, tq) = Least(Upto(N), q)
  <2> DEFINE T == {n \in 0 .. N : SumOver(1 .. n, tq) = Least(Upto(n), q)}
  <2>1. 0 \in T
    <3>1. Upto(0) = 0 /\ 1 .. 0 = {} /\ 0 \in 0 .. N
      <4>1. 0 \in 0 .. Len(lots)
        BY <1>2 DEF N
      <4> QED BY <4>1, UnitsGrow DEF Upto, N
    <3> QED BY <3>1, SumEmpty DEF Least
  <2>2. ASSUME NEW n \in 0 .. N - 1, n \in T
        PROVE n + 1 \in T
    <3>1. n + 1 \in 1 .. N /\ n \in Nat /\ (n + 1) - 1 = n /\ N \in Nat
      BY <1>2
    <3>2. \A i \in 1 .. n + 1 : tq[i] \in Int
      BY <1>8, <3>1
    <3>3. SumOver(1 .. n + 1, tq) = SumOver(1 .. n, tq) + tq[n + 1]
      BY <3>1, <3>2, SumNext
    <3>4. Least(Upto(n + 1), q) = Least(Upto(n), q) + took[n + 1].qty
      <4>1. Least(Upto(n + 1), q) = Least(Upto((n + 1) - 1), q) + took[n + 1].qty
        BY <1>3, <3>1
      <4> QED BY <3>1, <4>1
    <3>5. tq[n + 1] = took[n + 1].qty
      BY <3>1 DEF tq
    <3>6. SumOver(1 .. n, tq) = Least(Upto(n), q)
      BY <2>2
    <3>7. SumOver(1 .. n + 1, tq) = Least(Upto(n + 1), q)
      BY <3>3, <3>4, <3>5, <3>6
    <3> QED BY <3>1, <3>7
  <2>3. \A n \in 0 .. N : n \in T
    <3> HIDE DEF T
    <3> QED BY <1>2, <2>1, <2>2, StepByStep
  <2>4. N \in T
    <3> HIDE DEF T
    <3> QED BY <1>2, <2>3
  <2> QED BY <2>4
<1>12. Quantity(lots) = SumOver(1 .. N, qs) /\ Cost(lots) = SumOver(1 .. N, cs) /\ Upto(N) = SumOver(1 .. N, qs)
  BY <1>2, LotSums DEF Upto, qs, cs
<1>13. Quantity(taken) = SumOver(1 .. N, tq) /\ Cost(taken) = SumOver(1 .. N, tc)
  <2>1. Quantity(taken) = SumOver(1 .. t, Qtys(taken)) /\ Cost(taken) = SumOver(1 .. t, Costs(taken))
    BY <1>7, LotSums, LotTypes
  <2>2. \A i \in 1 .. N : tq[i] \in Int /\ tc[i] \in Int
    BY <1>8
  <2>3. ASSUME NEW i \in t + 1 .. N
        PROVE tq[i] = 0 /\ tc[i] = 0
    <3>1. i \in 1 .. N /\ i > t
      BY <1>2, <1>4
    <3> QED BY <1>8, <3>1
  <2>4. ASSUME NEW i \in 1 .. t
        PROVE Qtys(taken)[i] = tq[i] /\ Costs(taken)[i] = tc[i]
    <3>1. i \in 1 .. N /\ i \in 1 .. Len(taken)
      BY <1>2, <1>4, <1>7
    <3>2. taken[i].qty = took[i].qty /\ taken[i].cost = lots[i].cost
      <4>1. taken[i] = took[i] /\ took[i] = [qty |-> took[i].qty, cost |-> lots[i].cost, got |-> lots[i].got]
        BY <1>3, <1>7, <3>1
      <4> QED BY <4>1
    <3>3. Qtys(taken)[i] = taken[i].qty /\ Costs(taken)[i] = taken[i].qty * taken[i].cost
      BY <1>7, <3>1, LotTypes
    <3>4. tq[i] = took[i].qty /\ tc[i] = took[i].qty * lots[i].cost
      BY <3>1 DEF tq, tc
    <3> QED BY <3>2, <3>3, <3>4
  <2>5. N \in Nat /\ t \in 0 .. N
    BY <1>2, <1>4
  <2>6. SumOver(1 .. t, Qtys(taken)) = SumOver(1 .. N, tq)
    BY <2>2, <2>3, <2>4, <2>5, SumCutEnd
  <2>7. SumOver(1 .. t, Costs(taken)) = SumOver(1 .. N, tc)
    BY <2>2, <2>3, <2>4, <2>5, SumCutEnd
  <2> QED BY <2>1, <2>6, <2>7
<1>14. Quantity(kept) = SumOver(1 .. N, lq) /\ Cost(kept) = SumOver(1 .. N, lc)
  <2>1. Quantity(kept) = SumOver(1 .. N - e, Qtys(kept)) /\ Cost(kept) = SumOver(1 .. N - e, Costs(kept))
    BY <1>6, LotSums, LotTypes
  <2>2. \A i \in 1 .. N : lq[i] \in Int /\ lc[i] \in Int
    BY <1>8
  <2>3. ASSUME NEW i \in 1 .. e
        PROVE lq[i] = 0 /\ lc[i] = 0
    <3>1. i \in 1 .. N /\ i <= e
      BY <1>2, <1>4
    <3> QED BY <1>8, <3>1
  <2>4. ASSUME NEW i \in 1 .. N - e
        PROVE Qtys(kept)[i] = lq[e + i] /\ Costs(kept)[i] = lc[e + i]
    <3>1. e + i \in 1 .. N /\ i \in 1 .. Len(kept)
      BY <1>2, <1>4, <1>6
    <3>2. kept[i].qty = left[e + i].qty /\ kept[i].cost = lots[e + i].cost
      <4>1. kept[i] = left[e + i] /\ left[e + i] = [qty |-> lots[e + i].qty - took[e + i].qty, cost |-> lots[e + i].cost, got |-> lots[e + i].got]
        BY <1>3, <1>6, <3>1
      <4> QED BY <4>1
    <3>3. Qtys(kept)[i] = kept[i].qty /\ Costs(kept)[i] = kept[i].qty * kept[i].cost
      BY <1>6, <3>1, LotTypes
    <3>4. lq[e + i] = left[e + i].qty /\ lc[e + i] = left[e + i].qty * lots[e + i].cost
      BY <3>1 DEF lq, lc
    <3> QED BY <3>2, <3>3, <3>4
  <2>5. N \in Nat /\ e \in 0 .. N
    BY <1>2, <1>4
  <2>6. SumOver(1 .. N - e, Qtys(kept)) = SumOver(1 .. N, lq)
    BY <2>2, <2>3, <2>4, <2>5, SumCutFront
  <2>7. SumOver(1 .. N - e, Costs(kept)) = SumOver(1 .. N, lc)
    BY <2>2, <2>3, <2>4, <2>5, SumCutFront
  <2> QED BY <2>1, <2>6, <2>7
<1>15. \A i \in 1 .. Len(kept) : \E j \in 1 .. Len(lots) : kept[i].got = lots[j].got
  <2> SUFFICES ASSUME NEW i \in 1 .. Len(kept) PROVE \E j \in 1 .. N : kept[i].got = lots[j].got
    BY DEF N
  <2>1. e + i \in 1 .. N /\ i \in 1 .. N - e
    BY <1>2, <1>4, <1>6
  <2>2. kept[i] = left[e + i] /\ left[e + i] = [qty |-> lots[e + i].qty - took[e + i].qty, cost |-> lots[e + i].cost, got |-> lots[e + i].got]
    BY <1>3, <1>6, <2>1
  <2> QED BY <2>1, <2>2
<1>16. \A i \in 1 .. Len(taken) : \E j \in 1 .. Len(lots) : taken[i].got = lots[j].got
  <2> SUFFICES ASSUME NEW i \in 1 .. Len(taken) PROVE \E j \in 1 .. N : taken[i].got = lots[j].got
    BY DEF N
  <2>1. i \in 1 .. N /\ i \in 1 .. t
    BY <1>2, <1>4, <1>7
  <2>2. taken[i] = took[i] /\ took[i] = [qty |-> took[i].qty, cost |-> lots[i].cost, got |-> lots[i].got]
    BY <1>3, <1>7, <2>1
  <2> QED BY <2>1, <2>2
<1>17. /\ Quantity(kept) = Quantity(lots) - Least(Quantity(lots), q)
       /\ Quantity(taken) = Least(Quantity(lots), q)
       /\ Cost(kept) + Cost(taken) = Cost(lots)
       /\ Quantity(lots) \in Nat /\ Cost(lots) \in Nat /\ Cost(kept) \in Nat /\ Cost(taken) \in Nat
  BY <1>10, <1>11, <1>12, <1>13, <1>14
<1> QED BY <1>1, <1>6, <1>7, <1>15, <1>16, <1>17

LEMMA SumTimes ==
  ASSUME NEW S, IsFiniteSet(S), NEW k \in Int, NEW f, NEW g, \A x \in S : f[x] \in Int /\ g[x] = f[x] * k
  PROVE SumOver(S, g) = SumOver(S, f) * k
<1> DEFINE T == {V \in SUBSET S : SumOver(V, g) = SumOver(V, f) * k}
<1>0. \A x, y \in Int : x * y \in Int
  OBVIOUS
<1>1. {} \in T
  BY SumEmpty
<1>2. ASSUME NEW V \in T, NEW x \in S, x \notin V
      PROVE V \cup {x} \in T
  <2>1. IsFiniteSet(V) /\ \A y \in V : y \in S
    BY FS_Subset
  <2>2. \A y \in S : f[y] \in Int /\ g[y] \in Int
    BY <1>0
  <2>3. SumOver(V \cup {x}, f) = SumOver(V, f) + f[x] /\ SumOver(V \cup {x}, g) = SumOver(V, g) + g[x]
    BY <1>2, <2>1, <2>2, SumWith
  <2>4. SumOver(V, f) \in Int /\ f[x] \in Int /\ g[x] = f[x] * k /\ SumOver(V, g) = SumOver(V, f) * k
    BY <2>1, <2>2, SumInt
  <2>5. \A a, b \in Int : (a + b) * k = a * k + b * k
    OBVIOUS
  <2>6. SumOver(V \cup {x}, g) = SumOver(V \cup {x}, f) * k
    BY <2>3, <2>4, <2>5
  <2> QED BY <2>6
<1> HIDE DEF T
<1>3. S \in T
  <2>1. T \subseteq SUBSET S
    BY DEF T
  <2> QED BY <1>1, <1>2, <2>1, OneByOne
<1> QED BY <1>3 DEF T

\* One summand changed.
LEMMA SumChanged ==
  ASSUME NEW S, IsFiniteSet(S), NEW f, NEW g, NEW x \in S, \A y \in S : f[y] \in Int,
         g[x] \in Int, \A y \in S : y # x => g[y] = f[y]
  PROVE SumOver(S, g) = SumOver(S, f) - f[x] + g[x]
<1> DEFINE rest == S \ {x}
<1>1. \A y \in S : g[y] \in Int
  OBVIOUS
<1>2. SumOver(S, f) = f[x] + SumOver(rest, f) /\ SumOver(S, g) = g[x] + SumOver(rest, g)
  BY <1>1, SumWithout
<1>3. IsFiniteSet(rest) /\ \A y \in rest : f[y] \in Int /\ f[y] = g[y]
  BY FS_Subset
<1> HIDE DEF rest
<1>4. SumOver(rest, f) = SumOver(rest, g) /\ SumOver(rest, f) \in Int
  BY <1>3, SumEqual, SumInt
<1>5. f[x] \in Int /\ g[x] \in Int
  OBVIOUS
<1> QED BY <1>2, <1>4, <1>5

-----------------------------------------------------------------------------
(* The invariant.                                                          *)

Event == [coin : Coins, qty : Nat \ {0}, cost : Nat, proceeds : Nat, bought : Nat, sold : Nat]
Inventories == [Coins -> Seq(Lot)]
Gains(s) == [i \in DOMAIN s |-> Gain(s[i])]
Position(am, c) == SumOver(Places, [a \in Places |-> am[a][c]])
BookValue == SumOver(Coins, [c \in Coins |-> Cost(heldLots[c])]) + cash

AmountsOK(am) ==
  /\ am = [a \in Places \cup {Bank} |-> am[a]]
  /\ am[Bank] \in Int /\ \A a \in Places : am[a] \in [Coins -> Int]

TypesOK ==
  /\ month \in 0 .. MaxMonth /\ txns \in 0 .. MaxTxns /\ price \in Quoted
  /\ gainLots \in Inventories /\ heldLots \in Inventories /\ AmountsOK(amounts)
  /\ cgtEvents \in Seq(Event)
  /\ earned \in Nat /\ lastUnrealised \in Int /\ monthly \in Int
  /\ putIn \in Int /\ mispriced \in Int /\ oversold \in BOOLEAN
  /\ InWindow =>
       /\ opening.value \in Int /\ opening.unrealised \in Int /\ opening.transit \in BOOLEAN
       /\ opening.of \in [Coins -> Int] /\ opening.price \in [Coins -> Nat]

DatesOK ==
  /\ \A c \in Coins : \A i \in DOMAIN heldLots[c] : heldLots[c][i].got <= month
  /\ \A i \in DOMAIN cgtEvents :
       /\ cgtEvents[i].bought <= cgtEvents[i].sold
       /\ cgtEvents[i].sold > OpenMonth /\ cgtEvents[i].sold <= month

\* Both walks have the same lots; they are as many as the coins there are, or more after
\* short sales.
LotsOK ==
  /\ gainLots = heldLots
  /\ \A c \in Coins : /\ Quantity(heldLots[c]) >= Position(amounts, c)
                      /\ ~oversold => Quantity(heldLots[c]) = Position(amounts, c)

\* Before the window nothing counts; in it the changes of past months add up.
WindowOK ==
  /\ ~InWindow => cgtEvents = <<>> /\ earned = 0 /\ putIn = 0 /\ mispriced = 0
  /\ InWindow =>
       /\ opening.unrealised = SumOver(Coins, opening.of)
       /\ monthly = lastUnrealised - opening.unrealised
                    + AddUp(cgtEvents, {i \in DOMAIN cgtEvents : cgtEvents[i].sold < month}, OpenGainSold)

\* What was earned and gained is what the lots at cost and the cash grew by.
BookOK ==
  InWindow /\ ~oversold /\ ~opening.transit =>
    SumOver(DOMAIN cgtEvents, Gains(cgtEvents)) + earned
      = BookValue - (opening.value - opening.unrealised) - putIn + mispriced

IInv == TypesOK /\ DatesOK /\ LotsOK /\ WindowOK /\ BookOK

-----------------------------------------------------------------------------
(* Values in a state.                                                      *)

LEMMA PriceTypes ==
  ASSUME TypesOK
  PROVE price \in [Coins -> Nat]
<1>1. price \in [Coins -> UNION {MarketPrices[c] : c \in Coins}] /\ \A c \in Coins : price[c] \in MarketPrices[c]
  BY DEF TypesOK, Quoted
<1>2. \A c \in Coins : MarketPrices[c] \subseteq Nat
  BY ReportsAssumption
<1> QED BY <1>1, <1>2

LEMMA NetTypes ==
  ASSUME TypesOK, NEW c \in Coins
  PROVE /\ netQty(c) \in Int /\ Outside(c) \in Int /\ Position(amounts, c) = netQty(c) + Outside(c)
        /\ cash \in Int
<1> DEFINE f == [a \in Places |-> amounts[a][c]]
           R == {a \in Places : Relevant(a)}
           O == {a \in Places : ~Relevant(a)}
<1>1. \A a \in Places : f[a] \in Int
  BY DEF TypesOK, AmountsOK
<1>2. IsFiniteSet(R) /\ IsFiniteSet(O) /\ R \cap O = {} /\ R \cup O = Places
  BY ReportsAssumption, FS_Subset
<1>3. netQty(c) = SumOver(R, f) /\ Outside(c) = SumOver(O, f) /\ Position(amounts, c) = SumOver(Places, f)
  BY DEF netQty, Outside, Position
<1> HIDE DEF f, R, O
<1>4. SumOver(R, f) \in Int /\ SumOver(O, f) \in Int
  BY <1>1, <1>2, SumInt
<1>5. SumOver(R \cup O, f) = SumOver(R, f) + SumOver(O, f)
  BY <1>1, <1>2, SumUnion
<1>6. cash \in Int
  BY DEF cash, TypesOK, AmountsOK
<1> QED BY <1>2, <1>3, <1>4, <1>5, <1>6

LEMMA HoldingTypes ==
  ASSUME TypesOK, NEW c \in Coins
  PROVE /\ HoldingLots(c) \in Seq(Lot)
        /\ Holding(c).value \in Int /\ Holding(c).unrealised \in Int
        /\ Holding(c).value = netQty(c) * price[c]
        /\ Holding(c).unrealised = Holding(c).value - (IF netQty(c) > 0 THEN Cost(HoldingLots(c)) ELSE Holding(c).value)
        /\ Quantity(heldLots[c]) \in Nat /\ Cost(heldLots[c]) \in Nat
<1>1. heldLots[c] \in Seq(Lot)
  BY DEF TypesOK, Inventories
<1>2. Quantity(heldLots[c]) \in Nat /\ Cost(heldLots[c]) \in Nat
  <2>1. 0 \in Nat
    OBVIOUS
  <2> QED BY <1>1, <2>1, Fifo
<1>3. netQty(c) \in Int /\ price[c] \in Nat
  BY NetTypes, PriceTypes
<1>4. HoldingLots(c) \in Seq(Lot)
  <2>1. CASE netQty(c) > 0 /\ Quantity(heldLots[c]) - netQty(c) > 0
    <3>1. Quantity(heldLots[c]) - netQty(c) \in Nat
      BY <1>2, <1>3, <2>1
    <3>2. consume_fifo(heldLots[c], Quantity(heldLots[c]) - netQty(c)).lots \in Seq(Lot)
      BY <1>1, <3>1, Fifo
    <3> QED BY <2>1, <3>2 DEF HoldingLots
  <2>2. CASE ~(netQty(c) > 0 /\ Quantity(heldLots[c]) - netQty(c) > 0)
    <3>1. HoldingLots(c) = heldLots[c]
      BY <2>2 DEF HoldingLots
    <3> QED BY <1>1, <3>1
  <2> QED BY <2>1, <2>2
<1>5. Cost(HoldingLots(c)) \in Nat
  <2>1. 0 \in Nat
    OBVIOUS
  <2> QED BY <1>4, <2>1, Fifo
<1>6. netQty(c) * price[c] \in Int
  <2>1. \A x, y \in Int : x * y \in Int
    OBVIOUS
  <2> QED BY <1>3, <2>1
<1>7. /\ Holding(c).value = netQty(c) * price[c]
      /\ Holding(c).unrealised = Holding(c).value - (IF netQty(c) > 0 THEN Cost(HoldingLots(c)) ELSE Holding(c).value)
  BY DEF Holding
<1>8. Holding(c).unrealised \in Int
  BY <1>5, <1>6, <1>7
<1> QED BY <1>2, <1>4, <1>6, <1>7, <1>8

LEMMA UnrealisedType ==
  ASSUME TypesOK
  PROVE /\ Unrealised \in Int
        /\ SumOver(Coins, [c \in Coins |-> Holding(c).value]) \in Int
<1> DEFINE f == [c \in Coins |-> Holding(c).unrealised]
           v == [c \in Coins |-> Holding(c).value]
<1>1. \A c \in Coins : f[c] \in Int /\ v[c] \in Int
  BY HoldingTypes
<1>2. Unrealised = SumOver(Coins, f)
  BY DEF Unrealised
<1> HIDE DEF f
<1>3. SumOver(Coins, f) \in Int
  BY <1>1, SumInt, ReportsAssumption
<1> HIDE DEF v
<1>4. SumOver(Coins, v) \in Int
  BY <1>1, SumInt, ReportsAssumption
<1> QED BY <1>2, <1>3, <1>4 DEF v

LEMMA EventTypes ==
  ASSUME TypesOK, DatesOK
  PROVE /\ Len(cgtEvents) \in Nat /\ DOMAIN cgtEvents = 1 .. Len(cgtEvents) /\ IsFiniteSet(DOMAIN cgtEvents)
        /\ \A i \in DOMAIN cgtEvents :
             /\ cgtEvents[i] \in Event
             /\ Gain(cgtEvents[i]) \in Int
             /\ InWindow => OpenGainSold(cgtEvents[i]) \in Int
<1>1. Len(cgtEvents) \in Nat /\ DOMAIN cgtEvents = 1 .. Len(cgtEvents)
  BY LenProperties DEF TypesOK
<1>2. IsFiniteSet(DOMAIN cgtEvents)
  BY <1>1, FS_Interval
<1>0. \A x, y \in Int : x * y \in Int /\ x - y \in Int
  OBVIOUS
<1>3. ASSUME NEW i \in DOMAIN cgtEvents
      PROVE cgtEvents[i] \in Event
  BY <1>1, ElementOfSeq DEF TypesOK
<1>4. ASSUME NEW i \in DOMAIN cgtEvents
      PROVE Gain(cgtEvents[i]) \in Int
  <2>1. cgtEvents[i].qty \in Int /\ cgtEvents[i].proceeds \in Int /\ cgtEvents[i].cost \in Int
    BY <1>3 DEF Event
  <2> QED BY <1>0, <2>1 DEF Gain
<1>5. ASSUME NEW i \in DOMAIN cgtEvents, InWindow
      PROVE OpenGainSold(cgtEvents[i]) \in Int
  <2>1. cgtEvents[i].qty \in Int /\ cgtEvents[i].coin \in Coins /\ cgtEvents[i].cost \in Int
    BY <1>3 DEF Event
  <2>2. opening.price[cgtEvents[i].coin] \in Int
    BY <1>5, <2>1 DEF TypesOK
  <2> QED BY <1>0, <2>1, <2>2 DEF OpenGainSold
<1> QED BY <1>1, <1>2, <1>3, <1>4, <1>5

LEMMA EventSums ==
  ASSUME TypesOK, DatesOK
  PROVE /\ NetGain(cgtEvents) = SumOver(DOMAIN cgtEvents, Gains(cgtEvents))
        /\ NetGain(cgtEvents) \in Int
        /\ ShortGains(cgtEvents) \in Nat /\ LongGains(cgtEvents) \in Nat /\ Losses(cgtEvents) \in Nat
<1> DEFINE D == DOMAIN cgtEvents
           g == Gains(cgtEvents)
           minus == [i \in D |-> -g[i]]
           short == {i \in D : Gain(cgtEvents[i]) > 0 /\ ~Eligible(cgtEvents[i])}
           long == {i \in D : Eligible(cgtEvents[i])}
           lost == {i \in D : Gain(cgtEvents[i]) < 0}
           even == {i \in D : Gain(cgtEvents[i]) = 0}
<1>1. IsFiniteSet(D) /\ \A i \in D : g[i] \in Int /\ g[i] = Gain(cgtEvents[i])
  BY EventTypes DEF Gains
<1>2. \A i \in long : g[i] > 0
  BY <1>1 DEF Eligible
<1>3. /\ \A i \in short \cup long : g[i] \in Nat
      /\ \A i \in lost : minus[i] \in Nat /\ 0 = g[i] + minus[i] /\ g[i] \in Int
      /\ \A i \in even : g[i] = 0
  BY <1>1, <1>2
<1>4. /\ short \subseteq D /\ long \subseteq D /\ lost \subseteq D /\ even \subseteq D
      /\ short \cap long = {} /\ (short \cup long) \cap lost = {} /\ (short \cup long \cup lost) \cap even = {}
      /\ short \cup long \cup lost \cup even = D
  BY <1>1, <1>2
<1>5. /\ ShortGains(cgtEvents) = SumOver(short, g) /\ LongGains(cgtEvents) = SumOver(long, g)
      /\ Losses(cgtEvents) = -SumOver(lost, g)
  BY DEF ShortGains, LongGains, Losses, AddUp, Gains
<1> HIDE DEF D, g, minus, short, long, lost, even
<1>6. /\ IsFiniteSet(short) /\ IsFiniteSet(long) /\ IsFiniteSet(lost) /\ IsFiniteSet(even)
      /\ IsFiniteSet(short \cup long) /\ IsFiniteSet(short \cup long \cup lost)
  <2>1. short \cup long \subseteq D /\ short \cup long \cup lost \subseteq D
    BY <1>4
  <2> QED BY <1>1, <1>4, <2>1, FS_Subset
<1>7. SumOver(short, g) \in Nat /\ SumOver(long, g) \in Nat
  BY <1>3, <1>6, SumNat
<1>8. SumOver(lost, g) \in Int /\ -SumOver(lost, g) \in Nat
  <2>1. SumOver(lost, minus) \in Nat
    BY <1>3, <1>6, SumNat
  <2>2. SumOver(lost, g) \in Int
    BY <1>3, <1>6, SumInt
  <2>3. SumOver(lost, [i \in lost |-> 0]) = SumOver(lost, g) + SumOver(lost, minus)
    BY <1>3, <1>6, SumAdd
  <2>4. SumOver(lost, [i \in lost |-> 0]) = 0
    BY <1>6, SumZero
  <2> QED BY <2>1, <2>2, <2>3, <2>4
<1>9. SumOver(D, g) = SumOver(short, g) + SumOver(long, g) + SumOver(lost, g)
  <2>0. \A i \in D : g[i] \in Int
    BY <1>1
  <2>1. SumOver(short \cup long, g) = SumOver(short, g) + SumOver(long, g)
    <3>1. \A i \in short \cup long : g[i] \in Int
      BY <1>4, <2>0
    <3> QED BY <1>4, <1>6, <3>1, SumUnion
  <2>2. SumOver(short \cup long \cup lost, g) = SumOver(short \cup long, g) + SumOver(lost, g)
    <3>1. \A i \in (short \cup long) \cup lost : g[i] \in Int
      BY <1>4, <2>0
    <3> QED BY <1>4, <1>6, <3>1, SumUnion
  <2>3. SumOver(D, g) = SumOver(short \cup long \cup lost, g) + SumOver(even, g)
    <3>1. SumOver((short \cup long \cup lost) \cup even, g) = SumOver(short \cup long \cup lost, g) + SumOver(even, g)
      <4>1. \A i \in (short \cup long \cup lost) \cup even : g[i] \in Int
        BY <1>4, <2>0
      <4> QED BY <1>4, <1>6, <4>1, SumUnion
    <3> QED BY <1>4, <3>1
  <2>4. SumOver(even, g) = 0
    BY <1>3, <1>6, SumZero
  <2> QED BY <1>7, <1>8, <2>1, <2>2, <2>3, <2>4
<1> QED BY <1>5, <1>7, <1>8, <1>9 DEF NetGain, D, g

-----------------------------------------------------------------------------
(* The parts of a return.                                                  *)

LEMMA PartsOfReturn ==
  ASSUME IInv
  PROVE PartsAddUp
<1> SUFFICES ASSUME InWindow
             PROVE /\ SumOver(Coins, [c \in Coins |-> attribution(c)]) + earned = total_return
                   /\ monthly + MonthlyChange = unrealised_change
  BY DEF PartsAddUp, Reported
<1> DEFINE D == DOMAIN cgtEvents
           g == Gains(cgtEvents)
           o == [i \in D |-> OpenGainSold(cgtEvents[i])]
           f == [i \in D |-> InWindowGain(cgtEvents[i])]
           kind == [i \in D |-> cgtEvents[i].coin]
           before == {i \in D : cgtEvents[i].sold < month}
           now == {i \in D : cgtEvents[i].sold = month}
<1>0. TypesOK /\ DatesOK /\ WindowOK
  BY DEF IInv
<1>1. IsFiniteSet(D) /\ \A i \in D : g[i] \in Int /\ o[i] \in Int /\ f[i] = g[i] - o[i] /\ kind[i] \in Coins
  <2>1. \A i \in D : /\ cgtEvents[i] \in Event /\ Gain(cgtEvents[i]) \in Int /\ OpenGainSold(cgtEvents[i]) \in Int
    BY <1>0, EventTypes
  <2>2. \A i \in D : cgtEvents[i].coin \in Coins
    BY <2>1 DEF Event
  <2> QED BY <1>0, <2>1, <2>2, EventTypes DEF Gains, InWindowGain
<1>2. \A i \in D : f[i] \in Int /\ g[i] \in Int /\ o[i] \in Int /\ g[i] = f[i] + o[i]
  <2> HIDE DEF D, g, o, f
  <2> QED BY <1>1
<1>3. /\ before \cap now = {} /\ before \cup now = D /\ before \subseteq D /\ now \subseteq D
  <2>1. \A i \in D : cgtEvents[i].sold \in Int /\ cgtEvents[i].sold <= month
    <3>1. \A i \in D : cgtEvents[i] \in Event
      BY <1>0, EventTypes
    <3> QED BY <1>0, <3>1 DEF Event, DatesOK
  <2>2. month \in Int
    BY <1>0 DEF TypesOK
  <2>3. ASSUME NEW i \in D
        PROVE (cgtEvents[i].sold < month \/ cgtEvents[i].sold = month)
              /\ ~(cgtEvents[i].sold < month /\ cgtEvents[i].sold = month)
    BY <2>1, <2>2
  <2> HIDE DEF D
  <2> QED BY <2>3
<1>4. /\ SumOver(D, f) \in Int /\ SumOver(D, g) \in Int /\ SumOver(D, o) \in Int
      /\ SumOver(D, g) = SumOver(D, f) + SumOver(D, o)
  <2> HIDE DEF D, g, o, f
  <2> QED BY <1>1, <1>2, SumInt, SumAdd
<1>5. SumOver(D, o) = SumOver(before, o) + SumOver(now, o) /\ SumOver(before, o) \in Int /\ SumOver(now, o) \in Int
  <2> HIDE DEF D, g, o, f, before, now
  <2>1. IsFiniteSet(before) /\ IsFiniteSet(now)
    BY <1>1, <1>3, FS_Subset
  <2>2. \A i \in before \cup now : o[i] \in Int
    BY <1>2, <1>3
  <2>3. SumOver(before \cup now, o) = SumOver(before, o) + SumOver(now, o)
    BY <1>3, <2>1, <2>2, SumUnion
  <2>4. SumOver(before, o) \in Int /\ SumOver(now, o) \in Int
    <3>1. (\A i \in before : o[i] \in Int) /\ (\A i \in now : o[i] \in Int)
      BY <2>2
    <3> QED BY <2>1, <3>1, SumInt
  <2> QED BY <1>3, <2>3, <2>4
<1>6. NetGain(cgtEvents) = SumOver(D, g) /\ total_realised_gain = SumOver(D, f)
  BY <1>0, EventSums DEF total_realised_gain, AddUp
<1>7. /\ opening.unrealised \in Int /\ Unrealised \in Int /\ lastUnrealised \in Int /\ earned \in Int
      /\ opening.of \in [Coins -> Int] /\ opening.unrealised = SumOver(Coins, opening.of)
      /\ monthly = lastUnrealised - opening.unrealised + SumOver(before, o)
      /\ MonthlyChange = Unrealised - lastUnrealised + SumOver(now, o)
  <2>1. MonthlyChange = Unrealised - lastUnrealised + SumOver(now, o)
    BY DEF MonthlyChange, AddUp
  <2>2. opening.unrealised = SumOver(Coins, opening.of)
        /\ monthly = lastUnrealised - opening.unrealised + SumOver(before, o)
    BY <1>0 DEF WindowOK, AddUp
  <2>3. /\ opening.unrealised \in Int /\ Unrealised \in Int /\ lastUnrealised \in Int /\ earned \in Int
        /\ opening.of \in [Coins -> Int]
    BY <1>0, UnrealisedType DEF TypesOK
  <2> QED BY <2>1, <2>2, <2>3
<1>8. monthly + MonthlyChange = unrealised_change
  <2> HIDE DEF D, g, o, f, before, now
  <2> QED BY <1>4, <1>5, <1>6, <1>7 DEF unrealised_change, total_return
<1>9. SumOver(Coins, [c \in Coins |-> attribution(c)]) = SumOver(D, g) + Unrealised - opening.unrealised
  <2> DEFINE G == [c \in Coins |-> SumOver({i \in D : kind[i] = c}, g)]
             U == [c \in Coins |-> Holding(c).unrealised]
             W == [c \in Coins |-> U[c] - opening.of[c]]
             A == [c \in Coins |-> attribution(c)]
  <2>1. SumOver(Coins, G) = SumOver(D, g)
    <3> HIDE DEF D, g, kind
    <3>1. (\A i \in D : g[i] \in Int) /\ (\A i \in D : kind[i] \in Coins) /\ IsFiniteSet(Coins)
      BY <1>1, ReportsAssumption
    <3> QED BY <1>1, <3>1, SumByKind
  <2>2. \A c \in Coins : U[c] \in Int /\ opening.of[c] \in Int /\ W[c] \in Int /\ U[c] = W[c] + opening.of[c]
    <3>1. \A c \in Coins : U[c] \in Int
      BY <1>0, HoldingTypes
    <3>2. \A c \in Coins : opening.of[c] \in Int
      BY <1>7
    <3>3. \A c \in Coins : W[c] = U[c] - opening.of[c]
      OBVIOUS
    <3> HIDE DEF U, W
    <3> QED BY <3>1, <3>2, <3>3
  <2>3. ASSUME NEW c \in Coins
        PROVE G[c] \in Int /\ A[c] = G[c] + W[c]
    <3> DEFINE E == {i \in D : kind[i] = c}
    <3>1. E = EventsOf(c) /\ E \subseteq D
      BY DEF EventsOf
    <3>2. A[c] = SumOver(E, f) + U[c] - opening.of[c] + SumOver(E, o) /\ W[c] = U[c] - opening.of[c]
      BY <3>1 DEF attribution, AddUp
    <3>3. G[c] = SumOver(E, g)
      OBVIOUS
    <3> HIDE DEF E, D, g, f, o, kind, G, A, W, U
    <3>4. IsFiniteSet(E) /\ \A i \in E : f[i] \in Int /\ o[i] \in Int /\ g[i] = f[i] + o[i]
      BY <1>1, <1>2, <3>1, FS_Subset
    <3>5. SumOver(E, g) = SumOver(E, f) + SumOver(E, o) /\ SumOver(E, f) \in Int /\ SumOver(E, o) \in Int
      BY <3>4, SumAdd, SumInt
    <3>6. U[c] \in Int /\ opening.of[c] \in Int
      BY <2>2
    <3> QED BY <3>2, <3>3, <3>5, <3>6
  <2>4. Unrealised = SumOver(Coins, U)
    BY DEF Unrealised
  <2> HIDE DEF G, U, W, A
  <2>5. SumOver(Coins, U) = SumOver(Coins, W) + SumOver(Coins, opening.of) /\ SumOver(Coins, W) \in Int
    BY <2>2, SumAdd, SumInt, ReportsAssumption
  <2>6. SumOver(Coins, A) = SumOver(Coins, G) + SumOver(Coins, W)
    BY <2>2, <2>3, SumAdd, ReportsAssumption
  <2>7. SumOver(Coins, A) = SumOver(Coins, [c \in Coins |-> attribution(c)])
    BY DEF A
  <2>8. SumOver(Coins, opening.of) \in Int
    BY <1>7
  <2> HIDE DEF D, g
  <2> QED BY <1>4, <1>7, <2>1, <2>4, <2>5, <2>6, <2>7, <2>8
<1>10. SumOver(Coins, [c \in Coins |-> attribution(c)]) + earned = total_return
  <2> HIDE DEF D, g, f, o, before, now
  <2> QED BY <1>4, <1>6, <1>7, <1>9 DEF total_return
<1> QED BY <1>8, <1>10

-----------------------------------------------------------------------------
(* Cost and units, growth, losses to harvest.                              *)

LEMMA UnitsOfHoldings ==
  ASSUME IInv
  PROVE CostCountsHeldUnits
<1> SUFFICES ASSUME NEW c \in Coins, netQty(c) > 0, Outside(c) >= 0
             PROVE Quantity(HoldingLots(c)) = netQty(c)
  BY DEF CostCountsHeldUnits
<1> DEFINE Q == Quantity(heldLots[c])
           n == netQty(c)
<1>0. TypesOK /\ LotsOK
  BY DEF IInv
<1>1. /\ Q \in Nat /\ n \in Int /\ Outside(c) \in Int
      /\ Position(amounts, c) = n + Outside(c) /\ Q >= Position(amounts, c)
  BY <1>0, NetTypes, HoldingTypes DEF LotsOK
<1>2. CASE Q - n > 0
  <2>1. heldLots[c] \in Seq(Lot)
    BY <1>0 DEF TypesOK, Inventories
  <2>2. Q - n \in Nat /\ Least(Q, Q - n) = Q - n /\ Q - (Q - n) = n
    <3> HIDE DEF Q, n
    <3>1. n > 0
      BY DEF n
    <3> QED BY <1>1, <1>2, <3>1 DEF Least
  <2>3. Quantity(consume_fifo(heldLots[c], Q - n).lots) = Q - Least(Q, Q - n)
    BY <2>1, <2>2, Fifo
  <2>4. HoldingLots(c) = consume_fifo(heldLots[c], Q - n).lots
    BY <1>2 DEF HoldingLots
  <2> QED BY <2>2, <2>3, <2>4
<1>3. CASE ~(Q - n > 0)
  <2>1. HoldingLots(c) = heldLots[c]
    BY <1>3 DEF HoldingLots
  <2>2. Q = n
    <3> HIDE DEF Q, n
    <3> QED BY <1>1, <1>3
  <2> QED BY <2>1, <2>2
<1> QED BY <1>2, <1>3

\* No lots have no units and no cost.
LEMMA NothingCostsNothing ==
  ASSUME NEW lots \in Seq(Lot), Quantity(lots) = 0
  PROVE Cost(lots) = 0
<1>1. Len(lots) \in Nat /\ DOMAIN lots = 1 .. Len(lots)
  BY LotTypes
<1>2. Len(lots) = 0
  <2> SUFFICES ASSUME Len(lots) > 0
               PROVE FALSE
    BY <1>1
  <2>1. 0 \in 0 .. Len(lots) /\ Len(lots) \in 0 .. Len(lots)
    BY <1>1
  <2>2. UnitsAt(lots, 1 .. 0) < UnitsAt(lots, 1 .. Len(lots)) /\ UnitsAt(lots, 1 .. 0) = 0
    BY <2>1, UnitsGrow
  <2>3. UnitsAt(lots, 1 .. Len(lots)) = 0
    BY <1>1 DEF Quantity
  <2> QED BY <2>2, <2>3
<1>3. DOMAIN lots = {}
  BY <1>1, <1>2
<1> QED BY <1>3, LotSums, SumEmpty

\* While nothing is on its way and nothing was sold short, the holdings are all the lots.
LEMMA HoldingsAreTheLots ==
  ASSUME TypesOK, LotsOK, ~oversold, ~InTransit
  PROVE /\ holdings_as_of.value - holdings_as_of.unrealised = BookValue
        /\ generate_balances_report_range = holdings_as_of.value
        /\ holdings_as_of.unrealised = Unrealised
        /\ holdings_as_of.value \in Int /\ BookValue \in Int
<1> DEFINE V == [c \in Coins |-> Holding(c).value]
           U == [c \in Coins |-> Holding(c).unrealised]
           K == [c \in Coins |-> Cost(heldLots[c])]
<1>1. ASSUME NEW c \in Coins
      PROVE /\ V[c] \in Int /\ U[c] \in Int /\ K[c] \in Int
            /\ V[c] = U[c] + K[c] /\ V[c] = netQty(c) * price[c]
  <2>1. \A a \in Places : ~Relevant(a) => amounts[a][c] = 0
    BY DEF InTransit
  <2>2. Outside(c) = 0
    <3> DEFINE O == {a \in Places : ~Relevant(a)}
               f == [a \in Places |-> amounts[a][c]]
    <3>1. IsFiniteSet(O) /\ \A a \in O : f[a] = 0
      BY <2>1, ReportsAssumption, FS_Subset
    <3>2. Outside(c) = SumOver(O, f)
      BY DEF Outside
    <3> HIDE DEF O, f
    <3> QED BY <3>1, <3>2, SumZero
  <2> DEFINE Q == Quantity(heldLots[c])
             n == netQty(c)
             k == Cost(heldLots[c])
  <2>3. Q \in Nat /\ k \in Nat /\ n \in Int /\ Q = n
    <3>1. Q \in Nat /\ k \in Nat /\ n \in Int
      BY NetTypes, HoldingTypes
    <3>2. Position(amounts, c) = n + Outside(c) /\ Q = Position(amounts, c)
      BY NetTypes DEF LotsOK
    <3> HIDE DEF Q, n, k
    <3> QED BY <2>2, <3>1, <3>2
  <2>4. HoldingLots(c) = heldLots[c]
    BY <2>3 DEF HoldingLots
  <2>5. n = 0 => k = 0
    <3>1. heldLots[c] \in Seq(Lot)
      BY DEF TypesOK, Inventories
    <3> QED BY <2>3, <3>1, NothingCostsNothing
  <2>6. price[c] \in Nat
    BY PriceTypes
  <2>7. n = 0 => n * price[c] = 0
    BY <2>6
  <2>8. /\ V[c] = n * price[c] /\ V[c] \in Int /\ U[c] \in Int /\ K[c] = k
        /\ U[c] = V[c] - (IF n > 0 THEN k ELSE V[c])
    BY <2>4, HoldingTypes
  <2> HIDE DEF V, U, K, Q, n, k
  <2>9. V[c] = U[c] + K[c] /\ K[c] \in Int
    BY <2>3, <2>5, <2>7, <2>8
  <2> QED BY <2>8, <2>9 DEF n
<1>2. /\ Unrealised = SumOver(Coins, U)
      /\ BookValue = SumOver(Coins, K) + cash
      /\ holdings_as_of.value = SumOver(Coins, V) + cash
      /\ holdings_as_of.unrealised = Unrealised
  BY DEF Unrealised, BookValue, holdings_as_of
<1>3. SumOver(Coins, V) = generate_balances_report_range - cash /\ cash \in Int
      /\ generate_balances_report_range = SumOver(Coins, V) + cash
  <2> DEFINE W == [c \in Coins |-> netQty(c) * price[c]]
  <2>1. generate_balances_report_range = SumOver(Coins, W) + cash
    BY DEF generate_balances_report_range
  <2>2. \A c \in Coins : V[c] \in Int /\ V[c] = W[c]
    BY <1>1
  <2> HIDE DEF V, W
  <2>3. SumOver(Coins, V) = SumOver(Coins, W) /\ SumOver(Coins, V) \in Int
    BY <2>2, SumEqual, SumInt, ReportsAssumption
  <2>4. cash \in Int
    BY DEF cash, TypesOK, AmountsOK
  <2> QED BY <2>1, <2>3, <2>4
<1> HIDE DEF V, U, K
<1>4. /\ SumOver(Coins, V) = SumOver(Coins, U) + SumOver(Coins, K)
      /\ SumOver(Coins, U) \in Int /\ SumOver(Coins, K) \in Int
  BY <1>1, SumAdd, SumInt, ReportsAssumption
<1> QED BY <1>2, <1>3, <1>4

LEMMA GrowthOfReturn ==
  ASSUME IInv
  PROVE ReturnIsGrowth
<1> SUFFICES ASSUME InWindow, ~oversold, ~opening.transit, ~InTransit
             PROVE total_return = generate_balances_report_range - opening.value - putIn + mispriced
  BY DEF ReturnIsGrowth, Reported
<1>1. TypesOK /\ DatesOK /\ LotsOK /\ BookOK
  BY DEF IInv
<1>2. /\ generate_balances_report_range - Unrealised = BookValue
      /\ generate_balances_report_range \in Int /\ BookValue \in Int
  BY <1>1, HoldingsAreTheLots
<1>3. NetGain(cgtEvents) + earned = BookValue - (opening.value - opening.unrealised) - putIn + mispriced
  BY <1>1, EventSums DEF BookOK
<1>4. /\ NetGain(cgtEvents) \in Int /\ earned \in Int /\ opening.value \in Int /\ opening.unrealised \in Int
      /\ putIn \in Int /\ mispriced \in Int /\ Unrealised \in Int
  BY <1>1, EventSums, UnrealisedType DEF TypesOK
<1>5. total_return = NetGain(cgtEvents) + earned + Unrealised - opening.unrealised
  BY DEF total_return
<1> QED BY <1>2, <1>3, <1>4, <1>5

\* Losses realised on top of those of the year are set off as the year's own are.
LEMMA SetOff ==
  ASSUME NEW short \in Nat, NEW long \in Nat, NEW losses \in Nat, NEW loss \in Nat
  PROVE taxable_reduction(short, long, losses, loss)
          = Discounted(short, long, losses) - Discounted(short, long, losses + loss)
<1> DEFINE s1 == Most(short - losses, 0)
           s2 == Most(short - (losses + loss), 0)
           l1 == Most(long - Most(losses - short, 0), 0)
           l2 == Most(long - Most((losses + loss) - short, 0), 0)
           k == 100 - DiscountPercent
           offShort == OffsetShort(short, long, losses, loss)
           offLong == OffsetLong(short, long, losses, loss)
<1>1. s1 \in Int /\ s2 \in Int /\ l1 \in Int /\ l2 \in Int /\ offShort = s1 - s2
  BY DEF Most, Least, OffsetShort
<1>2. offLong = l1 - l2
  <2>1. offLong = Least(loss - offShort, l1)
    BY DEF OffsetLong
  <2>2. offShort = IF loss < s1 THEN loss ELSE s1
    BY DEF OffsetShort, Least
  <2> HIDE DEF offShort, offLong
  <2> QED BY <2>1, <2>2 DEF Most, Least
<1>3. k \in Int
  BY ReportsAssumption
<1>4. /\ Discounted(short, long, losses) = 100 * s1 + k * l1
      /\ Discounted(short, long, losses + loss) = 100 * s2 + k * l2
      /\ taxable_reduction(short, long, losses, loss) = 100 * offShort + k * offLong
  BY DEF Discounted, taxable_reduction
<1> HIDE DEF s1, s2, l1, l2, k, offShort, offLong
<1>5. k * (l1 - l2) = k * l1 - k * l2 /\ k * l1 \in Int /\ k * l2 \in Int
  BY <1>1, <1>3
<1> QED BY <1>1, <1>2, <1>4, <1>5

LEMMA HarvestSaves ==
  ASSUME IInv
  PROVE HarvestIsWhatItSaves
<1>1. TypesOK /\ DatesOK
  BY DEF IInv
<1>2. total_realisable_loss \in Nat
  <2> DEFINE S == {c \in Coins : netQty(c) > 0 /\ Holding(c).unrealised < 0}
             f == [c \in Coins |-> -Holding(c).unrealised]
  <2>1. IsFiniteSet(S)
    BY ReportsAssumption, FS_Subset
  <2>2. \A c \in S : f[c] \in Nat
    BY <1>1, HoldingTypes
  <2>3. total_realisable_loss = SumOver(S, f)
    BY DEF total_realisable_loss
  <2> HIDE DEF S, f
  <2> QED BY <2>1, <2>2, <2>3, SumNat
<1> QED BY <1>1, <1>2, EventSums, SetOff DEF HarvestIsWhatItSaves

-----------------------------------------------------------------------------
(* The initial states.                                                     *)

LEMMA NoLots ==
  /\ <<>> \in Seq(Lot) /\ Quantity(<<>>) = 0 /\ Cost(<<>>) = 0 /\ DOMAIN <<>> = {}
<1>1. DOMAIN <<>> = {} /\ <<>> \in Seq(Lot)
  BY EmptySeq
<1>2. Quantity(<<>>) = SumOver({}, Qtys(<<>>)) /\ Cost(<<>>) = SumOver({}, Costs(<<>>))
  BY <1>1, LotSums
<1> QED BY <1>1, <1>2, SumEmpty

LEMMA InitIInv ==
  ReportsInit => IInv
<1> SUFFICES ASSUME ReportsInit
             PROVE IInv
  OBVIOUS
<1>1. /\ OpenMonth \in Nat /\ MaxMonth \in Nat /\ MaxTxns \in Nat /\ Bank \notin Places
      /\ month = 0 /\ txns = 0 /\ price \in Quoted
      /\ gainLots = [c \in Coins |-> <<>>] /\ heldLots = gainLots
      /\ amounts = [a \in Places \cup {Bank} |-> IF a = Bank THEN 0 ELSE [c \in Coins |-> 0]]
      /\ cgtEvents = <<>> /\ earned = 0 /\ lastUnrealised = 0 /\ monthly = 0
      /\ putIn = 0 /\ mispriced = 0 /\ oversold = FALSE
  BY ReportsAssumption DEF ReportsInit
<1>2. ~InWindow
  BY <1>1 DEF InWindow
<1>3. AmountsOK(amounts)
  <2>1. amounts[Bank] = 0 /\ \A a \in Places : amounts[a] = [c \in Coins |-> 0]
    BY <1>1
  <2>2. amounts = [a \in Places \cup {Bank} |-> amounts[a]]
    BY <1>1
  <2> QED BY <2>1, <2>2 DEF AmountsOK
<1>4. gainLots \in Inventories /\ cgtEvents \in Seq(Event) /\ DOMAIN cgtEvents = {}
  BY <1>1, NoLots, EmptySeq DEF Inventories
<1>5. TypesOK
  <2>1. month \in 0 .. MaxMonth /\ txns \in 0 .. MaxTxns /\ heldLots \in Inventories
    BY <1>1, <1>4
  <2>2. earned \in Nat /\ lastUnrealised \in Int /\ monthly \in Int /\ putIn \in Int /\ mispriced \in Int
    BY <1>1
  <2>4. oversold \in BOOLEAN
    BY <1>1
  <2>3. price \in Quoted
    BY <1>1
  <2> QED BY <1>2, <1>3, <1>4, <2>1, <2>2, <2>3, <2>4 DEF TypesOK
<1>6. DatesOK
  BY <1>1, <1>4, NoLots DEF DatesOK
<1>7. LotsOK
  <2>1. ASSUME NEW c \in Coins
        PROVE Quantity(heldLots[c]) = 0 /\ Position(amounts, c) = 0
    <3> DEFINE f == [a \in Places |-> amounts[a][c]]
    <3>1. \A a \in Places : f[a] = 0
      BY <1>1
    <3>2. Position(amounts, c) = SumOver(Places, f)
      BY DEF Position
    <3> HIDE DEF f
    <3>3. Position(amounts, c) = 0
      BY <3>1, <3>2, SumZero, ReportsAssumption
    <3>4. heldLots[c] = <<>>
      BY <1>1
    <3> QED BY <3>3, <3>4, NoLots
  <2>2. 0 >= 0
    OBVIOUS
  <2>3. gainLots = heldLots
    BY <1>1
  <2> QED BY <2>1, <2>2, <2>3 DEF LotsOK
<1>8. WindowOK /\ BookOK
  BY <1>1, <1>2 DEF WindowOK, BookOK
<1> QED BY <1>5, <1>6, <1>7, <1>8 DEF IInv

-----------------------------------------------------------------------------
(* What a leg does.                                                        *)

TradeLeg == [at : Traders \cup Partners, coin : Coins, qty : Nat \ {0}, each : Nat]
SomeLeg(legs) == legs = {} \/ \E l \in TradeLeg : legs = {l}
UnitsOf(legs, c) == IF Concerns(legs, c) THEN TheLeg(legs).qty ELSE 0
CostTaken(lots, legs) ==
  IF legs = {} THEN 0 ELSE Cost(consume_fifo(lots[TheLeg(legs).coin], TheLeg(legs).qty).taken)
CostOf(lots) == SumOver(Coins, [c \in Coins |-> Cost(lots[c])])

LEMMA LegTypes ==
  ASSUME NEW l \in TradeLeg
  PROVE /\ l.at \in Places /\ l.at # Bank /\ Relevant(l.at) /\ l.at \in Scope /\ l.coin \in Coins
        /\ l.qty \in Nat \ {0} /\ l.each \in Nat
        /\ TheLeg({l}) = l /\ {l} # {}
        /\ \A c : Concerns({l}, c) <=> c = l.coin
        /\ \A c : UnitsOf({l}, c) = IF c = l.coin THEN l.qty ELSE 0
        /\ Worth({l}) = l.qty * l.each
<1>1. l.at \in Traders \cup Partners /\ l.coin \in Coins /\ l.qty \in Nat \ {0} /\ l.each \in Nat
  BY DEF TradeLeg
<1>2. l.at \in Places /\ l.at # Bank /\ l.at \in Scope /\ Relevant(l.at)
  BY <1>1, ReportsAssumption, CountedAssumption DEF Relevant
<1>3. TheLeg({l}) = l /\ {l} # {}
  <2>1. \E x \in {l} : TRUE
    OBVIOUS
  <2>2. (CHOOSE x \in {l} : TRUE) \in {l}
    BY <2>1
  <2> QED BY <2>2 DEF TheLeg
<1>4. \A c : Concerns({l}, c) <=> c = l.coin
  BY DEF Concerns
<1> QED BY <1>1, <1>2, <1>3, <1>4 DEF UnitsOf, Worth

LEMMA NoLeg ==
  /\ \A c : ~Concerns({}, c) /\ UnitsOf({}, c) = 0
  /\ Worth({}) = 0 /\ \A lots : CostTaken(lots, {}) = 0
BY DEF Concerns, UnitsOf, Worth, CostTaken

LEMMA CostsOfCoins ==
  ASSUME NEW lots \in Inventories
  PROVE /\ \A c \in Coins : lots[c] \in Seq(Lot) /\ Cost(lots[c]) \in Nat /\ Quantity(lots[c]) \in Nat
        /\ CostOf(lots) \in Int
<1>1. \A c \in Coins : lots[c] \in Seq(Lot)
  BY DEF Inventories
<1>2. \A c \in Coins : Cost(lots[c]) \in Nat /\ Quantity(lots[c]) \in Nat
  <2>1. 0 \in Nat
    OBVIOUS
  <2> QED BY <1>1, <2>1, Fifo
<1> DEFINE f == [c \in Coins |-> Cost(lots[c])]
<1>3. \A c \in Coins : f[c] \in Int
  BY <1>2
<1>4. CostOf(lots) = SumOver(Coins, f)
  BY DEF CostOf
<1> HIDE DEF f
<1> QED BY <1>1, <1>2, <1>3, <1>4, SumInt, ReportsAssumption

\* Lots of one coin changed.
LEMMA CostChanged ==
  ASSUME NEW lots \in Inventories, NEW after \in Inventories, NEW c \in Coins,
         \A d \in Coins : d # c => after[d] = lots[d]
  PROVE CostOf(after) = CostOf(lots) - Cost(lots[c]) + Cost(after[c])
<1> DEFINE f == [d \in Coins |-> Cost(lots[d])]
           g == [d \in Coins |-> Cost(after[d])]
<1>1. \A d \in Coins : f[d] \in Int /\ g[d] \in Int
  BY CostsOfCoins
<1>2. \A d \in Coins : d # c => g[d] = f[d]
  OBVIOUS
<1>3. CostOf(lots) = SumOver(Coins, f) /\ CostOf(after) = SumOver(Coins, g)
  BY DEF CostOf
<1>4. f[c] = Cost(lots[c]) /\ g[c] = Cost(after[c])
  OBVIOUS
<1> HIDE DEF f, g
<1> QED BY <1>1, <1>2, <1>3, <1>4, SumChanged, ReportsAssumption

LEMMA ConsumeOK ==
  ASSUME NEW lots \in Inventories, NEW legs, SomeLeg(legs)
  PROVE LET after == Consume(lots, legs)
        IN /\ after \in Inventories
           /\ \A c \in Coins : Quantity(after[c]) = Quantity(lots[c]) - Least(Quantity(lots[c]), UnitsOf(legs, c))
           /\ \A c \in Coins : \A i \in DOMAIN after[c] : \E j \in DOMAIN lots[c] : after[c][i].got = lots[c][j].got
           /\ CostOf(after) = CostOf(lots) - CostTaken(lots, legs)
<1> DEFINE after == Consume(lots, legs)
<1>0. lots = [c \in Coins |-> lots[c]] /\ \A c \in Coins : lots[c] \in Seq(Lot) /\ Quantity(lots[c]) \in Nat
  BY CostsOfCoins DEF Inventories
<1>1. CASE legs = {}
  <2>1. after = lots
    BY <1>0, <1>1, NoLeg DEF Consume
  <2>2. \A c \in Coins : Least(Quantity(lots[c]), 0) = 0 /\ Quantity(lots[c]) \in Nat
    BY <1>0 DEF Least
  <2>3. CostOf(lots) \in Int /\ CostOf(lots) = CostOf(lots) - 0
    BY CostsOfCoins
  <2> QED BY <1>1, <2>1, <2>2, <2>3, NoLeg
<1>2. ASSUME NEW l \in TradeLeg, legs = {l}
      PROVE /\ after \in Inventories
            /\ \A c \in Coins : Quantity(after[c]) = Quantity(lots[c]) - Least(Quantity(lots[c]), UnitsOf(legs, c))
            /\ \A c \in Coins : \A i \in DOMAIN after[c] : \E j \in DOMAIN lots[c] : after[c][i].got = lots[c][j].got
            /\ CostOf(after) = CostOf(lots) - CostTaken(lots, legs)
  <2> DEFINE r == consume_fifo(lots[l.coin], l.qty)
  <2>0. l.coin \in Coins /\ l.qty \in Nat /\ TheLeg(legs) = l /\ (\A c : Concerns(legs, c) <=> c = l.coin)
        /\ (\A c : UnitsOf(legs, c) = IF c = l.coin THEN l.qty ELSE 0) /\ CostTaken(lots, legs) = Cost(r.taken)
    BY <1>2, LegTypes DEF CostTaken
  <2>1. after = [c \in Coins |-> IF c = l.coin THEN r.lots ELSE lots[c]]
    BY <2>0 DEF Consume
  <2>2. /\ r.lots \in Seq(Lot) /\ r.taken \in Seq(Lot)
        /\ Quantity(r.lots) = Quantity(lots[l.coin]) - Least(Quantity(lots[l.coin]), l.qty)
        /\ Cost(r.lots) + Cost(r.taken) = Cost(lots[l.coin])
        /\ \A i \in DOMAIN r.lots : \E j \in DOMAIN lots[l.coin] : r.lots[i].got = lots[l.coin][j].got
        /\ Cost(r.taken) \in Nat
    <3> DEFINE was == lots[l.coin]
    <3>1. was \in Seq(Lot) /\ l.qty \in Nat
      BY <1>0, <2>0
    <3> HIDE DEF was
    <3>2. /\ r.lots \in Seq(Lot) /\ r.taken \in Seq(Lot)
          /\ Quantity(r.lots) = Quantity(was) - Least(Quantity(was), l.qty)
          /\ Cost(r.lots) + Cost(r.taken) = Cost(was) /\ Cost(r.taken) \in Nat
          /\ \A i \in 1 .. Len(r.lots) : \E j \in 1 .. Len(was) : r.lots[i].got = was[j].got
      BY <3>1, Fifo DEF was
    <3>3. DOMAIN r.lots = 1 .. Len(r.lots) /\ DOMAIN was = 1 .. Len(was)
      BY <3>1, <3>2, LotTypes
    <3> HIDE DEF r
    <3>4. \A i \in DOMAIN r.lots : \E j \in DOMAIN was : r.lots[i].got = was[j].got
      BY <3>2, <3>3
    <3> QED BY <3>2, <3>4 DEF was
  <2> HIDE DEF r
  <2>3. /\ after \in Inventories /\ after[l.coin] = r.lots
        /\ \A c \in Coins : c # l.coin => after[c] = lots[c]
    BY <1>0, <2>0, <2>1, <2>2 DEF Inventories
  <2> HIDE DEF after
  <2>4. CostOf(after) = CostOf(lots) - CostTaken(lots, legs)
    <3>1. CostOf(after) = CostOf(lots) - Cost(lots[l.coin]) + Cost(r.lots)
      BY <2>0, <2>3, CostChanged
    <3>2. CostOf(lots) \in Int /\ Cost(lots[l.coin]) \in Int /\ Cost(r.lots) \in Int
      BY <2>0, <2>3, CostsOfCoins
    <3>3. Cost(r.taken) \in Int
      BY <2>2
    <3> QED BY <2>0, <2>2, <3>1, <3>2, <3>3
  <2>5. \A c \in Coins : c # l.coin => Quantity(lots[c]) = Quantity(lots[c]) - Least(Quantity(lots[c]), 0)
    BY <1>0 DEF Least
  <2> QED BY <2>0, <2>2, <2>3, <2>4, <2>5
<1> QED BY <1>1, <1>2 DEF SomeLeg

Dated(lots) == \A i \in DOMAIN lots : lots[i].got <= month

LEMMA LotsConcat ==
  ASSUME NEW s \in Seq(Lot), NEW t \in Seq(Lot)
  PROVE /\ s \o t \in Seq(Lot)
        /\ Quantity(s \o t) = Quantity(s) + Quantity(t)
        /\ Cost(s \o t) = Cost(s) + Cost(t)
        /\ Dated(s) /\ Dated(t) => Dated(s \o t)
<1> DEFINE u == s \o t
<1>m. PICK m \in Nat : m = Len(s)
  BY LotTypes
<1>n. PICK n \in Nat : n = Len(t)
  BY LotTypes
<1>1. u \in Seq(Lot) /\ Len(u) = m + n
      /\ \A i \in 1 .. m + n : u[i] = IF i <= m THEN s[i] ELSE t[i - m]
  BY <1>m, <1>n, ConcatProperties
<1>2. /\ m \in Nat /\ n \in Nat /\ DOMAIN s = 1 .. m /\ DOMAIN t = 1 .. n /\ DOMAIN u = 1 .. m + n
      /\ \A i \in 1 .. m : Qtys(s)[i] = s[i].qty /\ Costs(s)[i] = s[i].qty * s[i].cost
      /\ \A i \in 1 .. n : Qtys(t)[i] = t[i].qty /\ Costs(t)[i] = t[i].qty * t[i].cost
      /\ \A i \in 1 .. m : Qtys(s)[i] \in Int /\ Costs(s)[i] \in Int
      /\ \A i \in 1 .. n : Qtys(t)[i] \in Int /\ Costs(t)[i] \in Int
  <2>1. DOMAIN u = 1 .. m + n
    <3> HIDE DEF u
    <3> QED BY <1>1, LotTypes
  <2>2. /\ m \in Nat /\ DOMAIN s = 1 .. m
        /\ \A i \in 1 .. m : Qtys(s)[i] = s[i].qty /\ Costs(s)[i] = s[i].qty * s[i].cost
    BY <1>m, <1>n, LotTypes
  <2>3. \A i \in 1 .. m : Qtys(s)[i] \in Int /\ Costs(s)[i] \in Int
    <3> TAKE i \in 1 .. m
    <3>1. Qtys(s)[i] = s[i].qty /\ s[i].qty \in Nat \ {0} /\ Costs(s)[i] \in Nat
      BY <1>m, <1>n, LotTypes
    <3> QED BY <3>1
  <2>4. /\ n \in Nat /\ DOMAIN t = 1 .. n
        /\ \A i \in 1 .. n : Qtys(t)[i] = t[i].qty /\ Costs(t)[i] = t[i].qty * t[i].cost
    BY <1>m, <1>n, LotTypes
  <2>5. \A i \in 1 .. n : Qtys(t)[i] \in Int /\ Costs(t)[i] \in Int
    <3> TAKE i \in 1 .. n
    <3>1. Qtys(t)[i] = t[i].qty /\ t[i].qty \in Nat \ {0} /\ Costs(t)[i] \in Nat
      BY <1>m, <1>n, LotTypes
    <3> QED BY <3>1
  <2> HIDE DEF u
  <2> QED BY <2>1, <2>2, <2>3, <2>4, <2>5
<1>3. /\ \A i \in 1 .. m : u[i] = s[i] /\ i \in 1 .. m + n
      /\ \A i \in 1 .. n : u[m + i] = t[i] /\ m + i \in 1 .. m + n
  <2> HIDE DEF u
  <2>1. \A i \in 1 .. m : i \in 1 .. m + n /\ i <= m
    BY <1>2
  <2>2. \A i \in 1 .. n : m + i \in 1 .. m + n /\ ~(m + i <= m) /\ (m + i) - m = i
    BY <1>2
  <2> QED BY <1>1, <2>1, <2>2
<1> HIDE DEF u
<1>4. /\ \A i \in 1 .. m : Qtys(u)[i] = Qtys(s)[i] /\ Costs(u)[i] = Costs(s)[i]
      /\ \A i \in 1 .. n : Qtys(u)[m + i] = Qtys(t)[i] /\ Costs(u)[m + i] = Costs(t)[i]
  <2>1. \A i \in 1 .. m + n : Qtys(u)[i] = u[i].qty /\ Costs(u)[i] = u[i].qty * u[i].cost
    BY <1>2 DEF Qtys, Costs
  <2>2. ASSUME NEW i \in 1 .. m
        PROVE Qtys(u)[i] = Qtys(s)[i] /\ Costs(u)[i] = Costs(s)[i]
    BY <1>2, <1>3, <2>1
  <2>3. ASSUME NEW i \in 1 .. n
        PROVE Qtys(u)[m + i] = Qtys(t)[i] /\ Costs(u)[m + i] = Costs(t)[i]
    <3>1. u[m + i] = t[i] /\ m + i \in 1 .. m + n
      BY <1>3
    <3>2. Qtys(u)[m + i] = t[i].qty /\ Costs(u)[m + i] = t[i].qty * t[i].cost
      BY <2>1, <3>1
    <3> QED BY <1>2, <3>2
  <2> QED BY <2>2, <2>3
<1>5. /\ SumOver(1 .. m + n, Qtys(u)) = SumOver(1 .. m, Qtys(s)) + SumOver(1 .. n, Qtys(t))
      /\ SumOver(1 .. m + n, Costs(u)) = SumOver(1 .. m, Costs(s)) + SumOver(1 .. n, Costs(t))
  <2>0. m \in Nat /\ n \in Nat
    BY <1>2
  <2>1. ASSUME NEW f, NEW g, NEW h, \A i \in 1 .. m : f[i] \in Int /\ h[i] = f[i],
               \A i \in 1 .. n : g[i] \in Int /\ h[m + i] = g[i]
        PROVE SumOver(1 .. m + n, h) = SumOver(1 .. m, f) + SumOver(1 .. n, g)
    <3>0. m \in Nat /\ n \in Nat
      BY <1>m, <1>n
    <3>1. \A i \in 1 .. m : f[i] \in Int /\ h[i] = f[i]
      BY <2>1
    <3>2. \A i \in 1 .. n : g[i] \in Int /\ h[m + i] = g[i]
      BY <2>1
    <3> QED BY <3>0, <3>1, <3>2, SumConcat, SMTT(60)
  <2> DEFINE f == Qtys(s)
             g == Qtys(t)
             h == Qtys(u)
             j == Costs(s)
             k == Costs(t)
             p == Costs(u)
  <2>2. /\ \A i \in 1 .. m : f[i] \in Int /\ h[i] = f[i] /\ j[i] \in Int /\ p[i] = j[i]
        /\ \A i \in 1 .. n : g[i] \in Int /\ h[m + i] = g[i] /\ k[i] \in Int /\ p[m + i] = k[i]
    BY <1>2, <1>4
  <2> HIDE DEF f, g, h, j, k, p
  <2>3. SumOver(1 .. m + n, h) = SumOver(1 .. m, f) + SumOver(1 .. n, g)
    BY <2>0, <2>1, <2>2
  <2>4. SumOver(1 .. m + n, p) = SumOver(1 .. m, j) + SumOver(1 .. n, k)
    BY <2>0, <2>1, <2>2
  <2> QED BY <2>3, <2>4 DEF f, g, h, j, k, p
<1>6. Quantity(u) = Quantity(s) + Quantity(t) /\ Cost(u) = Cost(s) + Cost(t)
  BY <1>2, <1>5, LotSums
<1>7. Dated(s) /\ Dated(t) => Dated(u)
  <2> SUFFICES ASSUME Dated(s), Dated(t), NEW i \in 1 .. m + n
               PROVE u[i].got <= month
    BY <1>2 DEF Dated
  <2>1. u[i] = IF i <= m THEN s[i] ELSE t[i - m]
    BY <1>1
  <2>2. (i <= m => i \in 1 .. m) /\ (~(i <= m) => i - m \in 1 .. n)
    BY <1>2
  <2> QED BY <1>2, <2>1, <2>2 DEF Dated
<1> QED BY <1>1, <1>6, <1>7 DEF u

LEMMA OneLot ==
  ASSUME NEW x \in Lot
  PROVE /\ <<x>> \in Seq(Lot) /\ Quantity(<<x>>) = x.qty /\ Cost(<<x>>) = x.qty * x.cost
        /\ DOMAIN <<x>> = {1} /\ <<x>>[1] = x
<1> DEFINE s == <<x>>
<1>1. s \in Seq(Lot) /\ Len(s) = 1 /\ s[1] = x
  OBVIOUS
<1> HIDE DEF s
<1>2. /\ DOMAIN s = {1} /\ Qtys(s)[1] = x.qty /\ Costs(s)[1] = x.qty * x.cost
      /\ Qtys(s)[1] \in Int /\ Costs(s)[1] \in Int
  <2>1. 1 .. 1 = {1} /\ 1 \in 1 .. 1
    OBVIOUS
  <2>2. /\ DOMAIN s = 1 .. Len(s)
        /\ \A i \in 1 .. Len(s) : /\ Qtys(s)[i] = s[i].qty /\ Costs(s)[i] = s[i].qty * s[i].cost
                                  /\ s[i].qty \in Nat /\ Costs(s)[i] \in Nat
    BY <1>1, LotTypes
  <2>3. DOMAIN s = {1}
    BY <1>1, <2>1, <2>2
  <2>4. Qtys(s)[1] = s[1].qty /\ Costs(s)[1] = s[1].qty * s[1].cost /\ s[1].qty \in Nat /\ Costs(s)[1] \in Nat
    BY <1>1, <2>1, <2>2
  <2> QED BY <1>1, <2>3, <2>4
<1>3. Quantity(s) = x.qty /\ Cost(s) = x.qty * x.cost
  BY <1>2, LotSums, SumOne
<1> QED BY <1>1, <1>2, <1>3 DEF s

LEMMA AcquireOK ==
  ASSUME NEW lots \in Inventories, NEW legs, SomeLeg(legs), month \in Nat
  PROVE LET after == Acquire(lots, legs)
        IN /\ after \in Inventories
           /\ \A c \in Coins : Quantity(after[c]) = Quantity(lots[c]) + UnitsOf(legs, c)
           /\ \A c \in Coins : Dated(lots[c]) => Dated(after[c])
           /\ CostOf(after) = CostOf(lots) + Worth(legs)
<1> DEFINE after == Acquire(lots, legs)
<1>0. lots = [c \in Coins |-> lots[c]] /\ \A c \in Coins : lots[c] \in Seq(Lot) /\ Quantity(lots[c]) \in Nat
  BY CostsOfCoins DEF Inventories
<1>1. CASE legs = {}
  <2>1. after = lots
    BY <1>0, <1>1, NoLeg DEF Acquire
  <2>2. \A c \in Coins : Quantity(lots[c]) = Quantity(lots[c]) + 0
    BY <1>0
  <2>3. CostOf(lots) = CostOf(lots) + 0
    BY CostsOfCoins
  <2> QED BY <1>1, <2>1, <2>2, <2>3, NoLeg
<1>2. ASSUME NEW l \in TradeLeg, legs = {l}
      PROVE /\ after \in Inventories
            /\ \A c \in Coins : Quantity(after[c]) = Quantity(lots[c]) + UnitsOf(legs, c)
            /\ \A c \in Coins : Dated(lots[c]) => Dated(after[c])
            /\ CostOf(after) = CostOf(lots) + Worth(legs)
  <2> DEFINE x == [qty |-> l.qty, cost |-> l.each, got |-> month]
             was == lots[l.coin]
             is == Append(was, x)
  <2>0. /\ l.coin \in Coins /\ TheLeg(legs) = l /\ (\A c : Concerns(legs, c) <=> c = l.coin)
        /\ (\A c : UnitsOf(legs, c) = IF c = l.coin THEN l.qty ELSE 0) /\ Worth(legs) = l.qty * l.each
    BY <1>2, LegTypes
  <2>1. x \in Lot /\ x.qty = l.qty /\ x.cost = l.each /\ x.got = month
    BY LegTypes DEF Lot
  <2>2. after = [c \in Coins |-> IF c = l.coin THEN is ELSE lots[c]]
    BY <2>0 DEF Acquire
  <2>3. was \in Seq(Lot) /\ Quantity(was) \in Nat /\ Cost(was) \in Nat
    BY <2>0, CostsOfCoins
  <2>4. is = was \o <<x>>
    <3> HIDE DEF x, was
    <3> QED BY <2>1, <2>3, AppendIsConcat
  <2>5. Dated(<<x>>)
    <3>1. DOMAIN <<x>> = {1} /\ <<x>>[1].got = month /\ month <= month
      <4> HIDE DEF x
      <4> QED BY <2>1, OneLot
    <3> QED BY <3>1 DEF Dated
  <2> HIDE DEF x, was, is
  <2>6. /\ is \in Seq(Lot) /\ Quantity(is) = Quantity(was) + l.qty /\ Cost(is) = Cost(was) + l.qty * l.each
        /\ Dated(was) => Dated(is)
    <3> DEFINE s == <<x>>
    <3>1. s \in Seq(Lot) /\ Quantity(s) = l.qty /\ Cost(s) = l.qty * l.each /\ Dated(s) /\ is = was \o s
      BY <2>1, <2>4, <2>5, OneLot
    <3> HIDE DEF s
    <3>2. /\ was \o s \in Seq(Lot) /\ Quantity(was \o s) = Quantity(was) + Quantity(s)
          /\ Cost(was \o s) = Cost(was) + Cost(s) /\ (Dated(was) /\ Dated(s) => Dated(was \o s))
      BY <2>3, <3>1, LotsConcat
    <3> QED BY <3>1, <3>2
  <2>7. after \in Inventories /\ after[l.coin] = is /\ \A c \in Coins : c # l.coin => after[c] = lots[c]
    BY <1>0, <2>0, <2>2, <2>6 DEF Inventories
  <2> HIDE DEF after
  <2>8. CostOf(after) = CostOf(lots) + Worth(legs)
    <3>1. CostOf(after) = CostOf(lots) - Cost(was) + Cost(is)
      BY <2>0, <2>7, CostChanged DEF was
    <3>2. CostOf(lots) \in Int /\ l.qty * l.each \in Int
      <4>1. \A i, j \in Nat : i * j \in Int
        OBVIOUS
      <4>2. l.qty \in Nat /\ l.each \in Nat
        BY LegTypes
      <4> QED BY <4>1, <4>2, CostsOfCoins
    <3> QED BY <2>0, <2>3, <2>6, <3>1, <3>2
  <2>9. \A c \in Coins : c # l.coin => Quantity(lots[c]) = Quantity(lots[c]) + 0
    BY <1>0
  <2> QED BY <2>0, <2>6, <2>7, <2>8, <2>9 DEF was
<1> QED BY <1>1, <1>2 DEF SomeLeg

Moved(am, a, c, n) == [am EXCEPT ![a][c] = @ + n]

LEMMA PostingOK ==
  ASSUME NEW am, AmountsOK(am), NEW a \in Places, NEW c \in Coins, NEW n \in Int
  PROVE LET after == Moved(am, a, c, n)
        IN /\ AmountsOK(after) /\ after[Bank] = am[Bank]
           /\ \A d \in Coins : Position(after, d) = Position(am, d) + (IF d = c THEN n ELSE 0)
           /\ \A d \in Coins : Position(am, d) \in Int
<1> DEFINE after == [am EXCEPT ![a][c] = @ + n]
<1>0. ASSUME NEW d \in Coins
      PROVE Position(am, d) \in Int
  <2> DEFINE f == [b \in Places |-> am[b][d]]
  <2>1. \A b \in Places : f[b] \in Int
    BY DEF AmountsOK
  <2>2. Position(am, d) = SumOver(Places, f)
    BY DEF Position
  <2> HIDE DEF f
  <2> QED BY <2>1, <2>2, SumInt, ReportsAssumption
<1>1. a # Bank
  BY ReportsAssumption
<1>3. after = [b \in Places \cup {Bank} |-> IF b = a THEN [am[b] EXCEPT ![c] = @ + n] ELSE am[b]]
  BY <1>1 DEF AmountsOK
<1>4. am[a] \in [Coins -> Int] /\ am[a][c] \in Int
  BY DEF AmountsOK
<1>5. after[a] = [d \in Coins |-> IF d = c THEN am[a][d] + n ELSE am[a][d]]
  BY <1>3, <1>4
<1>6. after[Bank] = am[Bank] /\ \A b \in Places : b # a => after[b] = am[b]
  BY <1>1, <1>3
<1>7. AmountsOK(after)
  <2>1. after = [b \in Places \cup {Bank} |-> after[b]]
    BY <1>3
  <2>2. after[a] \in [Coins -> Int]
    <3>1. \A d \in Coins : am[a][d] \in Int /\ am[a][d] + n \in Int
      BY <1>4
    <3> QED BY <1>5, <3>1
  <2> HIDE DEF after
  <2> QED BY <1>6, <2>1, <2>2 DEF AmountsOK
<1> HIDE DEF after
<1>8. ASSUME NEW d \in Coins
      PROVE Position(after, d) = Position(am, d) + (IF d = c THEN n ELSE 0)
  <2> DEFINE f == [b \in Places |-> am[b][d]]
             g == [b \in Places |-> after[b][d]]
  <2>1. (\A b \in Places : f[b] \in Int) /\ g[a] \in Int
    BY <1>7 DEF AmountsOK
  <2>2. \A b \in Places : b # a => g[b] = f[b]
    BY <1>6
  <2>3. Position(am, d) = SumOver(Places, f) /\ Position(after, d) = SumOver(Places, g)
    BY DEF Position
  <2>4. g[a] = f[a] + (IF d = c THEN n ELSE 0)
    <3>1. g[a] = IF d = c THEN f[a] + n ELSE f[a]
      BY <1>5
    <3>2. f[a] \in Int
      BY <2>1
    <3> HIDE DEF f, g
    <3> QED BY <3>1, <3>2
  <2> HIDE DEF f, g
  <2>5. SumOver(Places, g) = SumOver(Places, f) - f[a] + g[a]
    BY <2>1, <2>2, SumChanged, ReportsAssumption
  <2>6. f[a] \in Int /\ SumOver(Places, f) \in Int
    BY <1>0, <2>1, <2>3
  <2>7. SumOver(Places, g) = SumOver(Places, f) + (IF d = c THEN n ELSE 0)
    BY <2>4, <2>5, <2>6
  <2> QED BY <2>3, <2>7
<1> QED BY <1>0, <1>6, <1>7, <1>8 DEF after, Moved

LEMMA PostedOK ==
  ASSUME NEW am, AmountsOK(am), NEW legs, SomeLeg(legs), NEW sign \in Int
  PROVE LET after == Posted(am, legs, sign)
        IN /\ AmountsOK(after) /\ after[Bank] = am[Bank]
           /\ \A c \in Coins : Position(after, c) = Position(am, c) + sign * UnitsOf(legs, c)
           /\ \A c \in Coins : Position(am, c) \in Int
<1> DEFINE after == Posted(am, legs, sign)
<1>0. ASSUME NEW c \in Coins
      PROVE Position(am, c) \in Int
  <2> DEFINE f == [b \in Places |-> am[b][c]]
  <2>1. \A b \in Places : f[b] \in Int
    BY DEF AmountsOK
  <2>2. Position(am, c) = SumOver(Places, f)
    BY DEF Position
  <2> HIDE DEF f
  <2> QED BY <2>1, <2>2, SumInt, ReportsAssumption
<1>1. CASE legs = {}
  <2>1. after = am
    BY <1>1 DEF Posted
  <2>2. \A c \in Coins : Position(am, c) = Position(am, c) + sign * 0
    BY <1>0
  <2> QED BY <1>0, <1>1, <2>1, <2>2, NoLeg
<1>2. ASSUME NEW l \in TradeLeg, legs = {l}
      PROVE /\ AmountsOK(after) /\ after[Bank] = am[Bank]
            /\ \A c \in Coins : Position(after, c) = Position(am, c) + sign * UnitsOf(legs, c)
  <2>0. /\ l.at \in Places /\ l.coin \in Coins /\ l.qty \in Nat /\ TheLeg(legs) = l /\ legs # {}
        /\ \A c : UnitsOf(legs, c) = IF c = l.coin THEN l.qty ELSE 0
    BY <1>2, LegTypes
  <2> DEFINE n == sign * l.qty
  <2>1. after = [am EXCEPT ![l.at][l.coin] = @ + n]
    BY <2>0 DEF Posted
  <2>2. n \in Int
    <3>1. \A i, j \in Int : i * j \in Int
      OBVIOUS
    <3> QED BY <2>0, <3>1
  <2>3. \A c \in Coins : sign * UnitsOf(legs, c) = IF c = l.coin THEN n ELSE 0
    BY <2>0
  <2> HIDE DEF n
  <2>4. /\ AmountsOK(after) /\ after[Bank] = am[Bank]
        /\ \A d \in Coins : Position(after, d) = Position(am, d) + (IF d = l.coin THEN n ELSE 0)
    <3>1. after = Moved(am, l.at, l.coin, n)
      BY <2>1 DEF Moved
    <3> HIDE DEF after
    <3> QED BY <2>0, <2>2, <3>1, PostingOK
  <2> QED BY <2>3, <2>4
<1> QED BY <1>0, <1>1, <1>2 DEF SomeLeg

LEMMA SoldOK ==
  ASSUME NEW lots \in Inventories, NEW l \in TradeLeg, month \in Nat, Dated(lots[l.coin])
  PROVE LET sold == SoldLots(lots, l)
        IN /\ sold \in Seq(Lot) /\ Dated(sold)
           /\ Quantity(sold) = l.qty /\ Cost(sold) = CostTaken(lots, {l})
<1> DEFINE was == lots[l.coin]
           took == consume_fifo(was, l.qty).taken
           unmatched == l.qty - Quantity(took)
           x == [qty |-> unmatched, cost |-> 0, got |-> month]
<1>1. was \in Seq(Lot) /\ l.qty \in Nat /\ CostTaken(lots, {l}) = Cost(took)
  BY LegTypes, CostsOfCoins DEF CostTaken
<1>2. SoldLots(lots, l) = (IF unmatched > 0 THEN <<x>> ELSE <<>>) \o took
  BY DEF SoldLots
<1> HIDE DEF was
<1>3. /\ took \in Seq(Lot) /\ Quantity(took) = Least(Quantity(was), l.qty) /\ Cost(took) \in Nat
      /\ Quantity(was) \in Nat /\ \A i \in 1 .. Len(took) : \E j \in 1 .. Len(was) : took[i].got = was[j].got
  BY <1>1, Fifo
<1> HIDE DEF took
<1>4. Dated(took)
  <2>1. DOMAIN took = 1 .. Len(took) /\ DOMAIN was = 1 .. Len(was)
    BY <1>1, <1>3, LotTypes
  <2> QED BY <1>3, <2>1 DEF Dated, was
<1>5. unmatched \in Nat /\ Quantity(took) \in Nat /\ Quantity(took) + unmatched = l.qty
  BY <1>1, <1>3 DEF Least
<1>6. CASE unmatched > 0
  <2>1. x \in Lot /\ x.qty = unmatched /\ x.qty * x.cost = 0 /\ x.got = month
    <3>1. unmatched \in Nat \ {0}
      BY <1>5, <1>6
    <3>2. x \in Lot
      BY <3>1 DEF Lot
    <3>3. unmatched * 0 = 0
      BY <3>1
    <3> QED BY <3>2, <3>3
  <2> HIDE DEF x, unmatched
  <2>2. <<x>> \in Seq(Lot) /\ Quantity(<<x>>) = unmatched /\ Cost(<<x>>) = 0
    BY <2>1, OneLot
  <2>3. Dated(<<x>>)
    <3>1. DOMAIN <<x>> = {1} /\ <<x>>[1].got = month /\ month <= month
      BY <2>1, OneLot
    <3> QED BY <3>1 DEF Dated
  <2> DEFINE s == <<x>>
  <2> HIDE DEF s
  <2>4. s \in Seq(Lot) /\ Quantity(s) = unmatched /\ Cost(s) = 0 /\ Dated(s) /\ SoldLots(lots, l) = s \o took
    BY <1>2, <1>6, <2>2, <2>3 DEF s
  <2>5. /\ s \o took \in Seq(Lot) /\ Quantity(s \o took) = Quantity(s) + Quantity(took)
        /\ Cost(s \o took) = Cost(s) + Cost(took) /\ Dated(s \o took)
    BY <1>3, <1>4, <2>4, LotsConcat
  <2> QED BY <1>1, <1>3, <1>5, <2>4, <2>5
<1>7. CASE ~(unmatched > 0)
  <2>1. SoldLots(lots, l) = took
    BY <1>2, <1>3, <1>7, ConcatEmptySeq
  <2>2. Quantity(took) = l.qty
    <3> HIDE DEF unmatched
    <3> QED BY <1>1, <1>5, <1>7
  <2> QED BY <1>1, <1>3, <1>4, <2>1, <2>2
<1> QED BY <1>6, <1>7

LEMMA SaleOK ==
  ASSUME NEW lots \in Inventories, NEW l \in TradeLeg, month \in Nat, Dated(lots[l.coin])
  PROVE LET sale == SaleEvents(lots, l)
        IN /\ sale \in Seq(Event)
           /\ \A i \in DOMAIN sale : sale[i].sold = month /\ sale[i].bought <= month
           /\ SumOver(DOMAIN sale, Gains(sale)) = Worth({l}) - CostTaken(lots, {l})
<1> DEFINE sold == SoldLots(lots, l)
           sale == SaleEvents(lots, l)
           n == Len(sold)
           each == l.each
<1>1. sold \in Seq(Lot) /\ Dated(sold) /\ Quantity(sold) = l.qty /\ Cost(sold) = CostTaken(lots, {l})
  BY SoldOK
<1>2. sale = [i \in DOMAIN sold |->
               [coin |-> l.coin, qty |-> sold[i].qty, cost |-> sold[i].cost, proceeds |-> each,
                bought |-> sold[i].got, sold |-> month]]
  BY DEF SaleEvents
<1> HIDE DEF sold, sale
<1>3. /\ n \in Nat /\ DOMAIN sold = 1 .. n /\ IsFiniteSet(1 .. n)
      /\ \A i \in 1 .. n : /\ sold[i].qty \in Nat \ {0} /\ sold[i].cost \in Nat /\ sold[i].got \in Nat
                           /\ Qtys(sold)[i] = sold[i].qty /\ Costs(sold)[i] = sold[i].qty * sold[i].cost
                           /\ Costs(sold)[i] \in Nat
  <2>1. n \in Nat /\ DOMAIN sold = 1 .. n
    BY <1>1, LotTypes
  <2>2. IsFiniteSet(1 .. n)
    BY <2>1, FS_Interval
  <2>3. \A i \in 1 .. n : /\ sold[i].qty \in Nat \ {0} /\ sold[i].cost \in Nat /\ sold[i].got \in Nat
                           /\ Qtys(sold)[i] = sold[i].qty /\ Costs(sold)[i] = sold[i].qty * sold[i].cost
                           /\ Costs(sold)[i] \in Nat
    BY <1>1, LotTypes
  <2> QED BY <2>1, <2>2, <2>3
<1>4. l.coin \in Coins /\ each \in Nat /\ l.qty \in Nat /\ Worth({l}) = l.qty * each
  BY LegTypes
<1> HIDE DEF n, each
<1>5. /\ sale \in Seq(Event) /\ DOMAIN sale = 1 .. n
      /\ \A i \in 1 .. n : /\ sale[i].sold = month /\ sale[i].bought = sold[i].got
                           /\ sale[i].qty = sold[i].qty /\ sale[i].cost = sold[i].cost /\ sale[i].proceeds = each
  <2>1. DOMAIN sale = 1 .. n
    BY <1>2, <1>3
  <2>2. ASSUME NEW i \in 1 .. n
        PROVE /\ sale[i] \in Event
              /\ sale[i].sold = month /\ sale[i].bought = sold[i].got
              /\ sale[i].qty = sold[i].qty /\ sale[i].cost = sold[i].cost /\ sale[i].proceeds = each
    <3>1. sale[i] = [coin |-> l.coin, qty |-> sold[i].qty, cost |-> sold[i].cost, proceeds |-> each,
                     bought |-> sold[i].got, sold |-> month]
      BY <1>2, <1>3
    <3>2. sold[i].qty \in Nat \ {0} /\ sold[i].cost \in Nat /\ sold[i].got \in Nat
      BY <1>3
    <3> QED BY <1>4, <3>1, <3>2 DEF Event
  <2>3. sale = [i \in 1 .. n |-> sale[i]]
    BY <1>2, <2>1
  <2>4. sale \in Seq(Event)
    BY <1>3, <2>2, <2>3, SeqDef
  <2> QED BY <2>1, <2>2, <2>4
<1>6. \A i \in DOMAIN sale : sale[i].sold = month /\ sale[i].bought <= month
  BY <1>1, <1>3, <1>5 DEF Dated
<1>7. SumOver(1 .. n, Gains(sale)) = l.qty * each - Cost(sold)
  <2> DEFINE f == Qtys(sold)
             k == Costs(sold)
             g == Gains(sale)
             w == [i \in 1 .. n |-> f[i] * each]
  <2>1. ASSUME NEW i \in 1 .. n
        PROVE /\ f[i] \in Int /\ k[i] \in Int /\ g[i] \in Int /\ w[i] = f[i] * each /\ w[i] = g[i] + k[i]
    <3> DEFINE q == sold[i].qty
               c == sold[i].cost
    <3>1. q \in Int /\ c \in Int /\ f[i] = q /\ k[i] = q * c /\ w[i] = f[i] * each
      BY <1>3
    <3>2. g[i] = q * (each - c)
      BY <1>5 DEF Gains, Gain
    <3> HIDE DEF f, k, g, w, q, c
    <3>3. /\ q * each = q * (each - c) + q * c
          /\ q * (each - c) \in Int /\ q * c \in Int
      BY <1>4, <3>1
    <3> QED BY <3>1, <3>2, <3>3
  <2> HIDE DEF f, k, g, w
  <2>2. SumOver(1 .. n, w) = SumOver(1 .. n, f) * each
    <3>1. \A i \in 1 .. n : f[i] \in Int /\ w[i] = f[i] * each
      BY <2>1
    <3>2. each \in Int
      BY <1>4
    <3>3. IsFiniteSet(1 .. n)
      BY <1>3
    <3> QED BY <3>1, <3>2, <3>3, SumTimes
  <2>3. SumOver(1 .. n, w) = SumOver(1 .. n, g) + SumOver(1 .. n, k)
    <3>1. \A i \in 1 .. n : g[i] \in Int /\ k[i] \in Int /\ w[i] = g[i] + k[i]
      BY <2>1
    <3>2. IsFiniteSet(1 .. n)
      BY <1>3
    <3> QED BY <3>1, <3>2, SumAdd
  <2>4. SumOver(1 .. n, f) = l.qty /\ SumOver(1 .. n, k) = Cost(sold)
    BY <1>1, <1>3, LotSums DEF f, k
  <2>5. SumOver(1 .. n, g) \in Int /\ SumOver(1 .. n, k) \in Int
    <3>1. (\A i \in 1 .. n : g[i] \in Int) /\ (\A i \in 1 .. n : k[i] \in Int)
      BY <2>1
    <3> QED BY <1>3, <3>1, SumInt
  <2> QED BY <2>2, <2>3, <2>4, <2>5 DEF g
<1> QED BY <1>1, <1>4, <1>5, <1>6, <1>7 DEF sale

\* Events that follow: what they gain adds to the sum; what months past had gained
\* before the window does not change.
LEMMA EventsConcat ==
  ASSUME NEW s \in Seq(Event), NEW t \in Seq(Event), month \in Nat,
         \A i \in DOMAIN t : t[i].sold = month
  PROVE /\ s \o t \in Seq(Event)
        /\ \A i \in DOMAIN (s \o t) : \/ i \in DOMAIN s /\ (s \o t)[i] = s[i]
                                      \/ \E j \in DOMAIN t : (s \o t)[i] = t[j]
        /\ SumOver(DOMAIN (s \o t), Gains(s \o t)) = SumOver(DOMAIN s, Gains(s)) + SumOver(DOMAIN t, Gains(t))
        /\ {i \in DOMAIN (s \o t) : (s \o t)[i].sold < month} = {i \in DOMAIN s : s[i].sold < month}
        /\ \A i \in DOMAIN s : i \in DOMAIN (s \o t) /\ (s \o t)[i] = s[i]
<1> DEFINE u == s \o t
<1>m. PICK m \in Nat : m = Len(s)
  BY LenProperties
<1>n. PICK n \in Nat : n = Len(t)
  BY LenProperties
<1>1. /\ u \in Seq(Event) /\ Len(u) = m + n
      /\ \A i \in 1 .. m + n : u[i] = IF i <= m THEN s[i] ELSE t[i - m]
  BY <1>m, <1>n, ConcatProperties
<1> HIDE DEF u
<1>2. /\ DOMAIN s = 1 .. m /\ DOMAIN t = 1 .. n /\ DOMAIN u = 1 .. m + n /\ m \in Nat /\ n \in Nat
  BY <1>m, <1>n, <1>1, LenProperties
<1>3. /\ \A i \in 1 .. m : u[i] = s[i] /\ i \in 1 .. m + n
      /\ \A i \in 1 .. n : u[m + i] = t[i] /\ m + i \in 1 .. m + n
  <2>1. \A i \in 1 .. m : i \in 1 .. m + n /\ i <= m
    BY <1>2
  <2>2. \A i \in 1 .. n : m + i \in 1 .. m + n /\ ~(m + i <= m) /\ (m + i) - m = i
    BY <1>2
  <2> QED BY <1>1, <2>1, <2>2
<1>4. \A i \in 1 .. m + n : i \in 1 .. m \/ (~(i \in 1 .. m) /\ i - m \in 1 .. n /\ u[i] = t[i - m])
  <2> TAKE i \in 1 .. m + n
  <2>1. (i <= m => i \in 1 .. m) /\ (~(i <= m) => i - m \in 1 .. n /\ ~(i \in 1 .. m))
    BY <1>2
  <2> QED BY <1>1, <2>1
<1>5. /\ \A i \in 1 .. m : s[i] \in Event
      /\ \A i \in 1 .. n : t[i] \in Event
  BY <1>m, <1>n, ElementOfSeq
<1>6. ASSUME NEW e \in Event
      PROVE Gain(e) \in Int /\ e.sold \in Int
  <2>1. e.qty \in Int /\ e.proceeds \in Int /\ e.cost \in Int /\ e.sold \in Int
    BY DEF Event
  <2>2. \A x, y, z \in Int : x * (y - z) \in Int
    OBVIOUS
  <2> QED BY <2>1, <2>2 DEF Gain
<1>7. SumOver(1 .. m + n, Gains(u)) = SumOver(1 .. m, Gains(s)) + SumOver(1 .. n, Gains(t))
  <2> DEFINE f == Gains(s)
             g == Gains(t)
             h == Gains(u)
  <2>1. \A i \in 1 .. m : f[i] = Gain(s[i]) /\ h[i] = Gain(s[i])
    BY <1>2, <1>3 DEF Gains
  <2>2. \A i \in 1 .. n : g[i] = Gain(t[i]) /\ h[m + i] = Gain(t[i])
    <3> TAKE i \in 1 .. n
    <3>1. u[m + i] = t[i] /\ m + i \in DOMAIN u /\ i \in DOMAIN t
      BY <1>2, <1>3
    <3> QED BY <3>1 DEF Gains
  <2> HIDE DEF f, g, h
  <2>3. \A i \in 1 .. m : f[i] \in Int /\ h[i] = f[i]
    BY <1>5, <1>6, <2>1
  <2>4. \A i \in 1 .. n : g[i] \in Int /\ h[m + i] = g[i]
    BY <1>5, <1>6, <2>2
  <2>5. m \in Nat /\ n \in Nat
    BY <1>2
  <2>6. SumOver(1 .. m + n, h) = SumOver(1 .. m, f) + SumOver(1 .. n, g)
    BY <2>3, <2>4, <2>5, SumConcat, SMTT(60)
  <2> QED BY <2>6 DEF f, g, h
<1>8. {i \in DOMAIN u : u[i].sold < month} = {i \in DOMAIN s : s[i].sold < month}
  <2>1. ASSUME NEW i \in DOMAIN u, u[i].sold < month
        PROVE i \in DOMAIN s /\ s[i].sold < month
    <3>1. CASE i \in 1 .. m
      BY <1>2, <1>3, <2>1, <3>1
    <3>2. CASE ~(i \in 1 .. m)
      <4>1. i - m \in DOMAIN t /\ u[i] = t[i - m]
        BY <1>2, <1>4, <3>2
      <4>2. u[i].sold = month
        BY <4>1
      <4> QED BY <2>1, <4>2
    <3> QED BY <3>1, <3>2
  <2>2. ASSUME NEW i \in DOMAIN s, s[i].sold < month
        PROVE i \in DOMAIN u /\ u[i].sold < month
    BY <1>2, <1>3, <2>2
  <2> QED BY <2>1, <2>2
<1>9. \A i \in DOMAIN u : \/ i \in DOMAIN s /\ u[i] = s[i]
                          \/ \E j \in DOMAIN t : u[i] = t[j]
  BY <1>2, <1>3, <1>4
<1>10. \A i \in DOMAIN s : i \in DOMAIN u /\ u[i] = s[i]
  BY <1>2, <1>3
<1> QED BY <1>1, <1>2, <1>7, <1>8, <1>9, <1>10 DEF u

-----------------------------------------------------------------------------
(* Transactions.                                                           *)

\* Every leg is in an account that counts.
LEMMA LegsCount ==
  ASSUME NEW legs, SomeLeg(legs)
  PROVE RelevantLegs(legs) = legs /\ (Walked(legs) <=> legs # {}) /\ Worth(legs) \in Nat
<1>1. CASE legs = {}
  BY <1>1, NoLeg DEF RelevantLegs, Walked
<1>2. ASSUME NEW l \in TradeLeg, legs = {l}
      PROVE RelevantLegs(legs) = legs /\ (Walked(legs) <=> legs # {}) /\ Worth(legs) \in Nat
  <2>1. Relevant(l.at) /\ l.at \in Scope /\ l.qty \in Nat /\ l.each \in Nat /\ Worth(legs) = l.qty * l.each
    BY <1>2, LegTypes
  <2>2. \A x, y \in Nat : x * y \in Nat
    OBVIOUS
  <2> QED BY <1>2, <2>1, <2>2 DEF RelevantLegs, Walked
<1> QED BY <1>1, <1>2 DEF SomeLeg

LEMMA CashIsTheBank ==
  cash = amounts[Bank] /\ cash' = amounts'[Bank] /\ Bank \in Scope
BY CountedAssumption DEF cash, Relevant

\* The lots and amounts after a transaction.
LEMMA BookLots ==
  ASSUME TypesOK, LotsOK, DatesOK, NEW out, NEW in, SomeLeg(out), SomeLeg(in), NEW paid \in Int,
         NEW income, NEW outside, out \cup in # {} \/ paid # 0,
         Book(out, in, paid, income, outside)
  PROVE /\ gainLots' = heldLots' /\ heldLots' \in Inventories
        /\ AmountsOK(amounts') /\ amounts'[Bank] = amounts[Bank] + paid
        /\ \A c \in Coins : Dated(heldLots'[c])
        /\ LotsOK'
        /\ CostOf(heldLots') = CostOf(heldLots) - CostTaken(heldLots, out) + Worth(in)
        /\ earned' = earned + IfInWindow(income)
        /\ cgtEvents' = IF InWindow /\ out # {} THEN cgtEvents \o SaleEvents(heldLots, TheLeg(out)) ELSE cgtEvents
<1> DEFINE less == Consume(heldLots, out)
           more == Acquire(less, in)
           am1 == Posted(amounts, out, -1)
           am2 == Posted(am1, in, 1)
<1>1. Walked(out \cup in) \/ (paid # 0 /\ Bank \in Scope)
  <2>1. (out # {} => Walked(out)) /\ (in # {} => Walked(in))
    BY LegsCount
  <2>2. Walked(out) \/ Walked(in) => Walked(out \cup in)
    BY DEF Walked
  <2> QED BY <2>1, <2>2, CashIsTheBank
<1>2. gainLots = heldLots /\ heldLots \in Inventories /\ AmountsOK(amounts) /\ month \in Nat
  BY ReportsAssumption DEF LotsOK, TypesOK
<1>3. /\ gainLots' = more /\ heldLots' = more
      /\ amounts' = [am2 EXCEPT ![Bank] = @ + paid]
      /\ earned' = earned + IfInWindow(income)
      /\ cgtEvents' = IF InWindow /\ out # {} THEN cgtEvents \o SaleEvents(heldLots, TheLeg(out)) ELSE cgtEvents
      /\ oversold' = (oversold \/ \E l \in out : Quantity(heldLots[l.coin]) < l.qty)
  <2>1. RelevantLegs(out) = out /\ RelevantLegs(in) = in
    BY LegsCount
  <2> QED BY <1>1, <1>2, <2>1 DEF Book
<1>4. /\ less \in Inventories
      /\ \A c \in Coins : Quantity(less[c]) = Quantity(heldLots[c]) - Least(Quantity(heldLots[c]), UnitsOf(out, c))
      /\ \A c \in Coins : \A i \in DOMAIN less[c] : \E j \in DOMAIN heldLots[c] : less[c][i].got = heldLots[c][j].got
      /\ CostOf(less) = CostOf(heldLots) - CostTaken(heldLots, out)
  BY <1>2, ConsumeOK
<1> HIDE DEF less
<1>5. /\ more \in Inventories
      /\ \A c \in Coins : Quantity(more[c]) = Quantity(less[c]) + UnitsOf(in, c)
      /\ \A c \in Coins : Dated(less[c]) => Dated(more[c])
      /\ CostOf(more) = CostOf(less) + Worth(in)
  BY <1>2, <1>4, AcquireOK
<1> HIDE DEF more
<1>6. \A c \in Coins : Dated(more[c])
  <2>1. \A c \in Coins : Dated(less[c])
    BY <1>4 DEF Dated, DatesOK
  <2> QED BY <1>5, <2>1
<1>7. /\ AmountsOK(am1) /\ am1[Bank] = amounts[Bank]
      /\ \A c \in Coins : Position(am1, c) = Position(amounts, c) + (-1) * UnitsOf(out, c)
      /\ \A c \in Coins : Position(amounts, c) \in Int
  <2>1. -1 \in Int
    OBVIOUS
  <2> QED BY <1>2, <2>1, PostedOK
<1> HIDE DEF am1
<1>8. /\ AmountsOK(am2) /\ am2[Bank] = am1[Bank]
      /\ \A c \in Coins : Position(am2, c) = Position(am1, c) + 1 * UnitsOf(in, c)
  <2>1. 1 \in Int
    OBVIOUS
  <2> QED BY <1>7, <2>1, PostedOK
<1> HIDE DEF am2
<1>9. /\ AmountsOK(amounts') /\ amounts'[Bank] = amounts[Bank] + paid
      /\ \A c \in Coins : Position(amounts', c) = Position(am2, c)
  <2>1. am2 = [a \in Places \cup {Bank} |-> am2[a]] /\ am2[Bank] \in Int /\ \A a \in Places : am2[a] \in [Coins -> Int]
    BY <1>8 DEF AmountsOK
  <2>2. amounts' = [a \in Places \cup {Bank} |-> IF a = Bank THEN am2[a] + paid ELSE am2[a]]
    BY <1>3, <2>1
  <2>3. amounts'[Bank] = am2[Bank] + paid /\ \A a \in Places : amounts'[a] = am2[a]
    BY <2>2, ReportsAssumption
  <2>4. am2[Bank] + paid \in Int /\ amounts' = [a \in Places \cup {Bank} |-> amounts'[a]]
    BY <2>1, <2>2
  <2>5. AmountsOK(amounts')
    BY <2>1, <2>3, <2>4 DEF AmountsOK
  <2>6. ASSUME NEW c \in Coins
        PROVE Position(amounts', c) = Position(am2, c)
    <3>1. [a \in Places |-> amounts'[a][c]] = [a \in Places |-> am2[a][c]]
      BY <2>3
    <3> QED BY <3>1 DEF Position
  <2> QED BY <1>7, <1>8, <2>3, <2>5, <2>6
<1>10. ASSUME NEW legs, SomeLeg(legs), NEW c \in Coins
       PROVE UnitsOf(legs, c) \in Nat
  <2>1. CASE legs = {}
    BY <2>1, NoLeg
  <2>2. ASSUME NEW l \in TradeLeg, legs = {l}
        PROVE UnitsOf(legs, c) \in Nat
    <3>1. UnitsOf({l}, c) = (IF c = l.coin THEN l.qty ELSE 0) /\ l.qty \in Nat
      BY LegTypes
    <3> QED BY <2>2, <3>1
  <2>3. legs = {} \/ \E l \in TradeLeg : legs = {l}
    BY <1>10 DEF SomeLeg
  <2> QED BY <2>1, <2>2, <2>3
<1>11. LotsOK'
  <2>1. ASSUME NEW c \in Coins
        PROVE /\ Quantity(more[c]) >= Position(amounts', c)
              /\ ~oversold' => Quantity(more[c]) = Position(amounts', c)
    <3> DEFINE Q == Quantity(heldLots[c])
               P == Position(amounts, c)
               o == UnitsOf(out, c)
               i == UnitsOf(in, c)
    <3>1. Q \in Nat /\ P \in Int /\ o \in Nat /\ i \in Nat /\ Q >= P /\ (~oversold => Q = P)
      BY <1>2, <1>7, <1>10, CostsOfCoins DEF LotsOK
    <3>2. ~oversold' => ~oversold /\ o <= Q
      <4> SUFFICES ASSUME ~oversold'
                   PROVE ~oversold /\ o <= Q
        OBVIOUS
      <4>1. ~oversold /\ \A l \in out : ~(Quantity(heldLots[l.coin]) < l.qty)
        BY <1>3
      <4>2. CASE out = {}
        BY <3>1, <4>1, <4>2, NoLeg
      <4>3. ASSUME NEW l \in TradeLeg, out = {l}
            PROVE o <= Q
        <5>1. o = (IF c = l.coin THEN l.qty ELSE 0) /\ l.qty \in Nat /\ l.coin \in Coins
          BY <4>3, LegTypes
        <5>2. ~(Quantity(heldLots[l.coin]) < l.qty)
          BY <4>1, <4>3
        <5>3. CASE c = l.coin
          <6> HIDE DEF o
          <6> QED BY <3>1, <5>1, <5>2, <5>3
        <5>4. CASE c # l.coin
          <6> HIDE DEF o, Q
          <6> QED BY <3>1, <5>1, <5>4
        <5> QED BY <5>3, <5>4
      <4> QED BY <4>1, <4>2, <4>3 DEF SomeLeg
    <3>3. Quantity(more[c]) = Q - Least(Q, o) + i
      BY <1>4, <1>5
    <3>4. Position(amounts', c) = P + (-1) * o + 1 * i
      BY <1>7, <1>8, <1>9
    <3> HIDE DEF Q, P, o, i
    <3>5. (-1) * o = -o /\ 1 * i = i
      BY <3>1
    <3> QED BY <3>1, <3>2, <3>3, <3>4, <3>5 DEF Least
  <2> QED BY <1>3, <2>1 DEF LotsOK
<1>12. CostOf(heldLots') = CostOf(heldLots) - CostTaken(heldLots, out) + Worth(in)
  BY <1>3, <1>4, <1>5
<1> QED BY <1>3, <1>5, <1>6, <1>9, <1>11, <1>12

\* The events after a transaction.
LEMMA BookEvents ==
  ASSUME TypesOK, DatesOK, NEW out, SomeLeg(out), month' = month,
         cgtEvents' = IF InWindow /\ out # {} THEN cgtEvents \o SaleEvents(heldLots, TheLeg(out)) ELSE cgtEvents
  PROVE /\ cgtEvents' \in Seq(Event)
        /\ \A i \in DOMAIN cgtEvents' : /\ cgtEvents'[i].bought <= cgtEvents'[i].sold
                                        /\ cgtEvents'[i].sold > OpenMonth /\ cgtEvents'[i].sold <= month
        /\ ~InWindow => cgtEvents' = cgtEvents
        /\ InWindow => SumOver(DOMAIN cgtEvents', Gains(cgtEvents'))
                         = SumOver(DOMAIN cgtEvents, Gains(cgtEvents)) + (Worth(out) - CostTaken(heldLots, out))
        /\ {i \in DOMAIN cgtEvents' : cgtEvents'[i].sold < month} = {i \in DOMAIN cgtEvents : cgtEvents[i].sold < month}
        /\ \A i \in DOMAIN cgtEvents : i \in DOMAIN cgtEvents' /\ cgtEvents'[i] = cgtEvents[i]
<1>0. cgtEvents \in Seq(Event) /\ heldLots \in Inventories /\ month \in Nat
  BY ReportsAssumption DEF TypesOK
<1>1. CASE ~(InWindow /\ out # {})
  <2>1. cgtEvents' = cgtEvents
    BY <1>1
  <2>2. InWindow => Worth(out) - CostTaken(heldLots, out) = 0
    BY <1>1, NoLeg
  <2>3. SumOver(DOMAIN cgtEvents, Gains(cgtEvents)) \in Int
    BY EventSums
  <2>4. \A n \in Int : n = n + 0
    OBVIOUS
  <2> QED BY <1>0, <2>1, <2>2, <2>3, <2>4 DEF DatesOK
<1>2. CASE InWindow /\ out # {}
  <2>1. PICK l \in TradeLeg : out = {l}
    BY <1>2 DEF SomeLeg
  <2>2. TheLeg(out) = l /\ l.coin \in Coins
    BY <2>1, LegTypes
  <2> DEFINE sale == SaleEvents(heldLots, l)
             both == cgtEvents \o sale
  <2>3. cgtEvents' = both
    BY <1>2, <2>2
  <2>4. /\ sale \in Seq(Event)
        /\ \A i \in DOMAIN sale : sale[i].sold = month /\ sale[i].bought <= month
        /\ SumOver(DOMAIN sale, Gains(sale)) = Worth(out) - CostTaken(heldLots, out)
    <3>1. Dated(heldLots[l.coin])
      BY <2>2 DEF DatesOK, Dated
    <3> QED BY <1>0, <2>1, <3>1, SaleOK
  <2> HIDE DEF sale
  <2>5. /\ both \in Seq(Event)
        /\ \A i \in DOMAIN both : \/ i \in DOMAIN cgtEvents /\ both[i] = cgtEvents[i]
                                  \/ \E j \in DOMAIN sale : both[i] = sale[j]
        /\ SumOver(DOMAIN both, Gains(both)) = SumOver(DOMAIN cgtEvents, Gains(cgtEvents)) + SumOver(DOMAIN sale, Gains(sale))
        /\ {i \in DOMAIN both : both[i].sold < month} = {i \in DOMAIN cgtEvents : cgtEvents[i].sold < month}
        /\ \A i \in DOMAIN cgtEvents : i \in DOMAIN both /\ both[i] = cgtEvents[i]
    <3>1. \A i \in DOMAIN sale : sale[i].sold = month
      BY <2>4
    <3> QED BY <1>0, <2>4, <3>1, EventsConcat
  <2> HIDE DEF both
  <2>6. \A i \in DOMAIN both : both[i].bought <= both[i].sold /\ both[i].sold > OpenMonth /\ both[i].sold <= month
    <3> TAKE i \in DOMAIN both
    <3>1. CASE i \in DOMAIN cgtEvents /\ both[i] = cgtEvents[i]
      BY <3>1 DEF DatesOK
    <3>2. CASE \E j \in DOMAIN sale : both[i] = sale[j]
      <4>1. month > OpenMonth /\ month <= month
        BY <1>0, <1>2 DEF InWindow
      <4> QED BY <2>4, <3>2, <4>1
    <3> QED BY <2>5, <3>1, <3>2
  <2> QED BY <1>2, <2>3, <2>4, <2>5, <2>6
<1> QED BY <1>1, <1>2

\* A transaction, and by how much it does not add up.
LEMMA BookStep ==
  ASSUME IInv, NEW out, NEW in, SomeLeg(out), SomeLeg(in), NEW paid \in Int,
         NEW income \in Nat, NEW outside \in Int, out \cup in # {} \/ paid # 0,
         Book(out, in, paid, income, outside)
  PROVE IInv'
<1>0. TypesOK /\ DatesOK /\ LotsOK /\ WindowOK /\ BookOK
  BY DEF IInv
<1>g. PICK gap \in Int : gap = Gap(out, in, paid, income, outside)
                        /\ Worth(out) + income = Worth(in) + paid - outside + gap
  <2>1. Worth(out) \in Int /\ Worth(in) \in Int
    BY LegsCount
  <2>2. \A v, w \in Int : /\ v + income + outside - (w + paid) \in Int
                          /\ v + income = w + paid - outside + (v + income + outside - (w + paid))
    OBVIOUS
  <2> QED BY <2>1, <2>2 DEF Gap
<1>1. /\ month' = month /\ price' = price /\ opening' = opening /\ lastUnrealised' = lastUnrealised
      /\ monthly' = monthly /\ txns < MaxTxns /\ txns' = txns + 1
      /\ putIn' = putIn + IfInWindow(outside) /\ mispriced' = mispriced + IfInWindow(gap)
      /\ oversold' \in BOOLEAN /\ (~oversold' => ~oversold)
  BY <1>g DEF Book, Txn
<1>2. InWindow' = InWindow
  BY <1>1 DEF InWindow
<1>3. /\ gainLots' = heldLots' /\ heldLots' \in Inventories
      /\ AmountsOK(amounts') /\ amounts'[Bank] = amounts[Bank] + paid
      /\ \A c \in Coins : Dated(heldLots'[c])
      /\ LotsOK'
      /\ CostOf(heldLots') = CostOf(heldLots) - CostTaken(heldLots, out) + Worth(in)
      /\ earned' = earned + IfInWindow(income)
      /\ cgtEvents' = IF InWindow /\ out # {} THEN cgtEvents \o SaleEvents(heldLots, TheLeg(out)) ELSE cgtEvents
  BY <1>0, BookLots
<1>4. /\ cgtEvents' \in Seq(Event)
      /\ \A i \in DOMAIN cgtEvents' : /\ cgtEvents'[i].bought <= cgtEvents'[i].sold
                                      /\ cgtEvents'[i].sold > OpenMonth /\ cgtEvents'[i].sold <= month
      /\ ~InWindow => cgtEvents' = cgtEvents
      /\ InWindow => SumOver(DOMAIN cgtEvents', Gains(cgtEvents'))
                       = SumOver(DOMAIN cgtEvents, Gains(cgtEvents)) + (Worth(out) - CostTaken(heldLots, out))
      /\ {i \in DOMAIN cgtEvents' : cgtEvents'[i].sold < month} = {i \in DOMAIN cgtEvents : cgtEvents[i].sold < month}
      /\ \A i \in DOMAIN cgtEvents : i \in DOMAIN cgtEvents' /\ cgtEvents'[i] = cgtEvents[i]
  BY <1>0, <1>1, <1>3, BookEvents
<1>5. /\ IfInWindow(income) \in Nat /\ IfInWindow(outside) \in Int /\ IfInWindow(gap) \in Int
      /\ (~InWindow => IfInWindow(income) = 0 /\ IfInWindow(outside) = 0 /\ IfInWindow(gap) = 0)
      /\ (InWindow => IfInWindow(income) = income /\ IfInWindow(outside) = outside /\ IfInWindow(gap) = gap)
  BY DEF IfInWindow
<1>6. TypesOK'
  <2>1. txns' \in 0 .. MaxTxns
    BY <1>0, <1>1, ReportsAssumption DEF TypesOK
  <2>2. earned' \in Nat /\ putIn' \in Int /\ mispriced' \in Int
    <3>1. earned \in Nat /\ putIn \in Int /\ mispriced \in Int
      BY <1>0 DEF TypesOK
    <3>2. \A i, j \in Nat : i + j \in Nat
      OBVIOUS
    <3>3. \A i, j \in Int : i + j \in Int
      OBVIOUS
    <3> QED BY <1>1, <1>3, <1>5, <3>1, <3>2, <3>3
  <2>3. /\ month' \in 0 .. MaxMonth /\ price' \in Quoted /\ lastUnrealised' \in Int /\ monthly' \in Int
        /\ InWindow' =>
             /\ opening'.value \in Int /\ opening'.unrealised \in Int /\ opening'.transit \in BOOLEAN
             /\ opening'.of \in [Coins -> Int] /\ opening'.price \in [Coins -> Nat]
    BY <1>0, <1>1, <1>2 DEF TypesOK
  <2>4. gainLots' \in Inventories /\ heldLots' \in Inventories /\ AmountsOK(amounts') /\ cgtEvents' \in Seq(Event)
    BY <1>3, <1>4
  <2>5. oversold' \in BOOLEAN
    BY <1>1
  <2> QED BY <2>1, <2>2, <2>3, <2>4, <2>5 DEF TypesOK
<1>7. DatesOK'
  <2>1. \A c \in Coins : \A i \in DOMAIN heldLots'[c] : heldLots'[c][i].got <= month'
    BY <1>1, <1>3 DEF Dated
  <2> QED BY <1>1, <1>4, <2>1 DEF DatesOK
<1>8. WindowOK'
  <2> DEFINE past == {i \in DOMAIN cgtEvents : cgtEvents[i].sold < month}
             o == [i \in DOMAIN cgtEvents |-> OpenGainSold(cgtEvents[i])]
             n == [i \in DOMAIN cgtEvents' |-> OpenGainSold(cgtEvents'[i])]
  <2>1. ASSUME InWindow
        PROVE SumOver(past, n) = SumOver(past, o)
    <3>1. IsFiniteSet(past) /\ past \subseteq DOMAIN cgtEvents
      BY <1>0, EventTypes, FS_Subset
    <3>2. \A i \in past : o[i] \in Int /\ o[i] = n[i]
      BY <1>0, <1>4, <2>1, EventTypes
    <3> HIDE DEF past, o, n
    <3> QED BY <3>1, <3>2, SumEqual
  <2>2. ASSUME ~InWindow
        PROVE cgtEvents' = <<>> /\ earned' = 0 /\ putIn' = 0 /\ mispriced' = 0
    <3>1. cgtEvents = <<>> /\ earned = 0 /\ putIn = 0 /\ mispriced = 0
      BY <1>0, <2>2 DEF WindowOK
    <3>2. cgtEvents' = cgtEvents /\ earned' = 0 + 0 /\ putIn' = 0 + 0 /\ mispriced' = 0 + 0
      BY <1>1, <1>3, <1>4, <1>5, <2>2, <3>1
    <3> QED BY <3>1, <3>2
  <2>3. ASSUME InWindow
        PROVE /\ opening'.unrealised = SumOver(Coins, opening'.of)
              /\ monthly' = lastUnrealised' - opening'.unrealised
                            + AddUp(cgtEvents', {i \in DOMAIN cgtEvents' : cgtEvents'[i].sold < month'}, OpenGainSold)
    <3>1. /\ opening.unrealised = SumOver(Coins, opening.of)
          /\ monthly = lastUnrealised - opening.unrealised + SumOver(past, o)
      BY <1>0, <2>3 DEF WindowOK, AddUp
    <3>2. {i \in DOMAIN cgtEvents' : cgtEvents'[i].sold < month'} = past
      BY <1>1, <1>4
    <3>3. AddUp(cgtEvents', past, OpenGainSold) = SumOver(past, o)
      BY <2>1, <2>3 DEF AddUp
    <3> HIDE DEF past, o, n
    <3> QED BY <1>1, <3>1, <3>2, <3>3
  <2>4. ASSUME NEW e
        PROVE OpenGainSold(e)' = OpenGainSold(e)
    BY <1>1 DEF OpenGainSold
  <2>5. AddUp(cgtEvents, {i \in DOMAIN cgtEvents : cgtEvents[i].sold < month}, OpenGainSold)'
         = AddUp(cgtEvents', {i \in DOMAIN cgtEvents' : cgtEvents'[i].sold < month'}, OpenGainSold)
    BY <1>1 DEF AddUp, OpenGainSold
  <2> QED BY <1>2, <2>2, <2>3, <2>5 DEF WindowOK
<1>9. BookOK'
  <2> SUFFICES ASSUME InWindow, ~oversold', ~opening.transit
               PROVE SumOver(DOMAIN cgtEvents', Gains(cgtEvents')) + earned'
                       = BookValue' - (opening.value - opening.unrealised) - putIn' + mispriced'
    BY <1>1, <1>2 DEF BookOK, Gains, Gain
  <2>1. SumOver(DOMAIN cgtEvents, Gains(cgtEvents)) + earned
          = BookValue - (opening.value - opening.unrealised) - putIn + mispriced
    BY <1>0, <1>1 DEF BookOK
  <2>2. BookValue = CostOf(heldLots) + amounts[Bank] /\ BookValue' = CostOf(heldLots') + amounts'[Bank]
    BY CashIsTheBank DEF BookValue, CostOf
  <2>3. /\ CostOf(heldLots) \in Int /\ amounts[Bank] \in Int /\ earned \in Int /\ putIn \in Int /\ mispriced \in Int
        /\ opening.value \in Int /\ opening.unrealised \in Int
    BY <1>0, CostsOfCoins DEF TypesOK, AmountsOK
  <2>4. Worth(out) \in Int /\ Worth(in) \in Int /\ SumOver(DOMAIN cgtEvents, Gains(cgtEvents)) \in Int
    BY <1>0, LegsCount, EventSums
  <2>5. CostTaken(heldLots, out) \in Int
    <3>1. CASE out = {}
      BY <3>1, NoLeg
    <3>2. ASSUME NEW l \in TradeLeg, out = {l}
          PROVE CostTaken(heldLots, out) \in Int
      <4>1. heldLots \in Inventories /\ month \in Nat /\ Dated(heldLots[l.coin])
        <5>1. heldLots \in Inventories /\ month \in Nat
          BY <1>0, ReportsAssumption DEF TypesOK
        <5>2. l.coin \in Coins
          BY LegTypes
        <5> QED BY <1>0, <5>1, <5>2 DEF DatesOK, Dated
      <4>2. SoldLots(heldLots, l) \in Seq(Lot) /\ Cost(SoldLots(heldLots, l)) = CostTaken(heldLots, {l})
        BY <4>1, SoldOK
      <4>3. 0 \in Nat
        OBVIOUS
      <4>4. Cost(SoldLots(heldLots, l)) \in Nat
        BY <4>2, <4>3, Fifo
      <4> QED BY <3>2, <4>2, <4>4
    <3>3. out = {} \/ \E l \in TradeLeg : out = {l}
      BY DEF SomeLeg
    <3> QED BY <3>1, <3>2, <3>3
  <2>6. /\ earned' = earned + income /\ putIn' = putIn + outside /\ mispriced' = mispriced + gap
        /\ SumOver(DOMAIN cgtEvents', Gains(cgtEvents'))
             = SumOver(DOMAIN cgtEvents, Gains(cgtEvents)) + (Worth(out) - CostTaken(heldLots, out))
        /\ CostOf(heldLots') = CostOf(heldLots) - CostTaken(heldLots, out) + Worth(in)
        /\ amounts'[Bank] = amounts[Bank] + paid
    BY <1>1, <1>3, <1>4, <1>5
  <2> DEFINE S == SumOver(DOMAIN cgtEvents, Gains(cgtEvents))
             Sn == SumOver(DOMAIN cgtEvents', Gains(cgtEvents'))
             K == CostOf(heldLots)
             Kn == CostOf(heldLots')
             T == CostTaken(heldLots, out)
             W == Worth(out)
             V == Worth(in)
             B == amounts[Bank]
             Bn == amounts'[Bank]
             ov == opening.value
             ou == opening.unrealised
  <2>7. /\ S + earned = (K + B) - (ov - ou) - putIn + mispriced
        /\ Sn = S + (W - T) /\ Kn = K - T + V /\ Bn = B + paid
        /\ W + income = V + paid - outside + gap
    BY <1>g, <2>1, <2>2, <2>6
  <2> HIDE DEF S, Sn, K, Kn, T, W, V, B, Bn, ov, ou
  <2>8. /\ K \in Int /\ B \in Int /\ S \in Int /\ T \in Int /\ W \in Int /\ V \in Int /\ ov \in Int /\ ou \in Int
        /\ earned \in Int /\ putIn \in Int /\ mispriced \in Int
    BY <2>3, <2>4, <2>5 DEF S, K, T, W, V, B, ov, ou
  <2>9. Sn + (earned + income) = (Kn + Bn) - (ov - ou) - (putIn + outside) + (mispriced + gap)
    BY <2>7, <2>8
  <2> QED BY <2>2, <2>6, <2>9 DEF Sn, Kn, Bn, ov, ou
<1> QED BY <1>3, <1>6, <1>7, <1>8, <1>9 DEF IInv

LEMMA OneLegOK ==
  ASSUME NEW a \in Traders \cup Partners, NEW c \in Coins, NEW q \in Nat \ {0}, NEW each \in Nat
  PROVE SomeLeg(OneLeg(a, c, q, each)) /\ OneLeg(a, c, q, each) # {} /\ Worth(OneLeg(a, c, q, each)) = q * each
<1> DEFINE l == [at |-> a, coin |-> c, qty |-> q, each |-> each]
<1>1. l \in TradeLeg /\ l.qty = q /\ l.each = each
  BY DEF TradeLeg
<1>2. OneLeg(a, c, q, each) = {l}
  BY DEF OneLeg
<1> HIDE DEF l
<1> QED BY <1>1, <1>2, LegTypes DEF SomeLeg

LEMMA NoLegOK ==
  SomeLeg({}) /\ Worth({}) = 0
BY NoLeg DEF SomeLeg

\* A unit of a leg is worth a natural number.
LEMMA EachIsNat ==
  ASSUME TypesOK, NEW c \in Coins, NEW own \in SUBSET Nat, NEW other \in SUBSET Nat
  PROVE Each(c, own, other) \in Nat
<1>1. price[c] \in Nat
  BY PriceTypes
<1> QED BY <1>1 DEF Each

LEMMA SaysNat ==
  /\ \A own \in Stated : own \in SUBSET Nat
  /\ \A other \in Told : other \in SUBSET Nat
BY ReportsAssumption DEF Stated, Told

LEMMA BuyStep ==
  ASSUME IInv, NEW a \in Traders, NEW c \in Traded, NEW q \in Quantities, NEW own \in Stated,
         NEW paid \in Payments, NEW other \in Told,
         Buy(a, c, q, paid, own, other) \/ Sell(a, c, q, paid, own, other)
  PROVE IInv'
<1>0. c \in Coins /\ q \in Nat \ {0} /\ paid \in Nat /\ a \in Traders \cup Partners
  BY ReportsAssumption
<1>1. PICK each \in Nat : each = Each(c, own, other)
  BY <1>0, EachIsNat, SaysNat DEF IInv
<1> DEFINE legs == OneLeg(a, c, q, each)
<1>2. SomeLeg(legs) /\ legs # {}
  BY <1>0, OneLegOK
<1>3. -q * paid \in Int /\ q * paid \in Int /\ 0 \in Nat /\ 0 \in Int
  BY <1>0
<1>4. /\ Buy(a, c, q, paid, own, other) => Book({}, legs, -q * paid, 0, 0)
      /\ Sell(a, c, q, paid, own, other) => Book(legs, {}, q * paid, 0, 0)
  BY <1>1 DEF Buy, Sell
<1>5. {} \cup legs # {} /\ legs \cup {} # {}
  BY <1>2
<1> HIDE DEF legs
<1>6. CASE Buy(a, c, q, paid, own, other)
  BY <1>2, <1>3, <1>4, <1>5, <1>6, NoLegOK, BookStep
<1>7. CASE Sell(a, c, q, paid, own, other)
  BY <1>2, <1>3, <1>4, <1>5, <1>7, NoLegOK, BookStep
<1> QED BY <1>6, <1>7

LEMMA SwapStep ==
  ASSUME IInv, NEW a \in Traders \cup Partners, NEW b \in Traders \cup Partners, NEW c \in Coins, NEW d \in Coins,
         NEW q \in Nat \ {0}, NEW out \in SUBSET Nat, NEW toOut \in SUBSET Nat,
         NEW in \in SUBSET Nat, NEW toIn \in SUBSET Nat, Swap(a, b, c, d, q, out, toOut, in, toIn)
  PROVE IInv'
<1>1. PICK given \in Nat : given = Each(c, out, toOut)
  BY EachIsNat DEF IInv
<1>2. PICK got \in Nat : got = Each(d, in, toIn)
  BY EachIsNat DEF IInv
<1> DEFINE gives == OneLeg(a, c, q, given)
           gets == OneLeg(b, d, q, got)
<1>3. Book(gives, gets, 0, 0, 0)
  BY <1>1, <1>2 DEF Swap
<1>4. SomeLeg(gives) /\ gives # {} /\ SomeLeg(gets)
  BY OneLegOK
<1>5. gives \cup gets # {} /\ 0 \in Nat /\ 0 \in Int
  BY <1>4
<1> HIDE DEF gives, gets
<1> QED BY <1>3, <1>4, <1>5, BookStep

LEMMA SwapInOneStep ==
  ASSUME IInv, NEW a \in Traders \cup Partners, NEW b \in Traders \cup Partners, NEW c \in Coins, NEW d \in Coins,
         NEW q \in Nat \ {0}, NEW out \in Stated, NEW in \in Stated, NEW isCost, SwapInOne(a, b, c, d, q, out, in, isCost)
  PROVE IInv'
<1>1. \A note \in SUBSET Nat, e \in Coins : Counterpart(note, e, a # b) \in SUBSET Nat
  <2>1. \A e \in Coins : price[e] \in Nat
    BY PriceTypes DEF IInv
  <2> QED BY <2>1 DEF Counterpart
<1>2. out \in SUBSET Nat /\ in \in SUBSET Nat /\ (IF isCost THEN in ELSE {}) \in SUBSET Nat
  BY SaysNat
<1>3. PICK toOut \in SUBSET Nat : toOut = Counterpart(IF isCost THEN in ELSE {}, d, a # b)
  BY <1>1, <1>2
<1>4. PICK toIn \in SUBSET Nat : toIn = Counterpart(out, c, a # b)
  BY <1>1, <1>2
<1>5. Swap(a, b, c, d, q, out, toOut, in, toIn)
  BY <1>3, <1>4 DEF SwapInOne
<1> QED BY <1>2, <1>5, SwapStep

\* Coins earned, received or paid as a fee.
LEMMA OtherCoinsStep ==
  ASSUME IInv, NEW a \in Traders, NEW c \in Traded, NEW q \in Nat \ {0}, NEW own \in Stated, NEW said \in Stated,
         EarnCoins(a, c, q, own, said) \/ Receive(a, c, q, own) \/ PayFee(a, c, q, own)
  PROVE IInv'
<1>0. c \in Coins /\ a \in Traders \cup Partners
  BY ReportsAssumption
<1>p. PICK p \in Nat : p = price[c]
  BY <1>0, PriceTypes DEF IInv
<1>1. PICK each \in Nat : each = Each(c, own, {})
  BY <1>0, EachIsNat, SaysNat DEF IInv
<1>2. PICK told \in Nat : told = PostingValue(c, said)
  BY <1>0, EachIsNat, SaysNat DEF IInv, PostingValue
<1> DEFINE legs == OneLeg(a, c, q, each)
<1>3. SomeLeg(legs) /\ legs # {}
  BY <1>0, OneLegOK
<1>4. q * told \in Nat /\ q * p \in Int /\ -q * p \in Int /\ 0 \in Int /\ 0 \in Nat
  OBVIOUS
<1>5. /\ EarnCoins(a, c, q, own, said) => Book({}, legs, 0, q * told, 0)
      /\ Receive(a, c, q, own) => Book({}, legs, 0, 0, q * p)
      /\ PayFee(a, c, q, own) => Book(legs, {}, 0, 0, -q * p)
  BY <1>p, <1>1, <1>2 DEF EarnCoins, Receive, PayFee
<1>6. {} \cup legs # {} /\ legs \cup {} # {}
  BY <1>3
<1> HIDE DEF legs
<1>7. CASE EarnCoins(a, c, q, own, said)
  BY <1>3, <1>4, <1>5, <1>6, <1>7, NoLegOK, BookStep
<1>8. CASE Receive(a, c, q, own)
  BY <1>3, <1>4, <1>5, <1>6, <1>8, NoLegOK, BookStep
<1>9. CASE PayFee(a, c, q, own)
  BY <1>3, <1>4, <1>5, <1>6, <1>9, NoLegOK, BookStep
<1> QED BY <1>7, <1>8, <1>9

LEMMA CashStep ==
  ASSUME IInv, EarnCash(1) \/ Deposit(1)
  PROVE IInv'
<1>1. 1 \in Int /\ 1 \in Nat /\ 0 \in Nat /\ 0 \in Int /\ 1 # 0
  OBVIOUS
<1>2. CASE EarnCash(1)
  <2>1. Book({}, {}, 1, 1, 0)
    BY <1>2 DEF EarnCash
  <2> QED BY <1>1, <2>1, NoLegOK, BookStep
<1>3. CASE Deposit(1)
  <2>1. Book({}, {}, 1, 0, 1)
    BY <1>3 DEF Deposit
  <2> QED BY <1>1, <2>1, NoLegOK, BookStep
<1> QED BY <1>2, <1>3

LEMMA TransferStep ==
  ASSUME IInv, NEW a \in Places, NEW b \in Places, NEW c \in Coins, NEW q \in Nat \ {0}, Transfer(a, b, c, q)
  PROVE IInv'
<1> DEFINE am1 == Moved(amounts, a, c, -q)
<1>0. TypesOK /\ DatesOK /\ LotsOK /\ WindowOK /\ BookOK
  BY DEF IInv
<1>1. /\ txns < MaxTxns /\ txns' = txns + 1 /\ month' = month /\ price' = price /\ gainLots' = gainLots
      /\ heldLots' = heldLots /\ cgtEvents' = cgtEvents /\ earned' = earned /\ opening' = opening
      /\ lastUnrealised' = lastUnrealised /\ monthly' = monthly /\ putIn' = putIn /\ mispriced' = mispriced
      /\ oversold' = oversold
      /\ a # b /\ amounts' = [amounts EXCEPT ![a][c] = @ - q, ![b][c] = @ + q]
  BY DEF Transfer, Txn
<1>2. AmountsOK(amounts) /\ -q \in Int /\ q \in Int
  BY <1>0 DEF TypesOK
<1>3. /\ AmountsOK(am1) /\ am1[Bank] = amounts[Bank]
      /\ \A d \in Coins : Position(am1, d) = Position(amounts, d) + (IF d = c THEN -q ELSE 0)
      /\ \A d \in Coins : Position(amounts, d) \in Int
  <2>1. \A n \in Int :
          /\ AmountsOK(Moved(amounts, a, c, n)) /\ Moved(amounts, a, c, n)[Bank] = amounts[Bank]
          /\ \A d \in Coins : Position(Moved(amounts, a, c, n), d) = Position(amounts, d) + (IF d = c THEN n ELSE 0)
          /\ \A d \in Coins : Position(amounts, d) \in Int
    BY <1>2, PostingOK
  <2> QED BY <1>2, <2>1
<1>4. amounts' = Moved(am1, b, c, q)
  <2>1. amounts = [p \in Places \cup {Bank} |-> amounts[p]] /\ amounts[a] \in [Coins -> Int] /\ amounts[a][c] \in Int
    BY <1>2 DEF AmountsOK
  <2>2. amounts[a][c] - q = amounts[a][c] + (-q)
    BY <1>2, <2>1
  <2>3. am1 = [amounts EXCEPT ![a][c] = @ - q]
    BY <2>1, <2>2 DEF Moved
  <2>4. amounts' = [am1 EXCEPT ![b][c] = @ + q]
    BY <1>1, <2>3
  <2> QED BY <2>4 DEF Moved
<1> HIDE DEF am1
<1>5. /\ AmountsOK(amounts') /\ amounts'[Bank] = amounts[Bank]
      /\ \A d \in Coins : Position(amounts', d) = Position(am1, d) + (IF d = c THEN q ELSE 0)
  <2>1. ASSUME NEW am, AmountsOK(am)
        PROVE /\ AmountsOK(Moved(am, b, c, q)) /\ Moved(am, b, c, q)[Bank] = am[Bank]
              /\ \A d \in Coins : Position(Moved(am, b, c, q), d) = Position(am, d) + (IF d = c THEN q ELSE 0)
    BY <1>2, <2>1, PostingOK
  <2> QED BY <1>3, <1>4, <2>1
<1>6. \A d \in Coins : Position(amounts', d) = Position(amounts, d)
  BY <1>2, <1>3, <1>5
<1>7. InWindow' = InWindow
  BY <1>1 DEF InWindow
<1>8. TypesOK'
  <2>1. txns' \in 0 .. MaxTxns
    BY <1>0, <1>1, ReportsAssumption DEF TypesOK
  <2>2. /\ month' \in 0 .. MaxMonth /\ price' \in Quoted /\ lastUnrealised' \in Int /\ monthly' \in Int
        /\ InWindow' =>
             /\ opening'.value \in Int /\ opening'.unrealised \in Int /\ opening'.transit \in BOOLEAN
             /\ opening'.of \in [Coins -> Int] /\ opening'.price \in [Coins -> Nat]
    BY <1>0, <1>1, <1>7 DEF TypesOK
  <2>3. /\ gainLots' \in Inventories /\ heldLots' \in Inventories /\ cgtEvents' \in Seq(Event)
        /\ earned' \in Nat /\ putIn' \in Int /\ mispriced' \in Int /\ oversold' \in BOOLEAN
    BY <1>0, <1>1 DEF TypesOK
  <2> QED BY <1>5, <2>1, <2>2, <2>3 DEF TypesOK
<1>9. DatesOK' /\ LotsOK'
  BY <1>0, <1>1, <1>6 DEF DatesOK, LotsOK
<1>10. WindowOK'
  BY <1>0, <1>1, <1>7 DEF WindowOK, AddUp, OpenGainSold
<1>11. BookOK'
  <2>1. BookValue' = BookValue
    BY <1>1, <1>5, CashIsTheBank DEF BookValue
  <2> QED BY <1>0, <1>1, <1>7, <2>1 DEF BookOK
<1> QED BY <1>8, <1>9, <1>10, <1>11 DEF IInv

\* The month ends; the window may open.
LEMMA MonthStep ==
  ASSUME IInv, NextMonth
  PROVE IInv'
<1> DEFINE o == [i \in DOMAIN cgtEvents |-> OpenGainSold(cgtEvents[i])]
           past == {i \in DOMAIN cgtEvents : cgtEvents[i].sold < month}
           now == {i \in DOMAIN cgtEvents : cgtEvents[i].sold = month}
           done == {i \in DOMAIN cgtEvents : cgtEvents[i].sold < month + 1}
<1>0. TypesOK /\ DatesOK /\ LotsOK /\ WindowOK /\ BookOK
  BY DEF IInv
<1>1. /\ month < MaxMonth /\ month' = month + 1 /\ price' \in Quoted
      /\ opening' = (IF month = OpenMonth THEN holdings_as_of ELSE opening)
      /\ lastUnrealised' = Unrealised
      /\ monthly' = (IF InWindow THEN monthly + MonthlyChange ELSE 0)
      /\ txns' = txns /\ gainLots' = gainLots /\ heldLots' = heldLots /\ amounts' = amounts
      /\ cgtEvents' = cgtEvents /\ earned' = earned /\ putIn' = putIn /\ mispriced' = mispriced
      /\ oversold' = oversold
  BY DEF NextMonth
<1>2. /\ month \in Nat /\ OpenMonth \in Nat /\ MaxMonth \in Nat
      /\ InWindow' <=> month = OpenMonth \/ InWindow
      /\ ~(month = OpenMonth /\ InWindow)
      /\ month' \in 0 .. MaxMonth
  BY <1>0, <1>1, ReportsAssumption DEF TypesOK, InWindow
<1>3. Unrealised \in Int
  BY <1>0, UnrealisedType
<1>4. ASSUME InWindow
      PROVE /\ MonthlyChange = Unrealised - lastUnrealised + SumOver(now, o)
            /\ SumOver(done, o) = SumOver(past, o) + SumOver(now, o)
            /\ SumOver(past, o) \in Int /\ SumOver(now, o) \in Int
  <2>1. MonthlyChange = Unrealised - lastUnrealised + SumOver(now, o)
    BY DEF MonthlyChange, AddUp
  <2>2. /\ IsFiniteSet(DOMAIN cgtEvents)
        /\ \A i \in DOMAIN cgtEvents : o[i] \in Int /\ cgtEvents[i].sold \in Int
    <3>1. \A i \in DOMAIN cgtEvents : o[i] \in Int /\ cgtEvents[i] \in Event
      BY <1>0, <1>4, EventTypes
    <3> QED BY <1>0, <3>1, EventTypes DEF Event
  <2>3. past \cap now = {} /\ past \cup now = done
    <3>1. ASSUME NEW i \in DOMAIN cgtEvents
          PROVE /\ cgtEvents[i].sold < month + 1 <=> (cgtEvents[i].sold < month \/ cgtEvents[i].sold = month)
                /\ ~(cgtEvents[i].sold < month /\ cgtEvents[i].sold = month)
      BY <1>2, <2>2
    <3> QED BY <3>1
  <2>4. IsFiniteSet(past) /\ IsFiniteSet(now) /\ \A i \in past \cup now : o[i] \in Int
    BY <2>2, FS_Subset
  <2> HIDE DEF past, now, done, o
  <2>5. SumOver(past \cup now, o) = SumOver(past, o) + SumOver(now, o)
    BY <2>3, <2>4, SumUnion
  <2>6. SumOver(past, o) \in Int /\ SumOver(now, o) \in Int
    BY <2>4, SumInt
  <2> QED BY <2>1, <2>3, <2>5, <2>6
<1>5. ASSUME InWindow
      PROVE /\ monthly = lastUnrealised - opening.unrealised + SumOver(past, o)
            /\ monthly \in Int /\ lastUnrealised \in Int /\ opening.unrealised \in Int
            /\ opening.unrealised = SumOver(Coins, opening.of)
            /\ opening' = opening
  BY <1>0, <1>1, <1>2, <1>5 DEF WindowOK, TypesOK, AddUp
<1>6. TypesOK'
  <2>1. monthly' \in Int /\ lastUnrealised' \in Int
    <3> HIDE DEF o, past, now, done
    <3>1. CASE InWindow
      BY <1>1, <1>3, <1>4, <1>5, <3>1
    <3>2. CASE ~InWindow
      BY <1>1, <1>3, <3>2
    <3> QED BY <3>1, <3>2
  <2>2. InWindow' =>
          /\ opening'.value \in Int /\ opening'.unrealised \in Int /\ opening'.transit \in BOOLEAN
          /\ opening'.of \in [Coins -> Int] /\ opening'.price \in [Coins -> Nat]
    <3>1. CASE month = OpenMonth
      <4> DEFINE V == SumOver(Coins, [c \in Coins |-> Holding(c).value]) + cash
                 U == [c \in Coins |-> Holding(c).unrealised]
                 t == InTransit
      <4>1. V \in Int
        <5>1. SumOver(Coins, [c \in Coins |-> Holding(c).value]) \in Int /\ cash \in Int
          BY <1>0, UnrealisedType DEF TypesOK, AmountsOK, cash
        <5> QED BY <5>1
      <4>2. U \in [Coins -> Int]
        BY <1>0, HoldingTypes
      <4>3. t \in BOOLEAN
        BY DEF InTransit
      <4>4. price \in [Coins -> Nat]
        BY <1>0, PriceTypes
      <4>5. /\ opening'.value = V /\ opening'.unrealised = Unrealised /\ opening'.of = U
            /\ opening'.price = price /\ opening'.transit = t
        BY <1>1, <3>1 DEF holdings_as_of
      <4> HIDE DEF V, U, t
      <4> QED BY <1>3, <4>1, <4>2, <4>3, <4>4, <4>5
    <3>2. CASE month # OpenMonth
      BY <1>0, <1>1, <1>2, <3>2 DEF TypesOK
    <3> QED BY <3>1, <3>2
  <2>3. /\ txns' \in 0 .. MaxTxns /\ gainLots' \in Inventories /\ heldLots' \in Inventories /\ AmountsOK(amounts')
        /\ cgtEvents' \in Seq(Event) /\ earned' \in Nat /\ putIn' \in Int /\ mispriced' \in Int /\ oversold' \in BOOLEAN
    BY <1>0, <1>1 DEF TypesOK
  <2> QED BY <1>1, <1>2, <2>1, <2>2, <2>3 DEF TypesOK
<1>7. DatesOK'
  <2>1. /\ \A c \in Coins : \A i \in DOMAIN heldLots[c] : heldLots[c][i].got <= month + 1
    <3> SUFFICES ASSUME NEW c \in Coins, NEW i \in DOMAIN heldLots[c]
                 PROVE heldLots[c][i].got <= month + 1
      OBVIOUS
    <3>1. heldLots[c] \in Seq(Lot)
      BY <1>0 DEF TypesOK, Inventories
    <3>2. heldLots[c][i].got \in Int
      <4> DEFINE lots == heldLots[c]
      <4>1. lots \in Seq(Lot) /\ i \in DOMAIN lots
        BY <3>1
      <4> HIDE DEF lots
      <4>2. i \in 1 .. Len(lots)
        BY <4>1, LotTypes
      <4>3. lots[i].got \in Nat
        BY <4>1, <4>2, LotTypes
      <4> QED BY <4>3 DEF lots
    <3>3. heldLots[c][i].got <= month
      BY <1>0 DEF DatesOK
    <3> QED BY <1>2, <3>2, <3>3
  <2>2. \A i \in DOMAIN cgtEvents : /\ cgtEvents[i].bought <= cgtEvents[i].sold
                                    /\ cgtEvents[i].sold > OpenMonth /\ cgtEvents[i].sold <= month + 1
    <3> TAKE i \in DOMAIN cgtEvents
    <3>1. cgtEvents[i] \in Event
      BY <1>0, EventTypes
    <3>2. cgtEvents[i].sold \in Int
      BY <3>1 DEF Event
    <3>3. cgtEvents[i].bought <= cgtEvents[i].sold /\ cgtEvents[i].sold > OpenMonth /\ cgtEvents[i].sold <= month
      BY <1>0 DEF DatesOK
    <3> QED BY <1>2, <3>2, <3>3
  <2> QED BY <1>1, <2>1, <2>2 DEF DatesOK
<1>8. LotsOK'
  BY <1>0, <1>1 DEF LotsOK
<1>9. ASSUME month = OpenMonth
      PROVE /\ ~InWindow /\ cgtEvents = <<>> /\ DOMAIN cgtEvents = {} /\ earned = 0 /\ putIn = 0 /\ mispriced = 0
            /\ opening' = holdings_as_of /\ monthly' = 0
  <2>1. ~InWindow
    BY <1>2, <1>9
  <2>2. cgtEvents = <<>> /\ earned = 0 /\ putIn = 0 /\ mispriced = 0
    BY <1>0, <2>1 DEF WindowOK
  <2> QED BY <1>1, <1>9, <2>1, <2>2
<1>10. WindowOK'
  <2>1. ASSUME ~InWindow'
        PROVE cgtEvents' = <<>> /\ earned' = 0 /\ putIn' = 0 /\ mispriced' = 0
    BY <1>0, <1>1, <1>2, <2>1 DEF WindowOK
  <2> DEFINE n == [i \in DOMAIN cgtEvents |-> OpenGainSold(cgtEvents[i])']
  <2>2. ASSUME InWindow'
        PROVE /\ opening'.unrealised = SumOver(Coins, opening'.of)
              /\ monthly' = lastUnrealised' - opening'.unrealised + SumOver(done, n)
    <3>1. CASE month = OpenMonth
      <4>1. done = {}
        BY <1>9, <3>1
      <4>2. SumOver(done, n) = 0
        BY <4>1, SumEmpty
      <4>3. opening'.unrealised = Unrealised /\ opening'.of = [c \in Coins |-> Holding(c).unrealised]
        BY <1>9, <3>1 DEF holdings_as_of
      <4>4. opening'.unrealised = SumOver(Coins, opening'.of)
        BY <4>3 DEF Unrealised
      <4>5. monthly' = 0 /\ lastUnrealised' = Unrealised
        BY <1>1, <1>9, <3>1
      <4>6. Unrealised - Unrealised + 0 = 0
        BY <1>3
      <4>7. monthly' = lastUnrealised' - opening'.unrealised + SumOver(done, n)
        BY <4>2, <4>3, <4>5, <4>6
      <4> QED BY <4>4, <4>7
    <3>2. CASE month # OpenMonth
      <4>1. InWindow /\ opening' = opening
        BY <1>2, <1>5, <2>2, <3>2
      <4>2. SumOver(done, n) = SumOver(done, o)
        <5>1. \A i \in DOMAIN cgtEvents : OpenGainSold(cgtEvents[i])' = OpenGainSold(cgtEvents[i])
          BY <1>1, <4>1 DEF OpenGainSold
        <5> QED BY <5>1
      <4> HIDE DEF o, n, past, now, done
      <4>3. monthly' = monthly + (Unrealised - lastUnrealised + SumOver(now, o)) /\ lastUnrealised' = Unrealised
        BY <1>1, <1>4, <4>1
      <4> QED BY <1>3, <1>4, <1>5, <4>1, <4>2, <4>3
    <3> QED BY <3>1, <3>2
  <2>3. AddUp(cgtEvents, {i \in DOMAIN cgtEvents : cgtEvents[i].sold < month}, OpenGainSold)' = SumOver(done, n)
    BY <1>1 DEF AddUp, OpenGainSold
  <2> HIDE DEF done, n
  <2> QED BY <2>1, <2>2, <2>3 DEF WindowOK
<1>11. BookOK'
  <2>1. BookValue' = BookValue
    BY <1>1 DEF BookValue, cash
  <2>2. CASE month = OpenMonth
    <3>0. opening' = holdings_as_of /\ holdings_as_of.transit = InTransit
      BY <1>1, <1>9, <2>2 DEF holdings_as_of
    <3> SUFFICES ASSUME ~oversold, ~InTransit
                 PROVE SumOver(DOMAIN cgtEvents, Gains(cgtEvents)) + earned
                         = BookValue - (holdings_as_of.value - holdings_as_of.unrealised) - putIn + mispriced
      BY <1>1, <1>9, <2>1, <2>2, <3>0 DEF BookOK
    <3>1. holdings_as_of.value - holdings_as_of.unrealised = BookValue /\ BookValue \in Int
      BY <1>0, HoldingsAreTheLots
    <3>2. SumOver(DOMAIN cgtEvents, Gains(cgtEvents)) = 0
      BY <1>9, <2>2, SumEmpty
    <3>3. earned = 0 /\ putIn = 0 /\ mispriced = 0
      BY <1>9, <2>2
    <3> QED BY <3>1, <3>2, <3>3
  <2>3. CASE month # OpenMonth
    BY <1>0, <1>1, <1>2, <2>1, <2>3 DEF BookOK
  <2> QED BY <2>2, <2>3
<1> QED BY <1>6, <1>7, <1>8, <1>10, <1>11 DEF IInv

LEMMA StepIInv ==
  IInv /\ [ReportsNext]_reportVars => IInv'
<1> SUFFICES ASSUME IInv, [ReportsNext]_reportVars
             PROVE IInv'
  OBVIOUS
<1>1. ASSUME NEW a \in Traders, NEW c \in Traded, NEW q \in Quantities, NEW own \in Stated,
             NEW paid \in Payments, NEW other \in Told,
             Buy(a, c, q, paid, own, other) \/ Sell(a, c, q, paid, own, other)
      PROVE IInv'
  BY <1>1, BuyStep
<1>2. ASSUME NEW a \in Traders, NEW c \in Traded, NEW own \in Stated, NEW said \in Stated,
             EarnCoins(a, c, 1, own, said) \/ Receive(a, c, 1, own) \/ PayFee(a, c, 1, own)
      PROVE IInv'
  <2>1. 1 \in Nat \ {0}
    OBVIOUS
  <2> QED BY <1>2, <2>1, OtherCoinsStep
<1>n. Stated # {}
  BY DEF Stated
<1>3. ASSUME NEW a \in Traders, NEW b \in Traders \cup Partners, NEW c \in Traded, NEW d \in Coins \ {c},
             \/ \E out, in \in Stated, isCost \in BOOLEAN : SwapInOne(a, b, c, d, 1, out, in, isCost)
             \/ \E toOut, toIn \in Told : Swap(a, b, c, d, 1, {}, toOut, {}, toIn)
      PROVE IInv'
  <2>1. 1 \in Nat \ {0} /\ a \in Traders \cup Partners /\ c \in Coins /\ d \in Coins
    BY ReportsAssumption
  <2>2. ASSUME NEW out \in Stated, NEW in \in Stated, NEW isCost \in BOOLEAN, SwapInOne(a, b, c, d, 1, out, in, isCost)
        PROVE IInv'
    BY <2>1, <2>2, SwapInOneStep
  <2>3. ASSUME NEW toOut \in Told, NEW toIn \in Told, Swap(a, b, c, d, 1, {}, toOut, {}, toIn)
        PROVE IInv'
    <3>1. toOut \in SUBSET Nat /\ toIn \in SUBSET Nat /\ {} \in SUBSET Nat
      BY SaysNat
    <3> QED BY <2>1, <2>3, <3>1, SwapStep
  <2> QED BY <1>3, <2>2, <2>3
<1>4. ASSUME NEW a \in Places \ Partners, NEW b \in Places \ Partners, NEW c \in Traded, Transfer(a, b, c, 1)
      PROVE IInv'
  <2>1. 1 \in Nat \ {0} /\ a \in Places /\ b \in Places /\ c \in Coins
    BY ReportsAssumption
  <2> QED BY <1>4, <2>1, TransferStep
<1>5. CASE EarnCash(1) \/ Deposit(1)
  BY <1>5, CashStep
<1>6. CASE NextMonth
  BY <1>6, MonthStep
<1>7. CASE UNCHANGED reportVars
  BY <1>7 DEF reportVars, IInv, TypesOK, DatesOK, LotsOK, WindowOK, BookOK, InWindow, BookValue, cash, AddUp, OpenGainSold
<1> QED BY <1>1, <1>2, <1>3, <1>4, <1>5, <1>6, <1>7, <1>n DEF ReportsNext

-----------------------------------------------------------------------------
(* Theorems.                                                               *)

LEMMA TypesOfReports ==
  ASSUME IInv
  PROVE ReportsTypeOK
<1>0. TypesOK /\ DatesOK /\ LotsOK
  BY DEF IInv
<1>1. ASSUME NEW c \in Coins, NEW l \in Range(gainLots[c]) \cup Range(heldLots[c])
      PROVE l.qty > 0 /\ l.cost \in Nat /\ l.got \in 0 .. month
  <2> DEFINE lots == heldLots[c]
  <2>1. lots \in Seq(Lot)
    BY <1>0 DEF TypesOK, Inventories
  <2>2. PICK i \in DOMAIN lots : l = lots[i]
    BY <1>0, <1>1 DEF Range, LotsOK
  <2>3. l.got <= month /\ month \in Nat
    BY <1>0, <2>2, ReportsAssumption DEF DatesOK, TypesOK
  <2> HIDE DEF lots
  <2>4. i \in 1 .. Len(lots)
    BY <2>1, <2>2, LotTypes
  <2>5. l.qty \in Nat \ {0} /\ l.cost \in Nat /\ l.got \in Nat
    BY <2>1, <2>2, <2>4, LotTypes
  <2> QED BY <2>3, <2>5
<1>2. ASSUME NEW e \in Range(cgtEvents)
      PROVE e.qty > 0 /\ e.bought <= e.sold /\ e.sold > OpenMonth
  <2>1. PICK i \in DOMAIN cgtEvents : e = cgtEvents[i]
    BY <1>2 DEF Range
  <2>2. e \in Event
    BY <1>0, <2>1, EventTypes
  <2>3. e.qty \in Nat \ {0}
    BY <2>2 DEF Event
  <2> QED BY <1>0, <2>1, <2>3 DEF DatesOK
<1> QED BY <1>0, <1>1, <1>2 DEF ReportsTypeOK, TypesOK

\* Both FIFO walks of reports.rs hold the same lots, as many as the coins there are;
\* and what was gained and earned since the window opened is what the lots at cost and
\* the cash grew by.
THEOREM ReportsInvariance == ReportsSpec => []IInv
BY InitIInv, StepIInv, PTL DEF ReportsSpec

\* Lots have units and a cost, dates are in order, and events are in the window.
THEOREM ReportsTypesCorrect == ReportsSpec => []ReportsTypeOK
BY ReportsInvariance, TypesOfReports, PTL

\* holdings_as_of: after the oldest surplus lots were dropped, the lots of a holding are
\* as many as the units it is valued at, whatever was sold short or transferred.
THEOREM CostCountsHeldUnitsSafe == ReportsSpec => []CostCountsHeldUnits
BY ReportsInvariance, UnitsOfHoldings, PTL

\* The total_return of the performance report is the growth of the portfolio of the
\* balances report that did not come from outside, but for what the walks misprice.
THEOREM ReturnIsGrowthSafe == ReportsSpec => []ReturnIsGrowth
BY ReportsInvariance, GrowthOfReturn, PTL

\* The attribution by coin and the changes by month each add up to the totals.
THEOREM PartsAddUpSafe == ReportsSpec => []PartsAddUp
BY ReportsInvariance, PartsOfReturn, PTL

\* assemble_loss_harvest: the estimate of tax saved is the difference generate_cgt_report
\* would show, for every rate of discount.
THEOREM HarvestIsWhatItSavesSafe == ReportsSpec => []HarvestIsWhatItSaves
BY ReportsInvariance, HarvestSaves, PTL

-----------------------------------------------------------------------------
(* Price files: what the last price of a moment is, and what rewriting a   *)
(* file leaves of it.                                                      *)

\* A sequence of elements of another set.
LEMMA SequenceOver ==
  ASSUME NEW T, NEW U, NEW s \in Seq(T), \A n \in DOMAIN s : s[n] \in U
  PROVE  s \in Seq(U)
<1>1. Len(s) \in Nat /\ DOMAIN s = 1 .. Len(s) /\ s \in [1 .. Len(s) -> T]
  BY LenProperties
<1>2. PICK n \in Nat : n = Len(s)
  BY <1>1
<1>3. s \in [1 .. n -> U]
  BY <1>1, <1>2
<1>4. s \in UNION {[1 .. k -> U] : k \in Nat}
  BY <1>3
<1> QED BY <1>4, SeqDef

\* Of some places of a sequence one is last.
LEMMA LastPlace ==
  ASSUME NEW T, NEW s \in Seq(T), NEW I \in SUBSET DOMAIN s, I # {}
  PROVE  \E i \in I : \A j \in I : j <= i
<1>1. IsFiniteSet(I) /\ I \in SUBSET Nat
  BY PlacesFinite
<1>2. PICK R : R = {p \in I \X I : p[2] < p[1]}
  OBVIOUS
<1>3. Orders(R, I)
  BY <1>1, <1>2 DEF Orders
<1>4. PICK i \in I : \A j \in I \ {i} : <<i, j>> \in R
  BY <1>1, <1>3, FirstInOrder
<1>5. \A j \in I \ {i} : j < i
  BY <1>2, <1>4
<1>6. ASSUME NEW j \in I PROVE j <= i
  <2>1. j \in Int /\ i \in Int
    BY <1>1
  <2>2. CASE j = i
    BY <2>1, <2>2
  <2>3. CASE j # i
    BY <2>1, <2>3, <1>5
  <2> QED BY <2>2, <2>3
<1> QED BY <1>6

LEMMA PlacesInDomain ==
  ASSUME NEW T, NEW lines \in Seq(T), NEW m
  PROVE  PlacesOf(lines, m) \in SUBSET DOMAIN lines /\ DOMAIN lines \in SUBSET Nat
<1>1. DOMAIN lines = 1 .. Len(lines)
  BY LenProperties
<1> QED BY <1>1 DEF PlacesOf

\* The price held is that of the last place.
LEMMA HeldIs ==
  ASSUME NEW T, NEW lines \in Seq(T), NEW m,
         NEW i \in PlacesOf(lines, m), \A j \in PlacesOf(lines, m) : j <= i
  PROVE  Held(lines, m) = <<lines[i].amount, lines[i].quote>>
<1> DEFINE at == PlacesOf(lines, m)
           k == CHOOSE n \in at : \A j \in at : j <= n
<1>1. k \in at /\ \A j \in at : j <= k
  OBVIOUS
<1>2. k \in Nat /\ i \in Nat /\ k <= i /\ i <= k
  BY <1>1, PlacesInDomain
<1>3. k = i
  BY <1>2
<1>4. Held(lines, m) = <<lines[k].amount, lines[k].quote>>
  BY DEF Held
<1> QED BY <1>3, <1>4

LEMMA HeldNone ==
  ASSUME NEW lines, NEW m, PlacesOf(lines, m) = {}
  PROVE  Held(lines, m) = NoPrice
BY DEF Held

LEMMA LinesTypes ==
  ASSUME NEW lines \in Seq(PriceLines), NEW i \in DOMAIN lines
  PROVE  lines[i] \in PriceLines /\ (lines[i] # Comment => lines[i] \in PriceSet)
<1>1. DOMAIN lines = 1 .. Len(lines)
  BY LenProperties
<1>2. lines[i] \in PriceLines
  BY <1>1, ElementOfSeq
<1> QED BY <1>2 DEF PriceLines

\* A file has a price for a moment exactly if a line of it is one.
LEMMA HeldType ==
  ASSUME NEW lines \in Seq(PriceLines), NEW m
  PROVE  /\ PlacesOf(lines, m) = {} => Held(lines, m) = NoPrice
         /\ PlacesOf(lines, m) # {} => Held(lines, m) \in QuotedPrices /\ Held(lines, m) # NoPrice
<1>1. PlacesOf(lines, m) = {} => Held(lines, m) = NoPrice
  BY HeldNone
<1>2. ASSUME PlacesOf(lines, m) # {} PROVE Held(lines, m) \in QuotedPrices
  <2>1. PICK i \in PlacesOf(lines, m) : \A j \in PlacesOf(lines, m) : j <= i
    BY <1>2, PlacesInDomain, LastPlace
  <2>2. lines[i] \in PriceSet
    BY PlacesInDomain, LinesTypes DEF PlacesOf
  <2>3. Held(lines, m) = <<lines[i].amount, lines[i].quote>>
    BY <2>1, HeldIs
  <2> QED BY <2>2, <2>3 DEF PriceSet, QuotedPrices
<1> QED BY <1>1, <1>2, TableAssumption

\* Taking lines in an order that has all prices of a moment, one after the other as
\* they were, leaves the price held for it.
LEMMA HeldTaken ==
  ASSUME NEW s \in Seq(PriceLines), NEW I \in SUBSET DOMAIN s, NEW R, NEW at, Lines(at, I, R), Orders(R, I),
         NEW m, PlacesOf(s, m) \in SUBSET I,
         \A i, j \in PlacesOf(s, m) : <<i, j>> \in R => i < j
  PROVE  Held(Taken(s, at), m) = Held(s, m)
<1>1. PICK o : o = Taken(s, at)
  OBVIOUS
<1>2. /\ o \in Seq(PriceLines) /\ DOMAIN o = 1 .. Cardinality(I) /\ Cardinality(I) \in Nat
      /\ \A n \in DOMAIN o : at[n] \in I /\ o[n] = s[at[n]]
      /\ \A i \in I : \E n \in DOMAIN o : at[n] = i
      /\ \A k, n \in DOMAIN o : k < n => <<at[k], at[n]>> \in R
  <2>1. /\ o \in Seq(PriceLines) /\ DOMAIN o = 1 .. Cardinality(I)
        /\ \A n \in DOMAIN o : at[n] \in I /\ o[n] = s[at[n]]
    <3>1. PICK T : T = PriceLines
      OBVIOUS
    <3>2. /\ Taken(s, at) \in Seq(T) /\ DOMAIN Taken(s, at) = 1 .. Cardinality(I)
          /\ \A n \in DOMAIN Taken(s, at) : at[n] \in I /\ Taken(s, at)[n] = s[at[n]]
      <4>1. s \in Seq(T)
        BY <3>1
      <4> QED BY <4>1, TakenElements
    <3> QED BY <1>1, <3>1, <3>2
  <2>2. /\ Cardinality(I) \in Nat
        /\ \A i \in I : \E n \in 1 .. Cardinality(I) : at[n] = i
        /\ \A k, n \in 1 .. Cardinality(I) : k < n => <<at[k], at[n]>> \in R
    BY DEF Lines
  <2> QED BY <2>1, <2>2
<1>3. \A n \in DOMAIN o : n \in PlacesOf(o, m) <=> at[n] \in PlacesOf(s, m)
  <2> SUFFICES ASSUME NEW n \in DOMAIN o PROVE n \in PlacesOf(o, m) <=> at[n] \in PlacesOf(s, m)
    OBVIOUS
  <2>1. at[n] \in DOMAIN s /\ o[n] = s[at[n]]
    BY <1>2
  <2> QED BY <2>1 DEF PlacesOf
<1>4. PlacesOf(o, m) \in SUBSET DOMAIN o
  BY DEF PlacesOf
<1>5. ASSUME PlacesOf(s, m) = {} PROVE Held(o, m) = Held(s, m)
  <2>1. PlacesOf(o, m) = {}
    BY <1>3, <1>4, <1>5
  <2> QED BY <1>5, <2>1, HeldNone
<1>6. ASSUME PlacesOf(s, m) # {} PROVE Held(o, m) = Held(s, m)
  <2>1. PICK i \in PlacesOf(s, m) : \A j \in PlacesOf(s, m) : j <= i
    BY <1>6, PlacesInDomain, LastPlace
  <2>2. PICK n \in DOMAIN o : at[n] = i
    BY <1>2
  <2>3. n \in PlacesOf(o, m)
    BY <1>3, <2>2
  <2>4. ASSUME NEW k \in PlacesOf(o, m) PROVE k <= n
    <3>1. k \in DOMAIN o /\ at[k] \in PlacesOf(s, m) /\ k \in Nat /\ n \in Nat
      BY <1>2, <1>3, <1>4
    <3>2. at[k] \in Nat /\ i \in Nat /\ at[k] <= i
      BY <2>1, <3>1, PlacesInDomain
    <3>3. ~(n < k)
      <4> SUFFICES ASSUME n < k PROVE FALSE
        OBVIOUS
      <4>1. <<i, at[k]>> \in R
        BY <1>2, <2>2, <3>1
      <4>2. i < at[k]
        BY <3>1, <4>1
      <4> QED BY <3>2, <4>2
    <3> QED BY <3>1, <3>3
  <2>5. Held(s, m) = <<s[i].amount, s[i].quote>>
    BY <2>1, HeldIs
  <2>6. Held(o, m) = <<o[n].amount, o[n].quote>>
    BY <1>2, <2>3, <2>4, HeldIs
  <2>7. o[n] = s[i]
    BY <1>2, <2>2
  <2> QED BY <2>5, <2>6, <2>7
<1> QED BY <1>1, <1>5, <1>6

\* The same of the lines at some of the places of a file.
LEMMA HeldOnly ==
  ASSUME NEW s \in Seq(PriceLines), NEW I \in SUBSET DOMAIN s, NEW m, PlacesOf(s, m) \in SUBSET I
  PROVE  Held(Only(s, I), m) = Held(s, m)
<1>1. I \in SUBSET Nat /\ IsFiniteSet(I)
  BY PlacesFinite
<1>2. PICK R : R = Less(I)
  OBVIOUS
<1>3. Orders(R, I)
  BY <1>1, <1>2 DEF Orders, Less
<1>4. PICK at : at = InOrder(I) /\ Lines(at, I, R)
  BY <1>1, <1>2, InOrderLines
<1>5. \A i, j \in PlacesOf(s, m) : <<i, j>> \in R => i < j
  BY <1>2 DEF Less
<1>6. Held(Taken(s, at), m) = Held(s, m)
  BY <1>3, <1>4, <1>5, HeldTaken
<1> QED BY <1>4, <1>6 DEF Only

\* Of two files one after the other the later one decides, if it has a price.
LEMMA HeldJoined ==
  ASSUME NEW a \in Seq(PriceLines), NEW b \in Seq(PriceLines), NEW m
  PROVE  /\ a \o b \in Seq(PriceLines)
         /\ PlacesOf(b, m) = {} => Held(a \o b, m) = Held(a, m)
         /\ PlacesOf(b, m) # {} => Held(a \o b, m) = Held(b, m)
<1>1. PICK c : c = a \o b
  OBVIOUS
<1>2. /\ c \in Seq(PriceLines) /\ Len(a) \in Nat /\ Len(b) \in Nat /\ Len(c) = Len(a) + Len(b)
      /\ DOMAIN a = 1 .. Len(a) /\ DOMAIN b = 1 .. Len(b) /\ DOMAIN c = 1 .. Len(c)
  BY <1>1, ConcatProperties, LenProperties
<1>3. \A i \in 1 .. Len(c) : c[i] = IF i <= Len(a) THEN a[i] ELSE b[i - Len(a)]
  BY <1>1, <1>2, ConcatProperties
<1>4. \A i \in DOMAIN a : i \in DOMAIN c /\ c[i] = a[i]
  BY <1>2, <1>3
<1>5. \A i \in DOMAIN b : i + Len(a) \in DOMAIN c /\ c[i + Len(a)] = b[i]
  <2> SUFFICES ASSUME NEW i \in DOMAIN b PROVE i + Len(a) \in DOMAIN c /\ c[i + Len(a)] = b[i]
    OBVIOUS
  <2>1. i \in Nat /\ i + Len(a) \in 1 .. Len(c) /\ ~(i + Len(a) <= Len(a)) /\ (i + Len(a)) - Len(a) = i
    BY <1>2
  <2> QED BY <1>2, <1>3, <2>1
<1>6. \A i \in DOMAIN c : i \in DOMAIN a \/ \E k \in DOMAIN b : i = k + Len(a)
  <2> SUFFICES ASSUME NEW i \in DOMAIN c, i \notin DOMAIN a PROVE \E k \in DOMAIN b : i = k + Len(a)
    OBVIOUS
  <2>1. i \in Nat /\ i > Len(a) /\ i <= Len(a) + Len(b) /\ i - Len(a) \in 1 .. Len(b) /\ i = (i - Len(a)) + Len(a)
    BY <1>2
  <2> QED BY <1>2, <2>1
<1>7. \A i \in DOMAIN a : i \in PlacesOf(c, m) <=> i \in PlacesOf(a, m)
  BY <1>4 DEF PlacesOf
<1>8. \A i \in DOMAIN b : i + Len(a) \in PlacesOf(c, m) <=> i \in PlacesOf(b, m)
  BY <1>5 DEF PlacesOf
<1>9. /\ PlacesOf(a, m) \in SUBSET DOMAIN a /\ PlacesOf(b, m) \in SUBSET DOMAIN b
      /\ PlacesOf(c, m) \in SUBSET DOMAIN c /\ DOMAIN a \in SUBSET Nat /\ DOMAIN b \in SUBSET Nat
  BY <1>2, PlacesInDomain
<1>10. ASSUME PlacesOf(b, m) = {} PROVE Held(c, m) = Held(a, m)
  <2>1. PlacesOf(c, m) = PlacesOf(a, m)
    BY <1>4, <1>6, <1>7, <1>8, <1>9, <1>10
  <2>2. CASE PlacesOf(a, m) = {}
    BY <2>1, <2>2, HeldNone
  <2>3. CASE PlacesOf(a, m) # {}
    <3>1. PICK i \in PlacesOf(a, m) : \A j \in PlacesOf(a, m) : j <= i
      BY <1>9, <2>3, LastPlace
    <3>2. Held(a, m) = <<a[i].amount, a[i].quote>> /\ Held(c, m) = <<c[i].amount, c[i].quote>>
      BY <1>2, <2>1, <3>1, HeldIs
    <3> QED BY <1>4, <1>9, <3>2
  <2> QED BY <2>2, <2>3
<1>11. ASSUME PlacesOf(b, m) # {} PROVE Held(c, m) = Held(b, m)
  <2>1. PICK i \in PlacesOf(b, m) : \A j \in PlacesOf(b, m) : j <= i
    BY <1>9, <1>11, LastPlace
  <2>2. i + Len(a) \in PlacesOf(c, m) /\ i \in Nat /\ i >= 1
    BY <1>2, <1>8, <1>9
  <2>3. ASSUME NEW j \in PlacesOf(c, m) PROVE j <= i + Len(a)
    <3>1. CASE j \in DOMAIN a
      BY <1>2, <2>2, <3>1
    <3>2. CASE j \notin DOMAIN a
      <4>1. PICK k \in DOMAIN b : j = k + Len(a)
        BY <1>6, <1>9, <3>2
      <4>2. k \in PlacesOf(b, m) /\ k \in Nat
        BY <1>8, <1>9, <4>1
      <4> QED BY <1>2, <2>1, <2>2, <4>1, <4>2
    <3> QED BY <3>1, <3>2
  <2>4. Held(c, m) = <<c[i + Len(a)].amount, c[i + Len(a)].quote>> /\ Held(b, m) = <<b[i].amount, b[i].quote>>
    BY <1>2, <2>1, <2>2, <2>3, HeldIs
  <2> QED BY <1>5, <1>9, <2>4
<1> QED BY <1>1, <1>2, <1>10, <1>11

\* Reading the prices of a file leaves each; those of one commodity are prices too.
LEMMA PricesParsed ==
  ASSUME NEW lines \in Seq(PriceLines)
  PROVE  /\ parse_prices(lines) \in Seq(PriceSet) /\ parse_prices(lines) \in Seq(PriceLines)
         /\ \A m : Held(parse_prices(lines), m) = Held(lines, m)
<1>1. PICK I : I = {i \in DOMAIN lines : lines[i] # Comment}
  OBVIOUS
<1>2. I \in SUBSET DOMAIN lines /\ parse_prices(lines) = Only(lines, I)
  BY <1>1 DEF parse_prices
<1>3. Only(lines, I) \in Seq(PriceLines) /\ \A n \in DOMAIN Only(lines, I) : \E i \in I : Only(lines, I)[n] = lines[i]
  BY <1>2, OnlyElements
<1>4. \A i \in I : lines[i] \in PriceSet
  BY <1>1, LinesTypes
<1>5. Only(lines, I) \in Seq(PriceSet)
  BY <1>3, <1>4, SequenceOver
<1>6. ASSUME NEW m PROVE Held(Only(lines, I), m) = Held(lines, m)
  <2>1. PlacesOf(lines, m) \in SUBSET I
    BY <1>1 DEF PlacesOf
  <2> QED BY <1>2, <2>1, HeldOnly
<1> QED BY <1>2, <1>3, <1>5, <1>6

LEMMA PricesAreLines == ASSUME NEW ps \in Seq(PriceSet) PROVE ps \in Seq(PriceLines)
<1>1. DOMAIN ps = 1 .. Len(ps)
  BY LenProperties
<1>2. \A n \in DOMAIN ps : ps[n] \in PriceLines
  BY <1>1, ElementOfSeq DEF PriceLines
<1> QED BY <1>2, SequenceOver

LEMMA PricesOfTypes ==
  ASSUME NEW ps \in Seq(PriceSet), NEW s
  PROVE  PricesOf(ps, s) \in Seq(PriceSet)
<1>1. PICK I : I = {i \in DOMAIN ps : ps[i].symbol = s}
  OBVIOUS
<1>2. I \in SUBSET DOMAIN ps /\ PricesOf(ps, s) = Only(ps, I)
  BY <1>1 DEF PricesOf
<1> QED BY <1>2, OnlyElements

\* Sorting by the text of the moment leaves the price of each.
LEMMA SortedByTextHolds ==
  ASSUME NEW ps \in Seq(PriceSet)
  PROVE  /\ SortedByText(ps) \in Seq(PriceSet)
         /\ \A m : Held(SortedByText(ps), m) = Held(ps, m)
<1> DEFINE I == DOMAIN ps
           R == {p \in I \X I : EarlierText(ps[p[1]], ps[p[2]]) \/ (~EarlierText(ps[p[2]], ps[p[1]]) /\ p[1] < p[2])}
           at == Sorted(I, LAMBDA i, j : EarlierText(ps[i], ps[j]) \/ (~EarlierText(ps[j], ps[i]) /\ i < j))
           Has(x, n) == Cardinality({y \in I : EarlierText(ps[y], ps[x]) \/ (~EarlierText(ps[x], ps[y]) /\ y < x)}) = n - 1
<1>1. I \in SUBSET Nat /\ IsFiniteSet(I) /\ I \in SUBSET DOMAIN ps
  BY PlacesFinite
<1>2. \A i \in I : ps[i].day \in Nat /\ ps[i].form \in Nat /\ ps[i] # Comment
  <2> SUFFICES ASSUME NEW i \in I PROVE ps[i].day \in Nat /\ ps[i].form \in Nat /\ ps[i] # Comment
    OBVIOUS
  <2>1. I = 1 .. Len(ps)
    BY LenProperties
  <2>2. ps[i] \in PriceSet
    BY <2>1, ElementOfSeq
  <2> QED BY <2>2, PriceAssumption DEF PriceSet, Forms
<1>3. Orders(R, I)
  <2>1. \A i, j \in I : <<i, j>> \in R <=> (EarlierText(ps[i], ps[j]) \/ (~EarlierText(ps[j], ps[i]) /\ i < j))
    OBVIOUS
  <2> DEFINE Day(i) == ps[i].day
             Form(i) == ps[i].form
             First(i, j) == Day(i) < Day(j) \/ (Day(i) = Day(j) /\ (Form(i) < Form(j) \/ (Form(i) = Form(j) /\ i < j)))
  <2>2. \A i \in I : Day(i) \in Nat /\ Form(i) \in Nat /\ i \in Nat
    BY <1>1, <1>2
  <2>3. ASSUME NEW i \in I, NEW j \in I PROVE <<i, j>> \in R <=> First(i, j)
    <3>1. <<i, j>> \in R <=> (EarlierText(ps[i], ps[j]) \/ (~EarlierText(ps[j], ps[i]) /\ i < j))
      BY <2>1
    <3>2. /\ EarlierText(ps[i], ps[j]) <=> Day(i) < Day(j) \/ (Day(i) = Day(j) /\ Form(i) < Form(j))
          /\ EarlierText(ps[j], ps[i]) <=> Day(j) < Day(i) \/ (Day(j) = Day(i) /\ Form(j) < Form(i))
      BY DEF EarlierText
    <3> HIDE DEF R, Day, Form
    <3> QED BY <2>2, <3>1, <3>2
  <2> HIDE DEF R, I, Day, Form
  <2>4. \A x \in I : ~First(x, x)
    BY <2>2
  <2>5. \A x, y, z \in I : First(x, y) /\ First(y, z) => First(x, z)
    BY <2>2
  <2>6. \A x, y \in I : x = y \/ First(x, y) \/ First(y, x)
    BY <2>2
  <2> HIDE DEF First
  <2> QED BY <2>3, <2>4, <2>5, <2>6 DEF Orders
<1>4. \A x, n : x \in I => (Has(x, n) <=> Rank(R, I)[x] = n - 1)
  <2> SUFFICES ASSUME NEW x \in I
               PROVE  Rank(R, I)[x] = Cardinality({y \in I : EarlierText(ps[y], ps[x]) \/ (~EarlierText(ps[x], ps[y]) /\ y < x)})
    OBVIOUS
  <2>1. {y \in I : EarlierText(ps[y], ps[x]) \/ (~EarlierText(ps[x], ps[y]) /\ y < x)} = {y \in I : <<y, x>> \in R}
    OBVIOUS
  <2> QED BY <2>1 DEF Rank
<1>5. at = [n \in 1 .. Cardinality(I) |-> CHOOSE x \in I : Has(x, n)]
  BY DEF Sorted
<1>6. ASSUME NEW n \in 1 .. Cardinality(I) PROVE \E x \in I : Has(x, n)
  <2>1. Cardinality(I) \in Nat
    BY <1>1, FS_CardinalityType
  <2>2. n - 1 \in 0 .. Cardinality(I) - 1
    BY <2>1
  <2>3. \E x \in I : Rank(R, I)[x] = n - 1
    <3> HIDE DEF R, I
    <3> QED BY <1>1, <1>3, <2>2, Ranks
  <2> QED BY <1>4, <2>3
<1>7. SortedByText(ps) = Taken(ps, at)
  BY DEF SortedByText
<1>8. \A i, j \in I : When(ps[i]) = When(ps[j]) /\ <<i, j>> \in R => i < j
  <2> SUFFICES ASSUME NEW i \in I, NEW j \in I, When(ps[i]) = When(ps[j]), <<i, j>> \in R PROVE i < j
    OBVIOUS
  <2>1. ps[i].day = ps[j].day /\ ps[i].form = ps[j].form
    BY DEF When
  <2>2. ~EarlierText(ps[i], ps[j])
    BY <1>2, <2>1 DEF EarlierText
  <2> QED BY <2>2
<1> HIDE DEF Has, at
<1>9. \A n \in 1 .. Cardinality(I) : at[n] \in I /\ Has(at[n], n)
  BY <1>5, <1>6
<1>10. DOMAIN at = 1 .. Cardinality(I) /\ at = [n \in DOMAIN at |-> at[n]]
  BY <1>5
<1>11. \A n \in DOMAIN at : at[n] \in I /\ Rank(R, I)[at[n]] = n - 1
  BY <1>4, <1>9, <1>10
<1> HIDE DEF R, I
<1>12. Lines(at, I, R)
  BY <1>1, <1>3, <1>10, <1>11, RankedLines
<1>13. SortedByText(ps) \in Seq(PriceSet)
  <2>1. PICK T : T = PriceSet
    OBVIOUS
  <2>2. Taken(ps, at) \in Seq(T)
    <3>1. ps \in Seq(T)
      BY <2>1
    <3> QED BY <1>1, <1>12, <3>1, TakenElements
  <2> QED BY <1>7, <2>1, <2>2
<1>14. ASSUME NEW m PROVE Held(Taken(ps, at), m) = Held(ps, m)
  <2>1. PlacesOf(ps, m) \in SUBSET I
    BY DEF PlacesOf, I
  <2>2. \A i, j \in PlacesOf(ps, m) : <<i, j>> \in R => i < j
    BY <1>8, <2>1 DEF PlacesOf
  <2>3. ps \in Seq(PriceLines)
    BY PricesAreLines
  <2>4. I \in SUBSET DOMAIN ps
    BY <1>1
  <2> QED BY <1>3, <1>12, <2>1, <2>2, <2>3, <2>4, HeldTaken
<1> QED BY <1>7, <1>13, <1>14

LEMMA PriceElements ==
  ASSUME NEW ps \in Seq(PriceSet)
  PROVE  /\ DOMAIN ps = 1 .. Len(ps) /\ Len(ps) \in Nat
         /\ \A i \in DOMAIN ps : ps[i] \in PriceSet /\ ps[i] # Comment /\ When(ps[i]) \in PriceMoments
<1>1. DOMAIN ps = 1 .. Len(ps) /\ Len(ps) \in Nat
  BY LenProperties
<1>2. ASSUME NEW i \in DOMAIN ps PROVE ps[i] \in PriceSet
  BY <1>1, ElementOfSeq
<1>3. ASSUME NEW i \in DOMAIN ps PROVE When(ps[i]) \in PriceMoments /\ ps[i] # Comment
  BY <1>2, PriceAssumption DEF PriceSet, When, PriceMoments
<1> QED BY <1>1, <1>2, <1>3

\* What is kept of a file are its prices for the moments no new price is of.
LEMMA KeptHolds ==
  ASSUME NEW new \in Seq(PriceSet), NEW old \in Seq(PriceLines)
  PROVE  /\ Kept(new, old) \in Seq(PriceSet)
         /\ \A m : PlacesOf(new, m) # {} => PlacesOf(Kept(new, old), m) = {}
         /\ \A m : PlacesOf(new, m) = {} => Held(Kept(new, old), m) = Held(old, m)
<1>1. PICK ps : ps = parse_prices(old)
  OBVIOUS
<1>2. PICK I : I = {i \in DOMAIN ps : \A j \in DOMAIN new : When(new[j]) # When(ps[i])}
  OBVIOUS
<1>3. PICK k : k = Kept(new, old)
  OBVIOUS
<1>4. k = Only(ps, I) /\ I \in SUBSET DOMAIN ps
  BY <1>1, <1>2, <1>3 DEF Kept
<1>5. ps \in Seq(PriceSet) /\ ps \in Seq(PriceLines) /\ \A m : Held(ps, m) = Held(old, m)
  BY <1>1, PricesParsed
<1>6. k \in Seq(PriceSet) /\ \A n \in DOMAIN k : \E i \in I : k[n] = ps[i]
  BY <1>4, <1>5, OnlyElements
<1>7. ASSUME NEW m, PlacesOf(new, m) # {} PROVE PlacesOf(k, m) = {}
  <2> SUFFICES ASSUME NEW n \in PlacesOf(k, m) PROVE FALSE
    OBVIOUS
  <2>1. n \in DOMAIN k /\ When(k[n]) = m
    BY DEF PlacesOf
  <2>2. PICK i \in I : k[n] = ps[i]
    BY <1>6, <2>1
  <2>3. PICK j \in DOMAIN new : When(new[j]) = m
    BY <1>7 DEF PlacesOf
  <2> QED BY <1>2, <2>1, <2>2, <2>3
<1>8. ASSUME NEW m, PlacesOf(new, m) = {} PROVE Held(k, m) = Held(old, m)
  <2>1. \A j \in DOMAIN new : When(new[j]) # m
    BY <1>8, PriceElements DEF PlacesOf
  <2>2. PlacesOf(ps, m) \in SUBSET I
    BY <1>2, <2>1 DEF PlacesOf
  <2>3. Held(Only(ps, I), m) = Held(ps, m)
    BY <1>4, <1>5, <2>2, HeldOnly
  <2> QED BY <1>4, <1>5, <2>3
<1> QED BY <1>3, <1>6, <1>7, <1>8

\* A file that is merged into has the new prices and what it had for other moments.
LEMMA MergedHolds ==
  ASSUME NEW new \in Seq(PriceSet), NEW old \in Seq(PriceLines)
  PROVE  /\ new \o Kept(new, old) \in Seq(PriceSet)
         /\ \A m : Held(new \o Kept(new, old), m) = IF Held(new, m) = NoPrice THEN Held(old, m) ELSE Held(new, m)
<1>1. PICK k : k = Kept(new, old)
  OBVIOUS
<1>2. /\ k \in Seq(PriceSet) /\ \A m : PlacesOf(new, m) # {} => PlacesOf(k, m) = {}
      /\ \A m : PlacesOf(new, m) = {} => Held(k, m) = Held(old, m)
  BY <1>1, KeptHolds
<1>3. new \in Seq(PriceLines) /\ k \in Seq(PriceLines)
  BY <1>2, PricesAreLines
<1>4. new \o k \in Seq(PriceSet)
  <2>1. PICK T : T = PriceSet
    OBVIOUS
  <2>2. new \in Seq(T) /\ k \in Seq(T)
    BY <1>2, <2>1
  <2>3. new \o k \in Seq(T)
    BY <2>2, ConcatProperties
  <2> QED BY <2>1, <2>3
<1>5. ASSUME NEW m PROVE Held(new \o k, m) = IF Held(new, m) = NoPrice THEN Held(old, m) ELSE Held(new, m)
  <2>1. /\ PlacesOf(k, m) = {} => Held(new \o k, m) = Held(new, m)
        /\ PlacesOf(k, m) # {} => Held(new \o k, m) = Held(k, m)
    BY <1>3, HeldJoined
  <2>2. /\ PlacesOf(new, m) = {} <=> Held(new, m) = NoPrice
        /\ PlacesOf(k, m) = {} <=> Held(k, m) = NoPrice
    BY <1>3, HeldType
  <2>3. CASE PlacesOf(new, m) = {}
    BY <1>2, <2>1, <2>2, <2>3
  <2>4. CASE PlacesOf(new, m) # {}
    BY <1>2, <2>1, <2>2, <2>4
  <2> QED BY <2>3, <2>4
<1> QED BY <1>1, <1>4, <1>5

LEMMA RewrittenRow ==
  ASSUME NEW kind, NEW new \in Seq(PriceSet), NEW old \in Seq(PriceLines)
  PROVE  /\ Rewritten(kind, new, old) \in Seq(PriceSet)
         /\ kind = "replace" => TableRow(Rewritten(kind, new, old)) = TableRow(new)
         /\ kind # "replace" => TableRow(Rewritten(kind, new, old)) = Table!Merged(TableRow(old), TableRow(new))
<1>1. CASE kind = "replace"
  <2>1. Rewritten(kind, new, old) = SortedByText(new)
    BY <1>1 DEF Rewritten
  <2>2. SortedByText(new) \in Seq(PriceSet) /\ \A m : Held(SortedByText(new), m) = Held(new, m)
    BY SortedByTextHolds
  <2>3. TableRow(SortedByText(new)) = TableRow(new)
    BY <2>2 DEF TableRow
  <2> QED BY <1>1, <2>1, <2>2, <2>3
<1>2. CASE kind # "replace"
  <2>1. PICK ps : ps = new \o Kept(new, old)
    OBVIOUS
  <2>2. Rewritten(kind, new, old) = SortedByText(ps)
    BY <1>2, <2>1 DEF Rewritten
  <2>3. /\ ps \in Seq(PriceSet)
        /\ \A m : Held(ps, m) = IF Held(new, m) = NoPrice THEN Held(old, m) ELSE Held(new, m)
    BY <2>1, MergedHolds
  <2>4. SortedByText(ps) \in Seq(PriceSet) /\ \A m : Held(SortedByText(ps), m) = Held(ps, m)
    BY <2>3, SortedByTextHolds
  <2>5. TableRow(SortedByText(ps)) = Table!Merged(TableRow(old), TableRow(new))
    BY <2>3, <2>4 DEF TableRow, Table!Merged
  <2> QED BY <1>2, <2>2, <2>4, <2>5
<1> QED BY <1>1, <1>2

LEMMA DaysInOrder ==
  ASSUME NEW ps \in Seq(PriceSet)
  PROVE  /\ DaysOf(ps) \in SUBSET PriceDays /\ Lines(InOrder(DaysOf(ps)), DaysOf(ps), Less(DaysOf(ps)))
         /\ \A m, n \in DOMAIN InOrder(DaysOf(ps)) :
              InOrder(DaysOf(ps))[m] = InOrder(DaysOf(ps))[n] => m = n
<1>1. PICK D : D = DaysOf(ps)
  OBVIOUS
<1>2. D \in SUBSET PriceDays /\ D \in SUBSET Nat
  <2>1. ASSUME NEW d \in D PROVE d \in PriceDays
    <3>1. PICK i \in DOMAIN ps : d = ps[i].day
      BY <1>1 DEF DaysOf
    <3>2. ps[i] \in PriceSet
      BY PriceElements
    <3> QED BY <3>1, <3>2 DEF PriceSet
  <2> QED BY <2>1, PriceAssumption
<1>3. IsFiniteSet(D)
  <2>1. PICK day : day = [i \in DOMAIN ps |-> ps[i].day]
    OBVIOUS
  <2>2. day \in Surjection(DOMAIN ps, D)
    BY <1>1, <2>1 DEF DaysOf, Surjection
  <2>3. IsFiniteSet(DOMAIN ps)
    BY PlacesFinite
  <2> QED BY <2>2, <2>3, FS_Surjection
<1>4. Lines(InOrder(D), D, Less(D))
  BY <1>2, <1>3, InOrderLines
<1>5. PICK at : at = InOrder(D)
  OBVIOUS
<1>6. ASSUME NEW m \in DOMAIN at, NEW n \in DOMAIN at, at[m] = at[n] PROVE m = n
  <2>1. /\ DOMAIN at = 1 .. Cardinality(D) /\ Cardinality(D) \in Nat
        /\ \A k \in DOMAIN at : at[k] \in D
        /\ \A k, l \in DOMAIN at : k < l => <<at[k], at[l]>> \in Less(D)
    <3>1. at \in [1 .. Cardinality(D) -> D]
      BY <1>4, <1>5 DEF Lines
    <3>2. DOMAIN at = 1 .. Cardinality(D)
      BY <3>1
    <3> QED BY <1>4, <1>5, <3>1, <3>2 DEF Lines
  <2>2. \A k, l \in DOMAIN at : k < l => at[k] < at[l]
    BY <2>1 DEF Less
  <2>3. at[m] \in Nat /\ ~(at[m] < at[n]) /\ ~(at[n] < at[m])
    <3>1. at[m] \in Nat
      BY <1>2, <2>1
    <3> QED BY <1>6, <3>1
  <2>4. ~(m < n) /\ ~(n < m) /\ m \in Nat /\ n \in Nat
    BY <2>1, <2>2, <2>3
  <2> QED BY <2>4
<1> QED BY <1>1, <1>2, <1>4, <1>5, <1>6

LEMMA LastOfDay ==
  ASSUME NEW ps \in Seq(PriceSet), NEW d \in DaysOf(ps)
  PROVE  /\ LastOf(ps, d) \in DOMAIN ps /\ ps[LastOf(ps, d)].day = d
         /\ \A j \in DOMAIN ps : ps[j].day = d => j <= LastOf(ps, d)
<1>1. PICK I : I = {i \in DOMAIN ps : ps[i].day = d}
  OBVIOUS
<1>2. I \in SUBSET DOMAIN ps /\ I # {}
  BY <1>1 DEF DaysOf
<1>3. PICK i \in I : \A j \in I : j <= i
  BY <1>2, LastPlace
<1>4. \E n \in DOMAIN ps : ps[n].day = d /\ \A j \in DOMAIN ps : ps[j].day = d => j <= n
  BY <1>1, <1>3
<1> QED BY <1>4 DEF LastOf

LEMMA RestatedRow ==
  ASSUME NEW s \in PriceSymbols, NEW new \in Seq(PriceSet), NEW old \in Seq(PriceLines)
  PROVE  /\ Restated(s, new, old) \in Seq(PriceSet)
         /\ Table!Restates(TableRow(old), TableRow(new), TableRow(Restated(s, new, old)))
<1>1. PICK ps, all, D, days : /\ ps = parse_prices(old) /\ all = ps \o new
                              /\ D = DaysOf(all) /\ days = InOrder(D)
  OBVIOUS
<1>2. /\ ps \in Seq(PriceSet) /\ ps \in Seq(PriceLines) /\ new \in Seq(PriceLines)
      /\ \A m : Held(ps, m) = Held(old, m)
  BY <1>1, PricesParsed, PricesAreLines
<1>3. all \in Seq(PriceSet)
  <2>1. PICK T : T = PriceSet
    OBVIOUS
  <2>2. ps \in Seq(T) /\ new \in Seq(T)
    BY <1>2, <2>1
  <2>3. ps \o new \in Seq(T)
    BY <2>2, ConcatProperties
  <2> QED BY <1>1, <2>1, <2>3
<1>4. /\ Len(all) = Len(ps) + Len(new)
      /\ \A i \in 1 .. Len(all) : all[i] = IF i <= Len(ps) THEN ps[i] ELSE new[i - Len(ps)]
  BY <1>1, <1>2, ConcatProperties
<1>5. /\ DOMAIN all = 1 .. Len(all) /\ DOMAIN ps = 1 .. Len(ps) /\ DOMAIN new = 1 .. Len(new)
      /\ Len(all) \in Nat /\ Len(ps) \in Nat /\ Len(new) \in Nat
      /\ \A i \in DOMAIN all : all[i] \in PriceSet /\ When(all[i]) \in PriceMoments
      /\ \A i \in DOMAIN ps : ps[i] # Comment
      /\ \A i \in DOMAIN new : new[i] # Comment
  BY <1>2, <1>3, PriceElements
<1>6. PICK o : o = Restated(s, new, old)
  OBVIOUS
<1>7. o = [n \in DOMAIN days |-> Price(s, days[n], 1, all[LastOf(all, days[n])].amount, PluginCurrency)]
  BY <1>1, <1>6 DEF Restated
<1>8. /\ D \in SUBSET PriceDays /\ Cardinality(D) \in Nat
      /\ DOMAIN days = 1 .. Cardinality(D) /\ \A n \in DOMAIN days : days[n] \in D
      /\ \A d \in D : \E n \in DOMAIN days : days[n] = d
      /\ \A m, n \in DOMAIN days : days[m] = days[n] => m = n
  <2>1. /\ D \in SUBSET PriceDays /\ Lines(days, D, Less(D))
        /\ \A m, n \in DOMAIN days : days[m] = days[n] => m = n
    BY <1>1, <1>3, DaysInOrder
  <2>2. Cardinality(D) \in Nat /\ days \in [1 .. Cardinality(D) -> D]
    BY <2>1 DEF Lines
  <2>3. DOMAIN days = 1 .. Cardinality(D) /\ \A n \in DOMAIN days : days[n] \in D
    BY <2>2
  <2>4. \A d \in D : \E n \in 1 .. Cardinality(D) : days[n] = d
    BY <2>1 DEF Lines
  <2> QED BY <2>1, <2>2, <2>3, <2>4
<1>9. \A d \in D : /\ LastOf(all, d) \in DOMAIN all /\ all[LastOf(all, d)].day = d
                   /\ \A j \in DOMAIN all : all[j].day = d => j <= LastOf(all, d)
  BY <1>1, <1>3, LastOfDay
<1>10. DOMAIN o = 1 .. Cardinality(D) /\ \A n \in DOMAIN o : o[n] \in PriceSet /\ o[n].amount = all[LastOf(all, days[n])].amount
                              /\ When(o[n]) = <<days[n], 1>>
  <2>1. DOMAIN o = DOMAIN days
    BY <1>7
  <2> SUFFICES ASSUME NEW n \in DOMAIN o
               PROVE  o[n] \in PriceSet /\ o[n].amount = all[LastOf(all, days[n])].amount /\ When(o[n]) = <<days[n], 1>>
    BY <1>8, <2>1
  <2>2. PICK a, d : a = all[LastOf(all, days[n])].amount /\ d = days[n]
    OBVIOUS
  <2>3. a \in PriceAmounts /\ d \in PriceDays
    BY <1>5, <1>8, <1>9, <2>1, <2>2 DEF PriceSet
  <2>4. o[n] = [symbol |-> s, day |-> d, form |-> 1, amount |-> a, quote |-> PluginCurrency]
    BY <1>7, <2>1, <2>2 DEF Price
  <2>5. o[n] \in PriceSet
    BY <2>3, <2>4 DEF PriceSet, Forms, PriceCurrencies
  <2> QED BY <2>2, <2>4, <2>5 DEF When
<1>11. o \in Seq(PriceSet)
  <2>1. PICK n \in Nat : n = Cardinality(D)
    BY <1>8
  <2>2. o \in [1 .. n -> PriceSet]
    <3>1. o = [k \in 1 .. n |-> o[k]]
      BY <1>7, <1>8, <2>1
    <3> QED BY <1>10, <2>1, <3>1
  <2>3. o \in UNION {[1 .. k -> PriceSet] : k \in Nat}
    BY <2>2
  <2> QED BY <2>3, SeqDef
<1>12. o \in Seq(PriceLines)
  BY <1>11, PricesAreLines
<1> DEFINE A == TableRow(old)
           B == TableRow(new)
           C == TableRow(o)
<1>13. ASSUME NEW m \in PriceMoments
       PROVE A[m] = Held(old, m) /\ B[m] = Held(new, m) /\ C[m] = Held(o, m) /\ [k \in PriceMoments |-> k[1]][m] = m[1]
  BY DEF TableRow
<1>14. ASSUME NEW m \in PriceMoments, Table!Merged(A, B)[m] # NoPrice
       PROVE  Table!OnDay(C, m[1]) # {}
  <2>1. Held(old, m) # NoPrice \/ Held(new, m) # NoPrice
    BY <1>13, <1>14 DEF Table!Merged
  <2>2. PlacesOf(ps, m) # {} \/ PlacesOf(new, m) # {}
    BY <1>2, <2>1, HeldNone
  <2>3. PICK i \in DOMAIN all : all[i].day = m[1]
    <3>1. CASE PlacesOf(ps, m) # {}
      <4>1. PICK i \in DOMAIN ps : When(ps[i]) = m
        BY <3>1 DEF PlacesOf
      <4>2. i \in DOMAIN all /\ all[i] = ps[i]
        BY <1>4, <1>5
      <4> QED BY <4>1, <4>2 DEF When
    <3>2. CASE PlacesOf(new, m) # {}
      <4>1. PICK i \in DOMAIN new : When(new[i]) = m
        BY <3>2 DEF PlacesOf
      <4>2. i + Len(ps) \in 1 .. Len(all) /\ ~(i + Len(ps) <= Len(ps)) /\ (i + Len(ps)) - Len(ps) = i
        BY <1>4, <1>5
      <4>3. all[i + Len(ps)] = new[i]
        BY <1>4, <4>2
      <4> QED BY <1>5, <4>1, <4>2, <4>3 DEF When
    <3> QED BY <2>2, <3>1, <3>2
  <2>4. m[1] \in D
    BY <1>1, <2>3 DEF DaysOf
  <2>5. PICK n \in DOMAIN days : days[n] = m[1]
    BY <1>8, <2>4
  <2>6. n \in DOMAIN o /\ o[n] # Comment /\ When(o[n]) = <<m[1], 1>>
    BY <1>8, <1>10, <2>5, PriceAssumption
  <2>7. PICK k : k = <<m[1], 1>>
    OBVIOUS
  <2>8. k \in PriceMoments /\ k[1] = m[1]
    BY <1>8, <2>4, <2>7 DEF PriceMoments, Forms
  <2>9. Held(o, k) # NoPrice
    <3>1. PlacesOf(o, k) # {}
      BY <2>6, <2>7 DEF PlacesOf
    <3> QED BY <1>12, <3>1, HeldType
  <2> QED BY <1>13, <2>8, <2>9 DEF Table!OnDay
<1>15. ASSUME NEW m \in PriceMoments, C[m] # NoPrice
       PROVE  LET from == IF Table!OnDay(B, m[1]) = {} THEN A ELSE B
              IN \E k \in Table!OnDay(from, m[1]) : C[m][1] = from[k][1]
  <2>1. PlacesOf(o, m) # {}
    BY <1>13, <1>15, HeldNone
  <2>2. PICK n \in PlacesOf(o, m) : \A j \in PlacesOf(o, m) : j <= n
    BY <1>12, <2>1, PlacesInDomain, LastPlace
  <2>3. n \in DOMAIN o /\ n \in DOMAIN days /\ When(o[n]) = m
    BY <1>8, <1>10, <2>2 DEF PlacesOf
  <2>4. days[n] = m[1] /\ m[1] \in D
    BY <1>8, <1>10, <2>3
  <2>5. Held(o, m) = <<o[n].amount, o[n].quote>>
    BY <1>12, <2>2, HeldIs
  <2>6. PICK i \in DOMAIN all : i = LastOf(all, m[1]) /\ all[i].day = m[1] /\ \A j \in DOMAIN all : all[j].day = m[1] => j <= i
    BY <1>9, <2>4
  <2>7. C[m][1] = all[i].amount
    BY <1>10, <1>13, <2>3, <2>4, <2>5, <2>6
  <2>8. PICK k : k = When(all[i])
    OBVIOUS
  <2>9. k \in PriceMoments /\ k[1] = m[1]
    BY <1>5, <2>6, <2>8 DEF When
  <2>10. CASE i <= Len(ps)
    <3>1. i \in DOMAIN ps /\ all[i] = ps[i] /\ i \in Nat
      BY <1>4, <1>5, <2>10
    <3>2. i \in PlacesOf(ps, k)
      BY <1>5, <2>8, <3>1 DEF PlacesOf
    <3>3. ASSUME NEW j \in PlacesOf(ps, k) PROVE j <= i
      <4>1. j \in DOMAIN ps /\ When(ps[j]) = k
        BY DEF PlacesOf
      <4>2. j \in DOMAIN all /\ all[j] = ps[j]
        BY <1>4, <1>5, <4>1
      <4>3. all[j].day = m[1]
        BY <2>9, <4>1, <4>2 DEF When
      <4> QED BY <2>6, <4>2, <4>3
    <3>4. Held(ps, k) = <<ps[i].amount, ps[i].quote>>
      BY <1>2, <3>2, <3>3, HeldIs
    <3>5. A[k] # NoPrice /\ A[k][1] = all[i].amount
      <4>1. Held(ps, k) # NoPrice
        BY <1>2, <3>2, HeldType
      <4> QED BY <1>2, <1>13, <2>9, <3>1, <3>4, <4>1
    <3>6. Table!OnDay(B, m[1]) = {}
      <4> SUFFICES ASSUME NEW l \in PriceMoments, l[1] = m[1], B[l] # NoPrice PROVE FALSE
        BY <1>13 DEF Table!OnDay
      <4>1. PlacesOf(new, l) # {}
        BY <1>13, HeldNone
      <4>2. PICK j \in DOMAIN new : When(new[j]) = l
        BY <4>1 DEF PlacesOf
      <4>3. j + Len(ps) \in 1 .. Len(all) /\ ~(j + Len(ps) <= Len(ps)) /\ (j + Len(ps)) - Len(ps) = j
        BY <1>4, <1>5
      <4>4. all[j + Len(ps)] = new[j] /\ j + Len(ps) \in DOMAIN all
        BY <1>4, <1>5, <4>3
      <4>5. all[j + Len(ps)].day = m[1]
        BY <4>2, <4>4 DEF When
      <4>6. j + Len(ps) <= i
        BY <2>6, <4>4, <4>5
      <4> QED BY <1>5, <2>10, <3>1, <4>3, <4>6
    <3>7. k \in Table!OnDay(A, m[1])
      BY <1>13, <2>9, <3>5 DEF Table!OnDay
    <3> QED BY <2>7, <3>5, <3>6, <3>7
  <2>11. CASE ~(i <= Len(ps))
    <3>1. PICK j : j = i - Len(ps)
      OBVIOUS
    <3>2. j \in DOMAIN new /\ all[i] = new[j] /\ j \in Nat /\ i = j + Len(ps)
      BY <1>4, <1>5, <2>11, <3>1
    <3>3. j \in PlacesOf(new, k)
      BY <1>5, <2>8, <3>2 DEF PlacesOf
    <3>4. ASSUME NEW l \in PlacesOf(new, k) PROVE l <= j
      <4>1. l \in DOMAIN new /\ When(new[l]) = k
        BY DEF PlacesOf
      <4>2. l + Len(ps) \in 1 .. Len(all) /\ ~(l + Len(ps) <= Len(ps)) /\ (l + Len(ps)) - Len(ps) = l /\ l \in Nat
        BY <1>4, <1>5, <4>1
      <4>3. all[l + Len(ps)] = new[l] /\ l + Len(ps) \in DOMAIN all
        BY <1>4, <1>5, <4>2
      <4>4. all[l + Len(ps)].day = m[1]
        BY <2>9, <4>1, <4>3 DEF When
      <4>5. l + Len(ps) <= i
        BY <2>6, <4>3, <4>4
      <4> QED BY <1>5, <3>2, <4>2, <4>5
    <3>5. Held(new, k) = <<new[j].amount, new[j].quote>>
      BY <1>2, <3>3, <3>4, HeldIs
    <3>6. B[k] # NoPrice /\ B[k][1] = all[i].amount
      <4>1. Held(new, k) # NoPrice
        BY <1>2, <3>3, HeldType
      <4> QED BY <1>13, <2>9, <3>2, <3>5, <4>1
    <3>7. k \in Table!OnDay(B, m[1])
      BY <1>13, <2>9, <3>6 DEF Table!OnDay
    <3> QED BY <2>7, <3>6, <3>7
  <2> QED BY <2>10, <2>11
<1>16. Table!Restates(A, B, C)
  <2> HIDE DEF A, B, C
  <2> QED BY <1>13, <1>14, <1>15 DEF Table!Restates
<1> QED BY <1>6, <1>11, <1>16

-----------------------------------------------------------------------------
(* The steps.                                                              *)

\* What a writer has read is still in the file, and no two have read one file, unless
\* two have overlapped.
PricesInv ==
  /\ PricesTypeOK
  /\ ~overlapped =>
       /\ \A w \in PriceWriters : reading[w] # NotRead => reading[w].lines = files[reading[w].symbol]
       /\ \A v, w \in PriceWriters :
            v # w /\ reading[v] # NotRead /\ reading[w] # NotRead => reading[v].symbol # reading[w].symbol

\* What is written is a file of prices.
LEMMA WrittenTypes ==
  ASSUME PricesTypeOK, NEW w \in PriceWriters, reading[w] # NotRead
  PROVE  /\ reading[w].symbol \in PriceSymbols /\ reading[w].lines \in Seq(PriceLines)
         /\ job[w] \in PriceJobs /\ PricesOf(job[w].new, reading[w].symbol) \in Seq(PriceSet)
         /\ Written(w) \in Seq(PriceLines)
<1>1. reading[w] \in PriceFiles /\ job[w] \in PriceJobs
  BY DEF PricesTypeOK
<1>2. PICK s, old : s = reading[w].symbol /\ old = reading[w].lines /\ s \in PriceSymbols /\ old \in Seq(PriceLines)
  BY <1>1 DEF PriceFiles
<1>3. job[w].new \in Seq(PriceSet)
  BY <1>1 DEF PriceJobs
<1>4. PICK new : new = PricesOf(job[w].new, s) /\ new \in Seq(PriceSet)
  BY <1>3, PricesOfTypes
<1>5. Written(w) = IF job[w].kind = "plugin" THEN Restated(s, new, old) ELSE Rewritten(job[w].kind, new, old)
  BY <1>2, <1>4 DEF Written
<1>6. Restated(s, new, old) \in Seq(PriceSet)
  BY <1>2, <1>4, RestatedRow
<1>7. Rewritten(job[w].kind, new, old) \in Seq(PriceSet)
  BY <1>2, <1>4, RewrittenRow
<1>8. Written(w) \in Seq(PriceSet)
  BY <1>5, <1>6, <1>7
<1> QED BY <1>1, <1>2, <1>4, <1>8, PricesAreLines

LEMMA PricesStart == PricesInit => PricesInv
<1> SUFFICES ASSUME PricesInit PROVE PricesInv
  OBVIOUS
<1>1. files \in [PriceSymbols -> Seq(PriceLines)]
  BY PriceAssumption DEF PricesInit
<1>2. \A w \in PriceWriters : job[w] = Done /\ reading[w] = NotRead
  BY DEF PricesInit
<1>3. job \in [PriceWriters -> PriceJobs \cup {Done}] /\ reading \in [PriceWriters -> PriceFiles \cup {NotRead}]
  BY DEF PricesInit
<1>4. overlapped \in BOOLEAN /\ priceChanges \in 0 .. MaxPriceChanges
  <2>1. overlapped = FALSE /\ priceChanges = 0 /\ MaxPriceChanges \in Nat
    BY PriceAssumption DEF PricesInit
  <2>2. overlapped \in BOOLEAN
    BY <2>1
  <2>3. priceChanges \in 0 .. MaxPriceChanges
    BY <2>1
  <2> QED BY <2>2, <2>3
<1> QED BY <1>1, <1>2, <1>3, <1>4 DEF PricesInv, PricesTypeOK

LEMMA BeginStep ==
  ASSUME PricesInv, NEW w \in PriceWriters, NEW kind \in {"set", "merge", "replace", "plugin"},
         NEW new \in Seq(PriceSet), Begin(w, kind, new)
  PROVE  /\ PricesInv'
         /\ Table!Ask(w)
<1>1. PICK j : j = [kind |-> kind, new |-> new, left |-> {new[i].symbol : i \in DOMAIN new}]
  OBVIOUS
<1>2. /\ job[w] = Done /\ job' = [job EXCEPT ![w] = j] /\ priceChanges' = priceChanges + 1
      /\ priceChanges < MaxPriceChanges /\ UNCHANGED <<files, reading, overlapped>>
  BY <1>1 DEF Begin
<1>3. j \in PriceJobs
  <2>1. PICK left : left = {new[i].symbol : i \in DOMAIN new}
    OBVIOUS
  <2>2. left \in SUBSET PriceSymbols
    <3> SUFFICES ASSUME NEW i \in DOMAIN new PROVE new[i].symbol \in PriceSymbols
      BY <2>1
    <3>1. new[i] \in PriceSet
      BY PriceElements
    <3> QED BY <3>1 DEF PriceSet
  <2>3. j = [kind |-> kind, new |-> new, left |-> left]
    BY <1>1, <2>1
  <2> QED BY <2>2, <2>3 DEF PriceJobs
<1>4. /\ job \in [PriceWriters -> PriceJobs \cup {Done}] /\ reading[w] = NotRead
      /\ priceChanges \in 0 .. MaxPriceChanges
  BY <1>2 DEF PricesInv, PricesTypeOK
<1>5. \A v \in PriceWriters : v # w => job'[v] = job[v]
  BY <1>2, <1>4
<1>6. PricesTypeOK'
  <2>1. job' \in [PriceWriters -> PriceJobs \cup {Done}]
    BY <1>2, <1>3, <1>4
  <2>2. priceChanges' \in 0 .. MaxPriceChanges
    BY <1>2, <1>4, PriceAssumption
  <2>3. \A v \in PriceWriters : reading'[v] # NotRead => job'[v] # Done /\ reading'[v].symbol \in job'[v].left
    BY <1>2, <1>4, <1>5 DEF PricesInv, PricesTypeOK
  <2> QED BY <1>2, <2>1, <2>2, <2>3 DEF PricesInv, PricesTypeOK
<1>7. PricesInv'
  BY <1>2, <1>6 DEF PricesInv
<1>8. Table!Ask(w)
  <2>1. \A s \in PriceSymbols : [v \in PriceWriters |-> [r \in PriceSymbols |-> Request(job[v], r)]][w][s] = Done
    BY <1>2 DEF Request
  <2>2. \A d \in PriceWriters \ {w} :
          [v \in PriceWriters |-> [r \in PriceSymbols |-> Request(job'[v], r)]][d]
            = [v \in PriceWriters |-> [r \in PriceSymbols |-> Request(job[v], r)]][d]
    BY <1>5
  <2> QED BY <1>2, <2>1, <2>2 DEF Table!Ask, Request
<1> QED BY <1>7, <1>8

LEMMA ReadStep ==
  ASSUME PricesInv, NEW w \in PriceWriters, ReadPrices(w)
  PROVE  /\ PricesInv'
         /\ UNCHANGED <<files, job, overlapped>> \/ Table!Clash
<1>1. PICK s \in job[w].left :
        /\ reading' = [reading EXCEPT ![w] = [symbol |-> s, lines |-> files[s]]]
        /\ overlapped' = (overlapped \/ \E v \in PriceWriters : reading[v] # NotRead /\ reading[v].symbol = s)
  BY DEF ReadPrices
<1>2. job[w] # Done /\ reading[w] = NotRead /\ UNCHANGED <<files, job, priceChanges>>
  BY DEF ReadPrices
<1>3. /\ files \in [PriceSymbols -> Seq(PriceLines)] /\ job[w] \in PriceJobs
      /\ reading \in [PriceWriters -> PriceFiles \cup {NotRead}] /\ overlapped \in BOOLEAN
  BY <1>2 DEF PricesInv, PricesTypeOK
<1>4. s \in PriceSymbols
  BY <1>3 DEF PriceJobs
<1>5. PICK r : r = [symbol |-> s, lines |-> files[s]]
  OBVIOUS
<1>6. r \in PriceFiles /\ r.symbol = s /\ r.lines = files[s]
  BY <1>3, <1>4, <1>5 DEF PriceFiles
<1>7. /\ reading' \in [PriceWriters -> PriceFiles \cup {NotRead}] /\ reading'[w] = r
      /\ \A v \in PriceWriters : v # w => reading'[v] = reading[v]
  BY <1>1, <1>3, <1>5, <1>6
<1>8. overlapped' \in BOOLEAN
  BY <1>1, <1>3
<1>9. \A v \in PriceWriters : reading'[v] # NotRead => job'[v] # Done /\ reading'[v].symbol \in job'[v].left
  BY <1>2, <1>6, <1>7 DEF PricesInv, PricesTypeOK
<1>10. PricesTypeOK'
  BY <1>2, <1>7, <1>8, <1>9 DEF PricesInv, PricesTypeOK
<1>11. ASSUME ~overlapped'
       PROVE  /\ \A v \in PriceWriters : reading'[v] # NotRead => reading'[v].lines = files'[reading'[v].symbol]
              /\ \A u, v \in PriceWriters :
                   u # v /\ reading'[u] # NotRead /\ reading'[v] # NotRead => reading'[u].symbol # reading'[v].symbol
  <2>1. ~overlapped /\ \A v \in PriceWriters : reading[v] # NotRead => reading[v].symbol # s
    BY <1>1, <1>11
  <2>2. /\ \A v \in PriceWriters : reading[v] # NotRead => reading[v].lines = files[reading[v].symbol]
        /\ \A u, v \in PriceWriters :
             u # v /\ reading[u] # NotRead /\ reading[v] # NotRead => reading[u].symbol # reading[v].symbol
    BY <2>1 DEF PricesInv
  <2>3. ASSUME NEW v \in PriceWriters, reading'[v] # NotRead PROVE reading'[v].lines = files'[reading'[v].symbol]
    BY <1>2, <1>6, <1>7, <2>2, <2>3
  <2>4. ASSUME NEW u \in PriceWriters, NEW v \in PriceWriters,
               u # v, reading'[u] # NotRead, reading'[v] # NotRead
        PROVE  reading'[u].symbol # reading'[v].symbol
    BY <1>6, <1>7, <2>1, <2>2, <2>4
  <2> QED BY <2>3, <2>4
<1>12. PricesInv'
  BY <1>10, <1>11 DEF PricesInv
<1>13. UNCHANGED <<files, job, overlapped>> \/ Table!Clash
  BY <1>1, <1>2, <1>3 DEF Table!Clash
<1> QED BY <1>12, <1>13

\* A request stands for the symbols a writer has left.
LEMMA Requests ==
  ASSUME NEW j \in PriceJobs, NEW s
  PROVE  /\ s \notin j.left => Request(j, s) = Done
         /\ s \in j.left => /\ Request(j, s) = [kind |-> j.kind, new |-> TableRow(PricesOf(j.new, s))]
                            /\ Request(j, s) \in PriceRequests /\ Request(j, s) # Done
<1>1. j # Done
  BY PriceAssumption
<1>2. j.kind \in {"set", "merge", "replace", "plugin"} /\ j.new \in Seq(PriceSet)
  BY DEF PriceJobs
<1>3. PricesOf(j.new, s) \in Seq(PriceLines)
  BY <1>2, PricesOfTypes, PricesAreLines
<1>4. TableRow(PricesOf(j.new, s)) \in [PriceMoments -> QuotedPrices \cup {NoPrice}]
  BY <1>3, HeldType DEF TableRow
<1>5. [kind |-> j.kind, new |-> TableRow(PricesOf(j.new, s))] \in PriceRequests
  BY <1>2, <1>4 DEF PriceRequests
<1> QED BY <1>1, <1>5, TableAssumption DEF Request

\* A file written alone is the change that was asked for.
LEMMA WriteMakes ==
  ASSUME PricesInv, NEW w \in PriceWriters, WritePrices(w), ~overlapped
  PROVE  Table!Makes(Request(job[w], reading[w].symbol), TableRow(files[reading[w].symbol]), TableRow(Written(w)))
<1>1. PICK s, old, new : /\ s = reading[w].symbol /\ old = reading[w].lines
                         /\ new = PricesOf(job[w].new, s)
  OBVIOUS
<1>2. reading[w] # NotRead
  BY DEF WritePrices
<1>3. /\ s \in PriceSymbols /\ old \in Seq(PriceLines) /\ job[w] \in PriceJobs /\ new \in Seq(PriceSet)
      /\ s \in job[w].left /\ old = files[s]
  BY <1>1, <1>2, WrittenTypes DEF PricesInv, PricesTypeOK
<1>4. PICK kind : kind = job[w].kind /\ kind \in {"set", "merge", "replace", "plugin"}
  BY <1>3 DEF PriceJobs
<1>5. PICK q : q = Request(job[w], s) /\ q.kind = kind /\ q.new = TableRow(new)
  <2>1. Request(job[w], s) = [kind |-> kind, new |-> TableRow(new)]
    BY <1>1, <1>3, <1>4, Requests
  <2> QED BY <2>1
<1>6. PICK after : after = Written(w)
  OBVIOUS
<1>7. after = IF kind = "plugin" THEN Restated(s, new, old) ELSE Rewritten(kind, new, old)
  BY <1>1, <1>4, <1>6 DEF Written
<1>8. CASE kind = "plugin"
  <2>1. Table!Restates(TableRow(old), TableRow(new), TableRow(after))
    BY <1>3, <1>7, <1>8, RestatedRow
  <2>2. Table!Makes(q, TableRow(old), TableRow(after))
    BY <1>5, <1>8, <2>1 DEF Table!Makes
  <2> QED BY <1>1, <1>3, <1>5, <1>6, <2>2
<1>9. CASE kind = "replace"
  <2>1. TableRow(after) = TableRow(new)
    BY <1>3, <1>7, <1>9, RewrittenRow
  <2>2. Table!Makes(q, TableRow(old), TableRow(after))
    BY <1>5, <1>9, <2>1 DEF Table!Makes
  <2> QED BY <1>1, <1>3, <1>5, <1>6, <2>2
<1>10. CASE kind \in {"set", "merge"}
  <2>1. TableRow(after) = Table!Merged(TableRow(old), TableRow(new))
    BY <1>3, <1>7, <1>10, RewrittenRow
  <2>2. Table!Makes(q, TableRow(old), TableRow(after))
    BY <1>5, <1>10, <2>1 DEF Table!Makes
  <2> QED BY <1>1, <1>3, <1>5, <1>6, <2>2
<1> QED BY <1>4, <1>8, <1>9, <1>10

LEMMA WriteStep ==
  ASSUME PricesInv, NEW w \in PriceWriters, WritePrices(w)
  PROVE  /\ PricesInv'
         /\ Table!Clash \/ \E s \in PriceSymbols : Table!Make(w, s)
<1>1. PICK s : s = reading[w].symbol
  OBVIOUS
<1>2. reading[w] # NotRead /\ UNCHANGED <<overlapped, priceChanges>>
  BY DEF WritePrices
<1>3. /\ s \in PriceSymbols /\ job[w] \in PriceJobs /\ s \in job[w].left /\ job[w] # Done
      /\ Written(w) \in Seq(PriceLines)
  BY <1>1, <1>2, WrittenTypes DEF PricesInv, PricesTypeOK
<1>4. PICK j : j = LeftAfter(job[w], s)
  OBVIOUS
<1>5. /\ files' = [files EXCEPT ![s] = Written(w)] /\ job' = [job EXCEPT ![w] = j]
      /\ reading' = [reading EXCEPT ![w] = NotRead]
  <2>1. /\ files' = [files EXCEPT ![s] = Written(w)] /\ reading' = [reading EXCEPT ![w] = NotRead]
        /\ job' = [job EXCEPT ![w] = LeftAfter(job[w], s)]
    BY <1>1 DEF WritePrices
  <2> QED BY <1>4, <2>1
<1>6. /\ files \in [PriceSymbols -> Seq(PriceLines)] /\ job \in [PriceWriters -> PriceJobs \cup {Done}]
      /\ reading \in [PriceWriters -> PriceFiles \cup {NotRead}]
  BY DEF PricesInv, PricesTypeOK
<1>7. /\ job[w].left # {s} => j \in PriceJobs /\ j.kind = job[w].kind /\ j.new = job[w].new /\ j.left = job[w].left \ {s}
      /\ job[w].left = {s} => j = Done
  BY <1>3, <1>4 DEF PriceJobs, LeftAfter
<1>8. /\ files' \in [PriceSymbols -> Seq(PriceLines)] /\ job' \in [PriceWriters -> PriceJobs \cup {Done}]
      /\ reading' \in [PriceWriters -> PriceFiles \cup {NotRead}]
  BY <1>3, <1>5, <1>6, <1>7
<1>9. /\ files'[s] = Written(w) /\ \A r \in PriceSymbols : r # s => files'[r] = files[r]
      /\ job'[w] = j /\ \A v \in PriceWriters : v # w => job'[v] = job[v]
      /\ reading'[w] = NotRead /\ \A v \in PriceWriters : v # w => reading'[v] = reading[v]
  BY <1>3, <1>5, <1>6
<1>10. \A v \in PriceWriters : reading'[v] # NotRead => job'[v] # Done /\ reading'[v].symbol \in job'[v].left
  BY <1>9 DEF PricesInv, PricesTypeOK
<1>11. PricesTypeOK'
  BY <1>2, <1>8, <1>10 DEF PricesInv, PricesTypeOK
<1>12. ASSUME ~overlapped'
       PROVE  /\ \A v \in PriceWriters : reading'[v] # NotRead => reading'[v].lines = files'[reading'[v].symbol]
              /\ \A u, v \in PriceWriters :
                   u # v /\ reading'[u] # NotRead /\ reading'[v] # NotRead => reading'[u].symbol # reading'[v].symbol
  <2>1. /\ \A v \in PriceWriters : reading[v] # NotRead => reading[v].lines = files[reading[v].symbol]
        /\ \A u, v \in PriceWriters :
             u # v /\ reading[u] # NotRead /\ reading[v] # NotRead => reading[u].symbol # reading[v].symbol
    BY <1>2, <1>12 DEF PricesInv
  <2>2. ASSUME NEW v \in PriceWriters, reading'[v] # NotRead PROVE reading'[v].lines = files'[reading'[v].symbol]
    <3>1. v # w /\ reading'[v] = reading[v] /\ reading[v] # NotRead
      BY <1>9, <2>2
    <3>2. reading[v].symbol # s /\ reading[v].symbol \in PriceSymbols
      BY <1>1, <1>2, <1>6, <2>1, <3>1 DEF PriceFiles
    <3> QED BY <1>9, <2>1, <3>1, <3>2
  <2>3. ASSUME NEW u \in PriceWriters, NEW v \in PriceWriters,
               u # v, reading'[u] # NotRead, reading'[v] # NotRead
        PROVE  reading'[u].symbol # reading'[v].symbol
    BY <1>9, <2>1, <2>3
  <2> QED BY <2>2, <2>3
<1>13. PricesInv'
  BY <1>11, <1>12 DEF PricesInv
<1>14. CASE overlapped
  BY <1>2, <1>14, <1>13 DEF Table!Clash
<1>15. CASE ~overlapped
  <2> DEFINE requests == [v \in PriceWriters |-> [r \in PriceSymbols |-> Request(job[v], r)]]
             after == [v \in PriceWriters |-> [r \in PriceSymbols |-> Request(job'[v], r)]]
  <2>1. requests[w][s] = Request(job[w], s) /\ requests[w][s] # Done
    BY <1>3, Requests
  <2>2. after = [requests EXCEPT ![w][s] = Done]
    <3>1. \A v \in PriceWriters : v # w => after[v] = requests[v]
      BY <1>9
    <3>2. \A r \in PriceSymbols : Request(j, r) = IF r = s THEN Done ELSE Request(job[w], r)
      <4> SUFFICES ASSUME NEW r \in PriceSymbols PROVE Request(j, r) = IF r = s THEN Done ELSE Request(job[w], r)
        OBVIOUS
      <4>1. CASE job[w].left = {s}
        <5>1. Request(j, r) = Done
          BY <1>7, <4>1 DEF Request
        <5>2. r # s => Request(job[w], r) = Done
          BY <1>3, <4>1, Requests
        <5> QED BY <5>1, <5>2
      <4>2. CASE job[w].left # {s}
        <5>1. /\ r \notin j.left => Request(j, r) = Done
              /\ r \in j.left => Request(j, r) = [kind |-> j.kind, new |-> TableRow(PricesOf(j.new, r))]
          BY <1>7, <4>2, Requests
        <5>2. /\ r \notin job[w].left => Request(job[w], r) = Done
              /\ r \in job[w].left => Request(job[w], r) = [kind |-> job[w].kind, new |-> TableRow(PricesOf(job[w].new, r))]
          BY <1>3, Requests
        <5> QED BY <1>7, <4>2, <5>1, <5>2
      <4> QED BY <4>1, <4>2
    <3>3. after[w] = [requests[w] EXCEPT ![s] = Done]
      <4>1. after[w] = [r \in PriceSymbols |-> Request(j, r)] /\ requests[w] = [r \in PriceSymbols |-> Request(job[w], r)]
        BY <1>9
      <4> HIDE DEF after, requests
      <4> QED BY <3>2, <4>1
    <3>4. requests = [v \in PriceWriters |-> requests[v]] /\ after = [v \in PriceWriters |-> after[v]]
      OBVIOUS
    <3> HIDE DEF after, requests
    <3> QED BY <3>1, <3>3, <3>4
  <2> DEFINE held == [r \in PriceSymbols |-> TableRow(files[r])]
             rewritten == [r \in PriceSymbols |-> TableRow(files'[r])]
  <2>3. \A r \in PriceSymbols \ {s} : rewritten[r] = held[r]
    BY <1>9
  <2>4. Table!Makes(requests[w][s], held[s], rewritten[s])
    <3>1. Table!Makes(Request(job[w], s), TableRow(files[s]), TableRow(Written(w)))
      BY <1>1, <1>15, WriteMakes
    <3>2. held[s] = TableRow(files[s]) /\ rewritten[s] = TableRow(Written(w))
      BY <1>3, <1>9
    <3> QED BY <2>1, <3>1, <3>2
  <2>5. Table!Make(w, s)
    BY <1>2, <2>1, <2>2, <2>3, <2>4 DEF Table!Make
  <2> QED BY <1>3, <1>13, <2>5
<1> QED BY <1>14, <1>15

LEMMA PricesStep ==
  ASSUME PricesInv, PricesNext
  PROVE  PricesInv' /\ [Table!Next]_Table!tableVars
<1>1. ASSUME NEW w \in PriceWriters, NEW kind \in {"set", "merge", "replace", "plugin"},
             NEW new \in Seq(PriceSet), Begin(w, kind, new)
      PROVE  PricesInv' /\ Table!Next
  <2>1. PricesInv' /\ Table!Ask(w)
    BY <1>1, BeginStep
  <2> QED BY <2>1 DEF Table!Next
<1>2. ASSUME NEW s \in PriceSymbols, NEW d \in PriceDays, NEW a \in PriceAmounts, NEW form \in Forms, NEW q \in PriceCurrencies
      PROVE  <<Price(s, d, form, a, q)>> \in Seq(PriceSet)
  <2>1. Price(s, d, form, a, q) \in PriceSet
    BY DEF Price, PriceSet
  <2>2. PICK p : p = Price(s, d, form, a, q)
    OBVIOUS
  <2>3. PICK T : T = PriceSet /\ p \in T
    BY <2>1, <2>2
  <2>4. <<p>> \in Seq(T)
    BY <2>3
  <2> QED BY <2>2, <2>3, <2>4
<1>3. BaseCurrency \in PriceCurrencies /\ PluginCurrency \in PriceCurrencies /\ 0 \in Forms /\ 1 \in Forms
  BY DEF PriceCurrencies, Forms
<1>4. ASSUME NEW w \in Commands, NEW s \in PriceSymbols, NEW d \in PriceDays, NEW a \in PriceAmounts, set_price(w, s, d, a)
      PROVE  PricesInv' /\ Table!Next
  <2>1. w \in PriceWriters /\ Begin(w, "set", <<Price(s, d, 0, a, BaseCurrency)>>)
    BY <1>4 DEF PriceWriters, set_price
  <2>2. <<Price(s, d, 0, a, BaseCurrency)>> \in Seq(PriceSet)
    BY <1>2, <1>3
  <2> QED BY <1>1, <2>1, <2>2
<1>5. ASSUME NEW w \in PricePlugins, NEW s \in PriceSymbols, NEW d \in PriceDays, NEW a \in PriceAmounts, run_price_plugin(w, s, d, a)
      PROVE  PricesInv' /\ Table!Next
  <2>1. w \in PriceWriters /\ Begin(w, "plugin", <<Price(s, d, 1, a, PluginCurrency)>>)
    BY <1>5 DEF PriceWriters, run_price_plugin
  <2>2. <<Price(s, d, 1, a, PluginCurrency)>> \in Seq(PriceSet)
    BY <1>2, <1>3
  <2> QED BY <1>1, <2>1, <2>2
<1>6. ASSUME NEW w \in Commands, NEW lines \in PriceImports, NEW merge \in BOOLEAN, import_prices(w, lines, merge)
      PROVE  PricesInv' /\ Table!Next
  <2>1. PICK kind : kind = IF merge THEN "merge" ELSE "replace"
    OBVIOUS
  <2>2. w \in PriceWriters /\ Begin(w, kind, parse_prices(lines)) /\ kind \in {"set", "merge", "replace", "plugin"}
    BY <1>6, <2>1 DEF PriceWriters, import_prices
  <2>3. parse_prices(lines) \in Seq(PriceSet)
    BY PricesParsed, PriceAssumption
  <2> QED BY <1>1, <2>2, <2>3
<1>7. ASSUME NEW w \in PriceWriters, ReadPrices(w) PROVE PricesInv' /\ [Table!Next]_Table!tableVars
  <2>1. PricesInv' /\ (UNCHANGED <<files, job, overlapped>> \/ Table!Clash)
    BY <1>7, ReadStep
  <2>2. CASE UNCHANGED <<files, job, overlapped>>
    BY <2>1, <2>2 DEF Table!tableVars
  <2>3. CASE Table!Clash
    BY <2>1, <2>3 DEF Table!Next
  <2> QED BY <2>1, <2>2, <2>3
<1>8. ASSUME NEW w \in PriceWriters, WritePrices(w) PROVE PricesInv' /\ Table!Next
  <2>1. PricesInv' /\ (Table!Clash \/ \E s \in PriceSymbols : Table!Make(w, s))
    BY <1>8, WriteStep
  <2> QED BY <2>1 DEF Table!Next
<1> QED BY <1>4, <1>5, <1>6, <1>7, <1>8 DEF PricesNext

LEMMA PricesStutter == ASSUME PricesInv, UNCHANGED priceVars PROVE PricesInv' /\ UNCHANGED Table!tableVars
BY DEF PricesInv, PricesTypeOK, priceVars, Table!tableVars

\* Files hold prices and lines that are none, and who has read one has it to do.
THEOREM PricesTyped == PricesSpec => []PricesTypeOK
<1>1. PricesInv /\ [PricesNext]_priceVars => PricesInv'
  BY PricesStep, PricesStutter
<1>2. PricesInv => PricesTypeOK
  BY DEF PricesInv
<1> QED BY PricesStart, <1>1, <1>2, PTL DEF PricesSpec

\* The price files implement the table of PriceTable: as long as no two changes of a file
\* overlap, each makes the change it was asked for and loses no other price
\* (set_price_directive, import_prices_file, the price plugins).
THEOREM PricesRefine == PricesSpec => ImplementsPriceTable
<1>1. PricesInit => Table!Init
  <2> SUFFICES ASSUME PricesInit PROVE Table!Init
    OBVIOUS
  <2>1. ASSUME NEW s \in PriceSymbols PROVE TableRow(files[s]) \in [PriceMoments -> QuotedPrices \cup {NoPrice}]
    <3>1. files[s] \in Seq(PriceLines)
      BY PriceAssumption DEF PricesInit
    <3> QED BY <3>1, HeldType DEF TableRow
  <2>2. \A w \in PriceWriters : job[w] = Done
    BY DEF PricesInit
  <2>3. overlapped = FALSE
    BY DEF PricesInit
  <2> QED BY <2>1, <2>2, <2>3 DEF Table!Init, Table!TableOf, Request
<1>2. PricesInv /\ [PricesNext]_priceVars => [Table!Next]_Table!tableVars
  BY PricesStep, PricesStutter
<1>3. PricesInv /\ [PricesNext]_priceVars => PricesInv'
  BY PricesStep, PricesStutter
<1> QED BY PricesStart, <1>1, <1>2, <1>3, PTL DEF PricesSpec, ImplementsPriceTable, Table!Spec

-----------------------------------------------------------------------------
(* What the legs of a transaction add up to.                               *)

AllAccounts == Range(Own) \cup RowAccounts \cup RuleTargets \cup {Unknown, TransferAccount, FeeAccount}
AllLegs == [account : AllAccounts, qty : Int, commodity : Commodities]
QtyIn(l, c) == IF l.commodity = c THEN l.qty ELSE 0

LEMMA SumOfIs ==
  ASSUME NEW legs \in Seq(AllLegs), NEW c
  PROVE  /\ SumOf(legs, c) = SumOver(1 .. Len(legs), [i \in 1 .. Len(legs) |-> QtyIn(legs[i], c)])
         /\ \A i \in 1 .. Len(legs) : QtyIn(legs[i], c) \in Int
<1>1. Len(legs) \in Nat /\ DOMAIN legs = 1 .. Len(legs) /\ \A i \in 1 .. Len(legs) : legs[i] \in AllLegs
  BY LenProperties
<1>2. \A i \in 1 .. Len(legs) : legs[i].qty \in Int
  BY <1>1 DEF AllLegs
<1>3. \A i \in 1 .. Len(legs) : QtyIn(legs[i], c) \in Int
  BY <1>2 DEF QtyIn
<1> QED BY <1>1, <1>3 DEF SumOf, AddUp, QtyIn

\* Only the quantities and commodities count.
LEMMA SumOfSame ==
  ASSUME NEW legs \in Seq(AllLegs), NEW others \in Seq(AllLegs), Len(others) = Len(legs), NEW c,
         \A i \in 1 .. Len(legs) : QtyIn(others[i], c) = QtyIn(legs[i], c)
  PROVE  SumOf(others, c) = SumOf(legs, c)
<1>1. PICK n \in Nat : n = Len(legs)
  BY LenProperties
<1>2. IsFiniteSet(1 .. n)
  BY <1>1, FS_Interval
<1>3. PICK f : f = [i \in 1 .. n |-> QtyIn(legs[i], c)]
  OBVIOUS
<1>4. PICK g : g = [i \in 1 .. n |-> QtyIn(others[i], c)]
  OBVIOUS
<1>5. \A i \in 1 .. n : f[i] \in Int /\ f[i] = g[i]
  BY <1>1, <1>3, <1>4, SumOfIs
<1>6. SumOver(1 .. n, f) = SumOver(1 .. n, g)
  BY <1>2, <1>5, SumEqual
<1> QED BY <1>1, <1>3, <1>4, <1>6, SumOfIs

\* Renaming d moves what there is of it.
LEMMA SumOfRenamed ==
  ASSUME NEW legs \in Seq(AllLegs), NEW others \in Seq(AllLegs), Len(others) = Len(legs), NEW d, d # Canonical,
         \A i \in 1 .. Len(legs) : others[i].qty = legs[i].qty,
         \A i \in 1 .. Len(legs) : others[i].commodity = IF legs[i].commodity = d THEN Canonical ELSE legs[i].commodity
  PROVE  /\ SumOf(others, Canonical) = SumOf(legs, Canonical) + SumOf(legs, d)
         /\ SumOf(others, d) = 0
<1>1. PICK n \in Nat : n = Len(legs)
  BY LenProperties
<1>2. IsFiniteSet(1 .. n)
  BY <1>1, FS_Interval
<1>3. PICK f : f = [i \in 1 .. n |-> QtyIn(legs[i], Canonical)]
  OBVIOUS
<1>4. PICK g : g = [i \in 1 .. n |-> QtyIn(legs[i], d)]
  OBVIOUS
<1>5. PICK h : h = [i \in 1 .. n |-> QtyIn(others[i], Canonical)]
  OBVIOUS
<1>6. PICK k : k = [i \in 1 .. n |-> QtyIn(others[i], d)]
  OBVIOUS
<1>7. \A i \in 1 .. n : f[i] \in Int /\ g[i] \in Int /\ h[i] \in Int
  BY <1>1, <1>3, <1>4, <1>5, SumOfIs
<1>8. \A i \in 1 .. n : h[i] = f[i] + g[i]
  <2> SUFFICES ASSUME NEW i \in 1 .. n PROVE h[i] = f[i] + g[i]
    OBVIOUS
  <2>1. f[i] \in Int /\ g[i] \in Int /\ h[i] \in Int
    BY <1>7
  <2>2. f[i] = (IF legs[i].commodity = Canonical THEN legs[i].qty ELSE 0) /\ g[i] = (IF legs[i].commodity = d THEN legs[i].qty ELSE 0)
    BY <1>3, <1>4 DEF QtyIn
  <2>3. h[i] = (IF others[i].commodity = Canonical THEN legs[i].qty ELSE 0)
    BY <1>1, <1>5 DEF QtyIn
  <2>4. others[i].commodity = IF legs[i].commodity = d THEN Canonical ELSE legs[i].commodity
    BY <1>1
  <2>5. CASE legs[i].commodity = d
    BY <2>1, <2>2, <2>3, <2>4, <2>5
  <2>6. CASE legs[i].commodity # d /\ legs[i].commodity = Canonical
    BY <2>1, <2>2, <2>3, <2>4, <2>6
  <2>7. CASE legs[i].commodity # d /\ legs[i].commodity # Canonical
    BY <2>1, <2>2, <2>3, <2>4, <2>7
  <2> QED BY <2>5, <2>6, <2>7
<1>9. SumOver(1 .. n, h) = SumOver(1 .. n, f) + SumOver(1 .. n, g)
  BY <1>2, <1>7, <1>8, SumAdd
<1>10. \A i \in 1 .. n : k[i] = 0
  BY <1>1, <1>6 DEF QtyIn
<1>11. SumOver(1 .. n, k) = 0
  BY <1>2, <1>10, SumZero
<1>12. SumOf(others, Canonical) = SumOf(legs, Canonical) + SumOf(legs, d) /\ SumOf(others, d) = 0
  BY <1>1, <1>3, <1>4, <1>5, <1>6, <1>9, <1>11, SumOfIs
<1> QED BY <1>12

\* A leg of nothing may go.
LEMMA SumOfRemoved ==
  ASSUME NEW legs \in Seq(AllLegs), Len(legs) >= 2, legs[2].qty = 0
  PROVE  /\ RemoveAt(legs, 2) \in Seq(AllLegs) /\ Len(RemoveAt(legs, 2)) >= 1
         /\ \A c : SumOf(RemoveAt(legs, 2), c) = SumOf(legs, c)
<1>1. PICK n \in Nat : n = Len(legs)
  BY LenProperties
<1>2. PICK a : a = SubSeq(legs, 1, 1)
  OBVIOUS
<1>3. PICK b : b = SubSeq(legs, 3, n)
  OBVIOUS
<1>4. a \in Seq(AllLegs) /\ Len(a) = 1 /\ a[1] = legs[1]
  BY <1>1, <1>2
<1>5. b \in Seq(AllLegs) /\ Len(b) = n - 2 /\ \A i \in 1 .. n - 2 : b[i] = legs[i + 2]
  BY <1>1, <1>3
<1>6. PICK s : s = RemoveAt(legs, 2)
  OBVIOUS
<1>7. s = a \o b
  BY <1>1, <1>2, <1>3, <1>6 DEF RemoveAt
<1>8. s \in Seq(AllLegs) /\ Len(s) = n - 1 /\ s[1] = legs[1] /\ \A i \in 1 .. n - 2 : s[1 + i] = legs[i + 2]
  <2>1. s \in Seq(AllLegs) /\ Len(s) = Len(a) + Len(b)
    BY <1>4, <1>5, <1>7, ConcatProperties
  <2>2. \A i \in 1 .. Len(a) + Len(b) : s[i] = IF i <= Len(a) THEN a[i] ELSE b[i - Len(a)]
    BY <1>4, <1>5, <1>7, ConcatProperties
  <2>3. Len(s) = n - 1
    BY <2>1, <1>1, <1>4, <1>5
  <2>4. s[1] = legs[1]
    BY <2>2, <1>1, <1>4, <1>5
  <2>5. ASSUME NEW i \in 1 .. n - 2 PROVE s[1 + i] = legs[i + 2]
    <3>1. 1 + i \in 1 .. Len(a) + Len(b) /\ ~(1 + i <= Len(a)) /\ 1 + i - Len(a) = i
      BY <1>1, <1>4, <1>5
    <3> QED BY <3>1, <2>2, <1>5
  <2> QED BY <2>1, <2>3, <2>4, <2>5
<1>9. ASSUME NEW c PROVE SumOf(s, c) = SumOf(legs, c)
  <2>1. PICK f : f = [i \in 1 .. n |-> QtyIn(legs[i], c)]
    OBVIOUS
  <2>2. \A i \in 1 .. n : f[i] \in Int
    BY <1>1, <2>1, SumOfIs
  <2>3. PICK h : h = [i \in 1 .. n - 1 |-> QtyIn(s[i], c)]
    OBVIOUS
  <2>4. PICK one \in Nat : one = 1
    OBVIOUS
  <2>5. PICK m \in Nat : n = one + 1 + m
    BY <1>1, <2>4
  <2>6. PICK two \in Nat : two = one + 1
    OBVIOUS
  <2>7. PICK g : g = [i \in 1 .. m |-> f[two + i]]
    OBVIOUS
  <2>8. SumOver(1 .. m, g) = SumOver(two + 1 .. two + m, f)
    <3>1. \A i \in two + 1 .. two + m : f[i] \in Int
      BY <2>2, <2>4, <2>5, <2>6
    <3>2. \A i \in 1 .. m : g[i] = f[two + i]
      BY <2>7
    <3> QED BY <3>1, <3>2, SumShifted
  <2>9. SumOver(1 .. one + m, h) = SumOver(1 .. one, f) + SumOver(1 .. m, g)
    <3>1. ASSUME NEW i \in 1 .. one PROVE f[i] \in Int /\ h[i] = f[i]
      <4>1. i = 1 /\ 1 \in 1 .. n /\ 1 \in 1 .. n - 1
        BY <2>4, <2>5, <1>1
      <4>2. f[1] \in Int /\ f[1] = QtyIn(legs[1], c)
        BY <4>1, <2>1, <2>2
      <4>3. h[1] = QtyIn(s[1], c)
        BY <4>1, <2>3
      <4> QED BY <4>1, <4>2, <4>3, <1>8
    <3>2. ASSUME NEW i \in 1 .. m PROVE g[i] \in Int /\ h[one + i] = g[i]
      <4>1. i + 2 \in 1 .. n /\ 1 + i \in 1 .. n - 1 /\ i \in 1 .. n - 2 /\ two + i = i + 2 /\ one + i = 1 + i
        BY <2>4, <2>5, <2>6
      <4>2. g[i] = f[i + 2] /\ f[i + 2] \in Int
        BY <2>2, <2>7, <4>1
      <4>3. f[i + 2] = QtyIn(legs[i + 2], c) /\ h[1 + i] = QtyIn(s[1 + i], c)
        BY <2>1, <2>3, <4>1
      <4>4. s[1 + i] = legs[i + 2]
        BY <1>8, <4>1
      <4> QED BY <4>1, <4>2, <4>3, <4>4
    <3>3. \A i \in 1 .. one : f[i] \in Int /\ h[i] = f[i]
      BY <3>1
    <3>4. \A i \in 1 .. m : g[i] \in Int /\ h[one + i] = g[i]
      BY <3>2
    <3> QED BY ONLY <3>3, <3>4, one \in Nat, m \in Nat, SumConcat
  <2>10. SumOver(1 .. n, f) = SumOver(1 .. two, f) + SumOver(two + 1 .. n, f)
    <3>1. two <= n
      BY <2>5, <2>6
    <3> QED BY <3>1, <2>2, SumSplit
  <2>11. SumOver(1 .. one + 1, f) = SumOver(1 .. one, f) + f[one + 1]
    <3>1. \A i \in 1 .. one + 1 : f[i] \in Int
      BY <2>2, <2>5
    <3> QED BY <3>1, SumNext
  <2>12. f[one + 1] = 0
    <3>1. legs[2].qty = 0 /\ 2 \in 1 .. n /\ one + 1 = 2
      BY <2>4, <2>5
    <3> QED BY <3>1, <2>1 DEF QtyIn
  <2>13. SumOver(1 .. one, f) \in Int
    <3>1. \A i \in 1 .. one : f[i] \in Int
      BY <2>2, <2>5
    <3>2. IsFiniteSet(1 .. one)
      BY FS_Interval
    <3> QED BY <3>1, <3>2, SumInt
  <2>14. SumOver(1 .. two, f) = SumOver(1 .. one, f)
    BY <2>6, <2>11, <2>12, <2>13
  <2>15. two + m = n /\ one + m = n - 1
    BY <2>4, <2>5, <2>6
  <2>16. SumOver(1 .. n - 1, h) = SumOver(1 .. n, f)
    BY <2>8, <2>9, <2>10, <2>14, <2>15
  <2> QED BY <2>16, <1>1, <1>8, <2>1, <2>3, SumOfIs
<1>10. Len(s) >= 1
  BY <1>1, <1>8
<1> QED BY <1>6, <1>8, <1>9, <1>10

\* Two legs, or three.
LEMMA SumOfFew ==
  ASSUME NEW legs \in Seq(AllLegs), NEW c
  PROVE  /\ Len(legs) = 2 => SumOf(legs, c) = QtyIn(legs[1], c) + QtyIn(legs[2], c)
         /\ Len(legs) = 3 => SumOf(legs, c) = QtyIn(legs[1], c) + QtyIn(legs[2], c) + QtyIn(legs[3], c)
<1>1. PICK n \in Nat : n = Len(legs)
  BY LenProperties
<1>2. PICK f : f = [i \in 1 .. n |-> QtyIn(legs[i], c)]
  OBVIOUS
<1>3. SumOf(legs, c) = SumOver(1 .. n, f) /\ \A i \in 1 .. n : f[i] \in Int
  BY <1>1, <1>2, SumOfIs
<1>4. PICK one \in Nat : one = 1
  OBVIOUS
<1>5. PICK two \in Nat : two = 2
  OBVIOUS
<1>6. ASSUME n >= 2 PROVE SumOver(1 .. two, f) = f[1] + f[2]
  <2>1. \A i \in 1 .. one + 1 : f[i] \in Int
    BY <1>3, <1>4, <1>6
  <2>2. SumOver(1 .. one + 1, f) = SumOver(1 .. one, f) + f[one + 1]
    BY <2>1, SumNext
  <2>3. f[one] \in Int
    BY <2>1, <1>4
  <2>4. SumOver({one}, f) = f[one]
    BY <2>3, SumOne
  <2>5. 1 .. one = {one} /\ one + 1 = two
    BY <1>4, <1>5
  <2> QED BY <2>2, <2>4, <2>5, <1>4, <1>5
<1>7. ASSUME n = 2 PROVE SumOf(legs, c) = QtyIn(legs[1], c) + QtyIn(legs[2], c)
  <2>1. f[1] = QtyIn(legs[1], c) /\ f[2] = QtyIn(legs[2], c)
    BY <1>2, <1>7
  <2>2. n = two
    BY <1>5, <1>7
  <2> QED BY <2>1, <2>2, <1>3, <1>6, <1>7
<1>8. ASSUME n = 3 PROVE SumOf(legs, c) = QtyIn(legs[1], c) + QtyIn(legs[2], c) + QtyIn(legs[3], c)
  <2>1. f[1] = QtyIn(legs[1], c) /\ f[2] = QtyIn(legs[2], c) /\ f[3] = QtyIn(legs[3], c)
    BY <1>2, <1>8
  <2>2. \A i \in 1 .. two + 1 : f[i] \in Int
    BY <1>3, <1>5, <1>8
  <2>3. SumOver(1 .. two + 1, f) = SumOver(1 .. two, f) + f[two + 1]
    BY <2>2, SumNext
  <2>4. two + 1 = 3 /\ two + 1 = n
    BY <1>5, <1>8
  <2>5. SumOver(1 .. n, f) = SumOver(1 .. two, f) + f[3]
    BY <2>3, <2>4
  <2> QED BY <2>1, <2>5, <1>3, <1>6, <1>8
<1> QED BY <1>1, <1>7, <1>8

-----------------------------------------------------------------------------
(* From a row to its legs.                                                 *)

Owed(row, c) == IF row.legs = <<>> /\ row.feeIn # row.commodity /\ c = row.feeIn THEN row.fee ELSE 0
Balanced(row) == \A c \in Commodities : SumOf(row.legs, c) = 0

LEMMA RowTypes ==
  ASSUME NEW row \in RowKinds
  PROVE  /\ row.amount \in Int /\ row.fee \in Int /\ row.legs \in Seq(RowLegs) /\ row.legs \in Seq(AllLegs)
         /\ row.commodity \in Commodities /\ row.feeIn \in Commodities
<1>1. row.amount \in Int /\ row.fee \in Int /\ row.legs \in Seq(RowLegs)
  BY ViewAssumption
<1>2. RowLegs \subseteq AllLegs
  BY DEF RowLegs, AllLegs, AllAccounts
<1>3. row.legs \in Seq(AllLegs)
  <2>1. \A i \in DOMAIN row.legs : row.legs[i] \in AllLegs
    BY <1>1, <1>2
  <2> QED BY <2>1, <1>1, SequenceOver
<1>4. row.commodity \in Commodities /\ row.feeIn \in Commodities
  BY DEF Commodities
<1> QED BY <1>1, <1>3, <1>4

LEMMA LegType ==
  ASSUME NEW a \in AllAccounts, NEW q \in Int, NEW c \in Commodities
  PROVE  Leg(a, q, c) \in AllLegs /\ Leg(a, q, c).qty = q /\ Leg(a, q, c).commodity = c
BY DEF Leg, AllLegs

\* A row as it is: two legs at least, unless it has one of its own, that balance.
LEMMA RowBalances ==
  ASSUME NEW f \in ViewFolders, NEW row \in RowKinds
  PROVE  /\ map_to_transaction(f, row) \in Seq(AllLegs) /\ Len(map_to_transaction(f, row)) >= 1
         /\ row.legs = <<>> => map_to_transaction(f, row)[1].commodity = row.commodity
         /\ Balanced(row) => \A c \in Commodities : SumOf(map_to_transaction(f, row), c) = Owed(row, c)
<1>1. PICK legs : legs = map_to_transaction(f, row)
  OBVIOUS
<1>2. CASE row.legs # <<>>
  <2>1. legs = row.legs /\ \A c : Owed(row, c) = 0
    BY <1>1, <1>2 DEF map_to_transaction, Owed
  <2>2. Len(row.legs) >= 1
    BY <1>2, RowTypes, EmptySeq, LenProperties
  <2> QED BY <2>1, <2>2, <1>1, <1>2, RowTypes DEF Balanced
<1>3. CASE row.legs = <<>>
  <2>1. Own[f] \in AllAccounts /\ Unknown \in AllAccounts /\ FeeAccount \in AllAccounts
    BY DEF AllAccounts, Range, ViewFolders
  <2>2. AssetAmount(row) \in Int /\ -row.amount \in Int
    BY RowTypes DEF AssetAmount
  <2>3. PICK a : a = Leg(Own[f], AssetAmount(row), row.commodity)
    OBVIOUS
  <2>4. PICK b : b = Leg(Unknown, -row.amount, row.commodity)
    OBVIOUS
  <2>5. PICK e : e = Leg(FeeAccount, row.fee, row.feeIn)
    OBVIOUS
  <2>6. a \in AllLegs /\ a.qty = AssetAmount(row) /\ a.commodity = row.commodity
    BY <2>1, <2>2, <2>3, RowTypes, LegType
  <2>7. b \in AllLegs /\ b.qty = -row.amount /\ b.commodity = row.commodity
    BY <2>1, <2>2, <2>4, RowTypes, LegType
  <2>8. e \in AllLegs /\ e.qty = row.fee /\ e.commodity = row.feeIn
    BY <2>1, <2>5, RowTypes, LegType
  <2>9. CASE row.fee = 0
    <3>1. legs = <<a, b>> \o <<>>
      BY <1>1, <1>3, <2>3, <2>4, <2>9 DEF map_to_transaction
    <3>2. legs = <<a, b>>
      BY <3>1, <2>6, <2>7
    <3>3. legs \in Seq(AllLegs) /\ Len(legs) = 2 /\ legs[1] = a /\ legs[2] = b
      BY <3>2, <2>6, <2>7
    <3>4. AssetAmount(row) = row.amount
      BY <2>9, RowTypes DEF AssetAmount
    <3>5. ASSUME NEW c PROVE SumOf(legs, c) = Owed(row, c)
      <4>1. SumOf(legs, c) = QtyIn(a, c) + QtyIn(b, c)
        BY <3>3, SumOfFew
      <4>2. QtyIn(a, c) + QtyIn(b, c) = 0
        BY <2>6, <2>7, <3>4, RowTypes DEF QtyIn
      <4>3. Owed(row, c) = 0
        BY <2>9 DEF Owed
      <4> QED BY <4>1, <4>2, <4>3
    <3> QED BY <1>1, <3>3, <3>5, <2>6
  <2>10. CASE row.fee # 0
    <3>1. legs = <<a, b>> \o <<e>>
      BY <1>1, <1>3, <2>3, <2>4, <2>5, <2>10 DEF map_to_transaction
    <3>2. <<a, b>> \in Seq(AllLegs) /\ Len(<<a, b>>) = 2 /\ <<e>> \in Seq(AllLegs) /\ Len(<<e>>) = 1
      BY <2>6, <2>7, <2>8
    <3>3. legs \in Seq(AllLegs) /\ Len(legs) = 3 /\ legs[1] = a /\ legs[2] = b /\ legs[3] = e
      BY <3>1, <3>2, ConcatProperties
    <3>4. ASSUME NEW c PROVE SumOf(legs, c) = Owed(row, c)
      <4>1. SumOf(legs, c) = QtyIn(a, c) + QtyIn(b, c) + QtyIn(e, c)
        BY <3>3, SumOfFew
      <4>2. CASE row.feeIn = row.commodity
        <5>1. AssetAmount(row) = row.amount - row.fee
          BY <4>2 DEF AssetAmount
        <5>2. Owed(row, c) = 0
          BY <4>2 DEF Owed
        <5> QED BY <4>1, <4>2, <5>1, <5>2, <2>6, <2>7, <2>8, RowTypes DEF QtyIn
      <4>3. CASE row.feeIn # row.commodity
        <5>1. AssetAmount(row) = row.amount
          BY <4>3 DEF AssetAmount
        <5>2. QtyIn(a, c) + QtyIn(b, c) = 0
          BY <5>1, <2>6, <2>7, RowTypes DEF QtyIn
        <5>3. QtyIn(e, c) = Owed(row, c) /\ QtyIn(e, c) \in Int
          BY <1>3, <4>3, <2>8, RowTypes DEF QtyIn, Owed
        <5>4. QtyIn(a, c) \in Int /\ QtyIn(b, c) \in Int
          BY <5>1, <2>6, <2>7, RowTypes DEF QtyIn
        <5> QED BY <4>1, <5>2, <5>3, <5>4
      <4> QED BY <4>2, <4>3
    <3> QED BY <1>1, <3>3, <3>4, <2>6
  <2> QED BY <2>9, <2>10
<1> QED BY <1>2, <1>3

\* A label renames the first leg's commodity in all of them.
LEMMA RenamedBalances ==
  ASSUME NEW f \in ViewFolders, NEW row \in RowKinds
  PROVE  /\ Renamed(map_to_transaction(f, row), f) \in Seq(AllLegs)
         /\ Len(Renamed(map_to_transaction(f, row), f)) >= 1
         /\ Balanced(row) => \A c \in Commodities : SumOf(Renamed(map_to_transaction(f, row), f), c) = Owed(row, c)
<1>1. PICK legs : legs = map_to_transaction(f, row)
  OBVIOUS
<1>2. PICK new : new = Renamed(legs, f)
  OBVIOUS
<1>3. legs \in Seq(AllLegs) /\ Len(legs) >= 1
  BY <1>1, RowBalances
<1>4. PICK n \in Nat : n = Len(legs)
  BY <1>3, LenProperties
<1>5. PICK d : d = legs[1].commodity
  OBVIOUS
<1>6. d \in Commodities /\ Canonical \in Commodities
  <2>1. legs[1] \in AllLegs
    BY <1>3
  <2>2. d \in Commodities
    BY <2>1, <1>5 DEF AllLegs
  <2> QED BY <2>2 DEF Commodities
<1>7. DOMAIN legs = 1 .. n /\ \A i \in 1 .. n : legs[i] \in AllLegs
  BY <1>3, <1>4, LenProperties
<1>8. new = [i \in 1 .. n |-> IF Renames(f, d) /\ legs[i].commodity = d THEN [legs[i] EXCEPT !.commodity = Canonical] ELSE legs[i]]
  BY <1>2, <1>5, <1>7 DEF Renamed
<1>9. \A i \in 1 .. n : /\ new[i] \in AllLegs /\ new[i].qty = legs[i].qty
                          /\ new[i].commodity = IF Renames(f, d) /\ legs[i].commodity = d THEN Canonical ELSE legs[i].commodity
  <2> SUFFICES ASSUME NEW i \in 1 .. n
               PROVE  /\ new[i] \in AllLegs /\ new[i].qty = legs[i].qty
                      /\ new[i].commodity = IF Renames(f, d) /\ legs[i].commodity = d THEN Canonical ELSE legs[i].commodity
    OBVIOUS
  <2>1. legs[i] \in AllLegs
    BY <1>7
  <2>2. CASE Renames(f, d) /\ legs[i].commodity = d
    <3>1. new[i] = [legs[i] EXCEPT !.commodity = Canonical]
      BY <1>8, <2>2
    <3> QED BY <3>1, <2>1, <2>2, <1>6 DEF AllLegs
  <2>3. CASE ~(Renames(f, d) /\ legs[i].commodity = d)
    <3>1. new[i] = legs[i]
      BY <1>8, <2>3
    <3> QED BY <3>1, <2>1, <2>3
  <2> QED BY <2>2, <2>3
<1>10. new \in Seq(AllLegs) /\ Len(new) = n
  <2>1. new \in [1 .. n -> AllLegs]
    BY <1>8, <1>9
  <2>2. new \in Seq(AllLegs)
    BY <2>1, SeqDef
  <2> QED BY <2>1, <2>2, LenProperties
<1>11. ASSUME Balanced(row), NEW c \in Commodities PROVE SumOf(new, c) = Owed(row, c)
  <2>1. \A e \in Commodities : SumOf(legs, e) = Owed(row, e)
    BY <1>1, <1>11, RowBalances
  <2>2. CASE ~Renames(f, d) \/ d = Canonical
    <3>1. \A i \in 1 .. n : QtyIn(new[i], c) = QtyIn(legs[i], c)
      BY <1>9, <2>2 DEF QtyIn
    <3>2. SumOf(new, c) = SumOf(legs, c)
      BY <3>1, <1>3, <1>4, <1>10, SumOfSame
    <3> QED BY <3>2, <2>1
  <2>3. CASE Renames(f, d) /\ d # Canonical
    <3>1. /\ \A i \in 1 .. Len(legs) : new[i].qty = legs[i].qty
          /\ \A i \in 1 .. Len(legs) : new[i].commodity = IF legs[i].commodity = d THEN Canonical ELSE legs[i].commodity
      BY <1>4, <1>9, <2>3
    <3>2. /\ SumOf(new, Canonical) = SumOf(legs, Canonical) + SumOf(legs, d)
          /\ SumOf(new, d) = 0
          /\ c # d /\ c # Canonical => SumOf(new, c) = SumOf(legs, c)
      <4>1. legs \in Seq(AllLegs) /\ new \in Seq(AllLegs) /\ Len(new) = Len(legs) /\ d # Canonical
        BY <1>3, <1>4, <1>10, <2>3
      <4>2. \A i \in 1 .. Len(legs) : new[i].qty = legs[i].qty
        BY <3>1
      <4>3. \A i \in 1 .. Len(legs) : new[i].commodity = IF legs[i].commodity = d THEN Canonical ELSE legs[i].commodity
        BY <3>1
      <4>4. SumOf(new, Canonical) = SumOf(legs, Canonical) + SumOf(legs, d)
        BY <4>1, <4>2, <4>3, SumOfRenamed
      <4>5. SumOf(new, d) = 0
        BY <4>1, <4>2, <4>3, SumOfRenamed
      <4>6. c # d /\ c # Canonical => SumOf(new, c) = SumOf(legs, c)
        <5>1. c # d /\ c # Canonical => \A i \in 1 .. Len(legs) : QtyIn(new[i], c) = QtyIn(legs[i], c)
          BY <4>2, <4>3 DEF QtyIn
        <5> QED BY <4>1, <5>1, SumOfSame
      <4> QED BY <4>4, <4>5, <4>6
    <3>3. Owed(row, d) = 0
      BY <1>1, <1>5, RowBalances DEF Owed
    <3>4. \A e : Owed(row, e) \in Int
      BY RowTypes DEF Owed
    <3>5. SumOf(legs, Canonical) = Owed(row, Canonical) /\ SumOf(legs, d) = 0
      BY <2>1, <3>3, <1>6
    <3>6. CASE c = Canonical
      BY <3>2, <3>4, <3>5, <3>6
    <3>7. CASE c = d
      BY <3>2, <3>3, <3>7
    <3>8. CASE c # d /\ c # Canonical
      BY <3>2, <3>8, <2>1
    <3> QED BY <3>6, <3>7, <3>8
  <2> QED BY <2>2, <2>3
<1>12. Len(new) >= 1
  BY <1>3, <1>4, <1>10
<1> QED BY <1>1, <1>2, <1>10, <1>11, <1>12

\* Who a leg is of does not matter.
LEMMA Rerouted ==
  ASSUME NEW legs \in Seq(AllLegs), NEW moved, DOMAIN moved = DOMAIN legs, moved = [i \in DOMAIN moved |-> moved[i]],
         \A i \in 1 .. Len(legs) :
           moved[i] = legs[i] \/ \E a \in AllAccounts : moved[i] = [legs[i] EXCEPT !.account = a]
  PROVE  /\ moved \in Seq(AllLegs) /\ Len(moved) = Len(legs)
         /\ \A i \in 1 .. Len(legs) : moved[i].qty = legs[i].qty
         /\ \A c : SumOf(moved, c) = SumOf(legs, c)
<1>1. PICK m \in Nat : m = Len(legs)
  BY LenProperties
<1>2. legs \in [1 .. m -> AllLegs]
  BY <1>1, LenProperties
<1>3. \A i \in 1 .. m : moved[i] \in AllLegs /\ moved[i].qty = legs[i].qty /\ moved[i].commodity = legs[i].commodity
  <2> SUFFICES ASSUME NEW i \in 1 .. m
               PROVE  moved[i] \in AllLegs /\ moved[i].qty = legs[i].qty /\ moved[i].commodity = legs[i].commodity
    OBVIOUS
  <2>1. legs[i] \in AllLegs
    BY <1>2
  <2>2. CASE moved[i] = legs[i]
    BY <2>1, <2>2
  <2>3. ASSUME NEW a \in AllAccounts, moved[i] = [legs[i] EXCEPT !.account = a]
        PROVE  moved[i] \in AllLegs /\ moved[i].qty = legs[i].qty /\ moved[i].commodity = legs[i].commodity
    BY <2>1, <2>3 DEF AllLegs
  <2> QED BY <2>2, <2>3, <1>1
<1>4. moved \in [1 .. m -> AllLegs]
  BY <1>2, <1>3
<1>5. moved \in Seq(AllLegs)
  BY <1>4, SeqDef
<1>6. Len(moved) = m
  BY <1>4, <1>5, LenProperties
<1>7. ASSUME NEW c PROVE SumOf(moved, c) = SumOf(legs, c)
  <2>1. \A i \in 1 .. Len(legs) : QtyIn(moved[i], c) = QtyIn(legs[i], c)
    BY <1>1, <1>3 DEF QtyIn
  <2> QED BY <2>1, <1>1, <1>5, <1>6, SumOfSame
<1>8. \A i \in 1 .. Len(legs) : moved[i].qty = legs[i].qty
  BY <1>1, <1>3
<1> QED BY <1>1, <1>5, <1>6, <1>7, <1>8

\* A rule routes legs, and drops a contra of nothing.
LEMMA RoutedBalances ==
  ASSUME NEW legs \in Seq(AllLegs), NEW to \in AllAccounts
  PROVE  /\ apply_rule_accounts(legs, to) \in Seq(AllLegs)
         /\ \A c : SumOf(apply_rule_accounts(legs, to), c) = SumOf(legs, c)
<1>1. PICK moved : moved = Routed(legs, to)
  OBVIOUS
<1>2. DOMAIN legs = 1 .. Len(legs) /\ legs = [i \in 1 .. Len(legs) |-> legs[i]]
  BY LenProperties
<1>3. PICK contra : contra = [legs EXCEPT ![2].account = to]
  OBVIOUS
<1>4. /\ DOMAIN contra = 1 .. Len(legs) /\ contra = [i \in 1 .. Len(legs) |-> contra[i]]
      /\ \A i \in 1 .. Len(legs) : contra[i] = IF i = 2 THEN [legs[i] EXCEPT !.account = to] ELSE legs[i]
  BY <1>2, <1>3
<1>5. PICK both : both = [contra EXCEPT ![1].account = to]
  OBVIOUS
<1>6. /\ DOMAIN both = 1 .. Len(legs) /\ both = [i \in 1 .. Len(legs) |-> both[i]]
      /\ \A i \in 1 .. Len(legs) : both[i] = IF i = 1 THEN [contra[i] EXCEPT !.account = to] ELSE contra[i]
  BY <1>4, <1>5
<1>7. moved = contra \/ moved = both
  BY <1>1, <1>3, <1>5 DEF Routed
<1>8. DOMAIN moved = DOMAIN legs /\ moved = [i \in DOMAIN moved |-> moved[i]]
  BY <1>2, <1>4, <1>6, <1>7
<1>9. \A i \in 1 .. Len(legs) : moved[i] = legs[i] \/ \E a \in AllAccounts : moved[i] = [legs[i] EXCEPT !.account = a]
  <2> SUFFICES ASSUME NEW i \in 1 .. Len(legs)
               PROVE  moved[i] = legs[i] \/ moved[i] = [legs[i] EXCEPT !.account = to]
    OBVIOUS
  <2>1. contra[i] = legs[i] \/ contra[i] = [legs[i] EXCEPT !.account = to]
    BY <1>4
  <2>2. i = 1 => contra[i] = legs[i]
    BY <1>4
  <2>3. both[i] = legs[i] \/ both[i] = [legs[i] EXCEPT !.account = to]
    BY <1>6, <2>1, <2>2
  <2> QED BY <2>1, <2>3, <1>7
<1>10. /\ moved \in Seq(AllLegs) /\ Len(moved) = Len(legs) /\ \A c : SumOf(moved, c) = SumOf(legs, c)
       /\ \A i \in 1 .. Len(legs) : moved[i].qty = legs[i].qty
  BY <1>8, <1>9, Rerouted
<1>11. CASE Len(legs) >= 3 /\ legs[2].qty = 0
  <2>1. apply_rule_accounts(legs, to) = RemoveAt(moved, 2)
    BY <1>1, <1>11 DEF apply_rule_accounts
  <2>2. Len(legs) \in Nat
    BY LenProperties
  <2>3. Len(moved) >= 2 /\ moved[2].qty = 0
    BY <2>2, <1>10, <1>11
  <2> QED BY <2>1, <2>3, <1>10, SumOfRemoved
<1>12. CASE ~(Len(legs) >= 3 /\ legs[2].qty = 0)
  BY <1>1, <1>10, <1>12 DEF apply_rule_accounts
<1> QED BY <1>11, <1>12

-----------------------------------------------------------------------------
(* What the user adds.                                                     *)

LEMMA NothingAdded == ViewInit => ViewTypeOK
<1> SUFFICES ASSUME ViewInit PROVE ViewTypeOK
  OBVIOUS
<1>1. rows \in [ViewFolders -> Seq(RowKinds)]
  <2>1. <<>> \in Seq(RowKinds)
    BY EmptySeq
  <2> QED BY <2>1 DEF ViewInit
<1>2. AllRows <= MaxRows
  <2>1. PICK g : g = [f \in ViewFolders |-> NumberOf(f)]
    OBVIOUS
  <2>2. \A f \in ViewFolders : g[f] = 0
    BY <2>1, EmptySeq DEF NumberOf, ViewInit
  <2>3. SumOver(ViewFolders, g) = 0
    BY <2>2, ViewAssumption, SumZero
  <2> QED BY <2>1, <2>3, ViewAssumption DEF AllRows
<1>3. rules \in [ViewFolders -> [Payees -> RuleTargets \cup {NoRule}]]
  BY DEF ViewInit
<1>4. labels \in [ViewFolders -> SUBSET Aliases]
  BY DEF ViewInit
<1> QED BY <1>1, <1>2, <1>3, <1>4 DEF ViewTypeOK

LEMMA RowAdded ==
  ASSUME ViewTypeOK, NEW f \in ViewFolders, NEW k \in RowKinds, AddRow(f, k)
  PROVE  ViewTypeOK'
<1>1. rows' = [rows EXCEPT ![f] = Append(rows[f], k)] /\ AllRows < MaxRows
  BY DEF AddRow
<1>2. rows \in [ViewFolders -> Seq(RowKinds)]
  BY DEF ViewTypeOK
<1>3. rows' \in [ViewFolders -> Seq(RowKinds)]
  <2>1. Append(rows[f], k) \in Seq(RowKinds)
    BY <1>2, AppendProperties
  <2> QED BY <1>1, <1>2, <2>1
<1>4. AllRows' = AllRows + 1 /\ AllRows \in Int
  <2>1. PICK g : g = [x \in ViewFolders |-> Len(rows[x])]
    OBVIOUS
  <2>2. PICK h : h = [x \in ViewFolders |-> Len(rows'[x])]
    OBVIOUS
  <2>3. \A x \in ViewFolders : g[x] \in Int
    BY <2>1, <1>2, LenProperties
  <2>4. h[f] = g[f] + 1
    <3>1. rows'[f] = Append(rows[f], k)
      BY <1>1, <1>2
    <3>2. Len(Append(rows[f], k)) = Len(rows[f]) + 1
      BY <1>2, AppendProperties
    <3> QED BY <3>1, <3>2, <2>1, <2>2
  <2>5. \A x \in ViewFolders : x # f => h[x] = g[x]
    BY <1>1, <1>2, <2>1, <2>2
  <2>6. h[f] \in Int
    BY <2>3, <2>4
  <2>7. SumOver(ViewFolders, h) = SumOver(ViewFolders, g) - g[f] + h[f]
    <3>1. IsFiniteSet(ViewFolders)
      BY ViewAssumption
    <3> QED BY <3>1, <2>3, <2>5, <2>6, SumChanged
  <2>8. SumOver(ViewFolders, g) \in Int
    BY <2>3, ViewAssumption, SumInt
  <2>9. AllRows = SumOver(ViewFolders, g)
    BY <2>1 DEF AllRows, NumberOf
  <2>10. AllRows' = SumOver(ViewFolders, h)
    BY <2>2 DEF AllRows, NumberOf
  <2>11. SumOver(ViewFolders, h) = SumOver(ViewFolders, g) + 1
    BY <2>3, <2>4, <2>7, <2>8
  <2> QED BY <2>8, <2>9, <2>10, <2>11
<1>5. AllRows' <= MaxRows
  BY <1>1, <1>4, ViewAssumption
<1>6. rules' = rules /\ labels' = labels
  BY DEF AddRow
<1> QED BY <1>3, <1>5, <1>6 DEF ViewTypeOK

LEMMA ViewStep ==
  ASSUME ViewTypeOK, [ViewNext]_viewVars
  PROVE  ViewTypeOK'
<1>1. ASSUME NEW f \in ViewFolders, NEW p \in Payees, NEW a \in RuleTargets, SetRule(f, p, a)
      PROVE  ViewTypeOK'
  <2>1. rules' \in [ViewFolders -> [Payees -> RuleTargets \cup {NoRule}]]
    BY <1>1 DEF SetRule, ViewTypeOK
  <2>2. rows' = rows /\ labels' = labels
    BY <1>1 DEF SetRule
  <2>3. AllRows' = AllRows
    BY <2>2 DEF AllRows, NumberOf
  <2> QED BY <2>1, <2>2, <2>3 DEF ViewTypeOK
<1>2. ASSUME NEW f \in ViewFolders, NEW c \in Aliases, AddLabel(f, c)
      PROVE  ViewTypeOK'
  <2>1. labels' \in [ViewFolders -> SUBSET Aliases]
    BY <1>2 DEF AddLabel, ViewTypeOK
  <2>2. rows' = rows /\ rules' = rules
    BY <1>2 DEF AddLabel
  <2>3. AllRows' = AllRows
    BY <2>2 DEF AllRows, NumberOf
  <2> QED BY <2>1, <2>2, <2>3 DEF ViewTypeOK
<1>3. CASE UNCHANGED viewVars
  <2>1. rows' = rows /\ rules' = rules /\ labels' = labels
    BY <1>3 DEF viewVars
  <2>2. AllRows' = AllRows
    BY <2>1 DEF AllRows, NumberOf
  <2> QED BY <2>1, <2>2 DEF ViewTypeOK
<1> QED BY <1>1, <1>2, <1>3, RowAdded DEF ViewNext

\* A transaction of the ledger balances if its row does.
LEMMA TransactionBalances ==
  ASSUME ViewTypeOK, NEW x \in Ledger
  PROVE  LET row == rows[x.folder][x.i]
         IN Balanced(row) => \A c \in Commodities : SumOf(x.legs, c) = Owed(row, c)
<1>0. PICK f \in ViewFolders : x \in {Transaction(f, i, rules[f][rows[f][i].payee]) : i \in DOMAIN rows[f]}
  BY DEF Ledger
<1>1. PICK i \in DOMAIN rows[f] : x = Transaction(f, i, rules[f][rows[f][i].payee])
  BY <1>0
<1>2. PICK row : row = rows[f][i]
  OBVIOUS
<1>3. row \in RowKinds
  BY <1>1, <1>2 DEF ViewTypeOK
<1>4. PICK rule : rule = rules[f][row.payee]
  OBVIOUS
<1>5. x.folder = f /\ x.i = i /\ x.legs = apply_labels_and_rules(f, row, rule)
  BY <1>1, <1>2, <1>4 DEF Transaction
<1>6. rule \in RuleTargets \cup {NoRule}
  <2>1. row.payee \in Payees
    BY <1>3 DEF Payees
  <2> QED BY <2>1, <1>4 DEF ViewTypeOK
<1>7. PICK legs : legs = Renamed(map_to_transaction(f, row), f)
  OBVIOUS
<1>8. legs \in Seq(AllLegs) /\ (Balanced(row) => \A c \in Commodities : SumOf(legs, c) = Owed(row, c))
  BY <1>3, <1>7, RenamedBalances
<1>9. PICK shown : shown = apply_labels_and_rules(f, row, rule)
  OBVIOUS
<1>10. \A c : SumOf(shown, c) = SumOf(legs, c)
  <2>1. CASE rule # NoRule
    <3>1. rule \in AllAccounts
      BY <1>6, <2>1 DEF AllAccounts
    <3>2. shown = apply_rule_accounts(legs, rule)
      BY <1>7, <1>9, <2>1 DEF apply_labels_and_rules
    <3> QED BY <3>1, <3>2, <1>8, RoutedBalances
  <2>2. CASE rule = NoRule /\ row.names
    <3>1. shown = [legs EXCEPT ![2].account = TransferAccount]
      BY <1>7, <1>9, <2>2 DEF apply_labels_and_rules
    <3>2. DOMAIN legs = 1 .. Len(legs) /\ legs = [n \in 1 .. Len(legs) |-> legs[n]]
      BY <1>8, LenProperties
    <3>3. /\ DOMAIN shown = 1 .. Len(legs) /\ shown = [n \in 1 .. Len(legs) |-> shown[n]]
          /\ \A n \in 1 .. Len(legs) : shown[n] = IF n = 2 THEN [legs[n] EXCEPT !.account = TransferAccount] ELSE legs[n]
      BY <3>1, <3>2
    <3>4. TransferAccount \in AllAccounts
      BY DEF AllAccounts
    <3>5. \A n \in 1 .. Len(legs) : shown[n] = legs[n] \/ \E a \in AllAccounts : shown[n] = [legs[n] EXCEPT !.account = a]
      BY <3>3, <3>4
    <3>6. DOMAIN shown = DOMAIN legs /\ shown = [n \in DOMAIN shown |-> shown[n]]
      BY <3>2, <3>3
    <3> QED BY <3>5, <3>6, <1>8, Rerouted
  <2>3. CASE rule = NoRule /\ ~row.names
    <3>1. shown = legs
      BY <1>7, <1>9, <2>3 DEF apply_labels_and_rules
    <3> QED BY <3>1
  <2> QED BY <2>1, <2>2, <2>3
<1> QED BY <1>2, <1>5, <1>8, <1>9, <1>10

\* The ledger's rows, rules and labels are what may be added, for any folders, rows, rules
\* and labels (ledger view as built by generated_store.rs).
THEOREM ViewTyped == ViewSpec => []ViewTypeOK
<1>1. ViewInit => ViewTypeOK
  BY NothingAdded
<1>2. ViewTypeOK /\ [ViewNext]_viewVars => ViewTypeOK'
  BY ViewStep
<1> QED BY <1>1, <1>2, PTL DEF ViewSpec

\* Transactions balance, whatever labels, rules, hiding and self-transfers make of them, for
\* any rows, with or without a fee or legs of their own (csv_transform.rs, 340-720).
THEOREM LegsBalanceSafe == ViewSpec => []LegsBalance
<1>1. ViewTypeOK => LegsBalance
  BY TransactionBalances DEF LegsBalance, Balanced, Owed
<1> QED BY <1>1, ViewTyped, PTL
=============================================================================
