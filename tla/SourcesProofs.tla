------------------------------ MODULE SourcesProofs ------------------------------
(***************************************************************************)
(* Proofs about files.  For any folders and any number of files, commands  *)
(* and interruptions, whatever was brought in and not deleted or replaced  *)
(* is in the tree, once (SourceTree).  For any exports, a record that      *)
(* several have in common stays in one of them, wherever the run is        *)
(* stopped (Dedupe).  For any lines, a ledger file is read among others    *)
(* as by itself, and as before when a transaction was added to it          *)
(* (LedgerText, at the end).                                               *)
(***************************************************************************)
EXTENDS SourceTree, Dedupe, LedgerText, OrderingProofs, Integers, FiniteSetTheorems, SequenceTheorems, WellFoundedInduction, TLAPS

-----------------------------------------------------------------------------
(* Paths.                                                                  *)

Path == Seq(STRING)

\* A path is under another when it starts with its names.
LEMMA UnderByNames ==
  ASSUME NEW p \in Path, NEW q \in Path
  PROVE  Under(p, q) <=> Len(q) <= Len(p) /\ \A i \in 1 .. Len(q) : p[i] = q[i]
<1>1. /\ Len(p) \in Nat /\ Len(q) \in Nat /\ \A i \in 1 .. Len(p) : p[i] \in STRING
      /\ \A i \in 1 .. Len(q) : q[i] \in STRING
  BY LenProperties, ElementOfSeq DEF Path
<1>2. SubSeq(q, 1, Len(q)) = q
  BY SubSeqFull DEF Path
<1>3. ASSUME Len(q) <= Len(p)
      PROVE  /\ SubSeq(p, 1, Len(q)) \in Path /\ Len(SubSeq(p, 1, Len(q))) = Len(q)
             /\ \A i \in 1 .. Len(q) : SubSeq(p, 1, Len(q))[i] = p[i]
  <2>1. \A i \in 1 .. Len(q) : p[i] \in STRING
    BY <1>1, <1>3
  <2>2. /\ SubSeq(p, 1, Len(q)) \in Seq(STRING)
        /\ Len(SubSeq(p, 1, Len(q))) = IF 1 <= Len(q) THEN Len(q) - 1 + 1 ELSE 0
        /\ \A i \in 1 .. Len(q) - 1 + 1 : SubSeq(p, 1, Len(q))[i] = p[1 + i - 1]
    <3>1. 1 \in Int /\ Len(q) \in Int
      BY <1>1
    <3> QED BY <2>1, <3>1, SubSeqProperties
  <2>3. Len(SubSeq(p, 1, Len(q))) = Len(q) /\ Len(q) - 1 + 1 = Len(q)
    BY <1>1, <2>2
  <2>4. \A i \in 1 .. Len(q) : 1 + i - 1 = i
    BY <1>1
  <2> QED BY <2>2, <2>3, <2>4 DEF Path
<1>4. Under(p, q) <=> Len(q) <= Len(p) /\ q = SubSeq(p, 1, Len(q))
  BY <1>2 DEF Under, IsPrefix
<1>5. ASSUME Len(q) <= Len(p), \A i \in 1 .. Len(q) : p[i] = q[i] PROVE q = SubSeq(p, 1, Len(q))
  <2> DEFINE s == SubSeq(p, 1, Len(q))
  <2>1. s \in Seq(STRING) /\ q \in Seq(STRING) /\ Len(q) = Len(s) /\ \A i \in 1 .. Len(q) : q[i] = s[i]
    BY <1>3, <1>5 DEF Path
  <2> HIDE DEF s
  <2>2. q = s
    BY <2>1, SeqEqual
  <2> QED BY <2>2 DEF s
<1> QED BY <1>3, <1>4, <1>5

\* What is above a path are the paths it is under.
LEMMA AncestorsAreAbove ==
  ASSUME NEW p \in Path
  PROVE  /\ Ancestors(p) = {q \in Path : Under(p, q)}
         /\ p \in Ancestors(p) /\ <<>> \in Ancestors(p)
<1>1. Len(p) \in Nat /\ \A i \in 1 .. Len(p) : p[i] \in STRING
  BY LenProperties, ElementOfSeq DEF Path
<1>2. ASSUME NEW n \in 0 .. Len(p)
      PROVE  /\ SubSeq(p, 1, n) \in Path /\ Len(SubSeq(p, 1, n)) = n
             /\ \A i \in 1 .. n : SubSeq(p, 1, n)[i] = p[i]
  <2>1. \A i \in 1 .. n : p[i] \in STRING
    BY <1>1
  <2>2. /\ SubSeq(p, 1, n) \in Seq(STRING) /\ Len(SubSeq(p, 1, n)) = IF 1 <= n THEN n - 1 + 1 ELSE 0
        /\ \A i \in 1 .. n - 1 + 1 : SubSeq(p, 1, n)[i] = p[1 + i - 1]
    <3>1. 1 \in Int /\ n \in Int
      BY <1>1
    <3> QED BY <2>1, <3>1, SubSeqProperties
  <2>3. Len(SubSeq(p, 1, n)) = n /\ n - 1 + 1 = n /\ \A i \in 1 .. n : 1 + i - 1 = i
    BY <1>1, <2>2
  <2> QED BY <2>2, <2>3 DEF Path
<1>3. \A n \in 0 .. Len(p) : SubSeq(p, 1, n) \in Path /\ Under(p, SubSeq(p, 1, n))
  <2> SUFFICES ASSUME NEW n \in 0 .. Len(p) PROVE SubSeq(p, 1, n) \in Path /\ Under(p, SubSeq(p, 1, n))
    OBVIOUS
  <2> DEFINE q == SubSeq(p, 1, n)
  <2>1. q \in Path /\ Len(q) = n /\ \A i \in 1 .. n : q[i] = p[i]
    BY <1>2
  <2> HIDE DEF q
  <2>2. Under(p, q)
    <3>1. n <= Len(p)
      BY <1>1
    <3> QED BY <2>1, <3>1, UnderByNames
  <2> QED BY <2>1, <2>2 DEF q
<1>4. ASSUME NEW q \in Path, Under(p, q) PROVE \E n \in 0 .. Len(p) : q = SubSeq(p, 1, n)
  <2>1. Len(q) \in 0 .. Len(p)
    BY <1>1, <1>4, LenProperties, UnderByNames DEF Path
  <2>2. q = SubSeq(p, 1, Len(q))
    BY <1>4, SubSeqFull DEF Under, IsPrefix, Path
  <2> QED BY <2>1, <2>2
<1>5. Ancestors(p) = {q \in Path : Under(p, q)}
  BY <1>3, <1>4 DEF Ancestors
<1>6. Under(p, p) /\ <<>> \in Path /\ Under(p, <<>>)
  <2>1. <<>> \in Path /\ Len(<<>>) = 0
    BY EmptySeq DEF Path
  <2> QED BY <1>1, <2>1, UnderByNames
<1> QED BY <1>5, <1>6

\* Under is an order, and what a path is under is a line.
LEMMA UnderOrder ==
  ASSUME NEW p \in Path, NEW q \in Path, NEW r \in Path
  PROVE  /\ Under(p, p) /\ Under(p, <<>>)
         /\ Under(p, q) /\ Under(q, r) => Under(p, r)
         /\ Under(p, q) /\ Under(q, p) => p = q
         /\ Under(p, q) /\ Under(p, r) => Under(q, r) \/ Under(r, q)
<1>0. Under(p, p) /\ Under(p, <<>>)
  BY AncestorsAreAbove
<1>1. Len(p) \in Nat /\ Len(q) \in Nat /\ Len(r) \in Nat
  BY LenProperties DEF Path
<1>2. Under(p, q) /\ Under(q, r) => Under(p, r)
  <2>1. \A i \in 1 .. Len(r) : Len(r) <= Len(q) => i \in 1 .. Len(q)
    BY <1>1
  <2> QED BY <1>1, <2>1, UnderByNames
<1>3. Under(p, q) /\ Under(q, p) => p = q
  <2> SUFFICES ASSUME Under(p, q), Under(q, p) PROVE p = q
    OBVIOUS
  <2>1. Len(p) = Len(q) /\ \A i \in 1 .. Len(p) : p[i] = q[i]
    BY <1>1, UnderByNames
  <2> QED BY <2>1, SeqEqual DEF Path
<1>4. Under(p, q) /\ Under(p, r) => Under(q, r) \/ Under(r, q)
  <2> SUFFICES ASSUME Under(p, q), Under(p, r) PROVE Under(q, r) \/ Under(r, q)
    OBVIOUS
  <2>1. /\ \A i \in 1 .. Len(q) : p[i] = q[i]
        /\ \A i \in 1 .. Len(r) : p[i] = r[i]
    BY UnderByNames
  <2>2. CASE Len(r) <= Len(q)
    <3>1. \A i \in 1 .. Len(r) : i \in 1 .. Len(q)
      BY <1>1, <2>2
    <3> QED BY <2>1, <2>2, <3>1, UnderByNames
  <2>3. CASE Len(q) <= Len(r)
    <3>1. \A i \in 1 .. Len(q) : i \in 1 .. Len(r)
      BY <1>1, <2>3
    <3> QED BY <2>1, <2>3, <3>1, UnderByNames
  <2> QED BY <1>1, <2>2, <2>3
<1> QED BY <1>0, <1>2, <1>3, <1>4

\* What is above a path but for itself is above its parent.
LEMMA ParentAbove ==
  ASSUME NEW p \in Path, p # <<>>
  PROVE  /\ Parent(p) \in Path /\ Under(p, Parent(p)) /\ Parent(p) # p
         /\ \A q \in Path : Under(Parent(p), q) <=> Under(p, q) /\ q # p
<1>1. Len(p) \in Nat \ {0} /\ \A i \in 1 .. Len(p) : p[i] \in STRING
  BY LenProperties, ElementOfSeq, EmptySeq DEF Path
<1> DEFINE n == Len(p) - 1
<1>2. n \in 0 .. Len(p) /\ Parent(p) = SubSeq(p, 1, n)
  BY <1>1 DEF Parent
<1>3. Parent(p) \in Ancestors(p)
  BY <1>2 DEF Ancestors
<1>4. Parent(p) \in Path /\ Under(p, Parent(p))
  BY <1>3, AncestorsAreAbove
<1>5. Len(Parent(p)) = Len(p) - 1
  <2>1. \A i \in 1 .. n : p[i] \in STRING
    BY <1>1
  <2>2. Len(SubSeq(p, 1, n)) = IF 1 <= n THEN n - 1 + 1 ELSE 0
    <3>1. 1 \in Int /\ n \in Int
      BY <1>1
    <3> HIDE DEF n
    <3> QED BY <2>1, <3>1, SubSeqProperties
  <2>3. n \in Nat
    BY <1>1
  <2>4. (IF 1 <= n THEN n - 1 + 1 ELSE 0) = n
    <3> HIDE DEF n
    <3> QED BY <2>3
  <2> QED BY <1>2, <2>2, <2>4
<1>6. ASSUME NEW q \in Path PROVE Under(Parent(p), q) <=> Under(p, q) /\ q # p
  <2>1. Len(q) \in Nat
    BY LenProperties DEF Path
  <2>2. ASSUME Under(Parent(p), q) PROVE Under(p, q) /\ q # p
    <3>1. Len(q) <= Len(p) - 1
      BY <1>4, <1>5, <2>2, UnderByNames
    <3> QED BY <1>1, <1>4, <2>2, <3>1, UnderOrder
  <2>3. ASSUME Under(p, q), q # p PROVE Under(Parent(p), q)
    <3>1. Len(q) <= Len(p) /\ \A i \in 1 .. Len(q) : p[i] = q[i]
      BY <2>3, UnderByNames
    <3>2. Len(q) # Len(p)
      BY <2>3, <3>1, SeqEqual DEF Path
    <3>3. Len(q) <= Len(Parent(p)) /\ \A i \in 1 .. Len(q) : i \in 1 .. Len(Parent(p))
      BY <1>1, <1>5, <2>1, <3>1, <3>2
    <3>4. \A i \in 1 .. Len(Parent(p)) : p[i] = Parent(p)[i]
      BY <1>4, UnderByNames
    <3> QED BY <1>4, <3>1, <3>3, <3>4, UnderByNames
  <2> QED BY <2>2, <2>3
<1>7. Parent(p) # p
  BY <1>1, <1>5
<1> QED BY <1>4, <1>6, <1>7

\* A path that is under another goes on from it.
LEMMA UnderGoesOn ==
  ASSUME NEW p \in Path, NEW q \in Path, Under(p, q)
  PROVE  \E s \in Path : s = SubSeq(p, Len(q) + 1, Len(p)) /\ p = q \o s
<1>1. Len(p) \in Nat /\ Len(q) \in 0 .. Len(p) /\ \A i \in 1 .. Len(p) : p[i] \in STRING
  BY LenProperties, ElementOfSeq, UnderByNames DEF Path
<1> DEFINE s == SubSeq(p, Len(q) + 1, Len(p))
<1>2. s \in Path
  <2>1. Len(q) + 1 \in Int /\ Len(p) \in Int /\ \A i \in Len(q) + 1 .. Len(p) : p[i] \in STRING
    BY <1>1
  <2> QED BY <2>1, SubSeqProperties DEF Path
<1>3. SubSeq(p, 1, Len(q)) \o s = SubSeq(p, 1, Len(p))
  <2>1. 1 \in 1 .. Len(p) + 1 /\ Len(q) \in 1 - 1 .. Len(p) /\ Len(p) \in Len(q) .. Len(p)
    BY <1>1
  <2> QED BY <2>1, ConcatAdjacentSubSeq DEF Path
<1>4. SubSeq(p, 1, Len(p)) = p /\ SubSeq(p, 1, Len(q)) = q
  BY SubSeqFull DEF Path, Under, IsPrefix
<1> QED BY <1>2, <1>3, <1>4

LEMMA GoesOnUnder ==
  ASSUME NEW q \in Path, NEW s \in Path
  PROVE  /\ q \o s \in Path /\ Under(q \o s, q)
         /\ SubSeq(q \o s, Len(q) + 1, Len(q \o s)) = s
<1>1. /\ q \o s \in Path /\ Len(q \o s) = Len(q) + Len(s)
      /\ \A i \in 1 .. Len(q) + Len(s) : (q \o s)[i] = IF i <= Len(q) THEN q[i] ELSE s[i - Len(q)]
  BY ConcatProperties DEF Path
<1>2. Len(q) \in Nat /\ Len(s) \in Nat
  BY LenProperties DEF Path
<1>3. Under(q \o s, q)
  <2>1. \A i \in 1 .. Len(q) : i \in 1 .. Len(q) + Len(s) /\ i <= Len(q)
    BY <1>2
  <2>2. Len(q) <= Len(q \o s) /\ \A i \in 1 .. Len(q) : (q \o s)[i] = q[i]
    BY <1>1, <1>2, <2>1
  <2> QED BY <1>1, <2>2, UnderByNames
<1>4. PICK t \in Path : t = SubSeq(q \o s, Len(q) + 1, Len(q \o s)) /\ q \o s = q \o t
  BY <1>1, <1>3, UnderGoesOn
<1>5. s = t
  <2>1. s \in Seq(STRING) /\ t \in Seq(STRING) /\ Len(q \o t) = Len(q) + Len(t)
    BY ConcatProperties DEF Path
  <2>2. Len(s) = Len(t)
    BY <1>1, <1>2, <1>4, <2>1, LenProperties
  <2>3. \A i \in 1 .. Len(s) : Len(q) + i \in 1 .. Len(q) + Len(s) /\ ~(Len(q) + i <= Len(q))
                               /\ (Len(q) + i) - Len(q) = i
    BY <1>2
  <2>4. \A i \in 1 .. Len(q) + Len(t) : (q \o t)[i] = IF i <= Len(q) THEN q[i] ELSE t[i - Len(q)]
    BY ConcatProperties DEF Path
  <2>5. \A i \in 1 .. Len(s) : s[i] = t[i]
    BY <1>1, <1>4, <2>2, <2>3, <2>4
  <2> QED BY <2>1, <2>2, <2>5, SeqEqual
<1> QED BY <1>1, <1>3, <1>4, <1>5

LEMMA SameAfter ==
  ASSUME NEW q \in Path, NEW s \in Path, NEW t \in Path, q \o s = q \o t
  PROVE  s = t
<1>1. SubSeq(q \o s, Len(q) + 1, Len(q \o s)) = s
  BY GoesOnUnder
<1>2. SubSeq(q \o t, Len(q) + 1, Len(q \o t)) = t
  BY GoesOnUnder
<1> QED BY <1>1, <1>2

\* What is moved can be moved back, and stays under what it was under.
LEMMA RebasedBack ==
  ASSUME NEW p \in Path, NEW old \in Path, NEW new \in Path
  PROVE  /\ Rebased(p, old, new) \in Path
         /\ ~Under(p, old) => Rebased(p, old, new) = p
         /\ Under(p, old) => /\ Under(Rebased(p, old, new), new)
                             /\ Rebased(Rebased(p, old, new), new, old) = p
         /\ \A q \in Path : Under(p, q) /\ Under(q, old) =>
              Under(Rebased(p, old, new), Rebased(q, old, new))
<1>1. CASE ~Under(p, old)
  <2>1. \A q \in Path : ~(Under(p, q) /\ Under(q, old))
    BY <1>1, UnderOrder
  <2> QED BY <1>1, <2>1 DEF Rebased
<1>2. CASE Under(p, old)
  <2>1. PICK s \in Path : s = SubSeq(p, Len(old) + 1, Len(p)) /\ p = old \o s
    BY <1>2, UnderGoesOn
  <2>2. Rebased(p, old, new) = new \o s
    BY <1>2, <2>1 DEF Rebased
  <2>3. new \o s \in Path /\ Under(new \o s, new) /\ SubSeq(new \o s, Len(new) + 1, Len(new \o s)) = s
    BY GoesOnUnder
  <2>4. Rebased(new \o s, new, old) = p
    BY <2>1, <2>3 DEF Rebased
  <2>5. ASSUME NEW q \in Path, Under(p, q), Under(q, old) PROVE Under(Rebased(p, old, new), Rebased(q, old, new))
    <3>1. PICK t \in Path : t = SubSeq(q, Len(old) + 1, Len(q)) /\ q = old \o t
      BY <2>5, UnderGoesOn
    <3>2. PICK u \in Path : u = SubSeq(p, Len(q) + 1, Len(p)) /\ p = q \o u
      BY <2>5, UnderGoesOn
    <3>3. Rebased(q, old, new) = new \o t
      BY <2>5, <3>1 DEF Rebased
    <3>4. t \o u \in Path
      BY GoesOnUnder
    <3>5. (old \o t) \o u = old \o (t \o u) /\ (new \o t) \o u = new \o (t \o u)
      <4>1. old \in Seq(STRING) /\ new \in Seq(STRING) /\ t \in Seq(STRING) /\ u \in Seq(STRING)
        BY <3>1, <3>2 DEF Path
      <4>2. (old \o t) \o u = old \o (t \o u)
        BY <4>1, ConcatAssociative
      <4>3. (new \o t) \o u = new \o (t \o u)
        BY <4>1, ConcatAssociative
      <4> QED BY <4>2, <4>3
    <3>6. s = t \o u
      <4>1. old \o s = old \o (t \o u)
        BY <2>1, <3>1, <3>2, <3>5
      <4> QED BY <3>4, <4>1, SameAfter
    <3>7. new \o t \in Path
      BY GoesOnUnder
    <3>8. Under((new \o t) \o u, new \o t)
      BY <3>7, GoesOnUnder
    <3> QED BY <2>2, <3>3, <3>5, <3>6, <3>8
  <2> QED BY <1>2, <2>2, <2>3, <2>4, <2>5
<1> QED BY <1>1, <1>2

\* What the assumptions on the folders come to.
LEMMA FoldersArePaths ==
  /\ Dirs \subseteq Path /\ Paths \subseteq Dirs /\ Paths \subseteq Path /\ <<>> \in Paths /\ <<>> \in Path
  /\ Temp \in Path /\ Temp # <<>>
  /\ \A p \in Paths : Ancestors(p) \subseteq Paths /\ ~Under(p, Temp)
  /\ \A p \in Paths : p # <<>> => ~Under(Temp, p) /\ Parent(p) \in Paths
  /\ \A p, q \in Paths : Rebased(p, q, Temp) \in Dirs
  /\ Ancestors(Parent(Temp)) = {<<>>}
<1>1. /\ <<>> \in Paths /\ Paths \subseteq Path /\ Temp \in Path /\ Len(Temp) = 1 /\ Temp \notin Paths
      /\ \A p \in Paths : Ancestors(p) \subseteq Paths
  BY SourceTreeAssumption DEF Path, Ancestors
<1>2. Temp # <<>>
  BY <1>1, EmptySeq DEF Path
<1>3. \A p, q \in Paths : Rebased(p, q, Temp) \in Path
  BY <1>1, RebasedBack
<1>4. \A p \in Paths : ~Under(p, Temp)
  BY <1>1, AncestorsAreAbove
<1>5. ASSUME NEW p \in Paths, p # <<>> PROVE ~Under(Temp, p) /\ Parent(p) \in Paths
  <2>1. SUFFICES ASSUME Under(Temp, p) PROVE FALSE
    <3>1. p \in Path /\ Parent(p) \in Ancestors(p)
      BY <1>1, <1>5, ParentAbove, AncestorsAreAbove
    <3> QED BY <1>1, <3>1
  <2>2. Len(p) \in Nat \ {0} /\ Len(p) <= 1 /\ \A i \in 1 .. Len(p) : Temp[i] = p[i]
    BY <1>1, <1>5, <2>1, UnderByNames, EmptySeq DEF Path
  <2>3. Len(p) = Len(Temp)
    BY <1>1, <2>2
  <2>4. p = Temp
    BY <1>1, <2>2, <2>3, SeqEqual DEF Path
  <2> QED BY <1>1, <2>4
<1>6. Ancestors(Parent(Temp)) = {<<>>}
  <2>1. Parent(Temp) = SubSeq(Temp, 1, 0)
    BY <1>1 DEF Parent
  <2>2. Parent(Temp) = <<>>
    BY <2>1, SubSeqEmpty
  <2>3. \A q \in Path : Under(<<>>, q) => q = <<>>
    BY <1>1, UnderOrder
  <2>4. Ancestors(<<>>) = {<<>>}
    BY <1>1, <2>3, AncestorsAreAbove
  <2> QED BY <2>2, <2>4
<1> QED BY <1>1, <1>2, <1>3, <1>4, <1>5, <1>6 DEF Dirs

-----------------------------------------------------------------------------
(* The inductive invariant.                                                *)

Rec == [id : Nat, key : Keys]

\* The entries of a folder: while its file is rewritten, those to be written.
Kept(p) == IF task.at = "rewrite" /\ p = task.dir THEN task.text ELSE Entries(p)

InDocs(id) == \E d \in docs : d.id = id
InFiles(id) == \E p \in Dirs : \E i \in DOMAIN Kept(p) : Kept(p)[i].id = id

\* Whatever lies in a folder lies in one that exists, and so do its parents.
TypesOK ==
  /\ dirs \subseteq Dirs /\ <<>> \in dirs /\ (\A p \in dirs : Ancestors(p) \subseteq dirs)
  /\ items \in 0 .. MaxItems
  /\ manual \in [Dirs -> Seq(Rec) \cup {NoFile}] /\ (\A p \in Dirs : manual[p] # NoFile => p \in dirs)
  /\ docs \subseteq [dir : dirs, place : {"folder", "imports"}, name : FileNames, id : Nat]

\* Where a command that was begun goes on: what it moves next has room.
TaskOK ==
  /\ task.at = "rewrite" => task.dir \in dirs /\ task.text \in Seq(Rec) /\ manual[task.dir] = <<>>
  /\ task.at = "cleanup" => task.dir \in Paths \ {<<>>}
  /\ task.at \in {"parents", "place"} =>
       /\ task \in [at : {"parents", "place"}, old : Paths \ {<<>>}, new : Paths \ {<<>>}]
       /\ task.new \notin dirs
       /\ \A p \in dirs : Under(p, Temp) => Rebased(p, Temp, task.new) \in Paths
  /\ task.at = "place" => Ancestors(Parent(task.new)) \subseteq dirs

\* Only what was brought in is there.
BoundsOK ==
  /\ \A d \in docs : d.id < items
  /\ \A p \in Dirs : Len(Kept(p)) <= items /\ \A i \in DOMAIN Kept(p) : Kept(p)[i].id < items

\* What was not dropped is a file or an entry, in one place.
SomewhereOK == \A id \in (0 .. items - 1) \ dropped : InDocs(id) <=> ~InFiles(id)
DocsOnce == \A d, e \in docs : d.id = e.id /\ d.id \notin dropped => d = e
FilesOnce ==
  \A p, q \in Dirs : \A i \in DOMAIN Kept(p), j \in DOMAIN Kept(q) :
    Kept(p)[i].id = Kept(q)[j].id /\ Kept(p)[i].id \notin dropped => p = q /\ i = j
OnceOK == SomewhereOK /\ DocsOnce /\ FilesOnce

TInv == TypesOK /\ TaskOK /\ BoundsOK /\ OnceOK

\* What the entries of a folder are.
LEMMA EntriesTypes ==
  ASSUME TypesOK
  PROVE  /\ NoFile \notin Seq(Rec)
         /\ \A p \in Dirs : Entries(p) \in Seq(Rec) /\ (Entries(p) # <<>> => p \in dirs)
                            /\ (manual[p] \in Seq(Rec) => Entries(p) = manual[p])
<1>1. NoFile \notin Seq(Rec)
  BY SourceTreeAssumption DEF Rec
<1>2. <<>> \in Seq(Rec)
  BY EmptySeq
<1> QED BY <1>1, <1>2 DEF TypesOK, Entries

LEMMA KeptTypes ==
  ASSUME TypesOK, TaskOK
  PROVE  \A p \in Dirs : /\ Kept(p) \in Seq(Rec) /\ Len(Kept(p)) \in Nat /\ DOMAIN Kept(p) = 1 .. Len(Kept(p))
                         /\ \A i \in DOMAIN Kept(p) : Kept(p)[i] \in Rec
<1>1. \A p \in Dirs : Kept(p) \in Seq(Rec)
  BY EntriesTypes DEF TaskOK, Kept
<1> QED BY <1>1, LenProperties, ElementOfSeq

\* When a folder is moved, so is all that is in it, and nothing else.
LEMMA MoveKeeps ==
  ASSUME TypesOK, BoundsOK, OnceOK, task.at # "rewrite", task'.at # "rewrite",
         NEW ds, ds \subseteq Dirs, dirs \subseteq ds, \A p \in ds : Ancestors(p) \subseteq ds,
         NEW old \in Path, NEW new \in Path, old # <<>>, new # <<>>, ~Under(old, new), ~Under(new, old),
         Ancestors(Parent(new)) \subseteq ds,
         \A p \in ds : ~Under(p, new),
         \A p \in ds : Under(p, old) => Rebased(p, old, new) \in Dirs,
         MoveDir(ds, old, new), UNCHANGED <<items, dropped>>
  PROVE  TypesOK' /\ BoundsOK' /\ OnceOK'
<1> DEFINE To(p) == Rebased(p, old, new)
           Back(p) == Rebased(p, new, old)
<1>0. /\ Dirs \subseteq Path /\ <<>> \in ds /\ <<>> \in Path
      /\ dirs' = {To(p) : p \in ds}
      /\ docs' = {[d EXCEPT !.dir = To(@)] : d \in docs}
      /\ manual' = [p \in Dirs |-> IF Under(p, new) THEN (IF Back(p) \in Dirs THEN manual[Back(p)] ELSE NoFile)
                                   ELSE IF Under(p, old) THEN NoFile ELSE manual[p]]
  BY FoldersArePaths DEF MoveDir, TypesOK
<1>1. \A p \in Path : /\ To(p) \in Path /\ Back(p) \in Path
                      /\ ~Under(p, old) => To(p) = p
                      /\ Under(p, old) => Under(To(p), new) /\ Back(To(p)) = p
                      /\ Under(p, new) => Under(Back(p), old) /\ To(Back(p)) = p
  BY RebasedBack
<1>2. \A p, q \in Path : Under(p, q) /\ Under(q, new) => Under(Back(p), Back(q))
  BY RebasedBack
<1> HIDE DEF To, Back
<1>3. \A p \in ds : To(p) \in Dirs
  <2>1. \A p \in ds : Under(p, old) => To(p) \in Dirs
    BY DEF To
  <2> QED BY <1>0, <1>1, <2>1
<1>4. dirs' \subseteq Dirs /\ <<>> \in dirs'
  <2>1. ~Under(<<>>, old)
    BY <1>0, UnderOrder
  <2>2. To(<<>>) = <<>>
    BY <1>0, <1>1, <2>1
  <2> QED BY <1>0, <1>3, <2>2
<1>5. ASSUME NEW p1 \in dirs', NEW a \in Ancestors(p1) PROVE a \in dirs'
  <2>1. PICK p \in ds : p1 = To(p)
    BY <1>0
  <2>2. p \in Path /\ p1 \in Path /\ a \in Path /\ Under(p1, a)
    BY <1>0, <1>1, <2>1, AncestorsAreAbove
  <2>3. CASE ~Under(p, old)
    <3>1. a \in Ancestors(p) /\ ~Under(a, old)
      BY <1>1, <2>1, <2>2, <2>3, UnderOrder
    <3>2. a \in ds /\ To(a) = a
      BY <1>1, <2>2, <3>1
    <3> QED BY <1>0, <3>2
  <2>4. CASE Under(p, old) /\ Under(a, new)
    <3>1. Under(p, Back(a)) /\ Back(a) \in Path /\ To(Back(a)) = a
      BY <1>1, <1>2, <2>1, <2>2, <2>4
    <3>2. Back(a) \in ds
      BY <2>2, <3>1, AncestorsAreAbove
    <3> QED BY <1>0, <3>1, <3>2
  <2>5. CASE Under(p, old) /\ ~Under(a, new)
    <3>1. Under(p1, new)
      BY <1>1, <2>1, <2>2, <2>5
    <3>2. Under(new, a) /\ a # new
      BY <2>2, <2>5, <3>1, UnderOrder
    <3>3. a \in Ancestors(Parent(new))
      BY <2>2, <3>2, ParentAbove, AncestorsAreAbove
    <3>4. ~Under(a, old)
      BY <2>2, <3>2, UnderOrder
    <3>5. a \in ds /\ To(a) = a
      BY <1>1, <2>2, <3>3, <3>4
    <3> QED BY <1>0, <3>5
  <2> QED BY <2>3, <2>4, <2>5
<1>6. manual \in [Dirs -> Seq(Rec) \cup {NoFile}] /\ \A p \in Dirs : manual[p] # NoFile => p \in dirs
  BY DEF TypesOK
<1>7. manual' \in [Dirs -> Seq(Rec) \cup {NoFile}]
  BY <1>0, <1>6
\* Each file that is there comes from somewhere, and each that was there goes somewhere.
<1>8. \A q \in Dirs : manual'[q] # NoFile => \E p \in dirs : q = To(p) /\ manual'[q] = manual[p]
  <2> SUFFICES ASSUME NEW q \in Dirs, manual'[q] # NoFile PROVE \E p \in dirs : q = To(p) /\ manual'[q] = manual[p]
    OBVIOUS
  <2>0. q \in Path
    BY <1>0
  <2>1. CASE Under(q, new)
    <3>1. Back(q) \in Dirs /\ manual'[q] = manual[Back(q)]
      BY <1>0, <2>1
    <3>2. Back(q) \in dirs /\ q = To(Back(q))
      BY <1>1, <1>6, <2>0, <2>1, <3>1
    <3> QED BY <3>1, <3>2
  <2>2. CASE ~Under(q, new)
    <3>1. ~Under(q, old) /\ manual'[q] = manual[q]
      BY <1>0, <2>2
    <3>2. q \in dirs /\ q = To(q)
      BY <1>1, <1>6, <2>0, <3>1
    <3> QED BY <3>1, <3>2
  <2> QED BY <2>1, <2>2
<1>9. \A p \in dirs : \E q \in Dirs : q = To(p) /\ manual'[q] = manual[p]
  <2> SUFFICES ASSUME NEW p \in dirs PROVE To(p) \in Dirs /\ manual'[To(p)] = manual[p]
    OBVIOUS
  <2>0. p \in ds /\ p \in Dirs /\ p \in Path /\ To(p) \in Dirs /\ ~Under(p, new)
    BY <1>0, <1>3
  <2>1. CASE Under(p, old)
    <3>1. Under(To(p), new) /\ Back(To(p)) = p
      BY <1>1, <2>0, <2>1
    <3> QED BY <1>0, <2>0, <3>1
  <2>2. CASE ~Under(p, old)
    <3>1. To(p) = p
      BY <1>1, <2>0, <2>2
    <3> QED BY <1>0, <2>0, <2>2, <3>1
  <2> QED BY <2>1, <2>2
<1>10. ASSUME NEW d \in docs
       PROVE  LET e == [d EXCEPT !.dir = To(@)] IN
              e.id = d.id /\ e \in [dir : dirs', place : {"folder", "imports"}, name : FileNames, id : Nat]
  <2>1. d \in [dir : dirs, place : {"folder", "imports"}, name : FileNames, id : Nat]
    BY DEF TypesOK
  <2>2. To(d.dir) \in dirs'
    BY <1>0, <2>1
  <2> QED BY <2>1, <2>2
<1>11. TypesOK'
  <2>1. \A q \in Dirs : manual'[q] # NoFile => q \in dirs'
    BY <1>0, <1>8
  <2>2. docs' \subseteq [dir : dirs', place : {"folder", "imports"}, name : FileNames, id : Nat]
    BY <1>0, <1>10
  <2> QED BY <1>4, <1>5, <1>7, <2>1, <2>2 DEF TypesOK
<1>12. \A q \in Dirs : Kept(q)' = <<>> \/ \E p \in dirs : q = To(p) /\ Kept(q)' = Kept(p)
  BY <1>8, TypesOK DEF Kept, Entries
<1>13. \A p \in Dirs : Kept(p) = <<>> \/ \E q \in Dirs : q = To(p) /\ Kept(q)' = Kept(p)
  <2>1. \A p \in Dirs : Kept(p) # <<>> => p \in dirs
    BY EntriesTypes DEF Kept
  <2> QED BY <1>9, <2>1 DEF Kept, Entries
<1>14. dirs \subseteq Dirs /\ DOMAIN <<>> = {} /\ Len(<<>>) = 0 /\ items \in Nat
  BY SourceTreeAssumption DEF TypesOK
<1>15. BoundsOK'
  <2>1. \A e \in docs' : e.id < items'
    BY <1>0, <1>10 DEF BoundsOK
  <2>2. \A q \in Dirs : Len(Kept(q)') <= items' /\ \A i \in DOMAIN Kept(q)' : Kept(q)'[i].id < items'
    BY <1>12, <1>14 DEF BoundsOK
  <2> QED BY <2>1, <2>2 DEF BoundsOK
<1>16. ASSUME NEW id PROVE (InDocs(id)' <=> InDocs(id)) /\ (InFiles(id)' <=> InFiles(id))
  <2>1. InDocs(id)' <=> InDocs(id)
    <3>1. ASSUME NEW e \in docs' PROVE \E d \in docs : d.id = e.id
      BY <1>0, <1>10
    <3>2. ASSUME NEW d \in docs PROVE \E e \in docs' : e.id = d.id
      <4>1. [d EXCEPT !.dir = To(@)] \in docs'
        BY <1>0
      <4> QED BY <1>10, <4>1
    <3> QED BY <3>1, <3>2 DEF InDocs
  <2>2. InFiles(id)' => InFiles(id)
    BY <1>12, <1>14 DEF InFiles
  <2>3. InFiles(id) => InFiles(id)'
    BY <1>13, <1>14 DEF InFiles
  <2> QED BY <2>1, <2>2, <2>3
<1>17. SomewhereOK'
  BY <1>16 DEF OnceOK, SomewhereOK
<1>18. DocsOnce'
  <2> SUFFICES ASSUME NEW d1 \in docs', NEW e1 \in docs', d1.id = e1.id, d1.id \notin dropped PROVE d1 = e1
    BY DEF DocsOnce
  <2>1. PICK d \in docs : d1 = [d EXCEPT !.dir = To(@)]
    BY <1>0
  <2>2. PICK e \in docs : e1 = [e EXCEPT !.dir = To(@)]
    BY <1>0
  <2>3. d.id = e.id /\ d.id \notin dropped
    BY <1>10, <2>1, <2>2
  <2>4. d = e
    BY <2>3 DEF OnceOK, DocsOnce
  <2> QED BY <2>1, <2>2, <2>4
<1>19. FilesOnce'
  <2> SUFFICES ASSUME NEW p1 \in Dirs, NEW q1 \in Dirs, NEW i \in DOMAIN Kept(p1)', NEW j \in DOMAIN Kept(q1)',
                      Kept(p1)'[i].id = Kept(q1)'[j].id, Kept(p1)'[i].id \notin dropped
               PROVE  p1 = q1 /\ i = j
    BY DEF FilesOnce
  <2>1. PICK p \in dirs : p1 = To(p) /\ Kept(p1)' = Kept(p)
    BY <1>12, <1>14
  <2>2. PICK q \in dirs : q1 = To(q) /\ Kept(q1)' = Kept(q)
    BY <1>12, <1>14
  <2>3. p = q /\ i = j
    BY <1>14, <2>1, <2>2 DEF OnceOK, FilesOnce
  <2> QED BY <2>1, <2>2, <2>3
<1> QED BY <1>11, <1>15, <1>17, <1>18, <1>19 DEF OnceOK

-----------------------------------------------------------------------------
(* Steps that add, take away or leave alone.                               *)

LEMMA FilesStay ==
  ASSUME FilesOnce, \A p \in Dirs : Kept(p)' = Kept(p), dropped \subseteq dropped'
  PROVE  FilesOnce' /\ \A id : InFiles(id)' <=> InFiles(id)
BY DEF FilesOnce, InFiles

LEMMA DocsStay ==
  ASSUME DocsOnce, docs' = docs, dropped \subseteq dropped'
  PROVE  DocsOnce' /\ \A id : InDocs(id)' <=> InDocs(id)
BY DEF DocsOnce, InDocs

LEMMA NothingMoves ==
  ASSUME BoundsOK, OnceOK, docs' = docs, \A p \in Dirs : Kept(p)' = Kept(p),
         items' = items, dropped \subseteq dropped'
  PROVE  BoundsOK' /\ OnceOK'
<1>1. BoundsOK'
  BY DEF BoundsOK
<1>2. DocsOnce' /\ FilesOnce' /\ \A id : (InDocs(id)' <=> InDocs(id)) /\ (InFiles(id)' <=> InFiles(id))
  BY DocsStay, FilesStay DEF OnceOK
<1>3. SomewhereOK'
  BY <1>2 DEF OnceOK, SomewhereOK
<1> QED BY <1>1, <1>2, <1>3 DEF OnceOK

\* A folder is made with its parents.
LEMMA WithParentsTypes ==
  ASSUME TypesOK, NEW p \in Paths
  PROVE  /\ dirs \subseteq WithParents(p) /\ WithParents(p) \subseteq Dirs /\ p \in WithParents(p)
         /\ \A q \in WithParents(p) : Ancestors(q) \subseteq WithParents(p)
<1>1. p \in Path /\ Ancestors(p) \subseteq Paths /\ Paths \subseteq Dirs /\ Dirs \subseteq Path /\ p \in Ancestors(p)
  BY FoldersArePaths, AncestorsAreAbove
<1>2. dirs \subseteq Dirs /\ \A q \in dirs : Ancestors(q) \subseteq dirs
  BY DEF TypesOK
<1>3. ASSUME NEW q \in Ancestors(p) PROVE Ancestors(q) \subseteq Ancestors(p)
  <2>1. q \in Path /\ Under(p, q)
    BY <1>1, AncestorsAreAbove
  <2> QED BY <1>1, <2>1, AncestorsAreAbove, UnderOrder
<1> QED BY <1>1, <1>2, <1>3 DEF WithParents

\* A statement file is brought in, in the place of those it replaces.
LEMMA NewDoc ==
  ASSUME TypesOK, TaskOK, BoundsOK, OnceOK, NEW gone \in SUBSET docs, NEW d0, d0.id = items,
         docs' = (docs \ gone) \cup {d0}, dropped' = dropped \cup {d.id : d \in gone},
         items' = items + 1, \A p \in Dirs : Kept(p)' = Kept(p)
  PROVE  BoundsOK' /\ OnceOK'
<1>0. items \in Nat /\ \A d \in docs : d.id \in Nat /\ d.id < items
  BY SourceTreeAssumption DEF TypesOK, BoundsOK
<1>1. FilesOnce' /\ \A id : InFiles(id)' <=> InFiles(id)
  BY FilesStay DEF OnceOK
<1>2. \A p \in Dirs : Len(Kept(p)) <= items /\ \A i \in DOMAIN Kept(p) : Kept(p)[i].id < items
  BY DEF BoundsOK
<1>3. BoundsOK'
  <2>1. \A p \in Dirs : Len(Kept(p)) \in Nat /\ \A i \in DOMAIN Kept(p) : Kept(p)[i].id \in Nat
    BY KeptTypes DEF Rec
  <2>2. \A p \in Dirs : Len(Kept(p)) <= items + 1 /\ \A i \in DOMAIN Kept(p) : Kept(p)[i].id < items + 1
    BY <1>0, <1>2, <2>1
  <2>3. \A d \in docs' : d.id < items + 1
    BY <1>0
  <2> QED BY <2>2, <2>3 DEF BoundsOK
<1>4. DocsOnce'
  <2>1. \A d, e \in docs \ gone : d.id = e.id /\ d.id \notin dropped => d = e
    BY DEF OnceOK, DocsOnce
  <2>2. \A d \in docs \ gone : d.id # d0.id
    BY <1>0
  <2> QED BY <2>1, <2>2 DEF DocsOnce
<1>5. ASSUME NEW id, id \notin dropped', id # items PROVE InDocs(id)' <=> InDocs(id)
  BY <1>5 DEF InDocs
<1>6. ASSUME NEW id, id = items PROVE InDocs(id)' /\ ~InFiles(id)
  <2>1. InDocs(id)'
    BY <1>6 DEF InDocs
  <2>2. ~InFiles(id)
    BY <1>0, <1>2, <1>6 DEF InFiles
  <2> QED BY <2>1, <2>2
<1>7. SomewhereOK'
  <2> SUFFICES ASSUME NEW id \in (0 .. items) \ dropped' PROVE InDocs(id)' <=> ~InFiles(id)'
    <3>1. items' - 1 = items
      BY <1>0
    <3> QED BY <3>1 DEF SomewhereOK
  <2>1. CASE id = items
    BY <1>1, <1>6, <2>1
  <2>2. CASE id # items
    <3>1. id \in (0 .. items - 1) \ dropped
      BY <1>0, <2>2
    <3> QED BY <1>1, <1>5, <2>2, <3>1 DEF OnceOK, SomewhereOK
  <2> QED BY <2>1, <2>2
<1> QED BY <1>1, <1>3, <1>4, <1>7 DEF OnceOK

\* The first of the entries that match.
LEMMA FirstHit ==
  ASSUME NEW hits \in SUBSET Nat, hits # {}
  PROVE  (CHOOSE i \in hits : \A j \in hits : i <= j) \in hits
<1>1. \E i \in hits : \A j \in hits : i <= j
  <2> DEFINE T == {1 .. i : i \in hits}
  <2>1. T \subseteq FiniteSubsetsOf(Nat) /\ T # {}
    <3>1. \A i \in hits : IsFiniteSet(1 .. i) /\ 1 .. i \subseteq Nat
      BY FS_Interval
    <3> QED BY <3>1 DEF FiniteSubsetsOf
  <2>2. IsWellFoundedOn(StrictSubsetOrdering(Nat), FiniteSubsetsOf(Nat))
    BY FS_StrictSubsetOrderingWellFounded
  <2>3. \E U \in T : \A V \in T : ~(<<V, U>> \in StrictSubsetOrdering(Nat))
    <3> HIDE DEF T
    <3> QED BY <2>1, <2>2, WFMin
  <2>4. PICK i \in hits : \A V \in T : ~(V \subseteq 1 .. i /\ V # 1 .. i)
    BY <2>1, <2>3 DEF StrictSubsetOrdering, FiniteSubsetsOf
  <2>5. ASSUME NEW j \in hits, j < i PROVE FALSE
    <3>1. 1 .. j \subseteq 1 .. i /\ i \in 1 .. i /\ i \notin 1 .. j
      BY <2>5
    <3> QED BY <2>4, <3>1
  <2> QED BY <2>5
<1> QED BY <1>1

\* What is left when one entry is taken out.
LEMMA WithoutOne ==
  ASSUME NEW s \in Seq(Rec), NEW i \in 1 .. Len(s)
  PROVE  /\ RemoveAt(s, i) \in Seq(Rec) /\ Len(RemoveAt(s, i)) = Len(s) - 1
         /\ \A j \in 1 .. Len(s) - 1 : RemoveAt(s, i)[j] = s[IF j < i THEN j ELSE j + 1]
<1>1. Len(s) \in Nat \ {0} /\ \A j \in 1 .. Len(s) : s[j] \in Rec
  BY LenProperties, ElementOfSeq
<1> DEFINE a == SubSeq(s, 1, i - 1)
           b == SubSeq(s, i + 1, Len(s))
<1>2. /\ a \in Seq(Rec) /\ Len(a) = i - 1 /\ \A j \in 1 .. i - 1 : a[j] = s[j]
  <2>1. 1 \in Int /\ i - 1 \in Int /\ \A j \in 1 .. i - 1 : s[j] \in Rec
    BY <1>1
  <2>2. /\ a \in Seq(Rec) /\ Len(a) = (IF 1 <= i - 1 THEN (i - 1) - 1 + 1 ELSE 0)
        /\ \A j \in 1 .. (i - 1) - 1 + 1 : a[j] = s[1 + j - 1]
    BY <2>1, SubSeqProperties
  <2>3. (IF 1 <= i - 1 THEN (i - 1) - 1 + 1 ELSE 0) = i - 1 /\ (i - 1) - 1 + 1 = i - 1
        /\ \A j \in 1 .. i - 1 : 1 + j - 1 = j
    BY <1>1
  <2> HIDE DEF a
  <2> QED BY <2>2, <2>3
<1>3. /\ b \in Seq(Rec) /\ Len(b) = Len(s) - i /\ \A j \in 1 .. Len(s) - i : b[j] = s[i + j]
  <2>1. i + 1 \in Int /\ Len(s) \in Int /\ \A j \in i + 1 .. Len(s) : s[j] \in Rec
    BY <1>1
  <2>2. /\ b \in Seq(Rec) /\ Len(b) = (IF i + 1 <= Len(s) THEN Len(s) - (i + 1) + 1 ELSE 0)
        /\ \A j \in 1 .. Len(s) - (i + 1) + 1 : b[j] = s[(i + 1) + j - 1]
    BY <2>1, SubSeqProperties
  <2>3. (IF i + 1 <= Len(s) THEN Len(s) - (i + 1) + 1 ELSE 0) = Len(s) - i /\ Len(s) - (i + 1) + 1 = Len(s) - i
        /\ \A j \in 1 .. Len(s) - i : (i + 1) + j - 1 = i + j
    BY <1>1
  <2> HIDE DEF b
  <2> QED BY <2>2, <2>3
<1> HIDE DEF a, b
<1>4. /\ a \o b \in Seq(Rec) /\ Len(a \o b) = Len(a) + Len(b)
      /\ \A j \in 1 .. Len(a) + Len(b) : (a \o b)[j] = IF j <= Len(a) THEN a[j] ELSE b[j - Len(a)]
  BY <1>2, <1>3, ConcatProperties
<1>5. Len(a) + Len(b) = Len(s) - 1
  BY <1>1, <1>2, <1>3
<1>6. ASSUME NEW j \in 1 .. Len(s) - 1 PROVE (a \o b)[j] = s[IF j < i THEN j ELSE j + 1]
  <2>1. CASE j < i
    <3>1. j <= Len(a) /\ j \in 1 .. i - 1
      BY <1>1, <1>2, <2>1
    <3> QED BY <1>2, <1>4, <1>5, <2>1, <3>1
  <2>2. CASE ~(j < i)
    <3>1. ~(j <= Len(a)) /\ j - Len(a) \in 1 .. Len(s) - i /\ i + (j - Len(a)) = j + 1
      BY <1>1, <1>2, <2>2
    <3> QED BY <1>3, <1>4, <1>5, <2>2, <3>1
  <2> QED BY <2>1, <2>2
<1>7. RemoveAt(s, i) = a \o b
  BY DEF RemoveAt, a, b
<1> QED BY <1>4, <1>5, <1>6, <1>7

-----------------------------------------------------------------------------
(* Each step keeps the invariant.                                          *)

\* A step that changes no folder, file or entry and leaves no move to be done.
LEMMA QuietKeeps ==
  ASSUME TInv, UNCHANGED <<dirs, manual, docs, items, dropped>>,
         task.at \in {"rest", "imports", "cleanup", "parents", "place"}, task'.at \in {"rest", "imports"}
  PROVE  TInv'
<1>1. TypesOK' /\ TaskOK'
  BY DEF TInv, TypesOK, TaskOK
<1>2. \A p \in Dirs : Kept(p)' = Kept(p)
  BY DEF Kept, Entries
<1> QED BY <1>1, <1>2, NothingMoves DEF TInv

LEMMA AppendManualKeeps ==
  ASSUME TInv, NEW p \in Paths, NEW k \in Keys, AppendManual(p, k)
  PROVE  TInv'
<1> DEFINE r == [id |-> items, key |-> k]
<1>0. /\ task = Resting /\ items < MaxItems /\ items' = items + 1
      /\ task' = [at |-> "rewrite", dir |-> p, text |-> Append(Entries(p), r)]
      /\ dirs' = WithParents(p) /\ manual' = [manual EXCEPT ![p] = <<>>]
      /\ docs' = docs /\ dropped' = dropped
  BY DEF AppendManual, NewCommand, NewItem, Rewrite
<1>1. items \in Nat /\ r \in Rec /\ r.id = items /\ p \in Dirs /\ MaxItems \in Nat
  BY FoldersArePaths, SourceTreeAssumption DEF TInv, TypesOK, Rec
<1> DEFINE s == Entries(p)
           t == Append(s, r)
<1>2. s \in Seq(Rec)
  BY <1>1, EntriesTypes DEF TInv
<1> HIDE DEF r
<1>3. /\ t \in Seq(Rec) /\ Len(t) = Len(s) + 1 /\ t[Len(s) + 1] = r /\ \A i \in 1 .. Len(s) : t[i] = s[i]
      /\ Len(s) \in Nat /\ DOMAIN s = 1 .. Len(s) /\ DOMAIN t = 1 .. Len(s) + 1
  BY <1>1, <1>2, AppendProperties, LenProperties
<1>4. TypesOK'
  <2>1. /\ dirs \subseteq dirs' /\ dirs' \subseteq Dirs /\ p \in dirs'
        /\ \A q \in dirs' : Ancestors(q) \subseteq dirs'
    BY <1>0, WithParentsTypes DEF TInv
  <2>2. manual' \in [Dirs -> Seq(Rec) \cup {NoFile}]
    BY <1>0, <1>1, EmptySeq DEF TInv, TypesOK
  <2>3. \A q \in Dirs : manual'[q] # NoFile => q \in dirs'
    BY <1>0, <2>1 DEF TInv, TypesOK
  <2>4. items' \in 0 .. MaxItems
    BY <1>0, <1>1
  <2>5. docs' \subseteq [dir : dirs', place : {"folder", "imports"}, name : FileNames, id : Nat]
    BY <1>0, <2>1 DEF TInv, TypesOK
  <2> QED BY <2>1, <2>2, <2>3, <2>4, <2>5 DEF TInv, TypesOK
<1>a. task' = [at |-> "rewrite", dir |-> p, text |-> t]
  BY <1>0 DEF r
<1>5. TaskOK'
  <2>1. p \in dirs' /\ manual'[p] = <<>>
    BY <1>0, <1>1, WithParentsTypes DEF TInv, TypesOK
  <2> HIDE DEF t
  <2> QED BY <1>3, <1>a, <2>1 DEF TaskOK
<1>6. \A q \in Dirs : Kept(q) = Entries(q) /\ Kept(q)' = IF q = p THEN t ELSE Entries(q)
  <2> HIDE DEF t
  <2>1. DOMAIN manual = Dirs /\ \A q \in Dirs : q # p => manual'[q] = manual[q]
    BY <1>0 DEF TInv, TypesOK
  <2>2. task'.at = "rewrite" /\ task'.dir = p /\ task'.text = t /\ task.at # "rewrite"
    BY <1>0, <1>a DEF Resting
  <2> QED BY <2>1, <2>2 DEF Kept, Entries
<1> HIDE DEF t, s
<1>7. Kept(p) = s
  BY <1>1, <1>6 DEF s
<1>8. \A q \in Dirs : Len(Kept(q)) \in Nat /\ Len(Kept(q)) <= items /\ \A i \in DOMAIN Kept(q) : Kept(q)[i].id \in Nat /\ Kept(q)[i].id < items
  BY KeptTypes DEF TInv, BoundsOK, Rec
<1>9. \A q \in Dirs : \A i \in DOMAIN Kept(q)' :
        IF q = p /\ i = Len(s) + 1 THEN Kept(q)'[i] = r
        ELSE i \in DOMAIN Kept(q) /\ Kept(q)'[i] = Kept(q)[i]
  BY <1>3, <1>6, <1>7
<1>10. \A q \in Dirs : \A i \in DOMAIN Kept(q) : i \in DOMAIN Kept(q)' /\ Kept(q)'[i] = Kept(q)[i]
  BY <1>3, <1>6, <1>7
<1>11. BoundsOK'
  <2>1. \A d \in docs' : d.id < items'
    BY <1>0, <1>1 DEF TInv, TypesOK, BoundsOK
  <2>2. \A q \in Dirs : Len(Kept(q)') <= items'
    BY <1>0, <1>1, <1>3, <1>6, <1>7, <1>8
  <2>3. \A q \in Dirs : \A i \in DOMAIN Kept(q)' : Kept(q)'[i].id < items'
    BY <1>0, <1>1, <1>8, <1>9
  <2> QED BY <2>1, <2>2, <2>3 DEF BoundsOK
<1>12. DocsOnce' /\ \A id : InDocs(id)' <=> InDocs(id)
  BY <1>0, DocsStay DEF TInv, OnceOK
<1>13. FilesOnce'
  <2> SUFFICES ASSUME NEW q \in Dirs, NEW w \in Dirs, NEW i \in DOMAIN Kept(q)', NEW j \in DOMAIN Kept(w)',
                      Kept(q)'[i].id = Kept(w)'[j].id, Kept(q)'[i].id \notin dropped
               PROVE  q = w /\ i = j
    BY <1>0 DEF FilesOnce
  <2>1. CASE (q = p /\ i = Len(s) + 1) \/ (w = p /\ j = Len(s) + 1)
    BY <1>1, <1>8, <1>9, <2>1
  <2>2. CASE ~(q = p /\ i = Len(s) + 1) /\ ~(w = p /\ j = Len(s) + 1)
    BY <1>9, <2>2 DEF TInv, OnceOK, FilesOnce
  <2> QED BY <2>1, <2>2
<1>14. ASSUME NEW id, id # items PROVE InFiles(id)' <=> InFiles(id)
  <2>1. InFiles(id)' => InFiles(id)
    BY <1>1, <1>9, <1>14 DEF InFiles
  <2>2. InFiles(id) => InFiles(id)'
    BY <1>10 DEF InFiles
  <2> QED BY <2>1, <2>2
<1>15. ASSUME NEW id, id = items PROVE InFiles(id)' /\ ~InDocs(id)
  <2>1. Len(s) + 1 \in DOMAIN Kept(p)' /\ Kept(p)'[Len(s) + 1] = r
    BY <1>1, <1>3, <1>6
  <2>2. InFiles(id)'
    BY <1>1, <1>15, <2>1 DEF InFiles
  <2>3. ~InDocs(id)
    BY <1>1, <1>15 DEF InDocs, TInv, TypesOK, BoundsOK
  <2> QED BY <2>2, <2>3
<1>16. SomewhereOK'
  <2> SUFFICES ASSUME NEW id \in (0 .. items) \ dropped PROVE InDocs(id)' <=> ~InFiles(id)'
    <3>1. items' - 1 = items
      BY <1>0, <1>1
    <3> QED BY <1>0, <3>1 DEF SomewhereOK
  <2>1. CASE id = items
    BY <1>12, <1>15, <2>1
  <2>2. CASE id # items
    <3>1. id \in (0 .. items - 1) \ dropped
      BY <1>1, <2>2
    <3> QED BY <1>12, <1>14, <2>2, <3>1 DEF TInv, OnceOK, SomewhereOK
  <2> QED BY <2>1, <2>2
<1> QED BY <1>4, <1>5, <1>11, <1>12, <1>13, <1>16 DEF TInv, OnceOK

LEMMA DeleteManualKeeps ==
  ASSUME TInv, NEW p \in Paths, NEW k \in Keys, DeleteManual(p, k)
  PROVE  TInv'
<1> DEFINE q == IF manual[p] = NoFile THEN <<>> ELSE p
           s == Entries(q)
           hits == {i \in DOMAIN s : s[i].key = k}
           h == CHOOSE i \in hits : \A j \in hits : i <= j
<1>0. /\ task = Resting /\ manual[q] # NoFile
      /\ task' = [at |-> "rewrite", dir |-> q, text |-> IF hits = {} THEN s ELSE RemoveAt(s, h)]
      /\ dropped' = IF hits = {} THEN dropped ELSE dropped \cup {s[h].id}
      /\ manual' = [manual EXCEPT ![q] = <<>>]
      /\ UNCHANGED <<dirs, docs, items>>
  BY DEF DeleteManual, NewCommand, Rewrite, remove_manual_transaction
<1>1. q \in Dirs /\ <<>> \in Seq(Rec)
  BY FoldersArePaths, EmptySeq
<1>2. s \in Seq(Rec)
  BY <1>1, EntriesTypes DEF TInv
<1>3. Len(s) \in Nat /\ DOMAIN s = 1 .. Len(s)
  BY <1>2, LenProperties
<1>4. hits # {} => h \in 1 .. Len(s)
  <2>1. hits \in SUBSET Nat /\ hits \subseteq 1 .. Len(s)
    BY <1>3
  <2> HIDE DEF hits
  <2> QED BY <2>1, FirstHit
<1> DEFINE t == IF hits = {} THEN s ELSE RemoveAt(s, h)
<1> HIDE DEF hits, h, s, q
<1>5. /\ t \in Seq(Rec) /\ Len(t) \in Nat /\ Len(t) <= Len(s) /\ DOMAIN t = 1 .. Len(t)
      /\ hits = {} => t = s
      /\ hits # {} => Len(t) = Len(s) - 1 /\ \A j \in 1 .. Len(s) - 1 : t[j] = s[IF j < h THEN j ELSE j + 1]
  <2>1. CASE hits = {}
    BY <1>2, <1>3, <2>1
  <2>2. CASE hits # {}
    <3>1. t = RemoveAt(s, h)
      BY <2>2
    <3>2. /\ RemoveAt(s, h) \in Seq(Rec) /\ Len(RemoveAt(s, h)) = Len(s) - 1
          /\ \A j \in 1 .. Len(s) - 1 : RemoveAt(s, h)[j] = s[IF j < h THEN j ELSE j + 1]
      BY <1>2, <1>4, <2>2, WithoutOne
    <3> HIDE DEF t
    <3>3. Len(t) \in Nat /\ DOMAIN t = 1 .. Len(t)
      BY <3>1, <3>2, LenProperties
    <3>4. Len(t) <= Len(s)
      BY <1>3, <3>1, <3>2
    <3> QED BY <2>2, <3>1, <3>2, <3>3, <3>4
  <2> QED BY <2>1, <2>2
<1>6. task' = [at |-> "rewrite", dir |-> q, text |-> t]
  BY <1>0
<1> HIDE DEF t
\* Where each entry that is kept was.
<1> DEFINE g(j) == IF hits = {} \/ j < h THEN j ELSE j + 1
<1>7. /\ \A j \in DOMAIN t : g(j) \in DOMAIN s /\ t[j] = s[g(j)]
      /\ \A i, j \in DOMAIN t : g(i) = g(j) => i = j
      /\ \A i \in DOMAIN s : (hits # {} /\ i = h) \/ \E j \in DOMAIN t : g(j) = i
  <2>1. CASE hits = {}
    BY <1>3, <1>5, <2>1
  <2>2. CASE hits # {}
    <3>1. h \in 1 .. Len(s) /\ DOMAIN t = 1 .. Len(s) - 1
      BY <1>4, <1>5, <2>2
    <3>2. \A j \in DOMAIN t : g(j) \in DOMAIN s /\ t[j] = s[g(j)]
      <4> SUFFICES ASSUME NEW j \in DOMAIN t PROVE g(j) \in DOMAIN s /\ t[j] = s[g(j)]
        OBVIOUS
      <4>1. j \in 1 .. Len(s) - 1 /\ t[j] = s[IF j < h THEN j ELSE j + 1]
        BY <1>5, <2>2, <3>1
      <4>2. g(j) = IF j < h THEN j ELSE j + 1
        BY <2>2
      <4>3. g(j) \in 1 .. Len(s)
        BY <1>3, <3>1, <4>1, <4>2
      <4> HIDE DEF g
      <4> QED BY <1>3, <4>1, <4>2, <4>3
    <3>3. \A i, j \in DOMAIN t : g(i) = g(j) => i = j
      BY <1>3, <2>2, <3>1
    <3>4. ASSUME NEW i \in DOMAIN s, i # h PROVE \E j \in DOMAIN t : g(j) = i
      <4>1. CASE i < h
        BY <1>3, <2>2, <3>1, <4>1
      <4>2. CASE i > h
        <5>1. i - 1 \in DOMAIN t /\ ~(i - 1 < h) /\ (i - 1) + 1 = i
          BY <1>3, <3>1, <4>2
        <5> QED BY <2>2, <5>1
      <4> QED BY <1>3, <3>1, <3>4, <4>1, <4>2
    <3> HIDE DEF g
    <3> QED BY <2>2, <3>2, <3>3, <3>4
  <2> QED BY <2>1, <2>2
<1> HIDE DEF g
<1>8. \A w \in Dirs : Kept(w) = Entries(w) /\ Kept(w)' = IF w = q THEN t ELSE Entries(w)
  <2>1. DOMAIN manual = Dirs
    BY DEF TInv, TypesOK
  <2>2. \A w \in Dirs : w # q => manual'[w] = manual[w]
    BY <1>0, <2>1
  <2>3. task'.at = "rewrite" /\ task'.dir = q /\ task'.text = t /\ task.at # "rewrite"
    BY <1>0, <1>6 DEF Resting
  <2> QED BY <2>2, <2>3 DEF Kept, Entries
<1>9. Kept(q) = s
  BY <1>1, <1>8 DEF s
<1>10. TypesOK' /\ TaskOK'
  <2>1. q \in dirs /\ manual \in [Dirs -> Seq(Rec) \cup {NoFile}]
    BY <1>0, <1>1 DEF TInv, TypesOK
  <2>2. manual' \in [Dirs -> Seq(Rec) \cup {NoFile}] /\ manual'[q] = <<>>
    BY <1>0, <1>1, <2>1
  <2>3. \A w \in Dirs : manual'[w] # NoFile => w \in dirs'
    BY <1>0, <1>1, <2>1 DEF TInv, TypesOK
  <2>4. TypesOK'
    BY <1>0, <2>2, <2>3 DEF TInv, TypesOK
  <2>5. TaskOK'
    BY <1>0, <1>5, <1>6, <2>1, <2>2 DEF TaskOK
  <2> QED BY <2>4, <2>5
<1>11. items \in Nat /\ items' = items
  BY <1>0, SourceTreeAssumption DEF TInv, TypesOK
<1>12. BoundsOK'
  <2>1. Len(s) <= items /\ \A i \in DOMAIN s : s[i].id < items
    BY <1>1, <1>9 DEF TInv, BoundsOK
  <2>2. Len(t) <= items /\ \A j \in DOMAIN t : t[j].id < items
    <3>1. Len(t) <= items
      <4>1. Len(t) \in Nat /\ Len(t) <= Len(s) /\ Len(s) \in Nat /\ Len(s) <= items
        BY <1>3, <1>5, <2>1
      <4> HIDE DEF t
      <4> QED BY <1>11, <4>1
    <3>2. \A j \in DOMAIN t : t[j].id < items
      BY <1>7, <2>1
    <3> QED BY <3>1, <3>2
  <2> QED BY <1>0, <1>8, <2>2 DEF TInv, BoundsOK
<1>13. dropped \subseteq dropped' /\ (hits # {} => s[h].id \in dropped')
  BY <1>0
<1>14. DocsOnce' /\ \A id : InDocs(id)' <=> InDocs(id)
  BY <1>0, <1>13, DocsStay DEF TInv, OnceOK
<1>15. ASSUME NEW id, id \notin dropped' PROVE InFiles(id)' <=> InFiles(id)
  <2>1. (\E j \in DOMAIN t : t[j].id = id) <=> (\E i \in DOMAIN s : s[i].id = id)
    BY <1>7, <1>13, <1>15
  <2> QED BY <1>8, <1>9, <2>1 DEF InFiles
<1>16. SomewhereOK'
  BY <1>11, <1>13, <1>14, <1>15 DEF TInv, OnceOK, SomewhereOK
<1>17. FilesOnce'
  <2> SUFFICES ASSUME NEW v \in Dirs, NEW w \in Dirs, NEW i \in DOMAIN Kept(v)', NEW j \in DOMAIN Kept(w)',
                      Kept(v)'[i].id = Kept(w)'[j].id, Kept(v)'[i].id \notin dropped'
               PROVE  v = w /\ i = j
    BY DEF FilesOnce
  <2> DEFINE old(x, n) == IF x = q THEN g(n) ELSE n
  <2>1. old(v, i) \in DOMAIN Kept(v) /\ Kept(v)'[i] = Kept(v)[old(v, i)]
    BY <1>7, <1>8, <1>9
  <2>2. old(w, j) \in DOMAIN Kept(w) /\ Kept(w)'[j] = Kept(w)[old(w, j)]
    BY <1>7, <1>8, <1>9
  <2>3. v = w /\ old(v, i) = old(w, j)
    <3> HIDE DEF old
    <3> QED BY <1>13, <2>1, <2>2 DEF TInv, OnceOK, FilesOnce
  <2> QED BY <1>7, <1>8, <2>3
<1> QED BY <1>10, <1>12, <1>14, <1>16, <1>17 DEF TInv, OnceOK

LEMMA RewriteManualKeeps ==
  ASSUME TInv, RewriteManual
  PROVE  TInv'
<1>0. /\ task.at = "rewrite" /\ task' = Resting /\ manual' = [manual EXCEPT ![task.dir] = task.text]
      /\ UNCHANGED <<dirs, docs, items, dropped>>
  BY DEF RewriteManual
<1>1. task.dir \in dirs /\ task.dir \in Dirs /\ task.text \in Seq(Rec) /\ manual[task.dir] = <<>>
  BY <1>0 DEF TInv, TaskOK, TypesOK
<1>2. manual \in [Dirs -> Seq(Rec) \cup {NoFile}] /\ \A p \in Dirs : manual[p] # NoFile => p \in dirs
  BY DEF TInv, TypesOK
<1>3. TypesOK'
  <2>1. manual' \in [Dirs -> Seq(Rec) \cup {NoFile}] /\ \A p \in Dirs : manual'[p] # NoFile => p \in dirs
    BY <1>0, <1>1, <1>2
  <2> QED BY <1>0, <2>1 DEF TInv, TypesOK
<1>4. TaskOK'
  BY <1>0 DEF TaskOK, Resting
<1>5. \A p \in Dirs : Kept(p)' = Kept(p)
  <2>1. task.text # NoFile
    BY <1>1, EntriesTypes DEF TInv
  <2>2. \A p \in Dirs : manual'[p] = IF p = task.dir THEN task.text ELSE manual[p]
    BY <1>0, <1>2
  <2> QED BY <1>0, <2>1, <2>2 DEF Kept, Entries, Resting
<1> QED BY <1>0, <1>3, <1>4, <1>5, NothingMoves DEF TInv

LEMMA ImportCsvKeeps ==
  ASSUME TInv, NEW p \in Paths, NEW n \in FileNames, ImportCsv(p, n)
  PROVE  TInv'
<1> DEFINE d0 == [dir |-> p, place |-> "folder", name |-> n, id |-> items]
           gone == At(p, "folder", n)
<1>0. /\ task = Resting /\ task' = Resting /\ items < MaxItems /\ items' = items + 1
      /\ dirs' = WithParents(p) /\ docs' = (docs \ gone) \cup {d0} /\ manual' = manual
      /\ dropped' = dropped \cup {d.id : d \in gone}
  BY DEF ImportCsv, NewCommand, NewItem
<1>1. items \in Nat /\ MaxItems \in Nat
  BY SourceTreeAssumption DEF TInv, TypesOK
<1>2. dirs \subseteq dirs' /\ dirs' \subseteq Dirs /\ p \in dirs' /\ \A q \in dirs' : Ancestors(q) \subseteq dirs'
  BY <1>0, WithParentsTypes DEF TInv
<1>3. TypesOK'
  <2>1. docs' \subseteq [dir : dirs', place : {"folder", "imports"}, name : FileNames, id : Nat]
    BY <1>0, <1>1, <1>2 DEF TInv, TypesOK
  <2>2. items' \in 0 .. MaxItems
    BY <1>0, <1>1
  <2> QED BY <1>0, <1>2, <2>1, <2>2 DEF TInv, TypesOK
<1>4. TaskOK'
  BY <1>0 DEF TaskOK, Resting
<1>5. \A q \in Dirs : Kept(q)' = Kept(q)
  BY <1>0 DEF Kept, Entries
<1>6. gone \in SUBSET docs /\ d0.id = items
  BY DEF At
<1> HIDE DEF gone, d0
<1> QED BY <1>0, <1>3, <1>4, <1>5, <1>6, NewDoc DEF TInv

LEMMA DropFileKeeps ==
  ASSUME TInv, NEW p \in Paths, NEW n \in FileNames, DropFile(p, n)
  PROVE  TInv'
<1> DEFINE d0 == [dir |-> p, place |-> "imports", name |-> n, id |-> items]
<1>0. /\ items < MaxItems /\ items' = items + 1 /\ p \in dirs /\ docs' = docs \cup {d0}
      /\ UNCHANGED <<dirs, manual, task, dropped>>
  BY DEF DropFile, NewItem
<1>1. items \in Nat /\ MaxItems \in Nat
  BY SourceTreeAssumption DEF TInv, TypesOK
<1>2. TypesOK'
  <2>1. docs' \subseteq [dir : dirs', place : {"folder", "imports"}, name : FileNames, id : Nat]
    BY <1>0, <1>1 DEF TInv, TypesOK
  <2>2. items' \in 0 .. MaxItems
    BY <1>0, <1>1
  <2> QED BY <1>0, <2>1, <2>2 DEF TInv, TypesOK
<1>3. TaskOK'
  BY <1>0 DEF TInv, TaskOK
<1>4. \A q \in Dirs : Kept(q)' = Kept(q)
  BY <1>0 DEF Kept, Entries
<1>5. {} \in SUBSET docs /\ d0.id = items
  OBVIOUS
<1> HIDE DEF d0
<1>6. docs' = (docs \ {}) \cup {d0} /\ dropped' = dropped \cup {d.id : d \in {}}
  BY <1>0
<1> QED BY <1>0, <1>2, <1>3, <1>4, <1>5, <1>6, NewDoc DEF TInv

LEMMA MoveImportKeeps ==
  ASSUME TInv, MoveImport
  PROVE  TInv'
<1>0. task.at = "imports" /\ UNCHANGED <<dirs, manual, task, items>>
  BY DEF MoveImport
<1>1. PICK d \in docs :
        /\ d.place = "imports"
        /\ docs' = (docs \ ({d} \cup At(d.dir, "folder", d.name))) \cup {[d EXCEPT !.place = "folder"]}
        /\ dropped' = dropped \cup {x.id : x \in At(d.dir, "folder", d.name)}
  BY DEF MoveImport
<1> DEFINE gone == At(d.dir, "folder", d.name)
           d1 == [d EXCEPT !.place = "folder"]
<1>2. gone \in SUBSET docs /\ d \notin gone
  BY <1>1 DEF At
<1>3. d \in [dir : dirs, place : {"folder", "imports"}, name : FileNames, id : Nat]
  BY DEF TInv, TypesOK
<1>4. d1.id = d.id /\ d1 \in [dir : dirs, place : {"folder", "imports"}, name : FileNames, id : Nat]
  BY <1>3
<1>5. docs' = (docs \ ({d} \cup gone)) \cup {d1} /\ dropped' = dropped \cup {x.id : x \in gone}
  BY <1>1
<1> HIDE DEF gone, d1
<1>6. TypesOK' /\ TaskOK'
  <2>1. docs' \subseteq [dir : dirs', place : {"folder", "imports"}, name : FileNames, id : Nat]
    BY <1>0, <1>4, <1>5 DEF TInv, TypesOK
  <2> QED BY <1>0, <2>1 DEF TInv, TypesOK, TaskOK
<1>7. FilesOnce' /\ \A id : InFiles(id)' <=> InFiles(id)
  <2>1. (\A q \in Dirs : Kept(q)' = Kept(q)) /\ dropped \subseteq dropped'
    BY <1>0, <1>5 DEF Kept, Entries
  <2> QED BY <2>1, FilesStay DEF TInv, OnceOK
<1>8. BoundsOK'
  <2>1. \A q \in Dirs : Kept(q)' = Kept(q)
    BY <1>0 DEF Kept, Entries
  <2>2. \A e \in docs' : e.id < items'
    BY <1>0, <1>4, <1>5 DEF TInv, BoundsOK
  <2> QED BY <1>0, <2>1, <2>2 DEF TInv, BoundsOK
<1>9. DocsOnce'
  <2> SUFFICES ASSUME NEW a \in docs', NEW b \in docs', a.id = b.id, a.id \notin dropped' PROVE a = b
    BY DEF DocsOnce
  <2>1. \A x, y \in docs : x.id = y.id /\ x.id \notin dropped' => x = y
    BY <1>5 DEF TInv, OnceOK, DocsOnce
  <2>2. \A x \in docs' : x = d1 \/ (x \in docs /\ x # d)
    BY <1>5
  <2> QED BY <1>4, <2>1, <2>2
<1>10. ASSUME NEW id, id \notin dropped' PROVE InDocs(id)' <=> InDocs(id)
  <2>1. InDocs(id)' => InDocs(id)
    BY <1>4, <1>5 DEF InDocs
  <2>2. ASSUME NEW e \in docs, e.id = id PROVE \E x \in docs' : x.id = id
    BY <1>4, <1>5, <1>10, <2>2
  <2> QED BY <2>1, <2>2 DEF InDocs
<1>11. SomewhereOK'
  BY <1>0, <1>5, <1>7, <1>10 DEF TInv, OnceOK, SomewhereOK
<1> QED BY <1>6, <1>7, <1>8, <1>9, <1>11 DEF TInv, OnceOK

\* A folder that is not there has nothing under it.
LEMMA NothingUnder ==
  ASSUME TypesOK, NEW new \in Path, new \notin dirs
  PROVE  (\A p \in dirs : ~Under(p, new)) /\ new # <<>>
<1>1. dirs \subseteq Path /\ <<>> \in dirs /\ \A p \in dirs : Ancestors(p) \subseteq dirs
  BY FoldersArePaths DEF TypesOK
<1> QED BY <1>1, AncestorsAreAbove

LEMMA RenameFolderKeeps ==
  ASSUME TInv, NEW old \in Paths, NEW new \in Paths, RenameFolder(old, new)
  PROVE  TInv'
<1> DEFINE ds == dirs \cup Ancestors(Parent(new))
<1>0. /\ task = Resting /\ old \in dirs /\ old # <<>> /\ new \notin dirs /\ ~Under(new, old) /\ Fits(old, new)
      /\ MoveDir(ds, old, new) /\ task' = [at |-> "cleanup", dir |-> old] /\ UNCHANGED <<items, dropped>>
  BY DEF RenameFolder, NewCommand
<1>1. old \in Path /\ new \in Path /\ Dirs \subseteq Path /\ Paths \subseteq Dirs
  BY FoldersArePaths
<1>2. new # <<>> /\ \A p \in dirs : ~Under(p, new)
  BY <1>0, <1>1, NothingUnder DEF TInv
<1>3. Parent(new) \in Paths /\ Parent(new) \in Path
  BY <1>1, <1>2, FoldersArePaths
<1>4. dirs \subseteq ds /\ ds \subseteq Dirs /\ \A p \in ds : Ancestors(p) \subseteq ds
  BY <1>3, WithParentsTypes DEF TInv, WithParents
<1>5. \A p \in Ancestors(Parent(new)) : p \in Path /\ Under(new, p) /\ p # new
  BY <1>1, <1>2, <1>3, AncestorsAreAbove, ParentAbove
<1>6. \A p \in ds : ~Under(p, new)
  BY <1>1, <1>2, <1>5, UnderOrder
<1>7. \A p \in ds : Under(p, old) => Rebased(p, old, new) \in Dirs
  <2>1. \A p \in Ancestors(Parent(new)) : ~Under(p, old)
    BY <1>0, <1>1, <1>5, UnderOrder
  <2> QED BY <1>0, <1>1, <2>1 DEF Fits
<1>8. ~Under(old, new)
  BY <1>0, <1>2
<1>9. task.at # "rewrite" /\ task'.at # "rewrite" /\ Ancestors(Parent(new)) \subseteq ds
  BY <1>0 DEF Resting
<1> HIDE DEF ds
<1>10. TypesOK' /\ BoundsOK' /\ OnceOK'
  BY <1>0, <1>1, <1>2, <1>4, <1>6, <1>7, <1>8, <1>9, MoveKeeps DEF TInv
<1>11. TaskOK'
  BY <1>0 DEF TaskOK
<1> QED BY <1>10, <1>11 DEF TInv

\* By way of a third place is the same as directly.
LEMMA RebasedTwice ==
  ASSUME NEW p \in Path, NEW old \in Path, NEW mid \in Path, NEW new \in Path, Under(p, old)
  PROVE  Rebased(Rebased(p, old, mid), mid, new) = Rebased(p, old, new)
<1>1. PICK s \in Path : s = SubSeq(p, Len(old) + 1, Len(p)) /\ p = old \o s
  BY UnderGoesOn
<1>2. Rebased(p, old, mid) = mid \o s /\ Rebased(p, old, new) = new \o s
  BY <1>1 DEF Rebased
<1>3. Under(mid \o s, mid) /\ SubSeq(mid \o s, Len(mid) + 1, Len(mid \o s)) = s
  BY GoesOnUnder
<1> QED BY <1>2, <1>3 DEF Rebased

LEMMA RenameIntoKeeps ==
  ASSUME TInv, NEW old \in Paths, NEW new \in Paths, RenameInto(old, new)
  PROVE  TInv'
<1>0. /\ task = Resting /\ old \in dirs /\ old # <<>> /\ new \notin dirs /\ Under(new, old) /\ Fits(old, new)
      /\ (\A p \in dirs : ~Under(p, Temp)) /\ MoveDir(dirs, old, Temp)
      /\ task' = [at |-> "parents", old |-> old, new |-> new] /\ UNCHANGED <<items, dropped>>
  BY DEF RenameInto, NewCommand
<1>1. /\ old \in Path /\ new \in Path /\ Temp \in Path /\ Temp # <<>> /\ Dirs \subseteq Path
      /\ ~Under(old, Temp) /\ ~Under(Temp, old) /\ ~Under(new, Temp) /\ Ancestors(Parent(Temp)) = {<<>>}
  BY <1>0, FoldersArePaths
<1>2. new # <<>>
  BY <1>0 DEF TInv, TypesOK
<1>3. \A p \in dirs : Under(p, old) => p \in Paths
  <2> SUFFICES ASSUME NEW p \in dirs, Under(p, old) PROVE p \in Paths
    OBVIOUS
  <2>1. p \in Paths \/ \E x, y \in Paths : p = Rebased(x, y, Temp)
    BY DEF TInv, TypesOK, Dirs
  <2>2. ASSUME NEW x \in Paths, NEW y \in Paths, p = Rebased(x, y, Temp) PROVE p \in Paths
    <3>1. x \in Path /\ y \in Path
      BY FoldersArePaths
    <3>2. ~Under(p, Temp)
      BY <1>0
    <3> QED BY <1>1, <2>2, <3>1, <3>2, RebasedBack
  <2> QED BY <2>1, <2>2
<1>4. \A p \in dirs : Under(p, old) => Rebased(p, old, Temp) \in Dirs
  BY <1>3, FoldersArePaths
<1>5. dirs \subseteq Dirs /\ dirs \subseteq dirs /\ <<>> \in dirs /\ \A p \in dirs : Ancestors(p) \subseteq dirs
  BY DEF TInv, TypesOK
<1>6. task.at # "rewrite" /\ task'.at # "rewrite" /\ Ancestors(Parent(Temp)) \subseteq dirs
  BY <1>0, <1>1, <1>5 DEF Resting
<1>7. TypesOK' /\ BoundsOK' /\ OnceOK'
  BY <1>0, <1>1, <1>4, <1>5, <1>6, MoveKeeps DEF TInv
<1>8. dirs' = {Rebased(p, old, Temp) : p \in dirs}
  BY <1>0 DEF MoveDir
<1>9. new \notin dirs'
  <2> SUFFICES ASSUME NEW p \in dirs, new = Rebased(p, old, Temp) PROVE FALSE
    BY <1>8
  <2>1. p \in Path
    BY <1>1, <1>5
  <2> QED BY <1>0, <1>1, <2>1, RebasedBack
<1>10. ASSUME NEW q \in dirs', Under(q, Temp) PROVE Rebased(q, Temp, new) \in Paths
  <2>1. PICK p \in dirs : q = Rebased(p, old, Temp)
    BY <1>8
  <2>2. p \in Path
    BY <1>1, <1>5
  <2>3. Under(p, old)
    BY <1>0, <1>1, <1>10, <2>1, <2>2, RebasedBack
  <2>4. Rebased(q, Temp, new) = Rebased(p, old, new)
    BY <1>1, <2>1, <2>2, <2>3, RebasedTwice
  <2> QED BY <1>0, <2>3, <2>4 DEF Fits
<1>11. TaskOK'
  BY <1>0, <1>2, <1>9, <1>10 DEF TaskOK
<1> QED BY <1>7, <1>11 DEF TInv

LEMMA MakeParentsKeeps ==
  ASSUME TInv, MakeParents
  PROVE  TInv'
<1>0. /\ task.at = "parents" /\ dirs' = WithParents(Parent(task.new)) /\ task' = [task EXCEPT !.at = "place"]
      /\ UNCHANGED <<manual, docs, items, dropped>>
  BY DEF MakeParents
<1> DEFINE new == task.new
<1>1. /\ task \in [at : {"parents", "place"}, old : Paths \ {<<>>}, new : Paths \ {<<>>}] /\ new \in Paths /\ new # <<>>
      /\ new \notin dirs /\ \A p \in dirs : Under(p, Temp) => Rebased(p, Temp, new) \in Paths
  BY <1>0 DEF TInv, TaskOK
<1>2. /\ task' \in [at : {"parents", "place"}, old : Paths \ {<<>>}, new : Paths \ {<<>>}] /\ task'.new = new
      /\ task'.at = "place"
  BY <1>0, <1>1
<1>3. new \in Path /\ Parent(new) \in Paths /\ Parent(new) \in Path
  BY <1>1, FoldersArePaths
<1> HIDE DEF new
<1>4. dirs' = dirs \cup Ancestors(Parent(new))
  BY <1>0 DEF WithParents, new
<1>5. dirs \subseteq dirs' /\ dirs' \subseteq Dirs /\ \A q \in dirs' : Ancestors(q) \subseteq dirs'
  BY <1>3, <1>4, WithParentsTypes DEF WithParents, TInv
<1>6. TypesOK'
  BY <1>0, <1>5 DEF TInv, TypesOK
<1>7. new \notin dirs'
  BY <1>1, <1>3, <1>4, AncestorsAreAbove, ParentAbove
<1>8. \A p \in dirs' : Under(p, Temp) => Rebased(p, Temp, new) \in Paths
  <2>1. \A p \in Ancestors(Parent(new)) : ~Under(p, Temp)
    BY <1>3, FoldersArePaths
  <2> QED BY <1>1, <1>4, <2>1
<1>9. TaskOK'
  BY <1>2, <1>4, <1>7, <1>8 DEF TaskOK
<1>10. \A p \in Dirs : Kept(p)' = Kept(p)
  BY <1>0, <1>2 DEF Kept, Entries
<1> QED BY <1>0, <1>6, <1>9, <1>10, NothingMoves DEF TInv

LEMMA PlaceFolderKeeps ==
  ASSUME TInv, PlaceFolder
  PROVE  TInv'
<1> DEFINE new == task.new
<1>0. /\ task.at = "place" /\ MoveDir(dirs, Temp, new) /\ task' = [at |-> "cleanup", dir |-> task.old]
      /\ UNCHANGED <<items, dropped>>
  BY DEF PlaceFolder
<1>1. /\ task \in [at : {"parents", "place"}, old : Paths \ {<<>>}, new : Paths \ {<<>>}] /\ new \in Paths /\ new # <<>>
      /\ new \notin dirs /\ (\A p \in dirs : Under(p, Temp) => Rebased(p, Temp, new) \in Paths)
      /\ Ancestors(Parent(new)) \subseteq dirs
  BY <1>0 DEF TInv, TaskOK
<1> HIDE DEF new
<1>2. /\ new \in Path /\ Temp \in Path /\ Temp # <<>> /\ Paths \subseteq Dirs
      /\ ~Under(new, Temp) /\ ~Under(Temp, new)
  BY <1>1, FoldersArePaths
<1>3. \A p \in dirs : ~Under(p, new)
  BY <1>1, <1>2, NothingUnder DEF TInv
<1>4. dirs \subseteq Dirs /\ dirs \subseteq dirs /\ \A p \in dirs : Ancestors(p) \subseteq dirs
  BY DEF TInv, TypesOK
<1>5. \A p \in dirs : Under(p, Temp) => Rebased(p, Temp, new) \in Dirs
  BY <1>1, <1>2
<1>6. task.at # "rewrite" /\ task'.at # "rewrite" /\ task'.at = "cleanup" /\ task'.dir = task.old
  BY <1>0
<1>7. TypesOK' /\ BoundsOK' /\ OnceOK'
  BY <1>0, <1>1, <1>2, <1>3, <1>4, <1>5, <1>6, MoveKeeps DEF TInv
<1>8. task'.dir \in Paths \ {<<>>}
  BY <1>1, <1>6
<1>9. TaskOK'
  BY <1>6, <1>8 DEF TaskOK
<1> QED BY <1>7, <1>9 DEF TInv

LEMMA CleanupAfterKeeps ==
  ASSUME TInv, CleanupAfter
  PROVE  TInv'
<1> DEFINE p == Parent(task.dir)
           Empty(r) == /\ ~\E x \in dirs \ Ancestors(p) : Under(x, r)
                       /\ manual[r] = NoFile /\ ~\E d \in docs : d.dir = r
           chain == {q \in Ancestors(p) \ {<<>>} : \A r \in Ancestors(p) : Len(r) >= Len(q) => Empty(r)}
<1>0. /\ task.at = "cleanup" /\ dirs' = dirs \ chain /\ task' = Resting
      /\ UNCHANGED <<manual, docs, items, dropped>>
  BY DEF CleanupAfter, Cleanup, cleanup_empty_ancestors
<1>1. p \in Path /\ Ancestors(p) \subseteq Path /\ dirs \subseteq Dirs /\ Dirs \subseteq Path
  <2>1. task.dir \in Paths /\ task.dir # <<>>
    BY <1>0 DEF TInv, TaskOK
  <2>2. p \in Path
    BY <2>1, FoldersArePaths, ParentAbove
  <2> HIDE DEF p
  <2> QED BY <2>2, FoldersArePaths, AncestorsAreAbove DEF TInv, TypesOK
<1> HIDE DEF p
<1>2. \A q \in chain : q # <<>> /\ Empty(q)
  <2>1. \A q \in chain : Len(q) \in Nat
    BY <1>1, LenProperties DEF Path
  <2> QED BY <2>1
<1>3. ASSUME NEW x \in dirs, NEW a \in Ancestors(x), a \in chain PROVE x \in chain
  <2>1. x \in Path /\ a \in Path /\ Under(x, a) /\ a # <<>>
    BY <1>1, <1>3, AncestorsAreAbove
  <2>2. x \in Ancestors(p)
    BY <1>2, <1>3, <2>1
  <2>3. x # <<>>
    BY <2>1, UnderOrder
  <2>4. Len(x) \in Nat /\ Len(a) \in Nat /\ Len(a) <= Len(x)
    BY <2>1, UnderByNames, LenProperties DEF Path
  <2>5. \A r \in Ancestors(p) : Len(r) >= Len(x) => Len(r) >= Len(a)
    <3>1. \A r \in Ancestors(p) : Len(r) \in Nat
      BY <1>1, LenProperties DEF Path
    <3> QED BY <2>4, <3>1
  <2> HIDE DEF Empty
  <2> QED BY <1>3, <2>2, <2>3, <2>5
<1> HIDE DEF chain
<1>4. /\ dirs' \subseteq Dirs /\ <<>> \in dirs' /\ \A x \in dirs' : Ancestors(x) \subseteq dirs'
  BY <1>0, <1>2, <1>3 DEF TInv, TypesOK
<1>5. \A q \in Dirs : manual[q] # NoFile => q \in dirs'
  BY <1>0, <1>2 DEF TInv, TypesOK
<1>6. docs' \subseteq [dir : dirs', place : {"folder", "imports"}, name : FileNames, id : Nat]
  <2> SUFFICES ASSUME NEW d \in docs
               PROVE  d \in [dir : dirs', place : {"folder", "imports"}, name : FileNames, id : Nat]
    BY <1>0
  <2>1. d \in [dir : dirs, place : {"folder", "imports"}, name : FileNames, id : Nat]
    BY DEF TInv, TypesOK
  <2>2. d.dir \in dirs'
    BY <1>0, <1>2, <2>1
  <2> QED BY <2>1, <2>2
<1>7. TypesOK'
  BY <1>0, <1>4, <1>5, <1>6 DEF TInv, TypesOK
<1>8. TaskOK'
  BY <1>0 DEF TaskOK, Resting
<1>9. \A q \in Dirs : Kept(q)' = Kept(q)
  BY <1>0 DEF Kept, Entries, Resting
<1> QED BY <1>0, <1>7, <1>8, <1>9, NothingMoves DEF TInv

LEMMA DeleteFolderKeeps ==
  ASSUME TInv, NEW p \in Paths, DeleteFolder(p)
  PROVE  TInv'
<1>0. /\ task = Resting /\ p \in dirs /\ p # <<>>
      /\ dirs' = {q \in dirs : ~Under(q, p)} /\ docs' = {d \in docs : ~Under(d.dir, p)}
      /\ manual' = [q \in Dirs |-> IF Under(q, p) THEN NoFile ELSE manual[q]]
      /\ task' = [at |-> "cleanup", dir |-> p] /\ items' = items
  BY DEF DeleteFolder, NewCommand
<1>1. /\ dropped \subseteq dropped' /\ \A d \in docs : Under(d.dir, p) => d.id \in dropped'
      /\ \A q \in Dirs : Under(q, p) => \A i \in DOMAIN Entries(q) : Entries(q)[i].id \in dropped'
  BY DEF DeleteFolder
<1>2. p \in Path /\ Dirs \subseteq Path /\ <<>> \in Path
  BY FoldersArePaths
<1>3. TypesOK'
  <2>1. ~Under(<<>>, p)
    BY <1>0, <1>2, UnderOrder
  <2>2. dirs' \subseteq Dirs /\ <<>> \in dirs'
    BY <1>0, <2>1 DEF TInv, TypesOK
  <2>3. ASSUME NEW q \in dirs', NEW a \in Ancestors(q) PROVE a \in dirs'
    <3>1. q \in dirs /\ ~Under(q, p) /\ q \in Path
      BY <1>0, <1>2, <2>2
    <3>2. a \in dirs
      BY <3>1 DEF TInv, TypesOK
    <3>3. a \in Path /\ Under(q, a)
      BY <3>1, AncestorsAreAbove
    <3> QED BY <1>0, <1>2, <3>1, <3>2, <3>3, UnderOrder
  <2>4. manual' \in [Dirs -> Seq(Rec) \cup {NoFile}] /\ \A q \in Dirs : manual'[q] # NoFile => q \in dirs'
    BY <1>0 DEF TInv, TypesOK
  <2>5. docs' \subseteq [dir : dirs', place : {"folder", "imports"}, name : FileNames, id : Nat]
    <3> SUFFICES ASSUME NEW d \in docs, ~Under(d.dir, p)
                 PROVE  d \in [dir : dirs', place : {"folder", "imports"}, name : FileNames, id : Nat]
      BY <1>0
    <3>1. d \in [dir : dirs, place : {"folder", "imports"}, name : FileNames, id : Nat]
      BY DEF TInv, TypesOK
    <3>2. d.dir \in dirs'
      BY <1>0, <3>1
    <3> QED BY <3>1, <3>2
  <2> QED BY <1>0, <2>2, <2>3, <2>4, <2>5 DEF TInv, TypesOK
<1>4. TaskOK'
  BY <1>0 DEF TaskOK
<1>5. \A q \in Dirs : Kept(q) = Entries(q) /\ Kept(q)' = IF Under(q, p) THEN <<>> ELSE Entries(q)
  BY <1>0 DEF Kept, Entries, Resting
<1>6. DOMAIN <<>> = {} /\ Len(<<>>) = 0 /\ items \in Nat
  BY SourceTreeAssumption DEF TInv, TypesOK
<1>7. BoundsOK'
  BY <1>0, <1>5, <1>6 DEF TInv, BoundsOK
<1>8. DocsOnce' /\ FilesOnce'
  <2>1. DocsOnce'
    BY <1>0, <1>1 DEF TInv, OnceOK, DocsOnce
  <2>2. \A q \in Dirs : \A i \in DOMAIN Kept(q)' : i \in DOMAIN Kept(q) /\ Kept(q)'[i] = Kept(q)[i]
    BY <1>5, <1>6
  <2>3. FilesOnce'
    BY <1>1, <2>2 DEF TInv, OnceOK, FilesOnce
  <2> QED BY <2>1, <2>3
<1>9. ASSUME NEW id, id \notin dropped' PROVE (InDocs(id)' <=> InDocs(id)) /\ (InFiles(id)' <=> InFiles(id))
  <2>1. InDocs(id)' <=> InDocs(id)
    BY <1>0, <1>1, <1>9 DEF InDocs
  <2>2. InFiles(id)' => InFiles(id)
    BY <1>5, <1>6 DEF InFiles
  <2>3. InFiles(id) => InFiles(id)'
    BY <1>1, <1>5, <1>9 DEF InFiles
  <2> QED BY <2>1, <2>2, <2>3
<1>10. SomewhereOK'
  BY <1>0, <1>1, <1>9 DEF TInv, OnceOK, SomewhereOK
<1> QED BY <1>3, <1>4, <1>7, <1>8, <1>10 DEF TInv, OnceOK

LEMMA StopKeeps ==
  ASSUME TInv, Stop
  PROVE  TInv'
<1>0. task' = Resting /\ UNCHANGED <<dirs, docs, items>>
  BY DEF Stop
<1>1. TaskOK'
  BY <1>0 DEF TaskOK, Resting
<1>2. CASE task.at # "rewrite"
  <2>1. UNCHANGED <<manual, dropped>>
    BY <1>2 DEF Stop
  <2>2. \A q \in Dirs : Kept(q)' = Kept(q)
    BY <1>0, <1>2, <2>1 DEF Kept, Entries, Resting
  <2>3. TypesOK'
    BY <1>0, <2>1 DEF TInv, TypesOK
  <2> QED BY <1>0, <1>1, <2>1, <2>2, <2>3, NothingMoves DEF TInv
\* What was to be written is there up to some entry; the rest is lost.
<1>3. CASE task.at = "rewrite"
  <2> DEFINE f == task.dir
             t == task.text
  <2>1. f \in Dirs /\ f \in dirs /\ t \in Seq(Rec)
    BY <1>3 DEF TInv, TaskOK, TypesOK
  <2>2. PICK n \in 0 .. Len(t) : /\ manual' = [manual EXCEPT ![f] = SubSeq(t, 1, n)]
                               /\ dropped' = dropped \cup {t[i].id : i \in n + 1 .. Len(t)}
    BY <1>3 DEF Stop
  <2> DEFINE u == SubSeq(t, 1, n)
  <2>3. Len(t) \in Nat /\ n \in Nat /\ n <= Len(t) /\ DOMAIN t = 1 .. Len(t) /\ \A i \in 1 .. Len(t) : t[i] \in Rec
    BY <2>1, LenProperties, ElementOfSeq
  <2>4. u \in Seq(Rec) /\ Len(u) = n /\ DOMAIN u = 1 .. n /\ \A i \in 1 .. n : u[i] = t[i]
    <3>1. 1 \in Int /\ n \in Int /\ \A i \in 1 .. n : t[i] \in Rec
      BY <2>3
    <3>2. /\ u \in Seq(Rec) /\ Len(u) = (IF 1 <= n THEN n - 1 + 1 ELSE 0)
          /\ \A i \in 1 .. n - 1 + 1 : u[i] = t[1 + i - 1]
      BY <3>1, SubSeqProperties
    <3>3. (IF 1 <= n THEN n - 1 + 1 ELSE 0) = n /\ n - 1 + 1 = n /\ \A i \in 1 .. n : 1 + i - 1 = i
      BY <2>3
    <3> HIDE DEF u
    <3>4. DOMAIN u = 1 .. Len(u)
      BY <3>2, LenProperties
    <3> QED BY <3>2, <3>3, <3>4
  <2>5. dropped \subseteq dropped' /\ \A i \in DOMAIN t : i \in 1 .. n \/ t[i].id \in dropped'
    BY <2>2, <2>3
  <2>6. manual' = [manual EXCEPT ![f] = u]
    BY <2>2
  <2> HIDE DEF f, t, u
  <2>7. u # NoFile /\ manual \in [Dirs -> Seq(Rec) \cup {NoFile}]
    BY <2>4, EntriesTypes DEF TInv, TypesOK
  <2>8. \A q \in Dirs : /\ Kept(q) = IF q = f THEN t ELSE Entries(q)
                        /\ Kept(q)' = IF q = f THEN u ELSE Entries(q)
    <3>1. \A q \in Dirs : manual'[q] = IF q = f THEN u ELSE manual[q]
      BY <2>6, <2>7
    <3> QED BY <1>0, <1>3, <2>7, <3>1 DEF Kept, Entries, Resting, f, t
  <2>9. TypesOK'
    <3>1. manual' \in [Dirs -> Seq(Rec) \cup {NoFile}] /\ \A q \in Dirs : manual'[q] # NoFile => q \in dirs
      BY <2>1, <2>4, <2>6, <2>7 DEF TInv, TypesOK
    <3> QED BY <1>0, <3>1 DEF TInv, TypesOK
  <2>10. \A q \in Dirs : \A i \in DOMAIN Kept(q)' : i \in DOMAIN Kept(q) /\ Kept(q)'[i] = Kept(q)[i]
    BY <2>3, <2>4, <2>8
  <2>11. \A q \in Dirs : \A i \in DOMAIN Kept(q) : Kept(q)[i].id \in dropped' \/ (i \in DOMAIN Kept(q)' /\ Kept(q)'[i] = Kept(q)[i])
    BY <2>3, <2>4, <2>5, <2>8
  <2>12. BoundsOK'
    <3>1. \A q \in Dirs : Len(Kept(q)) \in Nat /\ Len(Kept(q)) <= items /\ items \in Nat
      BY KeptTypes, SourceTreeAssumption DEF TInv, TypesOK, BoundsOK
    <3>2. Len(t) <= items
      BY <2>1, <2>8, <3>1
    <3>3. \A q \in Dirs : Len(Kept(q)') <= items
      BY <2>1, <2>3, <2>4, <2>8, <3>1, <3>2
    <3>4. \A q \in Dirs : \A i \in DOMAIN Kept(q)' : Kept(q)'[i].id < items
      BY <2>10 DEF TInv, BoundsOK
    <3> QED BY <1>0, <3>3, <3>4 DEF TInv, BoundsOK
  <2>13. DocsOnce' /\ \A id : InDocs(id)' <=> InDocs(id)
    BY <1>0, <2>5, DocsStay DEF TInv, OnceOK
  <2>14. FilesOnce'
    BY <2>5, <2>10 DEF TInv, OnceOK, FilesOnce
  <2>15. ASSUME NEW id, id \notin dropped' PROVE InFiles(id)' <=> InFiles(id)
    BY <2>10, <2>11, <2>15 DEF InFiles
  <2>16. SomewhereOK'
    BY <1>0, <2>5, <2>13, <2>15 DEF TInv, OnceOK, SomewhereOK
  <2> QED BY <1>1, <2>9, <2>12, <2>13, <2>14, <2>16 DEF TInv, OnceOK
<1> QED BY <1>2, <1>3

LEMMA InitInv == SourceTreeInit => TInv
<1> SUFFICES ASSUME SourceTreeInit PROVE TInv
  OBVIOUS
<1>0. /\ dirs = {<<>>} /\ manual = [p \in Dirs |-> NoFile] /\ docs = {} /\ task = Resting /\ items = 0
  BY DEF SourceTreeInit
<1>1. <<>> \in Dirs /\ Ancestors(<<>>) = {<<>>}
  <2>1. \A q \in Path : Under(<<>>, q) => q = <<>>
    BY FoldersArePaths, UnderOrder
  <2> QED BY <2>1, FoldersArePaths, AncestorsAreAbove
<1>2. TypesOK
  <2>1. 0 \in 0 .. MaxItems
    BY SourceTreeAssumption
  <2> QED BY <1>0, <1>1, <2>1 DEF TypesOK
<1>3. TaskOK
  BY <1>0 DEF TaskOK, Resting
<1>4. \A p \in Dirs : Kept(p) = <<>>
  BY <1>0 DEF Kept, Entries, Resting
<1>5. DOMAIN <<>> = {} /\ Len(<<>>) = 0
  OBVIOUS
<1>6. BoundsOK /\ OnceOK
  <2>1. 0 .. items - 1 = {}
    BY <1>0
  <2> QED BY <1>0, <1>4, <1>5, <2>1 DEF BoundsOK, OnceOK, SomewhereOK, DocsOnce, FilesOnce
<1> QED BY <1>2, <1>3, <1>6 DEF TInv

LEMMA NextInv == TInv /\ [SourceTreeNext]_treeVars => TInv'
<1> SUFFICES ASSUME TInv, [SourceTreeNext]_treeVars PROVE TInv'
  OBVIOUS
<1>1. ASSUME NEW p \in Paths, NEW i, Hide(p, i) \/ ProcessImports(p) \/ ProcessAllImports \/ EndImports PROVE TInv'
  <2>1. /\ UNCHANGED <<dirs, manual, docs, items, dropped>> /\ task.at \in {"rest", "imports"}
        /\ task'.at \in {"rest", "imports"}
    BY <1>1 DEF Hide, ProcessImports, ProcessAllImports, EndImports, NewCommand, Resting
  <2> QED BY <2>1, QuietKeeps
<1>2. CASE UNCHANGED treeVars
  <2>1. UNCHANGED <<dirs, manual, docs, items, dropped, task>>
    BY <1>2 DEF treeVars
  <2>2. (\A p \in Dirs : Kept(p)' = Kept(p)) /\ TypesOK' /\ TaskOK'
    BY <2>1 DEF TInv, TypesOK, TaskOK, Kept, Entries
  <2> QED BY <2>1, <2>2, NothingMoves DEF TInv
<1>3. <<>> \in Paths
  BY FoldersArePaths
<1>4. CASE ProcessAllImports \/ EndImports
  BY <1>1, <1>3, <1>4
<1> QED BY <1>1, <1>2, <1>4, AppendManualKeeps, DeleteManualKeeps, RewriteManualKeeps, ImportCsvKeeps, DropFileKeeps,
           MoveImportKeeps, RenameFolderKeeps, RenameIntoKeeps, MakeParentsKeeps, PlaceFolderKeeps,
           CleanupAfterKeeps, DeleteFolderKeeps, StopKeeps DEF SourceTreeNext

LEMMA TreeInv == SourceTreeSpec => []TInv
BY InitInv, NextInv, PTL DEF SourceTreeSpec

-----------------------------------------------------------------------------
(* The theorems.                                                           *)

\* Folders have their parents, and whatever lies in a folder lies in one that exists:
\* through every rename, clean-up and interruption.
THEOREM SourceTreeTypeCorrect == SourceTreeSpec => []SourceTreeTypeOK
<1>1. TInv => SourceTreeTypeOK
  <2> SUFFICES ASSUME TInv PROVE SourceTreeTypeOK
    OBVIOUS
  <2>1. \A n \in Nat : n < items => n \in Ids
    BY SourceTreeAssumption DEF TInv, TypesOK, Ids
  <2>2. ASSUME NEW p \in Dirs, NEW i \in DOMAIN Entries(p) PROVE Entries(p)[i] \in [id : Ids, key : Keys]
    <3>1. Kept(p) = Entries(p)
      <4>1. CASE task.at = "rewrite" /\ p = task.dir
        <5>1. manual[p] \in Seq(Rec) /\ manual[p] = <<>>
          BY <4>1, EmptySeq DEF TInv, TaskOK
        <5>2. Entries(p) = <<>>
          BY <5>1, EntriesTypes DEF TInv
        <5> QED BY <2>2, <5>2
      <4>2. CASE ~(task.at = "rewrite" /\ p = task.dir)
        BY <4>2 DEF Kept
      <4> QED BY <4>1, <4>2
    <3>2. Entries(p)[i] \in Rec
      BY <2>2, <3>1, KeptTypes DEF TInv
    <3>3. Entries(p)[i].id < items
      BY <2>2, <3>1 DEF TInv, BoundsOK
    <3> QED BY <2>1, <3>2, <3>3 DEF Rec
  <2>3. docs \subseteq [dir : dirs, place : {"folder", "imports"}, name : FileNames, id : Ids]
    BY <2>1 DEF TInv, TypesOK, BoundsOK
  <2> QED BY <2>2, <2>3 DEF SourceTreeTypeOK, TInv, TypesOK
<1> QED BY <1>1, TreeInv, PTL

\* Every entry and file that was brought in and not deleted or replaced is in the tree,
\* once, but for entries of the manual file that is being rewritten: for any folders and
\* any number of commands, files left in imports/ while they run, and interruptions.
THEOREM NothingLostSafe == SourceTreeSpec => []NothingLost
<1>1. TInv => NothingLost
  <2> SUFFICES ASSUME TInv, NEW id \in (0 .. items - 1) \ dropped, id \notin InRewrite PROVE Copies(id) = 1
    BY DEF NothingLost
  <2> DEFINE D == {d \in docs : d.id = id}
             F == {x \in Dirs \X (1 .. MaxItems) :
                     x[2] \in DOMAIN Entries(x[1]) /\ Entries(x[1])[x[2]].id = id}
  <2>1. Copies(id) = Cardinality(D) + Cardinality(F)
    BY DEF Copies
\* A file being rewritten is empty, and the entries to be written are not this one.
  <2>a. ASSUME task.at = "rewrite"
        PROVE  Entries(task.dir) = <<>> /\ \A i \in DOMAIN task.text : task.text[i].id # id
    <3>1. task.dir \in Dirs /\ manual[task.dir] = <<>> /\ task.text \in Seq(Rec) /\ manual[task.dir] # NoFile
      BY <2>a, EmptySeq, EntriesTypes DEF TInv, TaskOK, TypesOK
    <3>2. ToSet(task.text) = {task.text[i] : i \in DOMAIN task.text}
      BY DEF ToSet
    <3> QED BY <2>a, <3>1, <3>2 DEF Entries, InRewrite
  <2>b. DOMAIN <<>> = {}
    OBVIOUS
  <2>2. \A p \in Dirs : /\ DOMAIN Entries(p) \subseteq 1 .. MaxItems
                        /\ \A i \in DOMAIN Entries(p) : i \in DOMAIN Kept(p) /\ Kept(p)[i] = Entries(p)[i]
                        /\ \A i \in DOMAIN Kept(p) : Kept(p)[i].id = id => i \in DOMAIN Entries(p) /\ Entries(p)[i] = Kept(p)[i]
    <3>1. \A p \in Dirs : /\ \A i \in DOMAIN Entries(p) : i \in DOMAIN Kept(p) /\ Kept(p)[i] = Entries(p)[i]
                          /\ \A i \in DOMAIN Kept(p) : Kept(p)[i].id = id => i \in DOMAIN Entries(p) /\ Entries(p)[i] = Kept(p)[i]
      BY <2>a, <2>b DEF Kept
    <3>2. \A p \in Dirs : Len(Kept(p)) \in Nat /\ DOMAIN Kept(p) = 1 .. Len(Kept(p)) /\ Len(Kept(p)) <= items
      BY KeptTypes DEF TInv, BoundsOK
    <3>3. items \in 0 .. MaxItems /\ MaxItems \in Nat
      BY SourceTreeAssumption DEF TInv, TypesOK
    <3>4. \A p \in Dirs : 1 .. Len(Kept(p)) \subseteq 1 .. MaxItems
      BY <3>2, <3>3
    <3> QED BY <3>1, <3>2, <3>4
  <2>3. CASE InDocs(id)
    <3>1. PICK d \in docs : d.id = id
      BY <2>3 DEF InDocs
    <3>2. D = {d}
      BY <3>1 DEF TInv, OnceOK, DocsOnce
    <3>3. ~InFiles(id)
      BY <2>3 DEF TInv, OnceOK, SomewhereOK
    <3>4. F = {}
      BY <2>2, <3>3 DEF InFiles
    <3> HIDE DEF D, F
    <3>5. Cardinality(D) = 1 /\ Cardinality(F) = 0
      BY <3>2, <3>4, FS_Singleton, FS_EmptySet
    <3>6. 1 + 0 = 1
      OBVIOUS
    <3> QED BY <2>1, <3>5, <3>6
  <2>4. CASE ~InDocs(id)
    <3>1. D = {}
      BY <2>4 DEF InDocs
    <3>2. InFiles(id)
      BY <2>4 DEF TInv, OnceOK, SomewhereOK
    <3>a. PICK p \in Dirs : \E i \in DOMAIN Kept(p) : Kept(p)[i].id = id
      BY <3>2 DEF InFiles
    <3>3. PICK i \in DOMAIN Kept(p) : Kept(p)[i].id = id
      BY <3>a
    <3>4. <<p, i>> \in F
      BY <2>2, <3>3
    <3>5. ASSUME NEW x \in F PROVE x = <<p, i>>
      <4>1. PICK q \in Dirs, j \in 1 .. MaxItems : x = <<q, j>>
        OBVIOUS
      <4>2. j \in DOMAIN Kept(q) /\ Kept(q)[j].id = id
        BY <2>2, <3>5, <4>1
      <4>3. q = p /\ j = i
        BY <3>3, <4>2 DEF TInv, OnceOK, FilesOnce
      <4> QED BY <4>1, <4>3
    <3> HIDE DEF D, F
    <3>6. F = {<<p, i>>}
      BY <3>4, <3>5
    <3>7. Cardinality(D) = 0 /\ Cardinality(F) = 1
      BY <3>1, <3>6, FS_Singleton, FS_EmptySet
    <3>8. 0 + 1 = 1
      OBVIOUS
    <3> QED BY <2>1, <3>7, <3>8
  <2> QED BY <2>3, <2>4
<1> QED BY <1>1, TreeInv, PTL

-----------------------------------------------------------------------------
(* Dedupe: who keeps a record.                                             *)

Exported == [Exports -> Seq(Rows) \cup {Gone}]

\* The span of a file is a number, also without a stated one.
LEMMA SpanIsInt ==
  ASSUME NEW f \in Exports, NEW rows \in Seq(Rows)
  PROVE  Span(f, rows) \in Int
<1>1. CASE StatedSpan[f] # NoSpan
  BY <1>1, DedupeAssumption DEF Span
<1>2. CASE StatedSpan[f] = NoSpan /\ rows = <<>>
  BY <1>2 DEF Span
<1>3. CASE StatedSpan[f] = NoSpan /\ rows # <<>>
  <2>1. DOMAIN rows = 1 .. Len(rows) /\ Len(rows) \in Nat /\ Len(rows) # 0
    BY <1>3, LenProperties, EmptySeq
  <2>2. \A i \in DOMAIN rows : rows[i].day \in Nat
    <3>1. \A i \in DOMAIN rows : rows[i] \in Rows
      BY <2>1, ElementOfSeq
    <3> QED BY <3>1 DEF Rows
  <2>3. PICK D : D = Days(rows)
    OBVIOUS
  <2>4. D \in SUBSET Nat /\ D # {}
    <3>1. rows[1].day \in D
      BY <2>1, <2>3 DEF Days
    <3> QED BY <2>2, <2>3, <3>1 DEF Days
  <2>5. IsFiniteSet(D)
    <3>1. IsFiniteSet(1 .. Len(rows))
      BY <2>1, FS_Interval
    <3>2. [i \in 1 .. Len(rows) |-> rows[i].day] \in Surjection(1 .. Len(rows), D)
      BY <2>1, <2>3 DEF Days, Surjection
    <3> QED BY <3>1, <3>2, FS_Surjection
  <2>6. Min(D) \in Nat
    BY <2>4, LeastPlace DEF Min
  <2>7. Max(D) \in Nat
    <3>0. PICK R : R = {p \in D \X D : p[1] > p[2]}
      OBVIOUS
    <3>1. Orders(R, D)
      BY <2>4, <3>0 DEF Orders
    <3>2. PICK x \in D : \A y \in D \ {x} : <<x, y>> \in R
      <4>1. D # {}
        BY <2>4
      <4> QED BY <2>5, <3>1, <4>1, FirstInOrder
    <3>4. x \in Nat /\ \A y \in D \ {x} : x > y
      BY <2>4, <3>0, <3>2
    <3>3. \E z \in D : \A y \in D : z >= y
      BY <2>4, <3>4
    <3> QED BY <2>4, <3>3 DEF Max
  <2> QED BY <1>3, <2>3, <2>6, <2>7 DEF Span
<1> QED BY <1>1, <1>2, <1>3

\* The winner of a record is one of the files that have it.
LEMMA WinnerHasIt ==
  ASSUME NEW c \in Exported, NEW g \in SUBSET Exports, NEW k, With(c, g, k) # {}
  PROVE  Winner(c, g, k) \in With(c, g, k)
<1>1. PICK W : W = With(c, g, k)
  OBVIOUS
<1> DEFINE R == {p \in W \X W : Beats(c, p[1], p[2])}
           span(f) == Span(f, c[f])
           len(f) == Len(c[f])
<1>2. W \in SUBSET Exports /\ IsFiniteSet(W) /\ W # {} /\ \A f \in W : c[f] \in Seq(Rows) /\ f \in Nat
  <2>1. W \in SUBSET g /\ \A f \in W : c[f] # Gone
    BY <1>1 DEF With
  <2> QED BY <1>1, <2>1, DedupeAssumption, FS_Subset DEF Exported
<1>3. \A f \in W : span(f) \in Int /\ len(f) \in Nat /\ f \in Nat
  BY <1>2, SpanIsInt, LenProperties
<1>4. Orders(R, W)
  <2>1. \A f, h : Beats(c, f, h) <=> \/ span(f) > span(h)
                                     \/ span(f) = span(h) /\ len(f) > len(h)
                                     \/ span(f) = span(h) /\ len(f) = len(h) /\ f < h
    BY DEF Beats
  <2> HIDE DEF span, len
  <2>2. \A x \in W : ~Beats(c, x, x)
    BY <1>3, <2>1
  <2>3. \A x, y, z \in W : Beats(c, x, y) /\ Beats(c, y, z) => Beats(c, x, z)
    BY <1>3, <2>1
  <2>4. \A x, y \in W : x = y \/ Beats(c, x, y) \/ Beats(c, y, x)
    BY <1>3, <2>1
  <2> QED BY <2>2, <2>3, <2>4 DEF Orders
<1>5. PICK x \in W : \A y \in W \ {x} : <<x, y>> \in R
  <2> HIDE DEF R
  <2> QED BY <1>2, <1>4, FirstInOrder
<1>6. \A y \in W \ {x} : Beats(c, x, y)
  BY <1>5
<1> QED BY <1>1, <1>6 DEF Winner

\* What the plan for group g, of what c holds, leaves of file f.
Final(c, g, f) ==
  IF f \in Archives(c, g) THEN Gone
  ELSE IF f \in HasStrips(c, g) THEN WithoutRows(c[f], Strip(c, g, f)) ELSE c[f]

\* A file keeps the records it is the winner of, and no others.
LEMMA WhatIsLeft ==
  ASSUME NEW c \in Exported, NEW g \in SUBSET Exports, NEW f \in g, c[f] # Gone
  PROVE  /\ Final(c, g, f) # Gone =>
              /\ Final(c, g, f) \in Seq(Rows) /\ KeysOf(Final(c, g, f)) \subseteq KeysOf(c[f])
              /\ \A k \in KeysOf(Final(c, g, f)) : Winner(c, g, k) = f
         /\ \A k \in KeysOf(c[f]) : Winner(c, g, k) = f => Final(c, g, f) # Gone /\ k \in KeysOf(Final(c, g, f))
<1>1. PICK rows, at : rows = c[f] /\ at = Strip(c, g, f)
  OBVIOUS
<1>2. rows \in Seq(Rows) /\ rows # Gone
  BY <1>1 DEF Exported
<1>3. /\ at \in SUBSET Filled(rows) /\ Filled(rows) \in SUBSET DOMAIN rows
      /\ \A i \in Filled(rows) \ at : Winner(c, g, rows[i].key) = f
      /\ \A i \in at : Winner(c, g, rows[i].key) # f
  BY <1>1 DEF Strip, Filled
<1>4. \A i \in DOMAIN rows : rows[i].key # BlankRow => i \in Filled(rows)
  BY DEF Filled
<1>5. \A s, k : k \in KeysOf(s) <=> k # BlankRow /\ \E i \in DOMAIN s : k = s[i].key
  BY DEF KeysOf
<1>6. CASE f \notin HasStrips(c, g)
  <2>1. at = {} /\ Final(c, g, f) = rows
    BY <1>1, <1>6 DEF HasStrips, Final, Archives
  <2> QED BY <1>1, <1>2, <1>3, <1>4, <1>5, <2>1
<1>7. CASE f \in HasStrips(c, g)
  <2>1. f \in Archives(c, g) <=> at = Filled(rows)
    <3>1. IsFiniteSet(Filled(rows))
      BY <1>2, <1>3, PlacesFinite
    <3>2. f \in Archives(c, g) <=> Cardinality(at) = Cardinality(Filled(rows))
      BY <1>1, <1>7 DEF Archives
    <3> QED BY <1>3, <3>1, <3>2, FS_Subset
  <2>2. Final(c, g, f) = IF at = Filled(rows) THEN Gone ELSE WithoutRows(rows, at)
    BY <1>1, <1>7, <2>1 DEF Final
  <2>3. PICK t, I : t = WithoutRows(rows, at) /\ I = DOMAIN rows \ at
    OBVIOUS
  <2>4. /\ t \in Seq(Rows)
        /\ \A n \in DOMAIN t : \E i \in I : t[n] = rows[i]
        /\ \A i \in I : \E n \in DOMAIN t : t[n] = rows[i]
    <3>1. I \in SUBSET DOMAIN rows /\ t = Only(rows, I)
      BY <2>3 DEF WithoutRows
    <3> QED BY <1>2, <3>1, OnlyElements
  <2>5. t # Gone
    BY <2>4, RowsAssumption
  <2>6. ASSUME NEW k \in KeysOf(t) PROVE k \in KeysOf(rows) /\ Winner(c, g, k) = f
    <3>1. PICK i \in I : k = rows[i].key /\ k # BlankRow
      BY <1>5, <2>4, <2>6
    <3>2. i \in Filled(rows) \ at
      BY <1>4, <2>3, <3>1
    <3> QED BY <1>3, <1>5, <3>1, <3>2
  <2>7. ASSUME NEW k \in KeysOf(rows), Winner(c, g, k) = f PROVE at # Filled(rows) /\ k \in KeysOf(t)
    <3>1. PICK i \in DOMAIN rows : k = rows[i].key /\ k # BlankRow
      BY <1>5
    <3>2. i \in Filled(rows) /\ i \notin at
      BY <1>3, <1>4, <2>7, <3>1
    <3>3. \E n \in DOMAIN t : t[n] = rows[i]
      BY <2>3, <2>4, <3>1, <3>2
    <3> QED BY <1>5, <3>1, <3>2, <3>3
  <2> QED BY <1>1, <2>2, <2>3, <2>4, <2>5, <2>6, <2>7
<1> QED BY <1>6, <1>7

-----------------------------------------------------------------------------
(* Dedupe: the run.                                                        *)

\* How far a run has come: c is what it has made of s, where it began, when the groups
\* below n are done but for the files left of the last of these.
Progress(s, c, n, left) ==
  /\ \A f \in left : c[f] = s[f]
  /\ \A m \in 1 .. n - 1 : \A f \in FileGroups[m] \ left : c[f] = Final(s, FileGroups[m], f)
  /\ \A f \in Exports : (\A m \in 1 .. n - 1 : f \notin FileGroups[m]) => c[f] = s[f]

\* A run is where its plan, of the files as they were read, says it is.
RunOK ==
  run # NoRun =>
    /\ run = [scanned |-> run.scanned, next |-> run.next, plan |-> run.plan, left |-> run.left]
    /\ run.scanned \in Exported /\ run.next \in 1 .. Len(FileGroups) + 1
    /\ run.left \subseteq DOMAIN run.plan.strips /\ DOMAIN run.plan.strips \subseteq Exports
    /\ run.left # {} => run.next > 1 /\ run.plan = plan_folder(run.scanned, FileGroups[run.next - 1])
    /\ ~completed /\ cutShort = {}
    /\ \A f, g \in DOMAIN writing : f = g
    /\ \A f \in DOMAIN writing : f \in Exports /\ writing[f] \in Seq(Rows)
    /\ ~meddled => had = KeysIn(run.scanned) /\ Progress(run.scanned, Intended, run.next, run.left)

DedupeInv ==
  /\ content \in Exported /\ had \subseteq RecordKeys
  /\ RunOK
  /\ RecordsSurvive

LEMMA GroupsAreExports ==
  /\ Len(FileGroups) \in Nat /\ DOMAIN FileGroups = 1 .. Len(FileGroups)
  /\ \A n \in 1 .. Len(FileGroups) : FileGroups[n] \in SUBSET Exports
BY DedupeAssumption, LenProperties, ElementOfSeq

\* Between two files the sources are what they are to be.
LEMMA NothingWritten ==
  ASSUME content \in Exported, writing = << >>
  PROVE  Intended = content
<1>1. DOMAIN writing = {}
  OBVIOUS
<1>2. content = [f \in Exports |-> content[f]]
  BY DEF Exported
<1> QED BY <1>1, <1>2 DEF Intended

LEMMA KeysOfRows ==
  ASSUME NEW rows \in Seq(Rows)
  PROVE  KeysOf(rows) \subseteq RecordKeys
<1>1. \A i \in DOMAIN rows : rows[i] \in Rows
  BY LenProperties, ElementOfSeq
<1>2. \A i \in DOMAIN rows : rows[i].key \in RecordKeys \cup {BlankRow}
  BY <1>1 DEF Rows
<1> QED BY <1>2 DEF KeysOf

\* Records of some file, kept by their winner, are all there at any point of a run.
LEMMA KeysAreKept ==
  ASSUME NEW s \in Exported, NEW c \in Exported, NEW n \in 1 .. Len(FileGroups) + 1, NEW left,
         Progress(s, c, n, left)
  PROVE  KeysIn(c) = KeysIn(s)
<1>1. \A e, k : k \in KeysIn(e) <=> \E f \in Exports : e[f] # Gone /\ k \in KeysOf(e[f])
  BY DEF KeysIn
<1>2. \A m \in 1 .. n - 1 : FileGroups[m] \in SUBSET Exports
  BY GroupsAreExports
<1>3. ASSUME NEW k \in KeysIn(c) PROVE k \in KeysIn(s)
  <2>1. PICK f \in Exports : c[f] # Gone /\ k \in KeysOf(c[f])
    BY <1>1, <1>3
  <2>2. CASE c[f] = s[f]
    BY <1>1, <2>1, <2>2
  <2>3. CASE c[f] # s[f]
    <3>1. PICK m \in 1 .. n - 1 : f \in FileGroups[m] \ left
      BY <2>3 DEF Progress
    <3>2. c[f] = Final(s, FileGroups[m], f)
      BY <3>1 DEF Progress
    <3>3. s[f] # Gone
      BY <2>1, <2>3, <3>2 DEF Final, HasStrips, Archives
    <3>4. k \in KeysOf(s[f])
      BY <1>2, <2>1, <3>1, <3>2, <3>3, WhatIsLeft
    <3> QED BY <1>1, <3>3, <3>4
  <2> QED BY <2>2, <2>3
<1>4. ASSUME NEW k \in KeysIn(s) PROVE k \in KeysIn(c)
  <2>1. PICK f \in Exports : s[f] # Gone /\ k \in KeysOf(s[f])
    BY <1>1, <1>4
  <2>2. CASE c[f] = s[f]
    BY <1>1, <2>1, <2>2
  <2>3. CASE c[f] # s[f]
    <3>1. PICK m \in 1 .. n - 1 : f \in FileGroups[m] \ left
      BY <2>3 DEF Progress
    <3>2. PICK g \in SUBSET Exports : g = FileGroups[m]
      BY <1>2
    <3>3. f \in With(s, g, k)
      BY <2>1, <3>1, <3>2 DEF With, KeysOf
    <3>4. PICK w : w = Winner(s, g, k)
      OBVIOUS
    <3>5. w \in With(s, g, k)
      BY <3>3, <3>4, WinnerHasIt
    <3>6. w \in g /\ w \in Exports /\ s[w] # Gone /\ k \in KeysOf(s[w])
      BY <2>1, <3>5 DEF With, KeysOf
    <3>7. CASE w \in left
      <4>1. c[w] = s[w]
        BY <3>7 DEF Progress
      <4> QED BY <1>1, <3>6, <4>1
    <3>8. CASE w \notin left
      <4>1. c[w] = Final(s, g, w)
        BY <3>2, <3>6, <3>8 DEF Progress
      <4>2. Final(s, g, w) # Gone /\ k \in KeysOf(Final(s, g, w))
        BY <3>4, <3>6, WhatIsLeft
      <4> QED BY <1>1, <3>6, <4>1, <4>2
    <3> QED BY <3>7, <3>8
  <2> QED BY <2>2, <2>3
<1> QED BY <1>3, <1>4

\* When all groups are done, nobody but the winner has a record.
LEMMA OneFileEach ==
  ASSUME NEW s \in Exported, NEW c \in Exported, Progress(s, c, Len(FileGroups) + 1, {}),
         NEW n \in DOMAIN FileGroups, NEW k \in RecordKeys
  PROVE  Cardinality(With(c, FileGroups[n], k)) <= 1
<1>1. PICK g \in SUBSET Exports : g = FileGroups[n]
  BY GroupsAreExports
<1>2. n \in 1 .. (Len(FileGroups) + 1) - 1
  BY GroupsAreExports
<1>3. ASSUME NEW f \in With(c, g, k) PROVE f = Winner(s, g, k)
  <2>1. f \in g /\ c[f] # Gone /\ k \in KeysOf(c[f])
    BY RowsAssumption DEF With, KeysOf
  <2>2. c[f] = Final(s, g, f)
    BY <1>1, <1>2, <2>1 DEF Progress
  <2>3. s[f] # Gone
    BY <2>1, <2>2 DEF Final, HasStrips, Archives
  <2> QED BY <2>1, <2>2, <2>3, WhatIsLeft
<1>4. CASE With(c, g, k) = {}
  BY <1>1, <1>4, FS_EmptySet
<1>5. CASE With(c, g, k) # {}
  <2>1. With(c, g, k) = {Winner(s, g, k)}
    BY <1>3, <1>5
  <2>2. Cardinality({Winner(s, g, k)}) = 1
    BY FS_Singleton
  <2> QED BY <1>1, <2>1, <2>2
<1> QED BY <1>4, <1>5

\* Rows cut in two have the keys of all of them.
LEMMA CutInTwo ==
  ASSUME NEW t \in Seq(Rows), NEW a, NEW b,
         \E n \in 0 .. Len(t) : a = SubSeq(t, 1, n) /\ b = SubSeq(t, n + 1, Len(t))
  PROVE  a \in Seq(Rows) /\ KeysOf(a) \cup KeysOf(b) = KeysOf(t)
<1>1. PICK n \in 0 .. Len(t) : a = SubSeq(t, 1, n) /\ b = SubSeq(t, n + 1, Len(t))
  OBVIOUS
<1>2. Len(t) \in Nat /\ n \in Nat /\ n <= Len(t) /\ DOMAIN t = 1 .. Len(t) /\ \A i \in 1 .. Len(t) : t[i] \in Rows
  BY LenProperties, ElementOfSeq
<1>3. a \in Seq(Rows) /\ DOMAIN a = 1 .. n /\ \A i \in 1 .. n : a[i] = t[i]
  <2>1. 1 \in Int /\ n \in Int /\ \A i \in 1 .. n : t[i] \in Rows
    BY <1>2
  <2>2. /\ a \in Seq(Rows) /\ Len(a) = (IF 1 <= n THEN n - 1 + 1 ELSE 0)
        /\ \A i \in 1 .. n - 1 + 1 : a[i] = t[1 + i - 1]
    BY <1>1, <2>1, SubSeqProperties
  <2>3. (IF 1 <= n THEN n - 1 + 1 ELSE 0) = n /\ n - 1 + 1 = n /\ \A i \in 1 .. n : 1 + i - 1 = i
    BY <1>2
  <2>4. DOMAIN a = 1 .. Len(a)
    BY <2>2, LenProperties
  <2> QED BY <2>2, <2>3, <2>4
<1>4. DOMAIN b = 1 .. Len(t) - n /\ \A i \in 1 .. Len(t) - n : b[i] = t[n + i]
  <2>1. n + 1 \in Int /\ Len(t) \in Int /\ \A i \in n + 1 .. Len(t) : t[i] \in Rows
    BY <1>2
  <2>2. /\ b \in Seq(Rows) /\ Len(b) = (IF n + 1 <= Len(t) THEN Len(t) - (n + 1) + 1 ELSE 0)
        /\ \A i \in 1 .. Len(t) - (n + 1) + 1 : b[i] = t[(n + 1) + i - 1]
    BY <1>1, <2>1, SubSeqProperties
  <2>3. (IF n + 1 <= Len(t) THEN Len(t) - (n + 1) + 1 ELSE 0) = Len(t) - n /\ Len(t) - (n + 1) + 1 = Len(t) - n
        /\ \A i \in 1 .. Len(t) - n : (n + 1) + i - 1 = n + i
    <3> SUFFICES ASSUME NEW l \in Nat, n <= l
                 PROVE  /\ (IF n + 1 <= l THEN l - (n + 1) + 1 ELSE 0) = l - n /\ l - (n + 1) + 1 = l - n
                        /\ \A i \in 1 .. l - n : (n + 1) + i - 1 = n + i
      BY <1>2
    <3> QED BY <1>2
  <2>4. DOMAIN b = 1 .. Len(b)
    BY <2>2, LenProperties
  <2> QED BY <2>2, <2>3, <2>4
<1>5. \A s, k : k \in KeysOf(s) <=> k # BlankRow /\ \E i \in DOMAIN s : k = s[i].key
  BY DEF KeysOf
<1>6. ASSUME NEW k \in KeysOf(t) PROVE k \in KeysOf(a) \cup KeysOf(b)
  <2>1. PICK i \in 1 .. Len(t) : k # BlankRow /\ k = t[i].key
    BY <1>2, <1>5
  <2>2. CASE i <= n
    <3>1. i \in DOMAIN a /\ a[i] = t[i]
      BY <1>2, <1>3, <2>2
    <3> QED BY <1>5, <2>1, <3>1
  <2>3. CASE ~(i <= n)
    <3>1. i - n \in 1 .. Len(t) - n /\ n + (i - n) = i
      BY <1>2, <2>3
    <3>2. i - n \in DOMAIN b /\ b[i - n] = t[i]
      BY <1>4, <3>1
    <3> QED BY <1>5, <2>1, <3>2
  <2> QED BY <2>2, <2>3
<1>7. ASSUME NEW k \in KeysOf(a) \cup KeysOf(b) PROVE k \in KeysOf(t)
  <2>1. CASE k \in KeysOf(a)
    <3>1. PICK i \in 1 .. n : k # BlankRow /\ k = t[i].key
      <4>1. k \in {a[i].key : i \in DOMAIN a} \ {BlankRow}
        BY <2>1 DEF KeysOf
      <4>2. PICK i \in DOMAIN a : k # BlankRow /\ k = a[i].key
        BY <4>1
      <4> QED BY <1>3, <4>2
    <3>2. i \in DOMAIN t
      BY <1>2
    <3> QED BY <1>5, <3>1, <3>2
  <2>2. CASE k \in KeysOf(b)
    <3>1. PICK i \in 1 .. Len(t) - n : k # BlankRow /\ k = t[n + i].key
      <4>1. k \in {b[i].key : i \in DOMAIN b} \ {BlankRow}
        BY <2>2 DEF KeysOf
      <4>2. PICK i \in DOMAIN b : k # BlankRow /\ k = b[i].key
        BY <4>1
      <4> QED BY <1>4, <4>2
    <3>2. n + i \in DOMAIN t
      BY <1>2
    <3> QED BY <1>5, <3>1, <3>2
  <2> QED BY <1>7, <2>1, <2>2
<1> QED BY <1>3, <1>6, <1>7

LEMMA DedupeInitInv == DedupeInit => DedupeInv
<1> SUFFICES ASSUME DedupeInit PROVE DedupeInv
  OBVIOUS
<1>1. content \in Exported
  BY RowsAssumption DEF DedupeInit, Exported
<1> QED BY <1>1 DEF DedupeInit, DedupeInv, RunOK, RecordsSurvive

LEMMA ScanKeeps ==
  ASSUME DedupeInv, Scan
  PROVE  DedupeInv'
<1>1. content \in Exported /\ content' = content /\ ~completed /\ completed' = completed /\ ~meddled'
      /\ had' = KeysIn(content) /\ cutShort' = {} /\ writing = << >> /\ writing' = << >>
  BY DEF DedupeInv, Scan
<1>2. PICK r : r = [scanned |-> content, next |-> 1,
                    plan |-> [strips |-> << >>, archives |-> {}], left |-> {}]
  OBVIOUS
<1>3. run' = r
  BY <1>2 DEF Scan
<1>4. KeysIn(content) \subseteq RecordKeys
  BY <1>1, KeysOfRows DEF KeysIn, Exported
<1>5. Progress(content, content, 1, {}) /\ Intended' = content /\ DOMAIN writing' = {}
  <2>1. Intended = content
    BY <1>1, NothingWritten
  <2>2. Intended' = Intended
    BY <1>1 DEF Intended
  <2> QED BY <1>1, <2>1, <2>2 DEF Progress
<1>6. RunOK'
  <2>1. DOMAIN r.plan.strips = {} /\ r.scanned = content /\ r.next = 1 /\ r.left = {}
    BY <1>2
  <2>2. 1 \in 1 .. Len(FileGroups) + 1
    BY GroupsAreExports
  <2>3. r = [scanned |-> r.scanned, next |-> r.next, plan |-> r.plan, left |-> r.left]
    BY <1>2
  <2> QED BY <1>1, <1>3, <1>5, <2>1, <2>2, <2>3 DEF RunOK
<1>7. RecordsSurvive'
  <2>1. KeysIn(Intended)' = KeysIn(Intended')
    BY DEF KeysIn
  <2>2. KeysIn(Intended)' \cup cutShort' = had'
    BY <1>1, <1>5, <2>1
  <2> QED BY <1>1, <2>2 DEF RecordsSurvive
<1> QED BY <1>1, <1>4, <1>6, <1>7 DEF DedupeInv

LEMMA PlanKeeps ==
  ASSUME DedupeInv, Plan
  PROVE  DedupeInv'
<1>1. PICK s, n, g, plan, r :
        /\ s = run.scanned /\ n = run.next /\ g = FileGroups[n] /\ plan = plan_folder(s, g)
        /\ r = [scanned |-> s, next |-> n + 1, plan |-> plan, left |-> DOMAIN plan.strips]
  OBVIOUS
<1>2. /\ run # NoRun /\ run.left = {} /\ n \in 1 .. Len(FileGroups) /\ s \in Exported
      /\ ~meddled => had = KeysIn(s) /\ Progress(s, Intended, n, {})
      /\ ~completed /\ cutShort = {} /\ writing = << >>
  BY <1>1, GroupsAreExports DEF DedupeInv, Plan, RunOK
<1>3. run' = r
  BY <1>1 DEF Plan
<1>4. content' = content /\ had' = had /\ meddled' = meddled /\ completed' = completed
      /\ writing' = writing /\ cutShort' = cutShort
  BY DEF Plan
<1>a. Intended' = Intended
  BY <1>4 DEF Intended
<1>5. g \in SUBSET Exports /\ n + 1 \in 1 .. Len(FileGroups) + 1 /\ (n + 1) - 1 = n /\ n + 1 > 1 /\ n \in Nat
  BY <1>1, <1>2, GroupsAreExports
<1>6. DOMAIN plan.strips = HasStrips(s, g) /\ HasStrips(s, g) \subseteq g
  BY <1>1 DEF plan_folder, HasStrips
<1>7. ASSUME ~meddled PROVE Progress(s, Intended, n + 1, HasStrips(s, g))
  <2> DEFINE c == Intended
  <2>1. Progress(s, c, n, {})
    BY <1>2, <1>7
  <2> HIDE DEF c
  <2>2. \A f \in g : c[f] = s[f]
    <3> SUFFICES ASSUME NEW f \in g PROVE c[f] = s[f]
      OBVIOUS
    <3>1. \A m \in 1 .. n - 1 : f \notin FileGroups[m]
      BY <1>1, <1>2, GroupsAreExports, DedupeAssumption
    <3> QED BY <1>5, <2>1, <3>1 DEF Progress
  <2>3. \A f \in g \ HasStrips(s, g) : c[f] = Final(s, g, f)
    BY <2>2 DEF Final, Archives
  <2>4. \A m \in 1 .. n : m \in 1 .. n - 1 \/ m = n
    BY <1>5
  <2>5. \A m \in 1 .. (n + 1) - 1 : \A f \in FileGroups[m] \ HasStrips(s, g) : c[f] = Final(s, FileGroups[m], f)
    BY <1>1, <1>5, <2>1, <2>3, <2>4 DEF Progress
  <2>6. \A f \in Exports : (\A m \in 1 .. (n + 1) - 1 : f \notin FileGroups[m]) => c[f] = s[f]
    <3>1. \A m \in 1 .. n - 1 : m \in 1 .. (n + 1) - 1
      BY <1>5
    <3> QED BY <2>1, <3>1 DEF Progress
  <2>7. Progress(s, c, n + 1, HasStrips(s, g))
    BY <1>6, <2>2, <2>5, <2>6 DEF Progress
  <2> QED BY <2>7 DEF c
<1>8. RunOK'
  <2>1. r.scanned = s /\ r.next = n + 1 /\ r.plan = plan /\ r.left = HasStrips(s, g) /\ DOMAIN r.plan.strips = HasStrips(s, g)
        /\ r = [scanned |-> r.scanned, next |-> r.next, plan |-> r.plan, left |-> r.left]
    BY <1>1, <1>6
  <2>2. HasStrips(s, g) \subseteq Exports
    BY <1>5, <1>6
  <2>3. r.plan = plan_folder(s, FileGroups[(n + 1) - 1])
    BY <1>1, <1>5, <2>1
  <2>4. DOMAIN writing' = {}
    BY <1>2, <1>4
  <2> QED BY <1>2, <1>3, <1>4, <1>a, <1>5, <1>7, <2>1, <2>2, <2>3, <2>4 DEF RunOK
<1>9. RecordsSurvive'
  <2>1. KeysIn(Intended)' = KeysIn(Intended')
    BY DEF KeysIn
  <2>2. ~meddled => KeysIn(Intended) \cup cutShort = had
    BY <1>2 DEF RecordsSurvive, DedupeInv
  <2> QED BY <1>2, <1>4, <1>a, <2>1, <2>2 DEF RecordsSurvive
<1> QED BY <1>4, <1>8, <1>9 DEF DedupeInv

\* A file is moved to the archive, or begins to be written without its strips.
LEMMA ApplyKeeps ==
  ASSUME DedupeInv, NEW f \in Exports, archive_file(f) \/ BeginStrip(f)
  PROVE  DedupeInv'
<1>1. /\ content[f] # Gone /\ f \in run.left /\ writing = << >>
      /\ run' = [run EXCEPT !.left = @ \ {f}]
      /\ run # NoRun /\ had' = had /\ meddled' = meddled /\ completed' = completed /\ cutShort' = cutShort
  BY DEF archive_file, BeginStrip, Turn
<1>2. PICK s, n, plan, left, m, g, r :
        /\ s = run.scanned /\ n = run.next /\ plan = run.plan /\ left = run.left /\ m = n - 1 /\ g = FileGroups[m]
        /\ r = [scanned |-> s, next |-> n, plan |-> plan, left |-> left \ {f}]
  OBVIOUS
<1>3. content \in Exported /\ Intended = content
  BY <1>1, NothingWritten DEF DedupeInv
<1>4. /\ s \in Exported /\ n \in 1 .. Len(FileGroups) + 1 /\ n > 1
      /\ left \subseteq DOMAIN plan.strips /\ DOMAIN plan.strips \subseteq Exports
      /\ plan = plan_folder(s, g) /\ ~completed /\ cutShort = {}
      /\ ~meddled => had = KeysIn(s) /\ Progress(s, content, n, left)
      /\ run = [scanned |-> s, next |-> n, plan |-> plan, left |-> left]
  BY <1>1, <1>2, <1>3 DEF DedupeInv, RunOK
<1>5. run' = r
  <2>1. run' = [[scanned |-> s, next |-> n, plan |-> plan, left |-> left] EXCEPT !.left = left \ {f}]
    BY <1>1, <1>2, <1>4
  <2>2. @ = [scanned |-> s, next |-> n, plan |-> plan, left |-> left \ {f}]
    OBVIOUS
  <2> QED BY <1>2, <2>1, <2>2
<1>6. m \in 1 .. Len(FileGroups) /\ m \in 1 .. n - 1 /\ g \in SUBSET Exports
  BY <1>2, <1>4, GroupsAreExports
<1>7. /\ DOMAIN plan.strips = HasStrips(s, g) /\ plan.strips[f] = Strip(s, g, f) /\ plan.archives = Archives(s, g)
      /\ f \in HasStrips(s, g) /\ f \in g /\ f \in left
  <2>1. plan.strips = [h \in HasStrips(s, g) |-> Strip(s, g, h)] /\ plan.archives = Archives(s, g)
    BY <1>4 DEF plan_folder
  <2>2. f \in HasStrips(s, g)
    BY <1>1, <1>2, <1>4, <2>1
  <2> QED BY <1>1, <1>2, <1>6, <2>1, <2>2 DEF HasStrips
<1>8. PICK y : y = WithoutRows(content[f], Strip(s, g, f))
  OBVIOUS
<1>b. PICK x : x = IF f \in Archives(s, g) THEN Gone ELSE y
  OBVIOUS
<1>10. y \in Seq(Rows) /\ x \in Seq(Rows) \cup {Gone}
  <2>1. content[f] \in Seq(Rows)
    BY <1>1, <1>3 DEF Exported
  <2>2. y \in Seq(Rows)
    BY <1>8, <2>1, OnlyElements DEF WithoutRows
  <2> QED BY <1>b, <2>2
\* What is on the disk and what is being written.
<1>c. \/ f \in Archives(s, g) /\ content' = [content EXCEPT ![f] = Gone] /\ writing' = << >>
      \/ f \notin Archives(s, g) /\ content' = [content EXCEPT ![f] = << >>] /\ writing' = [h \in {f} |-> y]
  BY <1>1, <1>2, <1>7, <1>8 DEF archive_file, BeginStrip, Stripped
<1>11. content' \in Exported
  BY <1>3, <1>c, EmptySeq DEF Exported
<1>d. /\ \A h \in DOMAIN writing' : h = f /\ writing'[h] \in Seq(Rows)
      /\ Intended' \in Exported /\ Intended'[f] = x /\ \A h \in Exports \ {f} : Intended'[h] = content[h]
  <2>1. CASE f \in Archives(s, g)
    <3>1. content' = [content EXCEPT ![f] = Gone] /\ writing' = << >> /\ DOMAIN writing' = {}
      BY <1>c, <2>1
    <3>2. Intended' = [h \in Exports |-> content'[h]]
      BY <3>1 DEF Intended
    <3> QED BY <1>3, <1>b, <1>10, <1>11, <2>1, <3>1, <3>2 DEF Exported
  <2>2. CASE f \notin Archives(s, g)
    <3>1. content' = [content EXCEPT ![f] = << >>] /\ writing' = [h \in {f} |-> y]
      BY <1>c, <2>2
    <3>2. DOMAIN writing' = {f} /\ writing'[f] = y
      BY <3>1
    <3>3. Intended' = [h \in Exports |-> IF h = f THEN y ELSE content'[h]]
      BY <3>2 DEF Intended
    <3>4. \A h \in Exports \ {f} : content'[h] = content[h] /\ content[h] \in Seq(Rows) \cup {Gone}
      BY <1>3, <3>1 DEF Exported
    <3> QED BY <1>b, <1>10, <2>2, <3>2, <3>3, <3>4 DEF Exported
  <2> QED BY <2>1, <2>2
<1>12. ASSUME ~meddled PROVE Progress(s, Intended', n, left \ {f})
  <2>1. Progress(s, content, n, left)
    BY <1>4, <1>12
  <2> DEFINE c == Intended'
  <2>2. c[f] = x /\ \A h \in Exports \ {f} : c[h] = content[h]
    BY <1>d
  <2> HIDE DEF c
  <2>3. x = Final(s, g, f)
    <3>1. content[f] = s[f]
      BY <1>7, <2>1 DEF Progress
    <3> QED BY <1>7, <1>8, <1>b, <3>1 DEF Final
  <2>4. \A h \in left \ {f} : c[h] = s[h]
    BY <1>4, <2>1, <2>2 DEF Progress
  <2>5. \A p \in 1 .. n - 1 : p # m => f \notin FileGroups[p]
    <3>1. \A p \in 1 .. n - 1 : p \in DOMAIN FileGroups
      BY <1>4, GroupsAreExports
    <3>2. m \in DOMAIN FileGroups
      BY <1>6, GroupsAreExports
    <3> QED BY <1>2, <1>7, <3>1, <3>2, DedupeAssumption
  <2>6. ASSUME NEW p \in 1 .. n - 1, NEW h \in FileGroups[p] \ (left \ {f})
        PROVE  c[h] = Final(s, FileGroups[p], h)
    <3>1. CASE h = f
      BY <1>2, <2>2, <2>3, <2>5, <2>6, <3>1
    <3>2. CASE h # f
      <4>1. FileGroups[p] \in SUBSET Exports
        BY <1>4, GroupsAreExports
      <4>2. h \in FileGroups[p] \ left /\ h \in Exports \ {f}
        BY <2>6, <3>2, <4>1
      <4> QED BY <2>1, <2>2, <4>2 DEF Progress
    <3> QED BY <3>1, <3>2
  <2>7. ASSUME NEW h \in Exports, \A p \in 1 .. n - 1 : h \notin FileGroups[p]
        PROVE  c[h] = s[h]
    <3>1. h # f
      BY <1>2, <1>6, <1>7, <2>7
    <3> QED BY <2>1, <2>2, <2>7, <3>1 DEF Progress
  <2>8. Progress(s, c, n, left \ {f})
    BY <2>4, <2>6, <2>7 DEF Progress
  <2> QED BY <2>8 DEF c
<1>13. RunOK'
  <2>1. /\ r.scanned = s /\ r.next = n /\ r.plan = plan /\ r.left = left \ {f}
        /\ r = [scanned |-> r.scanned, next |-> r.next, plan |-> r.plan, left |-> r.left]
    BY <1>2
  <2>2. plan = plan_folder(s, FileGroups[n - 1])
    BY <1>2, <1>4
  <2>3. left \ {f} \subseteq DOMAIN plan.strips /\ DOMAIN writing' \subseteq Exports
    BY <1>4, <1>d
  <2>4. (\A h, e \in DOMAIN writing' : h = e) /\ \A h \in DOMAIN writing' : h \in Exports /\ writing'[h] \in Seq(Rows)
    BY <1>d, <2>3
  <2>5. ~meddled => had = KeysIn(s) /\ Progress(s, Intended', n, left \ {f})
    BY <1>4, <1>12
  <2> HIDE DEF Progress, Intended
  <2> QED BY <1>1, <1>4, <1>5, <2>1, <2>2, <2>3, <2>4, <2>5 DEF RunOK
<1>14. RecordsSurvive'
  <2>1. ASSUME ~meddled PROVE KeysIn(Intended') = had
    <3>1. KeysIn(Intended') = KeysIn(s)
      BY <1>4, <1>d, <1>12, <2>1, KeysAreKept
    <3> QED BY <1>4, <2>1, <3>1
  <2>2. KeysIn(Intended)' = KeysIn(Intended')
    BY DEF KeysIn
  <2> QED BY <1>1, <1>4, <2>1, <2>2 DEF RecordsSurvive
<1> QED BY <1>1, <1>11, <1>13, <1>14 DEF DedupeInv

\* When the file is written the sources are what they were to be.
LEMMA EndStripKeeps ==
  ASSUME DedupeInv, EndStrip
  PROVE  DedupeInv'
<1>1. /\ writing # << >> /\ content' = Intended /\ writing' = << >>
      /\ UNCHANGED <<archived, run, cutShort, had, meddled, completed, exportEdits>>
  BY DEF EndStrip
<1>2. run # NoRun
  BY DEF EndStrip
<1>3. Intended \in Exported
  <2>1. \A f \in Exports : (IF f \in DOMAIN writing THEN writing[f] ELSE content[f]) \in Seq(Rows) \cup {Gone}
    BY <1>2 DEF DedupeInv, RunOK, Exported
  <2> QED BY <2>1 DEF Intended, Exported
<1>4. Intended' = Intended /\ DOMAIN writing' = {}
  <2>1. Intended = [f \in Exports |-> Intended[f]]
    BY DEF Intended
  <2>2. DOMAIN writing' = {}
    BY <1>1
  <2>3. Intended' = [f \in Exports |-> content'[f]]
    BY <2>2 DEF Intended
  <2> QED BY <1>1, <2>1, <2>2, <2>3
<1>5. RunOK'
  BY <1>1, <1>2, <1>4 DEF DedupeInv, RunOK
<1>6. RecordsSurvive'
  <2>1. KeysIn(Intended)' = KeysIn(Intended')
    BY DEF KeysIn
  <2>2. ~completed /\ (~meddled => KeysIn(Intended) \cup cutShort = had)
    BY <1>2 DEF DedupeInv, RunOK, RecordsSurvive
  <2> QED BY <1>1, <1>4, <2>1, <2>2 DEF RecordsSurvive
<1> QED BY <1>1, <1>3, <1>5, <1>6 DEF DedupeInv

\* The run ends with every group planned and no file left.
LEMMA ReportKeeps ==
  ASSUME DedupeInv, Report
  PROVE  DedupeInv'
<1>1. /\ run # NoRun /\ run.left = {} /\ run.next > Len(FileGroups) /\ run' = NoRun /\ writing = << >>
      /\ content' = content /\ had' = had /\ meddled' = meddled /\ writing' = writing /\ cutShort' = cutShort
  BY DEF Report
<1>2. /\ run.scanned \in Exported /\ run.next = Len(FileGroups) + 1 /\ content \in Exported
      /\ Intended = content
      /\ ~meddled => Progress(run.scanned, content, run.next, run.left)
  <2>1. Intended = content
    BY <1>1, NothingWritten DEF DedupeInv
  <2> QED BY <1>1, <2>1, GroupsAreExports DEF DedupeInv, RunOK
<1>3. ASSUME ~meddled
      PROVE  \A n \in DOMAIN FileGroups, k \in RecordKeys : Cardinality(With(content, FileGroups[n], k)) <= 1
  <2>1. Progress(run.scanned, content, Len(FileGroups) + 1, {})
    BY <1>1, <1>2, <1>3
  <2> QED BY <1>2, <2>1, OneFileEach
<1>4. ~meddled => KeysIn(Intended) \cup cutShort = had
  BY <1>1 DEF DedupeInv, RecordsSurvive
<1>5. Intended' = Intended
  BY <1>1 DEF Intended
<1>6. RecordsSurvive'
  BY <1>1, <1>3, <1>4, <1>5 DEF RecordsSurvive, KeysIn, With
<1> QED BY <1>1, <1>6 DEF DedupeInv, RunOK

\* A run is stopped; of the file that was being written the first rows are there.
LEMMA DedupeStopKeeps ==
  ASSUME DedupeInv, StopRun
  PROVE  DedupeInv'
<1>1. /\ run # NoRun /\ run' = NoRun /\ writing' = << >> /\ DOMAIN writing' = {}
      /\ had' = had /\ meddled' = meddled /\ completed' = completed /\ ~completed
  BY DEF StopRun, DedupeInv, RunOK
<1>2. CASE writing = << >>
  <2>1. content' = content /\ cutShort' = cutShort
    <3>1. DOMAIN writing = {}
      BY <1>2
    <3> QED BY <3>1 DEF StopRun
  <2>2. Intended' = Intended
    BY <1>1, <1>2, <2>1 DEF Intended
  <2>3. RecordsSurvive'
    BY <1>1, <2>1, <2>2 DEF RecordsSurvive, KeysIn, With, DedupeInv
  <2> QED BY <1>1, <2>1, <2>3 DEF DedupeInv, RunOK
<1>3. CASE writing # << >>
  <2>1. PICK f \in DOMAIN writing : \E n \in 0 .. Len(writing[f]) :
          /\ content' = [content EXCEPT ![f] = SubSeq(writing[f], 1, n)]
          /\ cutShort' = KeysOf(SubSeq(writing[f], n + 1, Len(writing[f])))
    BY <1>3 DEF StopRun
  <2>2. PICK t, a, b : t = writing[f] /\ content' = [content EXCEPT ![f] = a] /\ cutShort' = KeysOf(b)
                       /\ \E n \in 0 .. Len(t) : a = SubSeq(t, 1, n) /\ b = SubSeq(t, n + 1, Len(t))
    BY <2>1
  <2>3. f \in Exports /\ t \in Seq(Rows) /\ DOMAIN writing = {f} /\ content \in Exported /\ cutShort = {}
    BY <1>1, <2>1, <2>2 DEF DedupeInv, RunOK
  <2>4. a \in Seq(Rows) /\ KeysOf(a) \cup KeysOf(b) = KeysOf(t)
    BY <2>2, <2>3, CutInTwo
  <2>5. t # Gone /\ a # Gone
    BY <2>3, <2>4, RowsAssumption
  <2>6. Intended[f] = t /\ \A g \in Exports \ {f} : Intended[g] = content[g]
    BY <2>2, <2>3 DEF Intended
  <2>7. Intended' = content' /\ content' \in Exported
    <3>1. content' \in Exported
      BY <2>2, <2>3, <2>4 DEF Exported
    <3>2. Intended' = [g \in Exports |-> content'[g]]
      BY <1>1 DEF Intended
    <3> QED BY <3>1, <3>2 DEF Exported
  <2>8. content'[f] = a /\ \A g \in Exports \ {f} : content'[g] = content[g]
    BY <2>2, <2>3 DEF Exported
  <2>9. \A e, k : k \in KeysIn(e) <=> \E g \in Exports : e[g] # Gone /\ k \in KeysOf(e[g])
    BY DEF KeysIn
  <2>10. KeysIn(content') \cup KeysOf(b) = KeysIn(Intended)
    <3> DEFINE c == content'
               d == Intended
    <3>1. c[f] = a /\ d[f] = t /\ \A g \in Exports \ {f} : c[g] = d[g]
      BY <2>6, <2>8
    <3> HIDE DEF c, d
    <3>2. ASSUME NEW k \in KeysIn(d) PROVE k \in KeysIn(c) \cup KeysOf(b)
      <4>1. PICK g \in Exports : d[g] # Gone /\ k \in KeysOf(d[g])
        BY <2>9, <3>2
      <4>2. CASE g = f
        BY <2>3, <2>4, <2>5, <2>9, <3>1, <4>1, <4>2
      <4>3. CASE g # f
        BY <2>9, <3>1, <4>1, <4>3
      <4> QED BY <4>2, <4>3
    <3>3. ASSUME NEW k \in KeysIn(c) PROVE k \in KeysIn(d)
      <4>1. PICK g \in Exports : c[g] # Gone /\ k \in KeysOf(c[g])
        BY <2>9, <3>3
      <4>2. CASE g = f
        BY <2>3, <2>4, <2>5, <2>9, <3>1, <4>1, <4>2
      <4>3. CASE g # f
        BY <2>9, <3>1, <4>1, <4>3
      <4> QED BY <4>2, <4>3
    <3>4. ASSUME NEW k \in KeysOf(b) PROVE k \in KeysIn(d)
      BY <2>3, <2>4, <2>5, <2>9, <3>1, <3>4
    <3>5. KeysIn(c) \cup KeysOf(b) = KeysIn(d)
      BY <3>2, <3>3, <3>4
    <3> QED BY <3>5 DEF c, d
  <2>11. ~meddled => KeysIn(Intended) = had
    BY <1>1, <2>3 DEF DedupeInv, RecordsSurvive
  <2>12. RecordsSurvive'
    <3>1. KeysIn(Intended)' = KeysIn(Intended')
      BY DEF KeysIn
    <3> QED BY <1>1, <2>2, <2>7, <2>10, <2>11, <3>1 DEF RecordsSurvive
  <2> QED BY <1>1, <2>7, <2>12 DEF DedupeInv, RunOK
<1> QED BY <1>2, <1>3

LEMMA EditKeeps ==
  ASSUME DedupeInv, NEW f \in Exports, NEW rows \in Replacements, EditExport(f, rows)
  PROVE  DedupeInv'
<1>1. /\ content' = [content EXCEPT ![f] = rows] /\ meddled' = TRUE /\ completed' = FALSE
      /\ run' = run /\ had' = had /\ writing' = writing /\ cutShort' = cutShort
  BY DEF EditExport
<1>2. content' \in Exported
  BY <1>1, RowsAssumption DEF DedupeInv, Exported
<1> QED BY <1>1, <1>2 DEF DedupeInv, RunOK, RecordsSurvive

LEMMA DedupeNextInv == DedupeInv /\ [DedupeNext]_dedupeVars => DedupeInv'
<1> SUFFICES ASSUME DedupeInv, [DedupeNext]_dedupeVars PROVE DedupeInv'
  OBVIOUS
<1>1. CASE UNCHANGED dedupeVars
  BY <1>1 DEF dedupeVars, DedupeInv, RunOK, RecordsSurvive, KeysIn, With, Intended
<1> QED BY <1>1, ScanKeeps, PlanKeeps, ApplyKeeps, EndStripKeeps, ReportKeeps, DedupeStopKeeps, EditKeeps DEF DedupeNext

\* The invariant holds wherever a run is stopped and whatever changes meanwhile.
THEOREM DedupeInvHolds == DedupeSpec => []DedupeInv
BY DedupeInitInv, DedupeNextInv, PTL DEF DedupeSpec

\* Files hold rows of the compared kind, and the files left are planned for.
THEOREM DedupeTyped == DedupeSpec => []DedupeTypeOK
<1>1. DedupeInv => DedupeTypeOK
  <2> SUFFICES ASSUME DedupeInv PROVE DedupeTypeOK
    OBVIOUS
  <2>1. \A f \in Exports : content[f] = Gone \/ KeysOf(content[f]) \subseteq RecordKeys
    BY KeysOfRows DEF DedupeInv, Exported
  <2> QED BY <2>1 DEF DedupeInv, RunOK, DedupeTypeOK
<1> QED BY <1>1, DedupeInvHolds, PTL

\* Wherever a run is stopped, the sources hold the records they held when it began but
\* for the lost part of the file in whose rewrite it was stopped, and after a complete run
\* each is in one file of its folder: for any files, folders, stated spans and rows, as long
\* as no file changes meanwhile.
THEOREM RecordsKept == DedupeSpec => []RecordsSurvive
<1>1. DedupeInv => RecordsSurvive
  BY DEF DedupeInv
<1> QED BY <1>1, DedupeInvHolds, PTL

-----------------------------------------------------------------------------
(* What n steps come to.                                                   *)

\* The values a step goes through, from b.
Courses(S, b, N, step) == {f \in [0 .. N -> S] : f[0] = b /\ \A i \in 1 .. N : f[i] = step[<<f[i - 1], i>>]}

LEMMA Iterates ==
  ASSUME NEW S, NEW b \in S, NEW N \in Nat, NEW step, \A x \in S \X (1 .. N) : step[x] \in S
  PROVE  Courses(S, b, N, step) # {}
<1> DEFINE Upto(n) == {f \in [0 .. n -> S] : f[0] = b /\ \A i \in 1 .. n : f[i] = step[<<f[i - 1], i>>]}
           T == {n \in 0 .. N : Upto(n) # {}}
<1>1. 0 \in T
  <2>1. [i \in 0 .. 0 |-> b] \in Upto(0)
    OBVIOUS
  <2> QED BY <2>1
<1>2. ASSUME NEW n \in 0 .. N - 1, n \in T
      PROVE  n + 1 \in T
  <2>1. PICK f \in [0 .. n -> S] : f[0] = b /\ \A i \in 1 .. n : f[i] = step[<<f[i - 1], i>>]
    BY <1>2
  <2>2. PICK g : g = [i \in 0 .. n + 1 |-> IF i <= n THEN f[i] ELSE step[<<f[n], n + 1>>]]
    OBVIOUS
  <2>3. step[<<f[n], n + 1>>] \in S
    <3>1. f[n] \in S /\ n + 1 \in 1 .. N
      OBVIOUS
    <3> QED BY <3>1
  <2>4. g \in [0 .. n + 1 -> S]
    BY <2>2, <2>3
  <2>5. g[0] = b
    BY <2>1, <2>2
  <2>6. ASSUME NEW i \in 1 .. n + 1
        PROVE  g[i] = step[<<g[i - 1], i>>]
    <3>1. CASE i <= n
      <4>1. g[i] = f[i] /\ g[i - 1] = f[i - 1] /\ i \in 1 .. n
        BY <2>2, <3>1
      <4> QED BY <2>1, <4>1
    <3>2. CASE i = n + 1
      <4>1. g[i] = step[<<f[n], n + 1>>] /\ g[i - 1] = f[n]
        BY <2>2, <3>2
      <4> QED BY <3>2, <4>1
    <3> QED BY <3>1, <3>2
  <2>7. g \in Upto(n + 1)
    BY <2>4, <2>5, <2>6
  <2> QED BY <2>7
<1>3. N \in T
  <2> HIDE DEF T
  <2>1. \A n \in 0 .. N : n \in T
    BY <1>1, <1>2, StepByStep
  <2> QED BY <2>1
<1>4. PICK f \in [0 .. N -> S] : f[0] = b /\ \A i \in 1 .. N : f[i] = step[<<f[i - 1], i>>]
  BY <1>3
<1> QED BY <1>4 DEF Courses

-----------------------------------------------------------------------------
(* What a line does to what has been read.                                 *)

Transactions == [id : Words, postings : Seq(Postings)]
Parsers == [txn : {Nothing} \cup OpenTransactions, decl : {Nothing} \cup Declarations,
            transactions : Seq(Transactions), accounts : Seq(Declarations), diagnostics : SUBSET Nat]

LEMMA ParserOf ==
  ASSUME NEW p \in Parsers
  PROVE  /\ p.txn \in {Nothing} \cup OpenTransactions /\ p.decl \in {Nothing} \cup Declarations
         /\ p.transactions \in Seq(Transactions) /\ p.accounts \in Seq(Declarations) /\ p.diagnostics \in SUBSET Nat
BY DEF Parsers

LEMMA CleanTyped == Clean \in Parsers
BY EmptySeq DEF Clean, Parsers

LEMMA LineTypes ==
  ASSUME NEW l \in AllLines
  PROVE  l.complete \in BOOLEAN /\ l.word \in Words /\ l.qty \in {x.qty : x \in AllLines}
<1>1. l.complete \in BOOLEAN
  <2>1. CASE l \in TextLines
    BY <2>1, TextAssumption
  <2>2. CASE l = BlankLine
    BY <2>2 DEF BlankLine, Line
  <2>3. CASE l \in Range(NewBlock)
    <3>1. PICK i \in DOMAIN NewBlock : l = NewBlock[i]
      BY <2>3 DEF Range
    <3>2. i \in 1 .. 3
      BY DEF NewBlock
    <3>3. NewBlock[1].complete = TRUE /\ NewBlock[2].complete = TRUE /\ NewBlock[3].complete = TRUE
      BY DEF NewBlock, Line
    <3>4. i = 1 \/ i = 2 \/ i = 3
      BY <3>2
    <3>5. l.complete = TRUE
      BY <3>1, <3>3, <3>4
    <3> QED BY <3>5
  <2> QED BY <2>1, <2>2, <2>3 DEF AllLines
<1> QED BY <1>1 DEF Words

LEMMA DiagnosedIs ==
  ASSUME NEW p \in Parsers, NEW n \in Nat
  PROVE  LET r == Diagnosed(p, n) IN
         /\ r \in Parsers /\ r.txn = p.txn /\ r.decl = p.decl /\ r.transactions = p.transactions
         /\ r.accounts = p.accounts /\ r.diagnostics = p.diagnostics \cup {n}
BY DEF Diagnosed, Parsers

LEMMA FlushedIs ==
  ASSUME NEW p \in Parsers
  PROVE  LET r == flush_transaction(p) IN
         /\ r \in Parsers /\ r.txn = Nothing /\ r.decl = p.decl /\ r.accounts = p.accounts
         /\ r.transactions = IF p.txn = Nothing THEN p.transactions
                             ELSE Append(p.transactions, [id |-> p.txn.id, postings |-> p.txn.postings])
         /\ r.diagnostics = IF p.txn = Nothing \/ p.txn.postings # <<>> THEN p.diagnostics
                            ELSE p.diagnostics \cup {p.txn.line}
<1>1. CASE p.txn = Nothing
  BY <1>1 DEF flush_transaction
<1>2. CASE p.txn # Nothing
  <2>1. p.txn \in OpenTransactions
    BY <1>2, ParserOf
  <2>2. PICK x : x = [id |-> p.txn.id, postings |-> p.txn.postings]
    OBVIOUS
  <2>3. x \in Transactions
    BY <2>1, <2>2 DEF OpenTransactions, Transactions
  <2>4. PICK ts : ts = Append(p.transactions, x)
    OBVIOUS
  <2>5. ts \in Seq(Transactions)
    BY <2>3, <2>4, ParserOf, AppendProperties
  <2>6. PICK ds : ds = IF p.txn.postings = <<>> THEN p.diagnostics \cup {p.txn.line} ELSE p.diagnostics
    OBVIOUS
  <2>7. ds \in SUBSET Nat
    BY <2>1, <2>6, ParserOf DEF OpenTransactions
  <2>8. flush_transaction(p) = [p EXCEPT !.txn = Nothing, !.transactions = ts, !.diagnostics = ds]
    BY <1>2, <2>2, <2>4, <2>6 DEF flush_transaction, Parsers
  <2>9. PICK r : r = [p EXCEPT !.txn = Nothing, !.transactions = ts, !.diagnostics = ds]
    OBVIOUS
  <2>10. /\ r \in Parsers /\ r.txn = Nothing /\ r.decl = p.decl /\ r.accounts = p.accounts
         /\ r.transactions = ts /\ r.diagnostics = ds
    BY <2>5, <2>7, <2>9 DEF Parsers
  <2> QED BY <1>2, <2>2, <2>4, <2>6, <2>8, <2>9, <2>10
<1> QED BY <1>1, <1>2

LEMMA FlushIs ==
  ASSUME NEW p \in Parsers
  PROVE  LET r == Flush(p)
             q == flush_transaction(p)
         IN /\ r \in Parsers /\ r.txn = Nothing /\ r.decl = Nothing
            /\ r.transactions = q.transactions /\ r.diagnostics = q.diagnostics
            /\ r.accounts = IF p.decl = Nothing THEN p.accounts ELSE Append(p.accounts, p.decl)
<1>1. PICK q : q = flush_transaction(p)
  OBVIOUS
<1>2. q \in Parsers /\ q.txn = Nothing /\ q.decl = p.decl /\ q.accounts = p.accounts
  BY <1>1, FlushedIs
<1>3. CASE q.decl = Nothing
  BY <1>1, <1>2, <1>3 DEF Flush
<1>4. CASE q.decl # Nothing
  <2>1. PICK decls : decls = Append(q.accounts, q.decl)
    OBVIOUS
  <2>2. decls \in Seq(Declarations)
    BY <1>2, <1>4, <2>1, ParserOf, AppendProperties
  <2>3. Flush(p) = [q EXCEPT !.decl = Nothing, !.accounts = decls]
    BY <1>1, <1>2, <1>4, <2>1 DEF Flush, Parsers
  <2>4. PICK r : r = [q EXCEPT !.decl = Nothing, !.accounts = decls]
    OBVIOUS
  <2>5. /\ r \in Parsers /\ r.txn = Nothing /\ r.decl = Nothing /\ r.accounts = decls
        /\ r.transactions = q.transactions /\ r.diagnostics = q.diagnostics
    BY <1>2, <2>2, <2>4 DEF Parsers
  <2> QED BY <1>1, <1>2, <1>4, <2>1, <2>3, <2>4, <2>5
<1> QED BY <1>3, <1>4

LEMMA OpenTransactionIs ==
  ASSUME NEW p \in Parsers, NEW l \in AllLines, NEW n \in Nat
  PROVE  LET r == OpenTransaction(p, l, n) IN
         /\ r \in Parsers /\ r.txn = [id |-> l.word, line |-> n, postings |-> <<>>] /\ r.decl = p.decl
         /\ r.transactions = p.transactions /\ r.accounts = p.accounts /\ r.diagnostics = p.diagnostics
<1>1. PICK t : t = [id |-> l.word, line |-> n, postings |-> <<>>]
  OBVIOUS
<1>2. t \in OpenTransactions
  BY <1>1, LineTypes, EmptySeq DEF OpenTransactions
<1> QED BY <1>1, <1>2 DEF OpenTransaction, Parsers

LEMMA OpenDeclarationIs ==
  ASSUME NEW p \in Parsers, NEW l \in AllLines
  PROVE  LET r == OpenDeclaration(p, l) IN
         /\ r \in Parsers /\ r.decl = [account |-> l.word, opening |-> Nothing, named |-> FALSE] /\ r.txn = p.txn
         /\ r.transactions = p.transactions /\ r.accounts = p.accounts /\ r.diagnostics = p.diagnostics
<1>1. PICK d : d = [account |-> l.word, opening |-> Nothing, named |-> FALSE]
  OBVIOUS
<1>2. d \in Declarations
  BY <1>1, LineTypes DEF Declarations
<1> QED BY <1>1, <1>2 DEF OpenDeclaration, Parsers

LEMMA WithPostingIs ==
  ASSUME NEW t \in OpenTransactions, NEW l \in AllLines
  PROVE  LET r == WithPosting(t, l) IN
         /\ r \in OpenTransactions /\ r.id = t.id /\ r.line = t.line
         /\ r.postings = Append(t.postings, [account |-> l.word, qty |-> l.qty])
<1>1. PICK x : x = [account |-> l.word, qty |-> l.qty]
  OBVIOUS
<1>2. x \in Postings
  BY <1>1, LineTypes DEF Postings
<1>3. PICK xs : xs = Append(t.postings, x)
  OBVIOUS
<1>4. xs \in Seq(Postings)
  BY <1>2, <1>3, AppendProperties DEF OpenTransactions
<1>5. WithPosting(t, l) = [t EXCEPT !.postings = xs]
  BY <1>1, <1>3 DEF WithPosting, OpenTransactions
<1> QED BY <1>1, <1>3, <1>4, <1>5 DEF OpenTransactions

LEMMA WithEntryTyped ==
  ASSUME NEW d \in Declarations, NEW l \in AllLines
  PROVE  WithEntry(d, l) \in Declarations
<1>1. CASE l.word = "name"
  BY <1>1 DEF WithEntry, Declarations
<1>2. CASE l.word # "name"
  <2>1. PICK o : o = [qty |-> l.qty]
    OBVIOUS
  <2>2. o \in [qty : {x.qty : x \in AllLines}]
    BY <2>1, LineTypes
  <2>3. WithEntry(d, l) = [d EXCEPT !.opening = o]
    BY <1>2, <2>1 DEF WithEntry
  <2> QED BY <2>2, <2>3 DEF Declarations
<1> QED BY <1>1, <1>2

LEMMA PostingRead ==
  ASSUME NEW p \in Parsers, p.txn # Nothing, NEW l \in AllLines, l.complete, NEW n
  PROVE  LET r == ReadPosting(p, l, n) IN
         /\ r \in Parsers /\ r.txn = WithPosting(p.txn, l) /\ r.decl = p.decl
         /\ r.transactions = p.transactions /\ r.accounts = p.accounts /\ r.diagnostics = p.diagnostics
<1>1. PICK t : t = WithPosting(p.txn, l)
  OBVIOUS
<1>2. t \in OpenTransactions
  BY <1>1, ParserOf, WithPostingIs
<1>3. ReadPosting(p, l, n) = [p EXCEPT !.txn = t]
  BY <1>1 DEF ReadPosting, Parsers
<1> QED BY <1>1, <1>2, <1>3 DEF Parsers

LEMMA EntryRead ==
  ASSUME NEW p \in Parsers, p.decl # Nothing, NEW l \in AllLines, l.complete, IsFirst(p.decl, l), NEW n
  PROVE  LET r == ReadEntry(p, l, n) IN
         /\ r \in Parsers /\ r.decl = WithEntry(p.decl, l) /\ r.txn = p.txn
         /\ r.transactions = p.transactions /\ r.accounts = p.accounts /\ r.diagnostics = p.diagnostics
<1>1. PICK d : d = WithEntry(p.decl, l)
  OBVIOUS
<1>2. d \in Declarations
  BY <1>1, ParserOf, WithEntryTyped
<1>3. ReadEntry(p, l, n) = [p EXCEPT !.decl = d]
  BY <1>1 DEF ReadEntry, Parsers
<1> QED BY <1>1, <1>2, <1>3 DEF Parsers

LEMMA ReadLineIs ==
  ASSUME NEW p \in Parsers, NEW l \in AllLines, NEW n \in Nat
  PROVE  \/ l.kind = "blank" /\ ReadLine(p, l, n) = Flush(p)
         \/ l.kind \in {"directive", "note"} /\ ReadLine(p, l, n) = p
         \/ l.kind = "account" /\ l.complete /\ ReadLine(p, l, n) = OpenDeclaration(Flush(p), l)
         \/ l.kind = "account" /\ ~l.complete /\ ReadLine(p, l, n) = Diagnosed(Flush(p), n)
         \/ l.kind = "header" /\ l.complete /\ ReadLine(p, l, n) = OpenTransaction(Flush(p), l, n)
         \/ l.kind = "header" /\ ~l.complete /\ ReadLine(p, l, n) = Diagnosed(OpenTransaction(Flush(p), l, n), n)
         \/ l.kind = "indented" /\ p.txn # Nothing /\ l.complete /\ ReadLine(p, l, n) = ReadPosting(p, l, n)
         \/ /\ l.kind = "indented" /\ p.txn = Nothing /\ p.decl # Nothing /\ l.complete /\ IsFirst(p.decl, l)
            /\ ReadLine(p, l, n) = ReadEntry(p, l, n)
         \/ /\ l.kind = "indented" /\ (p.txn = Nothing => p.decl = Nothing \/ ~l.complete \/ ~IsFirst(p.decl, l))
            /\ (p.txn # Nothing => ~l.complete)
            /\ ReadLine(p, l, n) = Diagnosed(p, n)
         \/ /\ l.kind \notin {"blank", "directive", "note", "account", "header", "indented"}
            /\ ReadLine(p, l, n) = Diagnosed(p, n)
<1>1. l.complete \in BOOLEAN
  BY LineTypes
<1>2. CASE l.kind = "blank"
  BY <1>2 DEF ReadLine
<1>3. CASE l.kind \in {"directive", "note"}
  BY <1>3 DEF ReadLine
<1>4. CASE l.kind = "account"
  BY <1>1, <1>4 DEF ReadLine, ReadAccount
<1>5. CASE l.kind = "header"
  BY <1>1, <1>5 DEF ReadLine, ReadHeader
<1>6. CASE l.kind = "indented"
  <2>1. ReadLine(p, l, n) = ReadIndented(p, l, n)
    BY <1>6 DEF ReadLine
  <2>2. CASE p.txn # Nothing
    BY <1>1, <1>6, <2>1, <2>2 DEF ReadIndented, ReadPosting
  <2>3. CASE p.txn = Nothing /\ p.decl # Nothing
    BY <1>1, <1>6, <2>1, <2>3 DEF ReadIndented, ReadEntry
  <2>4. CASE p.txn = Nothing /\ p.decl = Nothing
    BY <1>6, <2>1, <2>4 DEF ReadIndented
  <2> QED BY <2>2, <2>3, <2>4
<1>7. CASE l.kind \notin {"blank", "directive", "note", "account", "header", "indented"}
  BY <1>7 DEF ReadLine
<1> QED BY <1>2, <1>3, <1>4, <1>5, <1>6, <1>7

LEMMA ReadLineTyped ==
  ASSUME NEW p \in Parsers, NEW l \in AllLines, NEW n \in Nat
  PROVE  ReadLine(p, l, n) \in Parsers
<1>1. PICK q : q = Flush(p)
  OBVIOUS
<1>2. q \in Parsers
  BY <1>1, FlushIs
<1>3. /\ OpenDeclaration(q, l) \in Parsers /\ Diagnosed(q, n) \in Parsers /\ Diagnosed(p, n) \in Parsers
      /\ OpenTransaction(q, l, n) \in Parsers
  BY <1>2, OpenDeclarationIs, DiagnosedIs, OpenTransactionIs
<1>4. Diagnosed(OpenTransaction(q, l, n), n) \in Parsers
  BY <1>3, DiagnosedIs
<1>5. p.txn # Nothing /\ l.complete => ReadPosting(p, l, n) \in Parsers
  BY PostingRead
<1>6. p.decl # Nothing /\ l.complete /\ IsFirst(p.decl, l) => ReadEntry(p, l, n) \in Parsers
  BY EntryRead
<1> QED BY <1>1, <1>2, <1>3, <1>4, <1>5, <1>6, ReadLineIs

-----------------------------------------------------------------------------
(* Reading a text.                                                         *)

LEMMA ReadIs ==
  ASSUME NEW lines \in Seq(AllLines)
  PROVE  \E at \in [0 .. Len(lines) -> Parsers] :
            /\ at[0] = Clean /\ Read(lines) = at[Len(lines)]
            /\ \A i \in 1 .. Len(lines) : at[i] = ReadLine(at[i - 1], lines[i], i)
<1>1. PICK N \in Nat : N = Len(lines)
  BY LenProperties
<1>2. \A i \in 1 .. N : lines[i] \in AllLines
  BY <1>1, ElementOfSeq
<1>3. PICK step : step = [x \in Parsers \X (1 .. N) |-> ReadLine(x[1], lines[x[2]], x[2])]
  OBVIOUS
<1>4. ASSUME NEW x \in Parsers \X (1 .. N)
      PROVE  step[x] \in Parsers
  <2>1. PICK y \in Parsers, i \in 1 .. N : y = x[1] /\ i = x[2]
    OBVIOUS
  <2>2. i \in Nat /\ lines[i] \in AllLines
    BY <1>2
  <2>3. ReadLine(y, lines[i], i) \in Parsers
    BY <2>2, ReadLineTyped
  <2> QED BY <1>3, <2>1, <2>3
<1>5. PICK f \in [0 .. N -> Parsers] : f[0] = Clean /\ \A i \in 1 .. N : f[i] = step[<<f[i - 1], i>>]
  <2>1. Courses(Parsers, Clean, N, step) # {}
    BY <1>4, CleanTyped, Iterates
  <2> QED BY <2>1 DEF Courses
<1>6. f = [i \in 0 .. N |-> IF i = 0 THEN Clean ELSE ReadLine(f[i - 1], lines[i], i)]
  <2>1. ASSUME NEW i \in 0 .. N
        PROVE  f[i] = IF i = 0 THEN Clean ELSE ReadLine(f[i - 1], lines[i], i)
    <3>1. CASE i = 0
      BY <1>5, <3>1
    <3>2. CASE i # 0
      <4>1. f[i - 1] \in Parsers /\ i \in 1 .. N
        BY <3>2
      <4>2. step[<<f[i - 1], i>>] = ReadLine(f[i - 1], lines[i], i)
        BY <1>3, <4>1
      <4> QED BY <1>5, <3>2, <4>1, <4>2
    <3> QED BY <3>1, <3>2
  <2>2. f = [i \in 0 .. N |-> f[i]]
    OBVIOUS
  <2> QED BY <2>1, <2>2
<1>7. PICK at : at = CHOOSE g : g = [i \in 0 .. N |-> IF i = 0 THEN Clean ELSE ReadLine(g[i - 1], lines[i], i)]
  OBVIOUS
<1>8. at = [i \in 0 .. N |-> IF i = 0 THEN Clean ELSE ReadLine(at[i - 1], lines[i], i)]
  BY <1>6, <1>7
<1>9. Read(lines) = at[N]
  BY <1>1, <1>7 DEF Read, After
<1>10. at[0] = Clean /\ \A i \in 1 .. N : at[i] = ReadLine(at[i - 1], lines[i], i)
  BY <1>8
<1>11. \A i \in 0 .. N : at[i] \in Parsers
  <2>1. PICK T : T = {i \in 0 .. N : at[i] \in Parsers}
    OBVIOUS
  <2>2. 0 \in T
    BY <1>10, <2>1, CleanTyped
  <2>3. ASSUME NEW i \in 0 .. N - 1, i \in T
        PROVE  i + 1 \in T
    <3>1. i + 1 \in 1 .. N /\ i + 1 \in Nat /\ (i + 1) - 1 = i
      OBVIOUS
    <3>2. at[i + 1] = ReadLine(at[i], lines[i + 1], i + 1)
      BY <1>10, <3>1
    <3>3. at[i] \in Parsers /\ lines[i + 1] \in AllLines
      BY <1>2, <2>1, <2>3, <3>1
    <3>4. at[i + 1] \in Parsers
      BY <3>1, <3>2, <3>3, ReadLineTyped
    <3> QED BY <2>1, <3>1, <3>4
  <2>4. \A i \in 0 .. N : i \in T
    BY <2>2, <2>3, StepByStep
  <2> QED BY <2>1, <2>4
<1>12. at \in [0 .. N -> Parsers]
  BY <1>8, <1>11
<1> QED BY <1>1, <1>9, <1>10, <1>12

LEMMA ReadNone == Read(<<>>) = Clean
<1>1. PICK at \in [0 .. Len(<<>>) -> Parsers] : at[0] = Clean /\ Read(<<>>) = at[Len(<<>>)]
  <2>1. <<>> \in Seq(AllLines)
    BY EmptySeq
  <2> QED BY <2>1, ReadIs
<1>2. Len(<<>>) = 0
  BY EmptySeq
<1> QED BY <1>1, <1>2

LEMMA ReadTyped ==
  ASSUME NEW lines \in Seq(AllLines)
  PROVE  Read(lines) \in Parsers
BY ReadIs, LenProperties

\* One line more.
LEMMA ReadMore ==
  ASSUME NEW lines \in Seq(AllLines), NEW l \in AllLines
  PROVE  Read(Append(lines, l)) = ReadLine(Read(lines), l, Len(lines) + 1)
<1>1. PICK N \in Nat : N = Len(lines)
  BY LenProperties
<1>2. PICK more : more = Append(lines, l)
  OBVIOUS
<1>3. more \in Seq(AllLines) /\ Len(more) = N + 1 /\ more[N + 1] = l /\ \A i \in 1 .. N : more[i] = lines[i]
  BY <1>1, <1>2, AppendProperties
<1>4. PICK at \in [0 .. N -> Parsers] : /\ at[0] = Clean /\ Read(lines) = at[N]
                                       /\ \A i \in 1 .. N : at[i] = ReadLine(at[i - 1], lines[i], i)
  BY <1>1, ReadIs
<1>5. PICK bt \in [0 .. N + 1 -> Parsers] : /\ bt[0] = Clean /\ Read(more) = bt[N + 1]
                                           /\ \A i \in 1 .. N + 1 : bt[i] = ReadLine(bt[i - 1], more[i], i)
  <2>1. more \in Seq(AllLines) /\ Len(more) = N + 1
    BY <1>3
  <2> QED BY <2>1, ReadIs
<1>6. PICK T : T = {i \in 0 .. N : at[i] = bt[i]}
  OBVIOUS
<1>7. 0 \in T
  BY <1>4, <1>5, <1>6
<1>8. ASSUME NEW i \in 0 .. N - 1, i \in T
      PROVE  i + 1 \in T
  <2>1. i + 1 \in 1 .. N /\ i + 1 \in 1 .. N + 1 /\ (i + 1) - 1 = i
    OBVIOUS
  <2>2. at[i + 1] = ReadLine(at[i], lines[i + 1], i + 1) /\ bt[i + 1] = ReadLine(bt[i], more[i + 1], i + 1)
    BY <1>4, <1>5, <2>1
  <2>3. at[i + 1] = bt[i + 1]
    BY <1>3, <1>6, <1>8, <2>1, <2>2
  <2> QED BY <1>6, <2>1, <2>3
<1>9. N \in T
  <2>1. \A i \in 0 .. N : i \in T
    BY <1>7, <1>8, StepByStep
  <2> QED BY <2>1
<1>10. N + 1 \in 1 .. N + 1 /\ (N + 1) - 1 = N
  OBVIOUS
<1>11. bt[N + 1] = ReadLine(bt[N], l, N + 1)
  BY <1>3, <1>5, <1>10
<1> QED BY <1>1, <1>2, <1>4, <1>5, <1>6, <1>9, <1>11

-----------------------------------------------------------------------------
(* Reading after what was read before: q has read what p has, and before it *)
(* transactions and accounts, which have come first.                        *)

Follows(p, q, ts, decls) ==
  /\ q.decl = p.decl /\ q.transactions = ts \o p.transactions /\ q.accounts = decls \o p.accounts
  /\ q.txn = Nothing <=> p.txn = Nothing
  /\ p.txn # Nothing => q.txn.id = p.txn.id /\ q.txn.postings = p.txn.postings

\* And k lines with the diagnostics ds.
Behind(ns, k) == {n + k : n \in ns}
Shifted(p, q, ds, k) ==
  /\ p.txn # Nothing => q.txn.line = p.txn.line + k
  /\ q.diagnostics = ds \cup Behind(p.diagnostics, k)

LEMMA AppendAfter ==
  ASSUME NEW S, NEW s \in Seq(S), NEW t \in Seq(S), NEW e \in S
  PROVE  s \o Append(t, e) = Append(s \o t, e)
<1>1. <<e>> \in Seq(S) /\ s \o t \in Seq(S)
  <2>1. <<e>> = Append(<<>>, e)
    OBVIOUS
  <2> QED BY <2>1, EmptySeq, AppendProperties, ConcatProperties
<1>2. Append(t, e) = t \o <<e>> /\ Append(s \o t, e) = (s \o t) \o <<e>>
  BY <1>1, AppendIsConcat
<1>3. (s \o t) \o <<e>> = s \o (t \o <<e>>)
  BY <1>1, ConcatAssociative
<1> QED BY <1>2, <1>3

LEMMA BehindMore ==
  ASSUME NEW ns, NEW n, NEW k
  PROVE  Behind(ns \cup {n}, k) = Behind(ns, k) \cup {n + k}
BY DEF Behind

LEMMA DiagnosedFollows ==
  ASSUME NEW p \in Parsers, NEW q \in Parsers, NEW ts, NEW decls, Follows(p, q, ts, decls), NEW n \in Nat, NEW m \in Nat
  PROVE  /\ Follows(Diagnosed(p, n), Diagnosed(q, m), ts, decls)
         /\ \A ds, k : Shifted(p, q, ds, k) /\ m = n + k => Shifted(Diagnosed(p, n), Diagnosed(q, m), ds, k)
<1>1. PICK x, y : x = Diagnosed(p, n) /\ y = Diagnosed(q, m)
  OBVIOUS
<1>2. /\ x.txn = p.txn /\ x.decl = p.decl /\ x.transactions = p.transactions
      /\ x.accounts = p.accounts /\ x.diagnostics = p.diagnostics \cup {n}
  BY <1>1, DiagnosedIs
<1>3. /\ y.txn = q.txn /\ y.decl = q.decl /\ y.transactions = q.transactions
      /\ y.accounts = q.accounts /\ y.diagnostics = q.diagnostics \cup {m}
  BY <1>1, DiagnosedIs
<1>4. Follows(x, y, ts, decls)
  BY <1>2, <1>3 DEF Follows
<1>5. ASSUME NEW ds, NEW k, Shifted(p, q, ds, k), m = n + k
      PROVE  Shifted(x, y, ds, k)
  <2>1. Behind(x.diagnostics, k) = Behind(p.diagnostics, k) \cup {m}
    BY <1>2, <1>5, BehindMore
  <2> QED BY <1>2, <1>3, <1>5, <2>1 DEF Shifted
<1> QED BY <1>1, <1>4, <1>5

LEMMA FlushComesTo ==
  ASSUME NEW p \in Parsers
  PROVE  LET r == Flush(p) IN
         /\ r \in Parsers /\ r.txn = Nothing /\ r.decl = Nothing
         /\ r.transactions = IF p.txn = Nothing THEN p.transactions
                             ELSE Append(p.transactions, [id |-> p.txn.id, postings |-> p.txn.postings])
         /\ r.diagnostics = IF p.txn = Nothing \/ p.txn.postings # <<>> THEN p.diagnostics
                            ELSE p.diagnostics \cup {p.txn.line}
         /\ r.accounts = IF p.decl = Nothing THEN p.accounts ELSE Append(p.accounts, p.decl)
<1>1. PICK q, r : q = flush_transaction(p) /\ r = Flush(p)
  OBVIOUS
<1>2. /\ r \in Parsers /\ r.txn = Nothing /\ r.decl = Nothing
      /\ r.transactions = q.transactions /\ r.diagnostics = q.diagnostics
      /\ r.accounts = IF p.decl = Nothing THEN p.accounts ELSE Append(p.accounts, p.decl)
  BY <1>1, FlushIs
<1>3. /\ q.transactions = IF p.txn = Nothing THEN p.transactions
                          ELSE Append(p.transactions, [id |-> p.txn.id, postings |-> p.txn.postings])
      /\ q.diagnostics = IF p.txn = Nothing \/ p.txn.postings # <<>> THEN p.diagnostics
                         ELSE p.diagnostics \cup {p.txn.line}
  BY <1>1, FlushedIs
<1> QED BY <1>1, <1>2, <1>3

LEMMA FlushFollows ==
  ASSUME NEW p \in Parsers, NEW q \in Parsers, NEW ts \in Seq(Transactions), NEW decls \in Seq(Declarations),
         Follows(p, q, ts, decls)
  PROVE  /\ Follows(Flush(p), Flush(q), ts, decls)
         /\ \A ds, k : Shifted(p, q, ds, k) => Shifted(Flush(p), Flush(q), ds, k)
<1>1. PICK x, y : x = Flush(p) /\ y = Flush(q)
  OBVIOUS
<1>2. /\ x.txn = Nothing /\ x.decl = Nothing
      /\ x.transactions = IF p.txn = Nothing THEN p.transactions
                          ELSE Append(p.transactions, [id |-> p.txn.id, postings |-> p.txn.postings])
      /\ x.diagnostics = IF p.txn = Nothing \/ p.txn.postings # <<>> THEN p.diagnostics
                         ELSE p.diagnostics \cup {p.txn.line}
      /\ x.accounts = IF p.decl = Nothing THEN p.accounts ELSE Append(p.accounts, p.decl)
  BY <1>1, FlushComesTo
<1>3. /\ y.txn = Nothing /\ y.decl = Nothing
      /\ y.transactions = IF q.txn = Nothing THEN q.transactions
                          ELSE Append(q.transactions, [id |-> q.txn.id, postings |-> q.txn.postings])
      /\ y.diagnostics = IF q.txn = Nothing \/ q.txn.postings # <<>> THEN q.diagnostics
                         ELSE q.diagnostics \cup {q.txn.line}
      /\ y.accounts = IF q.decl = Nothing THEN q.accounts ELSE Append(q.accounts, q.decl)
  BY <1>1, FlushComesTo
<1>4. y.transactions = ts \o x.transactions
  <2>1. CASE p.txn = Nothing
    BY <1>2, <1>3, <2>1 DEF Follows
  <2>2. CASE p.txn # Nothing
    <3>1. PICK t : t = [id |-> p.txn.id, postings |-> p.txn.postings]
      OBVIOUS
    <3>2. t \in Transactions
      BY <2>2, <3>1, ParserOf DEF OpenTransactions, Transactions
    <3>3. x.transactions = Append(p.transactions, t) /\ y.transactions = Append(ts \o p.transactions, t)
      BY <1>2, <1>3, <2>2, <3>1 DEF Follows
    <3>4. ts \o Append(p.transactions, t) = Append(ts \o p.transactions, t)
      BY <3>2, ParserOf, AppendAfter
    <3> QED BY <3>3, <3>4
  <2> QED BY <2>1, <2>2
<1>5. y.accounts = decls \o x.accounts
  <2>1. CASE p.decl = Nothing
    BY <1>2, <1>3, <2>1 DEF Follows
  <2>2. CASE p.decl # Nothing
    <3>1. x.accounts = Append(p.accounts, p.decl) /\ y.accounts = Append(decls \o p.accounts, p.decl)
      BY <1>2, <1>3, <2>2 DEF Follows
    <3>2. decls \o Append(p.accounts, p.decl) = Append(decls \o p.accounts, p.decl)
      <4>1. PICK d, ds : d = p.decl /\ ds = p.accounts
        OBVIOUS
      <4>2. d \in Declarations /\ ds \in Seq(Declarations)
        BY <2>2, <4>1, ParserOf
      <4>3. PICK S : S = Declarations
        OBVIOUS
      <4>4. decls \in Seq(S) /\ ds \in Seq(S) /\ d \in S
        BY <4>2, <4>3
      <4>5. decls \o Append(ds, d) = Append(decls \o ds, d)
        BY <4>4, AppendAfter
      <4> QED BY <4>1, <4>5
    <3> QED BY <3>1, <3>2
  <2> QED BY <2>1, <2>2
<1>6. Follows(x, y, ts, decls)
  BY <1>2, <1>3, <1>4, <1>5 DEF Follows
<1>7. ASSUME NEW ds, NEW k, Shifted(p, q, ds, k)
      PROVE  Shifted(x, y, ds, k)
  <2>1. CASE p.txn = Nothing \/ p.txn.postings # <<>>
    BY <1>2, <1>3, <1>7, <2>1 DEF Follows, Shifted
  <2>2. CASE ~(p.txn = Nothing \/ p.txn.postings # <<>>)
    <3>1. x.diagnostics = p.diagnostics \cup {p.txn.line} /\ y.diagnostics = q.diagnostics \cup {p.txn.line + k}
      <4>1. p.txn # Nothing /\ p.txn.postings = <<>> /\ q.txn # Nothing /\ q.txn.postings = <<>>
        BY <2>2 DEF Follows
      <4>2. q.txn.line = p.txn.line + k
        BY <1>7, <4>1 DEF Shifted
      <4> QED BY <1>2, <1>3, <4>1, <4>2
    <3>2. Behind(x.diagnostics, k) = Behind(p.diagnostics, k) \cup {p.txn.line + k}
      <4>1. PICK ns, n : ns = p.diagnostics /\ n = p.txn.line
        OBVIOUS
      <4>2. Behind(ns \cup {n}, k) = Behind(ns, k) \cup {n + k}
        BY BehindMore
      <4> QED BY <3>1, <4>1, <4>2
    <3> QED BY <1>2, <1>7, <3>1, <3>2 DEF Shifted
  <2> QED BY <2>1, <2>2
<1> QED BY <1>1, <1>6, <1>7

LEMMA ReadFollows ==
  ASSUME NEW p \in Parsers, NEW q \in Parsers, NEW ts \in Seq(Transactions), NEW decls \in Seq(Declarations),
         Follows(p, q, ts, decls), NEW l \in AllLines, NEW n \in Nat, NEW m \in Nat
  PROVE  /\ Follows(ReadLine(p, l, n), ReadLine(q, l, m), ts, decls)
         /\ \A ds, k : Shifted(p, q, ds, k) /\ m = n + k => Shifted(ReadLine(p, l, n), ReadLine(q, l, m), ds, k)
<1>1. PICK u, v : u = Flush(p) /\ v = Flush(q)
  OBVIOUS
<1>2. u \in Parsers /\ v \in Parsers /\ Follows(u, v, ts, decls) /\ \A ds, k : Shifted(p, q, ds, k) => Shifted(u, v, ds, k)
  BY <1>1, FlushIs, FlushFollows
<1>3. (q.txn = Nothing <=> p.txn = Nothing) /\ q.decl = p.decl
  BY DEF Follows
<1>4. PICK x, y : x = ReadLine(p, l, n) /\ y = ReadLine(q, l, m)
  OBVIOUS
<1>5. CASE l.kind = "blank"
  BY <1>1, <1>2, <1>5, ReadLineIs
<1>6. CASE l.kind \in {"directive", "note"}
  BY <1>6, ReadLineIs
<1>7. CASE l.kind = "account" /\ l.complete
  <2>1. x = OpenDeclaration(u, l) /\ y = OpenDeclaration(v, l)
    BY <1>1, <1>4, <1>7, ReadLineIs
  <2>2. /\ x.decl = [account |-> l.word, opening |-> Nothing, named |-> FALSE]
        /\ x.txn = u.txn /\ x.transactions = u.transactions /\ x.accounts = u.accounts /\ x.diagnostics = u.diagnostics
    BY <1>2, <2>1, OpenDeclarationIs
  <2>3. /\ y.decl = [account |-> l.word, opening |-> Nothing, named |-> FALSE]
        /\ y.txn = v.txn /\ y.transactions = v.transactions /\ y.accounts = v.accounts /\ y.diagnostics = v.diagnostics
    BY <1>2, <2>1, OpenDeclarationIs
  <2>4. Follows(x, y, ts, decls)
    BY <1>2, <2>2, <2>3 DEF Follows
  <2>5. ASSUME NEW ds, NEW k, Shifted(p, q, ds, k) PROVE Shifted(x, y, ds, k)
    BY <1>2, <2>2, <2>3, <2>5 DEF Shifted
  <2> QED BY <1>4, <2>4, <2>5
<1>8. CASE l.kind = "account" /\ ~l.complete
  <2>1. x = Diagnosed(u, n) /\ y = Diagnosed(v, m)
    BY <1>1, <1>4, <1>8, ReadLineIs
  <2> QED BY <1>2, <1>4, <2>1, DiagnosedFollows
<1>9. CASE l.kind = "header"
  <2>1. PICK w, z : w = OpenTransaction(u, l, n) /\ z = OpenTransaction(v, l, m)
    OBVIOUS
  <2>2. /\ w \in Parsers /\ w.txn = [id |-> l.word, line |-> n, postings |-> <<>>] /\ w.decl = u.decl
        /\ w.transactions = u.transactions /\ w.accounts = u.accounts /\ w.diagnostics = u.diagnostics
    BY <1>2, <2>1, OpenTransactionIs
  <2>3. /\ z \in Parsers /\ z.txn = [id |-> l.word, line |-> m, postings |-> <<>>] /\ z.decl = v.decl
        /\ z.transactions = v.transactions /\ z.accounts = v.accounts /\ z.diagnostics = v.diagnostics
    BY <1>2, <2>1, OpenTransactionIs
  <2>4. w.txn # Nothing /\ z.txn # Nothing
    <3>1. w.txn \in OpenTransactions /\ z.txn \in OpenTransactions
      BY <2>2, <2>3, LineTypes, EmptySeq DEF OpenTransactions
    <3> QED BY <3>1, TextAssumption
  <2>5. Follows(w, z, ts, decls)
    BY <1>2, <2>2, <2>3, <2>4 DEF Follows
  <2>6. ASSUME NEW ds, NEW k, Shifted(p, q, ds, k), m = n + k PROVE Shifted(w, z, ds, k)
    BY <1>2, <2>2, <2>3, <2>6 DEF Shifted
  <2>7. CASE l.complete
    <3>1. x = w /\ y = z
      BY <1>1, <1>4, <1>9, <2>1, <2>7, ReadLineIs
    <3> QED BY <1>4, <2>5, <2>6, <3>1
  <2>8. CASE ~l.complete
    <3>1. x = Diagnosed(w, n) /\ y = Diagnosed(z, m)
      BY <1>1, <1>4, <1>9, <2>1, <2>8, ReadLineIs
    <3> QED BY <1>4, <2>2, <2>3, <2>5, <2>6, <3>1, DiagnosedFollows
  <2> QED BY <2>7, <2>8
<1>10. CASE l.kind = "indented" /\ p.txn # Nothing /\ l.complete
  <2>1. x = ReadPosting(p, l, n) /\ y = ReadPosting(q, l, m)
    BY <1>3, <1>4, <1>10, ReadLineIs
  <2>2. /\ x.txn = WithPosting(p.txn, l) /\ x.decl = p.decl
        /\ x.transactions = p.transactions /\ x.accounts = p.accounts /\ x.diagnostics = p.diagnostics
    BY <1>10, <2>1, PostingRead
  <2>3. /\ y.txn = WithPosting(q.txn, l) /\ y.decl = q.decl
        /\ y.transactions = q.transactions /\ y.accounts = q.accounts /\ y.diagnostics = q.diagnostics
    BY <1>3, <1>10, <2>1, PostingRead
  <2>4. p.txn \in OpenTransactions /\ q.txn \in OpenTransactions
    BY <1>3, <1>10, ParserOf
  <2>5. /\ x.txn \in OpenTransactions /\ x.txn.id = p.txn.id /\ x.txn.line = p.txn.line
        /\ x.txn.postings = Append(p.txn.postings, [account |-> l.word, qty |-> l.qty])
    BY <2>2, <2>4, WithPostingIs
  <2>6. /\ y.txn \in OpenTransactions /\ y.txn.id = q.txn.id /\ y.txn.line = q.txn.line
        /\ y.txn.postings = Append(q.txn.postings, [account |-> l.word, qty |-> l.qty])
    BY <2>3, <2>4, WithPostingIs
  <2>7. x.txn # Nothing /\ y.txn # Nothing
    BY <2>5, <2>6, TextAssumption
  <2>8. Follows(x, y, ts, decls)
    BY <1>10, <2>2, <2>3, <2>5, <2>6, <2>7 DEF Follows
  <2>9. ASSUME NEW ds, NEW k, Shifted(p, q, ds, k) PROVE Shifted(x, y, ds, k)
    BY <1>10, <2>2, <2>3, <2>5, <2>6, <2>9 DEF Shifted
  <2> QED BY <1>4, <2>8, <2>9
<1>11. CASE l.kind = "indented" /\ p.txn = Nothing /\ p.decl # Nothing /\ l.complete /\ IsFirst(p.decl, l)
  <2>1. x = ReadEntry(p, l, n) /\ y = ReadEntry(q, l, m)
    BY <1>3, <1>4, <1>11, ReadLineIs
  <2>2. /\ x.decl = WithEntry(p.decl, l) /\ x.txn = p.txn
        /\ x.transactions = p.transactions /\ x.accounts = p.accounts /\ x.diagnostics = p.diagnostics
    BY <1>11, <2>1, EntryRead
  <2>3. /\ y.decl = WithEntry(q.decl, l) /\ y.txn = q.txn
        /\ y.transactions = q.transactions /\ y.accounts = q.accounts /\ y.diagnostics = q.diagnostics
    BY <1>3, <1>11, <2>1, EntryRead
  <2>4. Follows(x, y, ts, decls)
    BY <1>3, <2>2, <2>3 DEF Follows
  <2>5. ASSUME NEW ds, NEW k, Shifted(p, q, ds, k) PROVE Shifted(x, y, ds, k)
    BY <2>2, <2>3, <2>5 DEF Shifted
  <2> QED BY <1>4, <2>4, <2>5
<1>12. CASE \/ l.kind \notin {"blank", "directive", "note", "account", "header", "indented"}
            \/ /\ l.kind = "indented"
               /\ p.txn = Nothing => p.decl = Nothing \/ ~l.complete \/ ~IsFirst(p.decl, l)
               /\ p.txn # Nothing => ~l.complete
  <2>1. x = Diagnosed(p, n)
    BY <1>4, <1>12, ReadLineIs
  <2>2. y = Diagnosed(q, m)
    BY <1>3, <1>4, <1>12, ReadLineIs
  <2> QED BY <1>4, <2>1, <2>2, DiagnosedFollows
<1>13. l.complete \in BOOLEAN
  BY LineTypes
<1> QED BY <1>5, <1>6, <1>7, <1>8, <1>9, <1>10, <1>11, <1>12, <1>13

LEMMA FollowsNothing ==
  ASSUME NEW p \in Parsers, p.txn = Nothing, p.decl = Nothing
  PROVE  Follows(Clean, p, p.transactions, p.accounts) /\ Shifted(Clean, p, p.diagnostics, 0)
<1>1. p.transactions \o <<>> = p.transactions /\ p.accounts \o <<>> = p.accounts
  BY ParserOf, ConcatEmptySeq
<1>2. Behind({}, 0) = {}
  BY DEF Behind
<1> QED BY <1>1, <1>2 DEF Follows, Shifted, Clean

\* After lines that leave nothing open, others are read as by themselves.
LEMMA ReadBehind ==
  ASSUME NEW before \in Seq(AllLines), Read(before).txn = Nothing, Read(before).decl = Nothing,
         NEW lines \in Seq(AllLines)
  PROVE  LET r == Read(before) IN
         /\ Follows(Read(lines), Read(before \o lines), r.transactions, r.accounts)
         /\ Shifted(Read(lines), Read(before \o lines), r.diagnostics, Len(before))
<1>1. PICK r : r = Read(before)
  OBVIOUS
<1>2. PICK k \in Nat : k = Len(before)
  BY LenProperties
<1>3. PICK ts, decls, ds : ts = r.transactions /\ decls = r.accounts /\ ds = r.diagnostics
  OBVIOUS
<1>4. ts \in Seq(Transactions) /\ decls \in Seq(Declarations)
  BY <1>1, <1>3, ReadTyped, ParserOf
<1>5. PICK G : G = {s \in Seq(AllLines) : /\ Follows(Read(s), Read(before \o s), ts, decls)
                                        /\ Shifted(Read(s), Read(before \o s), ds, k)}
  OBVIOUS
<1>6. <<>> \in G
  <2>1. before \o <<>> = before /\ <<>> \in Seq(AllLines)
    BY ConcatEmptySeq, EmptySeq
  <2>2. Follows(Clean, r, ts, decls) /\ Clean.txn = Nothing /\ r.diagnostics = ds \cup Behind({}, k) /\ Clean.diagnostics = {}
    <3>1. Follows(Clean, r, ts, decls)
      BY <1>1, <1>3, ReadTyped, FollowsNothing
    <3>2. Behind({}, k) = {}
      BY DEF Behind
    <3> QED BY <1>3, <3>1, <3>2 DEF Clean
  <2>3. Shifted(Clean, r, ds, k)
    BY <2>2 DEF Shifted
  <2> QED BY <1>1, <1>5, <2>1, <2>2, <2>3, ReadNone
<1>7. ASSUME NEW s \in Seq(AllLines), NEW l \in AllLines, s \in G
      PROVE  Append(s, l) \in G
  <2>1. PICK n \in Nat : n = Len(s)
    BY LenProperties
  <2>2. before \o s \in Seq(AllLines) /\ Len(before \o s) = k + n
    BY <1>2, <2>1, ConcatProperties
  <2>3. Append(s, l) \in Seq(AllLines) /\ before \o Append(s, l) = Append(before \o s, l)
    BY AppendProperties, AppendAfter
  <2>4. PICK p, q : p = Read(s) /\ q = Read(before \o s)
    OBVIOUS
  <2>5. p \in Parsers /\ q \in Parsers /\ Follows(p, q, ts, decls) /\ Shifted(p, q, ds, k)
    BY <1>5, <1>7, <2>2, <2>4, ReadTyped
  <2>6. PICK m \in Nat, o \in Nat : m = n + 1 /\ o = (k + n) + 1
    OBVIOUS
  <2>7. Read(Append(s, l)) = ReadLine(p, l, m) /\ Read(before \o Append(s, l)) = ReadLine(q, l, o)
    BY <2>1, <2>2, <2>3, <2>4, <2>6, ReadMore
  <2>8. o = m + k
    BY <2>6
  <2>9. Follows(ReadLine(p, l, m), ReadLine(q, l, o), ts, decls)
    BY <1>4, <2>5, ReadFollows
  <2>10. Shifted(ReadLine(p, l, m), ReadLine(q, l, o), ds, k)
    BY <1>4, <2>5, <2>8, ReadFollows
  <2> QED BY <1>5, <2>3, <2>7, <2>9, <2>10
<1>8. \A s \in Seq(AllLines) : s \in G
  BY <1>6, <1>7, LineByLine
<1> QED BY <1>1, <1>2, <1>3, <1>5, <1>8

\* A blank line closes what is open.
LEMMA ReadBlank ==
  ASSUME NEW lines \in Seq(AllLines)
  PROVE  Read(Append(lines, BlankLine)) = Flush(Read(lines))
<1>1. BlankLine \in AllLines /\ BlankLine.kind = "blank"
  BY DEF AllLines, BlankLine, Line
<1>2. PICK n \in Nat : n = Len(lines) + 1
  BY LenProperties
<1>3. Read(Append(lines, BlankLine)) = ReadLine(Read(lines), BlankLine, n)
  BY <1>1, <1>2, ReadMore
<1> QED BY <1>1, <1>3 DEF ReadLine

\* Of blank lines nothing is read.
LEMMA ReadBlanks ==
  ASSUME NEW lines \in Seq(AllLines), IsBlank(lines)
  PROVE  Read(lines) = Clean
<1>1. PICK G : G = {s \in Seq(AllLines) : IsBlank(s) => Read(s) = Clean}
  OBVIOUS
<1>2. <<>> \in G
  BY <1>1, ReadNone, EmptySeq
<1>3. ASSUME NEW s \in Seq(AllLines), NEW l \in AllLines, s \in G
      PROVE  Append(s, l) \in G
  <2>1. PICK n \in Nat : n = Len(s)
    BY LenProperties
  <2>2. /\ Append(s, l) \in Seq(AllLines) /\ DOMAIN Append(s, l) = 1 .. n + 1 /\ DOMAIN s = 1 .. n
        /\ Append(s, l)[n + 1] = l /\ \A i \in 1 .. n : Append(s, l)[i] = s[i]
    BY <2>1, AppendProperties, LenProperties
  <2>3. ASSUME IsBlank(Append(s, l)) PROVE Read(Append(s, l)) = Clean
    <3>1. IsBlank(s) /\ l.kind = "blank"
      BY <2>2, <2>3 DEF IsBlank
    <3>2. Read(s) = Clean
      BY <1>1, <1>3, <3>1
    <3>3. PICK m \in Nat : m = n + 1
      OBVIOUS
    <3>4. Read(Append(s, l)) = ReadLine(Clean, l, m)
      BY <2>1, <3>2, <3>3, ReadMore
    <3>5. ReadLine(Clean, l, m) = Flush(Clean)
      BY <3>1 DEF ReadLine
    <3>6. Flush(Clean) = Clean
      BY DEF Flush, flush_transaction, Clean
    <3> QED BY <3>4, <3>5, <3>6
  <2> QED BY <1>1, <2>2, <2>3
<1>4. \A s \in Seq(AllLines) : s \in G
  BY <1>2, <1>3, LineByLine
<1> QED BY <1>1, <1>4

\* Diagnostics are of lines read, and so is the line of an open transaction.
Within(p, n) == p.diagnostics \subseteq 1 .. n /\ (p.txn # Nothing => p.txn.line \in 1 .. n)

LEMMA FlushWithin ==
  ASSUME NEW p \in Parsers, NEW n \in Nat, Within(p, n)
  PROVE  Within(Flush(p), n)
BY FlushComesTo DEF Within

LEMMA LineWithin ==
  ASSUME NEW p \in Parsers, NEW l \in AllLines, NEW n \in Nat, NEW m \in Nat, m = n + 1, Within(p, n)
  PROVE  Within(ReadLine(p, l, m), m)
<1>1. PICK u : u = Flush(p)
  OBVIOUS
<1>2. u \in Parsers /\ u.txn = Nothing /\ u.diagnostics \subseteq 1 .. n /\ p.diagnostics \subseteq 1 .. n
  BY <1>1, FlushComesTo, FlushWithin DEF Within
<1>3. \A i \in 1 .. n : i \in 1 .. m
  OBVIOUS
<1>4. Within(p, m) /\ Within(u, m) /\ m \in 1 .. m
  <2>1. u.diagnostics \subseteq 1 .. m /\ p.diagnostics \subseteq 1 .. m
    BY <1>2, <1>3
  <2>2. p.txn # Nothing => p.txn.line \in 1 .. m
    BY <1>3 DEF Within
  <2>3. m \in 1 .. m
    OBVIOUS
  <2> QED BY <1>2, <2>1, <2>2, <2>3 DEF Within
<1>5. ASSUME NEW q \in Parsers, Within(q, m) PROVE Within(Diagnosed(q, m), m)
  <2>1. PICK r : r = Diagnosed(q, m)
    OBVIOUS
  <2>2. r.txn = q.txn /\ r.diagnostics = q.diagnostics \cup {m}
    BY <2>1, DiagnosedIs
  <2>3. r.diagnostics \subseteq 1 .. m /\ (r.txn # Nothing => r.txn.line \in 1 .. m)
    BY <1>4, <1>5, <2>2 DEF Within
  <2> QED BY <2>1, <2>3 DEF Within
<1>6. PICK w : w = OpenTransaction(u, l, m)
  OBVIOUS
<1>7. w \in Parsers /\ w.txn = [id |-> l.word, line |-> m, postings |-> <<>>] /\ w.diagnostics = u.diagnostics
  BY <1>2, <1>6, OpenTransactionIs
<1>8. Within(w, m)
  BY <1>4, <1>7 DEF Within
<1>9. Within(OpenDeclaration(u, l), m)
  BY <1>2, <1>4, OpenDeclarationIs DEF Within
<1>10. p.txn # Nothing /\ l.complete => Within(ReadPosting(p, l, m), m)
  <2> SUFFICES ASSUME p.txn # Nothing, l.complete PROVE Within(ReadPosting(p, l, m), m)
    OBVIOUS
  <2>1. PICK r : r = ReadPosting(p, l, m)
    OBVIOUS
  <2>2. r.txn = WithPosting(p.txn, l) /\ r.diagnostics = p.diagnostics
    BY <2>1, PostingRead
  <2>3. r.txn.line = p.txn.line
    BY <2>2, ParserOf, WithPostingIs
  <2> QED BY <1>4, <2>1, <2>2, <2>3 DEF Within
<1>11. p.decl # Nothing /\ l.complete /\ IsFirst(p.decl, l) => Within(ReadEntry(p, l, m), m)
  BY <1>4, EntryRead DEF Within
<1> QED BY <1>1, <1>2, <1>4, <1>5, <1>6, <1>7, <1>8, <1>9, <1>10, <1>11, ReadLineIs

LEMMA ReadWithin ==
  ASSUME NEW lines \in Seq(AllLines)
  PROVE  Within(Read(lines), Len(lines))
<1>1. PICK G : G = {s \in Seq(AllLines) : Within(Read(s), Len(s))}
  OBVIOUS
<1>2. <<>> \in G
  <2>1. Within(Clean, 0)
    BY DEF Within, Clean
  <2> QED BY <1>1, <2>1, ReadNone, EmptySeq
<1>3. ASSUME NEW s \in Seq(AllLines), NEW l \in AllLines, s \in G
      PROVE  Append(s, l) \in G
  <2>1. PICK n \in Nat, m \in Nat : n = Len(s) /\ m = n + 1
    BY LenProperties
  <2>2. Append(s, l) \in Seq(AllLines) /\ Len(Append(s, l)) = m
    BY <2>1, AppendProperties
  <2>3. Read(Append(s, l)) = ReadLine(Read(s), l, m)
    BY <2>1, ReadMore
  <2>4. Within(ReadLine(Read(s), l, m), m)
    BY <1>1, <1>3, <2>1, ReadTyped, LineWithin
  <2> QED BY <1>1, <2>2, <2>3, <2>4
<1>4. \A s \in Seq(AllLines) : s \in G
  BY <1>2, <1>3, LineByLine
<1> QED BY <1>1, <1>4

-----------------------------------------------------------------------------
(* The files as one text.                                                  *)

Ranges == [file : Nat, start : Nat, end : Nat]
LedgerTexts == [lines : Seq(AllLines), ranges : Seq(Ranges)]

\* What a file comes to by itself.
LEMMA FileIs ==
  ASSUME NEW lines \in Seq(AllLines)
  PROVE  LET of == parse_transactions(lines)
             r == Flush(Read(lines))
         IN of.transactions = r.transactions /\ of.accounts = r.accounts /\ of.diagnostics = r.diagnostics
BY DEF parse_transactions

LEMMA RangesMore ==
  ASSUME NEW ranges \in Seq(Ranges), NEW x \in Ranges, NEW n
  PROVE  resolve_file_for_line(Append(ranges, x), n)
           = resolve_file_for_line(ranges, n) \cup IF x.start <= n /\ n <= x.end THEN {<<x.file, n - x.start + 1>>} ELSE {}
<1>0. PICK k \in Nat : k = Len(ranges)
  BY LenProperties
<1>1. PICK more : k = Len(ranges) /\ more = Append(ranges, x)
  BY <1>0
<1>2. /\ DOMAIN ranges = 1 .. k /\ DOMAIN more = 1 .. k + 1
      /\ more[k + 1] = x /\ \A i \in 1 .. k : more[i] = ranges[i]
  BY <1>1, AppendProperties, LenProperties
<1>3. \A i : i \in 1 .. k + 1 <=> i \in 1 .. k \/ i = k + 1
  BY <1>1
<1>4. ASSUME NEW y
      PROVE  y \in resolve_file_for_line(more, n)
               <=> y \in resolve_file_for_line(ranges, n) \/ (x.start <= n /\ n <= x.end /\ y = <<x.file, n - x.start + 1>>)
  <2>1. y \in resolve_file_for_line(more, n)
          <=> \E i \in 1 .. k + 1 : more[i].start <= n /\ n <= more[i].end /\ y = <<more[i].file, n - more[i].start + 1>>
    BY <1>2 DEF resolve_file_for_line
  <2>2. y \in resolve_file_for_line(ranges, n)
          <=> \E i \in 1 .. k : ranges[i].start <= n /\ n <= ranges[i].end /\ y = <<ranges[i].file, n - ranges[i].start + 1>>
    BY <1>2 DEF resolve_file_for_line
  <2> QED BY <1>2, <1>3, <2>1, <2>2
<1> QED BY <1>1, <1>4

\* The lines of a file more, behind those of the others.
IsBehind(x, ranges, f, k, len, old, new) ==
  /\ ranges \in Seq(Ranges) /\ x \in Ranges /\ f \in Nat /\ k \in Nat /\ len \in Nat
  /\ x.file = f /\ x.start = k + 1 /\ x.end = k + len
  /\ \A i \in DOMAIN ranges : ranges[i].end <= k
  /\ old \in SUBSET (1 .. k) /\ new \in SUBSET (1 .. len)

LEMMA LocatedMore ==
  ASSUME NEW x, NEW ranges, NEW f, NEW k, NEW len, NEW old, NEW new, IsBehind(x, ranges, f, k, len, old, new)
  PROVE  Located(old \cup Behind(new, k), Append(ranges, x)) = Located(old, ranges) \cup {<<f, n>> : n \in new}
<1> USE DEF IsBehind
<1>3. PICK more : more = Append(ranges, x)
  OBVIOUS
<1>4. ASSUME NEW n \in old
      PROVE  resolve_file_for_line(more, n) = resolve_file_for_line(ranges, n)
  <2>1. n \in 1 .. k
    OBVIOUS
  <2>2. n \in Int /\ ~(x.start <= n)
    BY <2>1
  <2>3. resolve_file_for_line(more, n)
          = resolve_file_for_line(ranges, n) \cup IF x.start <= n /\ n <= x.end THEN {<<x.file, n - x.start + 1>>} ELSE {}
    BY <1>3, RangesMore
  <2> QED BY <2>3, <2>2
<1>5. ASSUME NEW n \in new
      PROVE  resolve_file_for_line(more, n + k) = {<<f, n>>}
  <2>1. n \in 1 .. len
    OBVIOUS
  <2>2. x.start <= n + k /\ n + k <= x.end /\ (n + k) - x.start + 1 = n
    BY <2>1
  <2>3. resolve_file_for_line(ranges, n + k) = {}
    <3>1. \A i \in DOMAIN ranges : ~(n + k <= ranges[i].end)
      <4> SUFFICES ASSUME NEW i \in DOMAIN ranges PROVE ~(n + k <= ranges[i].end)
        OBVIOUS
      <4>1. ranges[i].end \in Nat
        <5>1. ranges[i] \in Ranges
          BY LenProperties, ElementOfSeq
        <5> QED BY <5>1 DEF Ranges
      <4>2. PICK e \in Nat : e = ranges[i].end
        BY <4>1
      <4>3. e <= k
        BY <4>2
      <4> QED BY <2>1, <4>2, <4>3
    <3> QED BY <3>1 DEF resolve_file_for_line
  <2> QED BY <1>3, <2>2, <2>3, RangesMore
<1>6. ASSUME NEW y
      PROVE  y \in Located(old \cup Behind(new, k), more)
               <=> y \in Located(old, ranges) \/ \E n \in new : y = <<f, n>>
  <2>1. y \in Located(old \cup Behind(new, k), more)
          <=> \/ \E n \in old : y \in resolve_file_for_line(more, n)
              \/ \E n \in Behind(new, k) : y \in resolve_file_for_line(more, n)
    BY DEF Located
  <2>2. (\E n \in old : y \in resolve_file_for_line(more, n)) <=> y \in Located(old, ranges)
    BY <1>4 DEF Located
  <2>3. (\E n \in Behind(new, k) : y \in resolve_file_for_line(more, n)) <=> \E n \in new : y = <<f, n>>
    BY <1>5 DEF Behind
  <2> QED BY <2>1, <2>2, <2>3
<1> QED BY <1>3, <1>6

\* Read so far: the transactions ts and accounts decls, nothing open, and each diagnostic
\* of a line of the first i files.
FileDiagnostics(f) == {<<f, n>> : n \in parse_transactions(text[f]).diagnostics}
LoadedOK(ledger, ts, decls, i) ==
  LET r == Read(ledger.lines) IN
  /\ ledger \in LedgerTexts
  /\ r.txn = Nothing /\ r.decl = Nothing /\ r.transactions = ts /\ r.accounts = decls
  /\ \A k \in DOMAIN ledger.ranges : ledger.ranges[k].end <= Len(ledger.lines)
  /\ Located(r.diagnostics, ledger.ranges) = UNION {FileDiagnostics(f) : f \in 1 .. i}

LEMMA LoadMore ==
  ASSUME TextTypeOK, NEW i \in Nat, NEW f \in LedgerFiles, f = i + 1,
         NEW ledger, NEW ts, NEW decls, LoadedOK(ledger, ts, decls, i)
  PROVE  LET of == parse_transactions(text[f])
         IN LoadedOK(append_file_to_text(ledger, f), ts \o of.transactions, decls \o of.accounts, f)
<1>1. PICK lines \in Seq(AllLines) : lines = text[f]
  BY DEF TextTypeOK
<1>2. PICK r, of, own : r = Read(ledger.lines) /\ of = parse_transactions(lines) /\ own = Flush(Read(lines))
  OBVIOUS
<1>3. of.transactions = own.transactions /\ of.accounts = own.accounts /\ of.diagnostics = own.diagnostics
  BY <1>2, FileIs
<1>4. /\ ledger \in LedgerTexts /\ ledger.lines \in Seq(AllLines) /\ ledger.ranges \in Seq(Ranges)
      /\ r.txn = Nothing /\ r.decl = Nothing /\ r.transactions = ts /\ r.accounts = decls
      /\ \A k \in DOMAIN ledger.ranges : ledger.ranges[k].end <= Len(ledger.lines)
      /\ Located(r.diagnostics, ledger.ranges) = UNION {FileDiagnostics(g) : g \in 1 .. i}
  BY <1>2 DEF LoadedOK, LedgerTexts
<1>5. r \in Parsers /\ ts \in Seq(Transactions) /\ decls \in Seq(Declarations)
  BY <1>2, <1>4, ReadTyped, ParserOf
<1>6. UNION {FileDiagnostics(g) : g \in 1 .. f} = (UNION {FileDiagnostics(g) : g \in 1 .. i}) \cup FileDiagnostics(f)
  <2>1. \A g : g \in 1 .. f <=> g \in 1 .. i \/ g = f
    OBVIOUS
  <2>2. ASSUME NEW y
        PROVE  y \in UNION {FileDiagnostics(g) : g \in 1 .. f}
                 <=> y \in (UNION {FileDiagnostics(g) : g \in 1 .. i}) \cup FileDiagnostics(f)
    <3>1. y \in UNION {FileDiagnostics(g) : g \in 1 .. f} <=> \E g \in 1 .. f : y \in FileDiagnostics(g)
      OBVIOUS
    <3>2. y \in UNION {FileDiagnostics(g) : g \in 1 .. i} <=> \E g \in 1 .. i : y \in FileDiagnostics(g)
      OBVIOUS
    <3>3. ASSUME NEW g \in 1 .. f, y \in FileDiagnostics(g)
          PROVE  y \in UNION {FileDiagnostics(h) : h \in 1 .. i} \/ y \in FileDiagnostics(f)
      <4>1. g \in 1 .. i \/ g = f
        BY <2>1
      <4> QED BY <3>2, <3>3, <4>1
    <3>4. ASSUME NEW g \in 1 .. i, y \in FileDiagnostics(g)
          PROVE  y \in UNION {FileDiagnostics(h) : h \in 1 .. f}
      <4>1. g \in 1 .. f
        BY <2>1
      <4> QED BY <3>1, <3>4, <4>1
    <3>5. y \in FileDiagnostics(f) => y \in UNION {FileDiagnostics(h) : h \in 1 .. f}
      <4>1. f \in 1 .. f
        BY <2>1
      <4> QED BY <3>1, <4>1
    <3> QED BY <3>1, <3>2, <3>3, <3>4, <3>5
  <2> QED BY <2>2
<1>7. FileDiagnostics(f) = {<<f, n>> : n \in of.diagnostics}
  BY <1>1, <1>2 DEF FileDiagnostics
<1>8. CASE IsBlank(lines)
  <2>1. own = Clean
    <3>1. Flush(Clean) = Clean
      BY DEF Flush, flush_transaction, Clean
    <3> QED BY <1>2, <1>8, <3>1, ReadBlanks
  <2>2. of.transactions = <<>> /\ of.accounts = <<>> /\ of.diagnostics = {}
    BY <1>3, <2>1 DEF Clean
  <2>3. ts \o of.transactions = ts /\ decls \o of.accounts = decls
    BY <1>5, <2>2, ConcatEmptySeq
  <2>4. append_file_to_text(ledger, f) = ledger
    BY <1>1, <1>8 DEF append_file_to_text
  <2>5. UNION {FileDiagnostics(g) : g \in 1 .. f} = UNION {FileDiagnostics(g) : g \in 1 .. i}
    BY <1>6, <1>7, <2>2
  <2>6. LoadedOK(ledger, ts, decls, f)
    BY <1>2, <1>4, <2>5 DEF LoadedOK
  <2> QED BY <1>1, <1>2, <2>3, <2>4, <2>6
<1>9. CASE ~IsBlank(lines)
  <2>1. PICK k \in Nat, len \in Nat : k = Len(ledger.lines) /\ len = Len(lines)
    BY <1>4, LenProperties
  <2>2. PICK joint : joint = ledger.lines \o lines
    OBVIOUS
  <2>3. joint \in Seq(AllLines) /\ Len(joint) = k + len
    BY <1>4, <2>1, <2>2, ConcatProperties
  <2>4. PICK all : all = Append(joint, BlankLine)
    OBVIOUS
  <2>5. all = joint \o <<BlankLine>> /\ all \in Seq(AllLines) /\ Len(all) = k + len + 1
    <3>1. BlankLine \in AllLines
      BY DEF AllLines
    <3> QED BY <2>3, <2>4, <3>1, AppendProperties, AppendIsConcat
  <2>6. PICK x : x = [file |-> f, start |-> k + 1, end |-> k + len]
    OBVIOUS
  <2>7. x \in Ranges
    BY <2>6 DEF Ranges
  <2>8. PICK after : after = append_file_to_text(ledger, f)
    OBVIOUS
  <2>9. after = [lines |-> all, ranges |-> Append(ledger.ranges, x)]
    BY <1>1, <1>9, <2>1, <2>2, <2>5, <2>6, <2>8 DEF append_file_to_text
  <2>10. after \in LedgerTexts /\ after.lines = all /\ after.ranges = Append(ledger.ranges, x)
    <3>1. Append(ledger.ranges, x) \in Seq(Ranges)
      BY <1>4, <2>7, AppendProperties
    <3> QED BY <2>5, <2>9, <3>1 DEF LedgerTexts
  <2>11. PICK q : q = Flush(Read(joint))
    OBVIOUS
  <2>12. Read(all) = q
    BY <2>3, <2>4, <2>11, ReadBlank
  <2>13. Read(lines) \in Parsers /\ Read(joint) \in Parsers
    BY <2>3, ReadTyped
  <2>14. /\ Follows(Read(lines), Read(joint), ts, decls)
         /\ Shifted(Read(lines), Read(joint), r.diagnostics, k)
    BY <1>2, <1>4, <2>1, <2>2, ReadBehind
  <2>15. Follows(own, q, ts, decls) /\ Shifted(own, q, r.diagnostics, k)
    BY <1>2, <1>5, <2>11, <2>13, <2>14, FlushFollows
  <2>16. q.txn = Nothing /\ q.decl = Nothing
    BY <2>11, <2>13, FlushComesTo
  <2>17. q.transactions = ts \o of.transactions /\ q.accounts = decls \o of.accounts
    BY <1>3, <2>15 DEF Follows
  <2>18. q.diagnostics = r.diagnostics \cup Behind(of.diagnostics, k)
    BY <1>3, <2>15 DEF Shifted
  <2>19. \A n \in DOMAIN after.ranges : after.ranges[n].end <= Len(all)
    <3>1. PICK c \in Nat : c = Len(ledger.ranges)
      BY <1>4, LenProperties
    <3>2. /\ DOMAIN after.ranges = 1 .. c + 1 /\ DOMAIN ledger.ranges = 1 .. c
          /\ after.ranges[c + 1] = x /\ \A n \in 1 .. c : after.ranges[n] = ledger.ranges[n]
      BY <1>4, <2>7, <2>10, <3>1, AppendProperties, LenProperties
    <3>3. x.end <= k + len + 1
      BY <2>6
    <3>4. ASSUME NEW n \in 1 .. c PROVE ledger.ranges[n].end <= k + len + 1
      <4>1. ledger.ranges[n] \in Ranges
        BY <1>4, <3>1, ElementOfSeq
      <4>2. PICK e \in Nat : e = ledger.ranges[n].end
        BY <4>1 DEF Ranges
      <4>3. e <= k
        BY <1>4, <2>1, <3>2, <4>2
      <4> QED BY <4>2, <4>3
    <3>5. \A n \in 1 .. c + 1 : after.ranges[n].end <= k + len + 1
      <4>1. ASSUME NEW n \in 1 .. c + 1
            PROVE  after.ranges[n].end <= k + len + 1
        <5>1. CASE n = c + 1
          BY <3>2, <3>3, <5>1
        <5>2. CASE n # c + 1
          <6>1. n \in 1 .. c
            BY <5>2
          <6> QED BY <3>2, <3>4, <6>1
        <5> QED BY <5>1, <5>2
      <4> QED BY <4>1
    <3> QED BY <2>5, <3>2, <3>5
  <2>20. r.diagnostics \in SUBSET (1 .. k)
    BY <1>2, <1>4, <2>1, ReadWithin DEF Within
  <2>21. of.diagnostics \in SUBSET (1 .. len)
    <3>1. Within(Read(lines), len)
      BY <2>1, ReadWithin
    <3>2. Within(own, len)
      BY <1>2, <2>13, <3>1, FlushWithin
    <3> QED BY <1>3, <3>2 DEF Within
  <2>22. Located(q.diagnostics, after.ranges) = Located(r.diagnostics, ledger.ranges) \cup {<<f, n>> : n \in of.diagnostics}
    <3>1. f \in Nat
      BY DEF LedgerFiles
    <3>2. \A n \in DOMAIN ledger.ranges : ledger.ranges[n].end <= k
      BY <1>4, <2>1
    <3>3. PICK ranges, old, new : ranges = ledger.ranges /\ old = r.diagnostics /\ new = of.diagnostics
      OBVIOUS
    <3>4. ranges \in Seq(Ranges) /\ old \in SUBSET (1 .. k) /\ new \in SUBSET (1 .. len)
          /\ \A n \in DOMAIN ranges : ranges[n].end <= k
      BY <1>4, <2>20, <2>21, <3>2, <3>3
    <3>5. Located(old \cup Behind(new, k), Append(ranges, x)) = Located(old, ranges) \cup {<<f, n>> : n \in new}
      <4>1. x \in Ranges /\ x.file = f /\ x.start = k + 1 /\ x.end = k + len
        BY <2>6, <2>7
      <4>2. IsBehind(x, ranges, f, k, len, old, new)
        BY <3>1, <3>4, <4>1 DEF IsBehind
      <4> QED BY <4>2, LocatedMore
    <3> QED BY <2>10, <2>18, <3>3, <3>5
  <2>23. Located(q.diagnostics, after.ranges) = UNION {FileDiagnostics(g) : g \in 1 .. f}
    BY <1>4, <1>6, <1>7, <2>22
  <2>24. LoadedOK(after, ts \o of.transactions, decls \o of.accounts, f)
    BY <2>10, <2>12, <2>16, <2>17, <2>19, <2>23 DEF LoadedOK
  <2> QED BY <1>1, <1>2, <2>8, <2>24
<1> QED BY <1>8, <1>9

LEMMA AppendFileTyped ==
  ASSUME TextTypeOK, NEW f \in LedgerFiles, NEW ledger \in LedgerTexts
  PROVE  append_file_to_text(ledger, f) \in LedgerTexts
<1>1. PICK lines \in Seq(AllLines) : lines = text[f]
  BY DEF TextTypeOK
<1>2. ledger.lines \in Seq(AllLines) /\ ledger.ranges \in Seq(Ranges)
  BY DEF LedgerTexts
<1>3. CASE IsBlank(lines)
  BY <1>1, <1>3 DEF append_file_to_text
<1>4. CASE ~IsBlank(lines)
  <2>1. PICK k \in Nat, len \in Nat : k = Len(ledger.lines) /\ len = Len(lines)
    BY <1>2, LenProperties
  <2>2. PICK x : x = [file |-> f, start |-> k + 1, end |-> k + len]
    OBVIOUS
  <2>3. x \in Ranges
    BY <2>2 DEF Ranges, LedgerFiles
  <2>4. PICK all : all = ledger.lines \o lines \o <<BlankLine>>
    OBVIOUS
  <2>5. all \in Seq(AllLines)
    <3>1. <<BlankLine>> \in Seq(AllLines)
      <4>1. <<BlankLine>> = Append(<<>>, BlankLine) /\ BlankLine \in AllLines
        BY DEF AllLines
      <4> QED BY <4>1, EmptySeq, AppendProperties
    <3> QED BY <1>2, <2>4, <3>1, ConcatProperties
  <2>6. PICK ranges : ranges = Append(ledger.ranges, x)
    OBVIOUS
  <2>7. ranges \in Seq(Ranges)
    BY <1>2, <2>3, <2>6, AppendProperties
  <2>8. append_file_to_text(ledger, f) = [lines |-> all, ranges |-> ranges]
    BY <1>1, <1>4, <2>1, <2>2, <2>4, <2>6 DEF append_file_to_text
  <2> QED BY <2>5, <2>7, <2>8 DEF LedgerTexts
<1> QED BY <1>3, <1>4

LEMMA LoadedIs ==
  ASSUME TextTypeOK
  PROVE  \E at \in [0 .. LedgerFileCount -> LedgerTexts] :
            /\ at[0] = [lines |-> <<>>, ranges |-> <<>>] /\ load_ledger_text = at[LedgerFileCount]
            /\ \A i \in 1 .. LedgerFileCount : at[i] = append_file_to_text(at[i - 1], i)
<1>1. PICK N \in Nat : N = LedgerFileCount
  BY TextAssumption
<1>2. PICK b : b = [lines |-> <<>>, ranges |-> <<>>]
  OBVIOUS
<1>3. b \in LedgerTexts
  BY <1>2, EmptySeq DEF LedgerTexts
<1>4. \A ledger \in LedgerTexts, i \in 1 .. N : append_file_to_text(ledger, i) \in LedgerTexts
  BY <1>1, AppendFileTyped DEF LedgerFiles
<1>5. PICK step : step = [x \in LedgerTexts \X (1 .. N) |-> append_file_to_text(x[1], x[2])]
  OBVIOUS
<1>6. ASSUME NEW x \in LedgerTexts \X (1 .. N)
      PROVE  step[x] \in LedgerTexts
  BY <1>4, <1>5
<1>7. PICK f \in [0 .. N -> LedgerTexts] : f[0] = b /\ \A i \in 1 .. N : f[i] = step[<<f[i - 1], i>>]
  <2>1. Courses(LedgerTexts, b, N, step) # {}
    BY <1>3, <1>6, Iterates
  <2> QED BY <2>1 DEF Courses
<1>8. f = [i \in 0 .. N |-> IF i = 0 THEN b ELSE append_file_to_text(f[i - 1], i)]
  <2>1. ASSUME NEW i \in 0 .. N
        PROVE  f[i] = IF i = 0 THEN b ELSE append_file_to_text(f[i - 1], i)
    <3>1. CASE i = 0
      BY <1>7, <3>1
    <3>2. CASE i # 0
      <4>1. f[i - 1] \in LedgerTexts /\ i \in 1 .. N
        BY <3>2
      <4>2. step[<<f[i - 1], i>>] = append_file_to_text(f[i - 1], i)
        BY <1>5, <4>1
      <4> QED BY <1>7, <3>2, <4>1, <4>2
    <3> QED BY <3>1, <3>2
  <2>2. f = [i \in 0 .. N |-> f[i]]
    OBVIOUS
  <2> QED BY <2>1, <2>2
<1>9. PICK at : at = CHOOSE g : g = [i \in 0 .. N |-> IF i = 0 THEN b ELSE append_file_to_text(g[i - 1], i)]
  OBVIOUS
<1>10. at = [i \in 0 .. N |-> IF i = 0 THEN b ELSE append_file_to_text(at[i - 1], i)]
  BY <1>8, <1>9
<1>11. load_ledger_text = at[N]
  BY <1>1, <1>2, <1>9 DEF load_ledger_text, After
<1>12. at[0] = b /\ \A i \in 1 .. N : at[i] = append_file_to_text(at[i - 1], i)
  BY <1>10
<1>13. \A i \in 0 .. N : at[i] \in LedgerTexts
  <2>1. PICK T : T = {i \in 0 .. N : at[i] \in LedgerTexts}
    OBVIOUS
  <2>2. 0 \in T
    BY <1>3, <1>12, <2>1
  <2>3. ASSUME NEW i \in 0 .. N - 1, i \in T
        PROVE  i + 1 \in T
    <3>1. i + 1 \in 1 .. N /\ (i + 1) - 1 = i
      OBVIOUS
    <3>2. at[i + 1] = append_file_to_text(at[i], i + 1)
      BY <1>12, <3>1
    <3> QED BY <1>4, <2>1, <2>3, <3>1, <3>2
  <2>4. \A i \in 0 .. N : i \in T
    BY <2>2, <2>3, StepByStep
  <2> QED BY <2>1, <2>4
<1>14. at \in [0 .. N -> LedgerTexts]
  BY <1>10, <1>13
<1> QED BY <1>1, <1>2, <1>11, <1>12, <1>14

LEMMA JoinedIs ==
  ASSUME NEW X, NEW parts \in [LedgerFiles -> Seq(X)]
  PROVE  \E at \in [0 .. LedgerFileCount -> Seq(X)] :
            /\ at[0] = <<>> /\ Joined(parts) = at[LedgerFileCount]
            /\ \A i \in 1 .. LedgerFileCount : at[i] = at[i - 1] \o parts[i]
<1>1. PICK N \in Nat : N = LedgerFileCount
  BY TextAssumption
<1>2. PICK S : S = Seq(X)
  OBVIOUS
<1>3. <<>> \in S
  BY <1>2, EmptySeq
<1>4. \A out \in S, i \in 1 .. N : out \o parts[i] \in S
  <2>1. \A i \in 1 .. N : parts[i] \in Seq(X)
    BY <1>1 DEF LedgerFiles
  <2> QED BY <1>2, <2>1, ConcatProperties
<1>5. PICK step : step = [x \in S \X (1 .. N) |-> x[1] \o parts[x[2]]]
  OBVIOUS
<1>6. ASSUME NEW x \in S \X (1 .. N)
      PROVE  step[x] \in S
  BY <1>4, <1>5
<1>7. PICK f \in [0 .. N -> S] : f[0] = <<>> /\ \A i \in 1 .. N : f[i] = step[<<f[i - 1], i>>]
  <2>1. Courses(S, <<>>, N, step) # {}
    BY <1>3, <1>6, Iterates
  <2> QED BY <2>1 DEF Courses
<1>8. f = [i \in 0 .. N |-> IF i = 0 THEN <<>> ELSE f[i - 1] \o parts[i]]
  <2>1. ASSUME NEW i \in 0 .. N
        PROVE  f[i] = IF i = 0 THEN <<>> ELSE f[i - 1] \o parts[i]
    <3>1. CASE i = 0
      BY <1>7, <3>1
    <3>2. CASE i # 0
      <4>1. f[i - 1] \in S /\ i \in 1 .. N
        BY <3>2
      <4>2. step[<<f[i - 1], i>>] = f[i - 1] \o parts[i]
        <5>1. PICK out : out = f[i - 1]
          OBVIOUS
        <5>2. <<out, i>> \in S \X (1 .. N) /\ <<out, i>>[1] = out /\ <<out, i>>[2] = i
          BY <4>1, <5>1
        <5>3. step[<<out, i>>] = out \o parts[i]
          BY <1>5, <5>2
        <5> QED BY <5>1, <5>3
      <4> QED BY <1>7, <3>2, <4>1, <4>2
    <3> QED BY <3>1, <3>2
  <2>2. f = [i \in 0 .. N |-> f[i]]
    OBVIOUS
  <2> QED BY <2>1, <2>2
<1>9. PICK at : at = CHOOSE g : g = [i \in 0 .. N |-> IF i = 0 THEN <<>> ELSE g[i - 1] \o parts[i]]
  OBVIOUS
<1>10. at = [i \in 0 .. N |-> IF i = 0 THEN <<>> ELSE at[i - 1] \o parts[i]]
  BY <1>8, <1>9
<1>11. Joined(parts) = at[N]
  BY <1>1, <1>9 DEF Joined, After
<1>12. at[0] = <<>> /\ \A i \in 1 .. N : at[i] = at[i - 1] \o parts[i]
  <2>1. at[0] = <<>>
    BY <1>10
  <2>2. ASSUME NEW i \in 1 .. N
        PROVE  at[i] = at[i - 1] \o parts[i]
    <3>1. i \in 0 .. N /\ i # 0
      OBVIOUS
    <3>2. at[i] = IF i = 0 THEN <<>> ELSE at[i - 1] \o parts[i]
      BY <1>10, <3>1, Zenon
    <3> QED BY <3>1, <3>2, Zenon
  <2> QED BY <2>1, <2>2
<1>13. \A i \in 0 .. N : at[i] \in S
  <2>1. PICK T : T = {i \in 0 .. N : at[i] \in S}
    OBVIOUS
  <2>2. 0 \in T
    BY <1>3, <1>12, <2>1
  <2>3. ASSUME NEW i \in 0 .. N - 1, i \in T
        PROVE  i + 1 \in T
    <3>1. i + 1 \in 1 .. N /\ (i + 1) - 1 = i
      OBVIOUS
    <3>2. at[i + 1] = at[i] \o parts[i + 1]
      BY <1>12, <3>1
    <3>3. at[i] \in S
      BY <2>1, <2>3
    <3>4. at[i] \o parts[i + 1] \in S
      BY <1>4, <3>1, <3>3
    <3>5. at[i + 1] \in S
      BY <3>2, <3>4
    <3>6. i + 1 \in 0 .. N
      BY <3>1
    <3> QED BY <2>1, <3>5, <3>6
  <2>4. \A i \in 0 .. N : i \in T
    BY <2>2, <2>3, StepByStep
  <2> QED BY <2>1, <2>4
<1>14. at \in [0 .. N -> S]
  BY <1>10, <1>13
<1> QED BY <1>1, <1>2, <1>11, <1>12, <1>14

LEMMA FileTyped ==
  ASSUME TextTypeOK, NEW f \in LedgerFiles
  PROVE  parse_transactions(text[f]).transactions \in Seq(Transactions) /\ parse_transactions(text[f]).accounts \in Seq(Declarations)
<1>1. PICK lines \in Seq(AllLines) : lines = text[f]
  BY DEF TextTypeOK
<1>2. Flush(Read(lines)) \in Parsers
  BY ReadTyped, FlushComesTo
<1> QED BY <1>1, <1>2, FileIs, ParserOf

\* The files as one text are read as one by one.
LEMMA MergedReadsFiles ==
  ASSUME TextTypeOK
  PROVE  MergedIsTheFiles
<1>1. PICK N \in Nat : N = LedgerFileCount
  BY TextAssumption
<1>2. PICK tparts, aparts : /\ tparts = [f \in LedgerFiles |-> parse_transactions(text[f]).transactions]
                           /\ aparts = [f \in LedgerFiles |-> parse_transactions(text[f]).accounts]
  OBVIOUS
<1>3. tparts \in [LedgerFiles -> Seq(Transactions)] /\ aparts \in [LedgerFiles -> Seq(Declarations)]
  BY <1>2, FileTyped
<1>4. PICK ts \in [0 .. N -> Seq(Transactions)] : /\ ts[0] = <<>> /\ Joined(tparts) = ts[N]
                                                 /\ \A i \in 1 .. N : ts[i] = ts[i - 1] \o tparts[i]
  BY <1>1, <1>3, JoinedIs
<1>5. PICK ds \in [0 .. N -> Seq(Declarations)] : /\ ds[0] = <<>> /\ Joined(aparts) = ds[N]
                                                 /\ \A i \in 1 .. N : ds[i] = ds[i - 1] \o aparts[i]
  BY <1>1, <1>3, JoinedIs
<1>6. PICK at \in [0 .. N -> LedgerTexts] : /\ at[0] = [lines |-> <<>>, ranges |-> <<>>] /\ load_ledger_text = at[N]
                                           /\ \A i \in 1 .. N : at[i] = append_file_to_text(at[i - 1], i)
  BY <1>1, LoadedIs
<1>7. PICK T : T = {i \in 0 .. N : LoadedOK(at[i], ts[i], ds[i], i)}
  OBVIOUS
<1>8. 0 \in T
  <2>1. at[0] \in LedgerTexts /\ at[0].lines = <<>> /\ at[0].ranges = <<>>
    BY <1>6
  <2>2. Read(at[0].lines) = Clean /\ DOMAIN at[0].ranges = {}
    BY <2>1, ReadNone
  <2>3. Located({}, at[0].ranges) = {}
    BY DEF Located
  <2>4. UNION {FileDiagnostics(f) : f \in 1 .. 0} = {}
    OBVIOUS
  <2>5. PICK r, ledger : r = Read(at[0].lines) /\ ledger = at[0]
    OBVIOUS
  <2>6. r.txn = Nothing /\ r.decl = Nothing /\ r.transactions = <<>> /\ r.accounts = <<>> /\ r.diagnostics = {}
    BY <2>2, <2>5 DEF Clean
  <2>7. \A k \in DOMAIN ledger.ranges : ledger.ranges[k].end <= Len(ledger.lines)
    BY <2>2, <2>5
  <2>8. Located(r.diagnostics, ledger.ranges) = UNION {FileDiagnostics(f) : f \in 1 .. 0}
    BY <2>3, <2>4, <2>5, <2>6
  <2>9. LoadedOK(at[0], <<>>, <<>>, 0)
    BY <2>1, <2>5, <2>6, <2>7, <2>8 DEF LoadedOK
  <2> QED BY <1>4, <1>5, <1>7, <2>9
<1>9. ASSUME NEW i \in 0 .. N - 1, i \in T
      PROVE  i + 1 \in T
  <2>1. PICK f \in 1 .. N : f = i + 1 /\ f - 1 = i
    OBVIOUS
  <2>2. f \in LedgerFiles /\ i \in Nat
    BY <1>1, <2>1 DEF LedgerFiles
  <2>3. PICK of : of = parse_transactions(text[f])
    OBVIOUS
  <2>4. LoadedOK(append_file_to_text(at[i], f), ts[i] \o of.transactions, ds[i] \o of.accounts, f)
    BY <1>7, <1>9, <2>1, <2>2, <2>3, LoadMore
  <2>5. at[f] = append_file_to_text(at[i], f)
    BY <1>6, <2>1
  <2>6. ts[f] = ts[i] \o of.transactions /\ ds[f] = ds[i] \o of.accounts
    BY <1>2, <1>4, <1>5, <2>1, <2>2, <2>3
  <2>7. LoadedOK(at[f], ts[f], ds[f], f) /\ f \in 0 .. N
    BY <2>1, <2>4, <2>5, <2>6
  <2> QED BY <1>7, <2>1, <2>7
<1>10. N \in T
  <2>1. \A i \in 0 .. N : i \in T
    BY <1>8, <1>9, StepByStep
  <2> QED BY <2>1
<1>11. LoadedOK(at[N], ts[N], ds[N], N)
  BY <1>7, <1>10
<1>12. PICK r : r = Read(at[N].lines)
  OBVIOUS
<1>13. /\ at[N].lines \in Seq(AllLines)
       /\ r.txn = Nothing /\ r.decl = Nothing /\ r.transactions = ts[N] /\ r.accounts = ds[N]
       /\ Located(r.diagnostics, at[N].ranges) = UNION {FileDiagnostics(f) : f \in 1 .. N}
  BY <1>11, <1>12 DEF LoadedOK, LedgerTexts
<1>14. Flush(r) = r
  BY <1>13 DEF Flush, flush_transaction
<1>15. PICK merged : merged = load_active_ledger
  OBVIOUS
<1>16. merged.transactions = r.transactions /\ merged.accounts = r.accounts /\ merged.diagnostics = r.diagnostics
  BY <1>6, <1>12, <1>14, <1>15 DEF load_active_ledger, parse_transactions
<1>17. merged.transactions = Joined(tparts) /\ merged.accounts = Joined(aparts)
  BY <1>4, <1>5, <1>13, <1>16
<1>18. Located(merged.diagnostics, load_ledger_text.ranges) = UNION {FileDiagnostics(f) : f \in LedgerFiles}
  BY <1>1, <1>6, <1>13, <1>16 DEF LedgerFiles
<1> QED BY <1>2, <1>15, <1>17, <1>18 DEF MergedIsTheFiles, FileDiagnostics

-----------------------------------------------------------------------------
(* A text with its blank lines in order.                                   *)

LEMMA BlankIs == BlankLine \in AllLines /\ BlankLine.kind = "blank"
BY DEF AllLines, BlankLine, Line

LEMMA WithLineTyped ==
  ASSUME NEW out \in Seq(AllLines), NEW l \in AllLines
  PROVE  WithLine(out, l) \in Seq(AllLines)
<1>1. out \o <<BlankLine, l>> = Append(Append(out, BlankLine), l)
  OBVIOUS
<1>2. Append(Append(out, BlankLine), l) \in Seq(AllLines) /\ Append(out, l) \in Seq(AllLines)
  BY BlankIs, AppendProperties
<1> QED BY <1>1, <1>2 DEF WithLine

LEMMA SpacedIs ==
  ASSUME NEW lines \in Seq(AllLines)
  PROVE  \E at \in [0 .. Len(lines) -> Seq(AllLines)] :
            /\ at[0] = <<>> /\ Spaced(lines) = at[Len(lines)]
            /\ \A i \in 1 .. Len(lines) : at[i] = WithLine(at[i - 1], lines[i])
<1>1. PICK N \in Nat : N = Len(lines)
  BY LenProperties
<1>2. \A i \in 1 .. N : lines[i] \in AllLines
  BY <1>1, ElementOfSeq
<1>3. PICK S : S = Seq(AllLines)
  OBVIOUS
<1>4. <<>> \in S /\ \A out \in S, i \in 1 .. N : WithLine(out, lines[i]) \in S
  BY <1>2, <1>3, EmptySeq, WithLineTyped
<1>5. PICK step : step = [x \in S \X (1 .. N) |-> WithLine(x[1], lines[x[2]])]
  OBVIOUS
<1>6. \A x \in S \X (1 .. N) : step[x] \in S
  BY <1>4, <1>5
<1>7. PICK f \in [0 .. N -> S] : f[0] = <<>> /\ \A i \in 1 .. N : f[i] = step[<<f[i - 1], i>>]
  <2>1. Courses(S, <<>>, N, step) # {}
    BY <1>4, <1>6, Iterates
  <2> QED BY <2>1 DEF Courses
<1>8. f = [i \in 0 .. N |-> IF i = 0 THEN <<>> ELSE WithLine(f[i - 1], lines[i])]
  <2>1. ASSUME NEW i \in 0 .. N
        PROVE  f[i] = IF i = 0 THEN <<>> ELSE WithLine(f[i - 1], lines[i])
    <3>1. CASE i = 0
      BY <1>7, <3>1
    <3>2. CASE i # 0
      <4>1. f[i - 1] \in S /\ i \in 1 .. N
        BY <3>2
      <4>2. step[<<f[i - 1], i>>] = WithLine(f[i - 1], lines[i])
        BY <1>5, <4>1
      <4> QED BY <1>7, <3>2, <4>1, <4>2
    <3> QED BY <3>1, <3>2
  <2>2. f = [i \in 0 .. N |-> f[i]]
    OBVIOUS
  <2> QED BY <2>1, <2>2
<1>9. PICK at : at = CHOOSE g : g = [i \in 0 .. N |-> IF i = 0 THEN <<>> ELSE WithLine(g[i - 1], lines[i])]
  OBVIOUS
<1>10. at = [i \in 0 .. N |-> IF i = 0 THEN <<>> ELSE WithLine(at[i - 1], lines[i])]
  BY <1>8, <1>9
<1>11. Spaced(lines) = at[N]
  BY <1>1, <1>9 DEF Spaced, After
<1>12. at[0] = <<>> /\ \A i \in 1 .. N : at[i] = WithLine(at[i - 1], lines[i])
  BY <1>10
<1>13. \A i \in 0 .. N : at[i] \in S
  <2>1. PICK T : T = {i \in 0 .. N : at[i] \in S}
    OBVIOUS
  <2>2. 0 \in T
    BY <1>4, <1>12, <2>1
  <2>3. ASSUME NEW i \in 0 .. N - 1, i \in T
        PROVE  i + 1 \in T
    <3>1. i + 1 \in 1 .. N /\ (i + 1) - 1 = i /\ i + 1 \in 0 .. N
      OBVIOUS
    <3>2. at[i + 1] = WithLine(at[i], lines[i + 1])
      BY <1>12, <3>1
    <3>3. at[i] \in S
      BY <2>1, <2>3
    <3>4. at[i + 1] \in S
      BY <1>4, <3>1, <3>2, <3>3
    <3> QED BY <2>1, <3>1, <3>4
  <2>4. \A i \in 0 .. N : i \in T
    BY <2>2, <2>3, StepByStep
  <2> QED BY <2>1, <2>4
<1>14. at \in [0 .. N -> S]
  BY <1>10, <1>13
<1> QED BY <1>1, <1>3, <1>11, <1>12, <1>14

LEMMA SpacedNone == Spaced(<<>>) = <<>>
<1>1. PICK at \in [0 .. Len(<<>>) -> Seq(AllLines)] : at[0] = <<>> /\ Spaced(<<>>) = at[Len(<<>>)]
  <2>1. <<>> \in Seq(AllLines)
    BY EmptySeq
  <2> QED BY <2>1, SpacedIs
<1>2. Len(<<>>) = 0
  BY EmptySeq
<1> QED BY <1>1, <1>2

LEMMA SpacedTyped ==
  ASSUME NEW lines \in Seq(AllLines)
  PROVE  Spaced(lines) \in Seq(AllLines)
BY SpacedIs, LenProperties

LEMMA SpacedMore ==
  ASSUME NEW lines \in Seq(AllLines), NEW l \in AllLines
  PROVE  Spaced(Append(lines, l)) = WithLine(Spaced(lines), l)
<1>1. PICK N \in Nat : N = Len(lines)
  BY LenProperties
<1>2. PICK more : more = Append(lines, l)
  OBVIOUS
<1>3. more \in Seq(AllLines) /\ Len(more) = N + 1 /\ more[N + 1] = l /\ \A i \in 1 .. N : more[i] = lines[i]
  BY <1>1, <1>2, AppendProperties
<1>4. PICK at \in [0 .. N -> Seq(AllLines)] : /\ at[0] = <<>> /\ Spaced(lines) = at[N]
                                             /\ \A i \in 1 .. N : at[i] = WithLine(at[i - 1], lines[i])
  BY <1>1, SpacedIs
<1>5. PICK bt \in [0 .. N + 1 -> Seq(AllLines)] : /\ bt[0] = <<>> /\ Spaced(more) = bt[N + 1]
                                                 /\ \A i \in 1 .. N + 1 : bt[i] = WithLine(bt[i - 1], more[i])
  <2>1. more \in Seq(AllLines) /\ Len(more) = N + 1
    BY <1>3
  <2> QED BY <2>1, SpacedIs
<1>6. PICK T : T = {i \in 0 .. N : at[i] = bt[i]}
  OBVIOUS
<1>7. 0 \in T
  BY <1>4, <1>5, <1>6
<1>8. ASSUME NEW i \in 0 .. N - 1, i \in T
      PROVE  i + 1 \in T
  <2>1. i + 1 \in 1 .. N /\ i + 1 \in 1 .. N + 1 /\ (i + 1) - 1 = i
    OBVIOUS
  <2>2. at[i + 1] = WithLine(at[i], lines[i + 1]) /\ bt[i + 1] = WithLine(bt[i], more[i + 1])
    BY <1>4, <1>5, <2>1
  <2>3. at[i + 1] = bt[i + 1]
    BY <1>3, <1>6, <1>8, <2>1, <2>2
  <2> QED BY <1>6, <2>1, <2>3
<1>9. N \in T
  <2>1. \A i \in 0 .. N : i \in T
    BY <1>7, <1>8, StepByStep
  <2> QED BY <2>1
<1>10. N + 1 \in 1 .. N + 1 /\ (N + 1) - 1 = N
  OBVIOUS
<1>11. bt[N + 1] = WithLine(bt[N], l)
  BY <1>3, <1>5, <1>10
<1> QED BY <1>1, <1>2, <1>4, <1>5, <1>6, <1>9, <1>11

\* With nothing read before.
Same(p, q) == Follows(p, q, <<>>, <<>>)

LEMMA SameAs ==
  ASSUME NEW p \in Parsers, NEW q \in Parsers
  PROVE  /\ Same(p, p)
         /\ Same(p, q) <=> /\ q.decl = p.decl /\ q.transactions = p.transactions /\ q.accounts = p.accounts
                           /\ q.txn = Nothing <=> p.txn = Nothing
                           /\ p.txn # Nothing => q.txn.id = p.txn.id /\ q.txn.postings = p.txn.postings
<1>1. <<>> \o p.transactions = p.transactions /\ <<>> \o p.accounts = p.accounts
  BY ParserOf, ConcatEmptySeq
<1> QED BY <1>1 DEF Same, Follows

LEMMA FlushAgain ==
  ASSUME NEW p \in Parsers, p.txn = Nothing, p.decl = Nothing
  PROVE  Flush(p) = p
BY DEF Flush, flush_transaction

\* A blank line above a header changes nothing: the header closes what is open itself.
LEMMA ReadBelowBlank ==
  ASSUME NEW p \in Parsers, NEW q \in Parsers, Same(p, q), NEW l \in AllLines, l.kind = "header",
         NEW n \in Nat, NEW m \in Nat
  PROVE  Same(ReadLine(p, l, n), ReadLine(Flush(q), l, m))
<1>1. PICK u, v : u = Flush(p) /\ v = Flush(q)
  OBVIOUS
<1>2. u \in Parsers /\ v \in Parsers /\ u.txn = Nothing /\ u.decl = Nothing /\ v.txn = Nothing /\ v.decl = Nothing
  BY <1>1, FlushComesTo
<1>3. <<>> \in Seq(Transactions) /\ <<>> \in Seq(Declarations)
  BY EmptySeq
<1>4. Same(u, v)
  BY <1>1, <1>3, FlushFollows DEF Same
<1>5. Same(ReadLine(u, l, n), ReadLine(v, l, m))
  BY <1>2, <1>3, <1>4, ReadFollows DEF Same
<1>6. ReadLine(u, l, n) = ReadLine(p, l, n)
  <2>1. Flush(u) = Flush(p)
    BY <1>1, <1>2, FlushAgain
  <2>2. ReadHeader(u, l, n) = ReadHeader(p, l, n)
    BY <2>1 DEF ReadHeader
  <2> QED BY <2>2 DEF ReadLine
<1> QED BY <1>1, <1>5, <1>6

\* What is read of a line is the same after what reads the same.
LEMMA ReadSame ==
  ASSUME NEW p \in Parsers, NEW q \in Parsers, Same(p, q), NEW l \in AllLines, NEW n \in Nat, NEW m \in Nat
  PROVE  Same(ReadLine(p, l, n), ReadLine(q, l, m)) /\ Same(Flush(p), Flush(q))
<1>1. <<>> \in Seq(Transactions) /\ <<>> \in Seq(Declarations)
  BY EmptySeq
<1> QED BY <1>1, ReadFollows, FlushFollows DEF Same

\* The blank lines put in are above a line, never at the end.
SpacedEnds(s) == IF s = <<>> THEN Spaced(s) = <<>>
                 ELSE Spaced(s) # <<>> /\ Spaced(s)[Len(Spaced(s))] = s[Len(s)]

LEMMA WithLineEnds ==
  ASSUME NEW out \in Seq(AllLines), NEW l \in AllLines
  PROVE  WithLine(out, l) # <<>> /\ WithLine(out, l)[Len(WithLine(out, l))] = l
<1>1. PICK b : b = Append(out, BlankLine)
  OBVIOUS
<1>2. b \in Seq(AllLines) /\ out \o <<BlankLine, l>> = Append(b, l)
  BY <1>1, BlankIs, AppendProperties
<1>3. ASSUME NEW s \in Seq(AllLines)
      PROVE  Append(s, l) # <<>> /\ Append(s, l)[Len(Append(s, l))] = l
  BY AppendProperties, LenProperties
<1>4. WithLine(out, l) = Append(out, l) \/ WithLine(out, l) = Append(b, l)
  BY <1>2 DEF WithLine
<1> QED BY <1>2, <1>3, <1>4

\* More lines split no less.
LEMMA SplitsMore ==
  ASSUME NEW s \in Seq(AllLines), NEW l \in AllLines, ~Splits(Append(s, l))
  PROVE  /\ ~Splits(s)
         /\ l.kind = "dated" /\ s # <<>> => ~is_posting(s[Len(s)])
<1>a. PICK n \in Nat : n = Len(s)
  BY LenProperties
<1>b. PICK t : t = Append(s, l)
  OBVIOUS
<1>1. n = Len(s) /\ t = Append(s, l)
  BY <1>a, <1>b
<1>2. Len(t) = n + 1 /\ t[n + 1] = l /\ \A i \in 1 .. n : t[i] = s[i]
  BY <1>1, AppendProperties
<1>3. \A i \in 2 .. n + 1 : ~(t[i].kind = "dated" /\ is_posting(t[i - 1]))
  BY <1>1, <1>2 DEF Splits
<1>4. ~Splits(s)
  <2>1. \A i \in 2 .. n : i \in 1 .. n /\ i - 1 \in 1 .. n /\ i \in 2 .. n + 1
    OBVIOUS
  <2>2. \A i \in 2 .. n : ~(s[i].kind = "dated" /\ is_posting(s[i - 1]))
    <3> SUFFICES ASSUME NEW i \in 2 .. n PROVE ~(s[i].kind = "dated" /\ is_posting(s[i - 1]))
      OBVIOUS
    <3>1. t[i] = s[i] /\ t[i - 1] = s[i - 1]
      BY <1>2, <2>1
    <3> QED BY <1>3, <2>1, <3>1
  <2> QED BY <1>1, <2>2 DEF Splits
<1>5. ASSUME l.kind = "dated", s # <<>>
      PROVE  ~is_posting(s[Len(s)])
  <2>1. n # 0
    BY <1>1, <1>5, EmptySeq, LenProperties
  <2>2. n + 1 \in 2 .. n + 1 /\ (n + 1) - 1 = n /\ n \in 1 .. n
    BY <2>1
  <2>3. ~(t[n + 1].kind = "dated" /\ is_posting(t[(n + 1) - 1]))
    BY <1>3, <2>2
  <2>4. t[(n + 1) - 1] = s[n] /\ s[n] = s[Len(s)]
    BY <1>1, <1>2, <2>2
  <2> QED BY <1>2, <1>5, <2>3, <2>4
<1> QED BY <1>4, <1>5

LEMMA SpacedReads ==
  ASSUME NEW lines \in Seq(AllLines), ~Splits(lines)
  PROVE  Same(Read(lines), Read(Spaced(lines)))
<1>1. PICK G : G = {s \in Seq(AllLines) : SpacedEnds(s) /\ (~Splits(s) => Same(Read(s), Read(Spaced(s))))}
  OBVIOUS
<1>2. <<>> \in G
  BY <1>1, SpacedNone, ReadNone, CleanTyped, SameAs, EmptySeq DEF SpacedEnds
<1>3. ASSUME NEW s \in Seq(AllLines), NEW l \in AllLines, s \in G
      PROVE  Append(s, l) \in G
  <2>1. PICK out \in Seq(AllLines) : out = Spaced(s)
    BY SpacedTyped
  <2>2. Append(s, l) \in Seq(AllLines) /\ Append(out, l) \in Seq(AllLines) /\ Append(out, BlankLine) \in Seq(AllLines)
    BY BlankIs, AppendProperties
  <2>3. PICK p, q : p = Read(s) /\ q = Read(out)
    OBVIOUS
  <2>4. p \in Parsers /\ q \in Parsers
    BY <2>1, <2>3, ReadTyped
  <2>5. PICK n \in Nat, m \in Nat : n = Len(s) + 1 /\ m = Len(out) + 1
    BY LenProperties
  <2>6. Read(Append(s, l)) = ReadLine(p, l, n)
    BY <2>3, <2>5, ReadMore
  <2>7. Spaced(Append(s, l)) = WithLine(out, l)
    BY <2>1, SpacedMore
  <2>a. SpacedEnds(Append(s, l))
    <3>1. Append(s, l) # <<>> /\ Append(s, l)[Len(Append(s, l))] = l
      BY AppendProperties, LenProperties
    <3> QED BY <2>7, <3>1, WithLineEnds DEF SpacedEnds
  <2>b. ASSUME ~Splits(Append(s, l))
        PROVE  Same(Read(Append(s, l)), Read(Spaced(Append(s, l))))
    <3>a. Same(p, q) /\ SpacedEnds(s) /\ (l.kind = "dated" /\ s # <<>> => ~is_posting(s[Len(s)]))
      BY <1>1, <1>3, <2>1, <2>3, <2>b, SplitsMore
    <3>1. CASE WithLine(out, l) = Append(out, l)
      <4>1. Read(Append(out, l)) = ReadLine(q, l, m)
        BY <2>3, <2>5, ReadMore
      <4>2. Same(ReadLine(p, l, n), ReadLine(q, l, m))
        BY <2>4, <3>a, ReadSame
      <4> QED BY <2>6, <2>7, <3>1, <4>1, <4>2
    <3>2. CASE WithLine(out, l) # Append(out, l)
      <4>1. WithLine(out, l) = out \o <<BlankLine, l>> /\ looks_like_header(l) /\ out # <<>> /\ is_posting(out[Len(out)])
        BY <3>2 DEF WithLine
      <4>2. l.kind = "header"
        <5>1. s # <<>> /\ out[Len(out)] = s[Len(s)]
          BY <2>1, <3>a, <4>1 DEF SpacedEnds
        <5> QED BY <3>a, <4>1, <5>1 DEF looks_like_header
      <4>3. PICK blank : blank = Append(out, BlankLine)
        OBVIOUS
      <4>4. WithLine(out, l) = Append(blank, l)
        BY <4>1, <4>3
      <4>5. Read(blank) = Flush(q)
        BY <2>3, <4>3, ReadBlank
      <4>6. PICK k \in Nat : k = Len(blank) + 1
        BY <2>2, <4>3, LenProperties
      <4>7. Read(Append(blank, l)) = ReadLine(Flush(q), l, k)
        BY <2>2, <4>3, <4>5, <4>6, ReadMore
      <4>8. Same(ReadLine(p, l, n), ReadLine(Flush(q), l, k))
        BY <2>4, <3>a, <4>2, ReadBelowBlank
      <4> QED BY <2>6, <2>7, <4>4, <4>7, <4>8
    <3> QED BY <3>1, <3>2
  <2> QED BY <1>1, <2>2, <2>a, <2>b
<1>4. \A s \in Seq(AllLines) : s \in G
  BY <1>2, <1>3, LineByLine
<1> QED BY <1>1, <1>4

-----------------------------------------------------------------------------
(* Without the blank lines at its end.                                     *)

IsLast(s, i) == s[i].kind # "blank" /\ \A j \in DOMAIN s : s[j].kind # "blank" => j <= i

LEMMA TrimmedIs ==
  ASSUME NEW s \in Seq(AllLines), NEW i \in DOMAIN s, IsLast(s, i)
  PROVE  Trimmed(s) = SubSeq(s, 1, i)
<1>1. DOMAIN s \in SUBSET Nat
  BY LenProperties
<1>2. PICK c : c = CHOOSE k \in DOMAIN s : /\ s[k].kind # "blank"
                                           /\ \A j \in DOMAIN s : s[j].kind # "blank" => j <= k
  OBVIOUS
<1>3. c \in DOMAIN s /\ IsLast(s, c)
  BY <1>2 DEF IsLast
<1>4. c <= i /\ i <= c /\ c \in Nat /\ i \in Nat
  BY <1>1, <1>3 DEF IsLast
<1>5. c = i
  BY <1>4
<1>6. ~IsBlank(s)
  BY DEF IsBlank, IsLast
<1> QED BY <1>2, <1>5, <1>6 DEF Trimmed

\* What is left out reads as nothing but the end of what was open.
TrimKeeps(s) ==
  /\ Trimmed(s) \in Seq(AllLines) /\ Flush(Read(Trimmed(s))) = Flush(Read(s))
  /\ IsBlank(s) \/ \E i \in DOMAIN s : IsLast(s, i)

LEMMA TrimmedMore ==
  ASSUME NEW s \in Seq(AllLines), TrimKeeps(s), NEW l \in AllLines
  PROVE  TrimKeeps(Append(s, l))
<1>1. PICK t : t = Append(s, l)
  OBVIOUS
<1>2. PICK n \in Nat : n = Len(s)
  BY LenProperties
<1>3. /\ t \in Seq(AllLines) /\ Len(t) = n + 1 /\ DOMAIN t = 1 .. n + 1 /\ DOMAIN s = 1 .. n
      /\ t[n + 1] = l /\ \A i \in 1 .. n : t[i] = s[i]
  BY <1>1, <1>2, AppendProperties, LenProperties
<1>4. CASE l.kind # "blank"
  <2>1. IsLast(t, n + 1) /\ n + 1 \in DOMAIN t
    BY <1>3, <1>4 DEF IsLast
  <2>2. Trimmed(t) = t
    BY <1>3, <2>1, TrimmedIs, SubSeqFull
  <2> QED BY <1>1, <1>3, <2>1, <2>2 DEF TrimKeeps
<1>5. CASE l.kind = "blank"
  <2>1. PICK p \in Parsers : p = Read(s)
    BY ReadTyped
  <2>2. Read(t) = Flush(p)
    <3>1. PICK m \in Nat : m = n + 1
      OBVIOUS
    <3>2. Read(t) = ReadLine(p, l, m)
      BY <1>1, <1>2, <2>1, <3>1, ReadMore
    <3> QED BY <1>5, <3>2 DEF ReadLine
  <2>3. Flush(Flush(p)) = Flush(p)
    BY FlushComesTo, FlushAgain
  <2>4. Trimmed(t) = Trimmed(s) /\ (IsBlank(t) \/ \E i \in DOMAIN t : IsLast(t, i))
    <3>1. CASE IsBlank(s)
      <4>1. IsBlank(t)
        <5>1. \A i \in 1 .. n : t[i].kind = "blank"
          BY <1>3, <3>1 DEF IsBlank
        <5>2. \A i \in 1 .. n + 1 : i \in 1 .. n \/ i = n + 1
          OBVIOUS
        <5> QED BY <1>3, <1>5, <5>1, <5>2 DEF IsBlank
      <4> QED BY <3>1, <4>1 DEF Trimmed
    <3>2. CASE ~IsBlank(s)
      <4>1. PICK i \in 1 .. n : IsLast(s, i)
        BY <1>3, <3>2 DEF TrimKeeps
      <4>2. i \in DOMAIN s /\ i \in DOMAIN t /\ t[i] = s[i]
        BY <1>3, <4>1
      <4>3. \A j \in 1 .. n + 1 : t[j].kind # "blank" => j <= i
        <5>1. ASSUME NEW j \in 1 .. n + 1, t[j].kind # "blank"
              PROVE  j <= i
          <6>1. j # n + 1
            BY <1>3, <1>5, <5>1
          <6>2. j \in 1 .. n
            BY <6>1
          <6>3. t[j] = s[j] /\ j \in DOMAIN s
            BY <1>3, <6>2
          <6> QED BY <4>1, <5>1, <6>3 DEF IsLast
        <5> QED BY <5>1
      <4>4. IsLast(t, i)
        BY <1>3, <4>1, <4>2, <4>3 DEF IsLast
      <4>5. Trimmed(s) = SubSeq(s, 1, i) /\ Trimmed(t) = SubSeq(t, 1, i)
        BY <1>3, <4>1, <4>2, <4>4, TrimmedIs
      <4>6. SubSeq(t, 1, i) = SubSeq(s, 1, i)
        <5>1. PICK x, y : x = SubSeq(t, 1, i) /\ y = SubSeq(s, 1, i)
          OBVIOUS
        <5>2. \A k \in 1 .. i : t[k] \in AllLines /\ s[k] \in AllLines /\ t[k] = s[k]
          <6>1. \A k \in 1 .. i : k \in 1 .. n /\ k \in 1 .. n + 1
            BY <4>1
          <6> QED BY <1>2, <1>3, <6>1, ElementOfSeq
        <5>3. x \in Seq(AllLines) /\ Len(x) = i /\ \A k \in 1 .. i : x[k] = t[k]
          BY <5>1, <5>2, SubSeqProperties
        <5>4. y \in Seq(AllLines) /\ Len(y) = i /\ \A k \in 1 .. i : y[k] = s[k]
          BY <5>1, <5>2, SubSeqProperties
        <5>5. x = y
          BY <5>2, <5>3, <5>4, SeqEqual
        <5> QED BY <5>1, <5>5
      <4> QED BY <4>2, <4>4, <4>5, <4>6
    <3> QED BY <3>1, <3>2
  <2> QED BY <1>1, <2>1, <2>2, <2>3, <2>4 DEF TrimKeeps
<1> QED BY <1>4, <1>5

LEMMA TrimmedReads ==
  ASSUME NEW lines \in Seq(AllLines)
  PROVE  Trimmed(lines) \in Seq(AllLines) /\ Flush(Read(Trimmed(lines))) = Flush(Read(lines))
<1>1. PICK G : G = {s \in Seq(AllLines) : TrimKeeps(s)}
  OBVIOUS
<1>2. <<>> \in G
  <2>1. IsBlank(<<>>) /\ <<>> \in Seq(AllLines)
    BY EmptySeq DEF IsBlank
  <2>2. Trimmed(<<>>) = <<>>
    BY <2>1 DEF Trimmed
  <2> QED BY <1>1, <2>1, <2>2 DEF TrimKeeps
<1>3. ASSUME NEW s \in Seq(AllLines), NEW l \in AllLines, s \in G
      PROVE  Append(s, l) \in G
  BY <1>1, <1>3, TrimmedMore, AppendProperties
<1>4. \A s \in Seq(AllLines) : s \in G
  BY <1>2, <1>3, LineByLine
<1> QED BY <1>1, <1>4 DEF TrimKeeps

-----------------------------------------------------------------------------
(* A transaction added to a text.                                          *)

LEMMA FlushSame ==
  ASSUME NEW p \in Parsers, NEW q \in Parsers, Same(p, q)
  PROVE  Same(Flush(p), Flush(q))
<1>1. <<>> \in Seq(Transactions) /\ <<>> \in Seq(Declarations)
  BY EmptySeq
<1> QED BY <1>1, FlushFollows DEF Same

LEMMA TwoAppended ==
  ASSUME NEW a, NEW b
  PROVE  Append(Append(<<>>, a), b) = <<a, b>>
<1>1. PICK S : S = {a, b}
  OBVIOUS
<1>2. PICK s, u : s = Append(Append(<<>>, a), b) /\ u = <<a, b>>
  OBVIOUS
<1>3. Append(<<>>, a) \in Seq(S) /\ Len(Append(<<>>, a)) = 1 /\ Append(<<>>, a)[1] = a
  BY <1>1, EmptySeq, AppendProperties
<1>4. s \in Seq(S) /\ Len(s) = 2 /\ s[1] = a /\ s[2] = b
  BY <1>1, <1>2, <1>3, AppendProperties
<1>5. u \in Seq(S) /\ Len(u) = 2 /\ u[1] = a /\ u[2] = b
  <2>1. u \in [1 .. 2 -> S]
    BY <1>1, <1>2
  <2>2. u \in Seq(S)
    BY <2>1, SeqDef
  <2> QED BY <1>2, <2>2
<1>6. \A i \in 1 .. 2 : i = 1 \/ i = 2
  OBVIOUS
<1>7. s = u
  <2>1. \A i \in 1 .. Len(s) : s[i] = u[i]
    BY <1>4, <1>5, <1>6
  <2> QED BY <1>4, <1>5, <2>1, SeqEqual
<1> QED BY <1>2, <1>7

LEMMA AppendTextIs ==
  ASSUME NEW lines \in Seq(AllLines)
  PROVE  \E x \in Seq(AllLines) :
            /\ \A block : append_text(lines, block) = x \o block
            /\ Read(x) \in Parsers /\ Read(x).txn = Nothing /\ Read(x).decl = Nothing
            /\ ~Splits(lines) => Same(Flush(Read(lines)), Read(x))
<1>1. PICK spaced, norm, x : spaced = Spaced(lines) /\ norm = normalize_blank_lines(lines) /\ x = Separated(norm)
  OBVIOUS
<1>2. spaced \in Seq(AllLines)
  BY <1>1, SpacedTyped
<1>3. norm \in Seq(AllLines) /\ Flush(Read(norm)) = Flush(Read(spaced))
  BY <1>1, <1>2, TrimmedReads DEF normalize_blank_lines
<1>4. x \in Seq(AllLines) /\ Read(x) = Flush(Read(norm))
  <2>1. CASE norm = <<>>
    <3>1. Flush(Clean) = Clean
      BY DEF Flush, flush_transaction, Clean
    <3> QED BY <1>1, <1>3, <2>1, <3>1, ReadNone DEF Separated
  <2>2. CASE norm # <<>>
    <3>1. x = Append(norm, BlankLine)
      BY <1>1, <2>2 DEF Separated
    <3> QED BY <1>3, <3>1, BlankIs, AppendProperties, ReadBlank
  <2> QED BY <2>1, <2>2
<1>5. Read(lines) \in Parsers /\ Read(spaced) \in Parsers
  BY <1>2, ReadTyped
<1>6. ~Splits(lines) => Same(Flush(Read(lines)), Flush(Read(spaced)))
  BY <1>1, <1>5, SpacedReads, FlushSame
<1>7. Flush(Read(spaced)) \in Parsers /\ Flush(Read(spaced)).txn = Nothing /\ Flush(Read(spaced)).decl = Nothing
  BY <1>5, FlushComesTo
<1>8. \A block : append_text(lines, block) = x \o block
  BY <1>1 DEF append_text
<1> QED BY <1>3, <1>4, <1>6, <1>7, <1>8

LEMMA BlockIs ==
  /\ NewBlock[1] \in AllLines /\ NewBlock[2] \in AllLines /\ NewBlock[3] \in AllLines
  /\ NewBlock = <<NewBlock[1], NewBlock[2], NewBlock[3]>> /\ NewBlock \in Seq(AllLines)
  /\ NewBlock[1].kind = "header" /\ NewBlock[1].word = Added /\ NewBlock[1].complete
  /\ NewBlock[2].kind = "indented" /\ NewBlock[2].word = "assets:cash" /\ NewBlock[2].complete /\ NewBlock[2].qty = 1
  /\ NewBlock[3].kind = "indented" /\ NewBlock[3].word = "expenses:food" /\ NewBlock[3].complete /\ NewBlock[3].qty = 1
<1>1. DOMAIN NewBlock = 1 .. 3
  BY DEF NewBlock
<1>2. NewBlock[1] \in Range(NewBlock) /\ NewBlock[2] \in Range(NewBlock) /\ NewBlock[3] \in Range(NewBlock)
  <2>1. \A i \in DOMAIN NewBlock : NewBlock[i] \in Range(NewBlock)
    BY DEF Range
  <2> QED BY <1>1, <2>1
<1>3. NewBlock = <<NewBlock[1], NewBlock[2], NewBlock[3]>>
  BY DEF NewBlock
<1>4. NewBlock[1].kind = "header" /\ NewBlock[1].word = Added /\ NewBlock[1].complete
  BY DEF NewBlock, Line
<1>5. NewBlock[2].kind = "indented" /\ NewBlock[2].word = "assets:cash" /\ NewBlock[2].complete /\ NewBlock[2].qty = 1
  BY DEF NewBlock, Line
<1>6. NewBlock[3].kind = "indented" /\ NewBlock[3].word = "expenses:food" /\ NewBlock[3].complete /\ NewBlock[3].qty = 1
  BY DEF NewBlock, Line
<1>7. NewBlock[1] \in AllLines /\ NewBlock[2] \in AllLines /\ NewBlock[3] \in AllLines
  BY <1>2 DEF AllLines
<1>8. NewBlock \in Seq(AllLines)
  <2>1. NewBlock \in [1 .. 3 -> AllLines]
    <3>1. PICK a, b, c : a = NewBlock[1] /\ b = NewBlock[2] /\ c = NewBlock[3]
      OBVIOUS
    <3>2. <<a, b, c>> \in [1 .. 3 -> AllLines]
      BY <1>7, <3>1
    <3> QED BY <1>3, <3>1, <3>2
  <2> QED BY <2>1, SeqDef
<1> QED BY <1>3, <1>4, <1>5, <1>6, <1>7, <1>8

\* A posting is read into the transaction that is open.
LEMMA ReadIntoOpen ==
  ASSUME NEW p \in Parsers, p.txn # Nothing, NEW l \in AllLines, l.kind = "indented", l.complete, NEW n \in Nat
  PROVE  LET r == ReadLine(p, l, n) IN
         /\ r \in Parsers /\ r.txn # Nothing /\ r.txn.id = p.txn.id
         /\ r.txn.postings = Append(p.txn.postings, [account |-> l.word, qty |-> l.qty])
         /\ r.decl = p.decl /\ r.transactions = p.transactions /\ r.accounts = p.accounts
<1>1. PICK t : t = WithPosting(p.txn, l)
  OBVIOUS
<1>2. p.txn \in OpenTransactions
  BY ParserOf
<1>3. t \in OpenTransactions /\ t.id = p.txn.id /\ t.postings = Append(p.txn.postings, [account |-> l.word, qty |-> l.qty])
  BY <1>1, <1>2, WithPostingIs
<1>4. t # Nothing
  BY <1>3, TextAssumption
<1>5. ReadLine(p, l, n) = [p EXCEPT !.txn = t]
  BY <1>1 DEF ReadLine, ReadIndented, ReadPosting, Parsers
<1>6. PICK r : r = [p EXCEPT !.txn = t]
  OBVIOUS
<1>7. /\ r \in Parsers /\ r.txn = t /\ r.decl = p.decl
      /\ r.transactions = p.transactions /\ r.accounts = p.accounts
  BY <1>3, <1>6 DEF Parsers
<1> QED BY <1>3, <1>4, <1>5, <1>6, <1>7

LEMMA BlockReads ==
  ASSUME NEW x \in Seq(AllLines), Read(x).txn = Nothing, Read(x).decl = Nothing
  PROVE  LET r == Flush(Read(x \o NewBlock)) IN
         /\ r.transactions = Append(Read(x).transactions,
              [id |-> Added, postings |-> <<[account |-> "assets:cash", qty |-> 1], [account |-> "expenses:food", qty |-> 1]>>])
         /\ r.accounts = Read(x).accounts
<1>1. PICK h \in AllLines, first \in AllLines, second \in AllLines : h = NewBlock[1] /\ first = NewBlock[2] /\ second = NewBlock[3]
  BY BlockIs
<1>2. NewBlock = <<h, first, second>>
  BY <1>1, BlockIs
<1>3. PICK x1, x2, x3 : x1 = Append(x, h) /\ x2 = Append(x1, first) /\ x3 = Append(x2, second)
  OBVIOUS
<1>4. x1 \in Seq(AllLines) /\ x2 \in Seq(AllLines) /\ x3 \in Seq(AllLines)
  <2>1. x1 \in Seq(AllLines)
    BY <1>3, AppendProperties
  <2>2. x2 \in Seq(AllLines)
    BY <1>3, <2>1, AppendProperties
  <2> QED BY <1>3, <2>1, <2>2, AppendProperties
<1>5. x3 = x \o NewBlock
  BY <1>2, <1>3
<1>6. PICK n1 \in Nat, n2 \in Nat, n3 \in Nat : n1 = Len(x) + 1 /\ n2 = Len(x1) + 1 /\ n3 = Len(x2) + 1
  BY <1>4, LenProperties
<1>7. PICK p, p1, p2, p3 : p = Read(x) /\ p1 = Read(x1) /\ p2 = Read(x2) /\ p3 = Read(x3)
  OBVIOUS
<1>8. p \in Parsers /\ Flush(p) = p
  BY <1>7, ReadTyped, FlushAgain
<1>9. PICK t : t = [id |-> Added, line |-> n1, postings |-> <<>>]
  OBVIOUS
<1>10. t \in OpenTransactions /\ t # Nothing
  <2>1. Added \in Words
    BY <1>1, BlockIs DEF Words
  <2>2. t \in OpenTransactions
    BY <1>9, <2>1, EmptySeq DEF OpenTransactions
  <2> QED BY <2>2, TextAssumption
<1>11. p1 \in Parsers /\ p1.txn = t /\ p1.decl = Nothing /\ p1.transactions = p.transactions /\ p1.accounts = p.accounts
  <2>1. p1 = ReadLine(p, h, n1)
    BY <1>3, <1>6, <1>7, ReadMore
  <2>2. ReadLine(p, h, n1) = OpenTransaction(p, h, n1)
    BY <1>1, <1>8, BlockIs DEF ReadLine, ReadHeader
  <2>3. h.word = Added
    BY <1>1, BlockIs
  <2> QED BY <1>7, <1>8, <1>9, <2>1, <2>2, <2>3, OpenTransactionIs
<1>12. PICK a, b : a = [account |-> "assets:cash", qty |-> 1] /\ b = [account |-> "expenses:food", qty |-> 1]
  OBVIOUS
<1>13. /\ p2 \in Parsers /\ p2.txn # Nothing /\ p2.txn.id = Added /\ p2.txn.postings = Append(<<>>, a)
       /\ p2.decl = Nothing /\ p2.transactions = p.transactions /\ p2.accounts = p.accounts
  <2>1. p2 = ReadLine(p1, first, n2)
    BY <1>3, <1>4, <1>6, <1>7, ReadMore
  <2>2. first.kind = "indented" /\ first.complete /\ [account |-> first.word, qty |-> first.qty] = a
    BY <1>1, <1>12, BlockIs
  <2>3. p1.txn # Nothing /\ p1.txn.id = Added /\ p1.txn.postings = <<>>
    BY <1>9, <1>10, <1>11
  <2> QED BY <1>11, <2>1, <2>2, <2>3, ReadIntoOpen
<1>14. /\ p3 \in Parsers /\ p3.txn # Nothing /\ p3.txn.id = Added /\ p3.txn.postings = Append(Append(<<>>, a), b)
       /\ p3.decl = Nothing /\ p3.transactions = p.transactions /\ p3.accounts = p.accounts
  <2>1. p3 = ReadLine(p2, second, n3)
    BY <1>3, <1>4, <1>6, <1>7, ReadMore
  <2>2. second.kind = "indented" /\ second.complete /\ [account |-> second.word, qty |-> second.qty] = b
    BY <1>1, <1>12, BlockIs
  <2>3. /\ p3 \in Parsers /\ p3.txn # Nothing /\ p3.txn.id = p2.txn.id
        /\ p3.txn.postings = Append(p2.txn.postings, b)
        /\ p3.decl = p2.decl /\ p3.transactions = p2.transactions /\ p3.accounts = p2.accounts
    BY <1>13, <2>1, <2>2, ReadIntoOpen
  <2> QED BY <1>13, <2>3
<1>15. Append(Append(<<>>, a), b) = <<a, b>>
  BY TwoAppended
<1>16. /\ Flush(p3).transactions = Append(p3.transactions, [id |-> p3.txn.id, postings |-> p3.txn.postings])
       /\ Flush(p3).accounts = p3.accounts
  BY <1>14, FlushComesTo
<1> QED BY <1>5, <1>7, <1>12, <1>14, <1>15, <1>16

LEMMA AppendReads ==
  ASSUME TextTypeOK
  PROVE  AppendAddsOne
<1>1. PICK new : new = [id |-> Added, postings |-> <<[account |-> "assets:cash", qty |-> 1], [account |-> "expenses:food", qty |-> 1]>>]
  OBVIOUS
<1>2. ASSUME NEW f \in LedgerFiles, ~Splits(text[f])
      PROVE  LET before == parse_transactions(text[f])
                 after == parse_transactions(append_text(text[f], NewBlock))
             IN after.transactions = Append(before.transactions, new) /\ after.accounts = before.accounts
  <2>1. PICK lines \in Seq(AllLines) : lines = text[f]
    BY DEF TextTypeOK
  <2>2. PICK x \in Seq(AllLines) : /\ \A block : append_text(lines, block) = x \o block
                                   /\ Read(x) \in Parsers /\ Read(x).txn = Nothing /\ Read(x).decl = Nothing
                                   /\ Same(Flush(Read(lines)), Read(x))
    BY <1>2, <2>1, AppendTextIs
  <2>3. PICK p, q, r : p = Flush(Read(lines)) /\ q = Read(x) /\ r = Flush(Read(x \o NewBlock))
    OBVIOUS
  <2>4. r.transactions = Append(q.transactions, new) /\ r.accounts = q.accounts
    BY <1>1, <2>2, <2>3, BlockReads
  <2>5. p \in Parsers
    BY <2>3, ReadTyped, FlushComesTo
  <2>6. q.transactions = p.transactions /\ q.accounts = p.accounts
    BY <2>2, <2>3, <2>5, SameAs
  <2>7. append_text(text[f], NewBlock) = x \o NewBlock
    BY <2>1, <2>2
  <2>8. parse_transactions(text[f]).transactions = p.transactions /\ parse_transactions(text[f]).accounts = p.accounts
    BY <2>1, <2>3, FileIs
  <2>9. /\ parse_transactions(append_text(text[f], NewBlock)).transactions = r.transactions
        /\ parse_transactions(append_text(text[f], NewBlock)).accounts = r.accounts
    <3>1. PICK y : y = x \o NewBlock
      OBVIOUS
    <3>2. y \in Seq(AllLines)
      BY <2>2, <3>1, BlockIs, ConcatProperties
    <3> QED BY <2>3, <2>7, <3>1, <3>2, FileIs
  <2> QED BY <2>4, <2>6, <2>8, <2>9
<1> QED BY <1>1, <1>2 DEF AppendAddsOne

-----------------------------------------------------------------------------
LEMMA TextStep ==
  ASSUME TextTypeOK, [TextNext]_text
  PROVE  TextTypeOK'
<1>1. CASE UNCHANGED text
  BY <1>1 DEF TextTypeOK
<1>2. ASSUME NEW f \in LedgerFiles, NEW l \in TextLines, TypeLine(f, l)
      PROVE  TextTypeOK'
  <2>1. Append(text[f], l) \in Seq(AllLines)
    BY AppendProperties DEF TextTypeOK, AllLines
  <2> QED BY <1>2, <2>1 DEF TypeLine, TextTypeOK
<1>3. ASSUME NEW f \in LedgerFiles, AppendTransaction(f)
      PROVE  TextTypeOK'
  <2>1. PICK lines \in Seq(AllLines) : lines = text[f]
    BY DEF TextTypeOK
  <2>2. PICK x \in Seq(AllLines) : append_text(lines, NewBlock) = x \o NewBlock
    BY AppendTextIs
  <2>3. NewBlock \in Seq(AllLines)
    BY BlockIs
  <2>4. append_text(text[f], NewBlock) \in Seq(AllLines)
    BY <2>1, <2>2, <2>3, ConcatProperties
  <2> QED BY <1>3, <2>4 DEF AppendTransaction, TextTypeOK
<1> QED BY <1>1, <1>2, <1>3 DEF TextNext

\* The files of a set are sequences of lines, whatever is typed into them and added.
THEOREM TextTyped == TextSpec => []TextTypeOK
<1>1. TextInit => TextTypeOK
  BY EmptySeq DEF TextInit, TextTypeOK
<1>2. TextTypeOK /\ [TextNext]_text => TextTypeOK'
  BY TextStep
<1> QED BY <1>1, <1>2, PTL DEF TextSpec

\* Reading the files of a set as one text gives what reading each of them gives, for
\* any files and lines (load_ledger_text, generated_store.rs 221-243).
THEOREM MergedIsTheFilesSafe == TextSpec => []MergedIsTheFiles
<1>1. TextTypeOK => MergedIsTheFiles
  BY MergedReadsFiles
<1> QED BY <1>1, TextTyped, PTL

\* A transaction added to a text without a bare date right below a posting is read as it
\* was written, and the rest of the text as before (append_text, generated_store.rs 84-136).
THEOREM AppendAddsOneSafe == TextSpec => []AppendAddsOne
<1>1. TextTypeOK => AppendAddsOne
  BY AppendReads
<1> QED BY <1>1, TextTyped, PTL
=============================================================================
