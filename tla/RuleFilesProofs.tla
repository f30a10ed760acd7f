--------------------------- MODULE RuleFilesProofs ---------------------------
(***************************************************************************)
(* Proofs about RuleFiles, for any folders and chain, any writers and any  *)
(* number of commands and crashes: rules that were saved stay, a hidden    *)
(* transaction stays hidden, and a link's rules decide its legs.           *)
(*                                                                         *)
(* The properties speak of files where no commands met (crowded).  There the *)
(* invariant follows a rule that is owed from the file into the copy of the *)
(* one command that has the folder and back (OwedOK); that the copy is what *)
(* the command makes of the file, which it alone may touch, is Alone.      *)
(***************************************************************************)
EXTENDS RuleFiles, OrderingProofs

-----------------------------------------------------------------------------
(* Rules files: precedence.                                                *)

\* The order in which rules are saved.
Precede(s, S) == {p \in S \X S : Earlier(s, p[1], p[2])}

\* Every rule has its place in the file and its precedence.
LEMMA RuleTypes ==
  ASSUME NEW s \in Seq(Rules), NEW i \in DOMAIN s
  PROVE  /\ DOMAIN s = 1 .. Len(s) /\ Len(s) \in Nat /\ i \in Nat \ {0}
         /\ s[i] \in Rules /\ s[i].kind \in DOMAIN Precedence /\ Precedence[s[i].kind] \in 1 .. 8
<1>1. DOMAIN s = 1 .. Len(s) /\ Len(s) \in Nat
  BY LenProperties
<1>2. i \in Nat \ {0} /\ s[i] \in Rules
  BY <1>1, ElementOfSeq
<1>3. s[i].kind \in DOMAIN Precedence
  BY <1>2 DEF Rules
<1>4. \A k \in DOMAIN Precedence : Precedence[k] \in 1 .. 8
  BY DEF Precedence
<1> QED BY <1>1, <1>2, <1>3, <1>4

\* Precedence, then place, is a strict total order.
LEMMA PrecedeOrders ==
  ASSUME NEW s \in Seq(Rules), NEW I \in SUBSET DOMAIN s
  PROVE  Orders(Precede(s, I), I)
<1> DEFINE k(i) == Precedence[s[i].kind]
<1>1. \A i \in I : k(i) \in Nat /\ i \in Nat
  BY RuleTypes
<1>2. \A i, j : Earlier(s, i, j) <=> k(i) < k(j) \/ (k(i) = k(j) /\ i < j)
  BY DEF Earlier
<1> HIDE DEF k
<1>3. \A i \in I : ~Earlier(s, i, i)
  BY <1>1, <1>2
<1>4. \A x, y, z \in I : Earlier(s, x, y) /\ Earlier(s, y, z) => Earlier(s, x, z)
  BY <1>1, <1>2
<1>5. \A x, y \in I : x = y \/ Earlier(s, x, y) \/ Earlier(s, y, x)
  BY <1>1, <1>2
<1> QED BY <1>3, <1>4, <1>5 DEF Orders, Precede

\* So saving puts rules in a line.
LEMMA SavedLines ==
  ASSUME NEW s \in Seq(Rules), NEW I \in SUBSET DOMAIN s
  PROVE  Lines(Sorted(I, LAMBDA i, j : Earlier(s, i, j)), I, Precede(s, I))
<1> DEFINE R == Precede(s, I)
           at == Sorted(I, LAMBDA i, j : Earlier(s, i, j))
           Has(x, n) == Cardinality({y \in I : Earlier(s, y, x)}) = n - 1
<1>0. IsFiniteSet(I)
  BY PlacesFinite
<1>1. Orders(R, I)
  BY PrecedeOrders
<1>2. \A x, n : x \in I => (Has(x, n) <=> Rank(R, I)[x] = n - 1)
  <2> SUFFICES ASSUME NEW x \in I PROVE Rank(R, I)[x] = Cardinality({y \in I : Earlier(s, y, x)})
    OBVIOUS
  <2>1. {y \in I : Earlier(s, y, x)} = {y \in I : <<y, x>> \in R}
    BY DEF Precede
  <2> QED BY <2>1 DEF Rank
<1>3. at = [n \in 1 .. Cardinality(I) |-> CHOOSE x \in I : Has(x, n)]
  BY DEF Sorted
<1>4. ASSUME NEW n \in 1 .. Cardinality(I) PROVE \E x \in I : Has(x, n)
  <2>1. n - 1 \in 0 .. Cardinality(I) - 1
    BY <1>0, <1>1, Ranks
  <2>2. \E x \in I : Rank(R, I)[x] = n - 1
    BY <1>0, <1>1, <2>1, Ranks
  <2> QED BY <1>2, <2>2
<1> HIDE DEF Has, at
<1>5. \A n \in 1 .. Cardinality(I) : at[n] \in I /\ Has(at[n], n)
  BY <1>3, <1>4
<1>6. DOMAIN at = 1 .. Cardinality(I) /\ at = [n \in DOMAIN at |-> at[n]]
  BY <1>3
<1>7. \A n \in DOMAIN at : at[n] \in I /\ Rank(R, I)[at[n]] = n - 1
  BY <1>2, <1>5, <1>6
<1> HIDE DEF R
<1> QED BY <1>0, <1>1, <1>6, <1>7, RankedLines DEF at, R

-----------------------------------------------------------------------------
(* Rules files: the inductive invariant.                                   *)

Ops == {"save_rule", "hide", "classify", "update_rule", "delete_rule", "save_trade_link",
        "delete_trade_link", "repair_links", "import", "migrate"}
Commands == [op : Ops, folder : Folders, target : Folders, rule : Rules, moved : BOOLEAN, legs : BOOLEAN]

Busy(w) == writers[w] # Idle
\* The command has a copy that is to be saved.
Edits(w) == Busy(w) /\ writers[w].at \in {"save", "write"}

RuleTypesOK ==
  /\ files \in [Folders -> Seq(Rules) \cup {Torn}]
  /\ writers \in [Writers -> {Idle} \cup [at : {"load"}, c : Commands]
                             \cup [at : {"save", "write"}, c : Commands, copy : Seq(Rules)]]
  /\ commands \in Nat /\ linked \in BOOLEAN /\ hidden \in BOOLEAN
  /\ owed \subseteq RuleIds \X Folders /\ crowded \subseteq Folders

\* A command's rule and folder are as its kind makes them.
CommandOK(c) ==
  /\ (c.target # c.folder \/ c.moved) => c.op = "update_rule"
  /\ c.moved => c.target = c.folder
  /\ c.op = "hide" => /\ c.folder = Leaf /\ c.rule.kind = "txn" /\ c.rule.row = "both"
                      /\ c.rule.does = "hide" /\ c.rule.id[1] = "rule"
  /\ c.op \in {"classify", "import"} => c.rule.kind = "general"
  /\ c.op = "save_trade_link" /\ c.legs => c.folder = Leaf

\* A folder in which no commands met and none died belongs to at most one command,
\* and its file is cut short only while that one writes it.
Alone ==
  \A f \in Folders \ crowded :
    /\ \A v, w \in Writers : f \in Touched(v) \cap Touched(w) => v = w
    /\ files[f] = Torn => \E w \in Writers : Busy(w) /\ writers[w].at = "write" /\ writers[w].c.folder = f
    /\ \A w \in Writers : Edits(w) /\ writers[w].c.folder = f =>
         IF writers[w].at = "write" THEN files[f] = Torn
         ELSE files[f] # Torn /\ writers[w].copy = Edited(writers[w].c, files[f])

\* What a command removes on purpose.
Drops(c, id) ==
  \/ (c.target # c.folder \/ c.op = "delete_rule") /\ id = c.rule.id
  \/ c.op = "delete_trade_link" /\ id \in {<<LinkId, row>> : row \in Swap}
  \/ c.op = "migrate" /\ id[1] = "ai"

\* A rule owed is in the file; or in the copy of the command that has the folder, unless
\* it is to be dropped; or on its way there.
OwedOK ==
  \A o \in owed : o[2] \notin crowded =>
    /\ (\A w \in Writers : ~(Busy(w) /\ writers[w].c.folder = o[2])) => Holds(load(o[2]), o[1])
    /\ \A w \in Writers : Busy(w) /\ writers[w].c.folder = o[2] =>
         IF writers[w].at = "load"
         THEN Holds(load(o[2]), o[1]) \/ (writers[w].c.moved /\ o[1] = writers[w].c.rule.id)
         ELSE Holds(writers[w].copy, o[1]) \/ Drops(writers[w].c, o[1])

NoLeg(s) == \A i \in DOMAIN s : s[i].kind # "leg"
HideFirst(s) == Len(s) > 0 /\ s[1].kind = "txn" /\ s[1].row = "both" /\ s[1].does = "hide" /\ s[1].id[1] # "ai"
LinkFirst(c, s) == Len(s) > 1 /\ s[1] = link_rules(c)[2] /\ s[2] = link_rules(c)[1]

\* What commands that hide or link are about to save.
CopiesOK ==
  \A w \in Writers : Busy(w) =>
    /\ CommandOK(writers[w].c)
    /\ Edits(w) /\ writers[w].c.op = "hide" => HideFirst(writers[w].copy)
    /\ Edits(w) /\ writers[w].c.op = "save_trade_link" => LinkFirst(writers[w].c, writers[w].copy)

\* While the swap is hidden the leaf's file, and any copy of it that keeps it hidden,
\* begins with the hide rule, and nowhere in the chain is a rule for one leg.
Hides(f, s) == f \in ToSet(Chain[Leaf]) => NoLeg(s) /\ (f = Leaf => HideFirst(s))
HiddenOK ==
  hidden /\ crowded = {} =>
    /\ \A f \in Folders : files[f] # Torn => Hides(f, files[f])
    /\ \A w \in Writers : Edits(w) /\ ~Unhides(writers[w].c) => Hides(writers[w].c.folder, writers[w].copy)

RuleInv == RuleTypesOK /\ Alone /\ OwedOK /\ CopiesOK /\ HiddenOK

-----------------------------------------------------------------------------
(* What commands do to a copy.                                             *)

\* The rules of a sequence are its elements.
LEMMA ElementsOf ==
  ASSUME NEW s \in Seq(Rules)
  PROVE  /\ ToSet(s) = {s[i] : i \in DOMAIN s} /\ ToSet(s) \subseteq Rules
         /\ \A id : Holds(s, id) <=> \E r \in ToSet(s) : r.id = id
         /\ NoLeg(s) <=> \A r \in ToSet(s) : r.kind # "leg"
         /\ Len(s) > 0 <=> ToSet(s) # {}
         /\ Len(s) > 0 => s[1] \in ToSet(s)
<1>1. DOMAIN s = 1 .. Len(s) /\ Len(s) \in Nat
  BY LenProperties
<1>2. ToSet(s) = {s[i] : i \in DOMAIN s}
  BY DEF ToSet
<1>3. \A i \in DOMAIN s : s[i] \in Rules
  BY <1>1, ElementOfSeq
<1> QED BY <1>1, <1>2, <1>3 DEF Holds, NoLeg

LEMMA OnlySet ==
  ASSUME NEW s \in Seq(Rules), NEW I \in SUBSET DOMAIN s
  PROVE  /\ Only(s, I) \in Seq(Rules) /\ ToSet(Only(s, I)) = {s[i] : i \in I}
         /\ 1 \in I => Len(Only(s, I)) > 0 /\ Only(s, I)[1] = s[1]
<1>1. PICK o : o = Only(s, I)
  OBVIOUS
<1>2. /\ o \in Seq(Rules)
      /\ \A n \in DOMAIN o : \E i \in I : o[n] = s[i]
      /\ \A i \in I : \E n \in DOMAIN o : o[n] = s[i]
      /\ 1 \in I => 1 \in DOMAIN o /\ o[1] = s[1]
  BY <1>1, OnlyElements
<1>3. ToSet(o) = {s[i] : i \in I}
  BY <1>2 DEF ToSet
<1>4. DOMAIN o = 1 .. Len(o) /\ Len(o) \in Nat
  BY <1>2, LenProperties
<1> QED BY <1>1, <1>2, <1>3, <1>4

\* Rules put before others, or after them.
LEMMA JoinedSet ==
  ASSUME NEW s \in Seq(Rules), NEW t \in Seq(Rules)
  PROVE  /\ s \o t \in Seq(Rules) /\ ToSet(s \o t) = ToSet(s) \cup ToSet(t)
         /\ Len(s \o t) = Len(s) + Len(t)
         /\ \A i \in 1 .. Len(s) : (s \o t)[i] = s[i]
         /\ \A i \in 1 .. Len(t) : (s \o t)[Len(s) + i] = t[i]
<1>1. PICK o : o = s \o t
  OBVIOUS
<1>2. /\ o \in Seq(Rules) /\ Len(o) = Len(s) + Len(t)
      /\ \A i \in 1 .. Len(s) + Len(t) : o[i] = IF i <= Len(s) THEN s[i] ELSE t[i - Len(s)]
  BY <1>1, ConcatProperties
<1>3. /\ DOMAIN s = 1 .. Len(s) /\ Len(s) \in Nat /\ DOMAIN t = 1 .. Len(t) /\ Len(t) \in Nat
      /\ DOMAIN o = 1 .. Len(o)
  BY <1>2, LenProperties
<1>4. PICK m, n : m = Len(s) /\ n = Len(t) /\ m \in Nat /\ n \in Nat
  BY <1>3
<1>5. /\ DOMAIN o = 1 .. m + n /\ DOMAIN s = 1 .. m /\ DOMAIN t = 1 .. n
      /\ \A i \in 1 .. m + n : o[i] = IF i <= m THEN s[i] ELSE t[i - m]
  BY <1>2, <1>3, <1>4
<1>6. ASSUME NEW i \in 1 .. m PROVE i \in 1 .. m + n /\ o[i] = s[i]
  BY <1>4, <1>5
<1>7. ASSUME NEW i \in 1 .. n PROVE m + i \in 1 .. m + n /\ o[m + i] = t[i]
  <2>1. m + i \in 1 .. m + n /\ ~(m + i <= m) /\ (m + i) - m = i
    BY <1>4
  <2> QED BY <1>5, <2>1
<1>8. ASSUME NEW i \in 1 .. m + n
      PROVE  (i \in 1 .. m /\ o[i] = s[i]) \/ \E k \in 1 .. n : o[i] = t[k]
  <2>1. CASE i <= m
    BY <1>4, <1>5, <2>1
  <2>2. CASE ~(i <= m)
    <3>1. i - m \in 1 .. n
      BY <1>4, <2>2
    <3> QED BY <1>5, <2>2, <3>1
  <2> QED BY <2>1, <2>2
<1>9. ToSet(o) = ToSet(s) \cup ToSet(t)
  <2>1. ToSet(o) = {o[i] : i \in 1 .. m + n} /\ ToSet(s) = {s[i] : i \in 1 .. m} /\ ToSet(t) = {t[i] : i \in 1 .. n}
    BY <1>5 DEF ToSet
  <2> QED BY <1>6, <1>7, <1>8, <2>1
<1> QED BY <1>1, <1>2, <1>4, <1>6, <1>7, <1>9

LEMMA OneRule ==
  ASSUME NEW r \in Rules
  PROVE  <<r>> \in Seq(Rules) /\ ToSet(<<r>>) = {r} /\ Len(<<r>>) = 1 /\ <<r>>[1] = r
<1>1. <<r>> \in Seq(Rules) /\ Len(<<r>>) = 1 /\ <<r>>[1] = r /\ DOMAIN <<r>> = 1 .. 1
  OBVIOUS
<1> QED BY <1>1 DEF ToSet

\* insert_rule: anchored rules first, others last.
LEMMA Inserted ==
  ASSUME NEW s \in Seq(Rules), NEW r \in Rules
  PROVE  /\ insert_rule(s, r) \in Seq(Rules) /\ ToSet(insert_rule(s, r)) = ToSet(s) \cup {r}
         /\ Len(insert_rule(s, r)) = Len(s) + 1
         /\ Anchored(r) => /\ insert_rule(s, r)[1] = r
                           /\ \A i \in 1 .. Len(s) : insert_rule(s, r)[i + 1] = s[i]
         /\ ~Anchored(r) /\ Len(s) > 0 => insert_rule(s, r)[1] = s[1]
<1>1. <<r>> \in Seq(Rules) /\ ToSet(<<r>>) = {r} /\ Len(<<r>>) = 1 /\ <<r>>[1] = r /\ Len(s) \in Nat
  BY OneRule, LenProperties
<1>2. CASE Anchored(r)
  <2>1. insert_rule(s, r) = <<r>> \o s
    BY <1>2 DEF insert_rule
  <2>2. PICK o, q : o = <<r>> \o s /\ q = <<r>>
    OBVIOUS
  <2>3. /\ o \in Seq(Rules) /\ ToSet(o) = {r} \cup ToSet(s) /\ Len(o) = 1 + Len(s)
        /\ \A i \in 1 .. 1 : o[i] = q[i] /\ \A k \in 1 .. Len(s) : o[1 + k] = s[k]
    BY <1>1, <2>2, JoinedSet
  <2>4. o[1] = r /\ \A i \in 1 .. Len(s) : o[i + 1] = s[i]
    BY <1>1, <2>2, <2>3
  <2> QED BY <1>1, <1>2, <2>1, <2>2, <2>3, <2>4
<1>3. CASE ~Anchored(r)
  <2>1. insert_rule(s, r) = s \o <<r>>
    BY <1>3, AppendIsConcat DEF insert_rule
  <2>2. PICK o : o = s \o <<r>>
    OBVIOUS
  <2>3. /\ o \in Seq(Rules) /\ ToSet(o) = ToSet(s) \cup {r} /\ Len(o) = Len(s) + 1
        /\ \A i \in 1 .. Len(s) : o[i] = s[i]
    BY <1>1, <2>2, JoinedSet
  <2>4. Len(s) > 0 => o[1] = s[1]
    BY <1>1, <2>3
  <2> QED BY <1>1, <1>3, <2>1, <2>2, <2>3, <2>4
<1> QED BY <1>2, <1>3
\* save: all but the rules that do nothing; a first rule that goes first stays first.
LEMMA SavedRules ==
  ASSUME NEW s \in Seq(Rules)
  PROVE  /\ saved(s) \in Seq(Rules) /\ ToSet(saved(s)) = {r \in ToSet(s) : ~NoOp(r)}
         /\ NoLeg(s) => NoLeg(saved(s))
         /\ NoLeg(saved(s)) /\ HideFirst(s) => HideFirst(saved(s))
         /\ \A c : c.legs /\ LinkFirst(c, s) => LinkFirst(c, saved(s))
<1>1. PICK I, R, at : /\ I = {i \in DOMAIN s : ~NoOp(s[i])} /\ R = Precede(s, I)
                      /\ at = Sorted(I, LAMBDA i, j : Earlier(s, i, j))
  OBVIOUS
<1>2. I \in SUBSET DOMAIN s /\ Orders(R, I) /\ Lines(at, I, R)
  BY <1>1, PrecedeOrders, SavedLines
<1>3. PICK o : o = saved(s)
  OBVIOUS
<1>4. o = Taken(s, at)
  BY <1>1, <1>3 DEF saved
<1>5. /\ o \in Seq(Rules) /\ DOMAIN o = 1 .. Cardinality(I) /\ Len(o) = Cardinality(I)
      /\ \A n \in DOMAIN o : at[n] \in I /\ o[n] = s[at[n]]
  BY <1>2, <1>4, TakenElements
<1>6. \A i \in I : \E n \in DOMAIN o : at[n] = i
  BY <1>2, <1>5 DEF Lines
<1>7. ToSet(o) = {r \in ToSet(s) : ~NoOp(r)}
  <2>1. ToSet(o) = {o[n] : n \in DOMAIN o} /\ ToSet(s) = {s[i] : i \in DOMAIN s}
    BY DEF ToSet
  <2>2. ASSUME NEW n \in DOMAIN o PROVE o[n] \in ToSet(s) /\ ~NoOp(o[n])
    BY <1>1, <1>5, <2>1
  <2>3. ASSUME NEW i \in DOMAIN s, ~NoOp(s[i]) PROVE s[i] \in ToSet(o)
    <3>1. PICK n \in DOMAIN o : at[n] = i
      BY <1>1, <1>6, <2>3
    <3> QED BY <1>5, <2>1, <3>1
  <2> QED BY <2>1, <2>2, <2>3
<1>8. /\ Cardinality(I) \in Nat
      /\ Len(s) > 0 => 1 \in DOMAIN s
      /\ Len(s) > 1 => 1 \in DOMAIN s /\ 2 \in DOMAIN s
  <2>1. DOMAIN s = 1 .. Len(s) /\ Len(s) \in Nat
    BY LenProperties
  <2> QED BY <1>2, <2>1 DEF Lines
<1>9. ASSUME NEW i \in I, NEW j \in I
      PROVE  <<i, j>> \in R <=> \/ Precedence[s[i].kind] < Precedence[s[j].kind]
                                \/ Precedence[s[i].kind] = Precedence[s[j].kind] /\ i < j
  BY <1>1 DEF Precede, Earlier
<1>10. \A i \in I : i \in Nat \ {0} /\ s[i] \in Rules /\ s[i].kind \in DOMAIN Precedence
  BY <1>1, RuleTypes
<1>11. ASSUME NoLeg(o), HideFirst(s) PROVE HideFirst(o)
  <2>1. 1 \in I
    <3>1. 1 \in DOMAIN s /\ s[1].does = "hide"
      BY <1>8, <1>11 DEF HideFirst
    <3> QED BY <1>1, <3>1 DEF NoOp
  <2>2. ASSUME NEW j \in I \ {1} PROVE <<1, j>> \in R
    <3>1. s[j].kind # "leg" /\ s[1].kind = "txn" /\ 1 < j
      <4>1. j \in DOMAIN s /\ j \in Nat \ {0} /\ j # 1
        BY <1>1, <1>10
      <4>2. PICK n \in DOMAIN o : at[n] = j /\ o[n] = s[j]
        BY <1>5, <1>6
      <4> QED BY <1>11, <4>1, <4>2 DEF NoLeg, HideFirst
    <3>2. s[j].kind = "txn" \/ Precedence[s[j].kind] > 2
      BY <1>10, <3>1 DEF Precedence
    <3> QED BY <1>9, <2>1, <3>1, <3>2 DEF Precedence
  <2>3. Cardinality(I) >= 1 /\ at[1] = 1
    BY <1>2, <2>1, <2>2, LineStarts
  <2>4. o[1] = s[1] /\ Len(o) > 0
    BY <1>5, <1>8, <2>3
  <2> QED BY <1>11, <2>4 DEF HideFirst
<1>12. ASSUME NEW c, c.legs, LinkFirst(c, s) PROVE LinkFirst(c, o)
  <2>1. s[1] = Rule(<<LinkId, "buy">>, "leg", "buy", "buy") /\ s[2] = Rule(<<LinkId, "sell">>, "leg", "sell", "sell")
        /\ Len(s) > 1
    BY <1>12 DEF LinkFirst, link_rules
  <2>2. s[1].kind = "leg" /\ s[2].kind = "leg" /\ ~NoOp(s[1]) /\ ~NoOp(s[2])
    BY <2>1 DEF Rule, NoOp
  <2>3. 1 \in I /\ 2 \in I
    <3>1. 1 \in DOMAIN s /\ 2 \in DOMAIN s
      BY <1>8, <2>1
    <3> QED BY <1>1, <2>2, <3>1
  <2>4. ASSUME NEW i \in {1, 2}, NEW j \in I, i < j PROVE <<i, j>> \in R
    <3>1. s[j].kind = "leg" \/ Precedence[s[j].kind] > 1
      BY <1>10 DEF Precedence
    <3>2. s[i].kind = "leg" /\ i \in I
      BY <2>2, <2>3
    <3> QED BY <1>9, <2>4, <3>1, <3>2 DEF Precedence
  <2>5. ASSUME NEW j \in I \ {1} PROVE <<1, j>> \in R
    <3>1. j \in I /\ 1 < j
      BY <1>10
    <3> QED BY <2>4, <3>1
  <2>6. ASSUME NEW j \in I \ {1, 2} PROVE <<2, j>> \in R
    <3>1. j \in I /\ 2 < j
      BY <1>10
    <3> QED BY <2>4, <3>1
  <2>7. Cardinality(I) >= 2 /\ at[1] = 1 /\ at[2] = 2
    BY <1>2, <2>3, <2>5, <2>6, LineStarts
  <2>8. o[1] = s[1] /\ o[2] = s[2] /\ Len(o) > 1
    BY <1>5, <1>8, <2>7
  <2> QED BY <1>12, <2>8 DEF LinkFirst
<1>13. NoLeg(s) => NoLeg(o)
  BY <1>5, <1>7, ElementsOf
<1> QED BY <1>3, <1>5, <1>7, <1>11, <1>12, <1>13

\* A command keeps the rules it does not drop; and one that does not bring the hidden
\* swap back adds no rule for a leg and leaves the hide rule first.
Keeps(c, s, o) ==
  /\ o \in Seq(Rules)
  /\ \A id : Holds(s, id) => Holds(o, id) \/ Drops(c, id)
  /\ c.moved => Holds(o, c.rule.id)
  /\ ~Unhides(c) /\ NoLeg(s) => NoLeg(o)
  /\ ~Unhides(c) /\ HideFirst(s) => HideFirst(o)

\* A copy left as it is.
LEMMA SameKeeps ==
  ASSUME NEW c, NEW s \in Seq(Rules), ~c.moved
  PROVE  Keeps(c, s, s)
BY DEF Keeps

\* Inserting keeps all rules.
LEMMA InsertKeeps ==
  ASSUME NEW c, NEW s \in Seq(Rules), NEW r \in Rules, c.moved => r.id = c.rule.id,
         Anchored(r) => Unhides(c)
  PROVE  Keeps(c, s, insert_rule(s, r))
<1>1. PICK o : o = insert_rule(s, r)
  OBVIOUS
<1>2. /\ o \in Seq(Rules) /\ ToSet(o) = ToSet(s) \cup {r} /\ Len(o) = Len(s) + 1
      /\ ~Anchored(r) /\ Len(s) > 0 => o[1] = s[1]
  BY <1>1, Inserted
<1>3. \A id : Holds(s, id) => Holds(o, id)
  BY <1>2, ElementsOf
<1>4. Holds(o, r.id)
  BY <1>2, ElementsOf
<1>5. ~Unhides(c) /\ NoLeg(s) => NoLeg(o)
  <2> SUFFICES ASSUME ~Unhides(c), NoLeg(s) PROVE NoLeg(o)
    OBVIOUS
  <2>1. r.kind # "leg"
    BY DEF Anchored
  <2> QED BY <1>2, <2>1, ElementsOf
<1>6. ~Unhides(c) /\ HideFirst(s) => HideFirst(o)
  <2> SUFFICES ASSUME ~Unhides(c), HideFirst(s) PROVE HideFirst(o)
    OBVIOUS
  <2>1. Len(s) > 0 /\ Len(s) \in Nat
    BY LenProperties DEF HideFirst
  <2> QED BY <1>2, <2>1 DEF HideFirst
<1> QED BY <1>1, <1>2, <1>3, <1>4, <1>5, <1>6 DEF Keeps

\* Leaving some out keeps the others.
LEMMA OnlyKeeps ==
  ASSUME NEW c, NEW s \in Seq(Rules), NEW I \in SUBSET DOMAIN s, ~c.moved, Unhides(c),
         \A i \in DOMAIN s \ I : Drops(c, s[i].id)
  PROVE  Keeps(c, s, Only(s, I))
<1>1. PICK o : o = Only(s, I)
  OBVIOUS
<1>2. o \in Seq(Rules) /\ ToSet(o) = {s[i] : i \in I}
  BY <1>1, OnlySet
<1>3. ASSUME NEW id, Holds(s, id) PROVE Holds(o, id) \/ Drops(c, id)
  <2>1. PICK i \in DOMAIN s : s[i].id = id
    BY <1>3 DEF Holds
  <2>2. i \in I => s[i] \in ToSet(o)
    BY <1>2
  <2> QED BY <1>2, <2>1, <2>2, ElementsOf
<1> QED BY <1>1, <1>2, <1>3 DEF Keeps

\* A rule in place of another with its id.
LEMMA MappedRules ==
  ASSUME NEW s \in Seq(Rules), NEW t, t = [i \in DOMAIN s |-> t[i]], \A i \in DOMAIN s : t[i] \in Rules
  PROVE  t \in Seq(Rules) /\ DOMAIN t = DOMAIN s /\ Len(t) = Len(s)
<1>1. PICK m \in Nat : m = Len(s) /\ DOMAIN s = 1 .. m
  BY LenProperties
<1>2. t \in [1 .. m -> Rules]
  BY <1>1
<1>3. t \in Seq(Rules)
  <2>1. t \in UNION {[1 .. n -> Rules] : n \in Nat}
    BY <1>2
  <2> QED BY <2>1, SeqDef
<1> QED BY <1>1, <1>2, <1>3, LenProperties

LEMMA ReplaceKeeps ==
  ASSUME NEW c, NEW s \in Seq(Rules), c.rule \in Rules, ~c.moved, Unhides(c)
  PROVE  Keeps(c, s, [i \in DOMAIN s |-> IF s[i].id = c.rule.id THEN c.rule ELSE s[i]])
<1>1. PICK o : o = [i \in DOMAIN s |-> IF s[i].id = c.rule.id THEN c.rule ELSE s[i]]
  OBVIOUS
<1>2. \A i \in DOMAIN s : o[i] \in Rules /\ o[i].id = s[i].id
  BY <1>1, RuleTypes
<1>3. o \in Seq(Rules) /\ DOMAIN o = DOMAIN s
  BY <1>1, <1>2, MappedRules
<1>4. \A id : Holds(s, id) => Holds(o, id)
  BY <1>2, <1>3 DEF Holds
<1> QED BY <1>1, <1>3, <1>4 DEF Keeps

\* plan_trade_link_rules: the rule of the buying leg first, then that of the selling leg.
LEMMA LinkKeeps ==
  ASSUME NEW c, NEW s \in Seq(Rules), ~c.moved, Unhides(c)
  PROVE  Keeps(c, s, save_trade_link(c, s)) /\ LinkFirst(c, save_trade_link(c, s))
<1>1. PICK q, r : q = link_rules(c)[1] /\ r = link_rules(c)[2]
  OBVIOUS
<1>2. \E k \in {"leg", "txn"} :
        /\ q = Rule(<<LinkId, "sell">>, k, "sell", "sell") /\ r = Rule(<<LinkId, "buy">>, k, "buy", "buy")
  BY <1>1 DEF link_rules
<1>3. PICK k \in {"leg", "txn"} :
        /\ q = [id |-> <<LinkId, "sell">>, kind |-> k, row |-> "sell", does |-> "sell"]
        /\ r = [id |-> <<LinkId, "buy">>, kind |-> k, row |-> "buy", does |-> "buy"]
  BY <1>2 DEF Rule
<1>4. k \in DOMAIN Precedence
  BY DEF Precedence
<1>5. <<LinkId, "sell">> \in RuleIds /\ <<LinkId, "buy">> \in RuleIds
  BY DEF RuleIds, Swap
<1>6. q \in Rules /\ r \in Rules /\ Anchored(q) /\ Anchored(r)
  BY <1>3, <1>4, <1>5 DEF Rules, Swap, Effects, Anchored
<1>7. PICK t : t = insert_rule(s, q)
  OBVIOUS
<1>8. Keeps(c, s, t) /\ t \in Seq(Rules) /\ t[1] = q /\ Len(t) = Len(s) + 1
  BY <1>6, <1>7, InsertKeeps, Inserted DEF Keeps
<1>9. PICK o : o = insert_rule(t, r)
  OBVIOUS
<1>10. Keeps(c, t, o) /\ o[1] = r /\ Len(o) = Len(t) + 1 /\ \A i \in 1 .. Len(t) : o[i + 1] = t[i]
  <2>1. Keeps(c, t, o)
    BY <1>6, <1>8, <1>9, InsertKeeps
  <2>2. /\ Len(insert_rule(t, r)) = Len(t) + 1
        /\ Anchored(r) => /\ insert_rule(t, r)[1] = r
                          /\ \A i \in 1 .. Len(t) : insert_rule(t, r)[i + 1] = t[i]
    BY <1>6, <1>8, Inserted
  <2> QED BY <1>6, <1>9, <2>1, <2>2
<1>11. PICK m \in Nat : m = Len(s)
  BY LenProperties
<1>12. Len(o) > 1 /\ o[1 + 1] = q
  <2>1. 1 \in 1 .. Len(t)
    BY <1>8, <1>11
  <2> QED BY <1>8, <1>10, <1>11, <2>1
<1>13. save_trade_link(c, s) = o
  BY <1>1, <1>7, <1>9 DEF save_trade_link
<1>14. Keeps(c, s, o)
  BY <1>8, <1>10 DEF Keeps
<1> QED BY <1>1, <1>10, <1>12, <1>13, <1>14 DEF LinkFirst

\* The migrate tool: rules with ids of their own stay, none becomes one for a leg, and
\* what is first among the anchored ones stays first.
LEMMA MigrateKeeps ==
  ASSUME NEW c, NEW s \in Seq(Rules), ~c.moved, c.op = "migrate"
  PROVE  Keeps(c, s, migrate_rules(c, s))
<1>1. PICK b : b = [i \in DOMAIN s |-> IF s[i].kind = "meta" THEN [s[i] EXCEPT !.kind = "txn"] ELSE s[i]]
  OBVIOUS
<1>2. \A i \in DOMAIN s : /\ b[i] \in Rules /\ b[i].id = s[i].id
                          /\ s[i].kind # "leg" => b[i].kind # "leg"
                          /\ s[i].kind # "meta" => b[i] = s[i]
  <2> SUFFICES ASSUME NEW i \in DOMAIN s
               PROVE  /\ b[i] \in Rules /\ b[i].id = s[i].id
                      /\ s[i].kind # "leg" => b[i].kind # "leg"
                      /\ s[i].kind # "meta" => b[i] = s[i]
    OBVIOUS
  <2>1. s[i] \in Rules /\ "txn" \in DOMAIN Precedence
    BY RuleTypes DEF Precedence
  <2>2. [s[i] EXCEPT !.kind = "txn"] \in Rules
    BY <2>1 DEF Rules
  <2>3. [s[i] EXCEPT !.kind = "txn"].id = s[i].id /\ [s[i] EXCEPT !.kind = "txn"].kind = "txn"
    BY <2>1 DEF Rules
  <2> QED BY <1>1, <2>1, <2>2, <2>3
<1>3. b \in Seq(Rules) /\ DOMAIN b = DOMAIN s /\ Len(b) = Len(s)
  BY <1>1, <1>2, MappedRules
<1>4. PICK I : I = {i \in DOMAIN s : Anchored(b[i])}
  OBVIOUS
<1>5. PICK x, y : x = Only(b, I) /\ y = Only(b, DOMAIN s \ I)
  OBVIOUS
<1>6. /\ x \in Seq(Rules) /\ ToSet(x) = {b[i] : i \in I}
      /\ 1 \in I => Len(x) > 0 /\ x[1] = b[1]
      /\ y \in Seq(Rules) /\ ToSet(y) = {b[i] : i \in DOMAIN s \ I}
  <2>1. I \in SUBSET DOMAIN b /\ DOMAIN s \ I \in SUBSET DOMAIN b
    BY <1>3, <1>4
  <2> QED BY <1>3, <1>5, <2>1, OnlySet
<1>7. PICK m : m = x \o y
  OBVIOUS
<1>8. /\ m \in Seq(Rules) /\ ToSet(m) = ToSet(x) \cup ToSet(y) /\ Len(m) = Len(x) + Len(y)
      /\ \A i \in 1 .. Len(x) : m[i] = x[i]
  BY <1>6, <1>7, JoinedSet
<1>9. migrate_legacy_anchored(s) = m
  BY <1>1, <1>4, <1>5, <1>7 DEF migrate_legacy_anchored
<1>10. ToSet(m) = {b[i] : i \in DOMAIN s}
  <2>1. I \subseteq DOMAIN s
    BY <1>4
  <2> QED BY <1>6, <1>8, <2>1
<1>11. HideFirst(s) => HideFirst(m)
  <2> SUFFICES ASSUME HideFirst(s) PROVE HideFirst(m)
    OBVIOUS
  <2>1. 1 \in DOMAIN s /\ s[1].kind = "txn"
    BY LenProperties DEF HideFirst
  <2>2. b[1] = s[1] /\ 1 \in I
    BY <1>2, <1>4, <2>1 DEF Anchored
  <2>3. 1 \in 1 .. Len(x) /\ Len(x) \in Nat /\ Len(y) \in Nat
    BY <1>6, <2>2, LenProperties
  <2> QED BY <1>6, <1>8, <2>2, <2>3 DEF HideFirst
<1>12. PICK t : t = [i \in DOMAIN m |->
                  IF m[i].id[1] = "ai" THEN [m[i] EXCEPT !.id = AiId(m[i].kind, m[i].does)] ELSE m[i]]
  OBVIOUS
<1>13. \A i \in DOMAIN m : t[i] \in Rules /\ t[i].kind = m[i].kind /\ (m[i].id[1] # "ai" => t[i] = m[i])
  <2> SUFFICES ASSUME NEW i \in DOMAIN m
               PROVE  t[i] \in Rules /\ t[i].kind = m[i].kind /\ (m[i].id[1] # "ai" => t[i] = m[i])
    OBVIOUS
  <2>1. m[i] \in Rules
    BY <1>8, RuleTypes
  <2>2. AiId(m[i].kind, m[i].does) \in RuleIds
    BY <2>1 DEF AiId, RuleIds, Rules
  <2>3. [m[i] EXCEPT !.id = AiId(m[i].kind, m[i].does)] \in Rules
    BY <2>1, <2>2 DEF Rules
  <2>4. [m[i] EXCEPT !.id = AiId(m[i].kind, m[i].does)].kind = m[i].kind
    BY <2>1 DEF Rules
  <2> QED BY <1>12, <2>1, <2>3, <2>4
<1>14. t \in Seq(Rules) /\ DOMAIN t = DOMAIN m /\ Len(t) = Len(m)
  BY <1>8, <1>12, <1>13, MappedRules
<1>15. PICK J : J = {i \in DOMAIN m : ~(t[i].id[1] = "ai" /\ \E j \in 1 .. i - 1 : t[j].id = t[i].id)}
  OBVIOUS
<1>16. PICK o : o = Only(t, J)
  OBVIOUS
<1>17. /\ o \in Seq(Rules) /\ ToSet(o) = {t[i] : i \in J}
       /\ 1 \in J => Len(o) > 0 /\ o[1] = t[1]
  <2>1. J \in SUBSET DOMAIN t
    BY <1>14, <1>15
  <2> QED BY <1>14, <1>16, <2>1, OnlySet
<1>18. migrate_rules(c, s) = o
  BY <1>9, <1>12, <1>15, <1>16 DEF migrate_rules, dedupe_ai_ids
<1>19. ASSUME NEW id, Holds(s, id) PROVE Holds(o, id) \/ Drops(c, id)
  <2>1. SUFFICES ASSUME id[1] # "ai" PROVE Holds(o, id)
    BY DEF Drops
  <2>2. PICK i \in DOMAIN s : s[i].id = id
    BY <1>19 DEF Holds
  <2>3. b[i].id = id /\ b[i] \in ToSet(m)
    BY <1>2, <1>10, <2>2
  <2>4. PICK k \in DOMAIN m : m[k] = b[i]
    BY <2>3 DEF ToSet
  <2>5. t[k].id = id /\ k \in J
    BY <1>13, <1>15, <2>1, <2>3, <2>4
  <2>6. t[k] \in ToSet(o)
    BY <1>17, <2>5
  <2> QED BY <1>17, <2>5, <2>6, ElementsOf
<1>20. NoLeg(s) => NoLeg(o)
  <2> SUFFICES ASSUME NoLeg(s), NEW r \in ToSet(o) PROVE r.kind # "leg"
    BY <1>17, ElementsOf
  <2>1. PICK k \in J : r = t[k]
    BY <1>17
  <2>2. k \in DOMAIN m /\ t[k].kind = m[k].kind
    BY <1>13, <1>15
  <2>3. m[k] \in ToSet(m)
    BY <2>2 DEF ToSet
  <2>4. PICK i \in DOMAIN s : m[k] = b[i]
    BY <1>10, <2>3
  <2> QED BY <1>2, <2>1, <2>2, <2>4 DEF NoLeg
<1>21. HideFirst(s) => HideFirst(o)
  <2> SUFFICES ASSUME HideFirst(m) PROVE HideFirst(o)
    BY <1>11
  <2>1. 1 \in DOMAIN m /\ m[1].id[1] # "ai"
    BY <1>8, LenProperties DEF HideFirst
  <2>2. t[1] = m[1] /\ 1 \in J
    BY <1>13, <1>15, <2>1
  <2> QED BY <1>17, <2>2 DEF HideFirst
<1> QED BY <1>17, <1>18, <1>19, <1>20, <1>21 DEF Keeps

\* Every command keeps what it does not drop.
LEMMA EditedKeeps ==
  ASSUME NEW c \in Commands, CommandOK(c), NEW s \in Seq(Rules)
  PROVE  Keeps(c, s, Edited(c, s))
<1>0. c.rule \in Rules /\ c.op \in Ops /\ c.moved \in BOOLEAN
  BY DEF Commands
<1>1. CASE c.op = "save_rule"
  <2>1. ~c.moved /\ (Anchored(c.rule) => Unhides(c))
    BY <1>1 DEF CommandOK, Unhides
  <2>2. Edited(c, s) \in {s, insert_rule(s, c.rule)}
    BY <1>1 DEF Edited, save_rule
  <2> QED BY <1>0, <2>1, <2>2, SameKeeps, InsertKeeps
<1>2. CASE c.op = "classify"
  <2>1. ~c.moved /\ ~Anchored(c.rule)
    BY <1>2 DEF CommandOK, Anchored
  <2>2. Edited(c, s) \in {s, insert_rule(s, c.rule)}
    BY <1>2 DEF Edited, AddIfNew
  <2> QED BY <1>0, <2>1, <2>2, SameKeeps, InsertKeeps
<1>3. CASE c.op = "hide"
  <2>1. ~c.moved /\ c.rule.kind = "txn"
    BY <1>3 DEF CommandOK
  <2>2. PICK o : o = insert_rule(s, c.rule)
    OBVIOUS
  <2>3. Edited(c, s) = IF \E i \in DOMAIN s : SamePattern(s[i], c.rule) THEN s ELSE o
    BY <1>3, <2>2 DEF Edited, AddIfNew
  <2>4. o \in Seq(Rules) /\ ToSet(o) = ToSet(s) \cup {c.rule}
    BY <1>0, <2>2, Inserted
  <2>5. \A id : Holds(s, id) => Holds(o, id)
    BY <2>4, ElementsOf
  <2>6. NoLeg(s) => NoLeg(o)
    BY <2>1, <2>4, ElementsOf
  <2>7. HideFirst(s) => \E i \in DOMAIN s : SamePattern(s[i], c.rule)
    <3> SUFFICES ASSUME HideFirst(s) PROVE 1 \in DOMAIN s /\ SamePattern(s[1], c.rule)
      OBVIOUS
    <3>1. 1 \in DOMAIN s /\ s[1].kind = "txn"
      BY LenProperties DEF HideFirst
    <3> QED BY <2>1, <3>1 DEF SamePattern
  <2> QED BY <2>1, <2>3, <2>4, <2>5, <2>6, <2>7 DEF Keeps
<1>4. CASE c.op = "update_rule"
  <2>1. Unhides(c)
    BY <1>4 DEF Unhides
  <2>2. CASE c.moved
    <3>1. Edited(c, s) = insert_rule(s, c.rule)
      BY <1>4, <2>2 DEF Edited, update_rule
    <3>2. PICK o : o = insert_rule(s, c.rule)
      OBVIOUS
    <3>3. Keeps(c, s, o)
      BY <1>0, <2>1, <3>2, InsertKeeps
    <3> QED BY <3>1, <3>2, <3>3
  <2>3. CASE ~c.moved /\ c.target = c.folder
    <3>1. Edited(c, s) = [i \in DOMAIN s |-> IF s[i].id = c.rule.id THEN c.rule ELSE s[i]]
      BY <1>4, <2>3 DEF Edited, update_rule
    <3> QED BY <1>0, <2>1, <2>3, <3>1, ReplaceKeeps
  <2>4. CASE ~c.moved /\ c.target # c.folder
    <3>1. Edited(c, s) = Only(s, {i \in DOMAIN s : s[i].id # c.rule.id})
      BY <1>4, <2>4 DEF Edited, update_rule, Without
    <3>2. PICK I : I = {i \in DOMAIN s : s[i].id # c.rule.id}
      OBVIOUS
    <3>3. I \in SUBSET DOMAIN s /\ \A i \in DOMAIN s \ I : Drops(c, s[i].id)
      BY <2>4, <3>2 DEF Drops
    <3>4. Keeps(c, s, Only(s, I))
      BY <2>1, <2>4, <3>3, OnlyKeeps
    <3> QED BY <3>1, <3>2, <3>4
  <2> QED BY <1>0, <2>2, <2>3, <2>4
<1>5. CASE c.op = "delete_rule"
  <2>1. Edited(c, s) = Only(s, {i \in DOMAIN s : s[i].id # c.rule.id})
    BY <1>5 DEF Edited, delete_rule, Without
  <2>2. PICK I : I = {i \in DOMAIN s : s[i].id # c.rule.id}
    OBVIOUS
  <2>3. I \in SUBSET DOMAIN s /\ \A i \in DOMAIN s \ I : Drops(c, s[i].id)
    BY <1>5, <2>2 DEF Drops
  <2>4. ~c.moved /\ Unhides(c)
    BY <1>5 DEF CommandOK, Unhides
  <2>5. Keeps(c, s, Only(s, I))
    BY <2>3, <2>4, OnlyKeeps
  <2> QED BY <2>1, <2>2, <2>5
<1>6. CASE c.op = "save_trade_link"
  <2>1. Edited(c, s) = save_trade_link(c, s)
    BY <1>6 DEF Edited
  <2>2. ~c.moved /\ Unhides(c)
    BY <1>6 DEF CommandOK, Unhides
  <2> QED BY <2>1, <2>2, LinkKeeps
<1>7. CASE c.op = "delete_trade_link"
  <2>1. Edited(c, s) = Only(s, {i \in DOMAIN s : ~IsLinkRule(s[i])})
    BY <1>7 DEF Edited, remove_trade_link_rules
  <2>2. PICK I : I = {i \in DOMAIN s : ~IsLinkRule(s[i])}
    OBVIOUS
  <2>3. I \in SUBSET DOMAIN s /\ \A i \in DOMAIN s \ I : Drops(c, s[i].id)
    BY <1>7, <2>2 DEF Drops, IsLinkRule, Swap
  <2>4. ~c.moved /\ Unhides(c)
    BY <1>7 DEF CommandOK, Unhides
  <2>5. Keeps(c, s, Only(s, I))
    BY <2>3, <2>4, OnlyKeeps
  <2> QED BY <2>1, <2>2, <2>5
<1>8. CASE c.op = "repair_links"
  <2>1. Edited(c, s) \in {s, save_trade_link(c, s)}
    BY <1>8 DEF Edited, repair_links
  <2>2. ~c.moved /\ Unhides(c)
    BY <1>8 DEF CommandOK, Unhides
  <2> QED BY <2>1, <2>2, LinkKeeps, SameKeeps
<1>9. CASE c.op = "import"
  <2>1. ~c.moved /\ ~Anchored(c.rule)
    BY <1>9 DEF CommandOK, Anchored
  <2>2. Edited(c, s) = insert_rule(s, c.rule)
    BY <1>9 DEF Edited, import_rules_csv
  <2> QED BY <1>0, <2>1, <2>2, InsertKeeps
<1>10. CASE c.op = "migrate"
  <2>1. Edited(c, s) = migrate_rules(c, s) /\ ~c.moved
    BY <1>10 DEF Edited, CommandOK
  <2> QED BY <1>10, <2>1, MigrateKeeps
<1> QED BY <1>0, <1>1, <1>2, <1>3, <1>4, <1>5, <1>6, <1>7, <1>8, <1>9, <1>10 DEF Ops

\* A hide that is saved comes first, and so do the rules of a link.
LEMMA EditedFirst ==
  ASSUME NEW c \in Commands, CommandOK(c), NEW s \in Seq(Rules), ~Unsaved(c, s)
  PROVE  /\ c.op = "hide" => HideFirst(Edited(c, s))
         /\ c.op = "save_trade_link" => LinkFirst(c, Edited(c, s))
<1>1. ASSUME c.op = "hide" PROVE HideFirst(Edited(c, s))
  <2>1. /\ c.rule \in Rules /\ c.rule.kind = "txn" /\ c.rule.row = "both" /\ c.rule.does = "hide"
        /\ c.rule.id[1] # "ai" /\ Anchored(c.rule)
    BY <1>1 DEF CommandOK, Commands, Anchored
  <2>2. Edited(c, s) = insert_rule(s, c.rule)
    BY <1>1 DEF Edited, AddIfNew, Unsaved
  <2>3. PICK o : o = insert_rule(s, c.rule)
    OBVIOUS
  <2>4. Len(o) = Len(s) + 1 /\ o[1] = c.rule /\ Len(s) \in Nat
    BY <2>1, <2>3, Inserted, LenProperties
  <2> QED BY <2>1, <2>2, <2>3, <2>4 DEF HideFirst
<1>2. ASSUME c.op = "save_trade_link" PROVE LinkFirst(c, Edited(c, s))
  <2>1. Edited(c, s) = save_trade_link(c, s) /\ ~c.moved /\ Unhides(c)
    BY <1>2 DEF Edited, CommandOK, Unhides
  <2> QED BY <2>1, LinkKeeps
<1> QED BY <1>1, <1>2

-----------------------------------------------------------------------------
(* Steps of the rules files.                                               *)

\* What a writer is at.
LEMMA WriterTypes ==
  ASSUME RuleTypesOK, NEW w \in Writers
  PROVE  /\ Busy(w) <=> writers[w].at \in {"load", "save", "write"}
         /\ Busy(w) => /\ writers[w].c \in Commands /\ writers[w].c.folder \in Folders /\ writers[w].c.target \in Folders
                       /\ writers[w].c.folder \in Touched(w) /\ writers[w].c.target \in Touched(w)
                       /\ Touched(w) = {writers[w].c.folder, writers[w].c.target}
         /\ ~Busy(w) => Touched(w) = {}
         /\ Busy(w) /\ writers[w].at = "load" => writers[w] = [at |-> "load", c |-> writers[w].c]
         /\ Edits(w) => /\ writers[w].copy \in Seq(Rules)
                        /\ writers[w] = [at |-> writers[w].at, c |-> writers[w].c, copy |-> writers[w].copy]
<1>1. writers[w] \in {Idle} \cup [at : {"load"}, c : Commands]
                            \cup [at : {"save", "write"}, c : Commands, copy : Seq(Rules)]
  BY DEF RuleTypesOK
<1>2. CASE writers[w] = Idle
  BY <1>2 DEF Busy, Idle, Touched, Edits
<1>3. CASE writers[w] \in [at : {"load"}, c : Commands]
  <2>1. writers[w].at = "load" /\ writers[w].c \in Commands /\ writers[w] # Idle
    BY <1>3 DEF Idle
  <2> QED BY <1>3, <2>1 DEF Busy, Touched, Edits, Commands
<1>4. CASE writers[w] \in [at : {"save", "write"}, c : Commands, copy : Seq(Rules)]
  <2>1. writers[w].at \in {"save", "write"} /\ writers[w].c \in Commands /\ writers[w] # Idle
    BY <1>4 DEF Idle
  <2> QED BY <1>4, <2>1 DEF Busy, Touched, Edits, Commands
<1> QED BY <1>1, <1>2, <1>3, <1>4

\* A file can be read as rules.
LEMMA LoadTypes ==
  ASSUME RuleTypesOK, NEW f \in Folders
  PROVE  load(f) \in Seq(Rules) /\ (files[f] # Torn => load(f) = files[f]) /\ (files[f] = Torn => load(f) = <<>>)
<1>1. files[f] \in Seq(Rules) \cup {Torn}
  BY DEF RuleTypesOK
<1> QED BY <1>1, EmptySeq DEF load

\* Folders and rules of the chain.
LEMMA ChainTypes ==
  ASSUME RuleTypesOK
  PROVE  /\ \A f \in Folders : \A i \in DOMAIN Chain[f] : i \in Nat /\ Chain[f][i] \in Folders
         /\ Leaf \in Folders /\ Reachable(Leaf) \subseteq Rules
         /\ \A id : find_rule_folder(Leaf, id) \in Folders
<1>1. ASSUME NEW f \in Folders, NEW i \in DOMAIN Chain[f] PROVE i \in Nat /\ Chain[f][i] \in Folders
  <2>1. Chain[f] \in Seq(Folders)
    BY RuleFilesAssumption
  <2> QED BY <2>1, LenProperties, ElementOfSeq
<1>2. Leaf \in Folders
  BY RuleFilesAssumption
<1>3. Reachable(Leaf) \subseteq Rules
  <2> SUFFICES ASSUME NEW i \in DOMAIN Chain[Leaf], NEW j \in DOMAIN load(Chain[Leaf][i])
               PROVE load(Chain[Leaf][i])[j] \in Rules
    BY DEF Reachable, RulesOf
  <2>1. PICK s : s = load(Chain[Leaf][i])
    OBVIOUS
  <2>2. s \in Seq(Rules)
    BY <1>1, <1>2, <2>1, LoadTypes
  <2> QED BY <2>1, <2>2, RuleTypes
<1>4. ASSUME NEW id PROVE find_rule_folder(Leaf, id) \in Folders
  <2>1. PICK has : has = {i \in DOMAIN Chain[Leaf] : Holds(load(Chain[Leaf][i]), id)}
    OBVIOUS
  <2>2. find_rule_folder(Leaf, id) = IF has = {} THEN Leaf ELSE Chain[Leaf][CHOOSE i \in has : \A j \in has : i <= j]
    BY <2>1 DEF find_rule_folder
  <2>3. has # {} => \E i \in has : \A j \in has : i <= j
    <3> SUFFICES ASSUME has # {} PROVE \E i \in has : \A j \in has : i <= j
      OBVIOUS
    <3>1. has \in SUBSET Nat
      BY <1>1, <1>2, <2>1
    <3> QED BY <3>1, LeastPlace
  <2>4. has # {} => (CHOOSE i \in has : \A j \in has : i <= j) \in DOMAIN Chain[Leaf]
    BY <2>1, <2>3
  <2> QED BY <1>1, <1>2, <2>2, <2>4
<1> QED BY <1>1, <1>2, <1>3, <1>4

\* The commands that may start are commands.
LEMMA CommandTypes ==
  ASSUME RuleTypesOK, NEW c \in RuleCommands \cup LinkCommands
  PROVE  c \in Commands /\ CommandOK(c) /\ ~c.moved
<1> DEFINE Good(d) == d \in Commands /\ CommandOK(d) /\ ~d.moved
<1>0. /\ Leaf \in Folders /\ Reachable(Leaf) \subseteq Rules
      /\ \A id : find_rule_folder(Leaf, id) \in Folders
  BY ChainTypes
<1>1. ASSUME NEW op \in Ops, NEW f \in Folders, NEW r \in Rules,
             op = "hide" => /\ f = Leaf /\ r.kind = "txn" /\ r.row = "both"
                            /\ r.does = "hide" /\ r.id[1] = "rule",
             op \in {"classify", "import"} => r.kind = "general"
      PROVE  Good(RuleCommand(op, f, r))
  BY <1>1 DEF RuleCommand, Command, Commands, CommandOK
<1>2. NewId \in RuleIds /\ NewId[1] = "rule" /\ \A k \in DOMAIN Precedence, d \in Effects : AiId(k, d) \in RuleIds
  BY DEF NewId, AiId, RuleIds, RuleTypesOK
<1>3. ASSUME NEW id \in RuleIds, NEW k \in DOMAIN Precedence, NEW row \in Swap \cup {"both"}, NEW d \in Effects
      PROVE  /\ Rule(id, k, row, d) \in Rules /\ Rule(id, k, row, d).kind = k /\ Rule(id, k, row, d).id = id
             /\ Rule(id, k, row, d).row = row /\ Rule(id, k, row, d).does = d
  BY DEF Rule, Rules
<1>4. {"leg", "txn", "meta", "general"} \cup Kinds \subseteq DOMAIN Precedence
  BY RulesAssumption DEF Precedence
<1>5. {"a", "b", "c", "hide", "sell", "buy", "fallback"} \subseteq Effects
  BY DEF Effects
<1> HIDE DEF Good
<1>6. ASSUME NEW id \in RuleIds, NEW k \in DOMAIN Precedence, NEW row \in Swap \cup {"both"}, NEW d \in Effects,
             NEW op \in Ops, NEW f \in Folders,
             op = "hide" => f = Leaf /\ k = "txn" /\ row = "both" /\ d = "hide" /\ id[1] = "rule",
             op \in {"classify", "import"} => k = "general"
      PROVE  Good(RuleCommand(op, f, Rule(id, k, row, d)))
  <2>1. PICK q : q = Rule(id, k, row, d)
    OBVIOUS
  <2>2. q \in Rules /\ q.kind = k /\ q.id = id /\ q.row = row /\ q.does = d
    BY <1>3, <2>1
  <2>3. Good(RuleCommand(op, f, q))
    BY <1>1, <1>6, <2>2
  <2> QED BY <2>1, <2>3
<1>7. NewId \in RuleIds /\ NewId[1] = "rule" /\ AiId("general", "b") \in RuleIds /\ <<LinkId, "both">> \in RuleIds
  <2>1. "general" \in DOMAIN Precedence /\ "b" \in Effects
    BY <1>4, <1>5
  <2> QED BY <1>2, <2>1 DEF RuleIds
<1>8. ASSUME NEW f \in Folders, NEW k \in Kinds, NEW d \in {"a", "fallback"}
      PROVE  Good(RuleCommand("save_rule", f, Rule(NewId, k, "both", d)))
  <2>1. k \in DOMAIN Precedence /\ d \in Effects /\ "save_rule" \in Ops
    BY <1>4, <1>5 DEF Ops
  <2> QED BY <1>6, <1>7, <2>1
<1>9. ASSUME NEW f \in Folders, NEW row \in Swap \cup {"both"}
      PROVE  Good(RuleCommand("save_rule", f, Rule(NewId, "leg", row, "a")))
  <2>1. "leg" \in DOMAIN Precedence /\ "a" \in Effects /\ "save_rule" \in Ops
    BY <1>4, <1>5 DEF Ops
  <2> QED BY <1>6, <1>7, <2>1
<1>10. ASSUME NEW f \in Folders
       PROVE  /\ Good(RuleCommand("classify", f, Rule(AiId("general", "b"), "general", "both", "b")))
              /\ Good(RuleCommand("import", f, Rule(NewId, "general", "both", "b")))
              /\ Good(RuleCommand("migrate", f, Rule(NewId, "meta", "both", "a")))
  <2>1. "general" \in DOMAIN Precedence /\ "meta" \in DOMAIN Precedence /\ "a" \in Effects /\ "b" \in Effects
    BY <1>4, <1>5
  <2>2. {"classify", "import", "migrate"} \subseteq Ops
    BY DEF Ops
  <2>3. Good(RuleCommand("classify", f, Rule(AiId("general", "b"), "general", "both", "b")))
    BY <1>6, <1>7, <2>1, <2>2
  <2>4. Good(RuleCommand("import", f, Rule(NewId, "general", "both", "b")))
    BY <1>6, <1>7, <2>1, <2>2
  <2>5. Good(RuleCommand("migrate", f, Rule(NewId, "meta", "both", "a")))
    BY <1>6, <1>7, <2>1, <2>2
  <2> QED BY <2>3, <2>4, <2>5
<1>11. Good(RuleCommand("hide", Leaf, Rule(NewId, "txn", "both", "hide")))
  <2>1. "txn" \in DOMAIN Precedence /\ "hide" \in Effects /\ "hide" \in Ops
    BY <1>4, <1>5 DEF Ops
  <2> QED BY <1>0, <1>6, <1>7, <2>1
<1>12. ASSUME NEW r \in Reachable(Leaf)
       PROVE  Good(RuleCommand("delete_rule", find_rule_folder(Leaf, r.id), r))
  BY <1>0, <1>1 DEF Ops
<1>13. ASSUME NEW r \in Reachable(Leaf), NEW t \in Folders, NEW d \in {"a", "c"}
       PROVE  Good(UpdateCommand(r, t, d))
  <2>1. [r EXCEPT !.does = d] \in Rules
    BY <1>0, <1>5 DEF Rules
  <2>2. PICK q, f : q = [r EXCEPT !.does = d] /\ f = find_rule_folder(Leaf, r.id) /\ q \in Rules /\ f \in Folders
    BY <1>0, <2>1
  <2>3. Good(Command("update_rule", f, t, q, FALSE))
    BY <2>2 DEF Good, Command, Commands, CommandOK, Ops
  <2>4. UpdateCommand(r, t, d) = Command("update_rule", f, t, q, FALSE)
    BY <2>2 DEF UpdateCommand
  <2> QED BY <2>3, <2>4
<1>14. ASSUME NEW op \in {"save_trade_link", "delete_trade_link", "repair_links"}, NEW f \in Folders, NEW legs \in BOOLEAN,
              legs => f = Leaf
       PROVE  Good(LinkCommand(op, f, legs))
  <2>1. "txn" \in DOMAIN Precedence /\ "sell" \in Effects
    BY <1>4, <1>5
  <2>2. PICK q \in Rules : q = Rule(<<LinkId, "both">>, "txn", "both", "sell")
    BY <1>3, <1>7, <2>1
  <2>3. LinkCommand(op, f, legs) = Command(op, f, f, q, legs)
    BY <2>2 DEF LinkCommand
  <2>4. Good(Command(op, f, f, q, legs))
    BY <1>14, <2>2 DEF Good, Command, Commands, CommandOK, Ops
  <2> QED BY <2>3, <2>4
<1>15. c \in RuleCommands => Good(c)
  <2>1. SUFFICES ASSUME c \in RuleCommands PROVE Good(c)
    OBVIOUS
  <2>2. \/ \E f \in Folders, k \in Kinds, d \in {"a", "fallback"} : c = RuleCommand("save_rule", f, Rule(NewId, k, "both", d))
        \/ \E f \in Folders, row \in Swap \cup {"both"} : c = RuleCommand("save_rule", f, Rule(NewId, "leg", row, "a"))
        \/ \E f \in Folders : \/ c = RuleCommand("classify", f, Rule(AiId("general", "b"), "general", "both", "b"))
                              \/ c = RuleCommand("import", f, Rule(NewId, "general", "both", "b"))
                              \/ c = RuleCommand("migrate", f, Rule(NewId, "meta", "both", "a"))
        \/ c = RuleCommand("hide", Leaf, Rule(NewId, "txn", "both", "hide"))
        \/ \E r \in Reachable(Leaf) : c = RuleCommand("delete_rule", find_rule_folder(Leaf, r.id), r)
        \/ \E r \in Reachable(Leaf), t \in Folders, d \in {"a", "c"} :
             c = UpdateCommand(r, t, d)
    BY <2>1 DEF RuleCommands
  <2>3. CASE \E f \in Folders, k \in Kinds, d \in {"a", "fallback"} : c = RuleCommand("save_rule", f, Rule(NewId, k, "both", d))
    BY <1>8, <2>3
  <2>4. CASE \E f \in Folders, row \in Swap \cup {"both"} : c = RuleCommand("save_rule", f, Rule(NewId, "leg", row, "a"))
    BY <1>9, <2>4
  <2>5. CASE \E f \in Folders : \/ c = RuleCommand("classify", f, Rule(AiId("general", "b"), "general", "both", "b"))
                                \/ c = RuleCommand("import", f, Rule(NewId, "general", "both", "b"))
                                \/ c = RuleCommand("migrate", f, Rule(NewId, "meta", "both", "a"))
    BY <1>10, <2>5
  <2>6. CASE c = RuleCommand("hide", Leaf, Rule(NewId, "txn", "both", "hide"))
    BY <1>11, <2>6
  <2>7. CASE \E r \in Reachable(Leaf) : c = RuleCommand("delete_rule", find_rule_folder(Leaf, r.id), r)
    BY <1>12, <2>7
  <2>8. CASE \E r \in Reachable(Leaf), t \in Folders, d \in {"a", "c"} :
               c = UpdateCommand(r, t, d)
    BY <1>13, <2>8
  <2> QED BY <2>2, <2>3, <2>4, <2>5, <2>6, <2>7, <2>8
<1>16. c \in LinkCommands => Good(c)
  <2>1. SUFFICES ASSUME c \in LinkCommands PROVE Good(c)
    OBVIOUS
  <2>2. \E op \in {"save_trade_link", "delete_trade_link", "repair_links"}, f \in Folders, legs \in BOOLEAN :
          (legs => f = Leaf) /\ c = LinkCommand(op, f, legs)
    BY <1>0, <2>1 DEF LinkCommands
  <2> QED BY <1>14, <2>2
<1> QED BY <1>15, <1>16 DEF Good

LEMMA InitRuleInv == RuleFilesInit => RuleInv
<1> SUFFICES ASSUME RuleFilesInit PROVE RuleInv
  OBVIOUS
<1>1. /\ files = [f \in Folders |-> <<>>] /\ writers = [w \in Writers |-> Idle] /\ commands = 0
      /\ owed = {} /\ linked = FALSE /\ hidden = FALSE /\ crowded = {}
  BY DEF RuleFilesInit
<1>2. <<>> \in Seq(Rules) /\ <<>> # Torn
  BY RulesAssumption, EmptySeq
<1>3. RuleTypesOK
  BY <1>1, <1>2 DEF RuleTypesOK
<1>4. \A w \in Writers : ~Busy(w) /\ ~Edits(w) /\ Touched(w) = {}
  BY <1>1 DEF Busy, Edits, Touched
<1>5. Alone
  BY <1>1, <1>2, <1>4 DEF Alone
<1> QED BY <1>1, <1>3, <1>4, <1>5 DEF RuleInv, OwedOK, CopiesOK, HiddenOK

\* The other writers in a step of one.
LEMMA OtherWriters ==
  ASSUME RuleTypesOK, NEW w \in Writers, NEW x, writers' = [writers EXCEPT ![w] = x]
  PROVE  /\ writers'[w] = x
         /\ \A v \in Writers \ {w} : /\ writers'[v] = writers[v] /\ (Busy(v)' <=> Busy(v)) /\ (Edits(v)' <=> Edits(v))
                                     /\ Touched(v)' = Touched(v)
         /\ Busy(w)' <=> x # Idle
         /\ Edits(w)' <=> x # Idle /\ x.at \in {"save", "write"}
         /\ Touched(w)' = IF x = Idle THEN {} ELSE {x.c.folder, x.c.target}
<1>1. writers'[w] = x /\ \A v \in Writers \ {w} : writers'[v] = writers[v]
  BY DEF RuleTypesOK
<1> QED BY <1>1 DEF Busy, Edits, Touched

\* A command starts.
LEMMA StartStep ==
  ASSUME RuleInv, NEW w \in Writers, NEW c \in RuleCommands \cup LinkCommands, Start(w, c)
  PROVE  RuleInv'
<1>0. RuleTypesOK /\ Alone /\ OwedOK /\ CopiesOK /\ HiddenOK
  BY DEF RuleInv
<1>1. c \in Commands /\ CommandOK(c) /\ c.folder \in Folders /\ c.target \in Folders
  <2>1. c \in Commands /\ CommandOK(c)
    BY <1>0, CommandTypes
  <2> QED BY <2>1 DEF Commands
<1>2. PICK x : x = [at |-> "load", c |-> c]
  OBVIOUS
<1>3. /\ writers[w] = Idle /\ commands' = commands + 1 /\ writers' = [writers EXCEPT ![w] = x]
      /\ crowded' = crowded \cup Overlap(w, c)
      /\ files' = files /\ owed' = owed /\ hidden' = hidden
  BY <1>2 DEF Start
<1>4. x # Idle /\ x.at = "load" /\ x.c = c /\ x \in [at : {"load"}, c : Commands]
  BY <1>1, <1>2 DEF Idle
<1>5. ~Busy(w) /\ ~Edits(w) /\ Touched(w) = {}
  BY <1>3 DEF Busy, Edits, Touched
<1>6. /\ writers'[w] = x
      /\ \A v \in Writers \ {w} : /\ writers'[v] = writers[v] /\ (Busy(v)' <=> Busy(v)) /\ (Edits(v)' <=> Edits(v))
                                  /\ Touched(v)' = Touched(v)
      /\ Busy(w)' /\ ~Edits(w)' /\ Touched(w)' = {c.folder, c.target}
  BY <1>0, <1>3, <1>4, OtherWriters
<1>7. \A f \in Folders : load(f)' = load(f)
  BY <1>3 DEF load
<1>8. \A f \in {c.folder, c.target} : f \notin crowded' => \A v \in Writers \ {w} : f \notin Touched(v)
  BY <1>3 DEF Overlap
<1>9. Overlap(w, c) \subseteq {c.folder, c.target}
  BY DEF Overlap
<1>10. RuleTypesOK'
  <2>1. linked' \in BOOLEAN
    BY <1>0 DEF Start, RuleTypesOK
  <2> QED BY <1>0, <1>1, <1>3, <1>4, <1>9, <2>1 DEF RuleTypesOK
<1>11. Alone'
  <2> SUFFICES ASSUME NEW f \in Folders \ crowded'
               PROVE  /\ \A u, v \in Writers : f \in Touched(u)' \cap Touched(v)' => u = v
                      /\ files'[f] = Torn => \E v \in Writers : Busy(v)' /\ writers'[v].at = "write" /\ writers'[v].c.folder = f
                      /\ \A v \in Writers : Edits(v)' /\ writers'[v].c.folder = f =>
                           IF writers'[v].at = "write" THEN files'[f] = Torn
                           ELSE files'[f] # Torn /\ writers'[v].copy = Edited(writers'[v].c, files'[f])
    BY DEF Alone
  <2>1. f \in Folders \ crowded
    BY <1>3
  <2>2. \A u, v \in Writers : f \in Touched(u)' \cap Touched(v)' => u = v
    BY <1>0, <1>6, <1>8, <2>1 DEF Alone
  <2>3. files'[f] = Torn => \E v \in Writers : Busy(v)' /\ writers'[v].at = "write" /\ writers'[v].c.folder = f
    BY <1>0, <1>3, <1>5, <1>6, <2>1 DEF Alone
  <2>4. \A v \in Writers : Edits(v)' /\ writers'[v].c.folder = f =>
                           IF writers'[v].at = "write" THEN files'[f] = Torn
                           ELSE files'[f] # Torn /\ writers'[v].copy = Edited(writers'[v].c, files'[f])
    BY <1>0, <1>3, <1>5, <1>6, <2>1 DEF Alone
  <2> QED BY <2>2, <2>3, <2>4
<1>12. OwedOK'
  <2> SUFFICES ASSUME NEW o \in owed, o[2] \notin crowded'
               PROVE  /\ (\A v \in Writers : ~(Busy(v)' /\ writers'[v].c.folder = o[2])) => Holds(load(o[2])', o[1])
                      /\ \A v \in Writers : Busy(v)' /\ writers'[v].c.folder = o[2] =>
                           IF writers'[v].at = "load"
                           THEN Holds(load(o[2])', o[1]) \/ (writers'[v].c.moved /\ o[1] = writers'[v].c.rule.id)
                           ELSE Holds(writers'[v].copy, o[1]) \/ Drops(writers'[v].c, o[1])
    BY <1>3 DEF OwedOK, Holds
  <2>1. o[2] \in Folders /\ o[2] \notin crowded /\ load(o[2])' = load(o[2])
    BY <1>0, <1>3, <1>7 DEF RuleTypesOK
  <2>2. /\ (\A v \in Writers : ~(Busy(v) /\ writers[v].c.folder = o[2])) => Holds(load(o[2]), o[1])
        /\ \A v \in Writers : Busy(v) /\ writers[v].c.folder = o[2] =>
             IF writers[v].at = "load"
             THEN Holds(load(o[2]), o[1]) \/ (writers[v].c.moved /\ o[1] = writers[v].c.rule.id)
             ELSE Holds(writers[v].copy, o[1]) \/ Drops(writers[v].c, o[1])
    BY <1>0, <2>1 DEF OwedOK
  <2>3. c.folder = o[2] => \A v \in Writers : ~(Busy(v) /\ writers[v].c.folder = o[2])
    <3> SUFFICES ASSUME c.folder = o[2], NEW v \in Writers, Busy(v), writers[v].c.folder = o[2] PROVE FALSE
      OBVIOUS
    <3>1. o[2] \in Touched(v) /\ v # w
      BY <1>0, <1>5, WriterTypes
    <3> QED BY <1>8, <3>1
  <2> QED BY <1>4, <1>5, <1>6, <2>1, <2>2, <2>3
<1>13. CopiesOK'
  <2> SUFFICES ASSUME NEW v \in Writers, Busy(v)'
               PROVE  /\ CommandOK(writers'[v].c)
                      /\ Edits(v)' /\ writers'[v].c.op = "hide" => HideFirst(writers'[v].copy)
                      /\ Edits(v)' /\ writers'[v].c.op = "save_trade_link" => LinkFirst(writers'[v].c, writers'[v].copy)
    BY DEF CopiesOK
  <2> QED BY <1>0, <1>1, <1>4, <1>6 DEF CopiesOK
<1>14. HiddenOK'
  <2> SUFFICES ASSUME hidden, crowded' = {}
               PROVE  /\ \A f \in Folders : files'[f] # Torn => Hides(f, files'[f])
                      /\ \A v \in Writers : Edits(v)' /\ ~Unhides(writers'[v].c) => Hides(writers'[v].c.folder, writers'[v].copy)
    BY <1>3 DEF HiddenOK
  <2> QED BY <1>0, <1>3, <1>6 DEF HiddenOK
<1> QED BY <1>10, <1>11, <1>12, <1>13, <1>14 DEF RuleInv

\* A command loads a folder's rules and edits its copy.
LEMMA LoadStep ==
  ASSUME RuleInv, NEW w \in Writers, LoadRules(w)
  PROVE  RuleInv'
<1>0. RuleTypesOK /\ Alone /\ OwedOK /\ CopiesOK /\ HiddenOK
  BY DEF RuleInv
<1>1. PICK c, f, s, x : /\ c = writers[w].c /\ f = c.folder /\ s = load(f)
                        /\ x = IF Unsaved(c, s) THEN Idle ELSE [at |-> "save", c |-> c, copy |-> Edited(c, s)]
  OBVIOUS
<1>2. /\ writers[w].at = "load" /\ writers' = [writers EXCEPT ![w] = x]
      /\ crowded' = crowded /\ files' = files /\ owed' = owed /\ linked' = linked /\ hidden' = hidden /\ commands' = commands
  BY <1>1 DEF LoadRules
<1>3. /\ Busy(w) /\ ~Edits(w) /\ c \in Commands /\ CommandOK(c) /\ f \in Folders /\ f \in Touched(w)
      /\ Touched(w) = {c.folder, c.target}
  <2>1. Busy(w)
    BY <1>0, <1>2, WriterTypes
  <2>2. CommandOK(c)
    BY <1>0, <1>1, <2>1 DEF CopiesOK
  <2> QED BY <1>0, <1>1, <1>2, <2>1, <2>2, WriterTypes DEF Edits
<1>4. s \in Seq(Rules) /\ (files[f] # Torn => s = files[f])
  BY <1>0, <1>1, <1>3, LoadTypes
<1>5. Keeps(c, s, Edited(c, s))
  BY <1>3, <1>4, EditedKeeps
<1>6. \/ x = Idle /\ Unsaved(c, s)
      \/ /\ x # Idle /\ x.at = "save" /\ x.c = c /\ x.copy = Edited(c, s) /\ ~Unsaved(c, s)
         /\ x \in [at : {"save", "write"}, c : Commands, copy : Seq(Rules)]
  BY <1>1, <1>3, <1>5 DEF Idle, Keeps
<1>7. /\ writers'[w] = x
      /\ \A v \in Writers \ {w} : /\ writers'[v] = writers[v] /\ (Busy(v)' <=> Busy(v)) /\ (Edits(v)' <=> Edits(v))
                                  /\ Touched(v)' = Touched(v)
      /\ Busy(w)' <=> x # Idle
      /\ Edits(w)' <=> x # Idle
      /\ Touched(w)' \subseteq Touched(w)
  <2>1. /\ writers'[w] = x
        /\ \A v \in Writers \ {w} : /\ writers'[v] = writers[v] /\ (Busy(v)' <=> Busy(v)) /\ (Edits(v)' <=> Edits(v))
                                    /\ Touched(v)' = Touched(v)
        /\ Busy(w)' <=> x # Idle
        /\ Edits(w)' <=> x # Idle /\ x.at \in {"save", "write"}
        /\ Touched(w)' = IF x = Idle THEN {} ELSE {x.c.folder, x.c.target}
    BY <1>0, <1>2, OtherWriters
  <2>2. x # Idle => x.at = "save" /\ x.c = c
    BY <1>6
  <2>3. Touched(w)' \subseteq Touched(w)
    BY <1>3, <2>1, <2>2
  <2> QED BY <2>1, <2>2, <2>3
<1>8. \A g \in Folders : load(g)' = load(g)
  BY <1>2 DEF load
<1>9. \A v \in Writers : v # w /\ f \notin crowded => f \notin Touched(v)
  BY <1>0, <1>3 DEF Alone
<1>10. f \notin crowded => files[f] # Torn
  <2> SUFFICES ASSUME f \notin crowded, files[f] = Torn PROVE FALSE
    OBVIOUS
  <2>1. PICK v \in Writers : Busy(v) /\ writers[v].at = "write" /\ writers[v].c.folder = f
    BY <1>0, <1>3 DEF Alone
  <2>2. f \in Touched(v) /\ v # w
    BY <1>0, <1>2, <2>1, WriterTypes
  <2> QED BY <1>9, <2>2
<1>11. RuleTypesOK'
  <2>1. x \in {Idle} \cup [at : {"load"}, c : Commands] \cup [at : {"save", "write"}, c : Commands, copy : Seq(Rules)]
    BY <1>6
  <2> QED BY <1>0, <1>2, <2>1 DEF RuleTypesOK
<1>12. Alone'
  <2> SUFFICES ASSUME NEW g \in Folders \ crowded
               PROVE  /\ \A u, v \in Writers : g \in Touched(u)' \cap Touched(v)' => u = v
                      /\ files'[g] = Torn => \E v \in Writers : Busy(v)' /\ writers'[v].at = "write" /\ writers'[v].c.folder = g
                      /\ \A v \in Writers : Edits(v)' /\ writers'[v].c.folder = g =>
                           IF writers'[v].at = "write" THEN files'[g] = Torn
                           ELSE files'[g] # Torn /\ writers'[v].copy = Edited(writers'[v].c, files'[g])
    BY <1>2 DEF Alone
  <2>1. \A u, v \in Writers : g \in Touched(u)' \cap Touched(v)' => u = v
    BY <1>0, <1>7 DEF Alone
  <2>2. files'[g] = Torn => \E v \in Writers : Busy(v)' /\ writers'[v].at = "write" /\ writers'[v].c.folder = g
    BY <1>0, <1>2, <1>7 DEF Alone
  <2>3. \A v \in Writers : Edits(v)' /\ writers'[v].c.folder = g =>
                           IF writers'[v].at = "write" THEN files'[g] = Torn
                           ELSE files'[g] # Torn /\ writers'[v].copy = Edited(writers'[v].c, files'[g])
    <3> SUFFICES ASSUME NEW v \in Writers, Edits(v)', writers'[v].c.folder = g
                 PROVE  IF writers'[v].at = "write" THEN files'[g] = Torn
                        ELSE files'[g] # Torn /\ writers'[v].copy = Edited(writers'[v].c, files'[g])
      OBVIOUS
    <3>1. CASE v = w
      <4>1. x.at = "save" /\ x.c = c /\ x.copy = Edited(c, s) /\ g = f
        BY <1>1, <1>6, <1>7, <3>1
      <4> QED BY <1>2, <1>4, <1>7, <1>10, <3>1, <4>1
    <3>2. CASE v # w
      BY <1>0, <1>2, <1>7, <3>2 DEF Alone
    <3> QED BY <3>1, <3>2
  <2> QED BY <2>1, <2>2, <2>3
<1>13. OwedOK'
  <2> SUFFICES ASSUME NEW o \in owed, o[2] \notin crowded
               PROVE  /\ (\A v \in Writers : ~(Busy(v)' /\ writers'[v].c.folder = o[2])) => Holds(load(o[2])', o[1])
                      /\ \A v \in Writers : Busy(v)' /\ writers'[v].c.folder = o[2] =>
                           IF writers'[v].at = "load"
                           THEN Holds(load(o[2])', o[1]) \/ (writers'[v].c.moved /\ o[1] = writers'[v].c.rule.id)
                           ELSE Holds(writers'[v].copy, o[1]) \/ Drops(writers'[v].c, o[1])
    BY <1>2 DEF OwedOK, Holds
  <2>1. o[2] \in Folders /\ load(o[2])' = load(o[2])
    BY <1>0, <1>8 DEF RuleTypesOK
  <2>2. /\ (\A v \in Writers : ~(Busy(v) /\ writers[v].c.folder = o[2])) => Holds(load(o[2]), o[1])
        /\ \A v \in Writers : Busy(v) /\ writers[v].c.folder = o[2] =>
             IF writers[v].at = "load"
             THEN Holds(load(o[2]), o[1]) \/ (writers[v].c.moved /\ o[1] = writers[v].c.rule.id)
             ELSE Holds(writers[v].copy, o[1]) \/ Drops(writers[v].c, o[1])
    BY <1>0 DEF OwedOK
  <2>3. CASE f # o[2]
    <3>1. ASSUME NEW v \in Writers
          PROVE  /\ (Busy(v)' /\ writers'[v].c.folder = o[2]) <=> (Busy(v) /\ writers[v].c.folder = o[2])
                 /\ Busy(v)' /\ writers'[v].c.folder = o[2] => writers'[v] = writers[v]
      BY <1>1, <1>6, <1>7, <2>3
    <3> QED BY <2>1, <2>2, <3>1
  <2>4. CASE f = o[2]
    <3>1. \A v \in Writers \ {w} : ~(Busy(v) /\ writers[v].c.folder = o[2])
      BY <1>0, <1>9, <2>4, WriterTypes
    <3>2. Holds(s, o[1]) \/ (c.moved /\ o[1] = c.rule.id)
      BY <1>1, <1>2, <1>3, <2>2, <2>4
    <3>3. CASE x = Idle
      <4>1. c.moved => Holds(s, c.rule.id)
        <5>1. c.moved => c.op = "update_rule"
          BY <1>3 DEF CommandOK
        <5> QED BY <1>6, <3>3, <5>1 DEF Unsaved
      <4>2. Holds(s, o[1])
        BY <3>2, <4>1
      <4> QED BY <1>1, <1>7, <2>1, <2>4, <3>1, <3>3, <4>2
    <3>4. CASE x # Idle
      <4>1. Holds(x.copy, o[1]) \/ Drops(c, o[1])
        BY <1>5, <1>6, <3>2, <3>4 DEF Keeps
      <4> QED BY <1>1, <1>6, <1>7, <2>4, <3>1, <3>4, <4>1
    <3> QED BY <3>3, <3>4
  <2> QED BY <2>3, <2>4
<1>14. CopiesOK'
  <2> SUFFICES ASSUME NEW v \in Writers, Busy(v)'
               PROVE  /\ CommandOK(writers'[v].c)
                      /\ Edits(v)' /\ writers'[v].c.op = "hide" => HideFirst(writers'[v].copy)
                      /\ Edits(v)' /\ writers'[v].c.op = "save_trade_link" => LinkFirst(writers'[v].c, writers'[v].copy)
    BY DEF CopiesOK
  <2>1. CASE v = w
    <3>1. x # Idle /\ writers'[v] = x
      BY <1>7, <2>1
    <3> QED BY <1>3, <1>4, <1>6, <3>1, EditedFirst
  <2>2. CASE v # w
    BY <1>0, <1>7, <2>2 DEF CopiesOK
  <2> QED BY <2>1, <2>2
<1>15. HiddenOK'
  <2> SUFFICES ASSUME hidden, crowded = {}
               PROVE  /\ \A g \in Folders : files'[g] # Torn => Hides(g, files'[g])
                      /\ \A v \in Writers : Edits(v)' /\ ~Unhides(writers'[v].c) => Hides(writers'[v].c.folder, writers'[v].copy)
    BY <1>2 DEF HiddenOK
  <2>1. \A g \in Folders : files[g] # Torn => Hides(g, files[g])
    BY <1>0 DEF HiddenOK
  <2>2. ASSUME NEW v \in Writers, Edits(v)', ~Unhides(writers'[v].c) PROVE Hides(writers'[v].c.folder, writers'[v].copy)
    <3>1. CASE v = w
      <4>1. x.c = c /\ x.copy = Edited(c, s) /\ ~Unhides(c)
        BY <1>6, <1>7, <2>2, <3>1
      <4>2. Hides(f, s)
        BY <1>3, <1>4, <1>10, <2>1
      <4>3. Hides(f, Edited(c, s))
        BY <1>5, <4>1, <4>2 DEF Hides, Keeps
      <4> QED BY <1>1, <1>7, <3>1, <4>1, <4>3
    <3>2. CASE v # w
      BY <1>0, <1>7, <2>2, <3>2 DEF HiddenOK
    <3> QED BY <3>1, <3>2
  <2> QED BY <1>2, <2>1, <2>2
<1> QED BY <1>11, <1>12, <1>13, <1>14, <1>15 DEF RuleInv

\* The write cuts the file short first.
LEMMA TruncateStep ==
  ASSUME RuleInv, NEW w \in Writers, Truncate(w)
  PROVE  RuleInv'
<1>0. RuleTypesOK /\ Alone /\ OwedOK /\ CopiesOK /\ HiddenOK
  BY DEF RuleInv
<1>1. PICK c, f, x : c = writers[w].c /\ f = c.folder /\ x = [at |-> "write", c |-> c, copy |-> writers[w].copy]
  OBVIOUS
<1>2. /\ writers[w].at = "save" /\ files' = [files EXCEPT ![f] = Torn]
      /\ crowded' = crowded /\ owed' = owed /\ linked' = linked /\ hidden' = hidden /\ commands' = commands
  BY <1>1 DEF Truncate
<1>3. /\ Busy(w) /\ Edits(w) /\ c \in Commands /\ f \in Folders /\ f \in Touched(w)
      /\ Touched(w) = {c.folder, c.target} /\ writers[w].copy \in Seq(Rules)
      /\ writers[w] = [at |-> "save", c |-> c, copy |-> writers[w].copy]
  BY <1>0, <1>1, <1>2, WriterTypes DEF Edits
<1>4. writers' = [writers EXCEPT ![w] = x]
  <2>1. writers' = [writers EXCEPT ![w] = [writers[w] EXCEPT !.at = "write"]]
    BY DEF Truncate
  <2>2. [writers[w] EXCEPT !.at = "write"] = x
    BY <1>1, <1>3
  <2> QED BY <2>1, <2>2
<1>5. /\ x # Idle /\ x.at = "write" /\ x.c = c /\ x.copy = writers[w].copy
      /\ x \in [at : {"save", "write"}, c : Commands, copy : Seq(Rules)]
  BY <1>1, <1>3 DEF Idle
<1>6. /\ writers'[w] = x
      /\ \A v \in Writers \ {w} : /\ writers'[v] = writers[v] /\ (Busy(v)' <=> Busy(v)) /\ (Edits(v)' <=> Edits(v))
                                  /\ Touched(v)' = Touched(v)
      /\ Busy(w)' /\ Edits(w)' /\ Touched(w)' = Touched(w)
  BY <1>0, <1>3, <1>4, <1>5, OtherWriters
<1>7. files'[f] = Torn /\ \A g \in Folders \ {f} : files'[g] = files[g] /\ load(g)' = load(g)
  BY <1>0, <1>2, <1>3 DEF RuleTypesOK, load
<1>8. \A v \in Writers : v # w /\ f \notin crowded => f \notin Touched(v)
  BY <1>0, <1>3 DEF Alone
<1>9. RuleTypesOK'
  BY <1>0, <1>2, <1>4, <1>5 DEF RuleTypesOK
<1>10. Alone'
  <2> SUFFICES ASSUME NEW g \in Folders \ crowded
               PROVE  /\ \A u, v \in Writers : g \in Touched(u)' \cap Touched(v)' => u = v
                      /\ files'[g] = Torn => \E v \in Writers : Busy(v)' /\ writers'[v].at = "write" /\ writers'[v].c.folder = g
                      /\ \A v \in Writers : Edits(v)' /\ writers'[v].c.folder = g =>
                           IF writers'[v].at = "write" THEN files'[g] = Torn
                           ELSE files'[g] # Torn /\ writers'[v].copy = Edited(writers'[v].c, files'[g])
    BY <1>2 DEF Alone
  <2>1. \A u, v \in Writers : g \in Touched(u)' \cap Touched(v)' => u = v
    BY <1>0, <1>6 DEF Alone
  <2>2. files'[g] = Torn => \E v \in Writers : Busy(v)' /\ writers'[v].at = "write" /\ writers'[v].c.folder = g
    <3>1. CASE g = f
      BY <1>1, <1>5, <1>6, <3>1
    <3>2. CASE g # f
      <4> SUFFICES ASSUME files[g] = Torn
                   PROVE  \E v \in Writers : Busy(v)' /\ writers'[v].at = "write" /\ writers'[v].c.folder = g
        BY <1>7, <3>2
      <4>1. PICK v \in Writers : Busy(v) /\ writers[v].at = "write" /\ writers[v].c.folder = g
        BY <1>0 DEF Alone
      <4> QED BY <1>2, <1>6, <4>1
    <3> QED BY <3>1, <3>2
  <2>3. \A v \in Writers : Edits(v)' /\ writers'[v].c.folder = g =>
                           IF writers'[v].at = "write" THEN files'[g] = Torn
                           ELSE files'[g] # Torn /\ writers'[v].copy = Edited(writers'[v].c, files'[g])
    <3> SUFFICES ASSUME NEW v \in Writers, Edits(v)', writers'[v].c.folder = g
                 PROVE  IF writers'[v].at = "write" THEN files'[g] = Torn
                        ELSE files'[g] # Torn /\ writers'[v].copy = Edited(writers'[v].c, files'[g])
      OBVIOUS
    <3>1. CASE v = w
      BY <1>1, <1>5, <1>6, <1>7, <3>1
    <3>2. CASE v # w
      <4>1. Edits(v) /\ writers[v].c.folder = g /\ writers'[v] = writers[v]
        BY <1>6, <3>2
      <4>2. g # f
        <5>1. g \in Touched(v)
          BY <1>0, <4>1, WriterTypes DEF Edits
        <5> QED BY <1>8, <3>2, <5>1
      <4> QED BY <1>0, <1>7, <4>1, <4>2 DEF Alone
    <3> QED BY <3>1, <3>2
  <2> QED BY <2>1, <2>2, <2>3
<1>11. OwedOK'
  <2> SUFFICES ASSUME NEW o \in owed, o[2] \notin crowded
               PROVE  /\ (\A v \in Writers : ~(Busy(v)' /\ writers'[v].c.folder = o[2])) => Holds(load(o[2])', o[1])
                      /\ \A v \in Writers : Busy(v)' /\ writers'[v].c.folder = o[2] =>
                           IF writers'[v].at = "load"
                           THEN Holds(load(o[2])', o[1]) \/ (writers'[v].c.moved /\ o[1] = writers'[v].c.rule.id)
                           ELSE Holds(writers'[v].copy, o[1]) \/ Drops(writers'[v].c, o[1])
    BY <1>2 DEF OwedOK, Holds
  <2>2. /\ (\A v \in Writers : ~(Busy(v) /\ writers[v].c.folder = o[2])) => Holds(load(o[2]), o[1])
        /\ \A v \in Writers : Busy(v) /\ writers[v].c.folder = o[2] =>
             IF writers[v].at = "load"
             THEN Holds(load(o[2]), o[1]) \/ (writers[v].c.moved /\ o[1] = writers[v].c.rule.id)
             ELSE Holds(writers[v].copy, o[1]) \/ Drops(writers[v].c, o[1])
    BY <1>0 DEF OwedOK
  <2>3. CASE f # o[2]
    <3>1. load(o[2])' = load(o[2])
      BY <1>0, <1>7, <2>3 DEF RuleTypesOK
    <3>2. ASSUME NEW v \in Writers
          PROVE  /\ (Busy(v)' /\ writers'[v].c.folder = o[2]) <=> (Busy(v) /\ writers[v].c.folder = o[2])
                 /\ Busy(v)' /\ writers'[v].c.folder = o[2] => writers'[v] = writers[v]
      BY <1>1, <1>5, <1>6, <2>3
    <3> QED BY <2>2, <3>1, <3>2
  <2>4. CASE f = o[2]
    <3>1. \A v \in Writers \ {w} : ~(Busy(v) /\ writers[v].c.folder = o[2])
      BY <1>0, <1>8, <2>4, WriterTypes
    <3>2. Holds(writers[w].copy, o[1]) \/ Drops(c, o[1])
      BY <1>1, <1>2, <1>3, <2>2, <2>4
    <3> QED BY <1>1, <1>5, <1>6, <2>4, <3>1, <3>2
  <2> QED BY <2>3, <2>4
<1>12. CopiesOK'
  <2> SUFFICES ASSUME NEW v \in Writers, Busy(v)'
               PROVE  /\ CommandOK(writers'[v].c)
                      /\ Edits(v)' /\ writers'[v].c.op = "hide" => HideFirst(writers'[v].copy)
                      /\ Edits(v)' /\ writers'[v].c.op = "save_trade_link" => LinkFirst(writers'[v].c, writers'[v].copy)
    BY DEF CopiesOK
  <2> QED BY <1>0, <1>1, <1>3, <1>5, <1>6 DEF CopiesOK
<1>13. HiddenOK'
  <2> SUFFICES ASSUME hidden, crowded = {}
               PROVE  /\ \A g \in Folders : files'[g] # Torn => Hides(g, files'[g])
                      /\ \A v \in Writers : Edits(v)' /\ ~Unhides(writers'[v].c) => Hides(writers'[v].c.folder, writers'[v].copy)
    BY <1>2 DEF HiddenOK
  <2>1. \A g \in Folders : files'[g] # Torn => Hides(g, files'[g])
    BY <1>0, <1>7 DEF HiddenOK
  <2>2. \A v \in Writers : Edits(v)' /\ ~Unhides(writers'[v].c) => Hides(writers'[v].c.folder, writers'[v].copy)
    BY <1>0, <1>1, <1>3, <1>5, <1>6 DEF HiddenOK
  <2> QED BY <2>1, <2>2
<1> QED BY <1>9, <1>10, <1>11, <1>12, <1>13 DEF RuleInv

\* A command writes what it edited, and is done or goes on to the folder its rule moves to.
LEMMA WriteStep ==
  ASSUME RuleInv, NEW w \in Writers, Write(w)
  PROVE  RuleInv'
<1>0. RuleTypesOK /\ Alone /\ OwedOK /\ CopiesOK /\ HiddenOK
  BY DEF RuleInv
<1>1. PICK c, f, s, moving, dropped, x :
        /\ c = writers[w].c /\ f = c.folder /\ s = writers[w].copy /\ moving = Moving(c) /\ dropped = Dropped(c, s)
        /\ x = IF moving THEN [at |-> "load", c |-> [c EXCEPT !.folder = c.target, !.moved = TRUE]] ELSE Idle
  OBVIOUS
<1>2. /\ moving = (c.target # c.folder /\ ~c.moved)
      /\ dropped = (IF moving \/ c.op = "delete_rule" THEN {c.rule.id} ELSE {})
                  \cup (IF c.op = "delete_trade_link" THEN {<<LinkId, row>> : row \in Swap} ELSE {})
                  \cup {r.id : r \in {y \in ToSet(s) : NoOp(y)}}
                  \cup (IF c.op = "migrate"
                        THEN {o[1] : o \in {y \in owed : y[1][1] = "ai"}} \ {r.id : r \in ToSet(s)}
                        ELSE {})
  BY <1>1 DEF Moving, Dropped
<1>3. /\ writers[w].at = "write" /\ files' = [files EXCEPT ![f] = saved(s)]
      /\ writers' = [writers EXCEPT ![w] = x]
      /\ owed' = (owed \cup {<<r.id, f>> : r \in ToSet(s)} \cup (IF moving THEN {<<c.rule.id, c.target>>} ELSE {}))
                 \ {<<i, f>> : i \in dropped}
      /\ hidden' = (\/ /\ c.op = "hide" /\ ~\E r \in Reachable(Leaf)' : r.kind = "leg"
                       /\ \A g \in ToSet(Chain[Leaf]) : files'[g] # Torn
                    \/ hidden /\ ~Unhides(c))
      /\ crowded' = crowded /\ linked' = linked /\ commands' = commands
  BY <1>1 DEF Write
<1>4. /\ Busy(w) /\ Edits(w) /\ c \in Commands /\ CommandOK(c) /\ f \in Folders /\ c.target \in Folders
      /\ Touched(w) = {c.folder, c.target} /\ s \in Seq(Rules)
  <2>1. Busy(w) /\ Edits(w)
    BY <1>0, <1>3, WriterTypes DEF Edits
  <2>2. CommandOK(c)
    BY <1>0, <1>1, <2>1 DEF CopiesOK
  <2> QED BY <1>0, <1>1, <2>1, <2>2, WriterTypes
<1>5. PICK t : t = saved(s)
  OBVIOUS
<1>6. /\ t \in Seq(Rules) /\ ToSet(t) = {r \in ToSet(s) : ~NoOp(r)} /\ t # Torn
      /\ NoLeg(s) => NoLeg(t)
      /\ NoLeg(t) /\ HideFirst(s) => HideFirst(t)
  BY <1>4, <1>5, SavedRules, RulesAssumption
<1>7. \/ x = Idle /\ ~moving
      \/ /\ moving /\ x # Idle /\ x.at = "load" /\ x.c \in Commands /\ x \in [at : {"load"}, c : Commands]
         /\ x.c.folder = c.target /\ x.c.target = c.target /\ x.c.moved /\ x.c.rule = c.rule /\ x.c.op = c.op
         /\ c.op = "update_rule" /\ c.target # f
  <2>1. CASE ~moving
    BY <1>1, <2>1
  <2>2. CASE moving
    <3>1. PICK d : d = [c EXCEPT !.folder = c.target, !.moved = TRUE]
      OBVIOUS
    <3>2. /\ d \in Commands /\ d.folder = c.target /\ d.target = c.target /\ d.moved /\ d.rule = c.rule /\ d.op = c.op
      BY <1>4, <3>1 DEF Commands
    <3>3. x = [at |-> "load", c |-> d]
      BY <1>1, <2>2, <3>1
    <3>4. c.op = "update_rule" /\ c.target # f
      BY <1>1, <1>2, <1>4, <2>2 DEF CommandOK
    <3> QED BY <2>2, <3>2, <3>3, <3>4 DEF Idle
  <2> QED BY <2>1, <2>2
<1>8. /\ writers'[w] = x
      /\ \A v \in Writers \ {w} : /\ writers'[v] = writers[v] /\ (Busy(v)' <=> Busy(v)) /\ (Edits(v)' <=> Edits(v))
                                  /\ Touched(v)' = Touched(v)
      /\ Busy(w)' <=> moving
      /\ ~Edits(w)'
      /\ Touched(w)' \subseteq Touched(w)
  <2>1. /\ writers'[w] = x
        /\ \A v \in Writers \ {w} : /\ writers'[v] = writers[v] /\ (Busy(v)' <=> Busy(v)) /\ (Edits(v)' <=> Edits(v))
                                    /\ Touched(v)' = Touched(v)
        /\ Busy(w)' <=> x # Idle
        /\ Edits(w)' <=> x # Idle /\ x.at \in {"save", "write"}
        /\ Touched(w)' = IF x = Idle THEN {} ELSE {x.c.folder, x.c.target}
    BY <1>0, <1>3, OtherWriters
  <2>2. Touched(w)' \subseteq Touched(w)
    BY <1>4, <1>7, <2>1
  <2> QED BY <1>7, <2>1, <2>2
<1>9. files'[f] = t /\ load(f)' = t /\ \A g \in Folders \ {f} : files'[g] = files[g] /\ load(g)' = load(g)
  BY <1>0, <1>3, <1>4, <1>5, <1>6 DEF RuleTypesOK, load
<1>10. \A g \in {f, c.target} : g \notin crowded => \A v \in Writers : v # w => g \notin Touched(v)
  BY <1>0, <1>1, <1>4 DEF Alone
<1>11. RuleTypesOK'
  <2>1. x \in {Idle} \cup [at : {"load"}, c : Commands] \cup [at : {"save", "write"}, c : Commands, copy : Seq(Rules)]
    BY <1>7
  <2>2. owed' \subseteq RuleIds \X Folders
    <3>1. \A r \in ToSet(s) : <<r.id, f>> \in RuleIds \X Folders
      <4>1. ToSet(s) \subseteq Rules
        BY <1>4, ElementsOf
      <4>2. \A r \in Rules : r.id \in RuleIds
        BY DEF Rules
      <4> QED BY <1>4, <4>1, <4>2
    <3>2. <<c.rule.id, c.target>> \in RuleIds \X Folders
      BY <1>4 DEF Commands, Rules
    <3> QED BY <1>0, <1>3, <3>1, <3>2 DEF RuleTypesOK
  <2>3. hidden' \in BOOLEAN
    BY <1>3
  <2>4. files' \in [Folders -> Seq(Rules) \cup {Torn}]
    BY <1>0, <1>3, <1>5, <1>6 DEF RuleTypesOK
  <2> QED BY <1>0, <1>3, <2>1, <2>2, <2>3, <2>4 DEF RuleTypesOK
<1>12. Alone'
  <2> SUFFICES ASSUME NEW g \in Folders \ crowded
               PROVE  /\ \A u, v \in Writers : g \in Touched(u)' \cap Touched(v)' => u = v
                      /\ files'[g] = Torn => \E v \in Writers : Busy(v)' /\ writers'[v].at = "write" /\ writers'[v].c.folder = g
                      /\ \A v \in Writers : Edits(v)' /\ writers'[v].c.folder = g =>
                           IF writers'[v].at = "write" THEN files'[g] = Torn
                           ELSE files'[g] # Torn /\ writers'[v].copy = Edited(writers'[v].c, files'[g])
    BY <1>3 DEF Alone
  <2>1. \A u, v \in Writers : g \in Touched(u)' \cap Touched(v)' => u = v
    BY <1>0, <1>8 DEF Alone
  <2>2. files'[g] = Torn => \E v \in Writers : Busy(v)' /\ writers'[v].at = "write" /\ writers'[v].c.folder = g
    <3> SUFFICES ASSUME files'[g] = Torn
                 PROVE  \E v \in Writers : Busy(v)' /\ writers'[v].at = "write" /\ writers'[v].c.folder = g
      OBVIOUS
    <3>1. g # f /\ files[g] = Torn
      BY <1>6, <1>9
    <3>2. PICK v \in Writers : Busy(v) /\ writers[v].at = "write" /\ writers[v].c.folder = g
      BY <1>0, <3>1 DEF Alone
    <3>3. v # w
      BY <1>1, <3>1, <3>2
    <3> QED BY <1>8, <3>2, <3>3
  <2>3. \A v \in Writers : Edits(v)' /\ writers'[v].c.folder = g =>
                           IF writers'[v].at = "write" THEN files'[g] = Torn
                           ELSE files'[g] # Torn /\ writers'[v].copy = Edited(writers'[v].c, files'[g])
    <3> SUFFICES ASSUME NEW v \in Writers, Edits(v)', writers'[v].c.folder = g
                 PROVE  IF writers'[v].at = "write" THEN files'[g] = Torn
                        ELSE files'[g] # Torn /\ writers'[v].copy = Edited(writers'[v].c, files'[g])
      OBVIOUS
    <3>1. v # w /\ Edits(v) /\ writers[v].c.folder = g /\ writers'[v] = writers[v]
      BY <1>8
    <3>2. g # f
      <4>1. g \in Touched(v)
        BY <1>0, <3>1, WriterTypes DEF Edits
      <4> QED BY <1>10, <3>1, <4>1
    <3> QED BY <1>0, <1>9, <3>1, <3>2 DEF Alone
  <2> QED BY <2>1, <2>2, <2>3
<1>13. ASSUME NEW id, Holds(s, id), id \notin dropped PROVE Holds(t, id)
  <2>1. PICK r \in ToSet(s) : r.id = id
    BY <1>4, <1>13, ElementsOf
  <2>2. ~NoOp(r)
    BY <1>2, <1>13, <2>1
  <2> QED BY <1>6, <2>1, <2>2, ElementsOf
<1>14. OwedOK'
  <2> SUFFICES ASSUME NEW o \in owed', o[2] \notin crowded
               PROVE  /\ (\A v \in Writers : ~(Busy(v)' /\ writers'[v].c.folder = o[2])) => Holds(load(o[2])', o[1])
                      /\ \A v \in Writers : Busy(v)' /\ writers'[v].c.folder = o[2] =>
                           IF writers'[v].at = "load"
                           THEN Holds(load(o[2])', o[1]) \/ (writers'[v].c.moved /\ o[1] = writers'[v].c.rule.id)
                           ELSE Holds(writers'[v].copy, o[1]) \/ Drops(writers'[v].c, o[1])
    BY <1>3 DEF OwedOK, Holds
  <2>1. o \in RuleIds \X Folders /\ o[2] \in Folders /\ o = <<o[1], o[2]>>
    BY <1>11 DEF RuleTypesOK
  <2>2. ASSUME o \in owed
        PROVE  /\ (\A v \in Writers : ~(Busy(v) /\ writers[v].c.folder = o[2])) => Holds(load(o[2]), o[1])
               /\ \A v \in Writers : Busy(v) /\ writers[v].c.folder = o[2] =>
                    IF writers[v].at = "load"
                    THEN Holds(load(o[2]), o[1]) \/ (writers[v].c.moved /\ o[1] = writers[v].c.rule.id)
                    ELSE Holds(writers[v].copy, o[1]) \/ Drops(writers[v].c, o[1])
    BY <1>0, <2>2 DEF OwedOK
  <2>3. o[2] \in {f, c.target} => \A v \in Writers \ {w} : ~(Busy(v) /\ writers[v].c.folder = o[2])
    <3> SUFFICES ASSUME o[2] \in {f, c.target}, NEW v \in Writers \ {w}, Busy(v), writers[v].c.folder = o[2] PROVE FALSE
      OBVIOUS
    <3>1. o[2] \in Touched(v)
      BY <1>0, WriterTypes
    <3> QED BY <1>10, <3>1
  <2>4. CASE o[2] = f
    <3>1. o[1] \notin dropped
      BY <1>3, <2>1, <2>4
    <3>2. Holds(s, o[1])
      <4>1. CASE o \in owed
        <5>1. Holds(s, o[1]) \/ Drops(c, o[1])
          BY <1>1, <1>3, <1>4, <2>2, <2>4, <4>1
        <5>2. SUFFICES ASSUME Drops(c, o[1]) PROVE Holds(s, o[1])
          BY <5>1
        <5>3. CASE (c.target # c.folder \/ c.op = "delete_rule") /\ o[1] = c.rule.id
          <6>1. moving \/ c.op = "delete_rule"
            BY <1>1, <1>2, <1>4, <5>3 DEF CommandOK
          <6> QED BY <1>2, <3>1, <5>3, <6>1
        <5>4. CASE c.op = "delete_trade_link" /\ o[1] \in {<<LinkId, row>> : row \in Swap}
          BY <1>2, <3>1, <5>4
        <5>5. CASE c.op = "migrate" /\ o[1][1] = "ai"
          <6>1. o[1] \in {r.id : r \in ToSet(s)}
            <7>1. o[1] \in {q[1] : q \in {y \in owed : y[1][1] = "ai"}}
              BY <4>1, <5>5
            <7> QED BY <1>2, <3>1, <5>5, <7>1
          <6> QED BY <1>4, <6>1, ElementsOf
        <5> QED BY <5>2, <5>3, <5>4, <5>5 DEF Drops
      <4>2. CASE o \notin owed
        <5>1. o \in {<<r.id, f>> : r \in ToSet(s)}
          BY <1>3, <1>7, <2>4, <4>2
        <5>2. \E r \in ToSet(s) : r.id = o[1]
          BY <5>1
        <5> QED BY <1>4, <5>2, ElementsOf
      <4> QED BY <4>1, <4>2
    <3>3. Holds(t, o[1])
      BY <1>13, <3>1, <3>2
    <3>4. \A v \in Writers : ~(Busy(v)' /\ writers'[v].c.folder = o[2])
      BY <1>7, <1>8, <2>3, <2>4
    <3> QED BY <1>9, <2>4, <3>3, <3>4
  <2>5. CASE o[2] # f /\ moving /\ o[2] = c.target
    <3>1. \A v \in Writers \ {w} : ~(Busy(v)' /\ writers'[v].c.folder = o[2])
      BY <1>8, <2>3, <2>5
    <3>2. Busy(w)' /\ writers'[w].at = "load" /\ writers'[w].c.folder = o[2] /\ writers'[w].c.moved
          /\ writers'[w].c.rule = c.rule
      BY <1>7, <1>8, <2>5
    <3>3. load(o[2])' = load(o[2])
      BY <1>9, <2>1, <2>5
    <3>4. CASE o \in owed
      <4>1. \A v \in Writers : ~(Busy(v) /\ writers[v].c.folder = o[2])
        BY <1>1, <2>3, <2>5
      <4>2. Holds(load(o[2]), o[1])
        BY <2>2, <3>4, <4>1
      <4> QED BY <3>1, <3>2, <3>3, <4>2
    <3>5. CASE o \notin owed
      <4>1. o[1] = c.rule.id
        <5>1. o \notin {<<r.id, f>> : r \in ToSet(s)}
          BY <2>5
        <5>2. o = <<c.rule.id, c.target>>
          BY <1>3, <2>5, <3>5, <5>1
        <5> QED BY <5>2
      <4> QED BY <3>1, <3>2, <4>1
    <3> QED BY <3>4, <3>5
  <2>6. CASE o[2] # f /\ ~(moving /\ o[2] = c.target)
    <3>1. o \in owed
      <4>1. o \notin {<<r.id, f>> : r \in ToSet(s)} /\ o \notin (IF moving THEN {<<c.rule.id, c.target>>} ELSE {})
        BY <2>6
      <4> QED BY <1>3, <4>1
    <3>2. load(o[2])' = load(o[2])
      BY <1>9, <2>1, <2>6
    <3>3. ASSUME NEW v \in Writers
          PROVE  /\ (Busy(v)' /\ writers'[v].c.folder = o[2]) <=> (Busy(v) /\ writers[v].c.folder = o[2])
                 /\ Busy(v)' /\ writers'[v].c.folder = o[2] => writers'[v] = writers[v]
      BY <1>1, <1>7, <1>8, <2>6
    <3> QED BY <2>2, <3>1, <3>2, <3>3
  <2> QED BY <2>4, <2>5, <2>6
<1>15. CopiesOK'
  <2> SUFFICES ASSUME NEW v \in Writers, Busy(v)'
               PROVE  /\ CommandOK(writers'[v].c)
                      /\ Edits(v)' /\ writers'[v].c.op = "hide" => HideFirst(writers'[v].copy)
                      /\ Edits(v)' /\ writers'[v].c.op = "save_trade_link" => LinkFirst(writers'[v].c, writers'[v].copy)
    BY DEF CopiesOK
  <2>1. CASE v = w
    <3>1. CommandOK(x.c)
      BY <1>7, <1>8, <2>1 DEF CommandOK
    <3> QED BY <1>8, <2>1, <3>1
  <2>2. CASE v # w
    BY <1>0, <1>8, <2>2 DEF CopiesOK
  <2> QED BY <2>1, <2>2
<1>16. HiddenOK'
  <2> SUFFICES ASSUME hidden', crowded = {}
               PROVE  /\ \A g \in Folders : files'[g] # Torn => Hides(g, files'[g])
                      /\ \A v \in Writers : Edits(v)' /\ ~Unhides(writers'[v].c) => Hides(writers'[v].c.folder, writers'[v].copy)
    BY <1>3 DEF HiddenOK
  <2>1. ASSUME NEW v \in Writers, Edits(v)'
        PROVE  /\ v # w /\ Edits(v) /\ Busy(v) /\ writers'[v] = writers[v]
               /\ writers[v].c.folder \in Folders \ {f} /\ files'[writers[v].c.folder] = files[writers[v].c.folder]
               /\ writers[v].c \in Commands /\ CommandOK(writers[v].c)
    <3>1. v # w /\ Edits(v) /\ Busy(v) /\ writers'[v] = writers[v]
      BY <1>8, <2>1 DEF Edits
    <3>2. writers[v].c.folder \in Touched(v) /\ writers[v].c.folder \in Folders /\ writers[v].c \in Commands
      BY <1>0, <3>1, WriterTypes
    <3>3. writers[v].c.folder # f
      BY <1>10, <3>1, <3>2
    <3> QED BY <1>0, <1>9, <3>1, <3>2, <3>3 DEF CopiesOK
  <2>2. CASE hidden /\ ~Unhides(c)
    <3>1. /\ \A g \in Folders : files[g] # Torn => Hides(g, files[g])
          /\ \A v \in Writers : Edits(v) /\ ~Unhides(writers[v].c) => Hides(writers[v].c.folder, writers[v].copy)
      BY <1>0, <2>2 DEF HiddenOK
    <3>2. Hides(f, s)
      BY <1>1, <1>4, <2>2, <3>1
    <3>3. Hides(f, t)
      BY <1>6, <3>2 DEF Hides
    <3> QED BY <1>9, <2>1, <3>1, <3>3
  <2>3. CASE /\ c.op = "hide" /\ ~\E r \in Reachable(Leaf)' : r.kind = "leg"
             /\ \A g \in ToSet(Chain[Leaf]) : files'[g] # Torn
    <3>1. f = Leaf /\ HideFirst(s)
      BY <1>0, <1>1, <1>4, <2>3 DEF CommandOK, CopiesOK
    <3>2. ASSUME NEW g \in ToSet(Chain[Leaf]) PROVE files'[g] # Torn /\ NoLeg(files'[g]) /\ g \in Folders
      <4>1. PICK i \in DOMAIN Chain[Leaf] : Chain[Leaf][i] = g
        BY DEF ToSet
      <4>2. g \in Folders
        BY <1>0, <4>1, ChainTypes
      <4>3. files'[g] # Torn /\ load(g)' = files'[g]
        BY <2>3 DEF load
      <4>4. RulesOf(g)' \subseteq Reachable(Leaf)'
        BY <4>1 DEF Reachable
      <4>5. \A j \in DOMAIN files'[g] : files'[g][j] \in RulesOf(g)'
        BY <4>3 DEF RulesOf
      <4>6. NoLeg(files'[g])
        BY <2>3, <4>4, <4>5 DEF NoLeg
      <4> QED BY <4>2, <4>3, <4>6
    <3>3. \A g \in Folders : files'[g] # Torn => Hides(g, files'[g])
      <4>1. Leaf \in ToSet(Chain[Leaf]) => HideFirst(files'[Leaf])
        BY <1>6, <1>9, <3>1, <3>2
      <4> QED BY <3>2, <4>1 DEF Hides
    <3>4. ASSUME NEW v \in Writers, Edits(v)', ~Unhides(writers'[v].c) PROVE Hides(writers'[v].c.folder, writers'[v].copy)
      <4>1. PICK d, g : d = writers[v].c /\ g = d.folder
        OBVIOUS
      <4>2. /\ Edits(v) /\ writers'[v] = writers[v] /\ g \in Folders \ {f} /\ files'[g] = files[g]
            /\ d \in Commands /\ CommandOK(d)
        BY <2>1, <3>4, <4>1
      <4>3. SUFFICES ASSUME g \in ToSet(Chain[Leaf]) PROVE NoLeg(writers[v].copy)
        BY <3>1, <4>1, <4>2 DEF Hides
      <4>4. files[g] # Torn /\ NoLeg(files[g])
        BY <3>2, <4>2, <4>3
      <4>5. g \in Folders \ crowded
        BY <4>2
      <4>6. writers[v].copy = Edited(d, files[g])
        BY <1>0, <4>1, <4>2, <4>4, <4>5 DEF Alone
      <4>7. files[g] \in Seq(Rules)
        BY <1>0, <4>2, <4>4 DEF RuleTypesOK
      <4>8. Keeps(d, files[g], Edited(d, files[g]))
        BY <4>2, <4>7, EditedKeeps
      <4> QED BY <3>4, <4>1, <4>2, <4>4, <4>6, <4>8 DEF Keeps
    <3> QED BY <3>3, <3>4
  <2> QED BY <1>3, <2>2, <2>3
<1> QED BY <1>11, <1>12, <1>14, <1>15, <1>16 DEF RuleInv

\* A crash ends all commands.
LEMMA CrashStep ==
  ASSUME RuleInv, CrashWriters
  PROVE  RuleInv'
<1>0. RuleTypesOK /\ Alone /\ OwedOK /\ CopiesOK /\ HiddenOK
  BY DEF RuleInv
<1>1. /\ crowded' = crowded \cup UNION {Touched(w) : w \in Writers}
      /\ writers' = [w \in Writers |-> Idle]
      /\ files' = files /\ owed' = owed /\ linked' = linked /\ hidden' = hidden /\ commands' = commands
  BY DEF CrashWriters
<1>2. \A v \in Writers : ~Busy(v)' /\ ~Edits(v)' /\ Touched(v)' = {}
  BY <1>1 DEF Busy, Edits, Touched
<1>3. \A f : f \notin crowded' => f \notin crowded /\ \A v \in Writers : f \notin Touched(v)
  BY <1>1
<1>4. \A v \in Writers : Touched(v) \subseteq Folders
  BY <1>0, WriterTypes
<1>5. RuleTypesOK'
  BY <1>0, <1>1, <1>4 DEF RuleTypesOK
<1>6. \A f \in Folders : f \notin crowded' => files'[f] # Torn
  <2> SUFFICES ASSUME NEW f \in Folders, f \notin crowded', files[f] = Torn PROVE FALSE
    BY <1>1
  <2>1. PICK v \in Writers : Busy(v) /\ writers[v].at = "write" /\ writers[v].c.folder = f
    BY <1>0, <1>3 DEF Alone
  <2> QED BY <1>0, <1>3, <2>1, WriterTypes
<1>7. Alone'
  BY <1>2, <1>6 DEF Alone
<1>8. OwedOK'
  <2> SUFFICES ASSUME NEW o \in owed, o[2] \notin crowded' PROVE Holds(load(o[2])', o[1])
    BY <1>1, <1>2 DEF OwedOK, Holds
  <2>1. load(o[2])' = load(o[2])
    BY <1>1 DEF load
  <2>2. \A v \in Writers : ~(Busy(v) /\ writers[v].c.folder = o[2])
    BY <1>0, <1>3, WriterTypes
  <2> QED BY <1>0, <1>3, <2>1, <2>2 DEF OwedOK
<1>9. CopiesOK'
  BY <1>2 DEF CopiesOK
<1>10. HiddenOK'
  <2>1. crowded' = {} => crowded = {}
    BY <1>1
  <2> QED BY <1>0, <1>1, <1>2, <2>1 DEF HiddenOK
<1> QED BY <1>5, <1>7, <1>8, <1>9, <1>10 DEF RuleInv

\* Every step keeps the invariant.
LEMMA NextRuleInv == RuleInv /\ [RuleFilesNext]_ruleVars => RuleInv'
<1> SUFFICES ASSUME RuleInv, [RuleFilesNext]_ruleVars PROVE RuleInv'
  OBVIOUS
<1>1. ASSUME NEW w \in Writers, StartRule(w) PROVE RuleInv'
  BY <1>1, StartStep DEF StartRule
<1>2. ASSUME NEW w \in Writers, StartLink(w) PROVE RuleInv'
  BY <1>2, StartStep DEF StartLink
<1>3. CASE UNCHANGED ruleVars
  BY <1>3 DEF ruleVars, RuleInv, RuleTypesOK, Alone, OwedOK, CopiesOK, HiddenOK, Busy, Edits, Touched, load, Holds
<1> QED BY <1>1, <1>2, <1>3, LoadStep, TruncateStep, WriteStep, CrashStep DEF RuleFilesNext

-----------------------------------------------------------------------------
(* Rules files: what follows.                                              *)

\* The invariant holds of any commands that overlap and die.
THEOREM RuleInvHolds == RuleFilesSpec => []RuleInv
BY InitRuleInv, NextRuleInv, PTL DEF RuleFilesSpec

LEMMA RuleTypesFollow == RuleInv => RuleFilesTypeOK
<1> SUFFICES ASSUME RuleInv PROVE RuleFilesTypeOK
  OBVIOUS
<1>0. RuleTypesOK /\ Alone
  BY DEF RuleInv
<1>1. \A f \in Folders : files[f] # Torn => files[f] \in Seq(Rules)
  BY <1>0 DEF RuleTypesOK
<1>2. ASSUME NEW w \in Writers
      PROVE  \/ writers[w] = Idle
             \/ /\ writers[w].at \in {"load", "save", "write"}
                /\ {writers[w].c.folder, writers[w].c.target} \subseteq Folders
                /\ writers[w].at # "load" => writers[w].copy \in Seq(Rules)
  BY <1>0, WriterTypes DEF Busy, Edits
<1>3. ASSUME NEW w \in Writers, writers[w].at = "write"
      PROVE  writers[w].c.folder \in {f \in Folders : files[f] = Torn} \cup crowded
  <2>1. Busy(w) /\ Edits(w) /\ writers[w].c.folder \in Folders
    BY <1>0, <1>3, WriterTypes DEF Edits
  <2> QED BY <1>0, <1>3, <2>1 DEF Alone
<1>4. ASSUME NEW f \in Folders, files[f] = Torn PROVE f \in crowded \/ \E w \in Writers : writers[w].at = "write"
  BY <1>0, <1>4 DEF Alone
<1> QED BY <1>0, <1>1, <1>2, <1>3, <1>4 DEF RuleFilesTypeOK, RuleTypesOK

\* Type correctness; a file is cut short only while a command writes it, or where
\* commands met or died.
THEOREM RuleFilesTyped == RuleFilesSpec => []RuleFilesTypeOK
BY RuleInvHolds, RuleTypesFollow, PTL

LEMMA SurviveFollows == RuleInv => RulesSurvive
<1> SUFFICES ASSUME RuleInv, NEW o \in owed, o[2] \notin crowded,
                    \A w \in Writers : o[2] \notin Touched(w)
             PROVE  Holds(files[o[2]], o[1])
  BY DEF RulesSurvive
<1>0. RuleTypesOK /\ Alone /\ OwedOK
  BY DEF RuleInv
<1>1. o[2] \in Folders
  BY <1>0 DEF RuleTypesOK
<1>2. \A w \in Writers : ~(Busy(w) /\ writers[w].c.folder = o[2])
  BY <1>0, WriterTypes
<1>3. Holds(load(o[2]), o[1])
  BY <1>0, <1>2 DEF OwedOK
<1>4. files[o[2]] # Torn
  BY <1>0, <1>1, <1>2 DEF Alone
<1> QED BY <1>3, <1>4 DEF load

\* A rule that was saved and not deleted is in its folder unless commands met there
\* or one died there, whatever the folders, the rules and the commands under way.
THEOREM RulesAreKept == RuleFilesSpec => []RulesSurvive
BY RuleInvHolds, SurviveFollows, PTL

\* Of the rules that apply to the leaf, the places and kinds.
LEMMA PlaceTypes ==
  ASSUME RuleTypesOK, NEW q \in gather_rules_chain(Leaf)
  PROVE  /\ q = <<q[1], q[2]>> /\ q[1] \in Nat \ {0} /\ q[2] \in Nat \ {0} /\ q[1] \in DOMAIN Chain[Leaf]
         /\ RuleAt(Leaf, q) \in Rules /\ Precedence[RuleAt(Leaf, q).kind] \in 1 .. 8
         /\ RuleAt(Leaf, q).kind # "leg" => Precedence[RuleAt(Leaf, q).kind] \in 2 .. 8
<1>1. PICK n \in DOMAIN Chain[Leaf] : q \in {n} \X DOMAIN load(Chain[Leaf][n])
  BY DEF gather_rules_chain
<1>2. q = <<q[1], q[2]>> /\ q[1] = n /\ q[2] \in DOMAIN load(Chain[Leaf][n])
  BY <1>1
<1>3. Chain[Leaf][n] \in Folders /\ n \in Nat \ {0}
  <2>1. Chain[Leaf] \in Seq(Folders)
    BY RuleFilesAssumption
  <2> QED BY <2>1, LenProperties, ElementOfSeq
<1>4. PICK s : s = load(Chain[Leaf][n])
  OBVIOUS
<1>5. s \in Seq(Rules)
  BY <1>3, <1>4, LoadTypes
<1>6. q[2] \in Nat \ {0} /\ s[q[2]] \in Rules /\ s[q[2]].kind \in DOMAIN Precedence /\ Precedence[s[q[2]].kind] \in 1 .. 8
  BY <1>2, <1>4, <1>5, RuleTypes
<1>7. \A k \in DOMAIN Precedence \ {"leg"} : Precedence[k] \in 2 .. 8
  BY DEF Precedence
<1>8. RuleAt(Leaf, q) = s[q[2]]
  BY <1>2, <1>4 DEF RuleAt
<1> QED BY <1>2, <1>3, <1>6, <1>7, <1>8

\* Before p no rule that hits the row.
Leads(p, row) ==
  /\ p \in gather_rules_chain(Leaf) /\ Hits(RuleAt(Leaf, p), row)
  /\ \A q \in gather_rules_chain(Leaf) : Hits(RuleAt(Leaf, q), row) /\ q # p =>
       \/ Precedence[RuleAt(Leaf, p).kind] < Precedence[RuleAt(Leaf, q).kind]
       \/ /\ Precedence[RuleAt(Leaf, p).kind] = Precedence[RuleAt(Leaf, q).kind]
          /\ p[1] < q[1] \/ (p[1] = q[1] /\ p[2] < q[2])

\* Then p decides the row.
LEMMA Decides ==
  ASSUME RuleTypesOK, NEW row, NEW p, Leads(p, row)
  PROVE  Category(row) = RuleAt(Leaf, p).does
<1> DEFINE k(q) == Precedence[RuleAt(Leaf, q).kind]
           First(q, r) == \/ k(q) < k(r)
                          \/ k(q) = k(r) /\ q[1] < r[1]
                          \/ k(q) = k(r) /\ q[1] = r[1] /\ q[2] <= r[2]
<1>1. PICK hits : hits = {q \in gather_rules_chain(Leaf) : Hits(RuleAt(Leaf, q), row)}
  OBVIOUS
<1>2. \A q \in hits : q = <<q[1], q[2]>> /\ q[1] \in Nat /\ q[2] \in Nat /\ k(q) \in Nat
  BY <1>1, PlaceTypes
<1>3. p \in hits /\ \A q \in hits : q # p => k(p) < k(q) \/ (k(p) = k(q) /\ (p[1] < q[1] \/ (p[1] = q[1] /\ p[2] < q[2])))
  BY <1>1 DEF Leads
<1>4. Category(row) = IF hits = {} THEN "fallback" ELSE RuleAt(Leaf, CHOOSE q \in hits : \A r \in hits : First(q, r)).does
  BY <1>1 DEF Category, find_match_prioritized
<1> HIDE DEF k
<1>5. \A r \in hits : First(p, r)
  BY <1>2, <1>3
<1>6. ASSUME NEW q \in hits, \A r \in hits : First(q, r) PROVE q = p
  <2>1. First(q, p)
    BY <1>3, <1>6
  <2> QED BY <1>2, <1>3, <2>1
<1> HIDE DEF First
<1>7. (CHOOSE q \in hits : \A r \in hits : First(q, r)) = p
  BY <1>3, <1>5, <1>6
<1> QED BY <1>3, <1>4, <1>7

\* The places of the leaf's own rules.
LEMMA LeafPlaces ==
  ASSUME RuleTypesOK, files[Leaf] # Torn, NEW n \in 1 .. Len(files[Leaf])
  PROVE  <<1, n>> \in gather_rules_chain(Leaf) /\ RuleAt(Leaf, <<1, n>>) = files[Leaf][n]
<1>1. Leaf \in Folders /\ Chain[Leaf] # <<>> /\ Chain[Leaf][1] = Leaf /\ Chain[Leaf] \in Seq(Folders)
  BY RuleFilesAssumption
<1>2. 1 \in DOMAIN Chain[Leaf]
  <2>1. PICK m \in Nat : m = Len(Chain[Leaf]) /\ DOMAIN Chain[Leaf] = 1 .. m
    BY <1>1, LenProperties
  <2>2. m # 0
    BY <1>1, <2>1, EmptySeq
  <2> QED BY <2>1, <2>2
<1>3. load(Leaf) = files[Leaf] /\ files[Leaf] \in Seq(Rules)
  BY <1>1, LoadTypes
<1>4. n \in DOMAIN load(Leaf)
  BY <1>3, LenProperties
<1>5. <<1, n>> \in {1} \X DOMAIN load(Chain[Leaf][1])
  BY <1>1, <1>4
<1>6. RuleAt(Leaf, <<1, n>>) = load(Leaf)[n]
  BY <1>1 DEF RuleAt
<1> QED BY <1>2, <1>3, <1>5, <1>6 DEF gather_rules_chain

LEMMA HiddenFollows == RuleInv => HiddenStaysHidden
<1> SUFFICES ASSUME RuleInv, hidden, Calm, NEW row \in Swap PROVE Category(row) = "hide"
  BY DEF HiddenStaysHidden
<1>0. RuleTypesOK /\ Alone /\ HiddenOK /\ crowded = {} /\ \A w \in Writers : ~Busy(w)
  BY DEF RuleInv, Calm, Busy
<1>1. ASSUME NEW f \in Folders PROVE files[f] # Torn /\ Hides(f, files[f])
  <2>1. files[f] # Torn
    BY <1>0 DEF Alone
  <2> QED BY <1>0, <2>1 DEF HiddenOK
<1>2. Leaf \in Folders /\ Chain[Leaf] \in Seq(Folders) /\ 1 \in DOMAIN Chain[Leaf] /\ Chain[Leaf][1] = Leaf
  <2>1. Chain[Leaf] # <<>> /\ Chain[Leaf] \in Seq(Folders) /\ Leaf \in Folders /\ Chain[Leaf][1] = Leaf
    BY RuleFilesAssumption
  <2>2. PICK m \in Nat : m = Len(Chain[Leaf]) /\ DOMAIN Chain[Leaf] = 1 .. m
    BY <2>1, LenProperties
  <2>3. m # 0
    BY <2>1, <2>2, EmptySeq
  <2> QED BY <2>1, <2>2, <2>3
<1>3. Leaf \in ToSet(Chain[Leaf])
  <2>1. Chain[Leaf][1] \in ToSet(Chain[Leaf])
    BY <1>2 DEF ToSet
  <2> QED BY <1>2, <2>1
<1>4. HideFirst(files[Leaf]) /\ files[Leaf] # Torn /\ files[Leaf] \in Seq(Rules)
  BY <1>0, <1>1, <1>2, <1>3 DEF Hides, RuleTypesOK
<1>5. 1 \in 1 .. Len(files[Leaf])
  BY <1>4, LenProperties DEF HideFirst
<1>6. PICK p : p = <<1, 1>>
  OBVIOUS
<1>7. p \in gather_rules_chain(Leaf) /\ RuleAt(Leaf, p) = files[Leaf][1]
  BY <1>0, <1>4, <1>5, <1>6, LeafPlaces
<1>8. RuleAt(Leaf, p).kind = "txn" /\ RuleAt(Leaf, p).does = "hide" /\ Hits(RuleAt(Leaf, p), row)
  BY <1>4, <1>7 DEF HideFirst, Hits, OfRow
<1>9. Precedence[RuleAt(Leaf, p).kind] = 2
  BY <1>8 DEF Precedence
<1>10. ASSUME NEW q \in gather_rules_chain(Leaf), q # p
       PROVE  \/ 2 < Precedence[RuleAt(Leaf, q).kind]
              \/ 2 = Precedence[RuleAt(Leaf, q).kind] /\ (p[1] < q[1] \/ (p[1] = q[1] /\ p[2] < q[2]))
  <2>1. /\ q = <<q[1], q[2]>> /\ q[1] \in Nat \ {0} /\ q[2] \in Nat \ {0}
        /\ RuleAt(Leaf, q).kind # "leg" => Precedence[RuleAt(Leaf, q).kind] \in 2 .. 8
    BY <1>0, PlaceTypes
  <2>2. RuleAt(Leaf, q).kind # "leg"
    <3>1. PICK n \in DOMAIN Chain[Leaf] : q \in {n} \X DOMAIN load(Chain[Leaf][n])
      BY DEF gather_rules_chain
    <3>2. PICK g : g = Chain[Leaf][n]
      OBVIOUS
    <3>3. g \in Folders /\ g \in ToSet(Chain[Leaf])
      BY <1>2, <3>1, <3>2, ElementOfSeq DEF ToSet
    <3>4. NoLeg(files[g]) /\ load(g) = files[g]
      BY <1>1, <3>3 DEF Hides, load
    <3>5. RuleAt(Leaf, q) = load(g)[q[2]] /\ q[2] \in DOMAIN load(g)
      BY <3>1, <3>2 DEF RuleAt
    <3> QED BY <3>4, <3>5 DEF NoLeg
  <2>3. p[1] = 1 /\ p[2] = 1 /\ (q[1] # 1 \/ q[2] # 1)
    BY <1>6, <1>10, <2>1
  <2> QED BY <2>1, <2>2, <2>3
<1>11. Leads(p, row)
  BY <1>7, <1>8, <1>9, <1>10 DEF Leads
<1> QED BY <1>0, <1>8, <1>11, Decides

\* A hidden transaction stays hidden while no rule is anchored, edited or deleted,
\* whatever general and classified rules and whatever rules above it are saved.
THEOREM HiddenIsKept == RuleFilesSpec => []HiddenStaysHidden
BY RuleInvHolds, HiddenFollows, PTL

\* Once a link's rules for the legs are on top of the leaf's file, each decides its leg.
LinkOnTop == files[Leaf] # Torn /\ \E c \in [legs : {TRUE}] : LinkFirst(c, files[Leaf])

\* Nothing comes before a link's rules, so they decide.
LEMMA LinkDecides == RuleTypesOK /\ LinkOnTop => \A row \in Swap : Category(row) = row
<1> SUFFICES ASSUME RuleTypesOK, LinkOnTop, NEW row \in Swap PROVE Category(row) = row
  OBVIOUS
<1>1. files[Leaf] # Torn /\ files[Leaf] \in Seq(Rules) /\ Len(files[Leaf]) \in Nat
  <2>1. Leaf \in Folders
    BY RuleFilesAssumption
  <2>2. files[Leaf] # Torn /\ files[Leaf] \in Seq(Rules)
    BY <2>1 DEF LinkOnTop, RuleTypesOK
  <2> QED BY <2>2, LenProperties
<1>2. /\ Len(files[Leaf]) > 1
      /\ files[Leaf][1] = [id |-> <<LinkId, "buy">>, kind |-> "leg", row |-> "buy", does |-> "buy"]
      /\ files[Leaf][2] = [id |-> <<LinkId, "sell">>, kind |-> "leg", row |-> "sell", does |-> "sell"]
  BY DEF LinkOnTop, LinkFirst, link_rules, Rule
<1>3. PICK a, b : a = <<1, 1>> /\ b = <<1, 2>>
  OBVIOUS
<1>4. /\ a \in gather_rules_chain(Leaf) /\ RuleAt(Leaf, a) = files[Leaf][1]
      /\ b \in gather_rules_chain(Leaf) /\ RuleAt(Leaf, b) = files[Leaf][2]
  <2>1. 1 \in 1 .. Len(files[Leaf]) /\ 2 \in 1 .. Len(files[Leaf])
    BY <1>1, <1>2
  <2> QED BY <1>1, <1>3, <2>1, LeafPlaces
<1>5. /\ RuleAt(Leaf, a).does = "buy" /\ RuleAt(Leaf, a).row = "buy" /\ RuleAt(Leaf, a).kind = "leg"
      /\ RuleAt(Leaf, b).does = "sell" /\ RuleAt(Leaf, b).row = "sell" /\ RuleAt(Leaf, b).kind = "leg"
  BY <1>2, <1>4
<1>6. Precedence["leg"] = 1
  BY DEF Precedence
<1>7. ASSUME NEW q \in gather_rules_chain(Leaf)
      PROVE  /\ q = <<q[1], q[2]>> /\ q[1] \in Nat \ {0} /\ q[2] \in Nat \ {0}
             /\ Precedence[RuleAt(Leaf, q).kind] \in 1 .. 8
  BY PlaceTypes
<1>8. /\ a[1] = 1 /\ a[2] = 1 /\ b[1] = 1 /\ b[2] = 2
  BY <1>3
<1>9. CASE row = "buy"
  <2>1. Hits(RuleAt(Leaf, a), row)
    BY <1>5, <1>9 DEF Hits, OfRow
  <2>2. ASSUME NEW q \in gather_rules_chain(Leaf), q # a
        PROVE  \/ 1 < Precedence[RuleAt(Leaf, q).kind]
               \/ 1 = Precedence[RuleAt(Leaf, q).kind] /\ (a[1] < q[1] \/ (a[1] = q[1] /\ a[2] < q[2]))
    <3>1. q[1] # 1 \/ q[2] # 1
      BY <1>3, <1>7, <2>2
    <3> QED BY <1>7, <1>8, <3>1
  <2>3. Leads(a, row)
    BY <1>4, <1>5, <1>6, <2>1, <2>2 DEF Leads
  <2> QED BY <1>5, <1>9, <2>3, Decides
<1>10. CASE row = "sell"
  <2>1. Hits(RuleAt(Leaf, b), row) /\ ~Hits(RuleAt(Leaf, a), row)
    BY <1>5, <1>10 DEF Hits, OfRow
  <2>2. ASSUME NEW q \in gather_rules_chain(Leaf), q # b, q # a
        PROVE  \/ 1 < Precedence[RuleAt(Leaf, q).kind]
               \/ 1 = Precedence[RuleAt(Leaf, q).kind] /\ (b[1] < q[1] \/ (b[1] = q[1] /\ b[2] < q[2]))
    <3>1. q[1] # 1 \/ (q[2] # 1 /\ q[2] # 2)
      BY <1>3, <1>7, <2>2
    <3> QED BY <1>7, <1>8, <3>1
  <2>3. Leads(b, row)
    BY <1>4, <1>5, <1>6, <2>1, <2>2 DEF Leads
  <2> QED BY <1>5, <1>10, <2>3, Decides
<1> QED BY <1>9, <1>10 DEF Swap

\* Writing a link's rules.
LEMMA WriteLinkStep ==
  ASSUME RuleInv, RuleInv', NEW w \in Writers, Write(w),
         writers[w].c.op = "save_trade_link", writers[w].c.legs
  PROVE  (RuleTypesOK /\ LinkOnTop)'
<1>0. RuleTypesOK /\ CopiesOK /\ RuleTypesOK'
  BY DEF RuleInv
<1>1. PICK c, s : c = writers[w].c /\ s = writers[w].copy
  OBVIOUS
<1>2. Busy(w) /\ Edits(w) /\ c \in Commands /\ s \in Seq(Rules)
  <2>1. writers[w].at = "write"
    BY DEF Write
  <2>2. Busy(w) /\ Edits(w)
    BY <1>0, <2>1, WriterTypes DEF Edits
  <2> QED BY <1>0, <1>1, <2>2, WriterTypes
<1>3. c.folder = Leaf /\ LinkFirst(c, s) /\ Leaf \in Folders
  BY <1>0, <1>1, <1>2, RuleFilesAssumption DEF CopiesOK, CommandOK
<1>4. files' = [files EXCEPT ![Leaf] = saved(s)]
  BY <1>1, <1>3 DEF Write
<1>5. files'[Leaf] = saved(s)
  BY <1>0, <1>3, <1>4 DEF RuleTypesOK
<1>6. saved(s) \in Seq(Rules) /\ LinkFirst(c, saved(s))
  BY <1>1, <1>2, <1>3, SavedRules
<1>7. saved(s) # Torn
  BY <1>6, RulesAssumption
<1>8. PICK d \in [legs : {TRUE}] : d = [legs |-> TRUE]
  OBVIOUS
<1>9. LinkFirst(d, saved(s))
  BY <1>1, <1>6, <1>8 DEF LinkFirst, link_rules
<1> QED BY <1>0, <1>5, <1>7, <1>8, <1>9 DEF LinkOnTop

\* Linking a swap whose legs the ledgers tell apart categorises both legs at once,
\* whatever rules there were in the folder and above it.
THEOREM LinksWin == RuleFilesSpec => LinkWins
<1> DEFINE A == \A w \in Writers :
                  (/\ writers[w].at = "write" /\ Write(w)
                   /\ writers[w].c.op = "save_trade_link" /\ writers[w].c.legs
                   /\ crowded = {})
                  => \A row \in Swap : Category(row)' = row
<1>1. (RuleTypesOK /\ LinkOnTop => \A row \in Swap : Category(row) = row)'
  BY LinkDecides, PTL
<1>2. RuleInv /\ RuleInv' => A
  <2> SUFFICES ASSUME RuleInv, RuleInv', NEW w \in Writers, Write(w),
                      writers[w].c.op = "save_trade_link", writers[w].c.legs
               PROVE  \A row \in Swap : Category(row)' = row
    OBVIOUS
  <2>1. (RuleTypesOK /\ LinkOnTop)'
    BY WriteLinkStep
  <2> QED BY <1>1, <2>1
<1>3. RuleInv /\ RuleInv' /\ [RuleFilesNext]_ruleVars => [A]_ruleVars
  BY <1>2
<1> QED BY <1>3, RuleInvHolds, PTL DEF RuleFilesSpec, LinkWins
=============================================================================
