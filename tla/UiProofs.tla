------------------------------- MODULE UiProofs -------------------------------
(***************************************************************************)
(* Proofs about two parts of the UI.  The mutation queue is safe for any   *)
(* set of clicks.  The table of the search window is that of the ledger    *)
(* when nothing is under way, for any rows, searches and page size and any *)
(* number of queries, changes and rebuilds, as long as answers did not     *)
(* overlap and no later page was fetched twice.                            *)
(***************************************************************************)
EXTENDS MutationQueue, SearchWindow, Integers, FiniteSetTheorems, SequenceTheorems, TLAPS

-----------------------------------------------------------------------------
(* The mutation queue.                                                     *)

\* The queue is a pipe of three stages: settled, at most one in flight, and
\* waiting; `running` says whether the middle one is occupied.
IInv ==
  /\ TypeOK
  /\ SingleFlight
  /\ running <=> inflight # <<>>
  /\ PendingCounts
  /\ ClickOrder

\* Removing the only element of a sequence leaves nothing.
LEMMA WithoutOnly ==
  ASSUME NEW S, NEW s \in Seq(S), Len(s) <= 1, NEW i \in 1..Len(s)
  PROVE  /\ i = 1 /\ s = <<s[1]>> /\ s[1] \in S
         /\ Without(s, i) = <<>>
<1>1. Len(s) = 1 /\ i = 1
  <2> DEFINE n == Len(s)
  <2>1. n \in Nat /\ n <= 1 /\ i \in 1..n OBVIOUS
  <2> HIDE DEF n
  <2>2. n = 1 /\ i = 1 BY <2>1
  <2> QED BY <2>2 DEF n
<1>2. s = <<s[1]>> /\ s[1] \in S BY <1>1
<1>3. SubSeq(s, 1, 0) = <<>> /\ SubSeq(s, 2, 1) = <<>> BY <1>1
<1>4. Without(s, i) = <<>> BY <1>1, <1>3 DEF Without
<1> QED BY <1>1, <1>2, <1>4

\* Moving the head of the queue into the empty middle stage changes no order.
LEMMA ShiftKeepsOrder ==
  ASSUME NEW S, NEW d \in Seq(S), NEW q \in Seq(S), q # <<>>
  PROVE  /\ Head(q) \in S /\ Tail(q) \in Seq(S)
         /\ Append(<<>>, Head(q)) = <<Head(q)>>
         /\ d \o <<Head(q)>> \o Tail(q) = d \o q
         /\ Len(Tail(q)) = Len(q) - 1
<1>1. Head(q) \in S /\ Tail(q) \in Seq(S) /\ Len(Tail(q)) = Len(q) - 1 OBVIOUS
<1>2. <<Head(q)>> \o Tail(q) = q OBVIOUS
<1>3. <<Head(q)>> \in Seq(S) BY <1>1
<1>4. d \o <<Head(q)>> \o Tail(q) = d \o (<<Head(q)>> \o Tail(q))
  BY <1>1, <1>3, ConcatAssociative
<1> QED BY <1>1, <1>2, <1>4

\* A click that joins the back of the queue changes no order.
LEMMA AppendKeepsOrder ==
  ASSUME NEW S, NEW d \in Seq(S), NEW q \in Seq(S), NEW m \in S
  PROVE  d \o Append(q, m) = Append(d \o q, m)
<1>1. <<m>> \in Seq(S) /\ d \o q \in Seq(S) OBVIOUS
<1>2. Append(q, m) = q \o <<m>> /\ Append(d \o q, m) = (d \o q) \o <<m>>
  BY <1>1, AppendIsConcat
<1>3. d \o (q \o <<m>>) = (d \o q) \o <<m>> BY <1>1, ConcatAssociative
<1> QED BY <1>2, <1>3

\* An empty queue satisfies the invariant.
LEMMA InitIInv == Init => IInv
<1> SUFFICES ASSUME Init PROVE IInv OBVIOUS
<1>1. <<>> \in Seq(Mutations) /\ <<>> \o <<>> \o <<>> = <<>> OBVIOUS
<1>2. TypeOK BY <1>1 DEF Init, TypeOK
<1>3. SingleFlight /\ PendingCounts BY DEF Init, SingleFlight, PendingCounts
<1>4. ClickOrder BY <1>1 DEF Init, ClickOrder
<1> QED BY <1>2, <1>3, <1>4 DEF Init, IInv

\* A click: it waits behind a running mutation, or starts at once.
LEMMA EnqueueIInv ==
  ASSUME IInv, NEW m \in Mutations, Enqueue(m)
  PROVE  IInv'
<1> USE DEF IInv, TypeOK, SingleFlight, PendingCounts
<1>1. CASE running
  <2>1. /\ queue' = Append(queue, m)
        /\ UNCHANGED <<running, inflight, settled, failed>>
    BY <1>1 DEF Enqueue
  <2>4. /\ queue' # <<>> /\ queue' \in Seq(Mutations) /\ queue' = queue \o <<m>>
        /\ Len(queue') = Len(queue) + 1
    BY <2>1, AppendProperties, AppendIsConcat
  <2>2. settled \o inflight \o queue' = Append(settled \o inflight \o queue, m)
    <3>1. settled \o inflight \in Seq(Mutations) OBVIOUS
    <3>2. queue \in Seq(Mutations) OBVIOUS
    <3> QED BY <2>1, <3>1, <3>2, AppendKeepsOrder
  <2>3. ClickOrder' BY <2>1, <2>2 DEF ClickOrder, Enqueue
  <2> QED BY <1>1, <2>1, <2>3, <2>4 DEF Enqueue
<1>2. CASE ~running
  <2>1. queue = <<>> /\ inflight = <<>> BY <1>2
  <2>2. Append(queue, m) = <<m>> BY <2>1
  <2>3. /\ queue' = <<>> /\ running' = TRUE /\ inflight' = <<m>>
        /\ UNCHANGED <<settled, failed>>
    BY <1>2, <2>1, <2>2 DEF Enqueue, Drain
  <2>4. ClickOrder'
    <3>1. clicked = settled BY <2>1 DEF ClickOrder
    <3>2. settled' \o inflight' \o queue' = Append(settled, m) BY <2>3, AppendIsConcat
    <3> QED BY <3>1, <3>2 DEF ClickOrder, Enqueue
  <2> QED BY <1>2, <2>1, <2>3, <2>4 DEF Enqueue
<1> QED BY <1>1, <1>2

\* A mutation settles, either way: the next one starts, or the queue is free.
LEMMA FinallyIInv ==
  ASSUME IInv, NEW i \in 1..Len(inflight), Finally(i), failed' \subseteq Mutations
  PROVE  IInv'
<1> USE DEF IInv, TypeOK, SingleFlight, PendingCounts
<1> DEFINE m == inflight[1]
<1>1. i = 1 /\ inflight = <<m>> /\ m \in Mutations /\ Without(inflight, i) = <<>>
  BY WithoutOnly
<1>2. running BY <1>1
<1>3. /\ settled' = Append(settled, m) /\ settled' \in Seq(Mutations)
      /\ clicked' = clicked /\ pendingMutations' = Len(queue)
      /\ Drain(queue, <<>>)
  BY <1>1, <1>2 DEF Finally
<1>4. clicked = settled' \o queue
  BY <1>1, <1>3, AppendIsConcat DEF ClickOrder
<1>5. CASE queue # <<>>
  <2>1. /\ queue' = Tail(queue) /\ running' = TRUE
        /\ inflight' = Append(<<>>, Head(queue))
    BY <1>3, <1>5 DEF Drain
  <2>2. /\ Head(queue) \in Mutations /\ Tail(queue) \in Seq(Mutations)
        /\ inflight' = <<Head(queue)>>
        /\ settled' \o inflight' \o queue' = settled' \o queue
        /\ Len(queue') = Len(queue) - 1
    BY <1>3, <1>5, <2>1, ShiftKeepsOrder
  <2>3. ClickOrder' BY <1>3, <1>4, <2>2 DEF ClickOrder
  <2> QED BY <1>3, <2>1, <2>2, <2>3
<1>6. CASE queue = <<>>
  <2>1. queue' = <<>> /\ running' = FALSE /\ inflight' = <<>>
    BY <1>3, <1>6 DEF Drain
  <2>2. ClickOrder' BY <1>3, <1>4, <1>6, <2>1 DEF ClickOrder
  <2>0. queue' \in Seq(Mutations) /\ inflight' \in Seq(Mutations) BY <2>1
  <2>3. TypeOK'
    <3>1. clicked' \in Seq(Mutations) /\ settled' \in Seq(Mutations) BY <1>3
    <3>2. pendingMutations' \in Nat BY <1>3
    <3>3. running' \in BOOLEAN BY <2>1
    <3> QED BY <2>0, <3>1, <3>2, <3>3
  <2>4. SingleFlight' BY <2>1
  <2>5. PendingCounts' BY <1>3, <1>6, <2>1
  <2> QED BY <2>1, <2>2, <2>3, <2>4, <2>5
<1> QED BY <1>5, <1>6

\* Every step keeps it: a click, or the settlement of the one in flight.
LEMMA NextIInv == IInv /\ [Next]_vars => IInv'
<1> SUFFICES ASSUME IInv, [Next]_vars PROVE IInv' OBVIOUS
<1>1. ASSUME NEW m \in Mutations, Enqueue(m) PROVE IInv' BY <1>1, EnqueueIInv
<1>2. ASSUME NEW i \in 1..Len(inflight), Resolve(i) \/ Reject(i) PROVE IInv'
  <2>1. Finally(i) BY <1>2 DEF Resolve, Reject
  <2>2. inflight[i] \in Mutations BY DEF IInv, TypeOK
  <2>3. failed' \subseteq Mutations BY <1>2, <2>2 DEF Resolve, Reject, IInv, TypeOK
  <2> QED BY <2>1, <2>3, FinallyIInv
<1>3. CASE UNCHANGED vars
  BY <1>3 DEF IInv, TypeOK, SingleFlight, PendingCounts, ClickOrder, vars, queueVars, histVars
<1> QED BY <1>1, <1>2, <1>3 DEF Next, Settle

\* So it holds throughout.
LEMMA SpecIInv == Spec => []IInv
BY InitIInv, NextIInv, PTL DEF Spec

\* The state of the queue is well formed.
THEOREM TypeCorrect == Spec => []TypeOK
<1>1. IInv => TypeOK BY DEF IInv
<1> QED BY <1>1, SpecIInv, PTL

\* At most one mutation is in flight, and none waits while the queue is free.
THEOREM SingleFlightSafe == Spec => []SingleFlight
<1>1. IInv => SingleFlight BY DEF IInv
<1> QED BY <1>1, SpecIInv, PTL

\* pendingMutations is the number of mutations waiting or running.
THEOREM PendingCountsSafe == Spec => []PendingCounts
<1>1. IInv => PendingCounts BY DEF IInv
<1> QED BY <1>1, SpecIInv, PTL

\* Mutations start and settle in the order of the clicks.
THEOREM ClickOrderSafe == Spec => []ClickOrder
<1>1. IInv => ClickOrder BY DEF IInv
<1> QED BY <1>1, SpecIInv, PTL

-----------------------------------------------------------------------------
(* The inductive invariant.                                                *)

\* A refresh is to come: of a rebuild the window was told of, or of a command that
\* is done.
Owed == event \/ (todo # <<>> /\ Head(todo).committed /\ Head(todo).awaits = 0)

\* The first n rows of the search, as far as there are so many.
FirstRows(n) == SubSeq(Matching(search), 1, Min({Len(Matching(search)), n}))

Queries == [n : Nat \ {0}, from : Nat, search : DOMAIN Searches,
            rows : Seq(TableRows) \cup {Unread}, count : Nat]
Changes == [kind : {"add", "hide"}, row : TableRows, committed : BOOLEAN, awaits : Nat]

TypesOK ==
  /\ onDisk \subseteq TableRows /\ IsFiniteSet(onDisk)
  /\ search \in DOMAIN Searches /\ txWindowStart \in Nat /\ asked \in Nat
  /\ loaded \in Seq(TableRows) \cup {NotLoaded}
  /\ queries \subseteq Queries /\ todo \in Seq(Changes)
  /\ event \in BOOLEAN /\ muddled \in BOOLEAN

\* Commands are done one by one; a refresh is asked for after the command.
CommandsOK ==
  \A i \in DOMAIN todo :
    /\ i > 1 => ~todo[i].committed
    /\ ~todo[i].committed => todo[i].awaits = 0

\* What is shown ahead of the backend is of a command that is not done.
PendingOK ==
  /\ \A r \in pendingAdds : \E i \in DOMAIN todo : todo[i].row = r /\ todo[i].awaits = 0
  /\ \A r \in pendingDeletes : \E i \in DOMAIN todo : todo[i].row = r

\* Without overlap there is one query, of the page the window has come to.
QueryOK ==
  ~muddled => \A q \in queries : queries = {q} /\ q.search = search /\ q.from = txWindowStart

\* Unless a refresh is to come, what is loaded are the first rows, up to the page asked
\* for, and the answer that is read is that page.
LoadedOK ==
  ~muddled /\ ~Owed =>
    /\ queries = {} => loaded = FirstRows(txWindowStart + Page)
    /\ \A q \in queries :
         /\ q.from > 0 => loaded = FirstRows(q.from)
         /\ q.rows # Unread => q.rows = PageOf(Matching(search), q.from)

TInv == TypesOK /\ CommandsOK /\ PendingOK /\ QueryOK /\ LoadedOK

-----------------------------------------------------------------------------
(* Rows in their order, and pages of them.                                 *)

\* The rows newer than a row are fewer than all.
LEMMA NewerAreFewer ==
  ASSUME NEW S \in SUBSET Nat, IsFiniteSet(S), NEW r \in S
  PROVE  Cardinality({x \in S : x > r}) \in 0 .. Cardinality(S) - 1
<1> DEFINE T == {x \in S : x > r}
<1>1. T \in SUBSET S /\ T # S
  OBVIOUS
<1>2. IsFiniteSet(T) /\ Cardinality(T) <= Cardinality(S) /\ (Cardinality(S) = Cardinality(T) => S = T)
  BY <1>1, FS_Subset
<1>3. Cardinality(T) \in Nat /\ Cardinality(S) \in Nat
  BY <1>2, FS_CardinalityType
<1> QED BY <1>1, <1>2, <1>3

\* Every place has its row.
LEMMA PlaceHasRow ==
  ASSUME NEW S \in SUBSET Nat, IsFiniteSet(S), NEW i \in 1 .. Cardinality(S)
  PROVE  \E r \in S : Cardinality({x \in S : x > r}) = i - 1
<1> DEFINE Newer(r) == {x \in S : x > r}
           T == 0 .. Cardinality(S) - 1
           rank == [r \in S |-> Cardinality(Newer(r))]
<1>1. Cardinality(S) \in Nat
  BY FS_CardinalityType
<1>2. IsFiniteSet(T) /\ Cardinality(T) = Cardinality(S)
  <2>1. 0 \in Int /\ Cardinality(S) - 1 \in Int
    BY <1>1
  <2>2. IsFiniteSet(T) /\ Cardinality(T) = IF 0 > Cardinality(S) - 1 THEN 0 ELSE (Cardinality(S) - 1) - 0 + 1
    BY <2>1, FS_Interval
  <2> QED BY <1>1, <2>2
<1>3. \A r \in S : rank[r] \in T
  BY NewerAreFewer
<1>4. \A r, s \in S : r < s => rank[r] # rank[s]
  <2> SUFFICES ASSUME NEW r \in S, NEW s \in S, r < s PROVE Cardinality(Newer(r)) # Cardinality(Newer(s))
    OBVIOUS
  <2>1. Newer(s) \in SUBSET Newer(r) /\ s \in Newer(r) /\ s \notin Newer(s)
    <3>1. r \in Nat /\ s \in Nat /\ ~(s > s) /\ s > r
      OBVIOUS
    <3>2. \A x \in S : x > s => x > r
      BY <3>1
    <3> QED BY <3>1, <3>2
  <2>2. IsFiniteSet(Newer(r))
    BY FS_Subset
  <2> QED BY <2>1, <2>2, FS_Subset
<1>5. rank \in Injection(S, T)
  <2> HIDE DEF rank, T
  <2>1. \A r, s \in S : rank[r] = rank[s] => r = s
    BY <1>4
  <2>2. rank \in [S -> T]
    BY <1>3 DEF rank
  <2> QED BY <2>1, <2>2 DEF Injection, IsInjective
<1>6. rank \in Surjection(S, T)
  <2> HIDE DEF rank, T
  <2> QED BY <1>2, <1>5, FS_Injection
<1>7. i - 1 \in T
  BY <1>1
<1> QED
  <2> HIDE DEF T
  <2> QED BY <1>6, <1>7 DEF Surjection

\* The rows in their order are a sequence of them.
LEMMA NewestFirstSeq ==
  ASSUME NEW S \in SUBSET Nat, IsFiniteSet(S)
  PROVE  NewestFirst(S) \in Seq(S) /\ Len(NewestFirst(S)) = Cardinality(S)
<1> DEFINE e(i) == CHOOSE r \in S : Cardinality({x \in S : x > r}) = i - 1
           n == Cardinality(S)
<1>1. n \in Nat
  BY FS_CardinalityType
<1>2. \A i \in 1 .. n : e(i) \in S
  BY PlaceHasRow
<1>3. NewestFirst(S) = [i \in 1 .. n |-> e(i)]
  BY DEF NewestFirst, Sorted
<1> HIDE DEF e, n
<1>4. [i \in 1 .. n |-> e(i)] \in [1 .. n -> S]
  BY <1>2
<1>5. NewestFirst(S) \in Seq(S) /\ Len(NewestFirst(S)) = n
  BY <1>1, <1>3, <1>4
<1> QED BY <1>5 DEF n

\* What is not there has no order.
LEMMA NoRowsInOrder == NewestFirst({}) = <<>>
<1>1. NewestFirst({}) \in Seq({}) /\ Len(NewestFirst({})) = 0
  BY NewestFirstSeq, FS_EmptySet
<1> QED BY <1>1, EmptySeq

\* All places in their order are all places.
LEMMA AllInOrder ==
  ASSUME NEW n \in Nat
  PROVE  InOrder(1 .. n) = [i \in 1 .. n |-> i]
<1>1. Cardinality(1 .. n) = n
  BY FS_Interval
<1>2. \A i \in 1 .. n : Cardinality({j \in 1 .. n : j < i}) = i - 1
  <2> SUFFICES ASSUME NEW i \in 1 .. n PROVE Cardinality({j \in 1 .. n : j < i}) = i - 1
    OBVIOUS
  <2>1. {j \in 1 .. n : j < i} = 1 .. (i - 1)
    OBVIOUS
  <2>2. Cardinality(1 .. (i - 1)) = i - 1
    BY FS_Interval
  <2> QED BY <2>1, <2>2
<1>3. \A m \in 1 .. n : (CHOOSE i \in 1 .. n : Cardinality({j \in 1 .. n : j < i}) = m - 1) = m
  <2> SUFFICES ASSUME NEW m \in 1 .. n
               PROVE (CHOOSE i \in 1 .. n : Cardinality({j \in 1 .. n : j < i}) = m - 1) = m
    OBVIOUS
  <2>1. \A i \in 1 .. n : Cardinality({j \in 1 .. n : j < i}) = m - 1 <=> i = m
    BY <1>2
  <2> QED BY <2>1
<1> QED BY <1>1, <1>3 DEF InOrder, Sorted

\* The lesser of two numbers.
LEMMA MinOfTwo ==
  ASSUME NEW a \in Nat, NEW b \in Nat
  PROVE  Min({a, b}) = IF a <= b THEN a ELSE b
<1>1. \E x \in {a, b} : \A y \in {a, b} : x <= y
  OBVIOUS
<1>2. Min({a, b}) \in {a, b} /\ \A y \in {a, b} : Min({a, b}) <= y
  BY <1>1 DEF Min
<1> QED BY <1>2

\* The rows of a search.
LEMMA MatchingSeq ==
  ASSUME onDisk \subseteq TableRows, IsFiniteSet(onDisk), NEW s \in DOMAIN Searches
  PROVE  /\ Matching(s) \in Seq(TableRows)
         /\ Len(Matching(s)) = Cardinality(onDisk \cap Searches[s]) /\ Len(Matching(s)) \in Nat
<1> DEFINE S == onDisk \cap Searches[s]
<1>1. S \in SUBSET Nat /\ IsFiniteSet(S) /\ S \subseteq TableRows
  BY TableAssumption, FS_Intersection
<1> HIDE DEF S
<1>2. NewestFirst(S) \in Seq(S) /\ Len(NewestFirst(S)) = Cardinality(S)
  BY <1>1, NewestFirstSeq
<1>3. NewestFirst(S) \in Seq(TableRows)
  BY <1>1, <1>2, SeqMonotonic
<1> QED BY <1>2, <1>3, LenProperties DEF Matching, S

\* A page after the rows before it.
LEMMA NextPage ==
  ASSUME NEW s \in Seq(TableRows), NEW from \in Nat
  PROVE  /\ PageOf(s, from) \in Seq(TableRows)
         /\ SubSeq(s, 1, Min({Len(s), from})) \in Seq(TableRows)
         /\ SubSeq(s, 1, Min({Len(s), from})) \o PageOf(s, from) = SubSeq(s, 1, Min({Len(s), from + Page}))
<1> DEFINE m == Len(s)
           upto == Min({m, from + Page})
           before == Min({m, from})
<1>1. m \in Nat /\ Page \in Nat \ {0} /\ \A i \in 1 .. m : s[i] \in TableRows
  BY TableAssumption, LenProperties, ElementOfSeq
<1>2. upto = (IF m <= from + Page THEN m ELSE from + Page) /\ before = (IF m <= from THEN m ELSE from)
  BY <1>1, MinOfTwo
<1>3. PageOf(s, from) = SubSeq(s, from + 1, upto)
  BY DEF PageOf
<1> HIDE DEF m, upto, before
<1>4. PageOf(s, from) \in Seq(TableRows) /\ SubSeq(s, 1, before) \in Seq(TableRows)
  <2>1. \A i \in from + 1 .. upto : s[i] \in TableRows
    BY <1>1, <1>2
  <2>2. \A i \in 1 .. before : s[i] \in TableRows
    BY <1>1, <1>2
  <2> QED BY <1>1, <1>2, <1>3, <2>1, <2>2, SubSeqProperties
<1>5. CASE from <= m
  <2>1. before = from
    BY <1>1, <1>2, <1>5
  <2>2. SubSeq(s, 1, from) \o SubSeq(s, from + 1, upto) = SubSeq(s, 1, upto)
    <3>1. 1 \in 1 .. m + 1 /\ from \in 1 - 1 .. m /\ upto \in from .. m
      BY <1>1, <1>2, <1>5
    <3> QED BY <3>1, ConcatAdjacentSubSeq DEF m
  <2> QED BY <1>3, <1>4, <2>1, <2>2 DEF m, upto, before
<1>6. CASE from > m
  <2>1. upto = m /\ before = m
    BY <1>1, <1>2, <1>6
  <2>2. PageOf(s, from) = <<>>
    BY <1>1, <1>3, <1>6, <2>1, SubSeqEmpty
  <2>3. SubSeq(s, 1, m) \o <<>> = SubSeq(s, 1, m)
    BY <1>4, <2>1, ConcatEmptySeq
  <2> QED BY <1>3, <1>4, <2>1, <2>2, <2>3 DEF m, upto, before
<1>7. from <= m \/ from > m
  BY <1>1
<1> QED BY <1>5, <1>6, <1>7

\* The first page is the first rows.
LEMMA FirstPage ==
  ASSUME NEW s \in Seq(TableRows)
  PROVE  PageOf(s, 0) = SubSeq(s, 1, Min({Len(s), Page}))
<1>1. 0 + 1 = 1 /\ 0 + Page = Page
  BY TableAssumption
<1> QED BY <1>1 DEF PageOf

-----------------------------------------------------------------------------
(* Types.                                                                  *)

\* The first command, and those after it.
LEMMA FirstCommand ==
  ASSUME TypesOK, todo # <<>>
  PROVE  /\ 1 \in DOMAIN todo /\ Head(todo) = todo[1] /\ todo[1] \in Changes
         /\ DOMAIN todo = 1 .. Len(todo) /\ Len(todo) \in Nat \ {0}
         /\ Tail(todo) \in Seq(Changes) /\ DOMAIN Tail(todo) = 1 .. Len(todo) - 1
         /\ \A i \in DOMAIN Tail(todo) : i + 1 \in DOMAIN todo /\ Tail(todo)[i] = todo[i + 1]
<1>1. todo \in Seq(Changes)
  BY DEF TypesOK
<1>2. DOMAIN todo = 1 .. Len(todo) /\ Len(todo) \in Nat \ {0}
  BY <1>1, LenProperties, EmptySeq
<1>3. Tail(todo) \in Seq(Changes) /\ Len(Tail(todo)) = Len(todo) - 1
      /\ \A i \in 1 .. Len(Tail(todo)) : Tail(todo)[i] = todo[i + 1]
  BY <1>1, HeadTailProperties
<1>4. DOMAIN Tail(todo) = 1 .. Len(todo) - 1
  BY <1>3, LenProperties
<1>5. Head(todo) = todo[1]
  BY <1>1, <1>2
<1>6. todo[1] \in Changes
  BY <1>1, <1>2, ElementOfSeq
<1> QED BY <1>2, <1>3, <1>4, <1>5, <1>6

\* A command that was given comes last.
LEMMA NewCommand ==
  ASSUME TypesOK, NEW kind \in {"add", "hide"}, NEW r \in TableRows, todo' = Append(todo, Change(kind, r))
  PROVE  /\ todo' \in Seq(Changes) /\ todo' # <<>>
         /\ DOMAIN todo' = 1 .. Len(todo) + 1 /\ DOMAIN todo = 1 .. Len(todo) /\ Len(todo) \in Nat
         /\ \A i \in DOMAIN todo : todo'[i] = todo[i]
         /\ LET c == todo'[Len(todo) + 1] IN c.row = r /\ ~c.committed /\ c.awaits = 0
<1> DEFINE c == Change(kind, r)
<1>1. c \in Changes /\ c.row = r /\ ~c.committed /\ c.awaits = 0
  BY DEF Change, Changes
<1>2. todo \in Seq(Changes)
  BY DEF TypesOK
<1> HIDE DEF c
<1>3. /\ Append(todo, c) \in Seq(Changes) /\ Append(todo, c) # <<>> /\ Len(Append(todo, c)) = Len(todo) + 1
      /\ \A i \in 1 .. Len(todo) : Append(todo, c)[i] = todo[i]
      /\ Append(todo, c)[Len(todo) + 1] = c
  BY <1>1, <1>2, AppendProperties
<1>4. todo' = Append(todo, c)
  BY DEF c
<1>5. Len(todo) \in Nat /\ DOMAIN todo = 1 .. Len(todo)
  BY <1>2, LenProperties
<1>6. DOMAIN todo' = 1 .. Len(todo) + 1
  BY <1>3, <1>4, LenProperties
<1> QED BY <1>1, <1>3, <1>4, <1>5, <1>6

\* The head of the queue is changed in place.
LEMMA HeadChanged ==
  ASSUME TypesOK, todo # <<>>, NEW c \in Changes, todo' = [todo EXCEPT ![1] = c]
  PROVE  /\ todo' \in Seq(Changes) /\ todo' # <<>> /\ DOMAIN todo' = DOMAIN todo
         /\ Head(todo') = c /\ todo'[1] = c /\ \A i \in DOMAIN todo : i # 1 => todo'[i] = todo[i]
<1>1. todo \in Seq(Changes) /\ 1 \in 1 .. Len(todo) /\ DOMAIN todo = 1 .. Len(todo)
  BY FirstCommand DEF TypesOK
<1>2. todo' \in Seq(Changes) /\ Len(todo') = Len(todo)
      /\ \A j \in 1 .. Len(todo) : todo'[j] = IF j = 1 THEN c ELSE todo[j]
  BY <1>1, ExceptSeq
<1>3. DOMAIN todo' = 1 .. Len(todo)
  BY <1>2, LenProperties
<1>4. todo' # <<>>
  BY <1>1, <1>2, EmptySeq
<1>5. Head(todo') = todo'[1]
  BY <1>2, <1>4
<1> QED BY <1>1, <1>2, <1>3, <1>4, <1>5

\* A new query.
LEMMA NewQuery ==
  ASSUME TypesOK, NEW from \in Nat, NEW s \in DOMAIN Searches
  PROVE  /\ Query(from, s) \in Queries /\ Query(from, s).n = asked + 1
         /\ Query(from, s).from = from /\ Query(from, s).search = s /\ Query(from, s).rows = Unread
         /\ asked + 1 \in Nat \ {0}
BY DEF Query, Queries, TypesOK

LEMMA RefetchTypes ==
  ASSUME TypesOK, NEW s \in DOMAIN Searches, Refetch(s) \/ (s = search /\ FetchAgain)
  PROVE  /\ txWindowStart' \in Nat /\ asked' = asked + 1 /\ asked' \in Nat
         /\ loaded' \in Seq(TableRows) \cup {NotLoaded}
         /\ queries' \subseteq Queries /\ muddled' \in BOOLEAN
<1>1. 0 \in Nat /\ txWindowStart \in Nat /\ asked \in Nat /\ queries \subseteq Queries
      /\ loaded \in Seq(TableRows) \cup {NotLoaded} /\ muddled \in BOOLEAN
  BY DEF TypesOK
<1>2. Query(0, s) \in Queries /\ Query(txWindowStart, s) \in Queries
  BY <1>1, NewQuery
<1>3. CASE Refetch(s)
  <2>1. (queries # {}) \in BOOLEAN
    OBVIOUS
  <2> QED BY <1>1, <1>2, <1>3, <2>1 DEF Refetch
<1>4. CASE s = search /\ FetchAgain
  <2>1. (muddled \/ Mixes(TRUE)) \in BOOLEAN
    BY DEF Mixes
  <2> QED BY <1>1, <1>2, <1>4, <2>1 DEF FetchAgain
<1> QED BY <1>3, <1>4

LEMMA TypesKept ==
  ASSUME TypesOK, [TableNext]_tableVars
  PROVE  TypesOK'
<1>0. /\ onDisk \subseteq TableRows /\ IsFiniteSet(onDisk)
      /\ search \in DOMAIN Searches /\ txWindowStart \in Nat /\ asked \in Nat
      /\ loaded \in Seq(TableRows) \cup {NotLoaded}
      /\ queries \subseteq Queries /\ todo \in Seq(Changes)
      /\ event \in BOOLEAN /\ muddled \in BOOLEAN
  BY DEF TypesOK
<1>1. ASSUME NEW s \in DOMAIN Searches, ChangeSearch(s) PROVE TypesOK'
  <2>1. Refetch(s) /\ search' = s /\ UNCHANGED <<onDisk, todo, event>>
    BY <1>1 DEF ChangeSearch
  <2> QED BY <1>0, <2>1, RefetchTypes DEF TypesOK
<1>2. CASE Scroll
  <2>1. /\ txWindowStart' = txWindowStart + Page /\ asked' = asked + 1
        /\ queries' = queries \cup {Query(txWindowStart + Page, search)}
        /\ muddled' = (muddled \/ Mixes(FALSE)) /\ UNCHANGED <<onDisk, search, loaded, todo, event>>
    BY <1>2 DEF Scroll
  <2>2. txWindowStart + Page \in Nat /\ asked + 1 \in Nat
    BY <1>0, TableAssumption
  <2>3. Query(txWindowStart + Page, search) \in Queries
    BY <1>0, <2>2, NewQuery
  <2>4. (muddled \/ Mixes(FALSE)) \in BOOLEAN
    BY DEF Mixes
  <2> QED BY <1>0, <2>1, <2>2, <2>3, <2>4 DEF TypesOK
<1>3. CASE Read
  <2>1. PICK q \in queries :
          /\ queries' = (queries \ {q}) \cup
               {[q EXCEPT !.rows = PageOf(Matching(q.search), q.from), !.count = Len(Matching(q.search))]}
          /\ UNCHANGED <<onDisk, search, txWindowStart, loaded, asked, todo, event, muddled>>
    BY <1>3 DEF Read
  <2>2. q \in Queries /\ q.search \in DOMAIN Searches /\ q.from \in Nat
    BY <1>0, <2>1 DEF Queries
  <2>3. Matching(q.search) \in Seq(TableRows) /\ Len(Matching(q.search)) \in Nat
    BY <1>0, <2>2, MatchingSeq
  <2>4. PageOf(Matching(q.search), q.from) \in Seq(TableRows)
    BY <2>2, <2>3, NextPage
  <2>5. [q EXCEPT !.rows = PageOf(Matching(q.search), q.from), !.count = Len(Matching(q.search))] \in Queries
    BY <2>2, <2>3, <2>4 DEF Queries
  <2> QED BY <1>0, <2>1, <2>5 DEF TypesOK
<1>4. CASE Apply
  <2>1. PICK q \in queries :
          /\ q.rows # Unread /\ queries' = queries \ {q} /\ loaded' = Extended(q)
          /\ todo' = todo \/ (todo # <<>> /\ todo' = Tail(todo))
          /\ UNCHANGED <<onDisk, search, txWindowStart, asked, event, muddled>>
    BY <1>4 DEF Apply
  <2>2. q.rows \in Seq(TableRows)
    BY <1>0, <2>1 DEF Queries
  <2>3. loaded # NotLoaded => loaded \o q.rows \in Seq(TableRows)
    BY <1>0, <2>2, ConcatProperties
  <2>4. loaded' \in Seq(TableRows)
    BY <2>1, <2>2, <2>3 DEF Extended
  <2>5. todo' \in Seq(Changes)
    BY <1>0, <2>1, FirstCommand
  <2> QED BY <1>0, <2>1, <2>4, <2>5 DEF TypesOK
<1>5. ASSUME NEW r \in TableRows, addManualTransaction(r) \/ hide(r) PROVE TypesOK'
  <2>1. PICK kind \in {"add", "hide"} : todo' = Append(todo, Change(kind, r))
    BY <1>5 DEF addManualTransaction, hide
  <2>2. UNCHANGED <<onDisk, search, txWindowStart, loaded, queries, asked, event, muddled>>
    BY <1>5 DEF addManualTransaction, hide
  <2>3. todo' \in Seq(Changes)
    BY <2>1, NewCommand
  <2> QED BY <1>0, <2>2, <2>3 DEF TypesOK
<1>6. CASE Commit
  <2>1. /\ todo # <<>> /\ todo' = [todo EXCEPT ![1].committed = TRUE]
        /\ onDisk' = onDisk \cup {Head(todo).row} \/ onDisk' = onDisk \ {Head(todo).row}
        /\ UNCHANGED <<search, txWindowStart, loaded, queries, asked, event, muddled>>
    BY <1>6 DEF Commit
  <2>2. todo[1] \in Changes /\ Head(todo).row \in TableRows
    BY <2>1, FirstCommand DEF Changes
  <2>3. [todo[1] EXCEPT !.committed = TRUE] \in Changes
    BY <2>2 DEF Changes
  <2>4. todo' \in Seq(Changes)
    BY <2>1, <2>3, HeadChanged
  <2>5. onDisk' \subseteq TableRows /\ IsFiniteSet(onDisk')
    BY <1>0, <2>1, <2>2, FS_AddElement, FS_RemoveElement
  <2> QED BY <1>0, <2>1, <2>4, <2>5 DEF TypesOK
<1>7. CASE Fail
  <2>1. /\ todo # <<>> /\ todo' = Tail(todo)
        /\ UNCHANGED <<onDisk, search, txWindowStart, loaded, queries, asked, event, muddled>>
    BY <1>7 DEF Fail
  <2>2. todo' \in Seq(Changes)
    BY <2>1, FirstCommand
  <2> QED BY <1>0, <2>1, <2>2 DEF TypesOK
<1>8. CASE Refresh
  <2>1. /\ todo # <<>> /\ todo' = [todo EXCEPT ![1].awaits = asked + 1]
        /\ Refetch(search) \/ FetchAgain
        /\ UNCHANGED <<onDisk, search, event>>
    BY <1>8 DEF Refresh, AfterHide, AfterAdd
  <2>2. [todo[1] EXCEPT !.awaits = asked + 1] \in Changes
    <3>1. asked + 1 \in Nat
      BY <1>0
    <3>2. todo[1] \in Changes
      BY <2>1, FirstCommand
    <3> QED BY <3>1, <3>2 DEF Changes
  <2>3. todo' \in Seq(Changes)
    BY <2>1, <2>2, HeadChanged
  <2> QED BY <1>0, <2>1, <2>3, RefetchTypes DEF TypesOK
<1>9. CASE WatcherRebuild
  <2>1. PICK r \in EditedRows : onDisk' = SymDiff(onDisk, {r})
    BY <1>9 DEF WatcherRebuild
  <2>2. UNCHANGED <<search, txWindowStart, loaded, queries, asked, todo, muddled>> /\ event' = TRUE
    BY <1>9 DEF WatcherRebuild
  <2>3. onDisk' = onDisk \cup {r} \/ onDisk' = onDisk \ {r}
    BY <2>1 DEF SymDiff
  <2>4. r \in TableRows
    BY <2>1, TableAssumption
  <2>5. onDisk' \subseteq TableRows /\ IsFiniteSet(onDisk')
    BY <1>0, <2>3, <2>4, FS_AddElement, FS_RemoveElement
  <2> QED BY <1>0, <2>2, <2>5 DEF TypesOK
<1>10. CASE onPipelineEvent
  <2>1. FetchAgain /\ event' = FALSE /\ UNCHANGED <<onDisk, search, todo>>
    BY <1>10 DEF onPipelineEvent
  <2> QED BY <1>0, <2>1, RefetchTypes DEF TypesOK
<1>11. CASE UNCHANGED tableVars
  BY <1>0, <1>11 DEF TypesOK, tableVars
<1> QED BY <1>1, <1>2, <1>3, <1>4, <1>5, <1>6, <1>7, <1>8, <1>9, <1>10, <1>11 DEF TableNext

-----------------------------------------------------------------------------
(* The invariant is kept.                                                  *)

\* A fetch that mixes no answers leaves one query, of the first page.
LEMMA Fetched ==
  ASSUME TypesOK, ~muddled',
         (\E s \in DOMAIN Searches : Refetch(s) /\ search' = s) \/ (FetchAgain /\ search' = search)
  PROVE  \E q : /\ queries' = {q} /\ q.search = search' /\ q.from = 0 /\ q.rows = Unread
                /\ txWindowStart' = 0
<1>1. CASE \E s \in DOMAIN Searches : Refetch(s) /\ search' = s
  <2>1. PICK s \in DOMAIN Searches : Refetch(s) /\ search' = s
    BY <1>1
  <2>2. queries' = {Query(0, s)} /\ txWindowStart' = 0
    BY <2>1 DEF Refetch
  <2> QED BY <2>1, <2>2, NewQuery
<1>2. CASE FetchAgain /\ search' = search
  <2>1. queries = {} /\ txWindowStart = 0
    <3>1. ~Mixes(TRUE)
      BY <1>2 DEF FetchAgain
    <3>2. queries = {} /\ ~(txWindowStart > 0)
      BY <3>1 DEF Mixes
    <3>3. txWindowStart \in Nat
      BY DEF TypesOK
    <3> QED BY <3>2, <3>3
  <2>2. queries' = {Query(0, search)} /\ txWindowStart' = 0 /\ search \in DOMAIN Searches
    BY <1>2, <2>1 DEF FetchAgain, TypesOK
  <2> QED BY <1>2, <2>2, NewQuery
<1> QED BY <1>1, <1>2

LEMMA InitInv == TableInit => TInv
<1> SUFFICES ASSUME TableInit PROVE TInv
  OBVIOUS
<1>0. /\ onDisk = RowsAtStart /\ search \in DOMAIN Searches /\ txWindowStart = 0
      /\ loaded = PageOf(Matching(search), 0)
      /\ queries = {} /\ asked = 0 /\ todo = <<>> /\ pendingAdds = {} /\ pendingDeletes = {}
      /\ event = FALSE /\ muddled = FALSE
  BY DEF TableInit
<1>1. onDisk \subseteq TableRows /\ IsFiniteSet(onDisk)
  BY <1>0, TableAssumption
<1>2. Matching(search) \in Seq(TableRows)
  BY <1>0, <1>1, MatchingSeq
<1>3. loaded \in Seq(TableRows) /\ loaded = FirstRows(txWindowStart + Page)
  <2>1. txWindowStart + Page = Page
    BY <1>0, TableAssumption
  <2> QED BY <1>0, <1>2, <2>1, NextPage, FirstPage DEF FirstRows
<1>4. DOMAIN todo = {}
  BY <1>0
<1>5. todo \in Seq(Changes)
  BY <1>0
<1>6. TypesOK
  BY <1>0, <1>1, <1>3, <1>5 DEF TypesOK
<1> QED BY <1>0, <1>3, <1>4, <1>6 DEF TInv, CommandsOK, PendingOK, QueryOK, LoadedOK

LEMMA CommandsKept ==
  ASSUME TypesOK, CommandsOK, [TableNext]_tableVars
  PROVE  CommandsOK'
<1>1. CASE UNCHANGED todo
  BY <1>1 DEF CommandsOK
<1>2. ASSUME NEW kind \in {"add", "hide"}, NEW r \in TableRows, todo' = Append(todo, Change(kind, r))
      PROVE  CommandsOK'
  <2>1. \A i \in DOMAIN todo' : i \in DOMAIN todo \/ i = Len(todo) + 1
    BY <1>2, NewCommand
  <2> QED BY <1>2, <2>1, NewCommand DEF CommandsOK
<1>3. CASE todo # <<>> /\ todo' = Tail(todo)
  <2>1. \A i \in DOMAIN todo' : i + 1 \in DOMAIN todo /\ todo'[i] = todo[i + 1] /\ i + 1 > 1
    BY <1>3, FirstCommand
  <2> QED BY <2>1 DEF CommandsOK
<1>4. ASSUME todo # <<>>, NEW c \in Changes, c.committed, todo' = [todo EXCEPT ![1] = c]
      PROVE  CommandsOK'
  <2>1. todo'[1] = c /\ DOMAIN todo' = DOMAIN todo /\ \A i \in DOMAIN todo : i # 1 => todo'[i] = todo[i]
    BY <1>4, HeadChanged
  <2> QED BY <1>4, <2>1 DEF CommandsOK
<1>5. CASE Commit
  <2>1. todo # <<>> /\ todo' = [todo EXCEPT ![1].committed = TRUE] /\ todo[1] \in Changes
    BY <1>5, FirstCommand DEF Commit
  <2>2. [todo[1] EXCEPT !.committed = TRUE] \in Changes /\ [todo[1] EXCEPT !.committed = TRUE].committed
    BY <2>1 DEF Changes
  <2> QED BY <1>4, <2>1, <2>2
<1>6. CASE Refresh
  <2>1. /\ todo # <<>> /\ todo' = [todo EXCEPT ![1].awaits = asked + 1]
        /\ todo[1] \in Changes /\ todo[1].committed
    BY <1>6, FirstCommand DEF Refresh
  <2>2. asked + 1 \in Nat
    BY DEF TypesOK
  <2>3. /\ [todo[1] EXCEPT !.awaits = asked + 1] \in Changes
        /\ [todo[1] EXCEPT !.awaits = asked + 1].committed
    BY <2>1, <2>2 DEF Changes
  <2> QED BY <1>4, <2>1, <2>3
<1>7. CASE TableNext
  <2>1. \/ UNCHANGED todo \/ Commit \/ Refresh
        \/ todo # <<>> /\ todo' = Tail(todo)
        \/ \E kind \in {"add", "hide"}, r \in TableRows : todo' = Append(todo, Change(kind, r))
    BY <1>7 DEF TableNext, ChangeSearch, Scroll, Read, Apply, addManualTransaction, hide, Fail,
                WatcherRebuild, onPipelineEvent
  <2> QED BY <1>1, <1>2, <1>3, <1>5, <1>6, <2>1
<1> QED BY <1>1, <1>7 DEF tableVars

LEMMA PendingKept ==
  ASSUME TypesOK, CommandsOK, PendingOK, [TableNext]_tableVars
  PROVE  PendingOK'
<1>0. /\ \A r \in pendingAdds : \E i \in DOMAIN todo : todo[i].row = r /\ todo[i].awaits = 0
      /\ \A r \in pendingDeletes : \E i \in DOMAIN todo : todo[i].row = r
  BY DEF PendingOK
<1>1. CASE UNCHANGED <<todo, pendingAdds, pendingDeletes>>
  BY <1>0, <1>1 DEF PendingOK
<1>2. ASSUME NEW kind \in {"add", "hide"}, NEW r \in TableRows, todo' = Append(todo, Change(kind, r)),
             pendingAdds' \subseteq pendingAdds \cup {r}, pendingDeletes' \subseteq pendingDeletes \cup {r}
      PROVE  PendingOK'
  <2>1. Len(todo) + 1 \in DOMAIN todo' /\ todo'[Len(todo) + 1].row = r /\ todo'[Len(todo) + 1].awaits = 0
    BY <1>2, NewCommand
  <2>2. \A i \in DOMAIN todo : i \in DOMAIN todo' /\ todo'[i] = todo[i]
    BY <1>2, NewCommand
  <2> QED BY <1>0, <1>2, <2>1, <2>2 DEF PendingOK
\* The head leaves; nothing is shown ahead of the backend for it any more.
<1>3. ASSUME todo # <<>>, todo' = Tail(todo), pendingAdds' \subseteq pendingAdds,
             pendingDeletes' \subseteq pendingDeletes \ {Head(todo).row},
             todo[1].awaits # 0 \/ Head(todo).row \notin pendingAdds'
      PROVE  PendingOK'
  <2>1. \A i \in DOMAIN todo : i # 1 => i - 1 \in DOMAIN todo' /\ todo'[i - 1] = todo[i]
    <3>1. /\ DOMAIN todo = 1 .. Len(todo) /\ Len(todo) \in Nat /\ DOMAIN todo' = 1 .. Len(todo) - 1
          /\ \A i \in DOMAIN todo' : todo'[i] = todo[i + 1]
      BY <1>3, FirstCommand
    <3>2. \A i \in 1 .. Len(todo) : i # 1 => i - 1 \in 1 .. Len(todo) - 1 /\ (i - 1) + 1 = i
      BY <3>1
    <3> QED BY <3>1, <3>2
  <2>2. Head(todo) = todo[1]
    BY <1>3, FirstCommand
  <2>3. ASSUME NEW r \in pendingAdds' PROVE \E j \in DOMAIN todo' : todo'[j].row = r /\ todo'[j].awaits = 0
    <3>1. PICK i \in DOMAIN todo : todo[i].row = r /\ todo[i].awaits = 0
      BY <1>0, <1>3, <2>3
    <3>2. i # 1
      BY <1>3, <2>2, <2>3, <3>1
    <3> QED BY <2>1, <3>1, <3>2
  <2>4. ASSUME NEW r \in pendingDeletes' PROVE \E j \in DOMAIN todo' : todo'[j].row = r
    <3>1. PICK i \in DOMAIN todo : todo[i].row = r
      BY <1>0, <1>3, <2>4
    <3>2. i # 1
      BY <1>3, <2>2, <2>4, <3>1
    <3> QED BY <2>1, <3>1, <3>2
  <2> QED BY <2>3, <2>4 DEF PendingOK
\* The head is changed in place.
<1>4. ASSUME todo # <<>>, NEW c \in Changes, c.row = todo[1].row, todo' = [todo EXCEPT ![1] = c],
             pendingAdds' \subseteq pendingAdds, pendingDeletes' = pendingDeletes,
             c.awaits = todo[1].awaits \/ Head(todo).row \notin pendingAdds'
      PROVE  PendingOK'
  <2>1. /\ DOMAIN todo' = DOMAIN todo /\ todo'[1] = c
        /\ \A i \in DOMAIN todo : i # 1 => todo'[i] = todo[i]
    BY <1>4, HeadChanged
  <2>2. Head(todo) = todo[1]
    BY <1>4, FirstCommand
  <2>3. \A r \in pendingAdds' : \E i \in DOMAIN todo' : todo'[i].row = r /\ todo'[i].awaits = 0
    BY <1>0, <1>4, <2>1, <2>2
  <2>4. \A r \in pendingDeletes' : \E i \in DOMAIN todo' : todo'[i].row = r
    BY <1>0, <1>4, <2>1
  <2> QED BY <2>3, <2>4 DEF PendingOK
<1>5. ASSUME NEW r \in TableRows, addManualTransaction(r) \/ hide(r) PROVE PendingOK'
  <2>1. /\ \E kind \in {"add", "hide"} : todo' = Append(todo, Change(kind, r))
        /\ pendingAdds' \subseteq pendingAdds \cup {r} /\ pendingDeletes' \subseteq pendingDeletes \cup {r}
    BY <1>5 DEF addManualTransaction, hide
  <2> QED BY <1>2, <2>1
<1>6. CASE Apply
  <2>1. PICK q \in queries :
          \/ UNCHANGED <<todo, pendingAdds, pendingDeletes>>
          \/ /\ todo # <<>> /\ Head(todo).awaits = q.n /\ todo' = Tail(todo)
             /\ pendingDeletes' = pendingDeletes \ {Head(todo).row} /\ pendingAdds' = pendingAdds
    BY <1>6 DEF Apply
  <2>2. q.n # 0
    BY <2>1 DEF TypesOK, Queries
  <2>3. CASE UNCHANGED <<todo, pendingAdds, pendingDeletes>>
    BY <1>1, <2>3
  <2>4. CASE ~UNCHANGED <<todo, pendingAdds, pendingDeletes>>
    <3>1. todo[1].awaits # 0
      BY <2>1, <2>2, <2>4, FirstCommand
    <3> QED BY <1>3, <2>1, <2>4, <3>1
  <2> QED BY <2>3, <2>4
<1>7. CASE Commit
  <2>1. /\ todo # <<>> /\ todo' = [todo EXCEPT ![1].committed = TRUE] /\ todo[1] \in Changes
        /\ UNCHANGED <<pendingAdds, pendingDeletes>>
    BY <1>7, FirstCommand DEF Commit
  <2> DEFINE c == [todo[1] EXCEPT !.committed = TRUE]
  <2>2. c \in Changes /\ c.row = todo[1].row /\ c.awaits = todo[1].awaits
    BY <2>1 DEF Changes
  <2>3. todo' = [todo EXCEPT ![1] = c]
    BY <2>1
  <2> HIDE DEF c
  <2> QED BY <1>4, <2>1, <2>2, <2>3
<1>8. CASE Fail
  <2>1. /\ todo # <<>> /\ todo' = Tail(todo)
        /\ pendingAdds' = pendingAdds \ {Head(todo).row} /\ pendingDeletes' = pendingDeletes \ {Head(todo).row}
    BY <1>8 DEF Fail
  <2> QED BY <1>3, <2>1
<1>9. CASE Refresh
  <2>1. /\ todo # <<>> /\ todo' = [todo EXCEPT ![1].awaits = asked + 1] /\ todo[1] \in Changes
        /\ pendingAdds' = pendingAdds \ {Head(todo).row} /\ pendingDeletes' = pendingDeletes
    BY <1>9, FirstCommand DEF Refresh
  <2> DEFINE c == [todo[1] EXCEPT !.awaits = asked + 1]
  <2>2. asked + 1 \in Nat
    BY DEF TypesOK
  <2>3. c \in Changes /\ c.row = todo[1].row
    BY <2>1, <2>2 DEF Changes
  <2>4. todo' = [todo EXCEPT ![1] = c]
    BY <2>1
  <2> HIDE DEF c
  <2> QED BY <1>4, <2>1, <2>3, <2>4
<1>10. CASE TableNext
  <2>1. \/ UNCHANGED <<todo, pendingAdds, pendingDeletes>> \/ Apply \/ Commit \/ Fail \/ Refresh
        \/ \E r \in TableRows : addManualTransaction(r) \/ hide(r)
    BY <1>10 DEF TableNext, ChangeSearch, Scroll, Read, WatcherRebuild, onPipelineEvent
  <2> QED BY <1>1, <1>5, <1>6, <1>7, <1>8, <1>9, <2>1
<1> QED BY <1>1, <1>10 DEF tableVars

LEMMA QueryKept ==
  ASSUME TypesOK, QueryOK, [TableNext]_tableVars
  PROVE  QueryOK'
<1> SUFFICES ASSUME ~muddled', NEW q \in queries'
             PROVE  queries' = {q} /\ q.search = search' /\ q.from = txWindowStart'
  BY DEF QueryOK
<1>1. CASE (\E s \in DOMAIN Searches : Refetch(s) /\ search' = s) \/ (FetchAgain /\ search' = search)
  BY <1>1, Fetched
<1>2. CASE Scroll
  <2>1. /\ queries' = {Query(txWindowStart + Page, search)} /\ txWindowStart' = txWindowStart + Page
        /\ search' = search
    BY <1>2 DEF Scroll, Mixes
  <2>2. search \in DOMAIN Searches /\ txWindowStart + Page \in Nat
    BY TableAssumption DEF TypesOK
  <2> QED BY <2>1, <2>2, NewQuery
<1>3. CASE Read
  <2>1. PICK p \in queries :
          queries' = (queries \ {p}) \cup
            {[p EXCEPT !.rows = PageOf(Matching(p.search), p.from), !.count = Len(Matching(p.search))]}
    BY <1>3 DEF Read
  <2>2. UNCHANGED <<search, txWindowStart, muddled>>
    BY <1>3 DEF Read
  <2>3. queries = {p} /\ p.search = search /\ p.from = txWindowStart /\ p \in Queries
    BY <2>1, <2>2 DEF QueryOK, TypesOK
  <2>4. q = [p EXCEPT !.rows = PageOf(Matching(p.search), p.from), !.count = Len(Matching(p.search))]
    BY <2>1, <2>3
  <2>5. q.search = p.search /\ q.from = p.from
    BY <2>3, <2>4 DEF Queries
  <2> QED BY <2>1, <2>2, <2>3, <2>4, <2>5
<1>4. CASE Apply
  <2>1. PICK p \in queries : queries' = queries \ {p} /\ UNCHANGED muddled
    BY <1>4 DEF Apply
  <2> QED BY <2>1 DEF QueryOK
<1>5. CASE UNCHANGED <<queries, search, txWindowStart, muddled>>
  BY <1>5 DEF QueryOK
<1>6. CASE TableNext
  <2>1. \/ (\E s \in DOMAIN Searches : Refetch(s) /\ search' = s) \/ (FetchAgain /\ search' = search)
        \/ Scroll \/ Read \/ Apply \/ UNCHANGED <<queries, search, txWindowStart, muddled>>
    <3>1. search \in DOMAIN Searches
      BY DEF TypesOK
    <3> QED BY <1>6, <3>1 DEF TableNext, ChangeSearch, addManualTransaction, hide, Commit, Fail, Refresh, AfterHide,
                AfterAdd, WatcherRebuild, onPipelineEvent
  <2> QED BY <1>1, <1>2, <1>3, <1>4, <1>5, <2>1
<1> QED BY <1>5, <1>6 DEF tableVars

\* What a step leaves alone of what is owed, without a word from the backend.
LEMMA StillOwed ==
  ASSUME TypesOK, CommandsOK, [TableNext]_tableVars, Owed, ~Owed'
  PROVE  Refresh \/ onPipelineEvent
<1>1. ASSUME NEW kind \in {"add", "hide"}, NEW r \in TableRows, todo' = Append(todo, Change(kind, r)), event' = event
      PROVE  FALSE
  <2>1. CASE event
    BY <1>1, <2>1 DEF Owed
  <2>2. CASE todo # <<>> /\ Head(todo).committed /\ Head(todo).awaits = 0
    <3>1. todo' # <<>> /\ todo' \in Seq(Changes) /\ 1 \in DOMAIN todo /\ todo'[1] = todo[1]
      BY <1>1, <2>2, NewCommand, FirstCommand
    <3>2. Head(todo') = Head(todo)
      BY <2>2, <3>1, FirstCommand
    <3> QED BY <2>2, <3>1, <3>2 DEF Owed
  <2> QED BY <2>1, <2>2 DEF Owed
<1>2. CASE Apply
  <2>1. PICK q \in queries :
          /\ event' = event
          /\ UNCHANGED todo \/ (todo # <<>> /\ Head(todo).awaits = q.n)
    BY <1>2 DEF Apply
  <2>2. q.n # 0
    BY <2>1 DEF TypesOK, Queries
  <2> QED BY <2>1, <2>2 DEF Owed
<1>3. CASE Commit
  <2>1. todo # <<>> /\ ~Head(todo).committed /\ event' = event
    BY <1>3 DEF Commit
  <2> QED BY <2>1 DEF Owed
<1>4. CASE Fail
  <2>1. todo # <<>> /\ ~Head(todo).committed /\ event' = event
    BY <1>4 DEF Fail
  <2> QED BY <2>1 DEF Owed
<1>5. CASE WatcherRebuild
  BY <1>5 DEF WatcherRebuild, Owed
<1>6. CASE UNCHANGED <<todo, event>>
  BY <1>6 DEF Owed
<1>7. CASE TableNext
  <2>1. \/ UNCHANGED <<todo, event>> \/ Apply \/ Commit \/ Fail \/ WatcherRebuild \/ Refresh \/ onPipelineEvent
        \/ \E kind \in {"add", "hide"}, r \in TableRows : todo' = Append(todo, Change(kind, r)) /\ event' = event
    BY <1>7 DEF TableNext, ChangeSearch, Scroll, Read, addManualTransaction, hide
  <2> QED BY <1>1, <1>2, <1>3, <1>4, <1>5, <1>6, <2>1
<1> QED BY <1>6, <1>7 DEF tableVars

\* A command that has just been done owes a refresh, and so does a rebuild.
LEMMA ChangeIsOwed ==
  ASSUME TypesOK, CommandsOK, Commit \/ WatcherRebuild
  PROVE  Owed'
<1>1. CASE WatcherRebuild
  BY <1>1 DEF WatcherRebuild, Owed
<1>2. CASE Commit
  <2>1. /\ todo # <<>> /\ todo' = [todo EXCEPT ![1].committed = TRUE] /\ todo[1] \in Changes
        /\ ~todo[1].committed /\ 1 \in DOMAIN todo
    BY <1>2, FirstCommand DEF Commit
  <2> DEFINE c == [todo[1] EXCEPT !.committed = TRUE]
  <2>2. c \in Changes /\ c.committed /\ c.awaits = todo[1].awaits
    BY <2>1 DEF Changes
  <2>3. todo' = [todo EXCEPT ![1] = c] /\ todo[1].awaits = 0
    BY <2>1 DEF CommandsOK
  <2> HIDE DEF c
  <2>4. todo' # <<>> /\ Head(todo') = c
    BY <2>1, <2>2, <2>3, HeadChanged
  <2> QED BY <2>2, <2>3, <2>4 DEF Owed
<1> QED BY <1>1, <1>2

LEMMA LoadedKept ==
  ASSUME TypesOK, CommandsOK, QueryOK, LoadedOK, [TableNext]_tableVars
  PROVE  LoadedOK'
<1> DEFINE G == /\ queries = {} => loaded = FirstRows(txWindowStart + Page)
                /\ \A q \in queries :
                     /\ q.from > 0 => loaded = FirstRows(q.from)
                     /\ q.rows # Unread => q.rows = PageOf(Matching(search), q.from)
<1> SUFFICES ASSUME ~muddled', ~Owed' PROVE G'
  BY DEF LoadedOK
<1>a. ~muddled /\ ~Owed => G
  BY DEF LoadedOK
<1>0. /\ onDisk \subseteq TableRows /\ IsFiniteSet(onDisk) /\ search \in DOMAIN Searches
      /\ txWindowStart \in Nat /\ Page \in Nat
      /\ Matching(search) \in Seq(TableRows) /\ Len(Matching(search)) \in Nat
  BY TableAssumption, MatchingSeq DEF TypesOK
<1>1. CASE (\E s \in DOMAIN Searches : Refetch(s) /\ search' = s) \/ (FetchAgain /\ search' = search)
  <2>1. PICK q : queries' = {q} /\ q.from = 0 /\ q.rows = Unread
    BY <1>1, Fetched
  <2>2. ~(0 > 0)
    OBVIOUS
  <2> QED BY <2>1, <2>2
<1>2. CASE ~Refresh /\ ~onPipelineEvent /\ UNCHANGED <<onDisk, search, txWindowStart, loaded, queries, muddled>>
  <2>1. ~Owed /\ ~muddled
    BY <1>2, StillOwed
  <2>2. G
    BY <1>a, <2>1
  <2>3. Matching(search)' = Matching(search)
    BY <1>2 DEF Matching
  <2> QED BY <1>2, <2>2, <2>3 DEF FirstRows
<1>3. CASE Scroll
  <2>1. /\ ~muddled /\ queries = {} /\ queries' = {Query(txWindowStart + Page, search)}
        /\ UNCHANGED <<onDisk, search, loaded, todo, event>>
    BY <1>3 DEF Scroll, Mixes
  <2>2. ~Owed
    BY <2>1 DEF Owed
  <2>3. loaded = FirstRows(txWindowStart + Page)
    BY <1>a, <2>1, <2>2
  <2>4. PICK q : queries' = {q} /\ q.from = txWindowStart + Page /\ q.rows = Unread
    BY <1>0, <2>1, NewQuery
  <2>5. Matching(search)' = Matching(search)
    BY <2>1 DEF Matching
  <2>6. loaded' = FirstRows(q.from)'
    BY <2>1, <2>3, <2>4, <2>5 DEF FirstRows
  <2> QED BY <2>4, <2>6
<1>4. CASE Read
  <2>1. PICK p \in queries :
          queries' = (queries \ {p}) \cup
            {[p EXCEPT !.rows = PageOf(Matching(p.search), p.from), !.count = Len(Matching(p.search))]}
    BY <1>4 DEF Read
  <2>2. UNCHANGED <<onDisk, search, txWindowStart, loaded, todo, event, muddled>>
    BY <1>4 DEF Read
  <2>3. queries = {p} /\ p.search = search /\ p \in Queries
    BY <2>1, <2>2 DEF QueryOK, TypesOK
  <2>4. PICK q : queries' = {q} /\ q.rows = PageOf(Matching(search), p.from) /\ q.from = p.from
    <3> DEFINE page == PageOf(Matching(search), p.from)
               c == [p EXCEPT !.rows = page, !.count = Len(Matching(p.search))]
    <3>1. queries' = {c}
      BY <2>1, <2>3
    <3>2. c.rows = page /\ c.from = p.from
      <4> HIDE DEF page
      <4> QED BY <2>3 DEF Queries
    <3> HIDE DEF c, page
    <3>3. queries' = {c} /\ c.rows = page /\ c.from = p.from
      BY <3>1, <3>2
    <3> QED BY <3>3 DEF page
  <2>5. p.from > 0 => loaded = FirstRows(p.from)
    BY <1>a, <2>1, <2>2 DEF Owed
  <2>6. Matching(search)' = Matching(search)
    BY <2>2 DEF Matching
  <2>7. FirstRows(p.from)' = FirstRows(p.from)
    BY <2>6 DEF FirstRows
  <2> QED BY <2>2, <2>4, <2>5, <2>6, <2>7
<1>5. CASE Apply
  <2>1. PICK q \in queries : q.rows # Unread /\ queries' = queries \ {q} /\ loaded' = Extended(q)
    BY <1>5 DEF Apply
  <2>2. UNCHANGED <<onDisk, search, txWindowStart, muddled>>
    BY <1>5 DEF Apply
  <2>3. ~(Refresh \/ onPipelineEvent)
    <3>1. queries' = queries \ {q} /\ q \in queries
      BY <2>1
    <3>2. Refresh \/ onPipelineEvent => queries \subseteq queries'
      BY DEF Refresh, AfterHide, AfterAdd, Refetch, FetchAgain, onPipelineEvent
    <3> QED BY <3>1, <3>2
  <2>4. ~Owed /\ ~muddled
    BY <2>2, <2>3, StillOwed
  <2>5. queries = {q} /\ q.from = txWindowStart
    BY <2>1, <2>4 DEF QueryOK
  <2>6. q.rows = PageOf(Matching(search), q.from) /\ (q.from > 0 => loaded = FirstRows(q.from))
    BY <1>a, <2>1, <2>4
  <2>7. loaded' = FirstRows(txWindowStart + Page)
    <3>1. CASE q.from > 0
      <4>1. FirstRows(q.from) \in Seq(TableRows)
            /\ FirstRows(q.from) \o PageOf(Matching(search), q.from) = FirstRows(q.from + Page)
        BY <1>0, <2>5, NextPage DEF FirstRows
      <4>2. loaded # NotLoaded
        BY <2>6, <3>1, <4>1, TableAssumption
      <4> QED BY <2>1, <2>5, <2>6, <3>1, <4>1, <4>2 DEF Extended
    <3>2. CASE ~(q.from > 0)
      <4>1. q.from = 0 /\ txWindowStart + Page = Page
        BY <1>0, <2>5, <3>2
      <4> QED BY <1>0, <2>1, <2>6, <3>2, <4>1, FirstPage DEF Extended, FirstRows
    <3> QED BY <3>1, <3>2
  <2>8. Matching(search)' = Matching(search)
    BY <2>2 DEF Matching
  <2>9. FirstRows(txWindowStart + Page)' = FirstRows(txWindowStart + Page)
    BY <2>2, <2>8 DEF FirstRows
  <2>10. queries' = {}
    BY <2>1, <2>5
  <2> QED BY <2>7, <2>9, <2>10
<1>6. CASE TableNext
  <2>1. search \in DOMAIN Searches
    BY <1>0
  <2>2. \/ (\E s \in DOMAIN Searches : Refetch(s) /\ search' = s) \/ (FetchAgain /\ search' = search)
        \/ Scroll \/ Read \/ Apply \/ Commit \/ WatcherRebuild
        \/ UNCHANGED <<onDisk, search, txWindowStart, loaded, queries, muddled>>
    BY <1>6, <2>1 DEF TableNext, ChangeSearch, addManualTransaction, hide, Fail, Refresh, AfterHide,
                AfterAdd, onPipelineEvent
  <2>3. Refresh \/ onPipelineEvent =>
          (\E s \in DOMAIN Searches : Refetch(s) /\ search' = s) \/ (FetchAgain /\ search' = search)
    BY <2>1 DEF Refresh, AfterHide, AfterAdd, onPipelineEvent
  <2> QED BY <1>1, <1>2, <1>3, <1>4, <1>5, <2>2, <2>3, ChangeIsOwed
<1>7. CASE UNCHANGED tableVars
  <2>1. ~Owed /\ ~muddled
    BY <1>7 DEF tableVars, Owed
  <2>2. G
    BY <1>a, <2>1
  <2>3. Matching(search)' = Matching(search)
    BY <1>7 DEF tableVars, Matching
  <2> QED BY <1>7, <2>2, <2>3 DEF tableVars, FirstRows
<1> QED BY <1>6, <1>7

LEMMA NextInv == TInv /\ [TableNext]_tableVars => TInv'
BY TypesKept, CommandsKept, PendingKept, QueryKept, LoadedKept DEF TInv

LEMMA TableInv == TableSpec => []TInv
BY InitInv, NextInv, PTL DEF TableSpec

-----------------------------------------------------------------------------
(* The theorems.                                                           *)

\* At rest nothing is shown ahead of the backend: the table shows what is loaded.
LEMMA AtRest ==
  ASSUME TypesOK, PendingOK, todo = <<>>, loaded \in Seq(TableRows)
  PROVE  Shown = loaded
<1>1. pendingAdds = {} /\ pendingDeletes = {}
  <2>1. DOMAIN todo = {}
    OBVIOUS
  <2> QED BY <2>1 DEF PendingOK
<1>2. NewestFirst(pendingAdds \ ToSet(loaded)) = <<>>
  BY <1>1, NoRowsInOrder
<1>3. DOMAIN loaded = 1 .. Len(loaded) /\ Len(loaded) \in Nat
  BY LenProperties
<1>4. {i \in DOMAIN loaded : loaded[i] \notin pendingDeletes} = 1 .. Len(loaded)
  BY <1>1, <1>3
<1>5. loaded # NotLoaded
  BY TableAssumption
<1> DEFINE kept == InOrder(1 .. Len(loaded))
           rows == [n \in DOMAIN kept |-> loaded[kept[n]]]
<1>6. kept = [i \in 1 .. Len(loaded) |-> i]
  BY <1>3, AllInOrder
<1>7. Shown = <<>> \o rows
  <2>1. Shown = <<>> \o Only(loaded, 1 .. Len(loaded))
    BY <1>2, <1>4, <1>5 DEF Shown, filterPendingDeletes
  <2> QED BY <2>1 DEF Only, Taken
<1>8. rows = [i \in 1 .. Len(loaded) |-> loaded[i]]
  BY <1>6
<1>9. rows = loaded
  BY <1>3, <1>8
<1> QED BY <1>7, <1>9, ConcatEmptySeq

\* When no query, command or event is under way, the table shows the first rows of the
\* search as they are on disk, as far as it was scrolled: whatever was added, hidden,
\* rebuilt, failed or scrolled to before, for any rows, searches and page size.
THEOREM SettledTableIsCurrentSafe == TableSpec => []SettledTableIsCurrent
<1>1. TInv => SettledTableIsCurrent
  <2> SUFFICES ASSUME TInv, queries = {}, todo = <<>>, ~event, ~muddled
               PROVE  Shown = SubSeq(Matching(search), 1,
                                     Min({Cardinality(onDisk \cap Searches[search]), txWindowStart + Page}))
    BY DEF SettledTableIsCurrent
  <2>1. ~Owed
    BY DEF Owed
  <2>2. loaded = FirstRows(txWindowStart + Page)
    BY <2>1 DEF TInv, LoadedOK
  <2>3. /\ Matching(search) \in Seq(TableRows) /\ txWindowStart + Page \in Nat
        /\ Len(Matching(search)) = Cardinality(onDisk \cap Searches[search])
    BY MatchingSeq, TableAssumption DEF TInv, TypesOK
  <2>4. FirstRows(txWindowStart + Page) \in Seq(TableRows)
    BY <2>3, NextPage DEF FirstRows
  <2>5. Shown = loaded
    BY <2>2, <2>4, AtRest DEF TInv
  <2> QED BY <2>2, <2>3, <2>5 DEF FirstRows
<1> QED BY <1>1, TableInv, PTL
=============================================================================
