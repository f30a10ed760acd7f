------------------------------ MODULE RelayProofs ------------------------------
(***************************************************************************)
(* Proofs about the relay.  For any set of devices, links and files and any *)
(* number of changes and faults: no blob is kept under the hash of another *)
(* content, a trade link that was saved survives, and devices that synced  *)
(* three rounds after the last change agree (RelaySync).  A group is joined *)
(* once (Pairing, at the end).                                             *)
(*                                                                         *)
(* The inductive invariant IInv follows every entry a device wrote: no     *)
(* document has an entry of a device that the device has not itself,       *)
(* unless the device lost entries (OwnOK), so a new entry is new everywhere *)
(* and nobody has deleted it.                                              *)
(* CInv, further below, says what each round of syncs has brought about.   *)
(***************************************************************************)
EXTENDS RelaySync, Pairing, TLAPS, FiniteSetTheorems, WellFoundedInduction

-----------------------------------------------------------------------------
(* Finite sets.                                                            *)

\* Induction over finite sets, as the smallest counterexample: among finite sets
\* one has no proper subset among them.
LEMMA SmallestSubset ==
  ASSUME NEW S, NEW T, T \subseteq FiniteSubsetsOf(S), T # {}
  PROVE \E U \in T : \A V \in T : V \subseteq U => V = U
<1>1. IsWellFoundedOn(StrictSubsetOrdering(S), FiniteSubsetsOf(S))
  BY FS_StrictSubsetOrderingWellFounded
<1>2. \E U \in T : \A V \in T : ~ (<<V, U>> \in StrictSubsetOrdering(S))
  BY <1>1, WFMin
<1> QED BY <1>2 DEF StrictSubsetOrdering, FiniteSubsetsOf

\* A finite set of numbers that is not empty has a greatest element.
LEMMA MaxExists ==
  ASSUME NEW S \in SUBSET Nat, IsFiniteSet(S), S # {}
  PROVE Max(S) \in S /\ \A x \in S : x <= Max(S)
<1> DEFINE
  HasMax(U) == \E x \in U : \A y \in U : x >= y
  Bad == {U \in SUBSET S : U # {} /\ ~ HasMax(U)}
<1>1. Bad = {}
  <2> SUFFICES ASSUME Bad # {} PROVE FALSE
    OBVIOUS
  <2>1. Bad \subseteq FiniteSubsetsOf(S)
    BY FS_Subset DEF FiniteSubsetsOf
  <2>2. \E U \in Bad : \A V \in Bad : V \subseteq U => V = U
    <3> HIDE DEF Bad
    <3> QED BY <2>1, SmallestSubset
  <2>3. PICK U \in Bad : \A V \in Bad : V \subseteq U => V = U
    BY <2>2
  <2> HIDE DEF HasMax
  <2>4. PICK x \in U : TRUE
    BY <2>3
  <2>5. ~ HasMax(U) /\ U \subseteq Nat
    BY <2>3
  <2>6. HasMax(U \ {x}) \/ U \ {x} = {}
    <3>1. U \ {x} \in SUBSET S /\ U \ {x} \subseteq U /\ U \ {x} # U
      BY <2>3, <2>4
    <3>2. U \ {x} \notin Bad
      BY <2>3, <3>1
    <3> QED BY <3>1, <3>2
  <2>7. CASE U \ {x} = {}
    BY <2>4, <2>5, <2>7 DEF HasMax
  <2>8. CASE HasMax(U \ {x})
    <3>1. PICK m \in U \ {x} : \A y \in U \ {x} : m >= y
      BY <2>8 DEF HasMax
    <3>2. CASE m >= x
      BY <2>5, <3>1, <3>2 DEF HasMax
    <3>3. CASE ~ (m >= x)
      BY <2>4, <2>5, <3>1, <3>3 DEF HasMax
    <3> QED BY <3>2, <3>3
  <2> QED BY <2>6, <2>7, <2>8
<1>2. HasMax(S)
  BY <1>1
<1> QED BY <1>2 DEF Max

-----------------------------------------------------------------------------
(* Documents.                                                              *)

Actors == Devices \cup {0}

\* A document with finitely many entries.
Good(doc) == IsDoc(doc) /\ IsFiniteSet(doc.puts)

\* Entries of trade links that device d wrote.
OwnLinks(doc, d) == {p \in doc.puts : p.by = d /\ p.key \in Links}

Alike(P, p) == {q \in P : q.map = p.map /\ q.key = p.key}

\* Entries of one device for one key of one map are numbered from zero.
Numbered(P) == \A p \in P : p.n < Cardinality(Alike(P, p))

\* The map a reader sees is one of the document's.
LEMMA SeenIsMap ==
  ASSUME NEW doc, IsDoc(doc)
  PROVE Seen(doc) \in doc.maps /\ Seen(doc) \in Actors
<1>1. doc.maps \subseteq Actors /\ doc.maps # {}
  BY DEF IsDoc, Docs, Actors
<1>2. Actors \subseteq Nat /\ IsFiniteSet(Actors)
  BY RelaySyncAssumption, FS_AddElement DEF Actors
<1>3. IsFiniteSet(doc.maps) /\ doc.maps \in SUBSET Nat
  BY <1>1, <1>2, FS_Subset
<1> QED BY <1>1, <1>3, MaxExists DEF Seen

\* The fields of what reconcile makes.
LEMMA ReconcileFields ==
  ASSUME NEW doc, IsDoc(doc), NEW d, NEW K
  PROVE LET r == Reconcile(doc, d, K) IN
    /\ r.maps = doc.maps
    /\ r.puts = doc.puts \cup {Put(doc, d, k) : k \in K \ Hydrate(doc)}
    /\ r.gone = doc.gone \cup UNION {Entries(doc, k) : k \in Hydrate(doc) \ K}
<1> DEFINE
  new == {Put(doc, d, k) : k \in K \ Hydrate(doc)}
  old == UNION {Entries(doc, k) : k \in Hydrate(doc) \ K}
<1>1. Reconcile(doc, d, K) = [doc EXCEPT !.puts = @ \cup new, !.gone = @ \cup old]
  BY DEF Reconcile
<1> HIDE DEF new, old
<1>2. LET r == Reconcile(doc, d, K) IN
        r.maps = doc.maps /\ r.puts = doc.puts \cup new /\ r.gone = doc.gone \cup old
  BY <1>1 DEF IsDoc, Docs
<1> QED BY <1>2 DEF new, old

\* reconcile makes a document of a document.
LEMMA ReconcileIsDoc ==
  ASSUME NEW doc, Good(doc), NEW d \in Actors, NEW K \in SUBSET Keys
  PROVE Good(Reconcile(doc, d, K))
<1> DEFINE
  new == {Put(doc, d, k) : k \in K \ Hydrate(doc)}
  r == Reconcile(doc, d, K)
<1>1. r.maps = doc.maps /\ r.puts = doc.puts \cup new
      /\ r.gone = doc.gone \cup UNION {Entries(doc, k) : k \in Hydrate(doc) \ K}
  BY ReconcileFields DEF Good
<1>2. IsFiniteSet(new)
  <2>1. IsFiniteSet(K \ Hydrate(doc))
    <3>1. IsFiniteSet(Keys)
      BY RelaySyncAssumption, FS_Union DEF Keys
    <3> QED BY <3>1, FS_Subset
  <2>2. ExistsSurjection(K \ Hydrate(doc), new)
    <3> DEFINE g == [k \in K \ Hydrate(doc) |-> Put(doc, d, k)]
    <3>1. g \in Surjection(K \ Hydrate(doc), new)
      BY DEF Surjection
    <3> QED BY <3>1 DEF ExistsSurjection
  <2> HIDE DEF new
  <2> QED BY <2>1, <2>2, FS_Surjection DEF ExistsSurjection
<1>3. new \subseteq [map : Actors, key : Keys, by : Actors, n : Nat]
  <2> SUFFICES ASSUME NEW k \in K PROVE Put(doc, d, k) \in [map : Actors, key : Keys, by : Actors, n : Nat]
    OBVIOUS
  <2>1. Cardinality({p \in doc.puts : p.map = Seen(doc) /\ p.key = k /\ p.by = d}) \in Nat
    BY FS_Subset, FS_CardinalityType DEF Good
  <2> QED BY <2>1, SeenIsMap DEF Good, Put
<1>4. UNION {Entries(doc, k) : k \in Hydrate(doc) \ K} \subseteq doc.puts
  BY DEF Entries
<1>5. IsFiniteSet(r.puts)
  <2> HIDE DEF new, r
  <2>1. IsFiniteSet(doc.puts \cup new)
    BY <1>2, FS_Union DEF Good
  <2> QED BY <1>1, <2>1
<1>6. r.gone \subseteq r.puts /\ r.maps # {}
  BY <1>1, <1>4 DEF Good, IsDoc
<1>7. r \in Docs
  <2>1. doc.puts \subseteq [map : Actors, key : Keys, by : Actors, n : Nat] /\ doc.maps \subseteq Actors
    BY DEF Good, IsDoc, Docs, Actors
  <2>2. r.puts \subseteq [map : Actors, key : Keys, by : Actors, n : Nat]
    BY <1>1, <1>3, <2>1
  <2> DEFINE old == UNION {Entries(doc, k) : k \in Hydrate(doc) \ K}
  <2>3. r = [doc EXCEPT !.puts = @ \cup new, !.gone = @ \cup old]
    BY DEF Reconcile
  <2>4. doc.puts \cup new \subseteq [map : Actors, key : Keys, by : Actors, n : Nat]
        /\ doc.gone \cup old \subseteq [map : Actors, key : Keys, by : Actors, n : Nat]
    BY <1>3, <1>4, <2>1 DEF Good, IsDoc
  <2> HIDE DEF new, old, r
  <2> QED BY <2>3, <2>4 DEF Docs, Actors, Good, IsDoc
<1> HIDE DEF new, r
<1>8. Good(r)
  BY <1>5, <1>6, <1>7 DEF Good, IsDoc
<1> QED BY <1>8 DEF r

\* A merge makes a document of two.
LEMMA MergeIsDoc ==
  ASSUME NEW a, NEW b, Good(a), Good(b)
  PROVE Good(Merge(a, b))
<1>1. IsFiniteSet(a.puts \cup b.puts)
  BY FS_Union DEF Good
<1> QED BY <1>1 DEF Good, IsDoc, Docs, Merge

\* What the entries of a device are after it reconciled: those it had, and new
\* ones that continue their numbers.
LEMMA NewEntries ==
  ASSUME NEW doc, Good(doc), NEW d \in Devices, NEW K \in SUBSET Keys, Numbered(OwnLinks(doc, d))
  PROVE LET r == Reconcile(doc, d, K) IN
    /\ Numbered(OwnLinks(r, d))
    /\ OwnLinks(doc, d) \subseteq OwnLinks(r, d)
    /\ \A l \in Links \cap (K \ Hydrate(doc)) :
         Put(doc, d, l) \in OwnLinks(r, d) \ OwnLinks(doc, d)
<1> DEFINE
  P == OwnLinks(doc, d)
  L == Links \cap (K \ Hydrate(doc))
  r == Reconcile(doc, d, K)
  Q == OwnLinks(r, d)
<1>1. Q = P \cup {Put(doc, d, l) : l \in L}
  <2>1. r.puts = doc.puts \cup {Put(doc, d, k) : k \in K \ Hydrate(doc)}
    BY ReconcileFields DEF Good
  <2>2. \A k : Put(doc, d, k).by = d /\ Put(doc, d, k).key = k
    BY DEF Put
  <2> QED BY <2>1, <2>2 DEF OwnLinks
<1>2. IsFiniteSet(P) /\ IsFiniteSet(Q)
  BY ReconcileIsDoc, FS_Subset DEF OwnLinks, Good, Actors
<1>3. ASSUME NEW l \in L
      PROVE /\ Put(doc, d, l).n = Cardinality(Alike(P, Put(doc, d, l)))
            /\ Put(doc, d, l) \notin P
  <2>1. Alike(P, Put(doc, d, l)) = {p \in doc.puts : p.map = Seen(doc) /\ p.key = l /\ p.by = d}
    BY DEF Alike, Put, OwnLinks
  <2>2. Put(doc, d, l).n = Cardinality(Alike(P, Put(doc, d, l)))
    BY <2>1 DEF Put
  <2>3. Cardinality(Alike(P, Put(doc, d, l))) \in Nat
    BY <1>2, FS_Subset, FS_CardinalityType DEF Alike
  <2> QED BY <2>2, <2>3 DEF Numbered
<1>4. Numbered(Q)
  <2> SUFFICES ASSUME NEW p \in Q PROVE p.n < Cardinality(Alike(Q, p))
    BY DEF Numbered
  <2>1. Alike(P, p) \subseteq Alike(Q, p) /\ IsFiniteSet(Alike(Q, p)) /\ IsFiniteSet(Alike(P, p))
    BY <1>1, <1>2, FS_Subset DEF Alike
  <2>2. Cardinality(Alike(P, p)) <= Cardinality(Alike(Q, p))
    BY <2>1, FS_Subset
  <2>3. Cardinality(Alike(P, p)) \in Nat /\ Cardinality(Alike(Q, p)) \in Nat
    BY <2>1, FS_CardinalityType
  <2>4. CASE p \in P
    <3>1. p.n < Cardinality(Alike(P, p)) /\ p.n \in Nat
      BY <2>4 DEF Numbered, OwnLinks, Good, IsDoc, Docs
    <3> QED BY <2>2, <2>3, <3>1
  <2>5. CASE p \notin P
    <3>1. PICK l \in L : p = Put(doc, d, l)
      BY <1>1, <2>5
    <3>2. p \in Alike(Q, p) /\ p \notin Alike(P, p)
      BY <2>5 DEF Alike
    <3>3. Cardinality(Alike(P, p)) # Cardinality(Alike(Q, p))
      BY <2>1, <3>2, FS_Subset
    <3>4. p.n = Cardinality(Alike(P, p))
      BY <1>3, <3>1
    <3> QED BY <2>2, <2>3, <3>3, <3>4
  <2> QED BY <2>4, <2>5
<1> QED BY <1>1, <1>3, <1>4

\* The entries of the others stay what they were.
LEMMA OthersEntries ==
  ASSUME NEW doc, Good(doc), NEW d, NEW K, NEW e, d # e \/ Links \cap (K \ Hydrate(doc)) = {}
  PROVE OwnLinks(Reconcile(doc, d, K), e) = OwnLinks(doc, e)
<1>1. Reconcile(doc, d, K).puts = doc.puts \cup {Put(doc, d, k) : k \in K \ Hydrate(doc)}
  BY ReconcileFields DEF Good
<1>2. \A k : Put(doc, d, k).by = d /\ Put(doc, d, k).key = k
  BY DEF Put
<1> QED BY <1>1, <1>2 DEF OwnLinks

\* A reader finds the links that a device made the document contain.
LEMMA ReconciledLinks ==
  ASSUME NEW doc, Good(doc), NEW d \in Devices, NEW K \in SUBSET Keys, Numbered(OwnLinks(doc, d)),
         NEW l \in Links \cap K
  PROVE l \in Hydrate(Reconcile(doc, d, K))
<1> DEFINE r == Reconcile(doc, d, K)
<1>1. r.maps = doc.maps
      /\ r.puts = doc.puts \cup {Put(doc, d, k) : k \in K \ Hydrate(doc)}
      /\ r.gone = doc.gone \cup UNION {Entries(doc, k) : k \in Hydrate(doc) \ K}
  BY ReconcileFields DEF Good
<1>2. Seen(r) = Seen(doc)
  BY <1>1 DEF Seen
<1>3. l \in Keys
  BY DEF Keys
<1>4. CASE l \in Hydrate(doc)
  <2>1. PICK p : p \in Entries(doc, l)
    BY <1>4 DEF Hydrate
  <2>2. p \notin r.gone
    BY <1>1, <2>1 DEF Entries
  <2>3. p \in Entries(r, l)
    BY <1>1, <1>2, <2>1, <2>2 DEF Entries
  <2> QED BY <1>3, <2>3 DEF Hydrate
<1>5. CASE l \notin Hydrate(doc)
  <2> DEFINE p == Put(doc, d, l)
  <2>1. p \notin OwnLinks(doc, d) /\ p \in r.puts
    BY <1>5, <1>1, NewEntries
  <2>2. p \notin doc.puts /\ p.key = l /\ p.map = Seen(doc)
    BY <2>1 DEF OwnLinks, Put
  <2>3. p \notin r.gone
    BY <1>1, <2>2 DEF Entries, Good, IsDoc
  <2>4. p \in Entries(r, l)
    BY <1>2, <2>1, <2>2, <2>3 DEF Entries
  <2> QED BY <1>3, <2>4 DEF Hydrate
<1> QED BY <1>4, <1>5

\* Nothing is deleted from a document whose keys are all kept.
LEMMA KeptKeys ==
  ASSUME NEW doc, Good(doc), NEW d, NEW K, Hydrate(doc) \subseteq K
  PROVE Reconcile(doc, d, K).gone = doc.gone
<1>1. Reconcile(doc, d, K).gone = doc.gone \cup UNION {Entries(doc, k) : k \in Hydrate(doc) \ K}
  BY ReconcileFields DEF Good
<1>2. UNION {Entries(doc, k) : k \in Hydrate(doc) \ K} = {}
  OBVIOUS
<1> QED BY <1>1, <1>2

\* What the relay makes of its document a and one it is sent.
Posted(a, doc) ==
  Reconcile(Merge(a, doc), 0, Hydrate(Merge(a, doc)) \cup (Files \cap (Hydrate(a) \cup Hydrate(doc))))

\* It has all of both, and no other entries of links.
LEMMA PostedDoc ==
  ASSUME NEW a, Good(a), NEW doc, Good(doc)
  PROVE LET r == Posted(a, doc)
        IN /\ Good(r)
           /\ r.maps = a.maps \cup doc.maps
           /\ a.puts \cup doc.puts \subseteq r.puts
           /\ r.gone = a.gone \cup doc.gone
           /\ \A e \in Devices : OwnLinks(r, e) = OwnLinks(a, e) \cup OwnLinks(doc, e)
<1> DEFINE
  merged == Merge(a, doc)
  K == Hydrate(merged) \cup (Files \cap (Hydrate(a) \cup Hydrate(doc)))
  r == Reconcile(merged, 0, K)
<1>1. Good(merged)
  BY MergeIsDoc
<1>2. merged.maps = a.maps \cup doc.maps /\ merged.puts = a.puts \cup doc.puts
      /\ merged.gone = a.gone \cup doc.gone
  BY DEF Merge
<1>3. K \in SUBSET Keys
  BY DEF Hydrate, Keys
<1>4. Good(r)
  BY <1>1, <1>3, ReconcileIsDoc DEF Actors
<1>5. r.maps = merged.maps /\ merged.puts \subseteq r.puts
  BY <1>1, ReconcileFields DEF Good
<1>6. r.gone = merged.gone
  BY <1>1, KeptKeys
<1>7. ASSUME NEW e \in Devices
      PROVE OwnLinks(r, e) = OwnLinks(a, e) \cup OwnLinks(doc, e)
  <2>1. 0 # e
    BY RelaySyncAssumption
  <2>2. OwnLinks(r, e) = OwnLinks(merged, e)
    BY <1>1, <2>1, OthersEntries
  <2> QED BY <1>2, <2>2 DEF OwnLinks
<1> QED BY <1>2, <1>4, <1>5, <1>6, <1>7 DEF Posted

-----------------------------------------------------------------------------
(* The inductive invariant.                                                *)

\* Every document there is.
Stored == ({mem[d] : d \in Devices} \cup {disk[d] : d \in Devices} \cup {relay}) \ {None, Torn}

DocsOK == \A doc \in Stored : Good(doc)

\* Devices that began with copies have one map.
MapsOK == mode.shared => \A doc \in Stored : doc.maps = {0}

\* What a device wrote about links it has, in memory and on a disk that can be read,
\* unless a device lost entries of its own.
OwnOK ==
  cut = {} => \A d \in Devices : mem[d] # None =>
    /\ Numbered(OwnLinks(mem[d], d))
    /\ disk[d] # Torn => OwnLinks(disk[d], d) = OwnLinks(mem[d], d)
    /\ \A doc \in Stored : OwnLinks(doc, d) \subseteq OwnLinks(mem[d], d)

\* A device that syncs has its document on disk too, and what it shows in the snapshot.
SyncOK ==
  \A d \in Devices : sync[d] # Idle =>
    /\ mem[d] # None /\ disk[d] = mem[d]
    /\ sync[d].at \in {"upload", "download"} => sync[d].snapshot = Hydrate(mem[d])
    /\ sync[d].at = "download" => relay # None

\* Only a direct transfer that failed leaves memory and a disk that can be read different.
ApartOK == ~ mode.direct => \A d \in Devices : mem[d] # None => disk[d] \in {mem[d], Torn}

\* Device d holds link l: where devices meet directly it has an entry nobody has
\* deleted, elsewhere it shows the link or will restore it.
Entry(p, l) == p.key = l /\ p.map = Max({0}) /\ \A doc \in Stored : p \notin doc.gone
Holds(d, l) ==
  /\ mem[d] # None
  /\ mode.direct => \E p \in mem[d].puts : Entry(p, l) /\ (disk[d] # Torn => p \in disk[d].puts)
  /\ ~ mode.direct => l \in Hydrate(mem[d]) \/ (sync[d].at = "recover" /\ l \in sync[d].snapshot)
LinksOK == cut = {} => \A l \in added : \E d \in Devices : Holds(d, l)

IInv == TypeOK /\ DocsOK /\ MapsOK /\ OwnOK /\ SyncOK /\ ApartOK /\ LinksOK /\ BlobsAreWhole

-----------------------------------------------------------------------------
(* What the steps do to documents, and to what LinksOK speaks of.          *)

\* The syncs of the others go on.
Others(d) ==
  \A e \in Devices \ {d} :
    sync'[e].at = sync[e].at /\ (sync[e].at = "recover" => sync'[e].snapshot = sync[e].snapshot)

\* d reconciles its document with keys K, which lack only links deleted with this step.
Writes(d, K) ==
  /\ mem[d] # None /\ K \in SUBSET Keys
  /\ Save(d, Reconcile(mem[d], d, K))
  /\ relay' = relay /\ cut' = cut
  /\ Links \cap (Hydrate(mem[d]) \ K) \cap added' = {}
  /\ sync[d].at = "recover" => sync[d].snapshot \subseteq K
  /\ added' \subseteq added \cup (Links \cap K)
  /\ mode.direct => added' \subseteq added \cup (K \ Hydrate(mem[d]))

Posts(d) ==
  /\ disk[d] # Torn /\ sync[d].at # "recover"
  /\ mem' = mem /\ disk' = disk /\ cut' = cut /\ added' = added
  /\ MergeAndSave(disk[d])

Downloads(d) ==
  /\ sync[d].at = "download" /\ relay # Torn
  /\ Save(d, relay)
  /\ relay' = relay /\ added' = added
  /\ cut' = IF mem[d].puts \subseteq relay.puts THEN cut ELSE cut \cup {d}
  /\ sync'[d].at = "recover" /\ sync'[d].snapshot = sync[d].snapshot

Spoils(d) ==
  /\ sync[d].at = "download" /\ mem[d] # None
  /\ disk' = [disk EXCEPT ![d] = Torn]
  /\ \/ mem' = mem /\ cut' = cut
     \/ mem' = [mem EXCEPT ![d] = None] /\ cut' = cut \cup {d}
  /\ relay' = relay /\ added' = added

Merges(d, e) ==
  /\ mode.direct /\ mem[d] # None /\ disk[e] # Torn
  /\ mem' = [mem EXCEPT ![d] = Merge(mem[d], disk[e])]
  /\ disk' \in {disk, [disk EXCEPT ![d] = Merge(mem[d], disk[e])]}
  /\ relay' = relay /\ cut' = cut /\ added' = added

Crashes(d) ==
  /\ mem[d] # None
  /\ disk' \in {disk, [disk EXCEPT ![d] = Torn]}
  /\ mem' = [mem EXCEPT ![d] = Load(disk'[d])]
  /\ relay' = relay /\ added' = added
  /\ cut' = IF sync[d].at = "recover" \/ disk'[d] = Torn THEN cut \cup {d} ELSE cut

Rests(d) ==
  /\ sync[d].at # "recover"
  /\ mem' = mem /\ cut' = cut /\ added' = added
  /\ \/ disk' = disk
     \/ mem[d] # None /\ disk' = [disk EXCEPT ![d] = mem[d]]
  /\ relay' \in {relay, Torn}

Kind(d) ==
  \/ \E K \in SUBSET Keys : Writes(d, K)
  \/ Posts(d)
  \/ Downloads(d)
  \/ Spoils(d)
  \/ \E e \in Devices : Merges(d, e)
  \/ Crashes(d)
  \/ Rests(d)

\* What a device in a step of its sync is: not idle.
LEMMA NotIdle ==
  ASSUME NEW d, sync[d].at # "idle"
  PROVE sync[d] # Idle
BY DEF Idle

\* Every step is of one of these kinds.
LEMMA Kinds ==
  ASSUME TypeOK, SyncOK, NEW d \in Devices, UserStep(d) \/ SyncStep(d) \/ Fault(d)
  PROVE mode' = mode /\ Others(d) /\ Kind(d)
<1> USE DEF documents, remote, bounds, past
<1> DEFINE H == Hydrate(mem[d])
<1>1. sync \in [Devices -> SyncStates] /\ H \in SUBSET Keys /\ Links \in SUBSET Keys /\ Files \in SUBSET Keys
  BY DEF TypeOK, Hydrate, Keys
<1>2. \A e \in Devices : sync[e] # Idle => mem[e] # None /\ disk[e] = mem[e] /\ disk[e] # Torn
  BY DocsAssumption, RelaySyncAssumption DEF SyncOK, TypeOK
<1>3. ASSUME Change, UNCHANGED cut, Free(d)
      PROVE mode' = mode /\ relay' = relay /\ cut' = cut /\ Others(d) /\ mem[d] # None /\ sync[d].at # "recover"
  <2>1. mode' = mode /\ relay' = relay /\ cut' = cut /\ mem[d] # None /\ sync[d].at # "recover"
    BY <1>3 DEF Change, Free, Idle
  <2>2. \A e \in Devices : sync'[e] = IF sync[e] = Idle THEN Idle ELSE [sync[e] EXCEPT !.round = None]
    BY <1>3 DEF Change
  <2>3. \A e \in Devices : sync'[e].at = sync[e].at
          /\ (sync[e].at = "recover" => sync'[e].snapshot = sync[e].snapshot)
    <3> SUFFICES ASSUME NEW e \in Devices
                 PROVE sync'[e].at = sync[e].at
                       /\ (sync[e].at = "recover" => sync'[e].snapshot = sync[e].snapshot)
      OBVIOUS
    <3>1. CASE sync[e] = Idle
      BY <2>2, <3>1 DEF Idle
    <3>2. CASE sync[e] # Idle
      <4>1. sync[e] \in SyncStates \ {Idle} /\ sync'[e] = [sync[e] EXCEPT !.round = None]
        BY <1>1, <2>2, <3>2
      <4> QED BY <4>1 DEF SyncStates
    <3> QED BY <3>1, <3>2
  <2> QED BY <2>1, <2>3 DEF Others
<1>4. ASSUME NEW l \in Links, SaveTradeLink(d, l)
      PROVE mode' = mode /\ Others(d) /\ Kind(d)
  <2>1. Writes(d, H \cup {l})
    BY <1>1, <1>3, <1>4 DEF SaveTradeLink, Writes, Change
  <2> QED BY <1>1, <1>3, <1>4, <2>1 DEF SaveTradeLink, Kind, Change
<1>5. ASSUME NEW l \in Links, DeleteTradeLink(d, l)
      PROVE mode' = mode /\ Others(d) /\ Kind(d)
  <2>1. Writes(d, H \ {l})
    BY <1>1, <1>3, <1>5 DEF DeleteTradeLink, Writes, Change
  <2> QED BY <1>1, <1>3, <1>5, <2>1 DEF DeleteTradeLink, Kind, Change
<1>6. ASSUME NEW f \in Files, RegisterFile(d, f)
      PROVE mode' = mode /\ Others(d) /\ Kind(d)
  <2>1. Writes(d, H \cup {f})
    BY <1>1, <1>3, <1>6 DEF RegisterFile, Writes, Change
  <2> QED BY <1>1, <1>3, <1>6, <2>1 DEF RegisterFile, Kind, Change
<1>7. ASSUME NEW e \in Devices, FullSync(d, e) \/ FullSyncFails(d, e)
      PROVE mode' = mode /\ Others(d) /\ Kind(d)
  <2>1. Merges(d, e)
    BY <1>7 DEF FullSync, FullSyncFails, Merges, Free, Save
  <2> QED BY <1>7, <2>1 DEF FullSync, FullSyncFails, Kind, Others
<1>8. ASSUME NEW step, To(d, step)
      PROVE Others(d) /\ sync'[d].at = step /\ (sync[d].at = "download" => sync'[d].snapshot = sync[d].snapshot)
  BY <1>1, <1>8 DEF To, Others, SyncStates, Idle
<1>9. CASE SyncBegin(d)
  <2>1. Rests(d)
    BY <1>9 DEF SyncBegin, Rests, Free, Idle
  <2> QED BY <1>1, <1>9, <2>1 DEF SyncBegin, Kind, Others
<1>10. CASE Upload(d)
  <2>1. Posts(d)
    BY <1>2, <1>10, NotIdle DEF Upload, Posts
  <2> QED BY <1>8, <1>10, <2>1 DEF Upload, Kind
<1>11. CASE Download(d)
  <2>1. Downloads(d)
    BY <1>8, <1>11 DEF Download, Downloads
  <2> QED BY <1>8, <1>11, <2>1 DEF Download, Kind
<1>20. CASE DownloadTorn(d)
  <2>1. Spoils(d)
    BY <1>2, <1>20, NotIdle DEF DownloadTorn, Spoils
  <2> QED BY <1>1, <1>20, <2>1 DEF DownloadTorn, Kind, Others
<1>12. CASE Recover(d)
  <2>1. sync[d] # Idle /\ mem[d] # None
    BY <1>2, <1>12, NotIdle DEF Recover
  <2>2. sync[d].snapshot \in SUBSET Keys
    BY <1>1, <1>12 DEF Recover, SyncStates, Idle
  <2>3. Writes(d, H \cup (sync[d].snapshot \ H))
    BY <1>1, <1>12, <2>1, <2>2 DEF Recover, Writes
  <2> QED BY <1>8, <1>12, <1>1, <2>2, <2>3 DEF Recover, Kind
<1>13. CASE Reupload(d)
  <2>1. Posts(d)
    BY <1>2, <1>13, NotIdle DEF Reupload, Posts
  <2> QED BY <1>8, <1>13, <2>1 DEF Reupload, Kind
<1>14. CASE List(d)
  <2>1. Rests(d)
    BY <1>14 DEF List, Rests
  <2> QED BY <1>1, <1>14, <2>1 DEF List, Kind, Others
<1>15. ASSUME NEW f \in Files, DownloadBlob(d, f) \/ UploadBlob(d, f)
       PROVE mode' = mode /\ Others(d) /\ Kind(d)
  <2>1. Rests(d)
    BY <1>15 DEF DownloadBlob, UploadBlob, Rests
  <2> QED BY <1>1, <1>15, <2>1 DEF DownloadBlob, UploadBlob, Kind, Others
<1>16. CASE SyncEnd(d)
  <2>1. Rests(d)
    BY <1>2, <1>16, NotIdle DEF SyncEnd, Rests
  <2> QED BY <1>1, <1>16, <2>1 DEF SyncEnd, Kind, Others
<1>17. CASE Lose(d)
  <2>1. Rests(d) \/ Posts(d)
    BY <1>2, <1>17, NotIdle DEF Lose, Rests, Posts
  <2> QED BY <1>1, <1>17, <2>1 DEF Lose, Kind, Others
<1>18. CASE CrashDevice(d)
  <2>1. Crashes(d)
    BY <1>18 DEF CrashDevice, Crashes
  <2> QED BY <1>1, <1>18, <2>1 DEF CrashDevice, Kind, Others
<1>19. CASE CrashRelay(d)
  <2>1. Rests(d)
    BY <1>19 DEF CrashRelay, Rests
  <2> QED BY <1>1, <1>19, <2>1 DEF CrashRelay, Kind, Others
<1> QED
  BY <1>4, <1>5, <1>6, <1>7, <1>9, <1>10, <1>11, <1>12, <1>13, <1>14, <1>15, <1>16, <1>17, <1>18, <1>19, <1>20
  DEF UserStep, SyncStep, Fault

-----------------------------------------------------------------------------
(* Documents stay documents.                                               *)

\* What is stored.
LEMMA StoredIs ==
  ASSUME TypeOK, DocsOK
  PROVE /\ \A d \in Devices : mem[d] # None => mem[d] \in Stored /\ Good(mem[d])
        /\ \A d \in Devices : disk[d] # Torn => disk[d] \in Stored /\ Good(disk[d])
        /\ relay \notin {None, Torn} => relay \in Stored /\ Good(relay)
<1>1. \A d \in Devices : mem[d] # None => mem[d] \notin {None, Torn}
  BY DocsAssumption DEF TypeOK, IsDoc
<1>2. \A d \in Devices : disk[d] # Torn => disk[d] \notin {None, Torn}
  BY DocsAssumption DEF TypeOK, IsDoc
<1> QED BY <1>1, <1>2 DEF Stored, DocsOK

\* A step stores what was stored and one document more at most.
LEMMA OneNew ==
  ASSUME TypeOK, DocsOK, SyncOK, NEW d \in Devices, Kind(d)
  PROVE \E doc :
    /\ Stored' \subseteq Stored \cup {doc}
    /\ Good(doc)
    /\ mode.shared /\ MapsOK => doc.maps = {0}
    /\ mem' \in [Devices -> Docs \cup {None}]
    /\ disk' \in [Devices -> Docs \cup {Torn}]
    /\ relay' \in Docs \cup {None, Torn}
<1>1. mem \in [Devices -> Docs \cup {None}] /\ disk \in [Devices -> Docs \cup {Torn}]
      /\ relay \in Docs \cup {None, Torn}
  BY DEF TypeOK, IsDoc
<1>2. ASSUME NEW K \in SUBSET Keys, Writes(d, K)
      PROVE LET doc == Reconcile(mem[d], d, K) IN
              /\ Good(doc) /\ (mode.shared /\ MapsOK => doc.maps = {0})
              /\ Save(d, doc) /\ relay' = relay
  <2>1. Good(mem[d]) /\ mem[d] \in Stored
    BY <1>2, StoredIs DEF Writes
  <2> QED BY <1>2, <2>1, ReconcileIsDoc, ReconcileFields DEF Writes, Actors, Good, MapsOK
<1>3. ASSUME NEW doc, Good(doc), Save(d, doc), relay' = relay
      PROVE /\ Stored' \subseteq Stored \cup {doc}
            /\ mem' \in [Devices -> Docs \cup {None}]
            /\ disk' \in [Devices -> Docs \cup {Torn}]
            /\ relay' \in Docs \cup {None, Torn}
  BY <1>1, <1>3 DEF Save, Stored, Good, IsDoc
<1>4. CASE \E K \in SUBSET Keys : Writes(d, K)
  BY <1>2, <1>3, <1>4
<1>5. CASE Posts(d)
  <2>1. Good(disk[d]) /\ disk[d] \in Stored
    BY <1>5, StoredIs DEF Posts
  <2>2. CASE relay \in {None, Torn}
    <3>1. relay' = disk[d] /\ mem' = mem /\ disk' = disk
      BY <1>5, <2>2 DEF Posts, MergeAndSave
    <3>2. Stored' \subseteq Stored \cup {disk[d]}
      BY <3>1 DEF Stored
    <3> QED BY <1>1, <2>1, <3>1, <3>2 DEF MapsOK, Good, IsDoc
  <2>3. CASE relay \notin {None, Torn}
    <3>1. Good(relay) /\ relay \in Stored
      BY <2>3, StoredIs
    <3>2. relay' = Posted(relay, disk[d]) /\ mem' = mem /\ disk' = disk
      BY <1>5, <2>3 DEF Posts, MergeAndSave, Posted
    <3>3. PICK r : r = Posted(relay, disk[d]) /\ Good(r) /\ r.maps = relay.maps \cup disk[d].maps
      BY <2>1, <3>1, PostedDoc
    <3>4. relay' = r
      BY <3>2, <3>3
    <3>5. Stored' \subseteq Stored \cup {r}
      BY <3>2, <3>4 DEF Stored
    <3> QED BY <1>1, <2>1, <3>1, <3>2, <3>3, <3>4, <3>5 DEF MapsOK, Good, IsDoc
  <2> QED BY <2>2, <2>3
<1>6. CASE Downloads(d)
  <2>1. relay # None
    BY <1>6, NotIdle DEF Downloads, SyncOK
  <2>2. Good(relay) /\ relay \in Stored
    BY <1>6, <2>1, StoredIs DEF Downloads
  <2> QED BY <1>3, <1>6, <2>2 DEF Downloads, MapsOK
<1>7. CASE \E e \in Devices : Merges(d, e)
  <2>1. PICK e \in Devices : Merges(d, e)
    BY <1>7
  <2> DEFINE doc == Merge(mem[d], disk[e])
  <2>2. Good(mem[d]) /\ mem[d] \in Stored /\ Good(disk[e]) /\ disk[e] \in Stored
    BY <2>1, StoredIs DEF Merges
  <2>3. Good(doc) /\ doc.maps = mem[d].maps \cup disk[e].maps
    BY <2>2, MergeIsDoc DEF Merge
  <2>4. mem' = [mem EXCEPT ![d] = doc] /\ disk' \in {disk, [disk EXCEPT ![d] = doc]} /\ relay' = relay
    BY <2>1 DEF Merges
  <2> HIDE DEF doc
  <2>5. Stored' \subseteq Stored \cup {doc} /\ mem' \in [Devices -> Docs \cup {None}]
        /\ disk' \in [Devices -> Docs \cup {Torn}]
    BY <1>1, <2>3, <2>4 DEF Stored, Good, IsDoc
  <2> QED BY <1>1, <2>2, <2>3, <2>4, <2>5 DEF MapsOK
<1>8. CASE Crashes(d)
  <2>1. Good(mem[d]) /\ mem[d] \in Stored
    BY <1>8, StoredIs DEF Crashes
  <2>2. mem' = [mem EXCEPT ![d] = Load(disk'[d])] /\ relay' = relay
        /\ disk' \in {disk, [disk EXCEPT ![d] = Torn]}
    BY <1>8 DEF Crashes
  <2>3. disk' \in [Devices -> Docs \cup {Torn}] /\ \A e \in Devices : disk'[e] \in {disk[e], Torn}
    BY <1>1, <2>2
  <2>4. mem' \in [Devices -> Docs \cup {None}] /\ \A e \in Devices : mem'[e] \in {mem[e], None, disk[e]}
    BY <1>1, <2>2, <2>3 DEF Load
  <2>5. Stored' \subseteq Stored
    BY <2>2, <2>3, <2>4 DEF Stored
  <2> QED BY <1>1, <2>1, <2>2, <2>3, <2>4, <2>5 DEF MapsOK
<1>9. CASE Rests(d) \/ Spoils(d)
  <2>1. mem' \in [Devices -> Docs \cup {None}] /\ relay' \in {relay, Torn}
        /\ disk' \in [Devices -> Docs \cup {Torn}] /\ Stored' \subseteq Stored
    <3>1. CASE Rests(d)
      BY <1>1, <3>1 DEF Rests, Stored
    <3>2. CASE Spoils(d)
      <4>1. \A e \in Devices : mem'[e] \in {mem[e], None} /\ disk'[e] \in {disk[e], Torn}
        BY <1>1, <3>2 DEF Spoils
      <4> QED BY <1>1, <3>2, <4>1 DEF Spoils, Stored
    <3> QED BY <1>9, <3>1, <3>2
  <2>2. \E doc : Good(doc) /\ (mode.shared /\ MapsOK => doc.maps = {0})
    <3>1. Fresh(0) \in Docs /\ Fresh(0).maps = {0} /\ Good(Fresh(0))
      BY FS_EmptySet DEF Fresh, Docs, Good, IsDoc
    <3> QED BY <3>1
  <2> QED BY <1>1, <2>1, <2>2
<1> QED BY <1>4, <1>5, <1>6, <1>7, <1>8, <1>9 DEF Kind

\* Documents stay what the type invariant, DocsOK and MapsOK say.
LEMMA DocsStep ==
  ASSUME TypeOK, DocsOK, SyncOK, MapsOK, NEW d \in Devices, Kind(d), mode' = mode
  PROVE /\ DocsOK' /\ MapsOK'
        /\ mem' \in [Devices -> Docs \cup {None}] /\ \A e \in Devices : mem'[e] = None \/ IsDoc(mem'[e])
        /\ disk' \in [Devices -> Docs \cup {Torn}] /\ \A e \in Devices : disk'[e] = Torn \/ IsDoc(disk'[e])
        /\ relay' \in {None, Torn} \/ IsDoc(relay')
<1>1. PICK doc :
        /\ Stored' \subseteq Stored \cup {doc}
        /\ Good(doc)
        /\ mode.shared /\ MapsOK => doc.maps = {0}
        /\ mem' \in [Devices -> Docs \cup {None}]
        /\ disk' \in [Devices -> Docs \cup {Torn}]
        /\ relay' \in Docs \cup {None, Torn}
  BY OneNew
<1>2. \A x \in Stored' : Good(x) /\ (mode.shared => x.maps = {0})
  BY <1>1 DEF DocsOK, MapsOK
<1>3. DocsOK' /\ MapsOK'
  BY <1>2 DEF DocsOK, MapsOK
<1>4. Stored' = ({mem'[e] : e \in Devices} \cup {disk'[e] : e \in Devices} \cup {relay'}) \ {None, Torn}
  BY DEF Stored
<1>5. \A x \in Docs : x \notin {None, Torn}
  BY DocsAssumption
<1>6. \A e \in Devices : (mem'[e] \in Docs => mem'[e] \in Stored') /\ (disk'[e] \in Docs => disk'[e] \in Stored')
  BY <1>4, <1>5
<1>7. relay' \in Docs => relay' \in Stored'
  BY <1>4, <1>5
<1>8. \A e \in Devices : mem'[e] \in Docs \cup {None} /\ disk'[e] \in Docs \cup {Torn}
  BY <1>1
<1> QED BY <1>1, <1>2, <1>3, <1>6, <1>7, <1>8 DEF Good

-----------------------------------------------------------------------------
(* The relay's document loses nothing.                                     *)

\* What the relay's file has: nothing before it is written, or when it is cut short.
Had == IF relay \in {None, Torn} THEN {} ELSE {relay}

\* A post adds all of the document that is sent.
LEMMA PostKeeps ==
  ASSUME TypeOK, DocsOK, NEW doc, Good(doc), MergeAndSave(doc)
  PROVE /\ relay' \in Docs /\ relay' # None /\ relay' # Torn /\ Had \subseteq Stored
        /\ relay'.gone = doc.gone \/ \E r \in Had : relay'.gone = r.gone \cup doc.gone
        /\ \A e \in Devices : \A p \in OwnLinks(relay', e) :
             p \in OwnLinks(doc, e) \/ \E r \in Had : p \in OwnLinks(r, e)
<1>1. CASE relay \in {None, Torn}
  <2>1. relay' = doc
    BY <1>1 DEF MergeAndSave
  <2> QED BY <1>1, <2>1, DocsAssumption DEF Good, IsDoc, Had
<1>2. CASE relay \notin {None, Torn}
  <2>1. relay' = Posted(relay, doc) /\ Had = {relay}
    BY <1>2 DEF MergeAndSave, Posted, Had
  <2>2. Good(relay) /\ relay \in Stored
    BY <1>2, StoredIs
  <2>3. PICK r : /\ r = Posted(relay, doc) /\ Good(r) /\ r.gone = relay.gone \cup doc.gone
                 /\ \A e \in Devices : OwnLinks(r, e) = OwnLinks(relay, e) \cup OwnLinks(doc, e)
    BY <2>2, PostedDoc
  <2>4. relay' = r
    BY <2>1, <2>3
  <2> QED BY <2>1, <2>2, <2>3, <2>4, DocsAssumption DEF Good, IsDoc
<1> QED BY <1>1, <1>2

-----------------------------------------------------------------------------
(* OwnOK.                                                                  *)

\* A step of d keeps OwnOK for device e.
LEMMA OwnStep ==
  ASSUME TypeOK, DocsOK, SyncOK, OwnOK, NEW d \in Devices, Kind(d)
  PROVE OwnOK'
<1>1. mem \in [Devices -> Docs \cup {None}] /\ disk \in [Devices -> Docs \cup {Torn}]
  BY DEF TypeOK
<1> SUFFICES ASSUME cut' = {}, NEW e \in Devices, mem'[e] # None
             PROVE /\ Numbered(OwnLinks(mem'[e], e))
                   /\ disk'[e] # Torn => OwnLinks(disk'[e], e) = OwnLinks(mem'[e], e)
                   /\ \A doc \in Stored' : OwnLinks(doc, e) \subseteq OwnLinks(mem'[e], e)
  BY DEF OwnOK
<1>0. cut = {}
  BY DEF Kind, Writes, Posts, Downloads, Spoils, Merges, Crashes, Rests
<1>2. ASSUME mem[e] # None
      PROVE /\ Numbered(OwnLinks(mem[e], e))
            /\ disk[e] # Torn => OwnLinks(disk[e], e) = OwnLinks(mem[e], e)
            /\ \A doc \in Stored : OwnLinks(doc, e) \subseteq OwnLinks(mem[e], e)
  BY <1>0, <1>2 DEF OwnOK
<1>3. CASE \E K \in SUBSET Keys : Writes(d, K)
  <2>1. PICK K \in SUBSET Keys : Writes(d, K)
    BY <1>3
  <2>2. PICK doc : doc = Reconcile(mem[d], d, K)
    OBVIOUS
  <2>3. mem' = [mem EXCEPT ![d] = doc] /\ disk' = [disk EXCEPT ![d] = doc] /\ relay' = relay /\ mem[d] # None
    BY <2>1, <2>2 DEF Writes, Save
  <2>4. Good(mem[d]) /\ mem[d] \in Stored
    BY <2>3, StoredIs
  <2>5. Good(doc) /\ doc # Torn
    BY <2>2, <2>4, ReconcileIsDoc, DocsAssumption DEF Actors, Good, IsDoc
  <2>6. Stored' \subseteq Stored \cup {doc}
    BY <1>1, <2>3 DEF Stored
  <2>7. CASE e = d
    <3>1. Numbered(OwnLinks(mem[d], d)) /\ \A x \in Stored : OwnLinks(x, d) \subseteq OwnLinks(mem[d], d)
      BY <1>2, <2>3, <2>7
    <3>2. Numbered(OwnLinks(doc, d)) /\ OwnLinks(mem[d], d) \subseteq OwnLinks(doc, d)
      BY <2>2, <2>4, <3>1, NewEntries
    <3> QED BY <1>1, <2>3, <2>5, <2>6, <2>7, <3>1, <3>2
  <2>8. CASE e # d
    <3>1. mem'[e] = mem[e] /\ disk'[e] = disk[e]
      BY <1>1, <2>3, <2>8
    <3>2. OwnLinks(doc, e) = OwnLinks(mem[d], e)
      BY <2>2, <2>4, <2>8, OthersEntries
    <3> QED BY <1>2, <2>4, <2>6, <3>1, <3>2
  <2> QED BY <2>7, <2>8
<1>4. CASE Posts(d)
  <2>1. Good(disk[d]) /\ disk[d] \in Stored /\ MergeAndSave(disk[d]) /\ mem' = mem /\ disk' = disk
    BY <1>4, StoredIs DEF Posts
  <2>2. /\ Had \subseteq Stored
        /\ \A p \in OwnLinks(relay', e) : p \in OwnLinks(disk[d], e) \/ \E r \in Had : p \in OwnLinks(r, e)
    BY <2>1, PostKeeps
  <2>3. Stored' \subseteq Stored \cup {relay'}
    BY <2>1 DEF Stored
  <2>4. OwnLinks(relay', e) \subseteq OwnLinks(mem[e], e)
    BY <1>2, <2>1, <2>2
  <2> QED BY <1>2, <2>1, <2>3, <2>4
<1>5. CASE Downloads(d)
  <2>1. mem[d] # None /\ relay \notin {None, Torn} /\ mem[d].puts \subseteq relay.puts
    BY <1>0, <1>5, NotIdle DEF Downloads, SyncOK
  <2>2. relay \in Stored /\ Stored' \subseteq Stored
    BY <1>1, <1>5, <2>1, StoredIs DEF Downloads, Save, Stored
  <2>3. mem' = [mem EXCEPT ![d] = relay] /\ disk' = [disk EXCEPT ![d] = relay]
    BY <1>5 DEF Downloads, Save
  <2>4. CASE e = d
    <3>1. OwnLinks(mem[d], d) \subseteq OwnLinks(relay, d)
      BY <2>1 DEF OwnLinks
    <3>2. OwnLinks(relay, d) = OwnLinks(mem[d], d)
      BY <1>2, <2>1, <2>2, <2>4, <3>1
    <3> QED BY <1>1, <1>2, <2>1, <2>2, <2>3, <2>4, <3>2
  <2>5. CASE e # d
    BY <1>1, <1>2, <2>2, <2>3, <2>5
  <2> QED BY <2>4, <2>5
<1>6. CASE \E f \in Devices : Merges(d, f)
  <2>1. PICK f \in Devices : Merges(d, f)
    BY <1>6
  <2>2. PICK doc : doc = Merge(mem[d], disk[f])
    OBVIOUS
  <2>3. mem' = [mem EXCEPT ![d] = doc] /\ disk' \in {disk, [disk EXCEPT ![d] = doc]} /\ relay' = relay
        /\ mem[d] # None /\ disk[f] # Torn
    BY <2>1, <2>2 DEF Merges
  <2>4. mem[d] \in Stored /\ Good(mem[d]) /\ disk[f] \in Stored /\ Good(disk[f])
    BY <2>3, StoredIs
  <2>5. Good(doc) /\ doc # Torn
    BY <2>2, <2>4, MergeIsDoc, DocsAssumption DEF Good, IsDoc
  <2>6. Stored' \subseteq Stored \cup {doc}
    BY <1>1, <2>3 DEF Stored
  <2>7. OwnLinks(doc, e) = OwnLinks(mem[d], e) \cup OwnLinks(disk[f], e)
    BY <2>2 DEF OwnLinks, Merge
  <2>8. CASE e = d
    <3>1. OwnLinks(doc, d) = OwnLinks(mem[d], d)
      BY <1>2, <2>3, <2>4, <2>7, <2>8
    <3> QED BY <1>1, <1>2, <2>3, <2>5, <2>6, <2>8, <3>1
  <2>9. CASE e # d
    BY <1>1, <1>2, <2>3, <2>4, <2>6, <2>7, <2>9
  <2> QED BY <2>8, <2>9
<1>7. CASE Crashes(d)
  <2>1. mem[d] # None /\ relay' = relay /\ disk' \in {disk, [disk EXCEPT ![d] = Torn]}
        /\ mem' = [mem EXCEPT ![d] = Load(disk'[d])]
    BY <1>7 DEF Crashes
  <2>3. Stored' \subseteq Stored
    BY <1>1, <2>1 DEF Stored, Load
  <2>4. CASE e = d
    <3>1. disk'[d] # Torn
      BY <1>7 DEF Crashes
    <3>2. disk' = disk /\ mem'[d] = disk[d]
      BY <1>1, <2>1, <3>1 DEF Load
    <3> QED BY <1>2, <2>1, <2>3, <2>4, <3>1, <3>2
  <2>5. CASE e # d
    BY <1>1, <1>2, <2>1, <2>3, <2>5
  <2> QED BY <2>4, <2>5
<1>8. CASE Rests(d)
  <2>1. mem' = mem /\ Stored' \subseteq Stored
        /\ (disk'[e] = disk[e] \/ disk'[e] = mem[e])
    BY <1>1, <1>8 DEF Rests, Stored
  <2>2. mem[e] \in Docs /\ mem[e] # Torn
    BY <1>1, <2>1, DocsAssumption
  <2> QED BY <1>2, <2>1, <2>2
<1>9. CASE Spoils(d)
  <2>1. mem' = mem /\ disk' = [disk EXCEPT ![d] = Torn] /\ relay' = relay
    BY <1>9 DEF Spoils
  <2>2. Stored' \subseteq Stored /\ disk'[e] \in {disk[e], Torn}
    BY <1>1, <2>1 DEF Stored
  <2> QED BY <1>2, <2>1, <2>2
<1> QED BY <1>3, <1>4, <1>5, <1>6, <1>7, <1>8, <1>9 DEF Kind

-----------------------------------------------------------------------------
(* SyncOK and ApartOK.                                                     *)

\* A device that syncs keeps its document as it is, but for the steps of the sync.
LEMMA SyncStepOK ==
  ASSUME TypeOK, DocsOK, SyncOK, NEW d \in Devices, UserStep(d) \/ SyncStep(d) \/ Fault(d)
  PROVE SyncOK'
<1> USE DEF documents, remote, bounds, past
<1>1. Others(d) /\ Kind(d)
  BY Kinds
<1>2. sync \in [Devices -> SyncStates]
      /\ mem \in [Devices -> Docs \cup {None}] /\ disk \in [Devices -> Docs \cup {Torn}]
  BY DEF TypeOK
<1>3. \A e \in Devices \ {d} :
        /\ mem'[e] = mem[e] /\ disk'[e] = disk[e]
        /\ sync'[e] = sync[e] \/ (sync[e] # Idle /\ sync'[e] = [sync[e] EXCEPT !.round = None])
        /\ sync[e] = Idle => sync'[e] = Idle
  <2>1. \A e \in Devices \ {d} : mem'[e] = mem[e] /\ disk'[e] = disk[e]
    BY <1>1, <1>2 DEF Kind, Writes, Posts, Downloads, Spoils, Merges, Crashes, Rests, Save
  <2>2. CASE Change
    BY <1>2, <2>1, <2>2 DEF Change
  <2>3. CASE \E x : sync' = [sync EXCEPT ![d] = x]
    BY <1>2, <2>1, <2>3
  <2>4. CASE sync' = sync
    BY <2>1, <2>4
  <2>5. SyncStep(d) \/ Fault(d) => \E x : sync' = [sync EXCEPT ![d] = x]
    BY DEF SyncStep, Fault, SyncBegin, Upload, Download, DownloadTorn, Recover, Reupload, List, DownloadBlob,
      UploadBlob, SyncEnd, Lose, CrashDevice, CrashRelay, To
  <2>6. UserStep(d) => Change \/ sync' = sync
    BY DEF UserStep, SaveTradeLink, DeleteTradeLink, RegisterFile, FullSync, FullSyncFails
  <2> QED BY <2>2, <2>3, <2>4, <2>5, <2>6
<1>4. relay # None => relay' # None
  <2>1. CASE Posts(d)
    <3>1. Good(disk[d]) /\ MergeAndSave(disk[d])
      BY <2>1, StoredIs DEF Posts
    <3> QED BY <3>1, PostKeeps
  <2> QED BY <1>1, <2>1, RelaySyncAssumption DEF Kind, Writes, Downloads, Spoils, Merges, Crashes, Rests
<1>5. \A e \in Devices : sync[e] # Idle => mem[e] # None /\ disk[e] = mem[e]
        /\ (sync[e].at \in {"upload", "download"} => sync[e].snapshot = Hydrate(mem[e]))
        /\ (sync[e].at = "download" => relay # None)
  BY DEF SyncOK
<1>7. ASSUME NEW e \in Devices \ {d}, sync'[e] # Idle
      PROVE /\ mem'[e] # None /\ disk'[e] = mem'[e]
            /\ sync'[e].at \in {"upload", "download"} => sync'[e].snapshot = Hydrate(mem'[e])
            /\ sync'[e].at = "download" => relay' # None
  <2>1. sync[e] # Idle /\ mem'[e] = mem[e] /\ disk'[e] = disk[e]
    BY <1>3, <1>7
  <2>2. sync'[e].at = sync[e].at /\ (sync[e].at \in {"upload", "download"} => sync'[e].snapshot = sync[e].snapshot)
    BY <1>2, <1>3, <2>1 DEF SyncStates
  <2> QED BY <1>4, <1>5, <2>1, <2>2
<1>8. ASSUME sync'[d] # Idle
      PROVE /\ mem'[d] # None /\ disk'[d] = mem'[d]
            /\ sync'[d].at \in {"upload", "download"} => sync'[d].snapshot = Hydrate(mem'[d])
            /\ sync'[d].at = "download" => relay' # None
  <2>1. ASSUME UserStep(d) PROVE sync'[d] = Idle
    BY <1>2, <2>1 DEF UserStep, SaveTradeLink, DeleteTradeLink, RegisterFile, FullSync, FullSyncFails, Change, Free
  <2>2. ASSUME Fault(d) PROVE sync'[d] = Idle
    BY <1>2, <2>2 DEF Fault, Lose, CrashDevice, CrashRelay
  <2>3. CASE SyncBegin(d)
    BY <1>2, <2>3 DEF SyncBegin, Free
  <2>4. ASSUME Upload(d) \/ Reupload(d)
        PROVE mem' = mem /\ disk' = disk /\ mem[d] # None /\ disk[d] = mem[d] /\ relay' # None
    <3>1. sync[d] # Idle /\ mem' = mem /\ disk' = disk /\ MergeAndSave(disk[d])
      BY <2>4, NotIdle DEF Upload, Reupload
    <3>2. mem[d] # None /\ disk[d] = mem[d]
      BY <1>5, <3>1
    <3>3. Good(disk[d])
      BY <3>2, StoredIs
    <3> QED BY <3>1, <3>2, <3>3, PostKeeps
  <2>5. CASE Upload(d)
    <3>1. sync[d].at = "upload" /\ sync[d] # Idle
      BY <2>5, NotIdle DEF Upload
    <3>2. sync'[d] = [sync[d] EXCEPT !.at = "download"]
      BY <1>2, <2>5 DEF Upload, To
    <3>3. sync'[d].at = "download" /\ sync'[d].snapshot = sync[d].snapshot
      BY <1>2, <3>1, <3>2 DEF SyncStates, Idle
    <3> QED BY <1>5, <2>4, <2>5, <3>1, <3>3
  <2>6. CASE Reupload(d)
    <3>1. sync'[d] = [sync[d] EXCEPT !.at = "list"] /\ sync[d].at = "reupload"
      BY <1>2, <2>6 DEF Reupload, To
    <3>2. sync'[d].at = "list"
      BY <1>2, <3>1 DEF SyncStates, Idle
    <3> QED BY <2>4, <2>6, <3>2
  <2>7. CASE Download(d)
    <3>1. sync[d].at = "download" /\ sync[d] # Idle /\ relay # Torn /\ Save(d, relay)
          /\ sync'[d] = [sync[d] EXCEPT !.at = "recover"]
      BY <1>2, <2>7, NotIdle DEF Download, To
    <3>2. relay # None /\ sync'[d].at = "recover"
      BY <1>2, <1>5, <3>1 DEF SyncStates, Idle
    <3> QED BY <1>2, <3>1, <3>2 DEF Save
  <2>12. CASE DownloadTorn(d)
    <3>1. sync'[d] = Idle
      BY <1>2, <2>12 DEF DownloadTorn
    <3> QED BY <1>8, <3>1
  <2>8. CASE Recover(d)
    <3>1. sync[d].at = "recover" /\ sync[d] # Idle
          /\ \E step \in {"list", "reupload"} : sync'[d] = [sync[d] EXCEPT !.at = step]
      BY <1>2, <2>8, NotIdle DEF Recover, To
    <3>2. sync'[d].at \in {"list", "reupload"}
      BY <1>2, <3>1 DEF SyncStates, Idle
    <3>3. PICK doc : doc = Reconcile(mem[d], d, Hydrate(mem[d]) \cup (sync[d].snapshot \ Hydrate(mem[d])))
                     /\ mem' = [mem EXCEPT ![d] = doc] /\ disk' = [disk EXCEPT ![d] = doc]
      BY <2>8 DEF Recover, Save
    <3>4. Good(mem[d]) /\ sync[d].snapshot \in SUBSET Keys
      BY <1>2, <1>5, <3>1, StoredIs DEF SyncStates, Idle
    <3>5. Good(doc)
      <4>1. Hydrate(mem[d]) \cup (sync[d].snapshot \ Hydrate(mem[d])) \in SUBSET Keys
        BY <3>4 DEF Hydrate
      <4> QED BY <3>3, <3>4, <4>1, ReconcileIsDoc DEF Actors
    <3>6. doc # None
      BY <3>5, DocsAssumption DEF Good, IsDoc
    <3> QED BY <1>2, <3>2, <3>3, <3>6
  <2>9. CASE List(d)
    <3>1. sync[d] # Idle /\ mem' = mem /\ disk' = disk /\ sync'[d].at = "blobs"
      BY <1>2, <2>9, NotIdle DEF List
    <3> QED BY <1>5, <3>1
  <2>10. CASE \E f \in Files : DownloadBlob(d, f) \/ UploadBlob(d, f)
    <3>1. sync[d] # Idle /\ mem' = mem /\ disk' = disk /\ sync[d].at = "blobs"
      BY <2>10, NotIdle DEF DownloadBlob, UploadBlob
    <3>2. \E x : sync'[d] = [sync[d] EXCEPT !.down = x] \/ sync'[d] = [sync[d] EXCEPT !.up = x]
      BY <1>2, <2>10 DEF DownloadBlob, UploadBlob
    <3>3. sync'[d].at = "blobs"
      BY <1>2, <3>1, <3>2 DEF SyncStates, Idle
    <3> QED BY <1>5, <3>1, <3>3
  <2>11. CASE SyncEnd(d)
    <3>1. sync'[d] = Idle
      BY <1>2, <2>11 DEF SyncEnd
    <3> QED BY <1>8, <3>1
  <2> QED BY <1>8, <2>1, <2>2, <2>3, <2>5, <2>6, <2>7, <2>8, <2>9, <2>10, <2>11, <2>12 DEF SyncStep
<1> QED BY <1>7, <1>8 DEF SyncOK

\* Where devices do not meet directly, memory and disk are written together.
LEMMA ApartStep ==
  ASSUME TypeOK, ApartOK, NEW d \in Devices, Kind(d), mode' = mode
  PROVE ApartOK'
<1>1. mem \in [Devices -> Docs \cup {None}] /\ disk \in [Devices -> Docs \cup {Torn}]
  BY DEF TypeOK
<1>2. \A e \in Devices : ~ mode.direct /\ mem[e] # None => disk[e] \in {mem[e], Torn}
  BY DEF ApartOK
<1> SUFFICES ASSUME ~ mode.direct, NEW e \in Devices, mem'[e] # None PROVE disk'[e] \in {mem'[e], Torn}
  BY DEF ApartOK
<1>3. CASE \E K \in SUBSET Keys : Writes(d, K)
  BY <1>1, <1>2, <1>3 DEF Writes, Save
<1>4. CASE Posts(d) \/ Rests(d)
  BY <1>1, <1>2, <1>4 DEF Posts, Rests
<1>5. CASE Downloads(d)
  BY <1>1, <1>2, <1>5 DEF Downloads, Save
<1>6. CASE Crashes(d)
  BY <1>1, <1>2, <1>6 DEF Crashes, Load
<1>7. CASE Spoils(d)
  BY <1>1, <1>2, <1>7 DEF Spoils
<1> QED BY <1>3, <1>4, <1>5, <1>6, <1>7 DEF Kind, Merges

-----------------------------------------------------------------------------
(* LinksOK.                                                                *)

\* In no step anything is deleted but what the step deletes: of an entry whose
\* link is saved still, no document says that it is gone.
LEMMA NotDeleted ==
  ASSUME TypeOK, DocsOK, NEW d \in Devices, Kind(d), NEW l \in Links, l \in added', NEW p, Entry(p, l)
  PROVE Entry(p, l)'
<1>1. \A doc \in Stored : p \notin doc.gone
  BY DEF Entry
<1>2. mem \in [Devices -> Docs \cup {None}] /\ disk \in [Devices -> Docs \cup {Torn}] /\ p.key = l
  BY DEF TypeOK, Entry
<1> SUFFICES ASSUME NEW doc \in Stored' PROVE p \notin doc.gone
  BY DEF Entry
<1>3. ASSUME NEW K \in SUBSET Keys, Writes(d, K)
      PROVE p \notin doc.gone
  <2>1. PICK new : new = Reconcile(mem[d], d, K)
    OBVIOUS
  <2>2. Stored' \subseteq Stored \cup {new}
    BY <1>2, <1>3, <2>1 DEF Writes, Save, Stored
  <2>3. mem[d] \in Stored /\ Good(mem[d])
    BY <1>3, StoredIs DEF Writes
  <2>4. new.gone = mem[d].gone \cup UNION {Entries(mem[d], k) : k \in Hydrate(mem[d]) \ K}
    BY <2>1, <2>3, ReconcileFields DEF Good
  <2>5. l \notin Hydrate(mem[d]) \ K
    BY <1>3 DEF Writes
  <2>6. p \notin UNION {Entries(mem[d], k) : k \in Hydrate(mem[d]) \ K}
    BY <1>2, <2>5 DEF Entries
  <2> QED BY <1>1, <2>2, <2>3, <2>4, <2>6
<1>4. CASE Posts(d)
  <2>1. disk[d] \in Stored /\ Good(disk[d]) /\ MergeAndSave(disk[d]) /\ mem' = mem /\ disk' = disk
    BY <1>4, StoredIs DEF Posts
  <2>2. Stored' \subseteq Stored \cup {relay'}
    BY <2>1 DEF Stored
  <2>3. /\ Had \subseteq Stored
        /\ relay'.gone = disk[d].gone \/ \E r \in Had : relay'.gone = r.gone \cup disk[d].gone
    BY <2>1, PostKeeps
  <2> QED BY <1>1, <2>1, <2>2, <2>3
<1>5. CASE Downloads(d)
  <2>1. Stored' \subseteq Stored
    BY <1>2, <1>5 DEF Downloads, Save, Stored
  <2> QED BY <1>1, <2>1
<1>6. ASSUME NEW e \in Devices, Merges(d, e)
      PROVE p \notin doc.gone
  <2>1. PICK new : new = Merge(mem[d], disk[e])
    OBVIOUS
  <2>2. Stored' \subseteq Stored \cup {new}
    BY <1>2, <1>6, <2>1 DEF Merges, Stored
  <2>3. mem[d] \in Stored /\ disk[e] \in Stored
    BY <1>6, StoredIs DEF Merges
  <2>4. new.gone = mem[d].gone \cup disk[e].gone
    BY <2>1 DEF Merge
  <2> QED BY <1>1, <2>2, <2>3, <2>4
<1>7. CASE Crashes(d)
  <2>1. Stored' \subseteq Stored
    BY <1>2, <1>7 DEF Crashes, Load, Stored
  <2> QED BY <1>1, <2>1
<1>8. CASE Rests(d)
  <2>1. Stored' \subseteq Stored
    BY <1>2, <1>8 DEF Rests, Stored
  <2> QED BY <1>1, <2>1
<1>9. CASE Spoils(d)
  <2>1. Stored' \subseteq Stored
    BY <1>2, <1>9 DEF Spoils, Stored
  <2> QED BY <1>1, <2>1
<1> QED BY <1>3, <1>4, <1>5, <1>6, <1>7, <1>8, <1>9 DEF Kind

\* A device that holds a link holds it after any step, unless the link was deleted
\* or a device died between the relay's document and its own entries.
LEMMA HoldsStep ==
  ASSUME TypeOK, DocsOK, SyncOK, OwnOK, ApartOK, NEW d \in Devices, Kind(d), Others(d), mode' = mode, cut' = {},
         NEW l \in Links, l \in added', NEW e \in Devices, Holds(e, l)
  PROVE Holds(e, l)'
<1>1. mem \in [Devices -> Docs \cup {None}] /\ disk \in [Devices -> Docs \cup {Torn}]
  BY DEF TypeOK
<1>0. cut = {}
  BY DEF Kind, Writes, Posts, Downloads, Spoils, Merges, Crashes, Rests
<1>2. mem[e] # None /\ Good(mem[e])
  BY StoredIs DEF Holds
<1>3. ASSUME e = d, Crashes(d)
      PROVE disk' = disk /\ mem' = [mem EXCEPT ![d] = disk[d]] /\ disk[d] # None /\ disk[d] # Torn
            /\ sync[d].at # "recover"
  <2>1. disk'[d] # Torn /\ sync[d].at # "recover"
    BY <1>3 DEF Crashes
  <2>2. disk' = disk
    BY <1>1, <1>3, <2>1 DEF Crashes
  <2> QED BY <1>1, <1>3, <2>1, <2>2, DocsAssumption DEF Crashes, Load
<1>4. ASSUME NEW K \in SUBSET Keys, Writes(d, K)
      PROVE Good(Reconcile(mem[d], d, K))
  BY <1>4, StoredIs, ReconcileIsDoc DEF Writes, Actors
<1>5. ASSUME Downloads(d)
      PROVE relay # None /\ mem[d].puts \subseteq relay.puts /\ sync[d].snapshot = Hydrate(mem[d])
  BY <1>5, NotIdle DEF Downloads, SyncOK
<1>11. ASSUME Spoils(d)
       PROVE mem' = mem /\ disk' = [disk EXCEPT ![d] = Torn] /\ sync[d].at # "recover"
  BY <1>11 DEF Spoils
<1>6. ASSUME NEW f \in Devices, Merges(d, f)
      PROVE Good(Merge(mem[d], disk[f]))
  BY <1>6, StoredIs, MergeIsDoc DEF Merges
<1>7. \A x : Good(x) => x # None /\ x # Torn
  BY DocsAssumption DEF Good, IsDoc
<1>8. mem'[e] # None
  <2>1. CASE e # d
    BY <1>1, <1>2, <2>1 DEF Kind, Writes, Posts, Downloads, Spoils, Merges, Crashes, Rests, Save
  <2>2. ASSUME e = d, NEW K \in SUBSET Keys, Writes(d, K)
        PROVE mem'[e] # None
    BY <1>1, <1>4, <1>7, <2>2 DEF Writes, Save
  <2>3. CASE e = d /\ (Posts(d) \/ Rests(d))
    BY <1>2, <2>3 DEF Posts, Rests
  <2>4. CASE e = d /\ Downloads(d)
    BY <1>1, <1>5, <2>4 DEF Downloads, Save
  <2>5. ASSUME e = d, NEW f \in Devices, Merges(d, f)
        PROVE mem'[e] # None
    BY <1>1, <1>6, <1>7, <2>5 DEF Merges
  <2>6. CASE e = d /\ Crashes(d)
    BY <1>1, <1>3, <2>6
  <2>7. CASE e = d /\ Spoils(d)
    BY <1>2, <1>11, <2>7
  <2> QED BY <2>1, <2>2, <2>3, <2>4, <2>5, <2>6, <2>7 DEF Kind
<1>9. ASSUME mode.direct
      PROVE \E p \in mem'[e].puts : Entry(p, l)' /\ (disk'[e] # Torn => p \in disk'[e].puts)
  <2>1. PICK p \in mem[e].puts : Entry(p, l) /\ (disk[e] # Torn => p \in disk[e].puts)
    BY <1>9 DEF Holds
  <2>2. Entry(p, l)'
    BY <2>1, NotDeleted
  <2>3. p \in mem'[e].puts /\ (disk'[e] # Torn => p \in disk'[e].puts)
    <3>1. CASE e # d
      BY <1>1, <2>1, <3>1 DEF Kind, Writes, Posts, Downloads, Spoils, Merges, Crashes, Rests, Save
    <3>2. ASSUME e = d, NEW K \in SUBSET Keys, Writes(d, K)
          PROVE p \in mem'[e].puts /\ p \in disk'[e].puts
      <4>1. p \in Reconcile(mem[d], d, K).puts
        BY <1>2, <2>1, <3>2, ReconcileFields DEF Good
      <4> QED BY <1>1, <3>2, <4>1 DEF Writes, Save
    <3>3. CASE e = d /\ (Posts(d) \/ Rests(d))
      BY <1>1, <2>1, <3>3 DEF Posts, Rests
    <3>4. CASE e = d /\ Downloads(d)
      BY <1>1, <1>5, <2>1, <3>4 DEF Downloads, Save
    <3>5. ASSUME e = d, NEW f \in Devices, Merges(d, f)
          PROVE p \in mem'[e].puts /\ (disk'[e] # Torn => p \in disk'[e].puts)
      <4>1. p \in Merge(mem[d], disk[f]).puts
        BY <2>1, <3>5 DEF Merge
      <4> QED BY <1>1, <2>1, <3>5, <4>1 DEF Merges
    <3>6. CASE e = d /\ Crashes(d)
      BY <1>1, <1>3, <2>1, <3>6
    <3>7. CASE e = d /\ Spoils(d)
      BY <1>1, <1>11, <2>1, <3>7
    <3> QED BY <3>1, <3>2, <3>3, <3>4, <3>5, <3>6, <3>7 DEF Kind
  <2> QED BY <2>2, <2>3
<1>10. ASSUME ~ mode.direct
       PROVE l \in Hydrate(mem'[e]) \/ (sync'[e].at = "recover" /\ l \in sync'[e].snapshot)
  <2>1. l \in Hydrate(mem[e]) \/ (sync[e].at = "recover" /\ l \in sync[e].snapshot)
    BY <1>10 DEF Holds
  <2>2. CASE e # d
    <3>1. mem'[e] = mem[e]
      BY <1>1, <2>2 DEF Kind, Writes, Posts, Downloads, Spoils, Merges, Crashes, Rests, Save
    <3> QED BY <2>1, <2>2, <3>1 DEF Others
  <2>3. ASSUME e = d, NEW K \in SUBSET Keys, Writes(d, K)
        PROVE l \in Hydrate(mem'[e])
    <3>1. l \in K
      BY <2>1, <2>3 DEF Writes
    <3>2. Numbered(OwnLinks(mem[d], d))
      BY <1>0, <1>2, <2>3 DEF OwnOK
    <3>3. l \in Hydrate(Reconcile(mem[d], d, K))
      BY <1>2, <2>3, <3>1, <3>2, ReconciledLinks
    <3> QED BY <1>1, <2>3, <3>3 DEF Writes, Save
  <2>4. CASE e = d /\ (Posts(d) \/ Rests(d))
    BY <2>1, <2>4 DEF Posts, Rests
  <2>5. CASE e = d /\ Downloads(d)
    BY <1>5, <2>1, <2>5 DEF Downloads
  <2>6. CASE e = d /\ Crashes(d)
    <3>1. disk[d] = mem[d]
      BY <1>2, <1>3, <1>10, <2>6 DEF ApartOK
    <3> QED BY <1>1, <1>3, <2>1, <2>6, <3>1
  <2>7. CASE e = d /\ Spoils(d)
    BY <1>11, <2>1, <2>7
  <2> QED BY <1>10, <2>2, <2>3, <2>4, <2>5, <2>6, <2>7 DEF Kind, Merges
<1> QED BY <1>8, <1>9, <1>10 DEF Holds

\* A device that saves a link holds it.
LEMMA HoldsNew ==
  ASSUME TypeOK, DocsOK, MapsOK, OwnOK, NEW d \in Devices, Kind(d), mode' = mode, cut = {},
         NEW l \in Links, l \in added' \ added
  PROVE Holds(d, l)'
<1>1. mem \in [Devices -> Docs \cup {None}] /\ disk \in [Devices -> Docs \cup {Torn}] /\ mode \in Modes
  BY DEF TypeOK
<1>2. PICK K \in SUBSET Keys : Writes(d, K)
  BY DEF Kind, Posts, Downloads, Spoils, Merges, Crashes, Rests
<1>3. Good(mem[d]) /\ mem[d] \in Stored /\ mem[d] # None
  BY <1>2, StoredIs DEF Writes
<1>4. PICK doc : doc = Reconcile(mem[d], d, K)
  OBVIOUS
<1>5. Good(doc) /\ doc # None
  BY <1>2, <1>3, <1>4, ReconcileIsDoc, DocsAssumption DEF Actors, Good, IsDoc
<1>6. mem'[d] = doc /\ disk'[d] = doc /\ Stored' \subseteq Stored \cup {doc}
  BY <1>1, <1>2, <1>4 DEF Writes, Save, Stored
<1>7. Numbered(OwnLinks(mem[d], d)) /\ \A x \in Stored : OwnLinks(x, d) \subseteq OwnLinks(mem[d], d)
  BY <1>3 DEF OwnOK
<1>8. l \in K /\ (mode.direct => l \notin Hydrate(mem[d]))
  BY <1>2 DEF Writes
<1>9. l \in Hydrate(doc)
  BY <1>3, <1>4, <1>7, <1>8, ReconciledLinks
<1>10. ASSUME mode.direct
       PROVE \E p \in mem'[d].puts : Entry(p, l)' /\ (disk'[d] # Torn => p \in disk'[d].puts)
  <2> DEFINE p == Put(mem[d], d, l)
  <2>1. p \in OwnLinks(doc, d) \ OwnLinks(mem[d], d)
    BY <1>3, <1>4, <1>7, <1>8, <1>10, NewEntries
  <2>2. p.by = d /\ p.key = l /\ p.map = Seen(mem[d])
    BY DEF Put
  <2>3. p.map = Max({0})
    <3>1. mode.shared
      BY <1>1, <1>10, RelaySyncAssumption
    <3> QED BY <1>3, <2>2, <3>1 DEF MapsOK, Seen
  <2>4. \A x \in Stored : p \notin x.puts
    BY <1>7, <2>1, <2>2 DEF OwnLinks
  <2>5. \A x \in Stored : p \notin x.gone
    BY <2>4 DEF DocsOK, Good, IsDoc
  <2>6. p \notin doc.gone
    <3>1. doc.gone = mem[d].gone \cup UNION {Entries(mem[d], k) : k \in Hydrate(mem[d]) \ K}
      BY <1>3, <1>4, ReconcileFields DEF Good
    <3> QED BY <1>3, <2>4, <2>5, <3>1 DEF Entries
  <2>7. \A x \in Stored' : p \notin x.gone
    BY <1>6, <2>5, <2>6
  <2>8. p \in doc.puts
    BY <2>1 DEF OwnLinks
  <2> HIDE DEF p
  <2> QED BY <1>6, <2>2, <2>3, <2>7, <2>8 DEF Entry
<1> QED BY <1>5, <1>6, <1>9, <1>10 DEF Holds

\* The step keeps LinksOK.
LEMMA LinksStep ==
  ASSUME TypeOK, DocsOK, MapsOK, SyncOK, OwnOK, ApartOK, LinksOK,
         NEW d \in Devices, Kind(d), Others(d), mode' = mode, added' \subseteq Links
  PROVE LinksOK'
<1> SUFFICES ASSUME cut' = {}, NEW l \in added' PROVE \E e \in Devices : Holds(e, l)'
  BY DEF LinksOK
<1>1. l \in Links
  OBVIOUS
<1>2. cut = {}
  BY DEF Kind, Writes, Posts, Downloads, Spoils, Merges, Crashes, Rests
<1>3. CASE l \in added
  <2>1. PICK e \in Devices : Holds(e, l)
    BY <1>2, <1>3 DEF LinksOK
  <2> QED BY <1>1, <2>1, HoldsStep
<1>4. CASE l \notin added
  BY <1>1, <1>2, <1>4, HoldsNew
<1> QED BY <1>3, <1>4

-----------------------------------------------------------------------------
(* The rest of the state, and the theorems.                                *)

\* What the properties remember keeps its type.
LEMMA PastStep ==
  ASSUME TypeOK, NEW d \in Devices, UserStep(d) \/ SyncStep(d) \/ Fault(d)
  PROVE /\ added' \subseteq Links /\ removed' \subseteq Links
        /\ cut' \subseteq Devices /\ done' \subseteq Devices /\ round' \in 0 .. Enough
<1> USE DEF documents, remote, bounds, past
<1>1. added \subseteq Links /\ removed \subseteq Links
      /\ cut \subseteq Devices /\ done \subseteq Devices /\ round \in 0 .. Enough
  BY DEF TypeOK
<1>2. CASE UserStep(d)
  <2>1. CASE Change
    <3>1. cut' = cut /\ done' = {} /\ round' = 0 /\ 0 \in 0 .. Enough
      BY <2>1 DEF Change, Enough
    <3>2. added' \subseteq Links /\ removed' \subseteq Links
      BY <1>1, <1>2 DEF UserStep, SaveTradeLink, DeleteTradeLink, RegisterFile, FullSync, FullSyncFails
    <3> QED BY <1>1, <3>1, <3>2
  <2>2. Change \/ UNCHANGED past
    BY <1>2 DEF UserStep, SaveTradeLink, DeleteTradeLink, RegisterFile, FullSync, FullSyncFails
  <2> QED BY <1>1, <2>1, <2>2
<1>3. CASE SyncEnd(d)
  <2>1. round + 1 \in Nat /\ {round + 1, Enough} \subseteq Nat
    BY <1>1 DEF Enough
  <2>2. Min({round + 1, Enough}) \in 0 .. Enough
    <3>1. \E x \in {round + 1, Enough} : \A y \in {round + 1, Enough} : x =< y
      BY <1>1 DEF Enough
    <3>2. Min({round + 1, Enough}) \in {round + 1, Enough}
          /\ \A y \in {round + 1, Enough} : Min({round + 1, Enough}) =< y
      BY <3>1 DEF Min
    <3> QED BY <1>1, <3>2 DEF Enough
  <2> QED BY <1>1, <1>3, <2>2 DEF SyncEnd
<1>4. CASE CrashDevice(d) \/ Download(d) \/ DownloadTorn(d)
  BY <1>1, <1>4 DEF CrashDevice, Download, DownloadTorn
<1>5. CASE UNCHANGED past
  BY <1>1, <1>5
<1>6. SyncStep(d) \/ Fault(d) =>
        SyncEnd(d) \/ CrashDevice(d) \/ Download(d) \/ DownloadTorn(d) \/ UNCHANGED past
  BY DEF SyncStep, Fault, SyncBegin, Upload, Recover, Reupload, List, DownloadBlob,
    UploadBlob, Lose, CrashRelay
<1> QED BY <1>2, <1>3, <1>4, <1>5, <1>6

\* The content stores keep their types, and what is received is never stored cut short.
LEMMA BlobsStep ==
  ASSUME TypeOK, BlobsAreWhole, NEW d \in Devices, UserStep(d) \/ SyncStep(d) \/ Fault(d)
  PROVE /\ cas' \in [Devices -> [Files -> {None, "whole", "half", Torn}]]
        /\ blobs' \in [Files -> {None, "whole", Torn}]
        /\ BlobsAreWhole'
<1> USE DEF documents, remote, bounds, past
<1>1. /\ cas \in [Devices -> [Files -> {None, "whole", "half", Torn}]]
      /\ blobs \in [Files -> {None, "whole", Torn}]
  BY DEF TypeOK
<1>2. Torn \notin {"whole", "half", None}
  BY RelaySyncAssumption
<1>3. \A e \in Devices, f \in Files : cas[e][f] # Torn
  BY DEF BlobsAreWhole
<1>4. CASE UNCHANGED <<cas, blobs>>
  BY <1>1, <1>4 DEF BlobsAreWhole
<1>5. ASSUME NEW f \in Files, RegisterFile(d, f) \/ DownloadBlob(d, f)
      PROVE /\ cas' \in [Devices -> [Files -> {None, "whole", "half", Torn}]]
            /\ blobs' = blobs
            /\ \A e \in Devices, g \in Files : cas'[e][g] # Torn
  <2>1. \E x : (x = "whole" \/ x = cas[d][f]) /\ cas' = [cas EXCEPT ![d] = [cas[d] EXCEPT ![f] = x]]
    BY <1>1, <1>5 DEF RegisterFile, DownloadBlob
  <2>2. blobs' = blobs
    BY <1>5 DEF RegisterFile, DownloadBlob, Change
  <2>3. PICK x : (x = "whole" \/ x = cas[d][f]) /\ cas' = [cas EXCEPT ![d] = [cas[d] EXCEPT ![f] = x]]
    BY <2>1
  <2>4. x \in {None, "whole", "half", Torn} /\ x # Torn
    BY <1>1, <1>2, <1>3, <2>3
  <2> QED BY <1>1, <1>3, <2>2, <2>3, <2>4
<1>6. ASSUME NEW f \in Files, UploadBlob(d, f)
      PROVE cas' = cas /\ blobs' \in [Files -> {None, "whole", Torn}]
  BY <1>1, <1>6 DEF UploadBlob
<1>7. ASSUME NEW e \in Devices, FullSync(d, e)
      PROVE /\ cas' \in [Devices -> [Files -> {None, "whole", "half", Torn}]]
            /\ blobs' = blobs
            /\ \A x \in Devices, g \in Files : cas'[x][g] # Torn
  <2>1. PICK row : cas' = [cas EXCEPT ![d] = row]
                   /\ row \in [Files -> {None, "whole", "half", Torn}]
                   /\ \A f \in Files : row[f] # Torn
    <3> DEFINE
      merged == Merge(mem[d], disk[e])
      missing == {f \in Files \cap Hydrate(merged) : cas[d][f] = None}
      row == [f \in Files |-> IF f \in missing /\ cas[e][f] = "whole" THEN "whole" ELSE cas[d][f]]
    <3>1. cas' = [cas EXCEPT ![d] = row]
      BY <1>1, <1>7 DEF FullSync
    <3>2. row \in [Files -> {None, "whole", "half", Torn}] /\ \A f \in Files : row[f] # Torn
      BY <1>1, <1>2, <1>3
    <3> QED BY <3>1, <3>2
  <2>2. blobs' = blobs
    BY <1>7 DEF FullSync
  <2> QED BY <1>1, <1>3, <2>1, <2>2
<1>8. CASE CrashDevice(d)
  <2>1. cas' = cas \/ \E f \in Files : cas' = [cas EXCEPT ![d] = [cas[d] EXCEPT ![f] = "half"]]
    <3>1. CASE UNCHANGED cas
      BY <3>1
    <3>2. CASE sync[d].at = "blobs" /\ \E f \in sync[d].down : blobs[f] = "whole" /\ cas' = [cas EXCEPT ![d][f] = "half"]
      <4>1. sync[d].down \subseteq Files
        BY <3>2 DEF TypeOK, SyncStates, Idle
      <4>2. PICK f \in sync[d].down : cas' = [cas EXCEPT ![d][f] = "half"]
        BY <3>2
      <4> QED BY <1>1, <4>1, <4>2
    <3> QED BY <1>8, <3>1, <3>2 DEF CrashDevice
  <2>2. blobs' = blobs
    BY <1>8 DEF CrashDevice
  <2>3. CASE cas' = cas
    BY <1>4, <2>2, <2>3
  <2>4. CASE \E f \in Files : cas' = [cas EXCEPT ![d] = [cas[d] EXCEPT ![f] = "half"]]
    <3>1. PICK f \in Files : cas' = [cas EXCEPT ![d] = [cas[d] EXCEPT ![f] = "half"]]
      BY <2>4
    <3>2. cas' \in [Devices -> [Files -> {None, "whole", "half", Torn}]]
      BY <1>1, <3>1
    <3>3. \A e \in Devices, g \in Files : cas'[e][g] # Torn
      BY <1>1, <1>2, <1>3, <3>1
    <3> QED BY <1>1, <2>2, <3>2, <3>3 DEF BlobsAreWhole
  <2> QED BY <2>1, <2>3, <2>4
<1>9. CASE CrashRelay(d)
  <2>1. cas' = cas
    BY <1>9 DEF CrashRelay
  <2>2. blobs' \in [Files -> {None, "whole", Torn}]
    BY <1>1, <1>9 DEF CrashRelay
  <2> QED BY <1>1, <1>3, <2>1, <2>2 DEF BlobsAreWhole
<1>10. CASE UserStep(d)
  <2>1. (\E f \in Files : RegisterFile(d, f)) \/ (\E e \in Devices : FullSync(d, e)) \/ UNCHANGED <<cas, blobs>>
    BY <1>10 DEF UserStep, SaveTradeLink, DeleteTradeLink, FullSyncFails, Change
  <2> QED BY <1>1, <1>4, <1>5, <1>7, <2>1 DEF BlobsAreWhole
<1>11. CASE SyncStep(d)
  <2>1. (\E f \in Files : DownloadBlob(d, f) \/ UploadBlob(d, f)) \/ UNCHANGED <<cas, blobs>>
    BY <1>11 DEF SyncStep, SyncBegin, Upload, Download, DownloadTorn, Recover, Reupload, List, SyncEnd
  <2>2. CASE \E f \in Files : DownloadBlob(d, f)
    <3>1. cas' \in [Devices -> [Files -> {None, "whole", "half", Torn}]] /\ blobs' = blobs
          /\ \A e \in Devices, g \in Files : cas'[e][g] # Torn
      BY <1>5, <2>2
    <3> QED BY <1>1, <3>1 DEF BlobsAreWhole
  <2>3. CASE \E f \in Files : UploadBlob(d, f)
    <3>1. cas' = cas /\ blobs' \in [Files -> {None, "whole", Torn}]
      BY <1>6, <2>3
    <3> QED BY <1>1, <1>3, <3>1 DEF BlobsAreWhole
  <2>4. CASE UNCHANGED <<cas, blobs>>
    BY <1>4, <2>4
  <2> QED BY <2>1, <2>2, <2>3, <2>4
<1>12. CASE Lose(d)
  <2>1. cas' = cas /\ (blobs' = blobs \/ \E f \in sync[d].up : blobs' = [blobs EXCEPT ![f] = Torn])
    BY <1>12 DEF Lose
  <2>2. blobs' \in [Files -> {None, "whole", Torn}]
    BY <1>1, <2>1
  <2> QED BY <1>1, <1>3, <2>1, <2>2 DEF BlobsAreWhole
<1> QED BY <1>8, <1>9, <1>10, <1>11, <1>12 DEF Fault

\* The syncs keep their types.
LEMMA SyncTypes ==
  ASSUME TypeOK, NEW d \in Devices, UserStep(d) \/ SyncStep(d) \/ Fault(d)
  PROVE sync' \in [Devices -> SyncStates]
<1> USE DEF documents, remote, bounds, past
<1>1. sync \in [Devices -> SyncStates] /\ round \in 0 .. Enough
  BY DEF TypeOK
<1>2. Idle \in SyncStates
  BY DEF SyncStates
<1>3. \A H : Hydrate(H) \in SUBSET Keys
  BY DEF Hydrate
<1>4. ASSUME NEW x \in SyncStates, sync' = [sync EXCEPT ![d] = x]
      PROVE sync' \in [Devices -> SyncStates]
  BY <1>1, <1>4
<1>5. CASE sync' = sync
  BY <1>1, <1>5
<1>6. CASE Change
  <2>1. \A e \in Devices : sync[e] # Idle => [sync[e] EXCEPT !.round = None] \in SyncStates
    BY <1>1 DEF SyncStates
  <2> QED BY <1>2, <1>6, <2>1 DEF Change
<1>7. CASE UserStep(d)
  BY <1>5, <1>6, <1>7 DEF UserStep, SaveTradeLink, DeleteTradeLink, RegisterFile, FullSync, FullSyncFails
<1>8. CASE Fault(d)
  BY <1>2, <1>4, <1>8 DEF Fault, Lose, CrashDevice, CrashRelay
<1>9. CASE SyncBegin(d)
  <2>1. [at |-> "upload", snapshot |-> Hydrate(mem[d]), round |-> round] \in SyncStates
    BY <1>1, <1>3 DEF SyncStates
  <2> QED BY <1>4, <1>9, <2>1 DEF SyncBegin
<1>10. ASSUME NEW step \in {"download", "recover", "reupload", "list"}, To(d, step),
              sync[d].at \in {"upload", "download", "recover", "reupload"}
       PROVE sync' \in [Devices -> SyncStates]
  <2>1. [sync[d] EXCEPT !.at = step] \in SyncStates
    BY <1>1, <1>10 DEF SyncStates, Idle
  <2>2. sync' = [sync EXCEPT ![d] = [sync[d] EXCEPT !.at = step]]
    BY <1>1, <1>10 DEF To
  <2> QED BY <1>4, <2>1, <2>2
<1>11. CASE Upload(d) \/ Download(d) \/ Recover(d) \/ Reupload(d)
  BY <1>10, <1>11 DEF Upload, Download, Recover, Reupload
<1>12. CASE List(d)
  <2> DEFINE
    there == {f \in Files : blobs[f] # None}
    here == {f \in Files : cas[d][f] # None}
    x == [at |-> "blobs", round |-> sync[d].round, down |-> there \ here, up |-> (here \cap Hydrate(mem[d])) \ there]
  <2>1. sync[d].round \in 0 .. Enough \cup {None}
    BY <1>1, <1>12 DEF List, SyncStates, Idle
  <2>2. x \in SyncStates
    BY <2>1 DEF SyncStates
  <2>3. sync' = [sync EXCEPT ![d] = x]
    BY <1>1, <1>12 DEF List
  <2> QED BY <1>4, <2>2, <2>3
<1>13. ASSUME NEW f \in Files, DownloadBlob(d, f) \/ UploadBlob(d, f)
       PROVE sync' \in [Devices -> SyncStates]
  <2>1. [sync[d] EXCEPT !.down = @ \ {f}] \in SyncStates /\ [sync[d] EXCEPT !.up = @ \ {f}] \in SyncStates
    BY <1>1, <1>13 DEF DownloadBlob, UploadBlob, SyncStates, Idle
  <2>2. sync' \in {[sync EXCEPT ![d] = [sync[d] EXCEPT !.down = @ \ {f}]], [sync EXCEPT ![d] = [sync[d] EXCEPT !.up = @ \ {f}]]}
    BY <1>1, <1>13 DEF DownloadBlob, UploadBlob
  <2> QED BY <1>4, <2>1, <2>2
<1>14. CASE SyncEnd(d) \/ DownloadTorn(d)
  BY <1>2, <1>4, <1>14 DEF SyncEnd, DownloadTorn
<1> QED BY <1>7, <1>8, <1>9, <1>11, <1>12, <1>13, <1>14 DEF SyncStep

\* The devices start with documents of their own files, or copies of one.
LEMMA InitIInv ==
  ASSUME Init
  PROVE IInv
<1>1. PICK had \in [Devices -> SUBSET Files] : mem = [d \in Devices |-> BuildFromSources(d, had[d])]
  BY DEF Init
<1>2. mode \in Modes /\ disk = mem /\ relay = None /\ sync = [d \in Devices |-> Idle] /\ added = {}
  BY DEF Init
<1>3. \A m : Fresh(m).maps = {m} /\ Fresh(m).puts = {} /\ Fresh(m).gone = {}
  BY DEF Fresh
<1>4. \A m \in Actors : Good(Fresh(m))
  BY FS_EmptySet DEF Fresh, Good, IsDoc, Docs, Actors
<1>5. \A d \in Devices : had[d] \in SUBSET Keys /\ Links \cap had[d] = {}
  BY <1>1, RelaySyncAssumption DEF Keys
<1>6. ASSUME NEW d \in Devices
      PROVE /\ Good(mem[d]) /\ (mode.shared => mem[d].maps = {0})
            /\ \A e \in Devices : OwnLinks(mem[d], e) = {}
  <2>1. PICK m \in Actors : (mode.shared => m = 0) /\ mem[d] = Reconcile(Fresh(m), d, had[d])
    BY <1>1 DEF BuildFromSources, Actors
  <2>2. Good(mem[d])
    BY <1>4, <1>5, <2>1, ReconcileIsDoc DEF Actors
  <2>3. mem[d].maps = {m}
    BY <1>3, <1>4, <2>1, ReconcileFields DEF Good
  <2>4. \A e \in Devices : OwnLinks(mem[d], e) = OwnLinks(Fresh(m), e)
    BY <1>4, <1>5, <2>1, OthersEntries
  <2> QED BY <1>3, <2>1, <2>2, <2>3, <2>4 DEF OwnLinks
<1>7. \A d \in Devices : mem[d] # None /\ mem[d] # Torn
  BY <1>6, DocsAssumption DEF Good, IsDoc
<1>8. \A doc \in Stored : \E d \in Devices : doc = mem[d]
  BY <1>2 DEF Stored
<1>9. DocsOK /\ MapsOK
  BY <1>6, <1>8 DEF DocsOK, MapsOK
<1>10. OwnOK
  BY <1>2, <1>6, <1>7, <1>8 DEF OwnOK, Numbered
<1>11. SyncOK /\ ApartOK /\ LinksOK
  BY <1>2 DEF SyncOK, ApartOK, LinksOK
<1>12. TypeOK
  <2>1. mem \in [Devices -> Docs] /\ \A d \in Devices : IsDoc(mem[d])
    BY <1>1, <1>6 DEF Good, IsDoc
  <2>2. sync \in [Devices -> SyncStates]
    BY <1>2 DEF SyncStates
  <2>3. cas = [d \in Devices |-> [f \in Files |-> None]] /\ blobs = [f \in Files |-> None]
        /\ added = {} /\ removed = {} /\ cut = {} /\ done = {} /\ round \in 0 .. Enough
    BY DEF Init, Enough
  <2> QED BY <1>2, <2>1, <2>2, <2>3 DEF TypeOK
<1>13. BlobsAreWhole
  BY RelaySyncAssumption DEF Init, BlobsAreWhole
<1> QED BY <1>9, <1>10, <1>11, <1>12, <1>13 DEF IInv

\* Every step keeps the invariant.
LEMMA NextIInv ==
  ASSUME IInv, [Next]_vars
  PROVE IInv'
<1> USE DEF IInv
<1>1. CASE UNCHANGED vars
  <2>1. UNCHANGED <<mode, mem, disk, relay, sync, added, cut>>
    BY <1>1 DEF vars, documents, remote, past
  <2>2. UNCHANGED <<cas, blobs, removed, round, done>>
    BY <1>1 DEF vars, remote, past
  <2>3. Stored' = Stored
    BY <2>1 DEF Stored
  <2>4. DocsOK' /\ MapsOK'
    BY <2>1, <2>3 DEF DocsOK, MapsOK
  <2>5. OwnOK' /\ SyncOK' /\ ApartOK'
    BY <2>1, <2>3 DEF OwnOK, SyncOK, ApartOK
  <2>6. LinksOK'
    BY <2>1, <2>3 DEF LinksOK, Holds, Entry
  <2>7. TypeOK' /\ BlobsAreWhole'
    BY <2>1, <2>2 DEF TypeOK, BlobsAreWhole
  <2> QED BY <2>4, <2>5, <2>6, <2>7
<1>2. CASE Next
  <2>1. PICK d \in Devices : UserStep(d) \/ SyncStep(d) \/ Fault(d)
    BY <1>2 DEF Next
  <2>2. mode' = mode /\ Others(d) /\ Kind(d)
    BY <2>1, Kinds
  <2>3. /\ DocsOK' /\ MapsOK'
        /\ mem' \in [Devices -> Docs \cup {None}] /\ \A e \in Devices : mem'[e] = None \/ IsDoc(mem'[e])
        /\ disk' \in [Devices -> Docs \cup {Torn}] /\ \A e \in Devices : disk'[e] = Torn \/ IsDoc(disk'[e])
        /\ relay' \in {None, Torn} \/ IsDoc(relay')
    BY <2>2, DocsStep
  <2>4. /\ added' \subseteq Links /\ removed' \subseteq Links
        /\ cut' \subseteq Devices /\ done' \subseteq Devices /\ round' \in 0 .. Enough
    BY <2>1, PastStep
  <2>5. /\ cas' \in [Devices -> [Files -> {None, "whole", "half", Torn}]]
        /\ blobs' \in [Files -> {None, "whole", Torn}]
        /\ BlobsAreWhole'
    BY <2>1, BlobsStep
  <2>6. TypeOK'
    BY <2>1, <2>2, <2>3, <2>4, <2>5, SyncTypes DEF TypeOK
  <2>7. OwnOK' /\ SyncOK' /\ ApartOK'
    BY <2>1, <2>2, OwnStep, SyncStepOK, ApartStep
  <2>8. LinksOK'
    BY <2>2, <2>4, LinksStep
  <2> QED BY <2>3, <2>5, <2>6, <2>7, <2>8
<1> QED BY <1>1, <1>2

\* The invariant holds in every behaviour.
LEMMA AlwaysIInv == Spec => []IInv
BY InitIInv, NextIInv, PTL DEF Spec

\* Every document keeps its type, and deletes only what it has, whichever way
\* documents were merged, recovered and cut short.
THEOREM TypeCorrect == Spec => []TypeOK
<1>1. IInv => TypeOK
  BY DEF IInv
<1> QED BY <1>1, AlwaysIInv, PTL

\* sync.rs, automerge_store.rs: a link a user saved, and nobody deleted since, is on
\* some device, or in the snapshot the device is about to restore it from, through
\* any syncs by the relay, direct transfers, lost and cut requests and crashes, as long as
\* no device died with the relay's document or an unreadable one on disk, or was sent a
\* document without its own entries (see cut).
THEOREM LinksSafe == Spec => []LinksSurvive
<1>1. ASSUME TypeOK, DocsOK, MapsOK, NEW d \in Devices, NEW l \in Links, Holds(d, l)
      PROVE \/ mem[d] # None /\ l \in Hydrate(mem[d])
            \/ sync[d].at = "recover" /\ l \in sync[d].snapshot
  <2>1. CASE ~ mode.direct
    BY <1>1, <2>1 DEF Holds
  <2>2. CASE mode.direct
    <3>1. PICK p \in mem[d].puts : Entry(p, l)
      BY <1>1, <2>2 DEF Holds
    <3>2. mem[d] # None /\ mem[d] \in Stored
      BY <1>1, StoredIs DEF Holds
    <3>3. mode.shared
      BY <1>1, <2>2, RelaySyncAssumption DEF TypeOK
    <3>4. Seen(mem[d]) = Max({0})
      BY <1>1, <3>2, <3>3 DEF MapsOK, Seen
    <3>5. p \in Entries(mem[d], l)
      BY <3>1, <3>2, <3>4 DEF Entry, Entries
    <3> QED BY <3>2, <3>5 DEF Hydrate, Keys
  <2> QED BY <2>1, <2>2
<1>2. IInv => LinksSurvive
  <2> SUFFICES ASSUME IInv, cut = {}, NEW l \in added
               PROVE \E d \in Devices :
                       \/ mem[d] # None /\ l \in Hydrate(mem[d])
                       \/ sync[d].at = "recover" /\ l \in sync[d].snapshot
    BY DEF LinksSurvive
  <2>1. TypeOK /\ DocsOK /\ MapsOK /\ LinksOK /\ l \in Links
    BY DEF IInv, TypeOK
  <2>2. PICK d \in Devices : Holds(d, l)
    BY <2>1 DEF LinksOK
  <2> QED BY <1>1, <2>1, <2>2
<1> QED BY <1>2, AlwaysIInv, PTL

\* content_store.rs, relay_client.rs: a blob that was cut short on its way, or that
\* the relay holds half of, is never kept under the hash it was asked for.
THEOREM BlobsSafe == Spec => []BlobsAreWhole
<1>1. IInv => BlobsAreWhole
  BY DEF IInv
<1> QED BY <1>1, AlwaysIInv, PTL

-----------------------------------------------------------------------------
(* Convergence: what the rounds of syncs after the last change bring about.  *)

\* The relay's document, empty before it has one.
RelayDoc == IF relay \in {None, Torn} THEN [maps |-> {}, puts |-> {}, gone |-> {}] ELSE relay

\* A blob that was cut on its way to the relay counts as sent, and is cut for good.
Has(d, f) == cas[d][f] # None
Sent(f) == blobs[f] # None
Cut(f) == blobs[f] = Torn

\* Document b has the maps and the deletions of a; and its entries too.
Frame(a, b) == a.maps \subseteq b.maps /\ a.gone \subseteq b.gone
Within(a, b) == Frame(a, b) /\ a.puts \subseteq b.puts

\* What the devices have is whole, and files are never deleted from a document.
WholeOK ==
  /\ \A d \in Devices : mem[d] # None /\ disk[d] # Torn /\ \A f \in Files : cas[d][f] \in {None, "whole"}
  /\ \A p \in RelayDoc.gone : p.key \in Links
  /\ \A d \in Devices : \A p \in mem[d].gone : p.key \in Links

\* What the relay has of a device in each step of a sync, and what the device keeps of files.
DeviceOK(d) ==
  /\ Within(disk[d], mem[d])
  /\ sync[d].at \in {"download", "recover", "reupload", "list", "blobs"} => Frame(mem[d], RelayDoc)
  /\ sync[d].at \in {"download", "recover", "list", "blobs"} => mem[d].puts \subseteq RelayDoc.puts
  /\ sync[d] # Idle => sync[d].round = None \/ sync[d].round <= round
  /\ \A f \in Files : Has(d, f) =>
       Sent(f) \/ f \in Hydrate(mem[d]) \/ (sync[d].at = "recover" /\ f \in sync[d].snapshot)
  /\ sync[d].at = "blobs" =>
       /\ \A f \in Files : Has(d, f) => Sent(f) \/ f \in sync[d].up
       /\ \A f \in sync[d].up \cap Files : Has(d, f)
       /\ \A f \in sync[d].down \cap Files : Sent(f)

\* In the first round what the relay lacks is with a device that has yet to complete its sync.
FirstOK ==
  round = 0 => \A d \in Devices :
    /\ \A x \in mem[d].maps : x \in RelayDoc.maps \/ \E e \in Devices \ done : x \in mem[e].maps
    /\ \A x \in mem[d].gone : x \in RelayDoc.gone \/ \E e \in Devices \ done : x \in mem[e].gone
    /\ \A f \in Files : Has(d, f) => Sent(f) \/ \E e \in Devices \ done : Has(e, f)

\* After it the relay has all maps, deletions and files there are.
FramesOK ==
  round >= 1 => \A d \in Devices : Frame(mem[d], RelayDoc) /\ \A f \in Files : Has(d, f) => Sent(f)

\* The device has them too, but for cut files, and nothing to recover.
Level(d) ==
  /\ Frame(RelayDoc, mem[d]) /\ \A f \in Files : Sent(f) => Has(d, f) \/ Cut(f)
  /\ sync[d].at \in {"upload", "download", "recover"} => sync[d].snapshot \subseteq Hydrate(mem[d])

\* In the second round the devices come to have them, one by one, and the relay the
\* entries of those that completed it.
SecondOK ==
  /\ \A d \in Devices : round >= 2 \/ (round = 1 /\ d \in done) => Level(d)
  /\ round = 1 => \A d \in Devices : \A p \in mem[d].puts :
       p \in RelayDoc.puts \/ \E e \in Devices \ done : p \in mem[e].puts
  /\ round >= 2 => \A d \in Devices : mem[d].puts \subseteq RelayDoc.puts

\* In the third nothing is written any more, and the devices come to have the relay's entries.
ThirdOK ==
  \A d \in Devices : round = Enough \/ (round = 2 /\ d \in done) => RelayDoc.puts \subseteq mem[d].puts

\* What the current sync of a device has brought, if it counts.
CountedOK(d) ==
  sync[d].at \in {"recover", "reupload", "list", "blobs"} /\ sync[d].round = round =>
    /\ round = 1 => Frame(RelayDoc, mem[d])
    /\ round = 1 /\ sync[d].at = "blobs" => \A f \in Files : Sent(f) => Has(d, f) \/ Cut(f) \/ f \in sync[d].down
    /\ round = 2 => RelayDoc.puts \subseteq mem[d].puts

SyncsOK == \A d \in Devices : DeviceOK(d) /\ CountedOK(d)
RoundsOK == FirstOK /\ FramesOK /\ SecondOK /\ ThirdOK
CInv == crashes \in Nat /\ (crashes = 0 => WholeOK /\ SyncsOK /\ RoundsOK)

-----------------------------------------------------------------------------
(* Documents that grow.                                                    *)

\* A document with more entries, and the same maps and deletions, shows more keys.
LEMMA HydrateGrows ==
  ASSUME NEW a, NEW b, a.maps = b.maps, a.gone = b.gone, a.puts \subseteq b.puts
  PROVE Hydrate(a) \subseteq Hydrate(b)
BY DEF Hydrate, Entries, Seen

\* A document that only gains entries and deletions of links shows the files it showed.
LEMMA FilesStay ==
  ASSUME NEW a, NEW b, a.maps = b.maps, a.puts \subseteq b.puts, \A p \in b.gone : p.key \in Links,
         NEW f \in Files, f \in Hydrate(a)
  PROVE f \in Hydrate(b)
<1>1. f \notin Links
  BY RelaySyncAssumption
<1> QED BY <1>1 DEF Hydrate, Entries, Seen

\* Reconciling adds to a document; only keys that are left out are deleted.
LEMMA ReconcileGrows ==
  ASSUME NEW doc, Good(doc), NEW d, NEW K \in SUBSET Keys, Hydrate(doc) \ K \subseteq Links,
         \A p \in doc.gone : p.key \in Links
  PROVE LET r == Reconcile(doc, d, K) IN
    /\ Within(doc, r) /\ r.maps = doc.maps
    /\ \A p \in r.gone : p.key \in Links
    /\ \A f \in Files \cap K : f \in Hydrate(r)
    /\ Hydrate(doc) \subseteq K => r.gone = doc.gone
    /\ K \subseteq Hydrate(doc) => r.puts = doc.puts
<1> DEFINE r == Reconcile(doc, d, K)
<1>1. /\ r.maps = doc.maps
      /\ r.puts = doc.puts \cup {Put(doc, d, k) : k \in K \ Hydrate(doc)}
      /\ r.gone = doc.gone \cup UNION {Entries(doc, k) : k \in Hydrate(doc) \ K}
  BY ReconcileFields DEF Good
<1> HIDE DEF r
<1>2. \A p \in r.gone : p.key \in Links
  BY <1>1 DEF Entries
<1>3. ASSUME NEW f \in Files \cap K
      PROVE f \in Hydrate(r)
  <2>1. CASE f \in Hydrate(doc)
    BY <1>1, <1>2, <2>1, FilesStay
  <2>2. CASE f \notin Hydrate(doc)
    <3>1. Put(doc, d, f) \in r.puts /\ Put(doc, d, f).key = f /\ Put(doc, d, f).map = Seen(r)
      BY <1>1, <1>3, <2>2 DEF Put, Seen
    <3>2. Put(doc, d, f) \notin r.gone
      BY <1>2, <3>1, RelaySyncAssumption
    <3>3. Put(doc, d, f) \in Entries(r, f)
      BY <3>1, <3>2 DEF Entries
    <3> QED BY <1>3, <3>3 DEF Hydrate
  <2> QED BY <2>1, <2>2
<1>4. Hydrate(doc) \subseteq K => r.gone = doc.gone
  BY <1>1
<1>5. K \subseteq Hydrate(doc) => r.puts = doc.puts
  BY <1>1
<1> QED BY <1>1, <1>2, <1>3, <1>4, <1>5 DEF r, Within, Frame

\* What the relay's document is after a post.
LEMMA PostedIs ==
  ASSUME TypeOK, DocsOK, NEW doc, Good(doc), MergeAndSave(doc)
  PROVE /\ relay' # None /\ relay' # Torn /\ relay' = RelayDoc'
        /\ RelayDoc'.maps = RelayDoc.maps \cup doc.maps
        /\ RelayDoc'.gone = RelayDoc.gone \cup doc.gone
        /\ RelayDoc.puts \cup doc.puts \subseteq RelayDoc'.puts
        /\ Frame(doc, RelayDoc) /\ Frame(RelayDoc, doc) => RelayDoc'.puts = RelayDoc.puts \cup doc.puts
<1>1. CASE relay \in {None, Torn}
  <2>1. relay' = doc
    BY <1>1 DEF MergeAndSave
  <2> QED BY <1>1, <2>1, DocsAssumption DEF Good, IsDoc, RelayDoc
<1>2. CASE relay \notin {None, Torn}
  <2>1. relay' = Posted(relay, doc)
    BY <1>2 DEF MergeAndSave, Posted
  <2>2. Good(relay)
    BY <1>2, StoredIs
  <2>3. PICK r : /\ r = Posted(relay, doc) /\ Good(r) /\ r.maps = relay.maps \cup doc.maps
                 /\ relay.puts \cup doc.puts \subseteq r.puts /\ r.gone = relay.gone \cup doc.gone
    BY <2>2, PostedDoc
  <2>4. relay' = r /\ r # None /\ r # Torn
    BY <2>1, <2>3, DocsAssumption DEF Good, IsDoc
  <2>5. ASSUME Frame(doc, relay), Frame(relay, doc)
        PROVE r.puts = relay.puts \cup doc.puts
    <3> DEFINE
      merged == Merge(relay, doc)
      K == Hydrate(merged) \cup (Files \cap (Hydrate(relay) \cup Hydrate(doc)))
    <3>1. /\ merged.maps = relay.maps \cup doc.maps /\ merged.puts = relay.puts \cup doc.puts
          /\ merged.gone = relay.gone \cup doc.gone
      BY DEF Merge
    <3>2. merged.maps = doc.maps /\ merged.gone = doc.gone /\ merged.maps = relay.maps /\ merged.gone = relay.gone
      BY <2>5, <3>1 DEF Frame
    <3>3. IsDoc(merged)
      BY <2>2, MergeIsDoc DEF Good
    <3> HIDE DEF merged
    <3>4. Hydrate(doc) \subseteq Hydrate(merged) /\ Hydrate(relay) \subseteq Hydrate(merged)
      BY <3>1, <3>2, HydrateGrows
    <3>5. K \ Hydrate(merged) = {}
      BY <3>4
    <3>6. r.puts = merged.puts \cup {Put(merged, 0, k) : k \in K \ Hydrate(merged)}
      <4>1. r = Reconcile(merged, 0, K)
        BY <2>3 DEF Posted, merged
      <4> HIDE DEF K
      <4> QED BY <3>3, <4>1, ReconcileFields
    <3> QED BY <3>1, <3>5, <3>6
  <2> QED BY <1>2, <2>3, <2>4, <2>5 DEF RelayDoc
<1> QED BY <1>1, <1>2

-----------------------------------------------------------------------------
(* Steps in which device d is alone at work.                               *)

Alone(d) ==
  /\ round' = round /\ done' = done
  /\ \A e \in Devices \ {d} :
       mem'[e] = mem[e] /\ disk'[e] = disk[e] /\ cas'[e] = cas[e] /\ sync'[e] = sync[e]

\* Nothing is lost ...
Grows(d) ==
  /\ Within(mem[d], mem'[d]) /\ Within(RelayDoc, RelayDoc')
  /\ \A f \in Files : (Has(d, f) => Has(d, f)') /\ (Sent(f) => Sent(f)') /\ (Cut(f) => Cut(f)')

\* ... and what is new to d or to the relay was on some device; entries too, where the
\* device has nothing to recover.
Comes(d) ==
  /\ \A x \in mem'[d].maps : x \in RelayDoc'.maps \/ \E e \in Devices : x \in mem[e].maps
  /\ \A x \in mem'[d].gone : x \in RelayDoc'.gone \/ \E e \in Devices : x \in mem[e].gone
  /\ \A x \in RelayDoc'.maps : x \in RelayDoc.maps \/ \E e \in Devices : x \in mem[e].maps
  /\ \A x \in RelayDoc'.gone : x \in RelayDoc.gone \/ \E e \in Devices : x \in mem[e].gone
  /\ \A f \in Files : Has(d, f)' => Sent(f)' \/ \E e \in Devices : Has(e, f)
  /\ \A f \in Files : Sent(f)' => Sent(f) \/ \E e \in Devices : Has(e, f)
  /\ Level(d) /\ Frame(mem[d], RelayDoc) =>
       /\ \A p \in mem'[d].puts : p \in RelayDoc'.puts \/ \E e \in Devices : p \in mem[e].puts
       /\ \A p \in RelayDoc'.puts : p \in RelayDoc.puts \/ \E e \in Devices : p \in mem[e].puts
       /\ sync'[d].at \in {"upload", "download", "recover"} => sync'[d].snapshot \subseteq Hydrate(mem'[d])

\* After the first round the relay's maps, deletions and files stay, after the
\* second its entries.
LEMMA RelayStays ==
  ASSUME FramesOK, SecondOK, round \in 0 .. Enough, NEW d \in Devices, Grows(d), Comes(d)
  PROVE /\ round >= 1 => /\ RelayDoc'.maps = RelayDoc.maps /\ RelayDoc'.gone = RelayDoc.gone
                         /\ \A f \in Files : Sent(f)' <=> Sent(f)
        /\ round >= 2 => RelayDoc'.puts = RelayDoc.puts
<1>1. ASSUME round >= 1
      PROVE /\ RelayDoc'.maps = RelayDoc.maps /\ RelayDoc'.gone = RelayDoc.gone
            /\ \A f \in Files : Sent(f)' <=> Sent(f)
  <2>1. \A e \in Devices : Frame(mem[e], RelayDoc) /\ \A f \in Files : Has(e, f) => Sent(f)
    BY <1>1 DEF FramesOK
  <2> QED BY <2>1 DEF Grows, Comes, Within, Frame
<1>2. ASSUME round >= 2
      PROVE RelayDoc'.puts = RelayDoc.puts
  <2>1. round >= 1
    BY <1>2 DEF Enough
  <2>2. Level(d) /\ Frame(mem[d], RelayDoc) /\ \A e \in Devices : mem[e].puts \subseteq RelayDoc.puts
    BY <1>2, <2>1 DEF FramesOK, SecondOK
  <2> QED BY <2>2 DEF Grows, Comes, Within
<1> QED BY <1>1, <1>2

\* Such a step keeps what the rounds have brought.
LEMMA AloneKeepsRounds ==
  ASSUME RoundsOK, round \in 0 .. Enough, NEW d \in Devices, Alone(d), Grows(d), Comes(d)
  PROVE RoundsOK'
<1> USE DEF RoundsOK
<1>1. round' = round /\ done' = done
  BY DEF Alone
<1>2. /\ round >= 1 => /\ RelayDoc'.maps = RelayDoc.maps /\ RelayDoc'.gone = RelayDoc.gone
                       /\ \A f \in Files : Sent(f)' <=> Sent(f)
      /\ round >= 2 => RelayDoc'.puts = RelayDoc.puts
  BY RelayStays
<1>3. \A e \in Devices : Within(mem[e], mem'[e]) /\ \A f \in Files : Has(e, f) => Has(e, f)'
  <2>1. \A e \in Devices \ {d} : mem'[e] = mem[e] /\ cas'[e] = cas[e]
    BY DEF Alone
  <2> QED BY <2>1 DEF Grows, Within, Frame, Has
<1>4. \A e \in Devices \ {d} : mem'[e] = mem[e] /\ sync'[e] = sync[e] /\ \A f \in Files : Has(e, f)' <=> Has(e, f)
  BY DEF Alone, Has
<1>5. Within(RelayDoc, RelayDoc') /\ \A f \in Files : (Sent(f) => Sent(f)') /\ (Cut(f) => Cut(f)')
  BY DEF Grows
<1>6. FirstOK'
  <2> SUFFICES ASSUME round = 0, NEW e \in Devices
               PROVE /\ \A x \in mem'[e].maps : x \in RelayDoc'.maps \/ \E u \in Devices \ done : x \in mem'[u].maps
                     /\ \A x \in mem'[e].gone : x \in RelayDoc'.gone \/ \E u \in Devices \ done : x \in mem'[u].gone
                     /\ \A f \in Files : Has(e, f)' => Sent(f)' \/ \E u \in Devices \ done : Has(u, f)'
    BY <1>1 DEF FirstOK
  <2>1. \A u \in Devices :
          /\ \A x \in mem[u].maps : x \in RelayDoc.maps \/ \E v \in Devices \ done : x \in mem[v].maps
          /\ \A x \in mem[u].gone : x \in RelayDoc.gone \/ \E v \in Devices \ done : x \in mem[v].gone
          /\ \A f \in Files : Has(u, f) => Sent(f) \/ \E v \in Devices \ done : Has(v, f)
    BY DEF FirstOK
  <2>2. \A x \in mem'[e].maps : x \in RelayDoc'.maps \/ \E u \in Devices : x \in mem[u].maps
    BY <1>4 DEF Comes
  <2>3. \A x \in mem'[e].gone : x \in RelayDoc'.gone \/ \E u \in Devices : x \in mem[u].gone
    BY <1>4 DEF Comes
  <2>4. \A f \in Files : Has(e, f)' => Sent(f)' \/ \E u \in Devices : Has(u, f)
    BY <1>4 DEF Comes
  <2>5. \A x \in mem'[e].maps : x \in RelayDoc'.maps \/ \E u \in Devices \ done : x \in mem'[u].maps
    BY <1>3, <1>5, <2>1, <2>2 DEF Within, Frame
  <2>6. \A x \in mem'[e].gone : x \in RelayDoc'.gone \/ \E u \in Devices \ done : x \in mem'[u].gone
    BY <1>3, <1>5, <2>1, <2>3 DEF Within, Frame
  <2>7. \A f \in Files : Has(e, f)' => Sent(f)' \/ \E u \in Devices \ done : Has(u, f)'
    <3> SUFFICES ASSUME NEW f \in Files, Has(e, f)'
                 PROVE Sent(f)' \/ \E u \in Devices \ done : Has(u, f)'
      OBVIOUS
    <3>1. Sent(f)' \/ \E u \in Devices : Has(u, f)
      BY <2>4
    <3>2. Sent(f)' \/ Sent(f) \/ \E v \in Devices \ done : Has(v, f)
      BY <2>1, <3>1
    <3>3. ASSUME NEW v \in Devices \ done, Has(v, f) PROVE Has(v, f)'
      BY <1>3, <3>3
    <3> QED BY <1>5, <3>2, <3>3
  <2> QED BY <2>5, <2>6, <2>7
<1>7. FramesOK'
  <2> SUFFICES ASSUME round >= 1, NEW e \in Devices
               PROVE Frame(mem'[e], RelayDoc') /\ \A f \in Files : Has(e, f)' => Sent(f)'
    BY <1>1 DEF FramesOK
  <2>1. \A u \in Devices : Frame(mem[u], RelayDoc) /\ \A f \in Files : Has(u, f) => Sent(f)
    BY DEF FramesOK
  <2>2. CASE e = d
    <3>1. Frame(mem'[d], RelayDoc')
      BY <1>5, <2>1 DEF Comes, Frame, Within
    <3>2. \A f \in Files : Has(d, f)' => Sent(f)'
      BY <1>5, <2>1 DEF Comes
    <3> QED BY <2>2, <3>1, <3>2
  <2>3. CASE e # d
    BY <1>4, <1>5, <2>1, <2>3 DEF Frame, Within
  <2> QED BY <2>2, <2>3
<1>8. SecondOK'
  <2>1. ASSUME NEW e \in Devices, round >= 2 \/ (round = 1 /\ e \in done)
        PROVE Level(e)'
    <3>1. round >= 1 /\ Level(e) /\ Frame(mem[e], RelayDoc)
      BY <2>1 DEF SecondOK, FramesOK, Enough
    <3>2. Frame(RelayDoc', mem'[e])
      BY <1>2, <1>3, <3>1 DEF Level, Within, Frame
    <3>3. \A f \in Files : Sent(f)' => Has(e, f)' \/ Cut(f)'
      BY <1>2, <1>3, <1>5, <3>1 DEF Level
    <3>4. sync'[e].at \in {"upload", "download", "recover"} => sync'[e].snapshot \subseteq Hydrate(mem'[e])
      BY <1>4, <3>1 DEF Level, Comes
    <3> QED BY <3>2, <3>3, <3>4 DEF Level
  <2>2. ASSUME round = 1, NEW e \in Devices, NEW p \in mem'[e].puts
        PROVE p \in RelayDoc'.puts \/ \E u \in Devices \ done : p \in mem'[u].puts
    <3>1. \A u \in Devices : \A q \in mem[u].puts :
            q \in RelayDoc.puts \/ \E v \in Devices \ done : q \in mem[v].puts
      BY <2>2 DEF SecondOK
    <3>2. CASE p \in RelayDoc'.puts \/ \E u \in Devices : p \in mem[u].puts
      BY <1>3, <1>5, <3>1, <3>2 DEF Within
    <3>3. CASE e # d
      BY <1>4, <2>2, <3>2, <3>3
    <3>4. CASE e = d /\ d \in done
      <4>1. Level(d) /\ Frame(mem[d], RelayDoc)
        BY <2>2, <3>4 DEF SecondOK, FramesOK
      <4> QED BY <2>2, <3>2, <3>4, <4>1 DEF Comes
    <3>5. CASE e = d /\ d \notin done
      BY <2>2, <3>5
    <3> QED BY <3>3, <3>4, <3>5
  <2>3. ASSUME round >= 2, NEW e \in Devices
        PROVE mem'[e].puts \subseteq RelayDoc'.puts
    <3>1. \A u \in Devices : mem[u].puts \subseteq RelayDoc.puts /\ Level(u) /\ Frame(mem[u], RelayDoc)
      BY <2>3 DEF SecondOK, FramesOK, Enough
    <3>2. CASE e # d
      BY <1>4, <1>5, <3>1, <3>2 DEF Within
    <3>3. CASE e = d
      BY <1>5, <3>1, <3>3 DEF Comes, Within
    <3> QED BY <3>2, <3>3
  <2> QED BY <1>1, <2>1, <2>2, <2>3 DEF SecondOK
<1>9. ThirdOK'
  <2> SUFFICES ASSUME NEW e \in Devices, round = Enough \/ (round = 2 /\ e \in done)
               PROVE RelayDoc'.puts \subseteq mem'[e].puts
    BY <1>1 DEF ThirdOK
  <2>1. RelayDoc.puts \subseteq mem[e].puts /\ round >= 2
    BY DEF ThirdOK, Enough
  <2> QED BY <1>2, <1>3, <2>1 DEF Within
<1> QED BY <1>6, <1>7, <1>8, <1>9

\* And what the others' syncs have brought.
LEMMA AloneKeepsOthers ==
  ASSUME RoundsOK, SyncsOK, round \in 0 .. Enough, NEW d \in Devices, Alone(d), Grows(d), Comes(d),
         NEW e \in Devices \ {d}
  PROVE DeviceOK(e)' /\ CountedOK(e)'
<1>1. /\ round >= 1 => /\ RelayDoc'.maps = RelayDoc.maps /\ RelayDoc'.gone = RelayDoc.gone
                       /\ \A f \in Files : Sent(f)' <=> Sent(f)
      /\ round >= 2 => RelayDoc'.puts = RelayDoc.puts
  BY RelayStays DEF RoundsOK
<1>2. /\ mem'[e] = mem[e] /\ disk'[e] = disk[e] /\ sync'[e] = sync[e] /\ round' = round
      /\ \A f \in Files : Has(e, f)' <=> Has(e, f)
  BY DEF Alone, Has
<1>3. Within(RelayDoc, RelayDoc') /\ \A f \in Files : (Sent(f) => Sent(f)') /\ (Cut(f) => Cut(f)')
  BY DEF Grows
<1>4. DeviceOK(e) /\ CountedOK(e)
  BY DEF SyncsOK
<1>5. DeviceOK(e)'
  <2>1. Within(disk'[e], mem'[e])
    BY <1>2, <1>4 DEF DeviceOK
  <2>2. /\ sync'[e].at \in {"download", "recover", "reupload", "list", "blobs"} => Frame(mem'[e], RelayDoc')
        /\ sync'[e].at \in {"download", "recover", "list", "blobs"} => mem'[e].puts \subseteq RelayDoc'.puts
        /\ sync'[e] # Idle => sync'[e].round = None \/ sync'[e].round <= round'
    BY <1>2, <1>3, <1>4 DEF DeviceOK, Within, Frame
  <2>3. \A f \in Files : Has(e, f)' =>
          Sent(f)' \/ f \in Hydrate(mem'[e]) \/ (sync'[e].at = "recover" /\ f \in sync'[e].snapshot)
    BY <1>2, <1>3, <1>4 DEF DeviceOK
  <2>4. sync'[e].at = "blobs" =>
          /\ \A f \in Files : Has(e, f)' => Sent(f)' \/ f \in sync'[e].up
          /\ \A f \in sync'[e].up : f \in Files => Has(e, f)'
          /\ \A f \in sync'[e].down : f \in Files => Sent(f)'
    BY <1>2, <1>3, <1>4 DEF DeviceOK
  <2> QED BY <2>1, <2>2, <2>3, <2>4 DEF DeviceOK
<1>6. CountedOK(e)'
  BY <1>1, <1>2, <1>3, <1>4 DEF CountedOK, Frame
<1> QED BY <1>5, <1>6

-----------------------------------------------------------------------------
(* The steps of a sync, and direct transfers.                              *)

\* What the lemmas on steps assume.
Standing ==
  IInv /\ WholeOK /\ SyncsOK /\ RoundsOK

\* What a step of d alone shows.
Shown(d) == WholeOK' /\ Alone(d) /\ Grows(d) /\ Comes(d) /\ DeviceOK(d)' /\ CountedOK(d)'

\* The documents there are.
LEMMA DocumentsAre ==
  ASSUME Standing
  PROVE /\ mem \in [Devices -> Docs] /\ disk \in [Devices -> Docs]
        /\ \A d \in Devices : Good(mem[d]) /\ Good(disk[d]) /\ mem[d] # None /\ disk[d] # Torn
        /\ relay \in {None, Torn} \/ (Good(relay) /\ relay = RelayDoc)
        /\ \A d \in Devices : sync[d] # Idle => disk[d] = mem[d]
        /\ sync \in [Devices -> SyncStates] /\ round \in 0 .. Enough
        /\ cas \in [Devices -> [Files -> {None, "whole", "half", Torn}]]
        /\ \A d \in Devices, f \in Files : cas[d][f] \in {None, "whole"}
        /\ blobs \in [Files -> {None, "whole", Torn}]
<1>1. TypeOK /\ DocsOK /\ SyncOK /\ WholeOK
  BY DEF Standing, IInv
<1>2. relay \in {None, Torn} \/ Good(relay)
  BY <1>1, StoredIs
<1>3. \A d \in Devices : Good(mem[d]) /\ Good(disk[d]) /\ mem[d] # None /\ disk[d] # Torn
  BY <1>1, StoredIs DEF WholeOK
<1>4. mem \in [Devices -> Docs] /\ disk \in [Devices -> Docs]
  BY <1>1, <1>3 DEF TypeOK, Good, IsDoc
<1>5. \A d \in Devices : sync[d] # Idle => disk[d] = mem[d]
  BY <1>1 DEF SyncOK
<1> QED BY <1>1, <1>2, <1>3, <1>4, <1>5 DEF TypeOK, WholeOK, RelayDoc

\* A sync goes on to its next step.
LEMMA StepTo ==
  ASSUME Standing, NEW d \in Devices, NEW step \in {"download", "recover", "reupload", "list"},
         sync[d].at \in {"upload", "download", "recover", "reupload"}, To(d, step)
  PROVE /\ sync'[d].at = step /\ sync'[d] # Idle
        /\ sync'[d].snapshot = sync[d].snapshot /\ sync'[d].round = sync[d].round
        /\ \A e \in Devices \ {d} : sync'[e] = sync[e]
<1>1. sync \in [Devices -> SyncStates]
  BY DocumentsAre
<1>2. sync[d] \in [at : {"upload", "download", "recover", "reupload", "list"},
                   snapshot : SUBSET Keys, round : 0 .. Enough \cup {None}]
  BY <1>1 DEF SyncStates, Idle
<1>3. sync' = [sync EXCEPT ![d] = [sync[d] EXCEPT !.at = step]]
  BY <1>1 DEF To
<1>4. sync'[d] = [sync[d] EXCEPT !.at = step]
  BY <1>1, <1>3
<1>5. sync'[d].at = step /\ sync'[d].snapshot = sync[d].snapshot /\ sync'[d].round = sync[d].round
  BY <1>2, <1>4
<1> QED BY <1>1, <1>3, <1>5 DEF Idle

\* What a step leaves alone loses nothing and brings nothing.
LEMMA NothingComes ==
  ASSUME NEW d \in Devices, UNCHANGED <<mem, cas, relay, blobs>>,
         Level(d) /\ sync'[d].at \in {"upload", "download", "recover"} => sync'[d].snapshot \subseteq Hydrate(mem[d])
  PROVE Grows(d) /\ Comes(d)
<1>1. RelayDoc' = RelayDoc /\ mem' = mem /\ (\A f \in Files : (Sent(f)' <=> Sent(f)) /\ (Cut(f)' <=> Cut(f)))
      /\ \A f \in Files : Has(d, f)' <=> Has(d, f)
  BY DEF RelayDoc, Sent, Has, Cut
<1>2. Grows(d)
  BY <1>1 DEF Grows, Within, Frame
<1>3. Comes(d)
  <2>1. /\ \A x \in mem'[d].maps : \E e \in Devices : x \in mem[e].maps
        /\ \A x \in mem'[d].gone : \E e \in Devices : x \in mem[e].gone
        /\ \A x \in mem'[d].puts : \E e \in Devices : x \in mem[e].puts
        /\ \A f \in Files : Has(d, f)' => \E e \in Devices : Has(e, f)
    BY <1>1
  <2> QED BY <1>1, <2>1 DEF Comes
<1> QED BY <1>2, <1>3

LEMMA SyncBeginShows ==
  ASSUME Standing, NEW d \in Devices, SyncBegin(d)
  PROVE Shown(d)
<1> USE DEF remote, bounds, past
<1>1. /\ UNCHANGED <<mem, cas, relay, blobs, round, done>>
      /\ disk' = [disk EXCEPT ![d] = mem[d]] /\ sync[d] = Idle
      /\ sync' = [sync EXCEPT ![d] = [at |-> "upload", snapshot |-> Hydrate(mem[d]), round |-> round]]
  BY DEF SyncBegin, Free
<1>2. sync \in [Devices -> SyncStates] /\ disk \in [Devices -> Docs] /\ round \in 0 .. Enough /\ mem[d] # Torn
  BY DocumentsAre, DocsAssumption
<1>3. sync'[d].at = "upload" /\ sync'[d].snapshot = Hydrate(mem[d]) /\ sync'[d].round = round /\ disk'[d] = mem[d]
  BY <1>1, <1>2
<1>4. Alone(d)
  BY <1>1, <1>2 DEF Alone
<1>5. Grows(d) /\ Comes(d)
  BY <1>1, <1>3, NothingComes
<1>6. DeviceOK(d)'
  <2>1. DeviceOK(d) /\ sync[d].at = "idle"
    BY <1>1 DEF Standing, SyncsOK, Idle
  <2>2. \A f \in Files : Has(d, f)' => Sent(f)' \/ f \in Hydrate(mem'[d])
    BY <1>1, <2>1 DEF DeviceOK, Has, Sent
  <2> QED BY <1>1, <1>2, <1>3, <2>2 DEF DeviceOK, Within, Frame
<1>7. CountedOK(d)'
  BY <1>3 DEF CountedOK
<1>8. WholeOK'
  <2>1. \A e \in Devices : disk'[e] # Torn
    BY <1>1, <1>2 DEF Standing, WholeOK
  <2> QED BY <1>1, <2>1 DEF Standing, WholeOK, RelayDoc
<1> QED BY <1>4, <1>5, <1>6, <1>7, <1>8 DEF Shown

\* Upload, Reupload, and one of them whose answer is lost.
LEMMA PostShows ==
  ASSUME Standing, NEW d \in Devices, sync[d].at \in {"upload", "reupload"}, MergeAndSave(disk[d]),
         UNCHANGED <<mem, disk, cas, blobs, round, done>>,
         \/ sync[d].at = "upload" /\ To(d, "download")
         \/ sync[d].at = "reupload" /\ To(d, "list")
         \/ sync' = [sync EXCEPT ![d] = Idle]
  PROVE Shown(d)
<1>1. sync[d] # Idle /\ disk[d] = mem[d] /\ Good(mem[d]) /\ sync \in [Devices -> SyncStates]
      /\ round \in 0 .. Enough
  BY DocumentsAre, NotIdle
<1>2. /\ relay' # None /\ relay' # Torn /\ relay' = RelayDoc'
      /\ RelayDoc'.maps = RelayDoc.maps \cup mem[d].maps
      /\ RelayDoc'.gone = RelayDoc.gone \cup mem[d].gone
      /\ RelayDoc.puts \cup mem[d].puts \subseteq RelayDoc'.puts
      /\ Frame(mem[d], RelayDoc) /\ Frame(RelayDoc, mem[d]) => RelayDoc'.puts = RelayDoc.puts \cup mem[d].puts
  BY <1>1, PostedIs DEF Standing, IInv
<1>3. /\ \A e \in Devices \ {d} : sync'[e] = sync[e]
      /\ \/ sync'[d].at = "download" /\ sync[d].at = "upload"
         \/ sync'[d].at = "list" /\ sync[d].at = "reupload"
         \/ sync'[d].at = "idle" /\ sync'[d] = Idle
      /\ sync'[d] # Idle => sync'[d].snapshot = sync[d].snapshot /\ sync'[d].round = sync[d].round
  <2>1. CASE To(d, "download") /\ sync[d].at = "upload"
    BY <2>1, StepTo
  <2>2. CASE To(d, "list") /\ sync[d].at = "reupload"
    BY <2>2, StepTo
  <2>3. CASE sync' = [sync EXCEPT ![d] = Idle]
    BY <1>1, <2>3 DEF Idle
  <2> QED BY <2>1, <2>2, <2>3
<1>4. mem' = mem /\ (\A f \in Files : (Sent(f)' <=> Sent(f)) /\ (Cut(f)' <=> Cut(f)))
      /\ \A e \in Devices, f \in Files : Has(e, f)' <=> Has(e, f)
  BY DEF Has, Sent, Cut
<1>5. Alone(d)
  BY <1>3 DEF Alone
<1>6. Grows(d)
  BY <1>2, <1>4 DEF Grows, Within, Frame
<1>7. Comes(d)
  <2>1. Level(d) => (sync'[d].at \in {"upload", "download", "recover"} => sync'[d].snapshot \subseteq Hydrate(mem'[d]))
    BY <1>3, <1>4 DEF Level, Idle
  <2>2. Level(d) /\ Frame(mem[d], RelayDoc) => RelayDoc'.puts = RelayDoc.puts \cup mem[d].puts
    BY <1>2 DEF Level
  <2>3. /\ \A x \in mem'[d].maps : x \in RelayDoc'.maps
        /\ \A x \in mem'[d].gone : x \in RelayDoc'.gone
        /\ \A p \in mem'[d].puts : p \in RelayDoc'.puts
    BY <1>2, <1>4
  <2> QED BY <1>2, <1>4, <2>1, <2>2, <2>3 DEF Comes
<1>8. DeviceOK(d)'
  <2>1. DeviceOK(d)
    BY DEF Standing, SyncsOK
  <2>2. Frame(mem'[d], RelayDoc') /\ mem'[d].puts \subseteq RelayDoc'.puts /\ Within(disk'[d], mem'[d])
    BY <1>1, <1>2, <1>4 DEF Frame, Within
  <2>3. \A f \in Files : Has(d, f)' => Sent(f)' \/ f \in Hydrate(mem'[d])
    BY <1>4, <2>1 DEF DeviceOK
  <2>4. sync'[d] # Idle => sync'[d].round = None \/ sync'[d].round <= round'
    BY <1>1, <1>3, <2>1 DEF DeviceOK
  <2>5. sync'[d].at # "blobs"
    BY <1>3
  <2> QED BY <2>2, <2>3, <2>4, <2>5 DEF DeviceOK
<1>9. CountedOK(d)'
  <2>1. CASE sync'[d].at = "list" /\ sync[d].at = "reupload"
    <3>1. sync'[d].round = sync[d].round
      BY <1>3, <2>1 DEF Idle
    <3>2. CountedOK(d)
      BY DEF Standing, SyncsOK
    <3>3. /\ round >= 1 => /\ RelayDoc'.maps = RelayDoc.maps /\ RelayDoc'.gone = RelayDoc.gone
                           /\ \A f \in Files : Sent(f)' <=> Sent(f)
          /\ round >= 2 => RelayDoc'.puts = RelayDoc.puts
      BY <1>1, <1>6, <1>7, RelayStays DEF Standing, RoundsOK
    <3> QED BY <1>4, <2>1, <3>1, <3>2, <3>3 DEF CountedOK, Frame
  <2>2. CASE sync'[d].at \in {"download", "idle"}
    BY <2>2 DEF CountedOK
  <2> QED BY <1>3, <2>1, <2>2
<1>10. WholeOK'
  <2>1. \A p \in RelayDoc'.gone : p.key \in Links
    BY <1>2 DEF Standing, WholeOK
  <2> QED BY <1>2, <2>1 DEF Standing, WholeOK
<1> QED BY <1>5, <1>6, <1>7, <1>8, <1>9, <1>10 DEF Shown

LEMMA DownloadShows ==
  ASSUME Standing, NEW d \in Devices, Download(d)
  PROVE Shown(d)
<1> USE DEF remote, bounds, past
<1>1. /\ UNCHANGED <<cas, relay, blobs, round, done>> /\ sync[d].at = "download"
      /\ mem' = [mem EXCEPT ![d] = relay] /\ disk' = [disk EXCEPT ![d] = relay] /\ To(d, "recover")
  BY DEF Download, Save
<1>2. sync[d] # Idle /\ relay # None /\ sync[d].snapshot = Hydrate(mem[d])
  BY <1>1, NotIdle DEF Download, Standing, IInv, SyncOK
<1>3. relay = RelayDoc /\ Good(relay) /\ relay # Torn /\ mem \in [Devices -> Docs] /\ disk \in [Devices -> Docs]
  BY <1>1, <1>2, DocumentsAre DEF Download
<1>4. /\ sync'[d].at = "recover" /\ sync'[d] # Idle /\ sync'[d].snapshot = Hydrate(mem[d]) /\ sync'[d].round = sync[d].round
      /\ \A e \in Devices \ {d} : sync'[e] = sync[e]
  BY <1>1, <1>2, StepTo
<1>5. mem'[d] = RelayDoc /\ disk'[d] = RelayDoc /\ RelayDoc' = RelayDoc
      /\ \A e \in Devices \ {d} : mem'[e] = mem[e] /\ disk'[e] = disk[e]
  BY <1>1, <1>3 DEF RelayDoc
<1>6. (\A f \in Files : (Sent(f)' <=> Sent(f)) /\ (Cut(f)' <=> Cut(f)))
      /\ \A e \in Devices, f \in Files : Has(e, f)' <=> Has(e, f)
  BY <1>1 DEF Has, Sent, Cut
<1>7. DeviceOK(d) /\ Frame(mem[d], RelayDoc) /\ mem[d].puts \subseteq RelayDoc.puts
  BY <1>1 DEF Standing, SyncsOK, DeviceOK
<1>8. Alone(d)
  BY <1>1, <1>4, <1>5 DEF Alone
<1>9. Grows(d)
  BY <1>5, <1>6, <1>7 DEF Grows, Within, Frame
<1>10. Comes(d)
  <2>1. Level(d) => Hydrate(mem[d]) \subseteq Hydrate(RelayDoc)
    <3> SUFFICES ASSUME Level(d) PROVE Hydrate(mem[d]) \subseteq Hydrate(RelayDoc)
      OBVIOUS
    <3>1. mem[d].maps = RelayDoc.maps /\ mem[d].gone = RelayDoc.gone
      BY <1>7 DEF Level, Frame
    <3> QED BY <1>7, <3>1, HydrateGrows
  <2> QED BY <1>4, <1>5, <1>6, <2>1 DEF Comes
<1>11. DeviceOK(d)'
  <2>1. Within(disk'[d], mem'[d]) /\ Within(mem'[d], RelayDoc')
    BY <1>5 DEF Within, Frame
  <2>2. sync'[d].round = None \/ sync'[d].round <= round'
    BY <1>1, <1>2, <1>4, <1>7 DEF DeviceOK
  <2>3. \A f \in Files : Has(d, f)' => Sent(f)' \/ f \in sync'[d].snapshot
    BY <1>1, <1>4, <1>6, <1>7 DEF DeviceOK
  <2> QED BY <1>4, <2>1, <2>2, <2>3 DEF DeviceOK, Within
<1>12. CountedOK(d)'
  BY <1>4, <1>5 DEF CountedOK, Frame
<1>13. WholeOK'
  <2>1. \A e \in Devices : mem'[e] # None /\ disk'[e] # Torn
    BY <1>2, <1>3, <1>5 DEF Standing, WholeOK
  <2>2. \A e \in Devices : \A p \in mem'[e].gone : p.key \in Links
    BY <1>5 DEF Standing, WholeOK
  <2> QED BY <1>1, <1>5, <2>1, <2>2 DEF Standing, WholeOK
<1> QED BY <1>8, <1>9, <1>10, <1>11, <1>12, <1>13 DEF Shown

LEMMA RecoverShows ==
  ASSUME Standing, NEW d \in Devices, Recover(d)
  PROVE Shown(d)
<1> USE DEF remote, bounds, past
<1> DEFINE
  lost == sync[d].snapshot \ Hydrate(mem[d])
  K == Hydrate(mem[d]) \cup lost
<1>1. /\ UNCHANGED <<cas, relay, blobs, round, done>> /\ sync[d].at = "recover"
      /\ Save(d, Reconcile(mem[d], d, K)) /\ To(d, IF lost = {} THEN "list" ELSE "reupload")
  BY DEF Recover
<1>2. sync[d].snapshot \in SUBSET Keys /\ mem \in [Devices -> Docs] /\ disk \in [Devices -> Docs] /\ Good(mem[d])
  BY <1>1, DocumentsAre DEF SyncStates, Idle
<1>3. K \in SUBSET Keys /\ Hydrate(mem[d]) \subseteq K /\ sync[d].snapshot \subseteq K
  BY <1>2 DEF Hydrate
<1>4. \A p \in mem[d].gone : p.key \in Links
  BY DEF Standing, WholeOK
<1>5. PICK r : r = Reconcile(mem[d], d, K)
  OBVIOUS
<1>6. /\ Within(mem[d], r) /\ r.maps = mem[d].maps /\ r.gone = mem[d].gone
      /\ \A f \in Files \cap K : f \in Hydrate(r)
      /\ lost = {} => r.puts = mem[d].puts
  <2> HIDE DEF K
  <2>1. lost = {} => K \subseteq Hydrate(mem[d])
    BY DEF K
  <2> QED BY <1>2, <1>3, <1>4, <1>5, <2>1, ReconcileGrows
<1>7. Good(r) /\ r # None /\ r # Torn
  <2> HIDE DEF K
  <2>1. Good(r)
    BY <1>2, <1>3, <1>5, ReconcileIsDoc DEF Actors
  <2> QED BY <2>1, DocsAssumption DEF Good, IsDoc
<1>8. /\ mem'[d] = r /\ disk'[d] = r /\ \A e \in Devices \ {d} : mem'[e] = mem[e] /\ disk'[e] = disk[e]
  BY <1>1, <1>2, <1>5 DEF Save
<1>9. /\ sync'[d].at = IF lost = {} THEN "list" ELSE "reupload"
      /\ sync'[d] # Idle /\ sync'[d].round = sync[d].round
      /\ \A e \in Devices \ {d} : sync'[e] = sync[e]
  <2> HIDE DEF lost, K
  <2> QED BY <1>1, StepTo
<1> HIDE DEF lost, K
<1>10. RelayDoc' = RelayDoc /\ (\A f \in Files : (Sent(f)' <=> Sent(f)) /\ (Cut(f)' <=> Cut(f)))
       /\ \A e \in Devices, f \in Files : Has(e, f)' <=> Has(e, f)
  BY <1>1 DEF RelayDoc, Has, Sent, Cut
<1>11. DeviceOK(d) /\ CountedOK(d) /\ Frame(mem[d], RelayDoc) /\ mem[d].puts \subseteq RelayDoc.puts
  BY <1>1 DEF Standing, SyncsOK, DeviceOK
<1>12. Alone(d)
  BY <1>1, <1>8, <1>9 DEF Alone
<1>13. Grows(d)
  BY <1>6, <1>8, <1>10 DEF Grows, Within, Frame
<1>14. Comes(d)
  <2>1. Level(d) => lost = {}
    BY <1>1 DEF Level, lost
  <2>2. Frame(mem'[d], RelayDoc') /\ (lost = {} => mem'[d].puts \subseteq RelayDoc'.puts)
    BY <1>6, <1>8, <1>10, <1>11 DEF Frame
  <2> QED BY <1>9, <1>10, <2>1, <2>2 DEF Comes, Frame
<1>15. DeviceOK(d)'
  <2>1. Frame(mem'[d], RelayDoc') /\ (lost = {} => mem'[d].puts \subseteq RelayDoc'.puts)
    BY <1>6, <1>8, <1>10, <1>11 DEF Frame
  <2>2. \A f \in Files : Has(d, f)' => Sent(f)' \/ f \in Hydrate(mem'[d])
    <3>1. \A f \in Files : Has(d, f) => Sent(f) \/ f \in Hydrate(mem[d]) \/ f \in sync[d].snapshot
      BY <1>11 DEF DeviceOK
    <3> QED BY <1>3, <1>6, <1>8, <1>10, <3>1
  <2>3. sync'[d].round = None \/ sync'[d].round <= round'
    BY <1>1, <1>9, <1>11, NotIdle DEF DeviceOK
  <2>4. Within(disk'[d], mem'[d])
    BY <1>8 DEF Within, Frame
  <2> QED BY <1>9, <2>1, <2>2, <2>3, <2>4 DEF DeviceOK
<1>16. CountedOK(d)'
  <2>1. sync'[d].at # "blobs"
    BY <1>9
  <2>2. sync[d].round = round => (round = 1 => Frame(RelayDoc, mem[d])) /\ (round = 2 => RelayDoc.puts \subseteq mem[d].puts)
    BY <1>1, <1>11 DEF CountedOK
  <2>3. Frame(RelayDoc, mem[d]) => Frame(RelayDoc', mem'[d])
    BY <1>6, <1>8, <1>10 DEF Frame
  <2>4. RelayDoc.puts \subseteq mem[d].puts => RelayDoc'.puts \subseteq mem'[d].puts
    BY <1>6, <1>8, <1>10 DEF Within
  <2> QED BY <1>1, <1>9, <2>1, <2>2, <2>3, <2>4 DEF CountedOK
<1>17. WholeOK'
  <2>1. \A e \in Devices : mem'[e] # None /\ disk'[e] # Torn
    BY <1>7, <1>8 DEF Standing, WholeOK
  <2>2. \A e \in Devices : \A p \in mem'[e].gone : p.key \in Links
    BY <1>6, <1>8 DEF Standing, WholeOK
  <2> QED BY <1>1, <1>10, <2>1, <2>2 DEF Standing, WholeOK
<1> QED BY <1>12, <1>13, <1>14, <1>15, <1>16, <1>17 DEF Shown

LEMMA ListShows ==
  ASSUME Standing, NEW d \in Devices, List(d)
  PROVE Shown(d)
<1> USE DEF documents, remote, bounds, past
<1> DEFINE
  there == {f \in Files : blobs[f] # None}
  here == {f \in Files : cas[d][f] # None}
<1>1. /\ UNCHANGED <<mem, disk, cas, relay, blobs, round, done>> /\ sync[d].at = "list"
      /\ sync' = [sync EXCEPT ![d] =
           [at |-> "blobs", round |-> sync[d].round, down |-> there \ here, up |-> (here \cap Hydrate(mem[d])) \ there]]
  BY DocumentsAre DEF List
<1>2. sync \in [Devices -> SyncStates]
  BY DocumentsAre
<1>3. /\ sync'[d].at = "blobs" /\ sync'[d].round = sync[d].round /\ sync'[d] # Idle
      /\ \A f \in Files : f \in sync'[d].down <=> Sent(f) /\ ~Has(d, f)
      /\ \A f \in Files : f \in sync'[d].up <=> Has(d, f) /\ f \in Hydrate(mem[d]) /\ ~Sent(f)
  BY <1>1, <1>2 DEF Has, Sent, Idle
<1>4. RelayDoc' = RelayDoc /\ (\A f \in Files : (Sent(f)' <=> Sent(f)) /\ (Cut(f)' <=> Cut(f)))
      /\ \A e \in Devices, f \in Files : Has(e, f)' <=> Has(e, f)
  BY <1>1 DEF RelayDoc, Has, Sent, Cut
<1>5. DeviceOK(d) /\ CountedOK(d) /\ sync[d] # Idle
  BY <1>1, NotIdle DEF Standing, SyncsOK
<1>6. Alone(d)
  BY <1>1, <1>2 DEF Alone
<1>7. Grows(d) /\ Comes(d)
  BY <1>1, <1>3, NothingComes
<1>8. DeviceOK(d)'
  <2>1. Frame(mem'[d], RelayDoc') /\ mem'[d].puts \subseteq RelayDoc'.puts /\ Within(disk'[d], mem'[d])
    BY <1>1, <1>4, <1>5 DEF DeviceOK
  <2>2. \A f \in Files : Has(d, f) => Sent(f) \/ f \in Hydrate(mem[d])
    BY <1>1, <1>5 DEF DeviceOK
  <2>3. sync'[d].round = None \/ sync'[d].round <= round'
    BY <1>1, <1>3, <1>5 DEF DeviceOK
  <2> QED BY <1>1, <1>3, <1>4, <2>1, <2>2, <2>3 DEF DeviceOK
<1>9. CountedOK(d)'
  BY <1>1, <1>3, <1>4, <1>5 DEF CountedOK
<1>10. WholeOK'
  BY <1>1, <1>4 DEF Standing, WholeOK
<1> QED BY <1>6, <1>7, <1>8, <1>9, <1>10 DEF Shown

\* One blob more.
LEMMA BlobShows ==
  ASSUME Standing, NEW d \in Devices, NEW f \in Files, DownloadBlob(d, f) \/ UploadBlob(d, f)
  PROVE Shown(d)
<1> USE DEF documents, remote, bounds, past
<1>1. /\ UNCHANGED <<mem, disk, relay, round, done>> /\ sync[d].at = "blobs" /\ RelayDoc' = RelayDoc
  BY DEF DownloadBlob, UploadBlob, RelayDoc
<1>2. DeviceOK(d) /\ CountedOK(d) /\ sync[d] # Idle /\ sync \in [Devices -> SyncStates]
  BY <1>1, NotIdle, DocumentsAre DEF Standing, SyncsOK
<1>3. sync[d] \in [at : {"blobs"}, down : SUBSET Files, up : SUBSET Files, round : 0 .. Enough \cup {None}]
  BY <1>1, <1>2 DEF SyncStates, Idle
<1>4. /\ cas \in [Devices -> [Files -> {None, "whole", "half", Torn}]]
      /\ \A e \in Devices, g \in Files : cas[e][g] \in {None, "whole"}
      /\ blobs \in [Files -> {None, "whole", Torn}]
      /\ None # "whole" /\ None # Torn /\ Torn # "whole"
  BY DocumentsAre, RelaySyncAssumption
\* Either way the blob is on both sides after it, unless it was cut.
<1>5. /\ (Has(d, f)' \/ Cut(f)') /\ Sent(f)' /\ (Has(d, f) \/ Sent(f))
      /\ \A e \in Devices, g \in Files : cas'[e][g] = cas[e][g] \/ (e = d /\ g = f /\ cas'[e][g] = "whole")
      /\ \A e \in Devices \ {d} : cas'[e] = cas[e]
      /\ \A g \in Files : blobs'[g] = blobs[g] \/ (g = f /\ blobs[g] = None /\ blobs'[g] = "whole")
      /\ sync'[d].at = "blobs" /\ sync'[d].round = sync[d].round /\ sync'[d] # Idle
      /\ sync[d].down \subseteq sync'[d].down \cup {f} /\ sync'[d].down \subseteq sync[d].down
      /\ sync[d].up \subseteq sync'[d].up \cup {f} /\ sync'[d].up \subseteq sync[d].up
      /\ \A e \in Devices \ {d} : sync'[e] = sync[e]
  <2>1. CASE DownloadBlob(d, f)
    <3>1. blobs[f] \in {"whole", Torn} /\ blobs' = blobs
      BY <1>1, <1>2, <1>4, <2>1 DEF DownloadBlob, DeviceOK, Sent
    <3>2. cas' = [cas EXCEPT ![d] = [cas[d] EXCEPT ![f] = IF blobs[f] = "whole" THEN "whole" ELSE cas[d][f]]]
      BY <1>4, <2>1 DEF DownloadBlob
    <3>3. sync' = [sync EXCEPT ![d] = [sync[d] EXCEPT !.down = sync[d].down \ {f}]]
      BY <1>2, <2>1 DEF DownloadBlob
    <3>4. /\ cas'[d][f] = "whole" \/ (cas'[d][f] = cas[d][f] /\ blobs[f] = Torn)
          /\ \A e \in Devices, g \in Files : cas'[e][g] = cas[e][g] \/ (e = d /\ g = f /\ cas'[e][g] = "whole")
          /\ \A e \in Devices \ {d} : cas'[e] = cas[e]
      BY <1>4, <3>1, <3>2
    <3>5. /\ sync'[d] = [sync[d] EXCEPT !.down = sync[d].down \ {f}]
          /\ \A e \in Devices \ {d} : sync'[e] = sync[e]
      BY <1>2, <3>3
    <3> QED BY <1>3, <1>4, <3>1, <3>2, <3>4, <3>5 DEF Has, Sent, Cut, Idle
  <2>2. CASE UploadBlob(d, f)
    <3>1. cas[d][f] = "whole" /\ cas' = cas
      BY <1>1, <1>2, <1>4, <2>2 DEF UploadBlob, DeviceOK, Has
    <3>2. blobs' = [blobs EXCEPT ![f] = IF blobs[f] # None THEN blobs[f] ELSE "whole"]
      BY <1>4, <2>2, <3>1 DEF UploadBlob
    <3>3. sync' = [sync EXCEPT ![d] = [sync[d] EXCEPT !.up = sync[d].up \ {f}]]
      BY <1>2, <2>2 DEF UploadBlob
    <3>4. blobs'[f] # None /\ \A g \in Files : blobs'[g] = blobs[g] \/ (g = f /\ blobs[g] = None /\ blobs'[g] = "whole")
      BY <1>4, <3>2
    <3>5. /\ sync'[d] = [sync[d] EXCEPT !.up = sync[d].up \ {f}]
          /\ \A e \in Devices \ {d} : sync'[e] = sync[e]
      BY <1>2, <3>3
    <3> QED BY <1>3, <1>4, <3>1, <3>4, <3>5 DEF Has, Sent, Idle
  <2> QED BY <2>1, <2>2
<1>6. /\ \A g \in Files \ {f} : (Has(d, g)' <=> Has(d, g)) /\ (Sent(g)' <=> Sent(g))
      /\ \A g \in Files : (Cut(g) => Cut(g)') /\ (Has(d, g) => Has(d, g)') /\ (Sent(g) => Sent(g)')
  BY <1>4, <1>5 DEF Has, Sent, Cut
<1>7. Alone(d)
  BY <1>1, <1>5 DEF Alone
<1>8. Grows(d)
  BY <1>1, <1>5, <1>6 DEF Grows, Within, Frame
<1>9. Comes(d)
  <2>1. /\ \A x \in mem'[d].maps : \E e \in Devices : x \in mem[e].maps
        /\ \A x \in mem'[d].gone : \E e \in Devices : x \in mem[e].gone
        /\ \A x \in mem'[d].puts : \E e \in Devices : x \in mem[e].puts
    BY <1>1
  <2>2. \A g \in Files : Has(d, g)' => Sent(g)' \/ \E e \in Devices : Has(e, g)
    BY <1>5, <1>6
  <2>3. \A g \in Files : Sent(g)' => Sent(g) \/ \E e \in Devices : Has(e, g)
    BY <1>5, <1>6
  <2>4. sync'[d].at = "blobs"
    BY <1>5
  <2> QED BY <1>1, <2>1, <2>2, <2>3, <2>4 DEF Comes
<1>10. DeviceOK(d)'
  <2>1. Frame(mem'[d], RelayDoc') /\ mem'[d].puts \subseteq RelayDoc'.puts /\ Within(disk'[d], mem'[d])
    BY <1>1, <1>2 DEF DeviceOK
  <2>2. \A g \in Files : Has(d, g)' => Sent(g)' \/ g \in sync'[d].up
    BY <1>1, <1>2, <1>5, <1>6 DEF DeviceOK
  <2>3. \A g \in sync'[d].up \cap Files : Has(d, g)'
    BY <1>1, <1>2, <1>5, <1>6 DEF DeviceOK
  <2>4. \A g \in sync'[d].down \cap Files : Sent(g)'
    BY <1>1, <1>2, <1>5, <1>6 DEF DeviceOK
  <2>5. sync'[d].round = None \/ sync'[d].round <= round'
    BY <1>1, <1>2, <1>5 DEF DeviceOK
  <2>6. \A g \in Files : Has(d, g)' => Sent(g)' \/ g \in Hydrate(mem'[d])
    <3>1. \A g \in Files : Has(d, g) => Sent(g) \/ g \in Hydrate(mem[d])
      BY <1>1, <1>2 DEF DeviceOK
    <3> QED BY <1>1, <1>5, <1>6, <3>1
  <2> QED BY <1>5, <2>1, <2>2, <2>3, <2>4, <2>5, <2>6 DEF DeviceOK
<1>11. CountedOK(d)'
  <2>1. round = 1 /\ sync[d].round = 1 => \A g \in Files : Sent(g)' => Has(d, g)' \/ Cut(g)' \/ g \in sync'[d].down
    BY <1>1, <1>2, <1>5, <1>6 DEF CountedOK
  <2> QED BY <1>1, <1>2, <1>5, <2>1 DEF CountedOK
<1>12. WholeOK'
  <2>1. \A g \in Files, e \in Devices : cas'[e][g] \in {None, "whole"}
    BY <1>4, <1>5
  <2> QED BY <1>1, <2>1 DEF Standing, WholeOK
<1> QED BY <1>7, <1>8, <1>9, <1>10, <1>11, <1>12 DEF Shown

\* A sync that ends early, with the relay as it was, or with a blob cut on its way.
LEMMA LoseShows ==
  ASSUME Standing, NEW d \in Devices, sync[d].at # "recover", sync' = [sync EXCEPT ![d] = Idle],
         UNCHANGED <<mem, disk, cas, round, done>>, RelayDoc' = RelayDoc,
         \/ UNCHANGED blobs
         \/ sync[d].at = "blobs" /\ \E f \in sync[d].up : blobs[f] = None /\ blobs' = [blobs EXCEPT ![f] = Torn]
  PROVE Shown(d)
<1>1. sync'[d] = Idle /\ sync'[d].at = "idle" /\ \A e \in Devices \ {d} : sync'[e] = sync[e]
  BY DocumentsAre DEF Idle
<1>2. mem' = mem /\ \A e \in Devices, f \in Files : Has(e, f)' <=> Has(e, f)
  BY DEF Has
<1>3. DeviceOK(d)
  BY DEF Standing, SyncsOK
<1>9. \A f \in Files : /\ (Sent(f) => Sent(f)') /\ (Cut(f) => Cut(f)')
                       /\ Sent(f)' => Sent(f) \/ Has(d, f)
  <2>1. blobs \in [Files -> {None, "whole", Torn}] /\ None # Torn
    BY DocumentsAre, RelaySyncAssumption
  <2>2. CASE UNCHANGED blobs
    BY <2>2 DEF Sent, Cut
  <2>3. CASE sync[d].at = "blobs" /\ \E f \in sync[d].up : blobs[f] = None /\ blobs' = [blobs EXCEPT ![f] = Torn]
    <3>1. PICK f \in sync[d].up : blobs[f] = None /\ blobs' = [blobs EXCEPT ![f] = Torn]
      BY <2>3
    <3>2. f \in Files => Has(d, f)
      BY <1>3, <2>3 DEF DeviceOK
    <3>3. \A g \in Files : blobs'[g] = blobs[g] \/ (g = f /\ blobs'[g] = Torn)
      BY <2>1, <3>1
    <3> QED BY <2>1, <3>1, <3>2, <3>3 DEF Sent, Cut
  <2> QED BY <2>2, <2>3
<1>4. Alone(d)
  BY <1>1 DEF Alone
<1>5. Grows(d) /\ Comes(d)
  <2>1. /\ \A x \in mem'[d].maps : \E e \in Devices : x \in mem[e].maps
        /\ \A x \in mem'[d].gone : \E e \in Devices : x \in mem[e].gone
        /\ \A x \in mem'[d].puts : \E e \in Devices : x \in mem[e].puts
        /\ \A f \in Files : Has(d, f)' => \E e \in Devices : Has(e, f)
    BY <1>2
  <2>2. Comes(d)
    BY <1>1, <1>9, <2>1 DEF Comes
  <2>3. Grows(d)
    BY <1>2, <1>9 DEF Grows, Within, Frame
  <2> QED BY <2>2, <2>3
<1>6. DeviceOK(d)'
  <2>1. \A f \in Files : Has(d, f)' => Sent(f)' \/ f \in Hydrate(mem'[d])
    BY <1>2, <1>3, <1>9 DEF DeviceOK
  <2> QED BY <1>1, <1>3, <2>1 DEF DeviceOK
<1>7. CountedOK(d)'
  BY <1>1 DEF CountedOK
<1>8. WholeOK'
  BY DEF Standing, WholeOK
<1> QED BY <1>4, <1>5, <1>6, <1>7, <1>8 DEF Shown

\* A direct transfer, also one that fails after it merged the documents.
LEMMA TransferShows ==
  ASSUME Standing, NEW d \in Devices, NEW e \in Devices, FullSync(d, e) \/ FullSyncFails(d, e)
  PROVE Shown(d)
<1> USE DEF remote, bounds, past
<1>1. /\ mem \in [Devices -> Docs] /\ disk \in [Devices -> Docs] /\ Good(mem[d]) /\ Good(disk[e])
      /\ cas \in [Devices -> [Files -> {None, "whole", "half", Torn}]]
      /\ \A u \in Devices, f \in Files : cas[u][f] \in {None, "whole"}
  BY DocumentsAre
<1>2. PICK m : m = Merge(mem[d], disk[e])
  OBVIOUS
<1>3. /\ UNCHANGED <<sync, relay, blobs, round, done>> /\ sync[d] = Idle /\ mode.direct
      /\ mem' = [mem EXCEPT ![d] = m] /\ disk' \in {disk, [disk EXCEPT ![d] = m]}
  BY <1>2 DEF FullSync, FullSyncFails, Save, Free
<1>4. m.maps = mem[d].maps \cup disk[e].maps /\ m.puts = mem[d].puts \cup disk[e].puts
      /\ m.gone = mem[d].gone \cup disk[e].gone
  BY <1>2 DEF Merge
<1>5. Good(m) /\ m # None /\ m # Torn
  <2>1. Good(m)
    BY <1>1, <1>2, MergeIsDoc
  <2> QED BY <2>1, DocsAssumption DEF Good, IsDoc
<1>6. DeviceOK(d) /\ Within(disk[e], mem[e]) /\ Within(disk[d], mem[d])
  BY DEF Standing, SyncsOK, DeviceOK
<1>7. \A p \in m.gone : p.key \in Links
  BY <1>4, <1>6 DEF Standing, WholeOK, Within, Frame
<1>8. \A f \in Files : f \in Hydrate(mem[d]) => f \in Hydrate(m)
  <2>1. mode \in Modes
    BY DEF Standing, IInv, TypeOK
  <2>2. mode.shared
    BY <1>3, <2>1, RelaySyncAssumption
  <2>3. mem[d] \in Stored /\ disk[e] \in Stored
    BY StoredIs DEF Standing, IInv, WholeOK
  <2>4. mem[d].maps = {0} /\ disk[e].maps = {0}
    BY <2>2, <2>3 DEF Standing, IInv, MapsOK
  <2>5. m.maps = mem[d].maps /\ mem[d].puts \subseteq m.puts
    BY <1>4, <2>4
  <2> QED BY <1>7, <2>5, FilesStay
<1>9. /\ \A u \in Devices \ {d} : cas'[u] = cas[u]
      /\ \A f \in Files : cas'[d][f] = cas[d][f]
           \/ (cas'[d][f] = "whole" /\ Has(e, f) /\ f \in Hydrate(m) /\ cas[d][f] = None)
  <2>1. CASE FullSyncFails(d, e)
    BY <2>1 DEF FullSyncFails
  <2>2. CASE FullSync(d, e)
    <3> DEFINE
      missing == {f \in Files \cap Hydrate(m) : cas[d][f] = None}
      row == [f \in Files |-> IF f \in missing /\ cas[e][f] = "whole" THEN "whole" ELSE cas[d][f]]
    <3>1. cas' = [cas EXCEPT ![d] = row]
      BY <1>1, <1>2, <2>2 DEF FullSync
    <3>2. \A f \in Files : row[f] = cas[d][f]
             \/ (row[f] = "whole" /\ Has(e, f) /\ f \in Hydrate(m) /\ cas[d][f] = None)
      BY RelaySyncAssumption DEF Has
    <3> HIDE DEF row
    <3> QED BY <1>1, <3>1, <3>2
  <2> QED BY <2>1, <2>2
<1>10. /\ mem'[d] = m /\ disk'[d] \in {disk[d], m}
       /\ \A u \in Devices \ {d} : mem'[u] = mem[u] /\ disk'[u] = disk[u]
  BY <1>1, <1>3
<1>11. RelayDoc' = RelayDoc /\ (\A f \in Files : (Sent(f)' <=> Sent(f)) /\ (Cut(f)' <=> Cut(f)))
  BY <1>3 DEF RelayDoc, Sent, Cut
<1>12. /\ \A f \in Files : Has(d, f) => Has(d, f)'
       /\ \A f \in Files : Has(d, f)' => Has(d, f) \/ (Has(e, f) /\ f \in Hydrate(m))
  BY <1>9, RelaySyncAssumption DEF Has
<1>13. Alone(d)
  BY <1>3, <1>9, <1>10 DEF Alone
<1>14. Grows(d)
  BY <1>4, <1>10, <1>11, <1>12 DEF Grows, Within, Frame
<1>15. Comes(d)
  <2>1. /\ \A x \in m.maps : \E u \in Devices : x \in mem[u].maps
        /\ \A x \in m.gone : \E u \in Devices : x \in mem[u].gone
        /\ \A x \in m.puts : \E u \in Devices : x \in mem[u].puts
    BY <1>4, <1>6 DEF Within, Frame
  <2>2. sync'[d].at = "idle"
    BY <1>3 DEF Idle
  <2> QED BY <1>10, <1>11, <1>12, <2>1, <2>2 DEF Comes
<1>16. DeviceOK(d)'
  <2>1. sync'[d] = Idle /\ sync'[d].at = "idle"
    BY <1>3 DEF Idle
  <2>2. Within(disk'[d], mem'[d])
    BY <1>4, <1>6, <1>10 DEF Within, Frame
  <2>3. \A f \in Files : Has(d, f) => Sent(f) \/ f \in Hydrate(mem[d])
    BY <1>3, <1>6 DEF DeviceOK, Idle
  <2>4. \A f \in Files : Has(d, f)' => Sent(f)' \/ f \in Hydrate(mem'[d])
    BY <1>8, <1>10, <1>11, <1>12, <2>3
  <2> QED BY <2>1, <2>2, <2>4 DEF DeviceOK
<1>17. CountedOK(d)'
  BY <1>3 DEF CountedOK, Idle
<1>18. WholeOK'
  <2>1. \A u \in Devices : mem'[u] # None /\ disk'[u] # Torn
    BY <1>5, <1>10 DEF Standing, WholeOK
  <2>2. \A u \in Devices : \A p \in mem'[u].gone : p.key \in Links
    BY <1>7, <1>10 DEF Standing, WholeOK
  <2>3. \A u \in Devices, f \in Files : cas'[u][f] \in {None, "whole"}
    BY <1>1, <1>9
  <2> QED BY <1>3, <1>11, <2>1, <2>2, <2>3 DEF Standing, WholeOK
<1> QED BY <1>13, <1>14, <1>15, <1>16, <1>17, <1>18 DEF Shown

-----------------------------------------------------------------------------
(* Changes, and the end of a sync.                                         *)

\* A user's change starts the rounds again.
LEMMA ChangeKeeps ==
  ASSUME Standing, NEW d \in Devices,
         \/ \E l \in Links : SaveTradeLink(d, l) \/ DeleteTradeLink(d, l)
         \/ \E f \in Files : RegisterFile(d, f)
  PROVE WholeOK' /\ SyncsOK' /\ RoundsOK'
<1> USE DEF remote, bounds, past
<1> DEFINE H == Hydrate(mem[d])
<1>1. /\ mem \in [Devices -> Docs] /\ disk \in [Devices -> Docs] /\ Good(mem[d])
      /\ sync \in [Devices -> SyncStates]
      /\ cas \in [Devices -> [Files -> {None, "whole", "half", Torn}]]
      /\ \A u \in Devices, f \in Files : cas[u][f] \in {None, "whole"}
  BY DocumentsAre
<1>2. H \in SUBSET Keys /\ Links \cap Files = {} /\ Links \subseteq Keys /\ Files \subseteq Keys
  BY RelaySyncAssumption DEF Keys, Hydrate
<1>3. PICK K \in SUBSET Keys :
        /\ Change /\ sync[d] = Idle
        /\ Save(d, Reconcile(mem[d], d, K))
        /\ Files \cap H \subseteq K /\ H \ K \subseteq Links
        /\ \A u \in Devices, f \in Files : cas'[u][f] = cas[u][f] \/ (u = d /\ f \in K /\ cas'[u][f] = "whole")
  <2>1. ASSUME NEW l \in Links, SaveTradeLink(d, l)
        PROVE \E K \in SUBSET Keys :
                /\ Change /\ sync[d] = Idle
                /\ Save(d, Reconcile(mem[d], d, K))
                /\ Files \cap H \subseteq K /\ H \ K \subseteq Links
                /\ \A u \in Devices, f \in Files : cas'[u][f] = cas[u][f]
    <3>1. H \cup {l} \in SUBSET Keys /\ Files \cap H \subseteq H \cup {l} /\ H \ (H \cup {l}) \subseteq Links
      BY <1>2
    <3> QED BY <2>1, <3>1 DEF SaveTradeLink, Free
  <2>2. ASSUME NEW l \in Links, DeleteTradeLink(d, l)
        PROVE \E K \in SUBSET Keys :
                /\ Change /\ sync[d] = Idle
                /\ Save(d, Reconcile(mem[d], d, K))
                /\ Files \cap H \subseteq K /\ H \ K \subseteq Links
                /\ \A u \in Devices, f \in Files : cas'[u][f] = cas[u][f]
    <3>1. H \ {l} \in SUBSET Keys /\ Files \cap H \subseteq H \ {l} /\ H \ (H \ {l}) \subseteq Links
      BY <1>2
    <3> QED BY <2>2, <3>1 DEF DeleteTradeLink, Free
  <2>3. ASSUME NEW f \in Files, RegisterFile(d, f)
        PROVE \E K \in SUBSET Keys :
                /\ Change /\ sync[d] = Idle
                /\ Save(d, Reconcile(mem[d], d, K))
                /\ Files \cap H \subseteq K /\ H \ K \subseteq Links
                /\ \A u \in Devices, g \in Files : cas'[u][g] = cas[u][g] \/ (u = d /\ g \in K /\ cas'[u][g] = "whole")
    <3>1. H \cup {f} \in SUBSET Keys /\ Files \cap H \subseteq H \cup {f} /\ H \ (H \cup {f}) \subseteq Links
      BY <1>2
    <3>2. cas' = [cas EXCEPT ![d] = [cas[d] EXCEPT ![f] = IF cas[d][f] = None THEN "whole" ELSE cas[d][f]]]
      BY <1>1, <2>3 DEF RegisterFile
    <3>3. \A u \in Devices, g \in Files : cas'[u][g] = cas[u][g] \/ (u = d /\ g = f /\ cas'[u][g] = "whole")
      BY <1>1, <3>2
    <3> QED BY <2>3, <3>1, <3>3 DEF RegisterFile, Free
  <2> QED BY <2>1, <2>2, <2>3
<1>4. PICK r : r = Reconcile(mem[d], d, K)
  OBVIOUS
<1>5. \A p \in mem[d].gone : p.key \in Links
  BY DEF Standing, WholeOK
<1>6. /\ Within(mem[d], r) /\ (\A p \in r.gone : p.key \in Links) /\ \A f \in Files \cap K : f \in Hydrate(r)
  BY <1>1, <1>3, <1>4, <1>5, ReconcileGrows
<1>7. Good(r) /\ r # None /\ r # Torn
  <2>1. Good(r)
    BY <1>1, <1>4, ReconcileIsDoc DEF Actors
  <2> QED BY <2>1, DocsAssumption DEF Good, IsDoc
<1>8. /\ mem'[d] = r /\ disk'[d] = r /\ \A e \in Devices \ {d} : mem'[e] = mem[e] /\ disk'[e] = disk[e]
  BY <1>1, <1>3, <1>4 DEF Save
<1>9. /\ UNCHANGED <<relay, blobs>> /\ round' = 0 /\ done' = {}
      /\ sync' = [e \in Devices |-> IF sync[e] = Idle THEN Idle ELSE [sync[e] EXCEPT !.round = None]]
  BY <1>3 DEF Change
<1>10. RelayDoc' = RelayDoc /\ \A f \in Files : Sent(f)' <=> Sent(f)
  BY <1>9 DEF RelayDoc, Sent
<1>11. WholeOK'
  <2>1. \A e \in Devices : mem'[e] # None /\ disk'[e] # Torn
    BY <1>7, <1>8 DEF Standing, WholeOK
  <2>2. \A e \in Devices : \A p \in mem'[e].gone : p.key \in Links
    BY <1>6, <1>8 DEF Standing, WholeOK
  <2>3. \A e \in Devices, f \in Files : cas'[e][f] \in {None, "whole"}
    BY <1>1, <1>3
  <2> QED BY <1>9, <1>10, <2>1, <2>2, <2>3 DEF Standing, WholeOK
<1>12. DeviceOK(d)'
  <2>1. sync'[d] = Idle /\ sync'[d].at = "idle" /\ sync[d].at = "idle"
    BY <1>3, <1>9 DEF Idle
  <2>2. \A f \in Files : Has(d, f) => Sent(f) \/ f \in H
    BY <2>1 DEF Standing, SyncsOK, DeviceOK
  <2>3. \A f \in Files : Has(d, f)' => Sent(f)' \/ f \in Hydrate(mem'[d])
    BY <1>3, <1>6, <1>8, <1>10, <2>2 DEF Has
  <2> QED BY <1>8, <2>1, <2>3 DEF DeviceOK, Within, Frame
<1>13. ASSUME NEW e \in Devices \ {d}
       PROVE DeviceOK(e)'
  <2>1. DeviceOK(e)
    BY DEF Standing, SyncsOK
  <2>2. \A f \in Files : Has(e, f)' <=> Has(e, f)
    BY <1>3 DEF Has
  <2>3. CASE sync[e] = Idle
    <3>1. sync'[e] = Idle /\ sync'[e] = sync[e]
      BY <1>9, <2>3
    <3> QED BY <1>8, <1>10, <2>1, <2>2, <2>3, <3>1 DEF DeviceOK, Idle
  <2>4. CASE sync[e] # Idle
    <3>1. sync[e] \in SyncStates \ {Idle}
      BY <1>1, <2>4
    <3>2. /\ sync'[e].at = sync[e].at /\ sync'[e].round = None
          /\ sync[e].at = "recover" => sync'[e].snapshot = sync[e].snapshot
          /\ sync[e].at = "blobs" => sync'[e].up = sync[e].up /\ sync'[e].down = sync[e].down
      BY <1>9, <2>4, <3>1 DEF SyncStates
    <3> QED BY <1>8, <1>10, <2>1, <2>2, <3>2 DEF DeviceOK
  <2> QED BY <2>3, <2>4
<1>14. SyncsOK'
  <2>1. \A e \in Devices : CountedOK(e)'
    BY <1>9 DEF CountedOK
  <2> QED BY <1>12, <1>13, <2>1 DEF SyncsOK
<1>15. FirstOK'
  <2>1. Devices \ done' = Devices
    BY <1>9
  <2> QED BY <2>1 DEF FirstOK
<1>16. FramesOK' /\ SecondOK' /\ ThirdOK'
  BY <1>9 DEF FramesOK, SecondOK, ThirdOK, Enough
<1> QED BY <1>11, <1>14, <1>15, <1>16 DEF RoundsOK

\* A sync that is complete, and perhaps a round.
LEMMA SyncEndKeeps ==
  ASSUME Standing, NEW d \in Devices, SyncEnd(d)
  PROVE WholeOK' /\ SyncsOK' /\ RoundsOK'
<1> USE DEF remote, bounds
<1>1. /\ UNCHANGED <<mem, cas, relay, blobs>>
      /\ sync[d].at = "blobs" /\ sync[d].down = {} /\ sync[d].up = {}
      /\ disk' = [disk EXCEPT ![d] = mem[d]] /\ sync' = [sync EXCEPT ![d] = Idle]
  BY DEF SyncEnd
<1>2. /\ mem \in [Devices -> Docs] /\ disk \in [Devices -> Docs] /\ disk[d] = mem[d]
      /\ sync \in [Devices -> SyncStates] /\ round \in 0 .. Enough
  BY <1>1, NotIdle, DocumentsAre
<1>3. disk' = disk /\ sync'[d] = Idle /\ sync'[d].at = "idle" /\ \A e \in Devices \ {d} : sync'[e] = sync[e]
  BY <1>1, <1>2 DEF Idle
<1>4. RelayDoc' = RelayDoc /\ (\A f \in Files : (Sent(f)' <=> Sent(f)) /\ (Cut(f)' <=> Cut(f)))
      /\ \A e \in Devices, f \in Files : Has(e, f)' <=> Has(e, f)
  BY <1>1 DEF RelayDoc, Has, Sent, Cut
<1>5. /\ Frame(mem[d], RelayDoc) /\ mem[d].puts \subseteq RelayDoc.puts
      /\ \A f \in Files : Has(d, f) => Sent(f)
      /\ sync[d].round = round =>
           /\ round = 1 => Frame(RelayDoc, mem[d]) /\ \A f \in Files : Sent(f) => Has(d, f) \/ Cut(f)
           /\ round = 2 => RelayDoc.puts \subseteq mem[d].puts
  BY <1>1 DEF Standing, SyncsOK, DeviceOK, CountedOK
\* How far the rounds are.
<1>6. \/ round' = round /\ done' = done
      \/ round' = round /\ done' = done \cup {d} /\ sync[d].round = round
      \/ round' = round /\ round = Enough
      \/ round' = round + 1 /\ round < Enough /\ done' = {} /\ done \cup {d} = Devices /\ sync[d].round = round
  <2>1. CASE sync[d].round # round \/ done \cup {d} # Devices
    BY <2>1 DEF SyncEnd
  <2>2. CASE sync[d].round = round /\ done \cup {d} = Devices
    <3>1. round' = Min({round + 1, Enough}) /\ done' = {}
      BY <2>2 DEF SyncEnd
    <3>2. CASE round = Enough
      <4>1. Min({round + 1, Enough}) \in {round + 1, Enough}
            /\ \A y \in {round + 1, Enough} : Min({round + 1, Enough}) <= y
        <5>1. \E x \in {round + 1, Enough} : \A y \in {round + 1, Enough} : x <= y
          BY <3>2 DEF Enough
        <5> QED BY <5>1 DEF Min
      <4> QED BY <3>1, <3>2, <4>1 DEF Enough
    <3>3. CASE round # Enough
      <4>1. Min({round + 1, Enough}) \in {round + 1, Enough}
            /\ \A y \in {round + 1, Enough} : Min({round + 1, Enough}) <= y
        <5>1. \E x \in {round + 1, Enough} : \A y \in {round + 1, Enough} : x <= y
          BY <1>2, <3>3 DEF Enough
        <5> QED BY <5>1 DEF Min
      <4> QED BY <1>2, <2>2, <3>1, <3>3, <4>1 DEF Enough
    <3> QED BY <3>2, <3>3
  <2> QED BY <2>1, <2>2
<1>7. WholeOK'
  BY <1>1, <1>3, <1>4 DEF Standing, WholeOK
<1>8. ASSUME NEW e \in Devices
      PROVE DeviceOK(e)'
  <2>1. DeviceOK(e)
    BY DEF Standing, SyncsOK
  <2>2. CASE e = d
    BY <1>1, <1>3, <1>4, <1>5, <2>1, <2>2 DEF DeviceOK
  <2>3. CASE e # d
    <3>1. sync'[e] = sync[e]
      BY <1>3, <2>3
    <3>2. sync[e] # Idle => sync[e].round \in 0 .. Enough \cup {None}
      BY <1>2 DEF SyncStates
    <3>3. sync'[e] # Idle => sync'[e].round = None \/ sync'[e].round <= round'
      BY <1>2, <1>6, <2>1, <3>1, <3>2 DEF DeviceOK, Enough
    <3> QED BY <1>1, <1>3, <1>4, <2>1, <3>1, <3>3 DEF DeviceOK
  <2> QED BY <2>2, <2>3
<1>9. ASSUME NEW e \in Devices
      PROVE CountedOK(e)'
  <2>1. CASE e = d
    BY <1>3, <2>1 DEF CountedOK
  <2>2. CASE e # d /\ round' = round
    <3>1. sync'[e] = sync[e]
      BY <1>3, <2>2
    <3> QED BY <1>1, <1>4, <2>2, <3>1 DEF CountedOK, Standing, SyncsOK
  <2>3. CASE e # d /\ round' = round + 1
    <3>1. sync'[e] = sync[e]
      BY <1>3, <2>3
    <3>2. sync[e] # Idle => sync[e].round \in 0 .. Enough \cup {None}
      BY <1>2 DEF SyncStates
    <3>3. sync[e] # Idle => sync[e].round = None \/ sync[e].round <= round
      BY DEF Standing, SyncsOK, DeviceOK
    <3>4. sync[e] # Idle => sync[e].round # round + 1
      BY <1>2, <3>2, <3>3, RelaySyncAssumption DEF Enough
    <3>5. sync[e].at \in {"recover", "reupload", "list", "blobs"} => sync[e] # Idle
      BY DEF Idle
    <3> QED BY <2>3, <3>1, <3>4, <3>5 DEF CountedOK
  <2> QED BY <1>6, <2>1, <2>2, <2>3
<1>10. FirstOK'
  <2> SUFFICES ASSUME round' = 0, NEW e \in Devices
               PROVE /\ \A x \in mem[e].maps : x \in RelayDoc.maps \/ \E u \in Devices \ done' : x \in mem[u].maps
                     /\ \A x \in mem[e].gone : x \in RelayDoc.gone \/ \E u \in Devices \ done' : x \in mem[u].gone
                     /\ \A f \in Files : Has(e, f) => Sent(f) \/ \E u \in Devices \ done' : Has(u, f)
    BY <1>1, <1>4 DEF FirstOK
  <2>1. round = 0 /\ done' \subseteq done \cup {d}
    BY <1>2, <1>6 DEF Enough
  <2>2. /\ \A x \in mem[e].maps : x \in RelayDoc.maps \/ \E u \in Devices \ done : x \in mem[u].maps
        /\ \A x \in mem[e].gone : x \in RelayDoc.gone \/ \E u \in Devices \ done : x \in mem[u].gone
        /\ \A f \in Files : Has(e, f) => Sent(f) \/ \E u \in Devices \ done : Has(u, f)
    BY <2>1 DEF Standing, RoundsOK, FirstOK
  <2>3. \A x \in mem[d].maps : x \in RelayDoc.maps
    BY <1>5 DEF Frame
  <2>4. \A x \in mem[d].gone : x \in RelayDoc.gone
    BY <1>5 DEF Frame
  <2> QED BY <1>5, <2>1, <2>2, <2>3, <2>4
<1>11. FramesOK'
  <2> SUFFICES ASSUME round' >= 1, NEW e \in Devices
               PROVE Frame(mem[e], RelayDoc) /\ \A f \in Files : Has(e, f) => Sent(f)
    BY <1>1, <1>4 DEF FramesOK
  <2>1. CASE round >= 1
    BY <2>1 DEF Standing, RoundsOK, FramesOK
  <2>2. CASE ~ (round >= 1)
    <3>1. round = 0 /\ \A u \in Devices \ done : u = d
      BY <1>2, <1>6, <2>2 DEF Enough
    <3>2. /\ \A x \in mem[e].maps : x \in RelayDoc.maps \/ \E u \in Devices \ done : x \in mem[u].maps
          /\ \A x \in mem[e].gone : x \in RelayDoc.gone \/ \E u \in Devices \ done : x \in mem[u].gone
          /\ \A f \in Files : Has(e, f) => Sent(f) \/ \E u \in Devices \ done : Has(u, f)
      BY <3>1 DEF Standing, RoundsOK, FirstOK
    <3> QED BY <1>5, <3>1, <3>2 DEF Frame
  <2> QED BY <2>1, <2>2
<1>12. SecondOK'
  <2>1. ASSUME NEW e \in Devices, round' >= 2 \/ (round' = 1 /\ e \in done')
        PROVE Level(e)'
    <3>1. CASE round >= 2 \/ (round = 1 /\ e \in done)
      <4>1. Level(e)
        BY <3>1 DEF Standing, RoundsOK, SecondOK
      <4>2. sync'[e] = sync[e] \/ sync'[e].at = "idle"
        BY <1>3
      <4> QED BY <1>1, <1>4, <4>1, <4>2 DEF Level
    <3>2. CASE ~ (round >= 2 \/ (round = 1 /\ e \in done))
      <4>1. e = d /\ round = 1 /\ sync[d].round = round
        BY <1>2, <1>6, <2>1, <3>2 DEF Enough
      <4> QED BY <1>1, <1>3, <1>4, <1>5, <4>1 DEF Level
    <3> QED BY <3>1, <3>2
  <2>2. ASSUME round' = 1, NEW e \in Devices, NEW p \in mem[e].puts
        PROVE p \in RelayDoc.puts \/ \E u \in Devices \ done' : p \in mem[u].puts
    <3>1. CASE round = 1
      <4>1. done' \subseteq done \cup {d}
        BY <1>2, <1>6, <2>2, <3>1 DEF Enough
      <4>2. p \in RelayDoc.puts \/ \E u \in Devices \ done : p \in mem[u].puts
        BY <2>2, <3>1 DEF Standing, RoundsOK, SecondOK
      <4> QED BY <1>5, <4>1, <4>2
    <3>2. CASE round # 1
      <4>1. done' = {}
        BY <1>2, <1>6, <2>2, <3>2 DEF Enough
      <4> QED BY <2>2, <4>1
    <3> QED BY <3>1, <3>2
  <2>3. ASSUME round' >= 2, NEW e \in Devices
        PROVE mem[e].puts \subseteq RelayDoc.puts
    <3>1. CASE round >= 2
      BY <3>1 DEF Standing, RoundsOK, SecondOK
    <3>2. CASE ~ (round >= 2)
      <4>1. round = 1 /\ \A u \in Devices \ done : u = d
        BY <1>2, <1>6, <2>3, <3>2 DEF Enough
      <4>2. \A p \in mem[e].puts : p \in RelayDoc.puts \/ \E u \in Devices \ done : p \in mem[u].puts
        BY <4>1 DEF Standing, RoundsOK, SecondOK
      <4> QED BY <1>5, <4>1, <4>2
    <3> QED BY <3>1, <3>2
  <2> QED BY <1>1, <1>4, <2>1, <2>2, <2>3 DEF SecondOK
<1>13. ThirdOK'
  <2> SUFFICES ASSUME NEW e \in Devices, round' = Enough \/ (round' = 2 /\ e \in done')
               PROVE RelayDoc.puts \subseteq mem[e].puts
    BY <1>1, <1>4 DEF ThirdOK
  <2>1. CASE round = Enough \/ (round = 2 /\ e \in done)
    BY <2>1 DEF Standing, RoundsOK, ThirdOK
  <2>2. CASE ~ (round = Enough \/ (round = 2 /\ e \in done))
    <3>1. e = d /\ round = 2 /\ sync[d].round = round
      BY <1>2, <1>6, <2>2 DEF Enough
    <3> QED BY <1>5, <3>1
  <2> QED BY <2>1, <2>2
<1> QED BY <1>7, <1>8, <1>9, <1>10, <1>11, <1>12, <1>13 DEF SyncsOK, RoundsOK

-----------------------------------------------------------------------------
(* The invariant, and convergence.                                         *)

\* What a step of one device shows is the invariant.
LEMMA ShownKeeps ==
  ASSUME Standing, NEW d \in Devices, Shown(d)
  PROVE WholeOK' /\ SyncsOK' /\ RoundsOK'
<1>1. round \in 0 .. Enough
  BY DocumentsAre
<1>2. RoundsOK'
  BY <1>1, AloneKeepsRounds DEF Standing, Shown
<1>3. \A e \in Devices \ {d} : DeviceOK(e)' /\ CountedOK(e)'
  BY <1>1, AloneKeepsOthers DEF Standing, Shown
<1> QED BY <1>2, <1>3 DEF Shown, SyncsOK

\* At the start no round is done and nothing is deleted.
LEMMA InitCInv ==
  ASSUME Init
  PROVE CInv
<1>1. PICK had \in [Devices -> SUBSET Files] : mem = [d \in Devices |-> BuildFromSources(d, had[d])]
  BY DEF Init
<1>2. /\ disk = mem /\ relay = None /\ sync = [d \in Devices |-> Idle] /\ crashes = 0 /\ round = 0 /\ done = {}
      /\ cas = [d \in Devices |-> [f \in Files |-> None]] /\ blobs = [f \in Files |-> None]
  BY DEF Init
<1>3. ASSUME NEW d \in Devices
      PROVE Good(mem[d]) /\ mem[d].gone = {}
  <2>1. PICK m \in Actors : mem[d] = Reconcile(Fresh(m), d, had[d])
    BY <1>1 DEF BuildFromSources, Actors
  <2>2. Good(Fresh(m)) /\ Fresh(m).gone = {} /\ Fresh(m).puts = {}
    BY FS_EmptySet DEF Fresh, Good, IsDoc, Docs, Actors
  <2>3. Hydrate(Fresh(m)) = {}
    BY <2>2 DEF Hydrate, Entries
  <2>4. had[d] \in SUBSET Keys
    BY <1>1 DEF Keys
  <2>5. Good(mem[d])
    BY <2>1, <2>2, <2>4, ReconcileIsDoc DEF Actors
  <2>6. Reconcile(Fresh(m), d, had[d]).gone = Fresh(m).gone
    BY <2>2, <2>3, KeptKeys
  <2> QED BY <2>1, <2>2, <2>5, <2>6
<1>4. \A d \in Devices : mem[d] # None /\ mem[d] # Torn
  BY <1>3, DocsAssumption DEF Good, IsDoc
<1>5. (\A d \in Devices, f \in Files : ~Has(d, f)) /\ (\A f \in Files : ~Sent(f)) /\ RelayDoc.gone = {}
  BY <1>2 DEF Has, Sent, RelayDoc
<1>6. WholeOK
  BY <1>2, <1>3, <1>4, <1>5 DEF WholeOK
<1>7. SyncsOK
  <2>1. \A d \in Devices : sync[d] = Idle /\ sync[d].at = "idle"
    BY <1>2 DEF Idle
  <2> QED BY <1>2, <1>5, <2>1 DEF SyncsOK, DeviceOK, CountedOK, Within, Frame
<1>8. RoundsOK
  <2>1. Devices \ done = Devices
    BY <1>2
  <2>2. FirstOK
    BY <1>5, <2>1 DEF FirstOK
  <2> QED BY <1>2, <2>2 DEF RoundsOK, FramesOK, SecondOK, ThirdOK, Enough
<1> QED BY <1>2, <1>6, <1>7, <1>8 DEF CInv

\* Every step keeps it.
LEMMA NextCInv ==
  ASSUME IInv, CInv, [Next]_vars
  PROVE CInv'
<1>1. CASE UNCHANGED vars
  <2>1. UNCHANGED <<mem, disk, cas, sync, relay, blobs, crashes, round, done>>
    BY <1>1 DEF vars, documents, remote, bounds, past
  <2>2. RelayDoc' = RelayDoc /\ (\A f \in Files : (Sent(f)' <=> Sent(f)) /\ (Cut(f)' <=> Cut(f)))
        /\ \A e \in Devices, f \in Files : Has(e, f)' <=> Has(e, f)
    BY <2>1 DEF RelayDoc, Has, Sent, Cut
  <2>3. WholeOK => WholeOK'
    BY <2>1, <2>2 DEF WholeOK
  <2>4. SyncsOK => SyncsOK'
    BY <2>1, <2>2 DEF SyncsOK, DeviceOK, CountedOK
  <2>5. RoundsOK => RoundsOK'
    <3>1. FirstOK => FirstOK'
      BY <2>1, <2>2 DEF FirstOK
    <3>2. FramesOK => FramesOK'
      BY <2>1, <2>2 DEF FramesOK
    <3>3. SecondOK => SecondOK'
      BY <2>1, <2>2 DEF SecondOK, Level
    <3>4. ThirdOK => ThirdOK'
      BY <2>1, <2>2 DEF ThirdOK
    <3> QED BY <3>1, <3>2, <3>3, <3>4 DEF RoundsOK
  <2> QED BY <2>1, <2>3, <2>4, <2>5 DEF CInv
<1>2. CASE Next
  <2>1. PICK d \in Devices : UserStep(d) \/ SyncStep(d) \/ Fault(d)
    BY <1>2 DEF Next
  <2>2. CASE CrashDevice(d) \/ CrashRelay(d)
    <3>1. crashes' = crashes + 1 /\ crashes \in Nat
      BY <2>2 DEF CrashDevice, CrashRelay, Dies, CInv
    <3>2. crashes' \in Nat /\ crashes' # 0
      BY <3>1
    <3> QED BY <3>2 DEF CInv
  <2>3. CASE ~ (CrashDevice(d) \/ CrashRelay(d))
    <3>1. crashes' = crashes
      BY <2>1, <2>3 DEF UserStep, SyncStep, Fault, SaveTradeLink, DeleteTradeLink, RegisterFile, Change,
        FullSync, FullSyncFails, SyncBegin, Upload, Download, DownloadTorn, Recover, Reupload, List,
        DownloadBlob, UploadBlob, SyncEnd, Lose, bounds
    <3> SUFFICES ASSUME crashes = 0 PROVE WholeOK' /\ SyncsOK' /\ RoundsOK'
      BY <3>1 DEF CInv
    <3>2. Standing
      BY DEF Standing, CInv
    <3>3. CASE \/ \E l \in Links : SaveTradeLink(d, l) \/ DeleteTradeLink(d, l)
               \/ \E f \in Files : RegisterFile(d, f)
      BY <3>2, <3>3, ChangeKeeps
    <3>4. CASE \E e \in Devices : FullSync(d, e) \/ FullSyncFails(d, e)
      BY <3>2, <3>4, TransferShows, ShownKeeps
    <3>5. CASE SyncBegin(d)
      BY <3>2, <3>5, SyncBeginShows, ShownKeeps
    <3>6. CASE Upload(d) \/ Reupload(d)
      <4>1. /\ sync[d].at \in {"upload", "reupload"} /\ MergeAndSave(disk[d])
            /\ UNCHANGED <<mem, disk, cas, blobs, round, done>>
            /\ \/ sync[d].at = "upload" /\ To(d, "download")
               \/ sync[d].at = "reupload" /\ To(d, "list")
        BY <3>6 DEF Upload, Reupload, documents, past
      <4> QED BY <3>2, <4>1, PostShows, ShownKeeps
    <3>7. CASE Download(d)
      BY <3>2, <3>7, DownloadShows, ShownKeeps
    <3>8. CASE Recover(d)
      BY <3>2, <3>8, RecoverShows, ShownKeeps
    <3>9. CASE List(d)
      BY <3>2, <3>9, ListShows, ShownKeeps
    <3>10. CASE \E f \in Files : DownloadBlob(d, f) \/ UploadBlob(d, f)
      BY <3>2, <3>10, BlobShows, ShownKeeps
    <3>11. CASE SyncEnd(d)
      BY <3>2, <3>11, SyncEndKeeps
    <3>12. CASE Lose(d)
      <4>1. /\ sync[d].at # "recover" /\ sync' = [sync EXCEPT ![d] = Idle]
            /\ UNCHANGED <<mem, disk, cas, round, done>>
        BY <3>12 DEF Lose, documents, past
      <4>2. \/ UNCHANGED <<relay, blobs>>
            \/ sync[d].at \in {"upload", "reupload"} /\ MergeAndSave(disk[d]) /\ UNCHANGED blobs
            \/ relay = None /\ relay' = Torn /\ UNCHANGED blobs
            \/ /\ sync[d].at = "blobs" /\ UNCHANGED relay
               /\ \E f \in sync[d].up : blobs[f] = None /\ blobs' = [blobs EXCEPT ![f] = Torn]
        BY <3>12 DEF Lose, remote
      <4>3. CASE sync[d].at \in {"upload", "reupload"} /\ MergeAndSave(disk[d]) /\ UNCHANGED blobs
        BY <3>2, <4>1, <4>3, PostShows, ShownKeeps
      <4>4. CASE /\ RelayDoc' = RelayDoc
                 /\ \/ UNCHANGED blobs
                    \/ sync[d].at = "blobs" /\ \E f \in sync[d].up : blobs[f] = None /\ blobs' = [blobs EXCEPT ![f] = Torn]
        BY <3>2, <4>1, <4>4, LoseShows, ShownKeeps
      <4> QED BY <4>2, <4>3, <4>4 DEF RelayDoc
    <3>13. CASE DownloadTorn(d)
      <4>1. DeviceOK(d) /\ sync[d].at = "download" /\ Good(mem[d]) /\ relay = Torn
        BY <3>2, <3>13, DocumentsAre DEF Standing, SyncsOK, DownloadTorn
      <4>2. Frame(mem[d], RelayDoc) /\ mem[d].maps # {} /\ RelayDoc.maps = {}
        BY <4>1 DEF DeviceOK, Good, IsDoc, RelayDoc
      <4> QED BY <4>2 DEF Frame
    <3> QED BY <2>1, <2>3, <3>3, <3>4, <3>5, <3>6, <3>7, <3>8, <3>9, <3>10, <3>11, <3>12, <3>13
            DEF UserStep, SyncStep, Fault
  <2> QED BY <2>2, <2>3
<1> QED BY <1>1, <1>2

\* sync.rs, relay/storage.rs: when every device has completed a sync three times in turn
\* since the last change, and nothing crashed, all devices and the relay show the same
\* entries and have the same files, but for files that were cut on their way to the
\* relay, whatever maps were created independently, whichever requests and answers were
\* lost and whatever devices exchanged directly meanwhile.
THEOREM ConvergedSafe == Spec => []Converged
<1>1. IInv /\ CInv => Converged
  <2> SUFFICES ASSUME IInv, CInv, round = Enough, crashes = 0, NEW d \in Devices
               PROVE Hydrate(mem[d]) = Hydrate(relay) /\ \A f \in Files : blobs[f] # Torn => cas[d][f] = blobs[f]
    BY DEF Converged, Settled
  <2>1. Standing /\ round >= 1 /\ round >= 2
    BY DEF Standing, CInv, Enough
  <2>2. Level(d) /\ Frame(mem[d], RelayDoc) /\ (\A f \in Files : Has(d, f) => Sent(f))
        /\ mem[d].puts \subseteq RelayDoc.puts /\ RelayDoc.puts \subseteq mem[d].puts
    BY <2>1 DEF Standing, RoundsOK, FramesOK, SecondOK, ThirdOK
  <2>3. mem[d].maps = RelayDoc.maps /\ mem[d].gone = RelayDoc.gone /\ mem[d].puts = RelayDoc.puts
    BY <2>2 DEF Level, Frame
  <2>4. relay = RelayDoc
    <3>1. mem[d].maps # {}
      BY <2>1, DocumentsAre DEF Good, IsDoc
    <3> QED BY <2>3, <3>1 DEF RelayDoc
  <2>5. Hydrate(mem[d]) = Hydrate(relay)
    BY <2>3, <2>4, HydrateGrows
  <2>6. \A f \in Files : ~ Cut(f) => (Has(d, f) <=> Sent(f))
    BY <2>2 DEF Level
  <2>7. \A f \in Files : cas[d][f] \in {None, "whole"} /\ blobs[f] \in {None, "whole", Torn}
    BY <2>1, DocumentsAre
  <2> QED BY <2>5, <2>6, <2>7 DEF Has, Sent, Cut
<1>2. Init => CInv
  BY InitCInv
<1>3. IInv /\ CInv /\ [Next]_vars => CInv'
  BY NextCInv
<1> QED BY <1>1, <1>2, <1>3, AlwaysIInv, PTL DEF Spec

-----------------------------------------------------------------------------
(* Pairing.  JoinedOnce speaks of the past only (answered); what forbids a *)
(* second join is in the entries: the code of a group that let a device in *)
(* is used, and no other code leads to that group (UsedWhenAnswered).  That *)
(* a fresh group has let nobody in, and no code leads to it, needs the     *)
(* bound on the numbers of groups.                                         *)

\* What the relay keeps of a group, and what it has answered.
EntriesOK == entries \in [Codes -> [group : Groups, used : BOOLEAN] \cup {NoOne}]

AnsweredOK ==
  /\ groups \in Nat
  /\ answered \in [Groups -> SUBSET PairDevices]
  /\ \A g \in Groups : g > groups => answered[g] = {}

\* JoinedOnce without cardinalities.
OneDevice == \A g \in Groups : \A d, e \in answered[g] : d = e

JoinInv == EntriesOK /\ AnsweredOK /\ OneDevice /\ UsedWhenAnswered

-----------------------------------------------------------------------------
\* Steps that neither answer a join nor make a group, and at most remove
\* entries, keep the invariant.
LEMMA RemovalJoinInv ==
  ASSUME JoinInv,
         UNCHANGED <<groups, answered>>,
         EntriesOK',
         \A c \in Codes : entries'[c] \in {entries[c], NoOne}
  PROVE  JoinInv'
<1>1. AnsweredOK' /\ OneDevice'
  BY DEF JoinInv, AnsweredOK, OneDevice, Groups
<1>2. UsedWhenAnswered'
  <2> SUFFICES ASSUME NEW c \in Codes, entries'[c] # NoOne
               PROVE  /\ entries'[c].group <= groups'
                      /\ answered'[entries'[c].group] # {} => entries'[c].used
                      /\ \A e \in Codes \ {c} : entries'[e] # NoOne => entries'[e].group # entries'[c].group
    BY DEF UsedWhenAnswered
  <2>1. entries'[c] = entries[c]
    OBVIOUS
  <2>2. \A e \in Codes \ {c} : entries'[e] # NoOne => entries'[e] = entries[e]
    OBVIOUS
  <2> QED
    BY <2>1, <2>2 DEF JoinInv, UsedWhenAnswered
<1> QED
  BY <1>1, <1>2 DEF JoinInv

\* A new group has a number no entry has, and nobody was let into it.
LEMMA InitiateJoinInv ==
  ASSUME JoinInv, NEW d \in PairDevices, Initiate(d)
  PROVE  JoinInv'
<1>1. PICK c \in Codes : entries' = [entries EXCEPT ![c] = [group |-> groups + 1, used |-> FALSE]]
  BY DEF Initiate
<1>2. /\ groups \in Nat /\ groups < MaxGroups /\ groups' = groups + 1
      /\ MaxGroups \in Nat /\ answered' = answered
  BY PairingAssumption DEF Initiate, JoinInv, AnsweredOK
<1>3. groups + 1 \in Groups
  BY <1>2 DEF Groups
<1>4. EntriesOK'
  BY <1>1, <1>3 DEF JoinInv, EntriesOK, Groups
<1>5. AnsweredOK' /\ OneDevice'
  BY <1>2 DEF JoinInv, AnsweredOK, OneDevice, Groups
<1>6. answered[groups + 1] = {}
  BY <1>2, <1>3 DEF JoinInv, AnsweredOK
<1>7. UsedWhenAnswered'
  <2> SUFFICES ASSUME NEW a \in Codes, entries'[a] # NoOne
               PROVE  /\ entries'[a].group <= groups'
                      /\ answered'[entries'[a].group] # {} => entries'[a].used
                      /\ \A e \in Codes \ {a} : entries'[e] # NoOne => entries'[e].group # entries'[a].group
    BY DEF UsedWhenAnswered
  <2>1. /\ entries'[c] = [group |-> groups + 1, used |-> FALSE]
        /\ \A e \in Codes \ {c} : entries'[e] = entries[e]
    BY <1>1 DEF JoinInv, EntriesOK
  <2>2. \A e \in Codes : entries[e] # NoOne => entries[e].group \in Nat /\ entries[e].group <= groups
    BY <1>2 DEF JoinInv, EntriesOK, UsedWhenAnswered, Groups
  <2>3. CASE a = c
    <3>1. entries'[a].group = groups + 1
      BY <2>1, <2>3
    <3>2. \A e \in Codes \ {a} : entries'[e] # NoOne => entries'[e].group # entries'[a].group
      BY <1>2, <2>1, <2>2, <2>3, <3>1
    <3> QED
      BY <1>2, <1>6, <3>1, <3>2
  <2>4. CASE a # c
    <3>1. entries'[a] = entries[a] /\ entries[a] # NoOne
      BY <2>1, <2>4
    <3>2. entries[a].group \in Nat /\ entries[a].group <= groups /\ entries[a].group # groups + 1
      BY <1>2, <2>2, <3>1
    <3>3. \A e \in Codes \ {a} : entries'[e] # NoOne => entries'[e].group # entries'[a].group
      BY <2>1, <3>1, <3>2 DEF JoinInv, UsedWhenAnswered
    <3>4. answered[entries[a].group] # {} => entries[a].used
      BY <3>1 DEF JoinInv, UsedWhenAnswered
    <3> QED
      BY <1>2, <3>1, <3>2, <3>3, <3>4
  <2> QED
    BY <2>3, <2>4
<1> QED
  BY <1>4, <1>5, <1>7 DEF JoinInv

\* A group that lets a device in had let in none, and its code is used from then on.
LEMMA JoinJoinInv ==
  ASSUME JoinInv, NEW d \in PairDevices, NEW c \in Codes, Join(d, c)
  PROVE  JoinInv'
<1> DEFINE g == entries[c].group
<1>1. /\ entries[c] # NoOne /\ entries[c] \in [group : Groups, used : BOOLEAN]
      /\ g \in Groups /\ ~entries[c].used /\ g <= groups
      /\ entries' = [entries EXCEPT ![c].used = TRUE]
      /\ answered' = [answered EXCEPT ![g] = @ \cup {d}]
      /\ groups' = groups
  BY DEF Join, Live, JoinInv, EntriesOK, UsedWhenAnswered
<1>2. answered[g] = {}
  BY <1>1 DEF JoinInv, UsedWhenAnswered
<1>3. /\ answered'[g] = {d}
      /\ \A h \in Groups \ {g} : answered'[h] = answered[h]
  BY <1>1, <1>2 DEF JoinInv, AnsweredOK
<1>4. /\ entries'[c] = [group |-> g, used |-> TRUE]
      /\ \A e \in Codes \ {c} : entries'[e] = entries[e]
  BY <1>1 DEF JoinInv, EntriesOK
<1>5. EntriesOK'
  BY <1>1, <1>4 DEF JoinInv, EntriesOK
<1>6. AnsweredOK'
  <2>1. answered' \in [Groups -> SUBSET PairDevices]
    BY <1>1 DEF JoinInv, AnsweredOK
  <2>2. \A h \in Groups : h > groups => h # g
    BY <1>1, PairingAssumption DEF Groups, JoinInv, AnsweredOK
  <2> QED
    BY <1>1, <1>3, <2>1, <2>2 DEF JoinInv, AnsweredOK
<1>7. OneDevice'
  BY <1>3 DEF JoinInv, OneDevice
<1>8. UsedWhenAnswered'
  <2> SUFFICES ASSUME NEW a \in Codes, entries'[a] # NoOne
               PROVE  /\ entries'[a].group <= groups'
                      /\ answered'[entries'[a].group] # {} => entries'[a].used
                      /\ \A e \in Codes \ {a} : entries'[e] # NoOne => entries'[e].group # entries'[a].group
    BY DEF UsedWhenAnswered
  <2>1. \A e \in Codes : entries'[e] # NoOne => entries[e] # NoOne /\ entries'[e].group = entries[e].group
    BY <1>1, <1>4
  <2>2. /\ entries'[a].group <= groups'
        /\ \A e \in Codes \ {a} : entries'[e] # NoOne => entries'[e].group # entries'[a].group
    BY <1>1, <2>1 DEF JoinInv, UsedWhenAnswered
  <2>3. answered'[entries'[a].group] # {} => entries'[a].used
    <3>1. CASE a = c
      BY <1>4, <3>1
    <3>2. CASE a # c
      <4>1. entries'[a] = entries[a] /\ entries[a].group # g
        BY <1>1, <1>4, <3>2 DEF JoinInv, UsedWhenAnswered
      <4>2. entries[a].group \in Groups
        BY <4>1 DEF JoinInv, EntriesOK
      <4> QED
        BY <1>3, <4>1, <4>2 DEF JoinInv, UsedWhenAnswered
    <3> QED
      BY <3>1, <3>2
  <2> QED
    BY <2>2, <2>3
<1> QED
  BY <1>5, <1>6, <1>7, <1>8 DEF JoinInv

\* Every step of relay and dialog keeps the invariant.
LEMMA NextJoinInv ==
  ASSUME JoinInv, [PairingNext]_pairingVars
  PROVE  JoinInv'
<1>1. ASSUME NEW d \in PairDevices, Initiate(d) PROVE JoinInv'
  BY <1>1, InitiateJoinInv
<1>2. ASSUME NEW d \in PairDevices, save_relay_config(d) \/ Cancel(d) PROVE JoinInv'
  <2>1. UNCHANGED <<entries, groups, answered>>
    BY <1>2 DEF save_relay_config, Cancel
  <2> QED
    BY <2>1, RemovalJoinInv DEF JoinInv, EntriesOK, Groups
<1>3. ASSUME NEW d \in PairDevices, NEW c \in Codes, Join(d, c) PROVE JoinInv'
  BY <1>3, JoinJoinInv
<1>4. ASSUME NEW d \in PairDevices, NEW c \in Codes, Refuse(d, c) PROVE JoinInv'
  <2>1. UNCHANGED <<groups, answered>> /\ entries' = [entries EXCEPT ![c] = NoOne]
    BY <1>4 DEF Refuse
  <2>2. EntriesOK' /\ \A e \in Codes : entries'[e] \in {entries[e], NoOne}
    BY <2>1 DEF JoinInv, EntriesOK, Groups
  <2> QED
    BY <2>1, <2>2, RemovalJoinInv
<1>5. CASE cleanup_expired
  <2>1. UNCHANGED <<groups, answered>> /\ entries' = [c \in Codes |-> IF Live(c) THEN entries[c] ELSE NoOne]
    BY <1>5 DEF cleanup_expired
  <2>2. EntriesOK' /\ \A e \in Codes : entries'[e] \in {entries[e], NoOne}
    BY <2>1 DEF JoinInv, EntriesOK, Groups
  <2> QED
    BY <2>1, <2>2, RemovalJoinInv
<1>6. CASE RestartRelay
  <2>1. UNCHANGED <<groups, answered>> /\ entries' = [c \in Codes |-> NoOne]
    BY <1>6 DEF RestartRelay
  <2>2. EntriesOK' /\ \A e \in Codes : entries'[e] \in {entries[e], NoOne}
    BY <2>1 DEF EntriesOK
  <2> QED
    BY <2>1, <2>2, RemovalJoinInv
<1>7. CASE Tick \/ UNCHANGED pairingVars
  <2>1. UNCHANGED <<entries, groups, answered>>
    BY <1>7 DEF Tick, pairingVars
  <2> QED
    BY <2>1, RemovalJoinInv DEF JoinInv, EntriesOK, Groups
<1> QED
  BY <1>1, <1>2, <1>3, <1>4, <1>5, <1>6, <1>7 DEF PairingNext

LEMMA InitJoinInv == PairingInit => JoinInv
BY PairingAssumption DEF PairingInit, JoinInv, EntriesOK, AnsweredOK, OneDevice, UsedWhenAnswered, Groups

LEMMA IInvJoinedOnce == JoinInv => JoinedOnce
<1> SUFFICES ASSUME JoinInv, NEW g \in Groups PROVE Cardinality(answered[g]) <= 1
  BY DEF JoinedOnce
<1>1. CASE answered[g] = {}
  BY <1>1, FS_EmptySet
<1>2. CASE answered[g] # {}
  <2>1. PICK d \in answered[g] : TRUE
    BY <1>2
  <2>2. answered[g] = {d}
    BY <2>1 DEF JoinInv, OneDevice
  <2>3. Cardinality({d}) = 1
    BY FS_Singleton
  <2> QED
    BY <2>2, <2>3
<1> QED
  BY <1>1, <1>2

-----------------------------------------------------------------------------
\* A pairing code lets at most one device into its group, whatever codes collide,
\* expire, are cleaned up or are forgotten by a restart, and whatever answers are
\* lost (PairingStore::join).
THEOREM JoinedOnceSafe == PairingSpec => []JoinedOnce
<1>1. JoinInv /\ [PairingNext]_pairingVars => JoinInv'
  BY NextJoinInv
<1> QED
  BY InitJoinInv, IInvJoinedOnce, <1>1, PTL DEF PairingSpec
=============================================================================
