----------------------- MODULE IncrementalBuildProofs -----------------------
(***************************************************************************)
(* What every cache entry and every ledger of generated/ holds, for any    *)
(* vault, any sequence of edits, rebuilds, hinted rebuilds and clobbered   *)
(* ledgers: an entry what its file and chain compile to, a ledger no row   *)
(* twice, both also after crashes, and without crashes none that is        *)
(* hidden.                                                                 *)
(***************************************************************************)
EXTENDS IncrementalBuild, TLAPS

\* No CSV changes between the two reads of one run.
StableReads == "midtransform" \notin Env

\* No row mentions a folder account, so what a row compiles to does not depend
\* on which other folders there are.
NoMention == \A id \in Ids : Mentions[id] = {}

\* An entry holds what its file and chain compiled to, when D was declared.
Faithful(e) ==
  /\ e.rows \subseteq Ids
  /\ \E D \in SUBSET Folders : e.txns = Transformed(e.rows, e.chain, D)

CsvOK == csv \in [Folders -> (SUBSET Ids) \cup {NoFile}]

\* Without mentions the declared accounts make no difference.
LEMMA DeclaredIrrelevant ==
  ASSUME NoMention, NEW rows \in SUBSET Ids, NEW chain, NEW D, NEW E
  PROVE  Transformed(rows, chain, D) = Transformed(rows, chain, E)
<1>1. \A r \in rows : Mentions[r] \cap D = Mentions[r] \cap E BY DEF NoMention
<1>2. {Plain(r, <<chain, Mentions[r] \cap D # {}>>) : r \in rows} =
        {Plain(r, <<chain, Mentions[r] \cap E # {}>>) : r \in rows}
  BY <1>1
<1> QED BY <1>2 DEF Transformed

CacheFaithful ==
  /\ DOMAIN fcache = Folders
  /\ \A f \in Folders : fcache[f] \notin {NoFile, Torn} => Faithful(fcache[f])

RunFaithful ==
  pc # "idle" =>
    /\ "entries" \in DOMAIN run /\ DOMAIN run.entries = Folders
    /\ \A f \in Folders : run.entries[f] # NoFile => Faithful(run.entries[f])
    /\ pc \in {"list", "check", "scan"} =>
         "srcs" \in DOMAIN run /\ run.srcs \subseteq Folders

\* The CSV that a run is between reading twice is still what it first read,
\* or it is gone.
ReadStable ==
  pc = "compile" =>
    /\ {"todo", "reading", "tagged", "declared"} \subseteq DOMAIN run
    /\ run.declared \subseteq Folders
    /\ run.reading # NoFile =>
         /\ run.reading.folder \in Folders
         /\ csv[run.reading.folder] \in {run.reading.rows, NoFile}

IInv == CsvOK /\ CacheFaithful /\ RunFaithful /\ ReadStable

\* The rows of a CSV are ids.
LEMMA CsvRowsAreIds == \A f \in Folders : CsvRows[f] \subseteq Ids
BY DEF Ids

\* A new vault has an empty cache and no run.
LEMMA InitIInv == Init => IInv
BY CsvRowsAreIds DEF Init, CsvOK, IInv, CacheFaithful, RunFaithful, ReadStable, NoEntry

\* An edit touches neither the cache nor the memory of the run, and does not
\* replace a CSV that the run is between reading twice.
LEMMA EnvironmentIInv ==
  ASSUME StableReads, IInv, Environment
  PROVE  IInv'
<1> USE DEF IInv
<1>1. UNCHANGED <<fcache, pc, run>>
  BY DEF Environment, EditCsv, DropCsv, EditManual, Clobber, EditRules, EditScript,
         DropScript, EditPrices, Ignore, Unignore, Edit
<1>2. CacheFaithful' /\ RunFaithful' BY <1>1 DEF CacheFaithful, RunFaithful, Faithful
<1>3. ASSUME NEW f \in Folders, EditCsv(f) PROVE CsvOK' /\ ReadStable'
  <2>1. ~MidTransform(f) BY <1>3 DEF EditCsv, StableReads
  <2>2. \A g \in Folders \ {f} : csv'[g] = csv[g] BY <1>3 DEF EditCsv, CsvOK
  <2>3. CsvOK' BY <1>3, CsvRowsAreIds DEF EditCsv, CsvOK
  <2> QED BY <1>1, <2>1, <2>2, <2>3 DEF ReadStable, MidTransform
<1>4. ASSUME NEW f \in Folders, DropCsv(f) PROVE CsvOK' /\ ReadStable'
  <2>1. csv' = [csv EXCEPT ![f] = NoFile] BY <1>4 DEF DropCsv
  <2>2. CsvOK' /\ \A g \in Folders : csv'[g] \in {csv[g], NoFile} BY <2>1 DEF CsvOK
  <2> QED BY <1>1, <2>2 DEF ReadStable
<1>5. csv' = csv => CsvOK' /\ ReadStable' BY <1>1 DEF CsvOK, ReadStable
<1>6. \/ \E f \in Folders : EditCsv(f) \/ DropCsv(f)
      \/ csv' = csv
  BY DEF Environment, EditManual, Clobber, EditRules, EditScript, DropScript,
         EditPrices, Ignore, Unignore, Edit
<1> QED BY <1>2, <1>3, <1>4, <1>5, <1>6

\* A run starts with the entries it can read.
LEMMA BeginIInv ==
  ASSUME IInv, NEW kind, NEW hint, Begin(kind, hint)
  PROVE  IInv'
<1>1. /\ pc' = "list" /\ run'.entries = LoadedEntries(hint) /\ run'.srcs = SourceFolders
      /\ {"entries", "srcs"} \subseteq DOMAIN run'
      /\ UNCHANGED <<csv, fcache>>
  BY DEF Begin, sources, disk
<1>2. DOMAIN LoadedEntries(hint) = Folders BY DEF LoadedEntries
<1>3. ASSUME NEW f \in Folders, LoadedEntries(hint)[f] # NoFile
      PROVE  Faithful(LoadedEntries(hint)[f])
  <2>1. fcache[f] \notin {NoFile, Torn} /\ LoadedEntries(hint)[f] = fcache[f]
    BY <1>3 DEF LoadedEntries
  <2> QED BY <2>1 DEF IInv, CacheFaithful
<1>4. SourceFolders \subseteq Folders BY DEF SourceFolders
<1>5. RunFaithful' BY <1>1, <1>2, <1>3, <1>4 DEF RunFaithful, Faithful
<1> QED BY <1>1, <1>5 DEF IInv, CsvOK, CacheFaithful, ReadStable, Faithful

\* The end of a run leaves the cache as it is.
LEMMA EndIInv ==
  ASSUME IInv, pc' = "idle", UNCHANGED <<csv, fcache>>
  PROVE  IInv'
BY DEF IInv, CsvOK, CacheFaithful, RunFaithful, ReadStable, Faithful

\* The fingerprint and the list of CSVs are added to the memory of the run.
LEMMA ScanIInv ==
  ASSUME IInv, Fingerprint \/ Scan
  PROVE  IInv'
<1>1. /\ pc \in {"list", "check"} /\ pc' \in {"check", "scan"} /\ UNCHANGED <<csv, fcache>>
  BY DEF Fingerprint, Scan, sources, disk
<1>2. /\ DOMAIN run' = DOMAIN run
      /\ run'.entries = run.entries /\ run'.srcs = run.srcs
  BY <1>1 DEF Fingerprint, Scan, IInv, RunFaithful
<1> QED BY <1>1, <1>2 DEF IInv, CsvOK, CacheFaithful, RunFaithful, ReadStable, Faithful

\* Planning carries the entries over.
LEMMA PlanIInv ==
  ASSUME IInv, Plan
  PROVE  IInv'
<1>1. /\ pc = "scan" /\ pc' = "compile" /\ UNCHANGED <<csv, fcache>>
      /\ run'.entries = run.entries /\ run'.declared = run.srcs /\ run'.reading = NoFile
      /\ {"entries", "todo", "reading", "tagged", "declared"} \subseteq DOMAIN run'
  BY DEF Plan, sources, disk
<1> QED BY <1>1 DEF IInv, CsvOK, CacheFaithful, RunFaithful, ReadStable, Faithful

\* The first read: a hit leaves the entry, a miss remembers what was read.
LEMMA HashIInv ==
  ASSUME IInv, NEW f \in Folders, Hash(f)
  PROVE  IInv'
<1>1. CASE Fail BY <1>1, EndIInv DEF Fail, sources, disk
<1>2. CASE ~Fail
  <2>1. /\ pc = "compile" /\ pc' = pc /\ UNCHANGED <<csv, fcache>>
        /\ csv[f] # NoFile
    BY <1>2 DEF Hash, sources, disk
  <2>2. /\ DOMAIN run' = DOMAIN run
        /\ run'.entries = run.entries /\ run'.declared = run.declared
        /\ \/ run'.reading = NoFile
           \/ run'.reading = [folder |-> f, rows |-> csv[f], chain |-> Chain(f)]
    BY <1>2, <2>1 DEF Hash, IInv, RunFaithful, ReadStable
  <2> QED BY <2>1, <2>2 DEF IInv, CsvOK, CacheFaithful, RunFaithful, ReadStable, Faithful
<1> QED BY <1>1, <1>2

\* The second read: the new entry is filed under what the first one saw.
LEMMA TransformIInv ==
  ASSUME IInv, Transform
  PROVE  IInv'
<1> DEFINE f == run.reading.folder
           txns == Transformed(csv[f], run.reading.chain, run.declared)
           entry == [rows |-> run.reading.rows, chain |-> run.reading.chain, txns |-> txns]
<1>1. CASE Fail BY <1>1, EndIInv DEF Fail, sources, disk
<1>2. CASE ~Fail
  <2>1. /\ pc = "compile" /\ pc' = pc /\ UNCHANGED <<csv, fcache>>
        /\ f \in Folders /\ csv[f] = run.reading.rows /\ csv[f] \subseteq Ids /\ run.declared \subseteq Folders
    BY <1>2 DEF Transform, sources, disk, IInv, CsvOK, ReadStable
  <2>2. Faithful(entry) BY <2>1 DEF Faithful
  <2>3. run' = [run EXCEPT !.reading = NoFile, !.entries[f] = entry, !.tagged[f] = txns]
    BY <1>2 DEF Transform
  <2>4. /\ DOMAIN run' = DOMAIN run
        /\ run'.entries = [run.entries EXCEPT ![f] = entry]
        /\ run'.declared = run.declared /\ run'.reading = NoFile
    BY <2>1, <2>3 DEF IInv, RunFaithful, ReadStable
  <2>5. \A g \in Folders : run'.entries[g] # NoFile => Faithful(run'.entries[g])
    BY <2>1, <2>2, <2>4 DEF IInv, RunFaithful
  <2> HIDE DEF f, txns, entry
  <2> QED BY <2>1, <2>4, <2>5 DEF IInv, CsvOK, CacheFaithful, RunFaithful, ReadStable, Faithful
<1> QED BY <1>1, <1>2

\* Merging keeps the entries of the files that are there, and writing and
\* pruning ledgers concern the cache not at all.
LEMMA LedgersIInv ==
  ASSUME IInv, Merge \/ (\E f \in Folders : WriteLedger(f)) \/ PruneOutputs
  PROVE  IInv'
<1> USE DEF IInv, CsvOK, CacheFaithful, RunFaithful, ReadStable
<1>1. ASSUME Merge PROVE IInv'
  <2>1. /\ pc = "compile" /\ pc' = "write" /\ UNCHANGED <<csv, fcache>>
        /\ "entries" \in DOMAIN run'
        /\ run'.entries = [f \in Folders |-> IF f \in run.csvs THEN run.entries[f] ELSE NoFile]
    BY <1>1 DEF Merge, sources, disk
  <2> QED BY <2>1 DEF Faithful
<1>2. ASSUME NEW f \in Folders, WriteLedger(f) PROVE IInv'
  <2>1. pc = "write" /\ pc' = pc /\ UNCHANGED <<csv, fcache>> BY <1>2 DEF WriteLedger, sources
  <2>2. DOMAIN run' = DOMAIN run /\ run'.entries = run.entries BY <1>2, <2>1 DEF WriteLedger
  <2> QED BY <2>1, <2>2 DEF Faithful
<1>3. ASSUME PruneOutputs PROVE IInv'
  <2>1. pc = "write" /\ pc' = "manifest" /\ UNCHANGED <<csv, fcache>>
    BY <1>3 DEF PruneOutputs, sources
  <2>2. DOMAIN run' = DOMAIN run /\ run'.entries = run.entries BY <1>3, <2>1 DEF PruneOutputs
  <2> QED BY <2>1, <2>2 DEF Faithful
<1> QED BY <1>1, <1>2, <1>3

\* save_cache writes the entries of the run and removes whole files.
LEMMA SaveIInv ==
  ASSUME IInv, SaveManifest \/ (\E f \in Folders : SaveFolderCache(f)) \/ PruneFolderCaches
  PROVE  IInv'
<1> USE DEF IInv, CsvOK, CacheFaithful, RunFaithful, ReadStable
<1>1. ASSUME SaveManifest PROVE IInv'
  <2>1. pc = "manifest" /\ pc' = "fcache" /\ UNCHANGED <<csv, fcache>>
    BY <1>1 DEF SaveManifest, sources
  <2>2. DOMAIN run' = DOMAIN run /\ run'.entries = run.entries BY <1>1, <2>1 DEF SaveManifest
  <2> QED BY <2>1, <2>2 DEF Faithful
<1>2. ASSUME NEW f \in Folders, SaveFolderCache(f) PROVE IInv'
  <2>1. pc = "fcache" /\ pc' = pc /\ csv' = csv BY <1>2 DEF SaveFolderCache, sources
  <2>2. DOMAIN run' = DOMAIN run /\ run'.entries = run.entries BY <1>2, <2>1 DEF SaveFolderCache
  <2>3. fcache' = [fcache EXCEPT ![f] = run.entries[f]] BY <1>2 DEF SaveFolderCache
  <2>4. CacheFaithful' BY <2>1, <2>3 DEF Faithful
  <2> QED BY <2>1, <2>2, <2>4 DEF Faithful
<1>3. ASSUME PruneFolderCaches PROVE IInv'
  <2>1. pc = "fcache" /\ pc' = "meta" /\ run' = run /\ csv' = csv
    BY <1>3 DEF PruneFolderCaches, sources
  <2>2. DOMAIN fcache' = Folders /\ \A f \in Folders : fcache'[f] \in {fcache[f], NoFile}
    BY <1>3 DEF PruneFolderCaches
  <2> QED BY <2>1, <2>2 DEF Faithful
<1> QED BY <1>1, <1>2, <1>3

\* A crash leaves every folder cache file as it was, or torn.
LEMMA CrashIInv ==
  ASSUME IInv, Crash
  PROVE  IInv'
<1>1. pc' = "idle" /\ csv' = csv BY DEF Crash, sources
<1>2. DOMAIN fcache' = Folders /\ \A f \in Folders : fcache'[f] \in {fcache[f], Torn}
  BY DEF Crash, disk, IInv, CacheFaithful
<1> QED BY <1>1, <1>2 DEF IInv, CsvOK, CacheFaithful, RunFaithful, ReadStable, Faithful

\* Every step keeps the invariant.
LEMMA NextIInv == StableReads /\ IInv /\ [Next]_vars => IInv'
<1> SUFFICES ASSUME StableReads, IInv, [Next]_vars PROVE IInv' OBVIOUS
<1>1. CASE Environment BY <1>1, EnvironmentIInv
<1>2. CASE RunStep
  <2>1. CASE EarlyExit \/ SaveMeta
    BY <2>1, EndIInv DEF EarlyExit, SaveMeta, sources, disk
  <2>2. CASE Plan BY <2>2, PlanIInv
  <2>7. CASE Fingerprint \/ Scan BY <2>7, ScanIInv
  <2>3. ASSUME NEW f \in Folders, Hash(f) PROVE IInv' BY <2>3, HashIInv
  <2>4. CASE Transform BY <2>4, TransformIInv
  <2>5. CASE Merge \/ (\E f \in Folders : WriteLedger(f)) \/ PruneOutputs
    BY <2>5, LedgersIInv
  <2>6. CASE SaveManifest \/ (\E f \in Folders : SaveFolderCache(f)) \/ PruneFolderCaches
    BY <2>6, SaveIInv
  <2> QED BY <1>2, <2>1, <2>2, <2>3, <2>4, <2>5, <2>6, <2>7 DEF RunStep
<1>3. CASE Crash BY <1>3, CrashIInv
<1>4. CASE BeginFull \/ BeginForce \/ \E f \in SourceFolders : BeginHint(f)
  BY <1>4, BeginIInv DEF BeginFull, BeginForce, BeginHint
<1>5. CASE UNCHANGED vars
  BY <1>5 DEF IInv, CsvOK, CacheFaithful, RunFaithful, ReadStable, Faithful, vars, sources, disk
<1> QED BY <1>1, <1>2, <1>3, <1>4, <1>5 DEF Next

\* Whatever is edited while a run is under way, and wherever it is cut short,
\* every entry of the build cache holds what the rows and the chain it is
\* filed under compile to, so lookup() may hand it to a later run.
THEOREM EntriesSound ==
  ASSUME StableReads, NoMention
  PROVE  Spec => []EntrySound
<1>1. IInv => EntrySound
  <2> SUFFICES ASSUME IInv, NEW f \in Folders, fcache[f] \notin {NoFile, Torn}
               PROVE  fcache[f].txns = Transformed(fcache[f].rows, fcache[f].chain, SourceFolders)
    BY DEF EntrySound
  <2>1. PICK D \in SUBSET Folders :
          fcache[f].txns = Transformed(fcache[f].rows, fcache[f].chain, D)
    BY DEF IInv, CacheFaithful, Faithful
  <2>2. fcache[f].rows \in SUBSET Ids BY DEF IInv, CacheFaithful, Faithful
  <2> QED BY <2>1, <2>2, DeclaredIrrelevant
<1>2. IInv /\ [Next]_vars => IInv' BY NextIInv
<1> QED BY <1>1, <1>2, InitIInv, PTL DEF Spec

-----------------------------------------------------------------------------
(* Bags of transactions.                                                   *)

\* Transactions with ids among ids, no id twice.
Distinct(B, ids) ==
  \A t \in DOMAIN B :
    /\ B[t] = 1 /\ "id" \in DOMAIN t /\ t.id \in ids
    /\ \A u \in DOMAIN B : u.id = t.id => u = t

\* The sum over one row is its count (the fold of the community modules, expanded once).
LEMMA SumOne ==
  ASSUME NEW B, NEW u, B[u] \in Nat
  PROVE MapThenSumSet(LAMBDA x : B[x], {u}) = B[u]
<1> DEFINE iter == CHOOSE g : g = [s \in SUBSET {u} |->
         IF s = {} THEN 0
         ELSE LET x == CHOOSE x \in s : TRUE IN B[x] + g[s \ {x}]]
<1> DEFINE h == [s \in SUBSET {u} |-> IF s = {} THEN 0 ELSE B[u] + 0]
<1>1. h = [s \in SUBSET {u} |->
         IF s = {} THEN 0
         ELSE LET x == CHOOSE x \in s : TRUE IN B[x] + h[s \ {x}]]
  OBVIOUS
<1>2. iter = [s \in SUBSET {u} |->
         IF s = {} THEN 0
         ELSE LET x == CHOOSE x \in s : TRUE IN B[x] + iter[s \ {x}]]
  <2> HIDE DEF h
  <2>1. \E g : g = [s \in SUBSET {u} |->
         IF s = {} THEN 0
         ELSE LET x == CHOOSE x \in s : TRUE IN B[x] + g[s \ {x}]]
     BY <1>1
  <2> QED BY <2>1
<1>3. iter[{u}] = B[u]
  <2> HIDE DEF iter
  <2>1. (CHOOSE x \in {u} : TRUE) = u
    OBVIOUS
  <2>2. iter[{}] = 0
    BY <1>2
  <2>3. {u} \in SUBSET {u} /\ {u} # {} /\ {u} \ {u} = {}
    OBVIOUS
  <2>4. iter[{u}] = B[u] + iter[{}]
    BY <1>2, <2>1, <2>3
  <2> QED BY <2>2, <2>4
<1>4. MapThenSumSet(LAMBDA x : B[x], {u}) = iter[{u}]
  BY DEF MapThenSumSet, MapThenFoldSet
<1> QED BY <1>3, <1>4

\* Linking keeps the id.
LEMMA LinkedId ==
  ASSUME NEW tg, NEW t, NEW p, "id" \in DOMAIN t
  PROVE  "id" \in DOMAIN LinkedTxn(tg, t, p) /\ LinkedTxn(tg, t, p).id = t.id
BY DEF LinkedTxn

\* Linking maps rows one to one.
LEMMA LinkedBag ==
  ASSUME NEW tg, NEW p, NEW f \in Folders, NEW ids, Distinct(tg[f], ids)
  PROVE  AutoLinked(tg, p)[f] = SetToBag({LinkedTxn(tg, t, p) : t \in DOMAIN tg[f]})
<1> DEFINE B == tg[f]
           L(t) == LinkedTxn(tg, t, p)
           C == AutoLinked(tg, p)[f]
           S == {L(t) : t \in DOMAIN B}
<1>1. C = [t \in S |-> MapThenSumSet(LAMBDA u : B[u], {u \in DOMAIN B : L(u) = t})]
  BY DEF AutoLinked, ImageBag
<1>2. \A u \in DOMAIN B : B[u] = 1 /\ L(u).id = u.id
  BY LinkedId DEF Distinct
<1>3. \A u, v \in DOMAIN B : L(u).id = L(v).id => u = v
  BY <1>2 DEF Distinct
<1>4. ASSUME NEW t \in S PROVE C[t] = 1
  <2>1. PICK u \in DOMAIN B : t = L(u)
    BY <1>4
  <2> HIDE DEF L, B
  <2>2. {v \in DOMAIN B : L(v) = t} = {u}
    BY <1>3, <2>1
  <2>3. MapThenSumSet(LAMBDA v : B[v], {u}) = 1
    <3>1. B[u] = 1 /\ B[u] \in Nat
      BY <1>2
    <3>2. MapThenSumSet(LAMBDA v : B[v], {u}) = B[u]
      BY <3>1, SumOne
    <3> QED BY <3>1, <3>2
  <2>4. C[t] = MapThenSumSet(LAMBDA v : B[v], {v \in DOMAIN B : L(v) = t})
    BY <1>1, <1>4
  <2> QED BY <2>2, <2>3, <2>4
<1>5. DOMAIN C = S /\ C = [t \in S |-> C[t]]
  <2> HIDE DEF S
  <2> QED BY <1>1
<1>6. C = SetToBag(S)
  <2> HIDE DEF S, C
  <2> QED BY <1>4, <1>5 DEF SetToBag
<1> QED BY <1>6

\* So it leaves no id twice.
LEMMA LinkedDistinct ==
  ASSUME NEW tg, NEW p, NEW f \in Folders, NEW ids, Distinct(tg[f], ids)
  PROVE  Distinct(AutoLinked(tg, p)[f], ids)
<1> DEFINE L(t) == LinkedTxn(tg, t, p)
           S == {L(t) : t \in DOMAIN tg[f]}
<1>1. AutoLinked(tg, p)[f] = [t \in S |-> 1]
  BY LinkedBag DEF SetToBag
<1>2. \A u \in DOMAIN tg[f] : "id" \in DOMAIN L(u) /\ L(u).id = u.id /\ u.id \in ids
  BY LinkedId DEF Distinct
<1>3. \A u, v \in DOMAIN tg[f] : u.id = v.id => u = v
  BY DEF Distinct
<1> HIDE DEF L
<1>4. \A t \in S : \E u \in DOMAIN tg[f] : t = L(u)
  OBVIOUS
<1>5. \A t \in S : "id" \in DOMAIN t /\ t.id \in ids /\ \A v \in S : v.id = t.id => v = t
  <2> HIDE DEF S
  <2> QED BY <1>2, <1>3, <1>4
<1> HIDE DEF S
<1> QED BY <1>1, <1>5 DEF Distinct

\* A CSV compiles to one row of each id.
LEMMA TransformedDistinct ==
  ASSUME NEW rows, NEW chain, NEW D
  PROVE  Distinct(Transformed(rows, chain, D), rows)
BY DEF Transformed, SetToBag, Distinct, Plain

\* So does a manual file.
LEMMA ManualDistinct ==
  ASSUME NEW f \in Folders, manual[f] # NoFile => manual[f] \subseteq ManualIds[f]
  PROVE  Distinct(ManualTxns(f), ManualIds[f])
<1>1. CASE manual[f] = NoFile
  BY <1>1 DEF ManualTxns, SetToBag, EmptyBag, Distinct
<1>2. CASE manual[f] # NoFile
  <2> DEFINE P(m) == Plain(m, <<RulesChain(f), FALSE>>)
             S == {P(m) : m \in manual[f]}
  <2>1. ManualTxns(f) = [t \in S |-> 1]
    BY <1>2 DEF ManualTxns, SetToBag
  <2>2. manual[f] \subseteq ManualIds[f]
    BY <1>2
  <2>3. \A t \in S : "id" \in DOMAIN t /\ t.id \in manual[f] /\ t = P(t.id)
    <3>1. \A m : "id" \in DOMAIN P(m) /\ P(m).id = m
      BY DEF Plain
    <3> HIDE DEF P
    <3> QED BY <3>1
  <2> HIDE DEF S, P
  <2> QED BY <2>1, <2>2, <2>3 DEF Distinct
<1> QED BY <1>1, <1>2

\* Adding rows of other ids leaves no id twice.
LEMMA SumDistinct ==
  ASSUME NEW A, NEW B, NEW I, NEW J, Distinct(A, I), Distinct(B, J), I \cap J = {}
  PROVE  Distinct(A (+) B, I \cup J)
BY DEF Distinct, (+)

\* Nor does adding nothing.
LEMMA EmptySum ==
  ASSUME NEW A, NEW I, Distinct(A, I)
  PROVE  Distinct(A (+) EmptyBag, I)
BY DEF Distinct, (+), EmptyBag, SetToBag

\* Nor does hiding.
LEMMA HidingDistinct ==
  ASSUME NEW B, NEW I, NEW hidden, Distinct(B, I)
  PROVE  Distinct(WithoutIgnored(B, hidden), I)
BY DEF Distinct, WithoutIgnored, OnlyWhere

-----------------------------------------------------------------------------
(* The inductive invariant.                                                *)

\* The entries of a manual file have ids of their own, made of their place in it
\* (the ids of CSV rows are hashes).
OwnIds == \A f \in Folders : CsvRows[f] \cap ManualIds[f] = {}

IdsOf(f) == CsvRows[f] \cup ManualIds[f]

\* A file holds rows of its folder.
FilesOK ==
  \A f \in Folders :
    /\ csv[f] # NoFile => csv[f] \subseteq CsvRows[f]
    /\ manual[f] # NoFile => manual[f] \subseteq ManualIds[f]

\* What was read of the ledgers and entries on disk, and what is written there.
DiskDistinct ==
  /\ DOMAIN gen = Folders /\ DOMAIN csv = Folders /\ DOMAIN manual = Folders /\ DOMAIN fcache = Folders
  /\ \A f \in Folders : gen[f] \notin {NoFile, Torn} => Distinct(gen[f], IdsOf(f))
  /\ \A f \in Folders : fcache[f] \notin {NoFile, Torn} => Distinct(fcache[f].txns, CsvRows[f])
  /\ manifest \notin {NoFile, Torn} =>
       /\ "outs" \in DOMAIN manifest
       /\ DOMAIN manifest.outs = Folders
       /\ \A f \in Folders : manifest.outs[f] # NoFile => Distinct(manifest.outs[f], IdsOf(f))

\* The same of the cache in the memory of a run.
RunDistinct ==
  pc # "idle" =>
    /\ {"cached", "entries"} \subseteq DOMAIN run
    /\ "outs" \in DOMAIN run.cached /\ DOMAIN run.cached.outs = Folders /\ DOMAIN run.entries = Folders
    /\ \A f \in Folders : run.cached.outs[f] # NoFile => Distinct(run.cached.outs[f], IdsOf(f))
    /\ \A f \in Folders : run.entries[f] # NoFile => Distinct(run.entries[f].txns, CsvRows[f])

\* What a run has in hand holds manual entries only where it was loaded from a
\* ledger, and those folders are not compiled.
InHandDistinct ==
  pc = "compile" =>
    /\ {"tagged", "todo", "reading", "intact"} \subseteq DOMAIN run /\ DOMAIN run.tagged = Folders
    /\ run.todo \cap run.intact = {}
    /\ run.reading # NoFile => run.reading.folder \in Folders \ run.intact
    /\ \A f \in Folders :
         Distinct(run.tagged[f], IF f \in run.intact THEN IdsOf(f) ELSE CsvRows[f])

LedgersDistinct ==
  pc = "write" =>
    /\ {"tagged", "todo"} \subseteq DOMAIN run
    /\ \A f \in Folders : Distinct(run.tagged[f], IdsOf(f))

DInv == FilesOK /\ DiskDistinct /\ RunDistinct /\ InHandDistinct /\ LedgersDistinct

-----------------------------------------------------------------------------
(* Its steps.                                                              *)

\* A new vault has no ledger.
LEMMA InitDistinct == Init => DInv
<1> SUFFICES ASSUME Init PROVE DInv
  OBVIOUS
<1>1. FilesOK /\ DOMAIN csv = Folders /\ DOMAIN manual = Folders
  BY DEF Init, FilesOK
<1>2. /\ DOMAIN gen = Folders /\ \A f \in Folders : gen[f] = NoFile
      /\ DOMAIN fcache = Folders /\ \A f \in Folders : fcache[f] = NoFile
      /\ manifest = NoFile /\ pc = "idle"
  BY DEF Init, NoEntry
<1> QED BY <1>1, <1>2 DEF DInv, DiskDistinct, RunDistinct, InHandDistinct, LedgersDistinct

\* An edit leaves rows of the folder in a file, a clobbered ledger is no ledger.
LEMMA EnvironmentDistinct ==
  ASSUME DInv, Environment
  PROVE  DInv'
<1>1. UNCHANGED <<manifest, fcache, pc, run>>
  BY DEF Environment, EditCsv, DropCsv, EditManual, Clobber, EditRules, EditScript,
         DropScript, EditPrices, Ignore, Unignore, Edit
<1>2. /\ DOMAIN csv' = Folders
      /\ \A f \in Folders : csv'[f] = csv[f] \/ csv'[f] = NoFile \/ csv'[f] \subseteq CsvRows[f]
  <2>1. \/ \E f \in Folders : EditCsv(f) \/ DropCsv(f)
        \/ csv' = csv
    BY DEF Environment, EditManual, Clobber, EditRules, EditScript, DropScript,
           EditPrices, Ignore, Unignore, Edit
  <2> QED BY <2>1 DEF EditCsv, DropCsv, DInv, DiskDistinct
<1>3. /\ DOMAIN manual' = Folders
      /\ \A f \in Folders : manual'[f] = manual[f] \/ manual'[f] \subseteq ManualIds[f]
  <2>1. \/ \E f \in Folders : EditManual(f)
        \/ manual' = manual
    BY DEF Environment, EditCsv, DropCsv, Clobber, EditRules, EditScript, DropScript,
           EditPrices, Ignore, Unignore, Edit
  <2> QED BY <2>1 DEF EditManual, DInv, DiskDistinct
<1>4. DOMAIN gen' = Folders /\ \A f \in Folders : gen'[f] \in {gen[f], NoFile, Torn}
  <2>1. \/ \E f \in Folders : Clobber(f)
        \/ gen' = gen
    BY DEF Environment, EditCsv, DropCsv, EditManual, EditRules, EditScript, DropScript,
           EditPrices, Ignore, Unignore, Edit
  <2> QED BY <2>1 DEF Clobber, DInv, DiskDistinct
<1>5. FilesOK'
  BY <1>2, <1>3 DEF DInv, FilesOK
<1>6. DiskDistinct'
  BY <1>1, <1>2, <1>3, <1>4 DEF DInv, DiskDistinct
<1>7. RunDistinct'
  BY <1>1 DEF DInv, RunDistinct
<1>8. InHandDistinct' /\ LedgersDistinct'
  BY <1>1 DEF DInv, InHandDistinct, LedgersDistinct
<1> QED BY <1>5, <1>6, <1>7, <1>8 DEF DInv

\* A run starts with the entries and the outputs it can read.
LEMMA BeginDistinct ==
  ASSUME DInv, NEW kind, NEW hint, Begin(kind, hint)
  PROVE  DInv'
<1>1. /\ pc' = "list" /\ {"cached", "entries"} \subseteq DOMAIN run'
      /\ run'.cached = LoadedManifest /\ run'.entries = LoadedEntries(hint)
      /\ UNCHANGED <<csv, manual, gen, fcache, manifest>>
  BY DEF Begin, sources, disk
<1>2. /\ "outs" \in DOMAIN LoadedManifest /\ DOMAIN LoadedManifest.outs = Folders
      /\ \A f \in Folders : LoadedManifest.outs[f] # NoFile => Distinct(LoadedManifest.outs[f], IdsOf(f))
  BY DEF LoadedManifest, EmptyManifest, NoEntry, DInv, DiskDistinct
<1>3. DOMAIN LoadedEntries(hint) = Folders
  BY DEF LoadedEntries
<1>4. ASSUME NEW f \in Folders, LoadedEntries(hint)[f] # NoFile
      PROVE  Distinct(LoadedEntries(hint)[f].txns, CsvRows[f])
  <2>1. fcache[f] \notin {NoFile, Torn} /\ LoadedEntries(hint)[f] = fcache[f]
    BY <1>4 DEF LoadedEntries
  <2> QED BY <2>1 DEF DInv, DiskDistinct
<1>5. RunDistinct'
  BY <1>1, <1>2, <1>3, <1>4 DEF RunDistinct
<1> QED BY <1>1, <1>5 DEF DInv, FilesOK, DiskDistinct, InHandDistinct, LedgersDistinct

\* The end of a run that wrote nothing.
LEMMA EndDistinct ==
  ASSUME DInv, pc' = "idle", UNCHANGED <<sources, gen, manifest, fcache>>
  PROVE  DInv'
BY DEF DInv, FilesOK, DiskDistinct, RunDistinct, InHandDistinct, LedgersDistinct, sources

\* Listing and fingerprinting change neither the disk nor what was read of it.
LEMMA ScanDistinct ==
  ASSUME DInv, Fingerprint \/ Scan
  PROVE  DInv'
<1>1. /\ pc \in {"list", "check"} /\ pc' \in {"check", "scan"}
      /\ UNCHANGED <<csv, manual, gen, fcache, manifest>>
  BY DEF Fingerprint, Scan, sources, disk
<1>2. DOMAIN run' = DOMAIN run /\ run'.entries = run.entries /\ run'.cached = run.cached
  BY <1>1 DEF Fingerprint, Scan, DInv, RunDistinct
<1> QED BY <1>1, <1>2 DEF DInv, FilesOK, DiskDistinct, RunDistinct, InHandDistinct, LedgersDistinct

\* Where the ledger is as it was written its rows are taken from it, manual ones
\* included, otherwise those of the cached entry.
LEMMA PlanDistinct ==
  ASSUME DInv, Plan
  PROVE  DInv'
<1> DEFINE unchanged == Unchanged(RunFps)
           intact == {f \in {f \in unchanged : InScope(f)} : Intact(f)}
<1>1. /\ pc = "scan" /\ pc' = "compile" /\ UNCHANGED <<csv, manual, gen, fcache, manifest>>
      /\ {"cached", "entries", "tagged", "todo", "reading", "intact"} \subseteq DOMAIN run'
      /\ run'.entries = run.entries /\ run'.cached = run.cached /\ run'.reading = NoFile
      /\ run'.intact = intact
      /\ run'.todo = run.csvs \ unchanged
      /\ run'.tagged = [f \in Folders |-> Loaded(f, unchanged)]
  BY DEF Plan, sources, disk
<1>2. ASSUME NEW f \in Folders
      PROVE  Distinct(Loaded(f, unchanged), IF f \in intact THEN IdsOf(f) ELSE CsvRows[f])
  <2> HIDE DEF unchanged
  <2>1. CASE f \in unchanged /\ InScope(f) /\ Intact(f)
    BY <1>1, <2>1 DEF Loaded, Intact, DInv, RunDistinct
  <2>2. CASE f \in unchanged /\ InScope(f) /\ ~Intact(f) /\ run.entries[f] # NoFile
    BY <1>1, <2>2 DEF Loaded, DInv, RunDistinct
  <2>3. CASE ~(f \in unchanged /\ InScope(f)) \/ (~Intact(f) /\ run.entries[f] = NoFile)
    <3>1. Loaded(f, unchanged) = EmptyBag
      BY <2>3 DEF Loaded
    <3> QED BY <3>1 DEF Distinct, EmptyBag, SetToBag
  <2> QED BY <2>1, <2>2, <2>3
<1>3. run'.todo \cap run'.intact = {}
  BY <1>1
<1> HIDE DEF unchanged, intact
<1>4. InHandDistinct'
  BY <1>1, <1>2, <1>3 DEF InHandDistinct
<1>5. RunDistinct'
  BY <1>1 DEF DInv, RunDistinct
<1> QED BY <1>1, <1>4, <1>5 DEF DInv, FilesOK, DiskDistinct, LedgersDistinct

\* A hit takes the rows of the entry, a miss none.
LEMMA HashDistinct ==
  ASSUME DInv, NEW f \in Folders, Hash(f)
  PROVE  DInv'
<1>1. CASE Fail
  BY <1>1, EndDistinct DEF Fail, disk
<1>2. CASE ~Fail
  <2> DEFINE e == run.entries[f]
             hit == e # NoFile /\ e.rows = csv[f] /\ e.chain = Chain(f)
  <2>1. /\ pc = "compile" /\ pc' = pc /\ UNCHANGED <<csv, manual, gen, fcache, manifest>>
        /\ f \in run.todo
        /\ run' = [run EXCEPT
                     !.todo = @ \ {f},
                     !.reading = IF hit THEN NoFile
                                 ELSE [folder |-> f, rows |-> csv[f], chain |-> Chain(f)],
                     !.tagged[f] = IF hit THEN e.txns ELSE @]
    BY <1>2 DEF Hash, sources, disk
  <2>2. hit => e # NoFile
    OBVIOUS
  <2> HIDE DEF hit
  <2>3. /\ DOMAIN run' = DOMAIN run /\ run'.entries = run.entries /\ run'.cached = run.cached
        /\ run'.intact = run.intact /\ run'.todo = run.todo \ {f}
        /\ run'.reading = NoFile \/ run'.reading.folder = f
        /\ run'.tagged = [run.tagged EXCEPT ![f] = IF hit THEN e.txns ELSE @]
    BY <2>1 DEF DInv, RunDistinct, InHandDistinct
  <2>4. f \notin run.intact
    BY <2>1 DEF DInv, InHandDistinct
  <2>5. hit => Distinct(e.txns, CsvRows[f])
    BY <2>1, <2>2 DEF DInv, RunDistinct
  <2>6. \A g \in Folders : Distinct(run'.tagged[g], IF g \in run.intact THEN IdsOf(g) ELSE CsvRows[g])
    BY <2>1, <2>3, <2>4, <2>5 DEF DInv, InHandDistinct
  <2> HIDE DEF e
  <2>7. InHandDistinct'
    BY <2>1, <2>3, <2>4, <2>6 DEF DInv, InHandDistinct
  <2>8. RunDistinct'
    BY <2>1, <2>3 DEF DInv, RunDistinct
  <2> QED BY <2>1, <2>7, <2>8 DEF DInv, FilesOK, DiskDistinct, LedgersDistinct
<1> QED BY <1>1, <1>2

\* The rows of the CSV, as it is at the second read.
LEMMA TransformDistinct ==
  ASSUME DInv, Transform
  PROVE  DInv'
<1> DEFINE f == run.reading.folder
           txns == Transformed(csv[f], run.reading.chain, run.declared)
           entry == [rows |-> run.reading.rows, chain |-> run.reading.chain, txns |-> txns]
<1>1. CASE Fail
  BY <1>1, EndDistinct DEF Fail, disk
<1>2. CASE ~Fail
  <2>1. /\ pc = "compile" /\ pc' = pc /\ UNCHANGED <<csv, manual, gen, fcache, manifest>>
        /\ f \in Folders \ run.intact /\ csv[f] # NoFile
        /\ run' = [run EXCEPT !.reading = NoFile, !.entries[f] = entry, !.tagged[f] = txns]
    BY <1>2 DEF Transform, sources, disk, DInv, InHandDistinct
  <2>2. Distinct(txns, CsvRows[f])
    <3>1. csv[f] \subseteq CsvRows[f]
      BY <2>1 DEF DInv, FilesOK
    <3>2. Distinct(txns, csv[f])
      BY TransformedDistinct
    <3> HIDE DEF txns, f
    <3> QED BY <3>1, <3>2 DEF Distinct
  <2>3. entry.txns = txns
    OBVIOUS
  <2> HIDE DEF txns, entry, f
  <2>4. /\ DOMAIN run' = DOMAIN run /\ run'.cached = run.cached /\ run'.reading = NoFile
        /\ run'.intact = run.intact /\ run'.todo = run.todo
        /\ run'.entries = [run.entries EXCEPT ![f] = entry]
        /\ run'.tagged = [run.tagged EXCEPT ![f] = txns]
    BY <2>1 DEF DInv, RunDistinct, InHandDistinct
  <2>5. \A g \in Folders : Distinct(run'.tagged[g], IF g \in run.intact THEN IdsOf(g) ELSE CsvRows[g])
    BY <2>1, <2>2, <2>4 DEF DInv, InHandDistinct
  <2>6. \A g \in Folders : run'.entries[g] # NoFile => Distinct(run'.entries[g].txns, CsvRows[g])
    BY <2>1, <2>2, <2>3, <2>4 DEF DInv, RunDistinct
  <2>7. InHandDistinct'
    BY <2>1, <2>4, <2>5 DEF DInv, InHandDistinct
  <2>8. RunDistinct'
    BY <2>1, <2>4, <2>6 DEF DInv, RunDistinct
  <2> QED BY <2>1, <2>7, <2>8 DEF DInv, FilesOK, DiskDistinct, LedgersDistinct
<1> QED BY <1>1, <1>2

\* Manual entries are added where they are not yet.
LEMMA GatheredDistinct ==
  ASSUME OwnIds, DInv, pc = "compile", NEW f \in Folders
  PROVE  Distinct(Gathered[f], IdsOf(f))
<1> DEFINE added == IF f \in run.intact THEN EmptyBag ELSE ManualTxns(f)
<1>1. Gathered[f] = WithoutIgnored(run.tagged[f] (+) added, run.ignored)
  BY DEF Gathered
<1>2. Distinct(run.tagged[f] (+) added, IdsOf(f))
  <2>1. CASE f \in run.intact
    BY <2>1, EmptySum DEF DInv, InHandDistinct
  <2>2. CASE f \notin run.intact
    <3>1. Distinct(ManualTxns(f), ManualIds[f])
      BY ManualDistinct DEF DInv, FilesOK
    <3>2. Distinct(run.tagged[f], CsvRows[f]) /\ CsvRows[f] \cap ManualIds[f] = {}
      BY <2>2 DEF DInv, InHandDistinct, OwnIds
    <3> QED BY <2>2, <3>1, <3>2, SumDistinct DEF IdsOf
  <2> QED BY <2>1, <2>2
<1> QED BY <1>1, <1>2, HidingDistinct

\* Linking changes no id.
LEMMA MergeDistinct ==
  ASSUME OwnIds, DInv, Merge
  PROVE  DInv'
<1> DEFINE gathered == Gathered
           linked == IF TouchesTrading(gathered) THEN AutoLinked(gathered, prices) ELSE gathered
<1>1. /\ pc = "compile" /\ pc' = "write" /\ UNCHANGED <<csv, manual, gen, fcache, manifest>>
      /\ {"cached", "entries", "tagged", "todo"} \subseteq DOMAIN run'
      /\ run'.tagged = linked /\ run'.cached = run.cached
      /\ run'.entries = [f \in Folders |-> IF f \in run.csvs THEN run.entries[f] ELSE NoFile]
  BY DEF Merge, sources, disk
<1>2. \A f \in Folders : Distinct(gathered[f], IdsOf(f))
  BY <1>1, GatheredDistinct
<1>3. \A f \in Folders : Distinct(linked[f], IdsOf(f))
  <2> HIDE DEF gathered
  <2> QED BY <1>2, LinkedDistinct
<1> HIDE DEF linked
<1>4. LedgersDistinct'
  BY <1>1, <1>3 DEF LedgersDistinct
<1>5. RunDistinct'
  BY <1>1 DEF DInv, RunDistinct
<1> QED BY <1>1, <1>4, <1>5 DEF DInv, FilesOK, DiskDistinct, InHandDistinct

\* A ledger is written as it was put together, and recorded as written.
LEMMA WriteDistinct ==
  ASSUME DInv, NEW f \in Folders, WriteLedger(f)
  PROVE  DInv'
<1>1. /\ pc = "write" /\ pc' = pc /\ UNCHANGED <<csv, manual, fcache, manifest>>
      /\ gen' = [gen EXCEPT ![f] = IF MustWrite(f) THEN run.tagged[f] ELSE @]
      /\ run' = [run EXCEPT !.todo = @ \ {f}, !.cached.outs[f] = run.tagged[f]]
  BY DEF WriteLedger, sources
<1>2. /\ DOMAIN run' = DOMAIN run /\ run'.entries = run.entries /\ run'.tagged = run.tagged
      /\ DOMAIN run'.cached = DOMAIN run.cached
      /\ run'.cached.outs = [run.cached.outs EXCEPT ![f] = run.tagged[f]]
  BY <1>1 DEF DInv, RunDistinct, LedgersDistinct
<1>3. Distinct(run.tagged[f], IdsOf(f))
  BY <1>1 DEF DInv, LedgersDistinct
<1>4. DOMAIN gen' = Folders /\ \A g \in Folders : gen'[g] = gen[g] \/ (g = f /\ gen'[g] = run.tagged[f])
  BY <1>1 DEF DInv, DiskDistinct
<1>5. DiskDistinct'
  BY <1>1, <1>3, <1>4 DEF DInv, DiskDistinct
<1>6. RunDistinct'
  BY <1>1, <1>2, <1>3 DEF DInv, RunDistinct
<1>7. LedgersDistinct'
  BY <1>1, <1>2 DEF DInv, LedgersDistinct
<1> QED BY <1>1, <1>5, <1>6, <1>7 DEF DInv, FilesOK, InHandDistinct

\* Pruning only removes.
LEMMA PruneDistinct ==
  ASSUME DInv, PruneOutputs
  PROVE  DInv'
<1> DEFINE stale == {f \in Folders : run.cached.outs[f] # NoFile} \ Live
<1>1. /\ pc = "write" /\ pc' = "manifest" /\ UNCHANGED <<csv, manual, fcache, manifest>>
      /\ gen' = [f \in Folders |-> IF f \in stale THEN NoFile ELSE gen[f]]
      /\ run' = [run EXCEPT !.cached.outs = [f \in Folders |-> IF f \in stale THEN NoFile ELSE @[f]]]
  BY DEF PruneOutputs, sources
<1> HIDE DEF stale
<1>2. /\ DOMAIN run' = DOMAIN run /\ run'.entries = run.entries
      /\ DOMAIN run'.cached = DOMAIN run.cached
      /\ run'.cached.outs = [f \in Folders |-> IF f \in stale THEN NoFile ELSE run.cached.outs[f]]
  BY <1>1 DEF DInv, RunDistinct
<1>3. DiskDistinct'
  BY <1>1 DEF DInv, DiskDistinct
<1>4. RunDistinct'
  BY <1>1, <1>2 DEF DInv, RunDistinct
<1> QED BY <1>1, <1>3, <1>4 DEF DInv, FilesOK, InHandDistinct, LedgersDistinct

\* The cache is saved as it is in memory.
LEMMA SaveDistinct ==
  ASSUME DInv, SaveManifest \/ (\E f \in Folders : SaveFolderCache(f)) \/ PruneFolderCaches
  PROVE  DInv'
<1>1. ASSUME SaveManifest PROVE DInv'
  <2>1. /\ pc = "manifest" /\ pc' = "fcache" /\ UNCHANGED <<csv, manual, gen, fcache>>
        /\ manifest' = [inputs |-> run.inputs, fps |-> SavedFps, outs |-> run.cached.outs]
    BY <1>1 DEF SaveManifest, sources
  <2>2. DOMAIN run' = DOMAIN run /\ run'.entries = run.entries /\ run'.cached = run.cached
    BY <1>1, <2>1 DEF SaveManifest, DInv, RunDistinct
  <2>3. "outs" \in DOMAIN manifest' /\ manifest'.outs = run.cached.outs
    BY <2>1
  <2>4. DiskDistinct'
    BY <2>1, <2>3 DEF DInv, DiskDistinct, RunDistinct
  <2> QED BY <2>1, <2>2, <2>4 DEF DInv, FilesOK, RunDistinct, InHandDistinct, LedgersDistinct
<1>2. ASSUME NEW f \in Folders, SaveFolderCache(f) PROVE DInv'
  <2>1. /\ pc = "fcache" /\ pc' = pc /\ UNCHANGED <<csv, manual, gen, manifest>>
        /\ fcache' = [fcache EXCEPT ![f] = run.entries[f]]
    BY <1>2 DEF SaveFolderCache, sources
  <2>2. DOMAIN run' = DOMAIN run /\ run'.entries = run.entries /\ run'.cached = run.cached
    BY <1>2, <2>1 DEF SaveFolderCache, DInv, RunDistinct
  <2>3. DiskDistinct'
    BY <2>1 DEF DInv, DiskDistinct, RunDistinct
  <2> QED BY <2>1, <2>2, <2>3 DEF DInv, FilesOK, RunDistinct, InHandDistinct, LedgersDistinct
<1>3. ASSUME PruneFolderCaches PROVE DInv'
  <2>1. pc = "fcache" /\ pc' = "meta" /\ UNCHANGED <<csv, manual, gen, manifest, run>>
    BY <1>3 DEF PruneFolderCaches, sources
  <2>2. DOMAIN fcache' = Folders /\ \A f \in Folders : fcache'[f] \in {fcache[f], NoFile}
    BY <1>3 DEF PruneFolderCaches
  <2>3. DiskDistinct'
    BY <2>1, <2>2 DEF DInv, DiskDistinct
  <2> QED BY <2>1, <2>3 DEF DInv, FilesOK, RunDistinct, InHandDistinct, LedgersDistinct
<1> QED BY <1>1, <1>2, <1>3

\* A crash tears what was being written.
LEMMA CrashDistinct ==
  ASSUME DInv, Crash
  PROVE  DInv'
<1>1. pc' = "idle" /\ UNCHANGED <<csv, manual>>
  BY DEF Crash, sources
<1>2. /\ DOMAIN gen' = Folders /\ \A f \in Folders : gen'[f] \in {gen[f], Torn}
      /\ DOMAIN fcache' = Folders /\ \A f \in Folders : fcache'[f] \in {fcache[f], Torn}
      /\ manifest' \in {manifest, Torn}
  BY DEF Crash, disk, DInv, DiskDistinct
<1>3. DiskDistinct'
  BY <1>1, <1>2 DEF DInv, DiskDistinct
<1> QED BY <1>1, <1>3 DEF DInv, FilesOK, RunDistinct, InHandDistinct, LedgersDistinct

\* Every step keeps the invariant.
LEMMA NextDistinct == OwnIds /\ DInv /\ [Next]_vars => DInv'
<1> SUFFICES ASSUME OwnIds, DInv, [Next]_vars PROVE DInv'
  OBVIOUS
<1>1. CASE Environment
  BY <1>1, EnvironmentDistinct
<1>2. CASE RunStep
  <2>1. CASE EarlyExit \/ SaveMeta
    BY <2>1, EndDistinct DEF EarlyExit, SaveMeta, disk
  <2>2. CASE Plan
    BY <2>2, PlanDistinct
  <2>3. CASE Fingerprint \/ Scan
    BY <2>3, ScanDistinct
  <2>4. ASSUME NEW f \in Folders, Hash(f) PROVE DInv'
    BY <2>4, HashDistinct
  <2>5. CASE Transform
    BY <2>5, TransformDistinct
  <2>6. CASE Merge
    BY <2>6, MergeDistinct
  <2>7. ASSUME NEW f \in Folders, WriteLedger(f) PROVE DInv'
    BY <2>7, WriteDistinct
  <2>8. CASE PruneOutputs
    BY <2>8, PruneDistinct
  <2>9. CASE SaveManifest \/ (\E f \in Folders : SaveFolderCache(f)) \/ PruneFolderCaches
    BY <2>9, SaveDistinct
  <2> QED BY <1>2, <2>1, <2>2, <2>3, <2>4, <2>5, <2>6, <2>7, <2>8, <2>9 DEF RunStep
<1>3. CASE Crash
  BY <1>3, CrashDistinct
<1>4. CASE BeginFull \/ BeginForce \/ \E f \in SourceFolders : BeginHint(f)
  BY <1>4, BeginDistinct DEF BeginFull, BeginForce, BeginHint
<1>5. CASE UNCHANGED vars
  BY <1>5 DEF vars, sources, disk, DInv, FilesOK, DiskDistinct, RunDistinct, InHandDistinct, LedgersDistinct
<1> QED BY <1>1, <1>2, <1>3, <1>4, <1>5 DEF Next

-----------------------------------------------------------------------------
\* Whatever is edited, clobbered, cut short or stale, no ledger counts a row
\* twice: manual entries are never added to rows that hold them already, and
\* linking never makes two rows one (1810-1817, 1954-1990).
THEOREM NoRowTwiceSafe ==
  ASSUME OwnIds
  PROVE  Spec => []NoRowTwice
<1>1. DInv => NoRowTwice
  BY DEF DInv, DiskDistinct, NoRowTwice, Distinct
<1>2. DInv /\ [Next]_vars => DInv'
  BY NextDistinct
<1> QED BY <1>1, <1>2, InitDistinct, PTL DEF Spec

-----------------------------------------------------------------------------
(* Rows that are hidden (_ignored.txt).                                    *)

\* A run that has the list of ignored rows as it is: nothing was edited since it
\* began, or since it took the fingerprint of everything.
SeesAll == run.began = clock \/ run.inputs = stamp

\* The ledger of a folder, where there is one that can be read, shows no ignored row.
Hides(B) == \A t \in DOMAIN B : t.id \notin ignored
Hidden(f) == gen[f] \in {NoFile, Torn} \/ Hides(gen[f])

Moments == 0..clock
BeforeMerge == {"list", "check", "scan", "compile"}
BeforeSave == BeforeMerge \cup {"write", "manifest"}

\* Every edit is seen by the time it left on the file, and no run is cut short.
Steady == "racy" \notin Env /\ MaxCrash = 0

\* An absent value is no fingerprint, and a manifest is there and can be read.
Sentinels ==
  /\ NoFile \notin [Files -> Nat]
  /\ \A i, fps, outs : [inputs |-> i, fps |-> fps, outs |-> outs] \notin {NoFile, Torn}

\* A fingerprint is of the past, and what was saved is older than the run.
TimesOK ==
  /\ clock \in Nat /\ crashes \in Nat /\ stamp \in [Files -> Moments]
  /\ LoadedManifest.inputs # NoFile => LoadedManifest.inputs \in [Files -> Moments]
  /\ DOMAIN LoadedManifest = {"inputs", "fps", "outs"}
  /\ pc # "idle" =>
       /\ {"kind", "began", "srcs", "inputs", "cached"} \subseteq DOMAIN run
       /\ pc \in {"list", "check", "scan"} => "csvs" \in DOMAIN run
       /\ run.kind \in {"full", "force", "hint"}
       /\ run.began \in Moments
       /\ run.began = clock \/ \E x \in Files : stamp[x] > run.began
       /\ run.inputs # NoFile => run.inputs \in [Files -> Moments]
       /\ pc = "list" \/ run.kind = "hint" => run.inputs = NoFile
       /\ pc # "list" /\ run.kind # "hint" /\ run.began = clock => run.inputs = stamp
       /\ pc \in BeforeSave /\ LoadedManifest.inputs # NoFile =>
            \A x \in Files : LoadedManifest.inputs[x] <= run.began
       /\ "outs" \in DOMAIN run.cached
       /\ pc \in BeforeMerge => run.cached = LoadedManifest

\* The ledgers are those recorded, as far as they can be read: by the manifest, and
\* while a run writes by the run.
RecordsOK ==
  /\ DOMAIN gen = Folders
  /\ DOMAIN LoadedManifest.outs = Folders
  /\ pc \in {"write", "manifest"} =>
       DOMAIN run.cached.outs = Folders /\ \A f \in Folders : gen[f] \in {NoFile, Torn, run.cached.outs[f]}
  /\ pc \notin {"write", "manifest"} =>
       \A f \in Folders : gen[f] \in {NoFile, Torn, LoadedManifest.outs[f]}

\* What a run is going to leave in place hides what it has to, and so does what it writes.
PlanHides ==
  /\ pc = "scan" /\ run.began = clock => run.csvs = {f \in Folders : csv[f] # NoFile}
  /\ pc = "compile" =>
       /\ {"unchanged", "csvs", "ignored", "rewrite", "todo", "reading", "tagged"} \subseteq DOMAIN run
       /\ SeesAll => run.ignored = ignored
       /\ SeesAll /\ run.kind # "hint" =>
            \A f \in Folders : f \in run.unchanged \ run.rewrite => Hidden(f)
       /\ run.began = clock => \A f \in run.todo : csv[f] # NoFile
       /\ run.began = clock /\ run.reading # NoFile => csv[run.reading.folder] # NoFile

WriteHides ==
  /\ pc = "write" =>
       /\ {"tagged", "changed", "todo"} \subseteq DOMAIN run
       /\ SeesAll => \A f \in Folders : Hides(run.tagged[f])
       /\ SeesAll /\ run.kind # "hint" =>
            \A f \in Folders : f \in run.srcs \ run.changed => Hidden(f)
       /\ \A f \in Folders : f \in run.changed \ run.todo => gen[f] = run.tagged[f]
  /\ pc \in {"manifest", "fcache", "meta"} /\ SeesAll /\ run.kind # "hint" =>
       \A f \in Folders : Hidden(f)

\* What an early exit trusts.
SavedHides == LoadedManifest.inputs = stamp => \A f \in Folders : Hidden(f)

HInv == TimesOK /\ RecordsOK /\ PlanHides /\ WriteHides /\ SavedHides

\* A new vault.
LEMMA InitHides == Sentinels /\ Init => HInv
<1> SUFFICES ASSUME Sentinels, Init PROVE HInv
  OBVIOUS
<1>1. /\ manifest = NoFile /\ pc = "idle" /\ clock = 0 /\ crashes = 0
      /\ stamp = [x \in Files |-> 0] /\ gen = NoEntry
  BY DEF Init
<1>2. LoadedManifest = EmptyManifest
  BY <1>1 DEF LoadedManifest
<1>3. DOMAIN LoadedManifest = {"inputs", "fps", "outs"} /\ LoadedManifest.inputs = NoFile
      /\ LoadedManifest.outs = NoEntry
  BY <1>2 DEF EmptyManifest
<1>4. \A f \in Folders : gen[f] = NoFile
  BY <1>1 DEF NoEntry
<1>5. stamp \in [Files -> Moments]
  BY <1>1 DEF Moments
<1>6. DOMAIN gen = Folders
  BY <1>1 DEF NoEntry
<1>7. DOMAIN NoEntry = Folders
  BY DEF NoEntry
<1> QED BY <1>1, <1>3, <1>4, <1>5, <1>6, <1>7
       DEF HInv, TimesOK, RecordsOK, PlanHides, WriteHides, SavedHides, Hidden, BeforeMerge

\* What an edit does: a source gets a new stamp, or a ledger is lost between two runs.
LEMMA EditsSeen ==
  ASSUME Steady, TimesOK, RecordsOK, Environment
  PROVE  /\ UNCHANGED <<manifest, fcache, pc, run, crashes>> /\ clock' = clock + 1
         /\ \/ UNCHANGED gen /\ \E x \in Files : stamp' = [stamp EXCEPT ![x] = clock + 1]
            \/ /\ pc = "idle" /\ UNCHANGED <<stamp, ignored>> /\ DOMAIN gen' = Folders
               /\ \A f \in Folders : gen'[f] \in {gen[f], NoFile, Torn}
<1>1. \A p \in Places : Data(p) \in Files /\ Rules(p) \in Files
  BY DEF Files
<1>2. Ignored \in Files /\ Prices \in Files
  BY DEF Files
<1>3. \A f \in Folders : f \in Places
  BY DEF Places
<1>4. \A x : Touch(x) => stamp' = [stamp EXCEPT ![x] = clock + 1]
  BY DEF Touch, Steady
<1>5. ASSUME NEW f \in Folders, EditCsv(f) \/ DropCsv(f) \/ EditManual(f)
      PROVE  /\ UNCHANGED <<manifest, fcache, pc, run, crashes, gen>> /\ clock' = clock + 1
             /\ Touch(Data(f))
  BY <1>5 DEF EditCsv, DropCsv, EditManual, Edit
<1>6. ASSUME NEW p \in Places, EditRules(p) \/ EditScript(p) \/ DropScript(p)
      PROVE  /\ UNCHANGED <<manifest, fcache, pc, run, crashes, gen>> /\ clock' = clock + 1
             /\ Touch(Data(p)) \/ Touch(Rules(p))
  BY <1>6 DEF EditRules, EditScript, DropScript, Edit
<1>7. ASSUME EditPrices
      PROVE  UNCHANGED <<manifest, fcache, pc, run, crashes, gen>> /\ clock' = clock + 1 /\ Touch(Prices)
  BY <1>7 DEF EditPrices, Edit
<1>8. ASSUME NEW id \in Ids, Ignore(id) \/ Unignore(id)
      PROVE  UNCHANGED <<manifest, fcache, pc, run, crashes, gen>> /\ clock' = clock + 1 /\ Touch(Ignored)
  BY <1>8 DEF Ignore, Unignore, Edit
<1>9. ASSUME NEW f \in Folders, Clobber(f)
      PROVE  /\ UNCHANGED <<manifest, fcache, pc, run, crashes, stamp, ignored>> /\ clock' = clock + 1
             /\ pc = "idle" /\ DOMAIN gen' = Folders /\ \A g \in Folders : gen'[g] \in {gen[g], NoFile, Torn}
  BY <1>9 DEF Clobber, RecordsOK
<1> QED BY <1>1, <1>2, <1>3, <1>4, <1>5, <1>6, <1>7, <1>8, <1>9 DEF Environment

\* A run does not see all after an edit, nor is the manifest that of the sources.
LEMMA EnvironmentHides ==
  ASSUME Steady, Sentinels, HInv, Environment
  PROVE  HInv'
<1>1. UNCHANGED <<manifest, fcache, pc, run, crashes>> /\ clock' = clock + 1 /\ clock \in Nat
  BY EditsSeen DEF HInv, TimesOK
<1>2. LoadedManifest' = LoadedManifest
  BY <1>1 DEF LoadedManifest
<1>3. Moments \subseteq Moments' /\ clock \in Moments /\ clock' \in Moments' /\ clock' \notin Moments
  BY <1>1 DEF Moments
<1>6. \A F : F \in [Files -> Moments] => F \in [Files -> Moments']
  BY <1>3
<1>4. CASE UNCHANGED gen /\ \E x \in Files : stamp' = [stamp EXCEPT ![x] = clock + 1]
  <2>1. PICK x \in Files : stamp' = [stamp EXCEPT ![x] = clock + 1]
    BY <1>4
  <2>2. stamp' \in [Files -> Moments'] /\ stamp'[x] = clock'
    BY <1>1, <1>3, <2>1 DEF HInv, TimesOK
  <2>3. stamp' # NoFile
    BY <1>1, <2>2 DEF Sentinels, Moments
  <2>4. LoadedManifest.inputs # stamp'
    BY <1>3, <2>2, <2>3 DEF HInv, TimesOK
  <2>5. pc # "idle" => run.inputs # stamp' /\ run.began \in Moments /\ run.began # clock' /\ stamp'[x] > run.began
    BY <1>1, <1>3, <2>2, <2>3 DEF HInv, TimesOK, Moments
  <2>6. pc # "idle" => ~SeesAll'
    BY <1>1, <2>5 DEF SeesAll
  <2>7. TimesOK'
    <3>1. DOMAIN stamp = Files /\ clock' \in Nat /\ crashes' \in Nat
      BY <1>1 DEF HInv, TimesOK
    <3>2. ASSUME pc # "idle"
          PROVE  /\ run.began \in Moments' /\ (\E y \in Files : stamp'[y] > run.began)
                 /\ run.inputs # NoFile => run.inputs \in [Files -> Moments']
      BY <1>3, <1>6, <2>5, <3>2 DEF HInv, TimesOK
    <3>3. LoadedManifest.inputs # NoFile => LoadedManifest.inputs \in [Files -> Moments']
      BY <1>6 DEF HInv, TimesOK
    <3> HIDE DEF Moments
    <3> QED BY <1>1, <1>2, <2>2, <2>5, <3>1, <3>2, <3>3 DEF HInv, TimesOK
  <2>8. RecordsOK'
    BY <1>1, <1>2, <1>4 DEF HInv, RecordsOK
  <2>9. PlanHides'
    BY <1>1, <2>5, <2>6 DEF HInv, PlanHides
  <2>10. WriteHides'
    BY <1>1, <1>4, <2>6 DEF HInv, WriteHides
  <2>11. SavedHides'
    BY <1>2, <2>4 DEF SavedHides
  <2> QED BY <2>7, <2>8, <2>9, <2>10, <2>11 DEF HInv
<1>5. CASE /\ pc = "idle" /\ UNCHANGED <<stamp, ignored>> /\ DOMAIN gen' = Folders
           /\ \A f \in Folders : gen'[f] \in {gen[f], NoFile, Torn}
  <2>1. TimesOK'
    BY <1>1, <1>2, <1>5, <1>6 DEF HInv, TimesOK
  <2>2. RecordsOK'
    BY <1>1, <1>2, <1>5 DEF HInv, RecordsOK
  <2>3. PlanHides' /\ WriteHides'
    BY <1>1, <1>5 DEF PlanHides, WriteHides
  <2>4. SavedHides'
    BY <1>2, <1>5 DEF HInv, SavedHides, Hidden, Hides
  <2> QED BY <2>1, <2>2, <2>3, <2>4 DEF HInv
<1> QED BY <1>4, <1>5, EditsSeen DEF HInv


\* A run does not edit the sources.
LEMMA RunsDoNotEdit ==
  ASSUME UNCHANGED sources
  PROVE  /\ UNCHANGED <<csv, manual, script, rules, ignored, prices, stamp, clock>>
         /\ Moments' = Moments /\ \A B : Hides(B)' <=> Hides(B)
BY DEF sources, Moments, Hides

\* What is saved stays as it is, and so do the ledgers.
LEMMA DiskKept ==
  ASSUME UNCHANGED <<sources, manifest, crashes>>
  PROVE  LoadedManifest' = LoadedManifest /\ UNCHANGED crashes
         /\ (gen' = gen => \A f : Hidden(f)' <=> Hidden(f))
<1>1. LoadedManifest' = LoadedManifest
  BY DEF LoadedManifest
<1> QED BY <1>1, RunsDoNotEdit DEF Hidden

\* A run that begins has everything still to see.
LEMMA BeginHides ==
  ASSUME Sentinels, HInv, NEW kind \in {"full", "force", "hint"}, NEW hint, Begin(kind, hint)
  PROVE  HInv'
<1>1. /\ pc = "idle" /\ pc' = "list" /\ UNCHANGED <<sources, gen, manifest, crashes>>
      /\ {"kind", "began", "srcs", "inputs", "cached", "csvs"} \subseteq DOMAIN run'
      /\ run'.kind = kind /\ run'.began = clock /\ run'.inputs = NoFile /\ run'.cached = LoadedManifest
  BY DEF Begin, disk
<1>2. TimesOK'
  <2>1. clock \in Moments
    BY DEF HInv, TimesOK, Moments
  <2>2. LoadedManifest.inputs # NoFile => \A x \in Files : LoadedManifest.inputs[x] <= clock
    BY DEF HInv, TimesOK, Moments
  <2> QED BY <1>1, <2>1, <2>2, RunsDoNotEdit, DiskKept DEF HInv, TimesOK
<1>3. RecordsOK'
  BY <1>1, DiskKept DEF HInv, RecordsOK
<1>4. PlanHides' /\ WriteHides'
  BY <1>1 DEF PlanHides, WriteHides
<1>5. SavedHides'
  BY <1>1, DiskKept, RunsDoNotEdit DEF HInv, SavedHides
<1> QED BY <1>2, <1>3, <1>4, <1>5 DEF HInv

\* A run that ends leaves what it saved.
LEMMA EndHides ==
  ASSUME HInv, pc \notin {"write", "manifest"}, pc' = "idle", UNCHANGED <<sources, gen, manifest, crashes>>
  PROVE  HInv'
<1>1. TimesOK'
  BY RunsDoNotEdit, DiskKept DEF HInv, TimesOK
<1>2. RecordsOK'
  BY DiskKept DEF HInv, RecordsOK
<1>3. PlanHides' /\ WriteHides'
  BY DEF PlanHides, WriteHides
<1>4. SavedHides'
  BY DiskKept, RunsDoNotEdit DEF HInv, SavedHides
<1> QED BY <1>1, <1>2, <1>3, <1>4 DEF HInv

\* The fingerprint of everything, and the list of the CSVs.
LEMMA ScanHides ==
  ASSUME Sentinels, HInv, Fingerprint \/ Scan
  PROVE  HInv'
<1>1. /\ pc \in {"list", "check"} /\ UNCHANGED <<sources, gen, manifest, crashes>>
      /\ DOMAIN run' = DOMAIN run
      /\ run'.kind = run.kind /\ run'.began = run.began /\ run'.cached = run.cached
      /\ \/ pc' = "check" /\ run'.inputs = IF run.kind = "hint" THEN NoFile ELSE stamp
         \/ /\ pc = "check" /\ pc' = "scan" /\ run'.inputs = run.inputs
            /\ run'.csvs = {f \in Folders : csv[f] # NoFile}
  BY DEF Fingerprint, Scan, disk, GlobalFp, HInv, TimesOK
<1>2. TimesOK'
  BY <1>1, RunsDoNotEdit, DiskKept DEF HInv, TimesOK, BeforeMerge, BeforeSave
<1>3. RecordsOK'
  BY <1>1, DiskKept DEF HInv, RecordsOK
<1>4. PlanHides' /\ WriteHides'
  <2>1. {f \in Folders : csv'[f] # NoFile} = {f \in Folders : csv[f] # NoFile}
    BY <1>1, RunsDoNotEdit
  <2> QED BY <1>1, <2>1 DEF PlanHides, WriteHides
<1>5. SavedHides'
  BY <1>1, DiskKept, RunsDoNotEdit DEF HInv, SavedHides
<1> QED BY <1>2, <1>3, <1>4, <1>5 DEF HInv

\* A ledger that is not to be written is as recorded and hides the rows on the list, or
\* it cannot be read.
LEMMA PlanHidesStep ==
  ASSUME HInv, Plan
  PROVE  HInv'
<1> DEFINE unchanged == Unchanged(RunFps)
           loaded == {f \in unchanged : InScope(f)}
<1>1. /\ pc = "scan" /\ pc' = "compile" /\ UNCHANGED <<sources, gen, manifest, crashes>>
      /\ {"kind", "began", "srcs", "inputs", "cached", "unchanged", "csvs", "ignored",
          "rewrite", "todo", "reading", "tagged"} \subseteq DOMAIN run'
      /\ run'.kind = run.kind /\ run'.began = run.began /\ run'.srcs = run.srcs
      /\ run'.inputs = run.inputs /\ run'.cached = run.cached
      /\ run'.unchanged = unchanged /\ run'.csvs = run.csvs /\ run'.ignored = ignored
      /\ run'.rewrite = {f \in loaded : Rewrite(f)}
      /\ run'.todo = run.csvs \ unchanged /\ run'.reading = NoFile
  BY DEF Plan, disk
<1>2. unchanged \subseteq run.srcs
  BY DEF Unchanged
<1> HIDE DEF unchanged, loaded
<1>3. ASSUME NEW f \in Folders, ~Rewrite(f) PROVE Hidden(f)
  <2>1. gen[f] \in {NoFile, Torn} \/ (gen[f] # NoFile /\ gen[f] = run.cached.outs[f])
    BY <1>1 DEF HInv, RecordsOK, TimesOK, BeforeMerge
  <2>2. CASE Intact(f)
    <3>1. \A t \in DOMAIN gen[f] : Named(t) \cap ignored = {}
      BY <1>3, <2>2 DEF Rewrite
    <3> QED BY <3>1 DEF Hidden, Hides, Named
  <2> QED BY <2>1, <2>2 DEF Intact, Hidden
<1>4. TimesOK'
  BY <1>1, RunsDoNotEdit, DiskKept DEF HInv, TimesOK, BeforeMerge, BeforeSave
<1>5. RecordsOK'
  BY <1>1, DiskKept DEF HInv, RecordsOK
<1>6. PlanHides'
  <2>1. run.kind # "hint" => \A f \in Folders : f \in unchanged \ run'.rewrite => Hidden(f)
    BY <1>1, <1>3 DEF loaded, InScope
  <2>2. run.began = clock => run.csvs = {f \in Folders : csv[f] # NoFile}
    BY <1>1 DEF HInv, PlanHides
  <2> QED BY <1>1, <2>1, <2>2, RunsDoNotEdit, DiskKept DEF PlanHides
<1>7. WriteHides'
  BY <1>1 DEF WriteHides
<1>8. SavedHides'
  BY <1>1, DiskKept, RunsDoNotEdit DEF HInv, SavedHides
<1> QED BY <1>4, <1>5, <1>6, <1>7, <1>8 DEF HInv

\* Compiling leaves the plan and the disk as they are.
LEMMA CompileHides ==
  ASSUME HInv, DInv, (\E f \in Folders : Hash(f)) \/ Transform
  PROVE  HInv'
<1>1. CASE pc = "compile" /\ Fail
  BY <1>1, EndHides DEF Fail, disk
<1>2. CASE ~Fail
  <2>1. /\ pc = "compile" /\ pc' = pc /\ UNCHANGED <<sources, gen, manifest, crashes>>
        /\ DOMAIN run' = DOMAIN run
        /\ run'.kind = run.kind /\ run'.began = run.began /\ run'.srcs = run.srcs
        /\ run'.inputs = run.inputs /\ run'.cached = run.cached
        /\ run'.unchanged = run.unchanged /\ run'.csvs = run.csvs /\ run'.ignored = run.ignored
        /\ run'.rewrite = run.rewrite /\ run'.todo \subseteq run.todo
        /\ run'.reading = NoFile \/ csv[run'.reading.folder] # NoFile
    <3>1. ASSUME NEW f \in Folders, Hash(f) PROVE <2>1!:
      <4> DEFINE e == run.entries[f]
                 hit == e # NoFile /\ e.rows = csv[f] /\ e.chain = Chain(f)
                 read == [folder |-> f, rows |-> csv[f], chain |-> Chain(f)]
      <4>1. /\ pc = "compile" /\ pc' = pc /\ UNCHANGED <<sources, gen, manifest, crashes>>
            /\ csv[f] # NoFile
            /\ run' = [run EXCEPT !.todo = @ \ {f}, !.reading = IF hit THEN NoFile ELSE read,
                                  !.tagged[f] = IF hit THEN e.txns ELSE @]
        BY <1>2, <3>1 DEF Hash, disk
      <4>2. read.folder = f
        OBVIOUS
      <4> HIDE DEF hit, e, read
      <4> QED BY <4>1, <4>2 DEF HInv, TimesOK, PlanHides
    <3>2. ASSUME Transform PROVE <2>1!:
      <4> DEFINE g == run.reading.folder
                 txns == Transformed(csv[g], run.reading.chain, run.declared)
                 entry == [rows |-> run.reading.rows, chain |-> run.reading.chain, txns |-> txns]
      <4>1. /\ pc = "compile" /\ pc' = pc /\ UNCHANGED <<sources, gen, manifest, crashes>>
            /\ run' = [run EXCEPT !.reading = NoFile, !.entries[g] = entry, !.tagged[g] = txns]
        BY <1>2, <3>2 DEF Transform, disk
      <4> HIDE DEF g, txns, entry
      <4> QED BY <4>1 DEF HInv, TimesOK, PlanHides
    <3> QED BY <3>1, <3>2
  <2>2. TimesOK'
    BY <2>1, RunsDoNotEdit, DiskKept DEF HInv, TimesOK
  <2>3. RecordsOK'
    BY <2>1, DiskKept DEF HInv, RecordsOK
  <2>4. PlanHides'
    BY <2>1, RunsDoNotEdit, DiskKept DEF HInv, PlanHides, SeesAll
  <2>5. WriteHides'
    BY <2>1 DEF WriteHides
  <2>6. SavedHides'
    BY <2>1, DiskKept, RunsDoNotEdit DEF HInv, SavedHides
  <2> QED BY <2>2, <2>3, <2>4, <2>5, <2>6 DEF HInv
<1>3. pc = "compile"
  BY DEF Hash, Transform
<1> QED BY <1>1, <1>2, <1>3


\* A row that is linked has the id of a row there was.
LEMMA LinkingKeepsIds ==
  ASSUME NEW tg, NEW p, NEW f \in Folders, Distinct(tg[f], IdsOf(f))
  PROVE  \A t \in DOMAIN AutoLinked(tg, p)[f] : \E u \in DOMAIN tg[f] : t.id = u.id
<1> DEFINE B == tg[f]
           L(t) == LinkedTxn(tg, t, p)
           S == {L(t) : t \in DOMAIN B}
<1>1. AutoLinked(tg, p)[f] = [t \in S |-> MapThenSumSet(LAMBDA u : B[u], {u \in DOMAIN B : L(u) = t})]
  BY DEF AutoLinked, ImageBag
<1>2. \A u \in DOMAIN B : L(u).id = u.id
  BY LinkedId DEF Distinct
<1>3. \A t \in S : \E u \in DOMAIN B : t.id = u.id
  <2> HIDE DEF L
  <2> QED BY <1>2
<1>4. DOMAIN AutoLinked(tg, p)[f] = S
  <2> HIDE DEF S
  <2> QED BY <1>1
<1> QED BY <1>3, <1>4

\* Linking and hiding: what is gathered shows no row on the list the run read, and
\* linking changes no id.
LEMMA MergeHides ==
  ASSUME OwnIds, DInv, HInv, Merge
  PROVE  HInv'
<1> DEFINE gathered == Gathered
           linked == IF TouchesTrading(gathered) THEN AutoLinked(gathered, prices) ELSE gathered
           changed == (run.srcs \ run.unchanged) \cup run.rewrite
                        \cup {f \in Folders : linked[f] # gathered[f]}
<1>1. /\ pc = "compile" /\ pc' = "write" /\ UNCHANGED <<sources, gen, manifest, crashes>>
      /\ {"kind", "began", "srcs", "inputs", "cached", "tagged", "changed", "todo"} \subseteq DOMAIN run'
      /\ run'.kind = run.kind /\ run'.began = run.began /\ run'.srcs = run.srcs
      /\ run'.inputs = run.inputs /\ run'.cached = run.cached
      /\ run'.tagged = linked /\ run'.changed = changed /\ run'.todo = changed
  BY DEF Merge, disk
<1>2. ASSUME NEW f \in Folders
      PROVE  \A t \in DOMAIN gathered[f] : "id" \in DOMAIN t /\ t.id \notin run.ignored
  <2>1. Distinct(gathered[f], IdsOf(f))
    BY <1>1, GatheredDistinct
  <2>2. gathered[f] = WithoutIgnored(run.tagged[f] (+) (IF f \in run.intact THEN EmptyBag ELSE ManualTxns(f)),
                                     run.ignored)
    BY DEF Gathered
  <2> HIDE DEF gathered
  <2> QED BY <2>1, <2>2 DEF Distinct, WithoutIgnored, OnlyWhere, Named
<1>3. ASSUME NEW f \in Folders PROVE \A t \in DOMAIN linked[f] : t.id \notin run.ignored
  <2> HIDE DEF gathered
  <2>1. CASE linked = gathered
    BY <1>2, <2>1
  <2>2. CASE linked = AutoLinked(gathered, prices)
    <3>1. Distinct(gathered[f], IdsOf(f))
      BY <1>1, GatheredDistinct DEF gathered
    <3>2. \A t \in DOMAIN linked[f] : \E u \in DOMAIN gathered[f] : t.id = u.id
      <4>1. \A t \in DOMAIN AutoLinked(gathered, prices)[f] : \E u \in DOMAIN gathered[f] : t.id = u.id
        BY <3>1, LinkingKeepsIds
      <4> HIDE DEF linked
      <4> QED BY <2>2, <4>1
    <3> QED BY <1>2, <3>2
  <2> QED BY <2>1, <2>2
<1>4. \A f \in Folders : f \in run.srcs \ changed => f \in run.unchanged \ run.rewrite
  OBVIOUS
<1> HIDE DEF linked, changed
<1>5. TimesOK'
  BY <1>1, RunsDoNotEdit, DiskKept DEF HInv, TimesOK, BeforeMerge, BeforeSave
<1>6. RecordsOK'
  BY <1>1, DiskKept DEF HInv, RecordsOK, TimesOK, BeforeMerge
<1>7. PlanHides'
  BY <1>1 DEF PlanHides
<1>8. WriteHides'
  <2>1. SeesAll' => SeesAll
    BY <1>1, RunsDoNotEdit DEF SeesAll
  <2>2. SeesAll => \A f \in Folders : Hides(linked[f])
    BY <1>1, <1>3 DEF HInv, PlanHides, Hides
  <2>3. SeesAll /\ run.kind # "hint" => \A f \in Folders : f \in run.srcs \ changed => Hidden(f)
    BY <1>1, <1>4 DEF HInv, PlanHides
  <2> QED BY <1>1, <2>1, <2>2, <2>3, RunsDoNotEdit, DiskKept DEF WriteHides
<1>9. SavedHides'
  BY <1>1, DiskKept, RunsDoNotEdit DEF HInv, SavedHides
<1> QED BY <1>5, <1>6, <1>7, <1>8, <1>9 DEF HInv

\* If the manifest is that of the sources, nothing was edited since the run began.
LEMMA SavedIsSeen ==
  ASSUME Sentinels, HInv, pc \in {"write", "manifest"}, LoadedManifest.inputs = stamp
  PROVE  run.began = clock
<1>1. stamp # NoFile /\ DOMAIN stamp = Files
  BY DEF HInv, TimesOK, Sentinels, Moments
<1>2. \A x \in Files : stamp[x] <= run.began /\ stamp[x] \in Nat /\ run.began \in Nat
  BY <1>1 DEF HInv, TimesOK, BeforeSave, Moments
<1>3. ~\E x \in Files : stamp[x] > run.began
  BY <1>2
<1> QED BY <1>3 DEF HInv, TimesOK

\* A ledger that is written hides its rows.
LEMMA WriteHidesStep ==
  ASSUME Sentinels, DInv, HInv, NEW f \in Folders, WriteLedger(f)
  PROVE  HInv'
<1>1. /\ pc = "write" /\ pc' = pc /\ f \in run.todo /\ UNCHANGED <<sources, manifest, crashes>>
      /\ gen' = [gen EXCEPT ![f] = IF MustWrite(f) THEN run.tagged[f] ELSE @]
      /\ run' = [run EXCEPT !.todo = @ \ {f}, !.cached.outs[f] = run.tagged[f]]
  BY DEF WriteLedger
<1>2. /\ DOMAIN run' = DOMAIN run
      /\ run'.kind = run.kind /\ run'.began = run.began /\ run'.srcs = run.srcs
      /\ run'.inputs = run.inputs /\ run'.tagged = run.tagged /\ run'.changed = run.changed
      /\ run'.todo = run.todo \ {f}
      /\ DOMAIN run'.cached = DOMAIN run.cached
      /\ run'.cached.outs = [run.cached.outs EXCEPT ![f] = run.tagged[f]]
  BY <1>1 DEF HInv, TimesOK, WriteHides
<1>3. /\ DOMAIN gen' = Folders /\ gen'[f] = run.tagged[f]
      /\ \A g \in Folders \ {f} : gen'[g] = gen[g]
  BY <1>1 DEF HInv, RecordsOK, MustWrite
<1>4. TimesOK'
  BY <1>1, <1>2, RunsDoNotEdit, DiskKept DEF HInv, TimesOK, BeforeMerge
<1>5. RecordsOK'
  BY <1>1, <1>2, <1>3, DiskKept DEF HInv, RecordsOK
<1>6. PlanHides'
  BY <1>1 DEF PlanHides
<1>7. SeesAll' <=> SeesAll
  BY <1>1, <1>2, RunsDoNotEdit DEF SeesAll
<1>8. \A g \in Folders : SeesAll /\ Hidden(g) => Hidden(g)'
  <2>1. SeesAll => Hides(run.tagged[f])
    BY <1>1 DEF HInv, WriteHides
  <2> QED BY <1>1, <1>3, <2>1, RunsDoNotEdit DEF Hidden
<1>9. WriteHides'
  <2>1. \A g \in Folders : g \in run.changed \ run'.todo => gen'[g] = run.tagged[g]
    BY <1>1, <1>2, <1>3 DEF HInv, WriteHides
  <2> QED BY <1>1, <1>2, <1>7, <1>8, <2>1, RunsDoNotEdit DEF HInv, WriteHides
<1>10. SavedHides'
  BY <1>1, <1>8, SavedIsSeen, RunsDoNotEdit, DiskKept DEF HInv, SavedHides, SeesAll
<1> QED BY <1>4, <1>5, <1>6, <1>9, <1>10 DEF HInv

\* What is neither written nor pruned is the ledger of a folder that was to stay.
LEMMA PruneHides ==
  ASSUME Sentinels, DInv, HInv, PruneOutputs
  PROVE  HInv'
<1> DEFINE stale == {f \in Folders : run.cached.outs[f] # NoFile} \ Live
<1>1. /\ pc = "write" /\ pc' = "manifest" /\ run.todo = {} /\ UNCHANGED <<sources, manifest, crashes>>
      /\ gen' = [f \in Folders |-> IF f \in stale THEN NoFile ELSE gen[f]]
      /\ run' = [run EXCEPT !.cached.outs = [f \in Folders |-> IF f \in stale THEN NoFile ELSE @[f]]]
  BY DEF PruneOutputs
<1>2. \A f \in Folders \ Live : gen'[f] \in {NoFile, Torn}
  <2>1. \A f \in Folders : gen[f] \in {NoFile, Torn, run.cached.outs[f]}
    BY <1>1 DEF HInv, RecordsOK
  <2> QED BY <1>1, <2>1
<1>3. \A f \in Folders : gen'[f] \in {NoFile, gen[f]}
  BY <1>1
<1> HIDE DEF stale
<1>4. /\ DOMAIN run' = DOMAIN run
      /\ run'.kind = run.kind /\ run'.began = run.began /\ run'.srcs = run.srcs
      /\ run'.inputs = run.inputs
      /\ DOMAIN run'.cached = DOMAIN run.cached
      /\ run'.cached.outs = [f \in Folders |-> IF f \in stale THEN NoFile ELSE run.cached.outs[f]]
  BY <1>1 DEF HInv, TimesOK, WriteHides
<1>5. TimesOK'
  BY <1>1, <1>4, RunsDoNotEdit, DiskKept DEF HInv, TimesOK, BeforeMerge, BeforeSave
<1>6. RecordsOK'
  BY <1>1, <1>4, DiskKept DEF HInv, RecordsOK
<1>7. PlanHides'
  BY <1>1 DEF PlanHides
<1>8. \A f \in Folders : Hidden(f) => Hidden(f)'
  BY <1>1, <1>3, RunsDoNotEdit DEF Hidden
<1>9. WriteHides'
  <2>1. SeesAll' => SeesAll
    BY <1>1, <1>4, RunsDoNotEdit DEF SeesAll
  <2>2. ASSUME SeesAll, run.kind # "hint", NEW f \in Folders PROVE Hidden(f)'
    <3>1. CASE f \notin Live
      BY <1>2, <3>1 DEF Hidden
    <3>2. CASE f \in run.changed
      <4>1. gen[f] = run.tagged[f] /\ Hides(run.tagged[f])
        BY <1>1, <2>2, <3>2 DEF HInv, WriteHides
      <4> QED BY <1>8, <4>1 DEF Hidden
    <3>3. CASE f \in run.srcs \ run.changed
      BY <1>1, <1>8, <2>2, <3>3 DEF HInv, WriteHides
    <3> QED BY <3>1, <3>2, <3>3 DEF Live
  <2> QED BY <1>1, <1>4, <2>1, <2>2 DEF WriteHides
<1>10. SavedHides'
  BY <1>1, <1>8, RunsDoNotEdit, DiskKept DEF HInv, SavedHides
<1> QED BY <1>5, <1>6, <1>7, <1>9, <1>10 DEF HInv

\* The manifest gets the fingerprint of a run under which nothing was edited, or one that
\* is out of date.
LEMMA SaveHides ==
  ASSUME Sentinels, DInv, HInv, SaveManifest
  PROVE  HInv'
<1>1. /\ pc = "manifest" /\ pc' = "fcache" /\ UNCHANGED <<sources, gen, crashes>>
      /\ manifest' = [inputs |-> run.inputs, fps |-> SavedFps, outs |-> run.cached.outs]
      /\ run' = [run EXCEPT !.todo = {f \in run.changed : SavedFps[f] # NoFile}]
  BY DEF SaveManifest
<1>2. LoadedManifest' = [inputs |-> run.inputs, fps |-> SavedFps, outs |-> run.cached.outs]
  BY <1>1 DEF LoadedManifest, Sentinels
<1>3. /\ DOMAIN LoadedManifest' = {"inputs", "fps", "outs"}
      /\ LoadedManifest'.inputs = run.inputs /\ LoadedManifest'.outs = run.cached.outs
  BY <1>2
<1>4. /\ DOMAIN run' = DOMAIN run
      /\ run'.kind = run.kind /\ run'.began = run.began /\ run'.srcs = run.srcs
      /\ run'.inputs = run.inputs /\ run'.cached = run.cached
  BY <1>1 DEF HInv, TimesOK
<1>5. TimesOK'
  BY <1>1, <1>3, <1>4, RunsDoNotEdit DEF HInv, TimesOK, BeforeMerge, BeforeSave
<1>6. RecordsOK'
  BY <1>1, <1>3 DEF HInv, RecordsOK
<1>7. PlanHides'
  BY <1>1 DEF PlanHides
<1>8. \A f \in Folders : Hidden(f) => Hidden(f)'
  BY <1>1, RunsDoNotEdit DEF Hidden
<1>9. WriteHides'
  BY <1>1, <1>4, <1>8, RunsDoNotEdit DEF HInv, WriteHides, SeesAll
<1>10. SavedHides'
  <2> SUFFICES ASSUME run.inputs = stamp PROVE \A f \in Folders : Hidden(f)
    BY <1>1, <1>3, <1>8, RunsDoNotEdit DEF SavedHides
  <2>1. run.inputs # NoFile
    BY DEF HInv, TimesOK, Sentinels, Moments
  <2> QED BY <1>1, <2>1 DEF HInv, TimesOK, WriteHides, SeesAll
<1> QED BY <1>5, <1>6, <1>7, <1>9, <1>10 DEF HInv

\* The folder caches are no matter.
LEMMA CachesHide ==
  ASSUME HInv, (\E f \in Folders : SaveFolderCache(f)) \/ PruneFolderCaches
  PROVE  HInv'
<1>1. /\ pc = "fcache" /\ pc' \in {"fcache", "meta"} /\ UNCHANGED <<sources, gen, manifest, crashes>>
      /\ DOMAIN run' = DOMAIN run
      /\ run'.kind = run.kind /\ run'.began = run.began /\ run'.srcs = run.srcs
      /\ run'.inputs = run.inputs /\ run'.cached = run.cached
  BY DEF SaveFolderCache, PruneFolderCaches, HInv, TimesOK
<1>2. TimesOK'
  BY <1>1, RunsDoNotEdit, DiskKept DEF HInv, TimesOK, BeforeMerge, BeforeSave
<1>3. RecordsOK'
  BY <1>1, DiskKept DEF HInv, RecordsOK
<1>4. PlanHides' /\ WriteHides'
  BY <1>1, RunsDoNotEdit, DiskKept DEF HInv, PlanHides, WriteHides, SeesAll
<1>5. SavedHides'
  BY <1>1, DiskKept, RunsDoNotEdit DEF HInv, SavedHides
<1> QED BY <1>2, <1>3, <1>4, <1>5 DEF HInv

\* Every step keeps the invariant.
LEMMA NextHides ==
  ASSUME OwnIds, Steady, Sentinels, DInv, HInv, [Next]_vars
  PROVE  HInv'
<1>1. CASE Environment
  BY <1>1, EnvironmentHides
<1>2. CASE RunStep
  <2>1. CASE EarlyExit \/ SaveMeta
    BY <2>1, EndHides DEF EarlyExit, SaveMeta, disk
  <2>2. CASE Plan
    BY <2>2, PlanHidesStep
  <2>3. CASE Fingerprint \/ Scan
    BY <2>3, ScanHides
  <2>4. CASE (\E f \in Folders : Hash(f)) \/ Transform
    BY <2>4, CompileHides
  <2>6. CASE Merge
    BY <2>6, MergeHides
  <2>7. ASSUME NEW f \in Folders, WriteLedger(f) PROVE HInv'
    BY <2>7, WriteHidesStep
  <2>8. CASE PruneOutputs
    BY <2>8, PruneHides
  <2>9. CASE SaveManifest
    BY <2>9, SaveHides
  <2>10. CASE (\E f \in Folders : SaveFolderCache(f)) \/ PruneFolderCaches
    BY <2>10, CachesHide
  <2> QED BY <1>2, <2>1, <2>2, <2>3, <2>4, <2>6, <2>7, <2>8, <2>9, <2>10 DEF RunStep
<1>3. ~Crash
  BY DEF Crash, Steady, HInv, TimesOK
<1>4. CASE BeginFull \/ BeginForce \/ \E f \in SourceFolders : BeginHint(f)
  BY <1>4, BeginHides DEF BeginFull, BeginForce, BeginHint
<1>5. CASE UNCHANGED vars
  <2>1. UNCHANGED <<sources, gen, manifest, crashes, pc, run>>
    BY <1>5 DEF vars, disk
  <2>2. TimesOK' /\ RecordsOK'
    BY <2>1, RunsDoNotEdit, DiskKept DEF HInv, TimesOK, RecordsOK
  <2>3. PlanHides' /\ WriteHides'
    BY <2>1, RunsDoNotEdit, DiskKept DEF HInv, PlanHides, WriteHides, SeesAll
  <2>4. SavedHides'
    BY <2>1, RunsDoNotEdit, DiskKept DEF HInv, SavedHides
  <2> QED BY <2>2, <2>3, <2>4 DEF HInv
<1> QED BY <1>1, <1>2, <1>3, <1>4, <1>5 DEF Next

\* What the build writes shows no row of the list it was made under, whatever else is
\* stale: a full or forced run under which nothing was edited ends with every row on
\* the list hidden, also in folders it did not compile, of ledgers that were clobbered
\* and of folders that are gone (1780-1785, 1861-1875).
THEOREM IgnoredStayHiddenSafe ==
  ASSUME OwnIds, Steady, Sentinels
  PROVE  Spec => IgnoredStayHidden
<1>1. DInv /\ HInv /\ [Next]_vars =>
        (RunEnds /\ run.kind # "hint" /\ run.began = clock /\ Compiles =>
           \A f \in Folders : gen'[f] \notin {NoFile, Torn} => \A t \in DOMAIN gen'[f] : t.id \notin ignored)
  <2> SUFFICES ASSUME DInv, HInv, [Next]_vars, RunEnds, run.kind # "hint", run.began = clock, Compiles
               PROVE  gen' = gen /\ \A f \in Folders : Hidden(f)
    BY DEF Hidden, Hides
  <2>1. pc # "idle" /\ pc' = "idle" /\ crashes' = crashes /\ SeesAll
    BY DEF RunEnds, SeesAll
  <2>2. EarlyExit \/ SaveMeta \/ Transform \/ \E f \in Folders : Hash(f)
    <3>1. ~Environment
      <4>1. Environment => clock' = clock + 1 /\ pc' = pc
        BY EditsSeen DEF HInv
      <4> QED BY <2>1, <4>1
    <3>2. ~Crash
      BY DEF Crash, Steady, HInv, TimesOK
    <3>3. ~(BeginFull \/ BeginForce \/ \E f \in SourceFolders : BeginHint(f))
      BY <2>1 DEF BeginFull, BeginForce, BeginHint, Begin
    <3>4. ~UNCHANGED vars
      BY <2>1 DEF vars
    <3>5. ~(Fingerprint \/ Scan \/ Plan \/ Merge \/ PruneOutputs \/ SaveManifest \/ PruneFolderCaches)
      BY <2>1 DEF Fingerprint, Scan, Plan, Merge, PruneOutputs, SaveManifest, PruneFolderCaches
    <3>6. \A f \in Folders : ~WriteLedger(f) /\ ~SaveFolderCache(f)
      BY <2>1 DEF WriteLedger, SaveFolderCache
    <3> QED BY <3>1, <3>2, <3>3, <3>4, <3>5, <3>6 DEF Next, RunStep
  <2>3. CASE EarlyExit
    <3>1. pc = "check" /\ run.cached.inputs = run.inputs /\ gen' = gen
      BY <2>3 DEF EarlyExit, UpToDate, disk
    <3>2. LoadedManifest.inputs = stamp
      BY <3>1 DEF HInv, TimesOK, BeforeMerge
    <3> QED BY <3>1, <3>2 DEF HInv, SavedHides
  <2>4. CASE SaveMeta
    <3>1. pc = "meta" /\ gen' = gen
      BY <2>4 DEF SaveMeta
    <3> QED BY <2>1, <3>1 DEF HInv, WriteHides
  <2>5. ~Transform
    <3>1. Transform => pc = "compile" /\ run.reading # NoFile /\ (csv[run.reading.folder] = NoFile \/ pc' = pc)
      BY DEF Transform
    <3> QED BY <2>1, <3>1 DEF HInv, PlanHides
  <2>6. ASSUME NEW f \in Folders, Hash(f) PROVE FALSE
    <3>1. pc = "compile" /\ f \in run.todo /\ (csv[f] = NoFile \/ Script(f) = NoFile \/ pc' = pc)
      BY <2>6 DEF Hash
    <3>2. csv[f] # NoFile
      BY <3>1 DEF HInv, PlanHides
    <3> QED BY <2>1, <3>1, <3>2 DEF Compiles
  <2> QED BY <2>2, <2>3, <2>4, <2>5, <2>6
<1>2. DInv /\ HInv /\ [Next]_vars => DInv' /\ HInv'
  BY NextDistinct, NextHides
<1>3. Init => DInv /\ HInv
  BY InitDistinct, InitHides
<1> QED BY <1>1, <1>2, <1>3, PTL DEF Spec, IgnoredStayHidden

-----------------------------------------------------------------------------
(***************************************************************************)
(* What the layers of run_pipeline may trust, for any vault and any number *)
(* of edits, rebuilds of all kinds and crashes: a ledger whose fingerprint *)
(* is current is what a cold run would write, an early exit leaves nothing *)
(* stale, and a warm run ends where a cold one does.                       *)
(*                                                                         *)
(* The inductive invariant LInv says so for each moment of a run, under    *)
(* the condition that the folder was not edited since its fingerprint was  *)
(* taken: an edit gives a place a stamp that was nowhere recorded, so it   *)
(* makes the condition false rather than the conclusion.                   *)
(***************************************************************************)

-----------------------------------------------------------------------------
(* Under which edits.                                                      *)

\* What the user does between and during runs: anything but the edits after which
\* the build is known to be wrong.
PlainEdits ==
  Env \cap {"racy", "listrace", "midtransform", "dirscript", "dropdirscript", "ignore",
            "prices", "clobber"} = {}

\* An id belongs to one folder, and so does a swap, of which one leg at least is in a CSV.
Homes ==
  /\ \A f \in Folders : CsvRows[f] \cap ManualIds[f] = {}
  /\ \A f, g \in Folders : f # g => IdsOf(f) \cap IdsOf(g) = {}
  /\ \A t \in Trades : \E f \in Folders :
       {t, SwapOf[t]} \subseteq IdsOf(f) /\ ~({t, SwapOf[t]} \subseteq ManualIds[f])

\* A ledger outlives its folder if a crash keeps it from being recorded and the folder
\* is dropped then: one of the two does not happen.
NoOrphans == MaxCrash = 0 \/ "dropcsv" \notin Env

\* An absent value is no ledger, no fingerprint and no set of rows, a torn manifest
\* no manifest.
NoFileIsNothing ==
  /\ \A S : SetToBag(S) # NoFile
  /\ \A x, y, z : <<x, y, z>> # NoFile
  /\ \A f, r, c : [folder |-> f, rows |-> r, chain |-> c] # NoFile
  /\ NoFile \notin [Files -> Nat] /\ NoFile \notin SUBSET Ids
  /\ \A i, fps, outs : [inputs |-> i, fps |-> fps, outs |-> outs] \notin {NoFile, Torn}

Gentle == PlainEdits /\ Homes /\ NoMention /\ NoFileIsNothing

-----------------------------------------------------------------------------
(* Ledgers: bags that hold every row once.                                 *)

IsLedger(B) == B \in [DOMAIN B -> {1}]

\* Sets of rows are ledgers.
LEMMA SetsAreLedgers ==
  /\ \A S : IsLedger(SetToBag(S)) /\ DOMAIN SetToBag(S) = S
  /\ IsLedger(EmptyBag) /\ DOMAIN EmptyBag = {}
BY DEF IsLedger, SetToBag, EmptyBag

\* Ledgers with the same rows are the same.
LEMMA SameRows ==
  ASSUME NEW A, NEW B, IsLedger(A), IsLedger(B), DOMAIN A = DOMAIN B
  PROVE  A = B
BY DEF IsLedger

\* Adding nothing changes nothing.
LEMMA AddNothing ==
  ASSUME NEW B, IsLedger(B)
  PROVE  B (+) EmptyBag = B /\ EmptyBag (+) B = B
<1>1. DOMAIN EmptyBag = {}
  BY SetsAreLedgers
<1>2. DOMAIN (B (+) EmptyBag) = DOMAIN B /\ IsLedger(B (+) EmptyBag)
  BY <1>1 DEF (+), IsLedger
<1>3. DOMAIN (EmptyBag (+) B) = DOMAIN B /\ IsLedger(EmptyBag (+) B)
  BY <1>1 DEF (+), IsLedger
<1> QED BY <1>2, <1>3, SameRows

\* Hiding nothing changes nothing.
LEMMA HideNothing ==
  ASSUME NEW B, IsLedger(B)
  PROVE  WithoutIgnored(B, {}) = B
<1>1. DOMAIN WithoutIgnored(B, {}) = DOMAIN B /\ IsLedger(WithoutIgnored(B, {}))
  BY DEF WithoutIgnored, OnlyWhere, IsLedger
<1> QED BY <1>1, SameRows

\* Rows of different ids make a ledger together.
LEMMA SumIsLedger ==
  ASSUME NEW A, NEW B, NEW I, NEW J, Distinct(A, I), Distinct(B, J), I \cap J = {}
  PROVE  IsLedger(A (+) B) /\ DOMAIN (A (+) B) = DOMAIN A \cup DOMAIN B
BY DEF Distinct, IsLedger, (+)

\* What a folder compiles to before swaps are linked.
CsvBag(f) == IF csv[f] = NoFile THEN EmptyBag ELSE Transformed(csv[f], Chain(f), {})
Raw(f) == CsvBag(f) (+) ManualTxns(f)

IsPlain(t) == DOMAIN t = {"id", "cls", "link"} /\ t.link = <<>>

\* The rows of a CSV are plain.
LEMMA CsvRowsPlain ==
  ASSUME FilesOK, NEW f \in Folders
  PROVE  /\ IsLedger(CsvBag(f)) /\ Distinct(CsvBag(f), CsvRows[f])
         /\ \A t \in DOMAIN CsvBag(f) : IsPlain(t)
<1>1. CASE csv[f] = NoFile
  BY <1>1, SetsAreLedgers DEF CsvBag, Distinct
<1>2. CASE csv[f] # NoFile
  <2> DEFINE P(r) == Plain(r, <<Chain(f), Mentions[r] \cap {} # {}>>)
             S == {P(r) : r \in csv[f]}
  <2>1. CsvBag(f) = SetToBag(S)
    BY <1>2 DEF CsvBag, Transformed
  <2>2. IsLedger(CsvBag(f)) /\ DOMAIN CsvBag(f) = S
    <3> HIDE DEF S
    <3> QED BY <2>1, SetsAreLedgers
  <2>3. Distinct(CsvBag(f), csv[f]) /\ csv[f] \subseteq CsvRows[f]
    BY <1>2, TransformedDistinct DEF CsvBag, FilesOK
  <2>4. \A r : IsPlain(P(r))
    BY DEF Plain, IsPlain
  <2> HIDE DEF P
  <2>5. \A t \in S : IsPlain(t)
    BY <2>4
  <2> QED BY <2>2, <2>3, <2>5 DEF Distinct
<1> QED BY <1>1, <1>2

\* The same of a manual file.
LEMMA ManualRowsPlain ==
  ASSUME FilesOK, NEW f \in Folders
  PROVE  /\ IsLedger(ManualTxns(f)) /\ Distinct(ManualTxns(f), ManualIds[f])
         /\ \A t \in DOMAIN ManualTxns(f) : IsPlain(t)
<1>1. CASE manual[f] = NoFile
  BY <1>1, SetsAreLedgers DEF ManualTxns, Distinct
<1>2. CASE manual[f] # NoFile
  <2> DEFINE P(m) == Plain(m, <<RulesChain(f), FALSE>>)
             S == {P(m) : m \in manual[f]}
  <2>1. ManualTxns(f) = SetToBag(S)
    BY <1>2 DEF ManualTxns
  <2>2. IsLedger(ManualTxns(f)) /\ DOMAIN ManualTxns(f) = S
    <3> HIDE DEF S
    <3> QED BY <2>1, SetsAreLedgers
  <2>3. Distinct(ManualTxns(f), ManualIds[f])
    BY ManualDistinct DEF FilesOK
  <2>4. \A m : IsPlain(P(m))
    BY DEF Plain, IsPlain
  <2> HIDE DEF P
  <2>5. \A t \in S : IsPlain(t)
    BY <2>4
  <2> QED BY <2>2, <2>3, <2>5
<1> QED BY <1>1, <1>2

\* So are all rows of a folder, and each is there once.
LEMMA RawRows ==
  ASSUME Homes, FilesOK, NEW f \in Folders
  PROVE  /\ IsLedger(Raw(f)) /\ Distinct(Raw(f), IdsOf(f))
         /\ \A t \in DOMAIN Raw(f) : IsPlain(t)
<1>1. CsvRows[f] \cap ManualIds[f] = {}
  BY DEF Homes
<1>2. IsLedger(Raw(f)) /\ DOMAIN Raw(f) = DOMAIN CsvBag(f) \cup DOMAIN ManualTxns(f)
  BY <1>1, CsvRowsPlain, ManualRowsPlain, SumIsLedger DEF Raw
<1>3. Distinct(Raw(f), IdsOf(f))
  BY <1>1, CsvRowsPlain, ManualRowsPlain, SumDistinct DEF Raw, IdsOf
<1> QED BY <1>2, <1>3, CsvRowsPlain, ManualRowsPlain

\* They are what a cold run has in hand.
LEMMA ColdIsRaw ==
  ASSUME Homes, NoMention, FilesOK, ignored = {}, NEW f \in Folders
  PROVE  ColdTagged[f] = Raw(f)
<1>1. csv[f] # NoFile => Transformed(csv[f], Chain(f), SourceFolders) = Transformed(csv[f], Chain(f), {})
  BY DeclaredIrrelevant, CsvRowsAreIds DEF FilesOK
<1>2. ColdTagged[f] = WithoutIgnored(Raw(f), {})
  BY <1>1 DEF ColdTagged, Raw, CsvBag
<1> QED BY <1>2, RawRows, HideNothing

-----------------------------------------------------------------------------
(* Linking, when every swap is at home in one folder.                      *)

\* Everything in hand is in the ledger of its folder.
InHand(tg) == \A f \in Folders : Distinct(tg[f], IdsOf(f))

\* The partner of a leg is in the same folder, and they are not both manual.
LEMMA PartnerAtHome ==
  ASSUME Homes, NEW f \in Folders, NEW id \in IdsOf(f), id \in Trades
  PROVE  SwapOf[id] \in IdsOf(f) /\ ~(id \in ManualIds[f] /\ SwapOf[id] \in ManualIds[f])
<1>1. PICK g \in Folders : /\ {id, SwapOf[id]} \subseteq IdsOf(g)
                           /\ ~({id, SwapOf[id]} \subseteq ManualIds[g])
  BY DEF Homes
<1>2. g = f
  BY <1>1 DEF Homes
<1> QED BY <1>1, <1>2

\* The links of a leg in one ledger.
Held(B, id) == {u.link : u \in {v \in DOMAIN B : v.id = id}}

\* A partner is looked for in all folders and found in the one.
LEMMA HeldAtHome ==
  ASSUME Homes, NEW tg, InHand(tg), NEW f \in Folders, NEW id \in IdsOf(f)
  PROVE  LinksHeld(tg, id) = Held(tg[f], id)
<1>1. \A g \in Folders : g # f => Held(tg[g], id) = {}
  <2> SUFFICES ASSUME NEW g \in Folders, g # f, NEW v \in DOMAIN tg[g], v.id = id PROVE FALSE
    BY DEF Held
  <2>1. v.id \in IdsOf(g)
    BY DEF InHand, Distinct
  <2> QED BY <2>1 DEF Homes
<1>2. LinksHeld(tg, id) = UNION {Held(tg[g], id) : g \in Folders}
  BY DEF LinksHeld, Held
<1> HIDE DEF Held
<1> QED BY <1>1, <1>2

\* What linking makes of a folder depends on its own rows only.
LEMMA LinkingIsLocal ==
  ASSUME Homes, NEW tg, NEW th, InHand(tg), InHand(th), NEW p, NEW f \in Folders, tg[f] = th[f]
  PROVE  AutoLinked(tg, p)[f] = AutoLinked(th, p)[f]
<1>1. ASSUME NEW t \in DOMAIN tg[f] PROVE LinkedTxn(tg, t, p) = LinkedTxn(th, t, p)
  <2>1. t.id \in IdsOf(f)
    BY DEF InHand, Distinct
  <2>2. CASE t.id \in Trades
    <3>1. LinksHeld(tg, SwapOf[t.id]) = LinksHeld(th, SwapOf[t.id])
      BY <2>1, <2>2, PartnerAtHome, HeldAtHome
    <3> QED BY <3>1 DEF LinkedTxn, TakesLink, TakesPrice
  <2>3. CASE t.id \notin Trades
    BY <2>3 DEF LinkedTxn
  <2> QED BY <2>2, <2>3
<1>2. {LinkedTxn(tg, t, p) : t \in DOMAIN tg[f]} = {LinkedTxn(th, t, p) : t \in DOMAIN th[f]}
  BY <1>1
<1>3. AutoLinked(tg, p)[f] = SetToBag({LinkedTxn(tg, t, p) : t \in DOMAIN tg[f]})
  BY LinkedBag DEF InHand
<1>4. AutoLinked(th, p)[f] = SetToBag({LinkedTxn(th, t, p) : t \in DOMAIN th[f]})
  BY LinkedBag DEF InHand
<1> QED BY <1>2, <1>3, <1>4

\* Where no row takes a link nothing changes.
LEMMA NothingToLink ==
  ASSUME NEW tg, InHand(tg), NEW p, NEW f \in Folders, IsLedger(tg[f]),
         \A t \in DOMAIN tg[f] : LinkedTxn(tg, t, p) = t
  PROVE  AutoLinked(tg, p)[f] = tg[f]
<1>1. {LinkedTxn(tg, t, p) : t \in DOMAIN tg[f]} = DOMAIN tg[f]
  OBVIOUS
<1>2. Distinct(tg[f], IdsOf(f))
  BY DEF InHand
<1>3. AutoLinked(tg, p)[f] = SetToBag({LinkedTxn(tg, t, p) : t \in DOMAIN tg[f]})
  BY <1>2, LinkedBag
<1>4. AutoLinked(tg, p)[f] = SetToBag(DOMAIN tg[f])
  BY <1>1, <1>3
<1> QED BY <1>4, SetsAreLedgers, SameRows

\* Of manual entries alone no two are the legs of a swap.
LEMMA ManualTakesNoLink ==
  ASSUME Homes, FilesOK, NEW tg, InHand(tg), NEW p, NEW f \in Folders, tg[f] = ManualTxns(f)
  PROVE  AutoLinked(tg, p)[f] = tg[f]
<1>1. ASSUME NEW t \in DOMAIN tg[f] PROVE LinkedTxn(tg, t, p) = t
  <2>1. t.id \in ManualIds[f] /\ t.id \in IdsOf(f) /\ t.link = <<>>
    BY ManualRowsPlain DEF Distinct, IdsOf, IsPlain
  <2>2. CASE t.id \in Trades
    <3>1. SwapOf[t.id] \in IdsOf(f) /\ SwapOf[t.id] \notin ManualIds[f]
      BY <2>1, <2>2, PartnerAtHome
    <3>2. \A v \in DOMAIN tg[f] : v.id # SwapOf[t.id]
      BY <3>1, ManualRowsPlain DEF Distinct
    <3>3. LinksHeld(tg, SwapOf[t.id]) = {}
      BY <3>1, <3>2, HeldAtHome DEF Held
    <3> QED BY <3>3 DEF LinkedTxn, TakesLink, TakesPrice
  <2>3. CASE t.id \notin Trades
    BY <2>3 DEF LinkedTxn
  <2> QED BY <2>2, <2>3
<1> QED BY <1>1, NothingToLink, ManualRowsPlain

\* The cold ledger of a folder, by its own rows.
LEMMA ColdIsLinked ==
  ASSUME Homes, NoMention, FilesOK, ignored = {}, NEW f \in SourceFolders
  PROVE  /\ InHand(ColdTagged) /\ ColdLedger[f] = AutoLinked(ColdTagged, prices)[f]
         /\ IsLedger(ColdLedger[f]) /\ Distinct(ColdLedger[f], IdsOf(f))
         /\ ColdLedger[f] = SetToBag({LinkedTxn(ColdTagged, t, prices) : t \in DOMAIN Raw(f)})
<1>1. InHand(ColdTagged) /\ f \in Folders
  BY ColdIsRaw, RawRows DEF InHand, SourceFolders
<1>2. ColdLedger[f] = AutoLinked(ColdTagged, prices)[f]
  BY <1>1 DEF ColdLedger
<1>3. ColdLedger[f] = SetToBag({LinkedTxn(ColdTagged, t, prices) : t \in DOMAIN Raw(f)})
  <2>1. Distinct(ColdTagged[f], IdsOf(f)) /\ ColdTagged[f] = Raw(f)
    BY <1>1, ColdIsRaw DEF InHand
  <2>2. AutoLinked(ColdTagged, prices)[f] =
          SetToBag({LinkedTxn(ColdTagged, t, prices) : t \in DOMAIN ColdTagged[f]})
    BY <1>1, <2>1, LinkedBag
  <2> QED BY <1>2, <2>1, <2>2
<1>4. Distinct(ColdLedger[f], IdsOf(f))
  BY <1>1, <1>2, LinkedDistinct DEF InHand
<1> QED BY <1>1, <1>2, <1>3, <1>4, SetsAreLedgers

\* Fresh rows are linked as in a cold run.
LEMMA FreshIsLinked ==
  ASSUME Homes, NoMention, FilesOK, ignored = {}, NEW tg, InHand(tg), NEW f \in SourceFolders,
         tg[f] = Raw(f)
  PROVE  AutoLinked(tg, prices)[f] = ColdLedger[f]
<1>1. f \in Folders
  BY DEF SourceFolders
<1>2. InHand(ColdTagged) /\ ColdTagged[f] = tg[f]
  BY <1>1, ColdIsLinked, ColdIsRaw
<1>3. AutoLinked(tg, prices)[f] = AutoLinked(ColdTagged, prices)[f]
  BY <1>1, <1>2, LinkingIsLocal
<1> QED BY <1>3, ColdIsLinked

\* If none of them is a leg of a swap there is nothing to link.
LEMMA FreshWithoutTrades ==
  ASSUME Homes, NoMention, FilesOK, ignored = {}, NEW f \in SourceFolders,
         \A t \in DOMAIN Raw(f) : t.id \notin Trades
  PROVE  ColdLedger[f] = Raw(f)
<1>1. f \in Folders
  BY DEF SourceFolders
<1>2. \A t \in DOMAIN Raw(f) : LinkedTxn(ColdTagged, t, prices) = t
  BY DEF LinkedTxn
<1>3. InHand(ColdTagged) /\ ColdTagged[f] = Raw(f) /\ IsLedger(Raw(f))
  BY <1>1, ColdIsLinked, ColdIsRaw, RawRows
<1>4. AutoLinked(ColdTagged, prices)[f] = ColdTagged[f]
  BY <1>1, <1>2, <1>3, NothingToLink
<1> QED BY <1>3, <1>4, ColdIsLinked

\* A ledger as a cold run writes it is left alone when it is linked again.
LEMMA ColdStaysLinked ==
  ASSUME Homes, NoMention, FilesOK, ignored = {}, prices = 0, NEW tg, InHand(tg),
         NEW f \in SourceFolders, tg[f] = ColdLedger[f]
  PROVE  AutoLinked(tg, prices)[f] = ColdLedger[f]
<1>1. f \in Folders
  BY DEF SourceFolders
<1> DEFINE L(t) == LinkedTxn(ColdTagged, t, 0)
           D == DOMAIN Raw(f)
<1>2. DOMAIN tg[f] = {L(t) : t \in D}
  <2>1. tg[f] = SetToBag({L(t) : t \in D})
    BY ColdIsLinked
  <2> HIDE DEF L, D
  <2> QED BY <2>1, SetsAreLedgers
<1>3. ASSUME NEW u \in DOMAIN tg[f] PROVE LinkedTxn(tg, u, 0) = u
  <2>1. PICK t \in D : u = L(t)
    BY <1>2
  <2>2. IsPlain(t) /\ t.id \in IdsOf(f)
    BY <1>1, RawRows DEF Distinct
  <2>3. CASE t.id \notin Trades
    BY <2>1, <2>3 DEF LinkedTxn
  <2>4. CASE t.id \in Trades
    <3>1. SwapOf[t.id] \in IdsOf(f)
      BY <1>1, <2>2, <2>4, PartnerAtHome
    <3>2. CASE <<>> \in LinksHeld(ColdTagged, SwapOf[t.id])
      <4>1. u = [t EXCEPT !.link = <<0>>]
        BY <2>1, <2>2, <2>4, <3>2 DEF LinkedTxn, TakesLink, IsPlain
      <4>2. DOMAIN u = {"id", "cls", "link"} /\ u.link = <<0>> /\ u = [x \in {"id", "cls", "link"} |-> u[x]]
        BY <2>2, <4>1 DEF IsPlain
      <4>3. [u EXCEPT !.link = <<0>>] = u
        BY <4>1, <4>2
      <4> QED BY <4>3 DEF LinkedTxn
    <3>3. CASE <<>> \notin LinksHeld(ColdTagged, SwapOf[t.id])
      <4>1. u = t
        BY <2>1, <2>2, <3>3 DEF LinkedTxn, TakesLink, TakesPrice, IsPlain
      <4>2. \A v \in D : v.id # SwapOf[t.id]
        <5>3. InHand(ColdTagged) /\ ColdTagged[f] = Raw(f)
          BY <1>1, ColdIsLinked, ColdIsRaw
        <5>1. LinksHeld(ColdTagged, SwapOf[t.id]) = Held(Raw(f), SwapOf[t.id])
          BY <1>1, <3>1, <5>3, HeldAtHome
        <5> QED BY <1>1, <3>3, <5>1, RawRows DEF Held, IsPlain
      <4>3. \A w \in DOMAIN tg[f] : w.id # SwapOf[t.id]
        <5>1. \A v \in D : "id" \in DOMAIN v
          BY <1>1, RawRows DEF IsPlain
        <5>2. \A v \in D : L(v).id = v.id
          BY <5>1, LinkedId
        <5> HIDE DEF L
        <5> QED BY <1>2, <4>2, <5>2
      <4>4. LinksHeld(tg, SwapOf[t.id]) = {}
        BY <1>1, <3>1, <4>3, HeldAtHome DEF Held
      <4> QED BY <4>1, <4>4 DEF LinkedTxn, TakesLink, TakesPrice
    <3> QED BY <3>2, <3>3
  <2> QED BY <2>3, <2>4
<1> QED BY <1>1, <1>3, ColdIsLinked, NothingToLink

-----------------------------------------------------------------------------
(* The inductive invariant.                                                *)

Planned == {"compile", "write", "manifest"}
Written == {"write", "manifest"}

Time == 0..clock
Stamps == Time \X Time \X Time

ClockOK ==
  /\ clock \in Nat /\ stamp \in [Files -> Time]
  /\ ignored = {} /\ prices = 0
  /\ DOMAIN script = Places /\ DOMAIN rules = Places
  /\ \E S : gen \in [Folders -> S]

\* A recorded fingerprint is one that was.
FpsOK(fps) == DOMAIN fps = Folders /\ \A f \in Folders : fps[f] # NoFile => fps[f] \in Stamps
InputsOK(i) == i # NoFile => i \in [Files -> Time]

ManifestOK ==
  /\ FpsOK(LoadedManifest.fps) /\ DOMAIN LoadedManifest.outs = Folders
  /\ InputsOK(LoadedManifest.inputs)
  /\ DOMAIN LoadedManifest = {"inputs", "fps", "outs"}

\* The ledger of a folder whose recorded fingerprint is that of its files now is
\* the one recorded, and right.
Current(f) == gen[f] = ColdLedger[f] /\ (csv[f] # NoFile => Script(f) # NoFile)
DiskSound ==
  \A f \in SourceFolders :
    LoadedManifest.fps[f] = FolderFp(f) => gen[f] = LoadedManifest.outs[f] /\ Current(f)

\* Nothing was edited since the run began, or since a fingerprint was taken of everything.
Calm == stamp \in {run.inputs, LoadedManifest.inputs} \/ run.began = clock

RunOK ==
  pc # "idle" =>
    /\ {"kind", "began", "srcs", "inputs", "cached"} \subseteq DOMAIN run
    /\ run.began \in Time /\ run.srcs \subseteq Folders
    /\ InputsOK(run.inputs) /\ (run.kind = "hint" \/ pc = "list" => run.inputs = NoFile)
    /\ run.began = clock /\ run.kind # "hint" /\ pc # "list" => run.inputs = stamp
    /\ run.kind \in {"full", "force", "hint"}
    /\ DOMAIN run.cached = {"inputs", "fps", "outs"} /\ DOMAIN run.cached.outs = Folders
    /\ pc \notin {"fcache", "meta"} =>
         run.cached.fps = LoadedManifest.fps /\ run.cached.inputs = LoadedManifest.inputs
    /\ pc \notin {"fcache", "meta"} \cup Written => run.cached.outs = LoadedManifest.outs

\* The list of folders is that of the fingerprint, or the fingerprint shows what came.
SrcsOK ==
  /\ pc = "list" => run.srcs = SourceFolders
  /\ pc # "idle" /\ Calm => run.srcs = SourceFolders
  /\ pc \in {"list", "check", "scan"} =>
       \A f \in SourceFolders \ run.srcs : LoadedManifest.fps[f] # FolderFp(f)
  /\ pc \in {"list", "check", "scan"} => {"hint", "csvs"} \subseteq DOMAIN run
  /\ pc = "scan" => run.csvs = {f \in Folders : csv[f] # NoFile}

PlanOK ==
  pc \in Planned =>
    /\ "fps" \in DOMAIN run /\ FpsOK(run.fps)
    /\ \A f \in SourceFolders : run.cached.fps[f] = FolderFp(f) => run.fps[f] = FolderFp(f)
    /\ \A f \in Folders : run.fps[f] # NoFile => f \in run.srcs
    /\ Calm /\ run.kind # "hint" => \A f \in run.srcs : run.fps[f] = FolderFp(f)

\* Files are as they were when the fingerprints were taken.
Still(f) == f \in SourceFolders /\ run.fps[f] = FolderFp(f)

Reading(f) == run.reading # NoFile /\ run.reading.folder = f

CompileOK ==
  pc = "compile" =>
    /\ {"unchanged", "csvs", "ignored", "intact", "rewrite", "todo", "reading", "tagged", "declared", "entries"} \subseteq DOMAIN run
    /\ DOMAIN run.tagged = Folders
    /\ run.unchanged \subseteq run.srcs /\ run.csvs \subseteq Folders
    /\ run.ignored = {} /\ run.intact \subseteq run.unchanged /\ run.rewrite \subseteq run.unchanged
    /\ run.todo \subseteq run.csvs \ run.unchanged
    /\ run.reading # NoFile =>
          "chain" \in DOMAIN run.reading /\ run.reading.folder \in (run.csvs \ run.unchanged) \ run.todo
    /\ \A f \in Folders \ (run.srcs \cup run.csvs) : run.tagged[f] = EmptyBag
    /\ \A f \in run.unchanged : run.fps[f] = run.cached.fps[f]
    /\ Calm => run.csvs = {f \in Folders : csv[f] # NoFile}
    /\ \A f \in Folders : Still(f) =>
         /\ f \in run.csvs <=> csv[f] # NoFile
         /\ f \in run.unchanged =>
              /\ f \notin run.rewrite
              /\ run.tagged[f] = IF f \in run.intact THEN ColdLedger[f] ELSE EmptyBag
         /\ Reading(f) => run.reading.chain = Chain(f) /\ Script(f) # NoFile
         /\ f \notin run.unchanged \cup run.todo /\ ~Reading(f) =>
              run.tagged[f] = CsvBag(f) /\ (csv[f] # NoFile => Script(f) # NoFile)

WriteOK ==
  pc \in Written =>
    /\ {"tagged", "changed", "todo"} \subseteq DOMAIN run
    /\ run.todo \subseteq run.changed /\ run.changed \subseteq Folders
    /\ pc = "manifest" => run.todo = {}
    /\ \A f \in Folders : Still(f) =>
         /\ f \in run.changed => run.tagged[f] = ColdLedger[f] /\ (csv[f] # NoFile => Script(f) # NoFile)
         /\ f \notin run.changed => run.cached.fps[f] = run.fps[f]
    /\ \A f \in run.changed : run.tagged[f] # NoFile
    /\ \A f \in run.changed \ run.todo : gen[f] = run.tagged[f]
    /\ \A f \in run.srcs \cup run.changed :
         run.cached.outs[f] = IF f \in run.changed \ run.todo THEN run.tagged[f] ELSE LoadedManifest.outs[f]
    /\ Calm => run.changed \subseteq SourceFolders

\* Nothing is left of a folder that is gone, after a run under which nothing was edited.
Clean == \A f \in Folders \ SourceFolders : gen[f] = NoFile

RecordedOK ==
  MaxCrash = 0 =>
    /\ crashes = 0
    /\ \A f \in Folders : gen[f] # NoFile =>
         IF pc \in Written THEN run.cached.outs[f] # NoFile ELSE LoadedManifest.outs[f] # NoFile

KeptOK ==
  "dropcsv" \notin Env =>
    /\ Clean
    /\ pc # "idle" => run.srcs \subseteq SourceFolders
    /\ pc \in {"scan", "compile"} => run.csvs \subseteq SourceFolders
    /\ pc \in Written => run.changed \subseteq SourceFolders

AllCurrent == \A f \in SourceFolders : LoadedManifest.fps[f] = FolderFp(f)
EndOK ==
  /\ LoadedManifest.inputs = stamp => AllCurrent /\ (NoOrphans => Clean)
  /\ pc = "manifest" /\ Calm /\ NoOrphans => Clean
  /\ pc \in {"fcache", "meta"} /\ run.began = clock =>
       /\ run.kind # "hint" => AllCurrent
       /\ NoOrphans => Clean

LInv ==
  /\ ClockOK /\ ManifestOK /\ DiskSound /\ RunOK /\ SrcsOK /\ PlanOK
  /\ CompileOK /\ WriteOK /\ RecordedOK /\ KeptOK /\ EndOK

-----------------------------------------------------------------------------
(* Edits.                                                                  *)

\* What a folder compiles to, before and after a step.
ColdRows == Homes /\ NoMention /\ FilesOK /\ ignored = {} =>
              \A f \in Folders : ColdTagged[f] = Raw(f) /\ Distinct(Raw(f), IdsOf(f))
\* It is what its files hold.
LEMMA ColdRowsHold == ColdRows
BY ColdIsRaw, RawRows DEF ColdRows

\* The same after the step.
LEMMA ColdRowsHoldNext == ColdRows'
BY ColdRowsHold, PTL

\* The files that a folder is compiled from, its own and those above it.
Kept(f) ==
  /\ csv'[f] = csv[f] /\ manual'[f] = manual[f]
  /\ Script(f)' = Script(f) /\ RulesChain(f)' = RulesChain(f)

\* Where they are kept, so is what the folder compiles to.
LEMMA ColdStays ==
  ASSUME Homes, NoMention, FilesOK, FilesOK', ignored = {}, ignored' = {}, prices' = prices,
         NEW f \in SourceFolders, Kept(f)
  PROVE  /\ f \in SourceFolders' /\ ColdLedger'[f] = ColdLedger[f]
         /\ CsvBag(f)' = CsvBag(f) /\ ManualTxns(f)' = ManualTxns(f) /\ Chain(f)' = Chain(f)
<1>1. f \in Folders /\ f \in SourceFolders'
  BY DEF SourceFolders, Kept
<1>2. Chain(f)' = Chain(f)
  BY DEF Chain, Kept
<1>3. CsvBag(f)' = CsvBag(f)
  BY <1>2 DEF CsvBag, Kept
<1>4. ManualTxns(f)' = ManualTxns(f)
  BY DEF ManualTxns, Kept
<1>5. InHand(ColdTagged') /\ ColdTagged'[f] = Raw(f)
  BY <1>1, <1>3, <1>4, ColdRowsHoldNext DEF ColdRows, InHand, Raw, Homes, NoMention
<1>6. AutoLinked(ColdTagged', prices)[f] = ColdLedger[f]
  BY <1>5, FreshIsLinked
<1>7. ColdLedger'[f] = AutoLinked(ColdTagged', prices')[f]
  BY <1>1 DEF ColdLedger
<1> QED BY <1>1, <1>2, <1>3, <1>4, <1>6, <1>7

\* An edit of a place gives it a stamp that was nowhere recorded, and leaves the files
\* of the folders that the place does not belong to.
Below(x, f) == x \in {Data(f), Rules(f), Rules(Above[f])}
Edited(x) ==
  /\ stamp' = [stamp EXCEPT ![x] = clock + 1] /\ clock' = clock + 1
  /\ UNCHANGED <<gen, manifest, fcache, meta, pc, run, crashes, ignored, prices>>
  /\ \A f \in Folders : ~Below(x, f) => Kept(f)
  /\ DOMAIN script' = Places /\ DOMAIN rules' = Places
  /\ pc \in {"list", "scan"} =>
       \A f \in Folders : (csv'[f] = NoFile <=> csv[f] = NoFile) /\ (manual'[f] = NoFile <=> manual[f] = NoFile)
  /\ "dropcsv" \notin Env =>
       \A f \in Folders : (csv'[f] = NoFile => csv[f] = NoFile) /\ (manual'[f] = NoFile => manual[f] = NoFile)

\* Every edit is one.
LEMMA EditsTouch ==
  ASSUME Gentle, ClockOK, DInv, Environment
  PROVE  \E x \in Files : Edited(x)
<1>1. \A p, q \in Places : /\ Data(p) = Data(q) => p = q
                           /\ Rules(p) = Rules(q) => p = q
                           /\ Data(p) # Rules(q)
                           /\ Ignored \notin {Data(p), Rules(p)} /\ Prices \notin {Data(p), Rules(p)}
  BY DEF Data, Rules, Ignored, Prices
<1>2. /\ \A p \in Places : Data(p) \in Files /\ Rules(p) \in Files
      /\ Ignored \in Files
  BY DEF Files
<1>3. \A f \in Folders : f \in Places /\ Above[f] \in Places /\ f \notin Dirs /\ Above[f] \in Dirs
  BY SourcesAssumption DEF Places
<1>4. /\ DOMAIN csv = Folders /\ DOMAIN manual = Folders
      /\ DOMAIN script = Places /\ DOMAIN rules = Places
      /\ ignored = {} /\ NoFile \notin SUBSET Ids
  BY DEF DInv, DiskDistinct, ClockOK, Gentle, NoFileIsNothing
<1>5. \A f \in Folders : CsvRows[f] \subseteq Ids /\ ManualIds[f] \subseteq Ids
  BY DEF Ids
<1>6. \A x \in {"racy", "listrace", "midtransform", "dirscript", "dropdirscript", "ignore",
            "prices", "clobber"} : x \notin Env
  BY DEF Gentle, PlainEdits
<1>7. ASSUME NEW f \in Folders, EditCsv(f) PROVE Edited(Data(f))
  <2>1. PICK rows \in (SUBSET CsvRows[f]) \ {{}, csv[f]} : csv' = [csv EXCEPT ![f] = rows]
    BY <1>7 DEF EditCsv
  <2>2. rows # NoFile
    BY <1>4, <1>5, <2>1
  <2>3. \A g \in Folders : g # f => csv'[g] = csv[g]
    BY <1>4, <2>1
  <2>4. csv'[f] = rows
    BY <1>4, <2>1
  <2>5. \A g \in Folders : ~Below(Data(f), g) => Kept(g)
    BY <1>7, <2>3 DEF EditCsv, Kept, Below, Script, RulesChain
  <2>6. stamp' = [stamp EXCEPT ![Data(f)] = clock + 1]
    BY <1>6, <1>7 DEF EditCsv, Touch
  <2>7. pc \in {"list", "scan"} => csv[f] # NoFile
    BY <1>6, <1>7 DEF EditCsv, Listable
  <2>8. UNCHANGED <<gen, manifest, fcache, meta, pc, run, crashes, ignored, prices, manual, script, rules>> /\ clock' = clock + 1
    BY <1>7 DEF EditCsv, Edit
  <2> QED BY <1>4, <2>2, <2>3, <2>4, <2>5, <2>6, <2>7, <2>8 DEF Edited
<1>8. ASSUME NEW f \in Folders, DropCsv(f) PROVE Edited(Data(f))
  <2>1. \A g \in Folders : g # f => csv'[g] = csv[g]
    BY <1>4, <1>8 DEF DropCsv
  <2>2. \A g \in Folders : ~Below(Data(f), g) => Kept(g)
    BY <1>8, <2>1 DEF DropCsv, Kept, Below, Script, RulesChain
  <2>3. stamp' = [stamp EXCEPT ![Data(f)] = clock + 1] /\ "dropcsv" \in Env
    BY <1>6, <1>8 DEF DropCsv, Touch, Edit
  <2>4. pc \notin {"list", "scan"}
    BY <1>6, <1>8 DEF DropCsv, Listable
  <2>5. UNCHANGED <<gen, manifest, fcache, meta, pc, run, crashes, ignored, prices, script, rules>> /\ clock' = clock + 1
    BY <1>8 DEF DropCsv, Edit
  <2> QED BY <1>4, <2>2, <2>3, <2>4, <2>5 DEF Edited
<1>9. ASSUME NEW f \in Folders, EditManual(f) PROVE Edited(Data(f))
  <2>1. PICK ids \in (SUBSET ManualIds[f]) \ {manual[f]} : manual' = [manual EXCEPT ![f] = ids]
    BY <1>9 DEF EditManual
  <2>2. ids # NoFile
    BY <1>4, <1>5, <2>1
  <2>3. \A g \in Folders : g # f => manual'[g] = manual[g]
    BY <1>4, <2>1
  <2>4. manual'[f] = ids
    BY <1>4, <2>1
  <2>5. \A g \in Folders : ~Below(Data(f), g) => Kept(g)
    BY <1>9, <2>3 DEF EditManual, Kept, Below, Script, RulesChain
  <2>6. stamp' = [stamp EXCEPT ![Data(f)] = clock + 1]
    BY <1>6, <1>9 DEF EditManual, Touch
  <2>7. pc \in {"list", "scan"} => manual[f] # NoFile
    BY <1>6, <1>9 DEF EditManual, Listable
  <2>8. UNCHANGED <<gen, manifest, fcache, meta, pc, run, crashes, ignored, prices, csv, script, rules>> /\ clock' = clock + 1
    BY <1>9 DEF EditManual, Edit
  <2> QED BY <1>4, <2>2, <2>3, <2>4, <2>5, <2>6, <2>7, <2>8 DEF Edited
<1>10. ASSUME NEW p \in Places, EditRules(p) PROVE Edited(Rules(p))
  <2>1. \A g \in Places : g # p => rules'[g] = rules[g]
    BY <1>4, <1>10 DEF EditRules
  <2>2. \A g \in Folders : ~Below(Rules(p), g) => Kept(g)
    BY <1>3, <1>10, <2>1 DEF EditRules, Kept, Below, Script, RulesChain
  <2>3. stamp' = [stamp EXCEPT ![Rules(p)] = clock + 1]
    BY <1>6, <1>10 DEF EditRules, Touch
  <2>4. UNCHANGED <<gen, manifest, fcache, meta, pc, run, crashes, ignored, prices, csv, script, manual>> /\ clock' = clock + 1
        /\ DOMAIN rules' = Places
    BY <1>4, <1>10 DEF EditRules, Edit
  <2> QED BY <1>4, <2>2, <2>3, <2>4 DEF Edited
<1>11. ASSUME NEW p \in Places, EditScript(p) \/ DropScript(p) PROVE Edited(Data(p))
  <2>1. \A g \in Places : g # p => script'[g] = script[g]
    BY <1>4, <1>11 DEF EditScript, DropScript
  <2>2. p \notin Dirs
    BY <1>6, <1>11 DEF EditScript, DropScript, Edit
  <2>3. \A g \in Folders : ~Below(Data(p), g) => Kept(g)
    BY <1>3, <1>11, <2>1, <2>2 DEF EditScript, DropScript, Kept, Below, Script, RulesChain
  <2>4. stamp' = [stamp EXCEPT ![Data(p)] = clock + 1]
    BY <1>6, <1>11 DEF EditScript, DropScript, Touch
  <2>5. UNCHANGED <<gen, manifest, fcache, meta, pc, run, crashes, ignored, prices, csv, manual, rules>> /\ clock' = clock + 1
        /\ DOMAIN script' = Places
    BY <1>4, <1>11 DEF EditScript, DropScript, Edit
  <2> QED BY <1>4, <2>3, <2>4, <2>5 DEF Edited
<1>12. ~EditPrices /\ (\A f \in Folders : ~Clobber(f)) /\ \A id \in Ids : ~Ignore(id) /\ ~Unignore(id)
  BY <1>4, <1>6 DEF EditPrices, Clobber, Ignore, Unignore, Edit
<1>13. \/ \E f \in Folders : EditCsv(f) \/ DropCsv(f) \/ EditManual(f)
       \/ \E p \in Places : EditRules(p) \/ EditScript(p) \/ DropScript(p)
  BY <1>12 DEF Environment
<1>14. \A p \in Places : Data(p) \in Files /\ Rules(p) \in Files
  BY <1>2
<1> QED BY <1>3, <1>7, <1>8, <1>9, <1>10, <1>11, <1>13, <1>14

\* A folder whose files no step touched.
Same(f) ==
  /\ f \in SourceFolders /\ FolderFp(f)' = FolderFp(f) /\ Kept(f)
  /\ ColdLedger'[f] = ColdLedger[f] /\ CsvBag(f)' = CsvBag(f) /\ Chain(f)' = Chain(f)
Recorded(v) == v = NoFile \/ v \in Stamps

\* So a recorded fingerprint that is current after an edit was so before it, and of
\* the same files.
LEMMA EditsFresh ==
  ASSUME Gentle, ClockOK, FilesOK, FilesOK', NEW x \in Files, Edited(x)
  PROVE  /\ Time \subseteq Time' /\ Stamps \subseteq Stamps' /\ clock \in Time /\ clock' \notin Time
         /\ stamp' \in [Files -> Time'] /\ stamp' \notin [Files -> Time] /\ stamp' # NoFile
         /\ \A f \in SourceFolders' : \A v : Recorded(v) /\ v = FolderFp(f)' => Same(f)
<1>1. clock \in Nat /\ clock' = clock + 1 /\ stamp \in [Files -> Time]
  BY DEF ClockOK, Edited
<1>2. Time \subseteq Time' /\ clock + 1 \in Time' /\ clock + 1 \notin Time /\ clock \in Time
  BY <1>1 DEF Time
<1>3. Stamps \subseteq Stamps'
  BY <1>2 DEF Stamps
<1>4. stamp' = [stamp EXCEPT ![x] = clock + 1]
  BY DEF Edited
<1>5. stamp' \in [Files -> Time'] /\ stamp'[x] = clock + 1
  BY <1>1, <1>2, <1>4
<1>6. stamp' \notin [Files -> Time] /\ stamp' # NoFile
  <2>1. stamp' \in [Files -> Nat]
    BY <1>1, <1>5 DEF Time
  <2> QED BY <1>2, <1>5, <2>1 DEF Gentle, NoFileIsNothing
<1>7. ASSUME NEW f \in SourceFolders', NEW v, Recorded(v), v = FolderFp(f)'
      PROVE  Same(f)
  <2>1. f \in Folders
    BY <1>7 DEF SourceFolders
  <2>2. Data(f) \in Files /\ Rules(f) \in Files /\ Rules(Above[f]) \in Files
    BY <2>1, SourcesAssumption DEF Files, Places
  <2>3. v = <<stamp'[Data(f)], stamp'[Rules(f)], stamp'[Rules(Above[f])]>>
    BY <1>7 DEF FolderFp, Data, Rules
  <2>4. v # NoFile
    BY <2>3 DEF Gentle, NoFileIsNothing
  <2>5. stamp'[Data(f)] \in Time /\ stamp'[Rules(f)] \in Time /\ stamp'[Rules(Above[f])] \in Time
    BY <1>7, <2>3, <2>4 DEF Recorded, Stamps
  <2>6. ~Below(x, f)
    BY <1>2, <1>5, <2>5 DEF Below
  <2>7. FolderFp(f)' = FolderFp(f)
    BY <1>1, <1>4, <2>2, <2>3, <2>6, <1>7 DEF FolderFp, Below
  <2>8. Kept(f)
    BY <2>1, <2>6 DEF Edited
  <2>9. f \in SourceFolders
    BY <1>7, <2>1, <2>8 DEF SourceFolders, Kept
  <2>10. ignored = {} /\ ignored' = {} /\ prices' = prices
    BY DEF ClockOK, Edited
  <2> QED BY <2>7, <2>8, <2>9, <2>10, ColdStays DEF Gentle, Same
<1> QED BY <1>2, <1>3, <1>5, <1>6, <1>7, <1>1

\* So an edit keeps the invariant.
LEMMA EnvironmentLInv ==
  ASSUME Gentle, DInv, LInv, Environment
  PROVE  LInv'
<1>1. PICK x \in Files : Edited(x)
  BY EditsTouch DEF LInv
<1>2. FilesOK /\ FilesOK' /\ ClockOK
  BY EnvironmentDistinct DEF DInv, LInv
<1>3. /\ Time \subseteq Time' /\ Stamps \subseteq Stamps' /\ clock \in Time /\ clock' \notin Time
      /\ stamp' \in [Files -> Time'] /\ stamp' \notin [Files -> Time] /\ stamp' # NoFile
  BY <1>1, <1>2, EditsFresh
<1>4. \A f \in SourceFolders' : \A v : Recorded(v) /\ v = FolderFp(f)' => Same(f)
  BY <1>1, <1>2, EditsFresh
<1>5. UNCHANGED <<gen, manifest, fcache, meta, pc, run, crashes, ignored, prices>> /\ clock' = clock + 1
  BY <1>1 DEF Edited
<1>6. LoadedManifest' = LoadedManifest
  BY <1>5 DEF LoadedManifest
<1>7. ClockOK'
  BY <1>1, <1>2, <1>3, <1>5 DEF ClockOK, Edited
<1>8. ManifestOK'
  BY <1>3, <1>6 DEF LInv, ManifestOK, FpsOK, InputsOK
<1>9. \A f \in Folders : Recorded(LoadedManifest.fps[f])
  BY DEF LInv, ManifestOK, FpsOK, Recorded
<1>10. pc \in Planned => \A f \in Folders : Recorded(run.fps[f]) /\ Recorded(run.cached.fps[f])
  BY <1>9 DEF LInv, PlanOK, FpsOK, Recorded, Planned, RunOK
<1>11. SourceFolders' \subseteq Folders /\ SourceFolders \subseteq Folders
  BY DEF SourceFolders
<1>12. DiskSound'
  <2> SUFFICES ASSUME NEW f \in SourceFolders', LoadedManifest.fps[f] = FolderFp(f)'
               PROVE  gen'[f] = LoadedManifest'.outs[f] /\ Current(f)'
    BY <1>6 DEF DiskSound
  <2>1. Same(f)
    BY <1>4, <1>9, <1>11
  <2>2. gen[f] = LoadedManifest.outs[f] /\ Current(f)
    BY <2>1 DEF Same, LInv, DiskSound
  <2> QED BY <1>5, <1>6, <2>1, <2>2 DEF Same, Kept, Current
<1>13. pc # "idle" => ~Calm'
  BY <1>3, <1>5, <1>6 DEF LInv, Calm, RunOK, ManifestOK, InputsOK
<1>14. RunOK'
  BY <1>3, <1>5, <1>6 DEF LInv, RunOK, InputsOK
<1>15. pc \in {"list", "scan"} =>
         SourceFolders' = SourceFolders /\ {f \in Folders : csv'[f] # NoFile} = {f \in Folders : csv[f] # NoFile}
  BY <1>1 DEF Edited, SourceFolders
<1>16. SrcsOK'
  <2>1. ASSUME pc \in {"list", "check", "scan"}, NEW f \in SourceFolders' \ run.srcs
        PROVE  LoadedManifest.fps[f] # FolderFp(f)'
    <3> SUFFICES ASSUME LoadedManifest.fps[f] = FolderFp(f)' PROVE FALSE
      OBVIOUS
    <3>1. Same(f)
      BY <1>4, <1>9, <1>11
    <3> QED BY <2>1, <3>1 DEF Same, LInv, SrcsOK
  <2> QED BY <1>5, <1>6, <1>13, <1>15, <2>1 DEF LInv, SrcsOK
<1>17. PlanOK'
  <2>1. ASSUME pc \in Planned, NEW f \in SourceFolders', run.cached.fps[f] = FolderFp(f)'
        PROVE  run.fps[f] = FolderFp(f)'
    <3>1. Same(f)
      BY <1>4, <1>10, <1>11, <2>1
    <3> QED BY <2>1, <3>1 DEF Same, LInv, PlanOK
  <2>2. pc \in Planned => pc # "idle"
    BY DEF Planned
  <2> QED BY <1>3, <1>5, <1>13, <2>1, <2>2 DEF LInv, PlanOK, FpsOK
<1>18. \A f \in Folders : pc \in Planned /\ Still(f)' => Still(f) /\ Same(f)
  BY <1>4, <1>5, <1>10 DEF Still, Same
<1>19. CompileOK'
  <2>1. ASSUME pc = "compile" PROVE \A f \in Folders : Still(f)' => Still(f) /\ Same(f)
    BY <1>18, <2>1 DEF Planned
  <2> QED BY <1>5, <1>13, <2>1 DEF LInv, CompileOK, Same, Kept, Reading
<1>20. WriteOK'
  <2>1. ASSUME pc \in Written PROVE \A f \in Folders : Still(f)' => Still(f) /\ Same(f)
    BY <1>18, <2>1 DEF Planned, Written
  <2>2. pc \in Written => pc # "idle"
    BY DEF Written
  <2> QED BY <1>5, <1>6, <1>13, <2>1, <2>2 DEF LInv, WriteOK, Same, Kept
<1>21. RecordedOK'
  BY <1>5, <1>6 DEF LInv, RecordedOK
<1>22. KeptOK'
  <2>1. "dropcsv" \notin Env => SourceFolders \subseteq SourceFolders'
    BY <1>1 DEF Edited, SourceFolders
  <2> QED BY <1>5, <2>1 DEF LInv, KeptOK, Clean
<1>23. EndOK'
  BY <1>3, <1>5, <1>6, <1>13 DEF LInv, EndOK, ManifestOK, InputsOK, RunOK
<1> QED BY <1>7, <1>8, <1>12, <1>14, <1>16, <1>17, <1>19, <1>20, <1>21, <1>22, <1>23 DEF LInv

-----------------------------------------------------------------------------
(* The steps of a run.                                                     *)

\* They leave the sources alone, and with them what a cold run makes of them.
LEMMA SourcesStay ==
  ASSUME UNCHANGED sources
  PROVE  /\ UNCHANGED <<csv, manual, script, rules, ignored, prices, stamp, clock>>
         /\ SourceFolders' = SourceFolders /\ ColdLedger' = ColdLedger
         /\ Time' = Time /\ Stamps' = Stamps
         /\ \A f \in Folders : /\ FolderFp(f)' = FolderFp(f) /\ CsvBag(f)' = CsvBag(f)
                               /\ Chain(f)' = Chain(f) /\ Script(f)' = Script(f)
<1>1. UNCHANGED <<csv, manual, script, rules, ignored, prices, stamp, clock>>
  BY DEF sources
<1>2. SourceFolders' = SourceFolders /\ Time' = Time /\ Stamps' = Stamps
  BY <1>1 DEF SourceFolders, Time, Stamps
<1>3. ASSUME NEW f \in Folders
      PROVE  /\ FolderFp(f)' = FolderFp(f) /\ CsvBag(f)' = CsvBag(f) /\ Chain(f)' = Chain(f)
             /\ Script(f)' = Script(f) /\ ManualTxns(f)' = ManualTxns(f)
  BY <1>1 DEF FolderFp, CsvBag, Chain, Script, RulesChain, ManualTxns
<1>4. ColdTagged' = ColdTagged
  BY <1>1, <1>2, <1>3 DEF ColdTagged
<1>5. ColdLedger' = ColdLedger
  BY <1>1, <1>2, <1>4 DEF ColdLedger
<1> QED BY <1>1, <1>2, <1>3, <1>5

\* A step that writes no ledger and no manifest keeps what is said of them.
LEMMA DiskStays ==
  ASSUME LInv, UNCHANGED <<sources, gen, manifest>>
  PROVE  /\ LoadedManifest' = LoadedManifest /\ ClockOK' /\ ManifestOK' /\ DiskSound'
         /\ Clean' = Clean /\ AllCurrent' = AllCurrent
         /\ LoadedManifest.inputs = stamp => AllCurrent /\ (NoOrphans => Clean)
<1>1. LoadedManifest' = LoadedManifest
  BY DEF LoadedManifest
<1>2. UNCHANGED <<csv, manual, script, rules, ignored, prices, stamp, clock>>
  BY DEF sources
<1>3. ClockOK'
  BY <1>2, SourcesStay DEF LInv, ClockOK
<1>4. ManifestOK'
  BY <1>1, SourcesStay DEF LInv, ManifestOK, FpsOK, InputsOK
<1>5. DiskSound'
  BY <1>1, <1>2, SourcesStay DEF LInv, DiskSound, Current, SourceFolders
<1>6. AllCurrent' = AllCurrent /\ Clean' = Clean
  BY <1>1, SourcesStay DEF AllCurrent, Clean, SourceFolders
<1> QED BY <1>1, <1>3, <1>4, <1>5, <1>6 DEF LInv, EndOK

\* A run starts with the folders there are, when nothing is edited yet.
LEMMA BeginLInv ==
  ASSUME LInv, NEW kind \in {"full", "force", "hint"}, NEW hint, Begin(kind, hint)
  PROVE  LInv'
<1>1. /\ pc = "idle" /\ pc' = "list" /\ UNCHANGED <<sources, gen, manifest, crashes>>
      /\ run' = [kind |-> kind, hint |-> hint, began |-> clock,
                 srcs |-> SourceFolders, inputs |-> NoFile, csvs |-> {},
                 cached |-> LoadedManifest, entries |-> LoadedEntries(hint)]
  BY DEF Begin, disk
<1>2. /\ {"kind", "began", "srcs", "inputs", "cached", "hint", "csvs"} \subseteq DOMAIN run'
      /\ run'.kind = kind /\ run'.began = clock /\ run'.srcs = SourceFolders
      /\ run'.inputs = NoFile /\ run'.cached = LoadedManifest
  BY <1>1
<1>3. RunOK'
  BY <1>1, <1>2, DiskStays, SourcesStay DEF LInv, ClockOK, ManifestOK, RunOK, SourceFolders, InputsOK, Time
<1>4. SrcsOK'
  BY <1>1, <1>2, SourcesStay DEF SrcsOK
<1>5. PlanOK' /\ CompileOK' /\ WriteOK'
  BY <1>1 DEF PlanOK, CompileOK, WriteOK, Planned, Written
<1>6. RecordedOK'
  BY <1>1, DiskStays DEF LInv, RecordedOK, Written
<1>7. KeptOK'
  BY <1>1, <1>2, DiskStays, SourcesStay DEF LInv, KeptOK, Written
<1>8. EndOK'
  BY <1>1, DiskStays, SourcesStay DEF EndOK
<1> QED BY <1>1, <1>3, <1>4, <1>5, <1>6, <1>7, <1>8, DiskStays DEF LInv

\* A run that ends without writing a ledger leaves things as they are.
LEMMA EndLInv ==
  ASSUME LInv, pc \notin Written, pc' = "idle", UNCHANGED <<sources, gen, manifest, crashes>>
  PROVE  LInv'
<1>1. RunOK' /\ SrcsOK' /\ PlanOK' /\ CompileOK' /\ WriteOK'
  BY DEF RunOK, SrcsOK, PlanOK, CompileOK, WriteOK, Planned, Written
<1>2. RecordedOK'
  BY DiskStays DEF LInv, RecordedOK, Written
<1>3. KeptOK'
  BY DiskStays, SourcesStay DEF LInv, KeptOK, Written
<1>4. EndOK'
  BY DiskStays, SourcesStay DEF EndOK
<1> QED BY <1>1, <1>2, <1>3, <1>4, DiskStays DEF LInv

\* The fingerprint of everything is taken when the folders listed are those there are.
LEMMA FingerprintLInv ==
  ASSUME LInv, Fingerprint
  PROVE  LInv'
<1>1. /\ pc = "list" /\ pc' = "check" /\ UNCHANGED <<sources, gen, manifest, crashes>>
      /\ run' = [run EXCEPT !.inputs = IF run.kind = "hint" THEN NoFile ELSE stamp]
  BY DEF Fingerprint, disk, GlobalFp
<1>2. /\ DOMAIN run' = DOMAIN run
      /\ run'.kind = run.kind /\ run'.began = run.began /\ run'.srcs = run.srcs
      /\ run'.cached = run.cached /\ run'.inputs = IF run.kind = "hint" THEN NoFile ELSE stamp
  BY <1>1 DEF LInv, RunOK
<1>3. RunOK'
  BY <1>1, <1>2, DiskStays, SourcesStay DEF LInv, ClockOK, RunOK, InputsOK, Written
<1>4. SrcsOK'
  BY <1>1, <1>2, DiskStays, SourcesStay DEF LInv, SrcsOK, SourceFolders
<1>5. PlanOK' /\ CompileOK' /\ WriteOK'
  BY <1>1 DEF PlanOK, CompileOK, WriteOK, Planned, Written
<1>6. RecordedOK'
  BY <1>1, DiskStays DEF LInv, RecordedOK, Written
<1>7. KeptOK'
  BY <1>1, <1>2, DiskStays, SourcesStay DEF LInv, KeptOK, Written
<1>8. EndOK'
  BY <1>1, DiskStays, SourcesStay DEF EndOK
<1> QED BY <1>1, <1>3, <1>4, <1>5, <1>6, <1>7, <1>8, DiskStays DEF LInv

\* The CSVs are listed.
LEMMA ScanLInv ==
  ASSUME LInv, Scan
  PROVE  LInv'
<1>1. /\ pc = "check" /\ pc' = "scan" /\ UNCHANGED <<sources, gen, manifest, crashes>>
      /\ run' = [run EXCEPT !.csvs = {f \in Folders : csv[f] # NoFile}]
  BY DEF Scan, disk
<1>2. /\ DOMAIN run' = DOMAIN run /\ run'.csvs = {f \in Folders : csv[f] # NoFile}
      /\ run'.kind = run.kind /\ run'.began = run.began /\ run'.srcs = run.srcs
      /\ run'.cached = run.cached /\ run'.inputs = run.inputs
  BY <1>1 DEF LInv, RunOK, SrcsOK
<1>3. RunOK'
  BY <1>1, <1>2, DiskStays, SourcesStay DEF LInv, RunOK, InputsOK, Written
<1>4. SrcsOK'
  <2>1. Calm' => Calm
    BY <1>1, <1>2, DiskStays, SourcesStay DEF Calm
  <2>2. {f \in Folders : csv'[f] # NoFile} = {f \in Folders : csv[f] # NoFile}
    BY <1>1, SourcesStay
  <2> QED BY <1>1, <1>2, <2>1, <2>2, DiskStays, SourcesStay DEF LInv, SrcsOK, SourceFolders
<1>5. PlanOK' /\ CompileOK' /\ WriteOK'
  BY <1>1 DEF PlanOK, CompileOK, WriteOK, Planned, Written
<1>6. RecordedOK'
  BY <1>1, DiskStays DEF LInv, RecordedOK, Written
<1>7. KeptOK'
  <2>1. run'.csvs \subseteq SourceFolders
    BY <1>2 DEF SourceFolders
  <2> QED BY <1>1, <1>2, <2>1, DiskStays, SourcesStay DEF LInv, KeptOK, Written
<1>8. EndOK'
  BY <1>1, DiskStays, SourcesStay DEF EndOK
<1> QED BY <1>1, <1>3, <1>4, <1>5, <1>6, <1>7, <1>8, DiskStays DEF LInv

\* A folder has a fingerprint, made of stamps that were given.
LEMMA FpIsRecorded ==
  ASSUME Gentle, ClockOK, NEW f \in Folders
  PROVE  FolderFp(f) \in Stamps /\ FolderFp(f) # NoFile
<1>1. Data(f) \in Files /\ Rules(f) \in Files /\ Rules(Above[f]) \in Files
  BY SourcesAssumption DEF Files, Places
<1> QED BY <1>1 DEF ClockOK, FolderFp, Stamps, Gentle, NoFileIsNothing

\* A folder is unchanged when its fingerprint is as recorded, and then its ledger is
\* intact and right if the fingerprint is current.
LEMMA PlanLInv ==
  ASSUME Gentle, DInv, LInv, Plan
  PROVE  LInv'
<1> DEFINE unchanged == Unchanged(RunFps)
           loaded == {f \in unchanged : InScope(f)}
<1>1. /\ pc = "scan" /\ pc' = "compile" /\ UNCHANGED <<sources, gen, manifest, crashes>>
      /\ run' = [kind |-> run.kind, began |-> run.began, srcs |-> run.srcs,
                inputs |-> run.inputs, cached |-> run.cached, entries |-> run.entries,
                fps |-> RunFps, unchanged |-> unchanged, csvs |-> run.csvs,
                ignored |-> ignored, declared |-> run.srcs,
                intact |-> {f \in loaded : Intact(f)},
                rewrite |-> {f \in loaded : Rewrite(f)},
                todo |-> run.csvs \ unchanged, reading |-> NoFile,
                tagged |-> [f \in Folders |-> Loaded(f, unchanged)]]
  BY DEF Plan, disk
<1> HIDE DEF unchanged, loaded
<1>2. /\ {"kind", "began", "srcs", "inputs", "cached", "fps", "unchanged", "csvs", "ignored",
          "intact", "rewrite", "todo", "reading", "tagged", "declared", "entries"} \subseteq DOMAIN run'
      /\ run'.kind = run.kind /\ run'.began = run.began /\ run'.srcs = run.srcs
      /\ run'.cached = run.cached /\ run'.inputs = run.inputs /\ run'.fps = RunFps
      /\ run'.unchanged = unchanged /\ run'.csvs = run.csvs /\ run'.ignored = ignored
      /\ run'.intact = {f \in loaded : Intact(f)}
      /\ run'.rewrite = {f \in loaded : Rewrite(f)}
      /\ run'.todo = run.csvs \ unchanged /\ run'.reading = NoFile
      /\ run'.tagged = [f \in Folders |-> Loaded(f, unchanged)]
  BY <1>1
<1>3. /\ run.srcs \subseteq Folders /\ run.cached.fps = LoadedManifest.fps
      /\ run.cached.outs = LoadedManifest.outs
      /\ run.csvs = {f \in Folders : csv[f] # NoFile}
  BY <1>1 DEF LInv, RunOK, SrcsOK, Written
<1>4. RunOK'
  BY <1>1, <1>2, DiskStays, SourcesStay DEF LInv, RunOK, InputsOK, Written
<1>5. Calm' => Calm
  BY <1>1, <1>2, DiskStays, SourcesStay DEF Calm
<1>6. SrcsOK'
  BY <1>1, <1>2, <1>5, DiskStays, SourcesStay DEF LInv, SrcsOK
<1>7. \A f \in Folders : FolderFp(f) \in Stamps /\ FolderFp(f) # NoFile
  BY FpIsRecorded DEF LInv
<1>8. \A f \in Folders : RunFps[f] = IF f \notin run.srcs THEN NoFile
                                     ELSE IF run.kind = "hint" /\ f \notin run.hint THEN LoadedManifest.fps[f]
                                     ELSE FolderFp(f)
  BY <1>3 DEF RunFps
<1>9. DOMAIN RunFps = Folders
  BY DEF RunFps
<1>10. PlanOK'
  <2>1. FpsOK(RunFps)
    BY <1>7, <1>8, <1>9 DEF FpsOK, LInv, ManifestOK
  <2>2. ASSUME NEW f \in SourceFolders, LoadedManifest.fps[f] = FolderFp(f) PROVE RunFps[f] = FolderFp(f)
    BY <1>1, <1>8, <2>2 DEF LInv, SrcsOK, SourceFolders
  <2> QED BY <1>1, <1>2, <1>3, <1>8, <2>1, <2>2, SourcesStay DEF PlanOK, FpsOK, SourceFolders
<1>11. unchanged \subseteq run.srcs /\ \A f \in unchanged : RunFps[f] = LoadedManifest.fps[f]
  BY <1>3, <1>8 DEF unchanged, Unchanged
<1>12. ASSUME NEW f \in SourceFolders, RunFps[f] = FolderFp(f), f \in unchanged
       PROVE  /\ ~Rewrite(f) /\ Intact(f)
              /\ Loaded(f, unchanged) = IF InScope(f) THEN ColdLedger[f] ELSE EmptyBag
  <2>1. gen[f] = LoadedManifest.outs[f] /\ gen[f] = ColdLedger[f]
    BY <1>11, <1>12 DEF LInv, DiskSound, Current
  <2>2. ColdLedger[f] # NoFile
    BY ColdIsLinked DEF Gentle, NoFileIsNothing, DInv, LInv, ClockOK
  <2>3. Intact(f)
    BY <1>3, <2>1, <2>2 DEF Intact
  <2>4. ~Rewrite(f)
    BY <2>3 DEF Rewrite, LInv, ClockOK
  <2> QED BY <1>12, <2>1, <2>3, <2>4 DEF Loaded
<1>13. CompileOK'
  <2>1. \A f \in Folders \ (run.srcs \cup run.csvs) : Loaded(f, unchanged) = EmptyBag
    BY <1>11 DEF Loaded
  <2>2. ASSUME NEW f \in Folders, Still(f)'
        PROVE /\ f \in run.csvs <=> csv[f] # NoFile
              /\ f \in unchanged =>
                   /\ f \notin run'.rewrite
                   /\ Loaded(f, unchanged) = IF f \in run'.intact THEN ColdLedger[f] ELSE EmptyBag
              /\ f \notin unchanged \cup run'.todo =>
                   Loaded(f, unchanged) = CsvBag(f) /\ (csv[f] # NoFile => Script(f) # NoFile)
    <3>1. f \in SourceFolders /\ RunFps[f] = FolderFp(f)
      BY <1>1, <1>2, <2>2, SourcesStay DEF Still
    <3>2. CASE f \in unchanged
      BY <1>2, <1>3, <1>12, <3>1, <3>2 DEF loaded
    <3>3. CASE f \notin unchanged
      <4>1. Loaded(f, unchanged) = EmptyBag
        BY <3>3 DEF Loaded
      <4> QED BY <1>2, <1>3, <3>3, <4>1 DEF CsvBag
    <3> QED BY <3>2, <3>3
  <2>3. {f \in Folders : csv'[f] # NoFile} = run.csvs /\ \A f \in Folders : csv'[f] = csv[f]
    BY <1>1, <1>3, SourcesStay
  <2>4. run'.intact \subseteq unchanged /\ run'.rewrite \subseteq unchanged
    BY <1>2 DEF loaded
  <2>5. ignored = {} /\ run'.todo \subseteq run.csvs \ unchanged /\ run.csvs \subseteq Folders
    BY <1>2, <1>3 DEF LInv, ClockOK
  <2> QED BY <1>1, <1>2, <1>3, <1>11, <2>1, <2>2, <2>3, <2>4, <2>5, SourcesStay DEF CompileOK, Reading
<1>14. WriteOK'
  BY <1>1 DEF WriteOK, Written
<1>15. RecordedOK'
  BY <1>1, DiskStays DEF LInv, RecordedOK, Written
<1>16. KeptOK'
  BY <1>1, <1>2, DiskStays, SourcesStay DEF LInv, KeptOK, Written
<1>17. EndOK'
  BY <1>1, DiskStays, SourcesStay DEF EndOK
<1> QED BY <1>1, <1>4, <1>6, <1>10, <1>13, <1>14, <1>15, <1>16, <1>17, DiskStays DEF LInv

\* While a run compiles, its plan is fixed and nothing is written.
LEMMA CompileStays ==
  ASSUME LInv, pc = "compile", pc' = pc, UNCHANGED <<sources, gen, manifest, crashes>>,
         DOMAIN run' = DOMAIN run,
         run'.kind = run.kind, run'.began = run.began, run'.srcs = run.srcs, run'.inputs = run.inputs,
         run'.cached = run.cached, run'.fps = run.fps, run'.csvs = run.csvs
  PROVE  RunOK' /\ SrcsOK' /\ PlanOK' /\ WriteOK' /\ RecordedOK' /\ KeptOK' /\ EndOK' /\ (Calm' => Calm)
<1>1. Calm' => Calm
  BY DiskStays, SourcesStay DEF Calm
<1>2. RunOK'
  BY DiskStays, SourcesStay DEF LInv, RunOK, InputsOK, Written
<1>3. SrcsOK'
  BY <1>1, DiskStays, SourcesStay DEF LInv, SrcsOK
<1>4. PlanOK'
  <2>1. run.srcs \subseteq Folders /\ SourceFolders \subseteq Folders
    BY DEF LInv, RunOK, SourceFolders
  <2> QED BY <1>1, <2>1, SourcesStay DEF LInv, PlanOK, FpsOK, Planned
<1>5. WriteOK' /\ RecordedOK'
  BY DiskStays DEF LInv, WriteOK, RecordedOK, Written
<1>6. KeptOK'
  BY DiskStays, SourcesStay DEF LInv, KeptOK, Written
<1>7. EndOK'
  BY DiskStays, SourcesStay DEF EndOK
<1> QED BY <1>1, <1>2, <1>3, <1>4, <1>5, <1>6, <1>7

\* A cached entry filed under the rows and the chain of a folder is what it compiles to.
LEMMA HashLInv ==
  ASSUME Gentle, IInv, LInv, NEW f \in Folders, Hash(f)
  PROVE  LInv'
<1>1. CASE Fail
  BY <1>1, EndLInv DEF Fail, Hash, Written, disk
<1>2. CASE ~Fail
  <2> DEFINE e == run.entries[f]
             hit == e # NoFile /\ e.rows = csv[f] /\ e.chain = Chain(f)
  <2>1. /\ pc = "compile" /\ pc' = pc /\ UNCHANGED <<sources, gen, manifest, crashes>>
        /\ f \in run.todo /\ run.reading = NoFile /\ csv[f] # NoFile /\ Script(f) # NoFile
        /\ run' = [run EXCEPT
                     !.todo = @ \ {f},
                     !.reading = IF hit THEN NoFile
                                 ELSE [folder |-> f, rows |-> csv[f], chain |-> Chain(f)],
                     !.tagged[f] = IF hit THEN e.txns ELSE @]
    BY <1>2 DEF Hash, disk
  <2>2. hit => e.txns = CsvBag(f)
    <3> SUFFICES ASSUME hit PROVE e.txns = CsvBag(f)
      OBVIOUS
    <3>1. Faithful(e)
      BY <2>1 DEF IInv, RunFaithful
    <3>2. PICK D \in SUBSET Folders : e.txns = Transformed(csv[f], Chain(f), D)
      BY <3>1 DEF Faithful
    <3>3. csv[f] \in SUBSET Ids
      BY <3>1 DEF Faithful
    <3>4. Transformed(csv[f], Chain(f), D) = Transformed(csv[f], Chain(f), {})
      BY <3>3, DeclaredIrrelevant DEF Gentle
    <3> QED BY <2>1, <3>2, <3>4 DEF CsvBag
  <2> HIDE DEF hit
  <2>3. /\ DOMAIN run' = DOMAIN run
        /\ run'.kind = run.kind /\ run'.began = run.began /\ run'.srcs = run.srcs
        /\ run'.inputs = run.inputs /\ run'.cached = run.cached /\ run'.fps = run.fps
        /\ run'.csvs = run.csvs /\ run'.unchanged = run.unchanged /\ run'.ignored = run.ignored
        /\ run'.intact = run.intact /\ run'.rewrite = run.rewrite
        /\ run'.todo = run.todo \ {f}
        /\ run'.tagged = [run.tagged EXCEPT ![f] = IF hit THEN e.txns ELSE @]
        /\ run'.reading = IF hit THEN NoFile ELSE [folder |-> f, rows |-> csv[f], chain |-> Chain(f)]
    BY <2>1 DEF LInv, RunOK, PlanOK, CompileOK, Planned
  <2>4. \A g \in Folders : Still(g)' => Still(g)
    BY <2>1, <2>3, SourcesStay DEF Still
  <2>5. f \in (run.csvs \ run.unchanged) \ run'.todo /\ f \in run.csvs \ run.unchanged
    BY <2>1, <2>3 DEF LInv, CompileOK
  <2>6. hit => run'.reading = NoFile /\ run'.tagged[f] = CsvBag(f)
    BY <2>1, <2>2, <2>3 DEF LInv, CompileOK
  <2>7. ~hit => /\ run'.reading # NoFile => run'.reading.folder = f /\ run'.reading.chain = Chain(f) /\ "chain" \in DOMAIN run'.reading
                /\ run'.tagged[f] = run.tagged[f]
    BY <2>1, <2>3 DEF LInv, CompileOK
  <2>8. \A g \in Folders : g # f => run'.tagged[g] = run.tagged[g]
    BY <2>1, <2>3 DEF LInv, CompileOK
  <2>9. DOMAIN run'.tagged = Folders
    BY <2>1, <2>3 DEF LInv, CompileOK
  <2> HIDE DEF e
  <2>10. ASSUME NEW g \in Folders, Still(g)
         PROVE /\ g \in run.csvs <=> csv[g] # NoFile
               /\ g \in run.unchanged =>
                    /\ g \notin run.rewrite
                    /\ run'.tagged[g] = IF g \in run.intact THEN ColdLedger[g] ELSE EmptyBag
               /\ Reading(g)' => run'.reading.chain = Chain(g) /\ Script(g) # NoFile
               /\ g \notin run.unchanged \cup run'.todo /\ ~Reading(g)' =>
                    run'.tagged[g] = CsvBag(g) /\ (csv[g] # NoFile => Script(g) # NoFile)
    <3>1. CASE g = f
      <4>1. CASE hit
        BY <2>1, <2>5, <2>6, <3>1, <4>1, <2>10 DEF LInv, CompileOK, Reading
      <4>2. CASE ~hit
        <5>1. run'.reading # NoFile /\ Reading(f)' /\ run'.reading.chain = Chain(f)
          BY <2>3, <2>7, <4>2 DEF Reading, Gentle, NoFileIsNothing
        <5> QED BY <2>1, <2>5, <3>1, <5>1, <2>10 DEF LInv, CompileOK
      <4> QED BY <4>1, <4>2
    <3>2. CASE g # f
      <4>1. ~Reading(g)' /\ ~Reading(g) /\ (g \in run'.todo <=> g \in run.todo)
        BY <2>1, <2>3, <2>6, <2>7, <3>2 DEF Reading
      <4> QED BY <2>1, <2>8, <3>2, <4>1, <2>10 DEF LInv, CompileOK
    <3> QED BY <3>1, <3>2
  <2>11. CompileOK'
    <3>1. /\ UNCHANGED <<csv>> /\ ColdLedger' = ColdLedger
          /\ \A g \in Folders : Chain(g)' = Chain(g) /\ Script(g)' = Script(g) /\ CsvBag(g)' = CsvBag(g)
      BY <2>1, SourcesStay
    <3>2. Calm' => Calm
      BY <2>1, <2>3, CompileStays
    <3>3. run'.reading # NoFile =>
            "chain" \in DOMAIN run'.reading /\ run'.reading.folder \in (run.csvs \ run.unchanged) \ run'.todo
      BY <2>5, <2>6, <2>7
    <3>4. \A g \in Folders \ (run.srcs \cup run.csvs) : run'.tagged[g] = EmptyBag
      BY <2>1, <2>5, <2>8 DEF LInv, CompileOK
    <3>5. run'.todo \subseteq run.csvs \ run.unchanged
      BY <2>1, <2>3 DEF LInv, CompileOK
    <3> QED BY <2>1, <2>3, <2>4, <2>9, <2>10, <3>1, <3>2, <3>3, <3>4, <3>5 DEF LInv, CompileOK
  <2> QED BY <2>1, <2>3, <2>11, CompileStays, DiskStays DEF LInv
<1> QED BY <1>1, <1>2

\* What is compiled of a folder whose files stand still is what it compiles to.
LEMMA TransformLInv ==
  ASSUME Gentle, DInv, LInv, Transform
  PROVE  LInv'
<1> DEFINE f == run.reading.folder
           txns == Transformed(csv[f], run.reading.chain, run.declared)
           entry == [rows |-> run.reading.rows, chain |-> run.reading.chain, txns |-> txns]
<1>1. CASE Fail
  BY <1>1, EndLInv DEF Fail, Transform, Written, disk
<1>2. CASE ~Fail
  <2>1. /\ pc = "compile" /\ pc' = pc /\ UNCHANGED <<sources, gen, manifest, crashes>>
        /\ run.reading # NoFile /\ csv[f] # NoFile
        /\ run' = [run EXCEPT !.reading = NoFile, !.entries[f] = entry, !.tagged[f] = txns]
    BY <1>2 DEF Transform, disk
  <2>2. f \in (run.csvs \ run.unchanged) \ run.todo /\ f \in Folders
    BY <2>1 DEF LInv, CompileOK
  <2>3. Still(f) => txns = CsvBag(f) /\ Script(f) # NoFile
    <3> SUFFICES ASSUME Still(f) PROVE txns = CsvBag(f) /\ Script(f) # NoFile
      OBVIOUS
    <3>1. run.reading.chain = Chain(f) /\ Script(f) # NoFile
      BY <2>1, <2>2 DEF LInv, CompileOK, Reading
    <3>2. csv[f] \in SUBSET Ids
      BY <2>1, <2>2, CsvRowsAreIds DEF DInv, FilesOK
    <3>3. Transformed(csv[f], Chain(f), run.declared) = Transformed(csv[f], Chain(f), {})
      BY <3>2, DeclaredIrrelevant DEF Gentle
    <3> QED BY <2>1, <3>1, <3>3 DEF CsvBag
  <2> HIDE DEF f, txns, entry
  <2>4. /\ DOMAIN run' = DOMAIN run
        /\ run'.kind = run.kind /\ run'.began = run.began /\ run'.srcs = run.srcs
        /\ run'.inputs = run.inputs /\ run'.cached = run.cached /\ run'.fps = run.fps
        /\ run'.csvs = run.csvs /\ run'.unchanged = run.unchanged /\ run'.ignored = run.ignored
        /\ run'.intact = run.intact /\ run'.rewrite = run.rewrite /\ run'.todo = run.todo
        /\ run'.tagged = [run.tagged EXCEPT ![f] = txns]
        /\ run'.reading = NoFile
    BY <2>1 DEF LInv, RunOK, PlanOK, CompileOK, Planned
  <2>5. \A g \in Folders : Still(g)' => Still(g)
    BY <2>1, <2>4, SourcesStay DEF Still
  <2>6. /\ DOMAIN run'.tagged = Folders /\ run'.tagged[f] = txns
        /\ \A g \in Folders : g # f => run'.tagged[g] = run.tagged[g]
    BY <2>1, <2>2, <2>4 DEF LInv, CompileOK
  <2>7. ASSUME NEW g \in Folders, Still(g)
        PROVE /\ g \in run.csvs <=> csv[g] # NoFile
              /\ g \in run.unchanged =>
                   /\ g \notin run.rewrite
                   /\ run'.tagged[g] = IF g \in run.intact THEN ColdLedger[g] ELSE EmptyBag
              /\ g \notin run.unchanged \cup run.todo =>
                   run'.tagged[g] = CsvBag(g) /\ (csv[g] # NoFile => Script(g) # NoFile)
    <3>1. CASE g = f
      BY <2>1, <2>2, <2>3, <2>6, <2>7, <3>1 DEF LInv, CompileOK
    <3>2. CASE g # f
      <4>1. ~Reading(g)
        BY <3>2 DEF Reading, f
      <4> QED BY <2>1, <2>6, <2>7, <3>2, <4>1 DEF LInv, CompileOK
    <3> QED BY <3>1, <3>2
  <2>8. CompileOK'
    <3>1. /\ UNCHANGED <<csv>> /\ ColdLedger' = ColdLedger
          /\ \A g \in Folders : Chain(g)' = Chain(g) /\ Script(g)' = Script(g) /\ CsvBag(g)' = CsvBag(g)
      BY <2>1, SourcesStay
    <3>2. Calm' => Calm
      BY <2>1, <2>4, CompileStays
    <3>3. \A g \in Folders : ~Reading(g)'
      BY <2>4 DEF Reading
    <3>4. \A g \in Folders \ (run.srcs \cup run.csvs) : run'.tagged[g] = EmptyBag
      BY <2>1, <2>2, <2>6 DEF LInv, CompileOK
    <3> QED BY <2>1, <2>4, <2>5, <2>6, <2>7, <3>1, <3>2, <3>3, <3>4 DEF LInv, CompileOK
  <2> QED BY <2>1, <2>4, <2>8, CompileStays, DiskStays DEF LInv
<1> QED BY <1>1, <1>2

\* Adding up and hiding nothing keeps a ledger.
LEMMA GatheredLedger ==
  ASSUME Gentle, DInv, LInv, pc = "compile", NEW f \in Folders
  PROVE  /\ IsLedger(Gathered[f]) /\ Gathered[f] # NoFile
         /\ IsLedger(run.tagged[f]) =>
              Gathered[f] = IF f \in run.intact THEN run.tagged[f]
                            ELSE WithoutIgnored(run.tagged[f] (+) ManualTxns(f), {})
<1> DEFINE added == IF f \in run.intact THEN EmptyBag ELSE ManualTxns(f)
<1>1. Gathered[f] = WithoutIgnored(run.tagged[f] (+) added, {})
  BY DEF Gathered, LInv, CompileOK
<1>2. OwnIds
  BY DEF Gentle, Homes, OwnIds
<1>3. Distinct(Gathered[f], IdsOf(f))
  BY <1>2, GatheredDistinct
<1>4. IsLedger(Gathered[f])
  <2>1. Gathered[f] = [t \in DOMAIN Gathered[f] |-> Gathered[f][t]]
    BY <1>1 DEF WithoutIgnored, OnlyWhere
  <2>2. \A t \in DOMAIN Gathered[f] : Gathered[f][t] = 1
    BY <1>3 DEF Distinct
  <2> HIDE DEF added
  <2> QED BY <2>1, <2>2 DEF IsLedger
<1>5. Gathered[f] # NoFile
  <2>1. Gathered[f] = SetToBag(DOMAIN Gathered[f])
    BY <1>4, SetsAreLedgers, SameRows
  <2> QED BY <2>1 DEF Gentle, NoFileIsNothing
<1>6. IsLedger(run.tagged[f]) /\ f \in run.intact => Gathered[f] = run.tagged[f]
  BY <1>1, AddNothing, HideNothing
<1> QED BY <1>1, <1>4, <1>5, <1>6

\* Linking makes no absent ledger.
LEMMA LinkedLedger ==
  ASSUME Gentle, NEW tg, InHand(tg), NEW p, NEW f \in Folders
  PROVE  AutoLinked(tg, p)[f] # NoFile
<1>1. Distinct(tg[f], IdsOf(f))
  BY DEF InHand
<1>2. AutoLinked(tg, p)[f] = SetToBag({LinkedTxn(tg, t, p) : t \in DOMAIN tg[f]})
  BY <1>1, LinkedBag
<1> QED BY <1>2 DEF Gentle, NoFileIsNothing

\* What is put together for a folder whose files stand still is its cold ledger, or
\* what is on disk already; nothing is put together for a folder that is not there.
LEMMA MergedRows ==
  ASSUME Gentle, DInv, LInv, pc = "compile", run.reading = NoFile, run.todo = {}, NEW linked,
         linked = IF TouchesTrading(Gathered) THEN AutoLinked(Gathered, prices) ELSE Gathered,
         NEW f \in Folders
  PROVE  /\ linked[f] # NoFile
         /\ Still(f) /\ f \in run.unchanged => linked[f] = Gathered[f]
         /\ Still(f) /\ f \notin run.unchanged =>
              linked[f] = ColdLedger[f] /\ (csv[f] # NoFile => Script(f) # NoFile)
         /\ f \notin SourceFolders \cup run.srcs \cup run.csvs => linked[f] = Gathered[f]
<1> DEFINE gathered == Gathered
<1>1. /\ Homes /\ NoMention /\ FilesOK /\ ignored = {} /\ prices = 0
      /\ run.intact \subseteq run.unchanged /\ run.unchanged \subseteq run.srcs /\ OwnIds
  BY DEF Gentle, DInv, LInv, ClockOK, CompileOK, Homes, OwnIds
<1>2. InHand(gathered)
  BY <1>1, GatheredDistinct DEF InHand
<1>3. IsLedger(gathered[f]) /\ gathered[f] # NoFile
  BY GatheredLedger
<1>4. IsLedger(run.tagged[f]) => gathered[f] = IF f \in run.intact THEN run.tagged[f]
                                               ELSE WithoutIgnored(run.tagged[f] (+) ManualTxns(f), {})
  BY GatheredLedger
<1> HIDE DEF gathered
<1>5. linked[f] = AutoLinked(gathered, prices)[f] \/ linked[f] = gathered[f]
  BY DEF gathered
<1>6. linked[f] # NoFile
  BY <1>2, <1>3, <1>5, LinkedLedger
<1>7. IsLedger(EmptyBag) /\ IsLedger(ManualTxns(f))
  BY <1>1, SetsAreLedgers, ManualRowsPlain
<1>8. ASSUME run.tagged[f] = EmptyBag, f \notin run.intact PROVE gathered[f] = ManualTxns(f)
  BY <1>4, <1>7, <1>8, AddNothing, HideNothing
<1>9. ASSUME Still(f), f \in run.unchanged PROVE linked[f] = gathered[f]
  <2>1. run.tagged[f] = IF f \in run.intact THEN ColdLedger[f] ELSE EmptyBag
    BY <1>9 DEF LInv, CompileOK
  <2>2. CASE f \in run.intact
    <3>1. f \in SourceFolders /\ run.tagged[f] = ColdLedger[f]
      BY <1>9, <2>1, <2>2 DEF Still
    <3>2. IsLedger(ColdLedger[f])
      BY <1>1, <3>1, ColdIsLinked
    <3>3. gathered[f] = ColdLedger[f]
      BY <1>4, <2>2, <3>1, <3>2
    <3> QED BY <1>1, <1>2, <1>5, <3>1, <3>3, ColdStaysLinked
  <2>3. CASE f \notin run.intact
    <3>1. gathered[f] = ManualTxns(f)
      BY <1>8, <2>1, <2>3
    <3> QED BY <1>1, <1>2, <1>5, <3>1, ManualTakesNoLink
  <2> QED BY <2>2, <2>3
<1>10. ASSUME Still(f), f \notin run.unchanged
       PROVE linked[f] = ColdLedger[f] /\ (csv[f] # NoFile => Script(f) # NoFile)
  <2>1. ~Reading(f)
    BY DEF Reading
  <2>2. run.tagged[f] = CsvBag(f) /\ (csv[f] # NoFile => Script(f) # NoFile)
    BY <1>10, <2>1 DEF LInv, CompileOK
  <2>3. f \notin run.intact /\ f \in SourceFolders
    BY <1>1, <1>10 DEF Still
  <2>4. IsLedger(CsvBag(f)) /\ IsLedger(Raw(f))
    BY <1>1, CsvRowsPlain, RawRows
  <2>5. gathered[f] = Raw(f)
    BY <1>4, <2>2, <2>3, <2>4, HideNothing DEF Raw
  <2>6. CASE TouchesTrading(Gathered)
    <3>1. linked[f] = AutoLinked(gathered, prices)[f]
      BY <2>6 DEF gathered
    <3> QED BY <1>1, <1>2, <2>2, <2>3, <2>5, <3>1, FreshIsLinked
  <2>7. CASE ~TouchesTrading(Gathered)
    <3>1. linked[f] = gathered[f] /\ \A t \in DOMAIN gathered[f] : t.id \notin Trades
      BY <1>10, <2>7 DEF TouchesTrading, gathered
    <3> QED BY <1>1, <2>2, <2>3, <2>5, <3>1, FreshWithoutTrades
  <2> QED BY <2>6, <2>7
<1>11. ASSUME f \notin SourceFolders \cup run.srcs \cup run.csvs PROVE linked[f] = gathered[f]
  <2>1. run.tagged[f] = EmptyBag /\ f \notin run.intact
    BY <1>1, <1>11 DEF LInv, CompileOK
  <2>2. ManualTxns(f) = EmptyBag
    BY <1>11 DEF SourceFolders, ManualTxns
  <2>3. gathered[f] = EmptyBag
    BY <1>8, <2>1, <2>2
  <2>4. \A t \in DOMAIN gathered[f] : LinkedTxn(gathered, t, prices) = t
    BY <2>3, SetsAreLedgers
  <2>5. AutoLinked(gathered, prices)[f] = gathered[f]
    BY <1>2, <1>3, <2>4, NothingToLink
  <2> QED BY <1>5, <2>5
<1> QED BY <1>6, <1>9, <1>10, <1>11 DEF gathered

\* So what is to be written is right, where the files stand still.
LEMMA MergeLInv ==
  ASSUME Gentle, DInv, LInv, Merge
  PROVE  LInv'
<1> DEFINE linked == IF TouchesTrading(Gathered) THEN AutoLinked(Gathered, prices) ELSE Gathered
           changed == (run.srcs \ run.unchanged) \cup run.rewrite
                        \cup {f \in Folders : linked[f] # Gathered[f]}
<1>1. /\ pc = "compile" /\ pc' = "write" /\ UNCHANGED <<sources, gen, manifest, crashes>>
      /\ run.reading = NoFile /\ run.todo = {}
      /\ run' = [kind |-> run.kind, began |-> run.began, srcs |-> run.srcs,
                inputs |-> run.inputs, cached |-> run.cached, fps |-> run.fps,
                entries |-> [f \in Folders |-> IF f \in run.csvs THEN run.entries[f] ELSE NoFile],
                tagged |-> linked, changed |-> changed, todo |-> changed]
  BY DEF Merge, disk
<1>2. \A f \in Folders :
        /\ linked[f] # NoFile
        /\ Still(f) /\ f \in run.unchanged => linked[f] = Gathered[f]
        /\ Still(f) /\ f \notin run.unchanged =>
              linked[f] = ColdLedger[f] /\ (csv[f] # NoFile => Script(f) # NoFile)
        /\ f \notin SourceFolders \cup run.srcs \cup run.csvs => linked[f] = Gathered[f]
  BY <1>1, MergedRows
<1>3. /\ run.srcs \subseteq Folders /\ run.unchanged \subseteq run.srcs /\ run.rewrite \subseteq run.unchanged
      /\ run.cached.outs = LoadedManifest.outs /\ run.cached.fps = LoadedManifest.fps
      /\ \A f \in run.unchanged : run.fps[f] = run.cached.fps[f]
      /\ \A f \in Folders : run.fps[f] # NoFile => f \in run.srcs
      /\ \A f \in Folders : Still(f) /\ f \in run.unchanged => f \notin run.rewrite
  BY <1>1 DEF LInv, RunOK, CompileOK, PlanOK, Planned, Written
<1>4. \A f \in changed : f \in run.srcs \/ linked[f] # Gathered[f]
  BY <1>3
<1>5. changed \subseteq Folders
  BY <1>3
<1>6. \A f \in Folders : f \in changed <=> \/ f \in run.srcs \ run.unchanged
                                           \/ f \in run.rewrite \/ linked[f] # Gathered[f]
  OBVIOUS
<1> HIDE DEF linked, changed
<1>7. /\ DOMAIN run' = {"kind", "began", "srcs", "inputs", "cached", "fps", "entries", "tagged", "changed", "todo"}
      /\ run'.kind = run.kind /\ run'.began = run.began /\ run'.srcs = run.srcs
      /\ run'.cached = run.cached /\ run'.inputs = run.inputs /\ run'.fps = run.fps
      /\ run'.tagged = linked /\ run'.changed = changed /\ run'.todo = changed
  BY <1>1
<1>8. Calm' => Calm
  BY <1>1, <1>7, DiskStays, SourcesStay DEF Calm
<1>9. RunOK'
  BY <1>1, <1>7, DiskStays, SourcesStay DEF LInv, RunOK, InputsOK, Written
<1>10. SrcsOK'
  BY <1>1, <1>7, <1>8, SourcesStay DEF LInv, SrcsOK
<1>11. PlanOK'
  <2>1. SourceFolders \subseteq Folders
    BY DEF SourceFolders
  <2> QED BY <1>1, <1>3, <1>7, <1>8, <2>1, SourcesStay DEF LInv, PlanOK, FpsOK, Planned
<1>12. CompileOK'
  BY <1>1 DEF CompileOK
<1>13. \A f \in Folders : Still(f)' => Still(f)
  BY <1>1, <1>7, SourcesStay DEF Still
<1>14. ASSUME NEW f \in Folders, Still(f)
       PROVE  IF f \in changed THEN linked[f] = ColdLedger[f] /\ (csv[f] # NoFile => Script(f) # NoFile)
              ELSE run.cached.fps[f] = run.fps[f]
  <2>1. f \in run.srcs
    BY <1>3, <1>14, FpIsRecorded DEF Still, LInv
  <2> QED BY <1>2, <1>3, <1>6, <1>14, <2>1
<1>15. ASSUME run.srcs \subseteq SourceFolders, run.csvs \subseteq SourceFolders
       PROVE  changed \subseteq SourceFolders
  BY <1>2, <1>4, <1>5, <1>15
<1>16. Calm => changed \subseteq SourceFolders
  <2>1. Calm => run.srcs = SourceFolders /\ run.csvs = {f \in Folders : csv[f] # NoFile}
    BY <1>1 DEF LInv, SrcsOK, CompileOK
  <2>2. {f \in Folders : csv[f] # NoFile} \subseteq SourceFolders
    BY DEF SourceFolders
  <2> QED BY <1>15, <2>1, <2>2
<1>17. WriteOK'
  <2>1. csv' = csv /\ ColdLedger' = ColdLedger /\ SourceFolders' = SourceFolders
        /\ (\A f \in Folders : Script(f)' = Script(f)) /\ LoadedManifest' = LoadedManifest
    BY <1>1, DiskStays, SourcesStay
  <2>2. \A f \in changed : linked[f] # NoFile
    BY <1>2, <1>5
  <2> QED BY <1>1, <1>3, <1>5, <1>7, <1>8, <1>13, <1>14, <1>16, <2>1, <2>2 DEF WriteOK
<1>18. RecordedOK'
  BY <1>1, <1>3, <1>7, DiskStays DEF LInv, RecordedOK, Written
<1>19. KeptOK'
  BY <1>1, <1>7, <1>15, DiskStays, SourcesStay DEF LInv, KeptOK, Written
<1>20. EndOK'
  BY <1>1, DiskStays, SourcesStay DEF EndOK
<1> QED BY <1>1, <1>9, <1>10, <1>11, <1>12, <1>17, <1>18, <1>19, <1>20, DiskStays DEF LInv

\* A ledger that is written replaces none that is recorded as current, unless by the same.
LEMMA WriteLInv ==
  ASSUME Gentle, LInv, NEW f \in Folders, WriteLedger(f)
  PROVE  LInv'
<1>1. /\ pc = "write" /\ pc' = pc /\ UNCHANGED <<sources, manifest, crashes>> /\ f \in run.todo
      /\ gen' = [gen EXCEPT ![f] = IF MustWrite(f) THEN run.tagged[f] ELSE @]
      /\ run' = [run EXCEPT !.todo = @ \ {f}, !.cached.outs[f] = run.tagged[f]]
  BY DEF WriteLedger
<1>2. /\ DOMAIN run' = DOMAIN run
      /\ run'.kind = run.kind /\ run'.began = run.began /\ run'.srcs = run.srcs
      /\ run'.inputs = run.inputs /\ run'.fps = run.fps
      /\ run'.tagged = run.tagged /\ run'.changed = run.changed /\ run'.todo = run.todo \ {f}
      /\ DOMAIN run'.cached = DOMAIN run.cached
      /\ run'.cached.fps = run.cached.fps /\ run'.cached.inputs = run.cached.inputs
      /\ run'.cached.outs = [run.cached.outs EXCEPT ![f] = run.tagged[f]]
  BY <1>1 DEF LInv, RunOK, PlanOK, WriteOK, Planned, Written
<1>3. /\ \E S : gen' \in [Folders -> S]
      /\ gen'[f] = run.tagged[f] /\ \A g \in Folders : g # f => gen'[g] = gen[g]
  <2>1. PICK S : gen \in [Folders -> S]
    BY DEF LInv, ClockOK
  <2>2. gen' \in [Folders -> S \cup {run.tagged[f]}]
    BY <1>1, <2>1
  <2> QED BY <1>1, <2>1, <2>2 DEF MustWrite
<1>4. /\ run.cached.fps = LoadedManifest.fps /\ DOMAIN run.cached.outs = Folders
      /\ f \in run.changed /\ run.tagged[f] # NoFile /\ run.changed \subseteq Folders
  BY <1>1 DEF LInv, RunOK, WriteOK, Written
<1>5. LoadedManifest' = LoadedManifest
  BY <1>1 DEF LoadedManifest
<1>6. /\ UNCHANGED <<csv, manual, script, rules, ignored, prices, stamp, clock>>
      /\ SourceFolders' = SourceFolders /\ ColdLedger' = ColdLedger
      /\ Time' = Time /\ Stamps' = Stamps
      /\ \A g \in Folders : FolderFp(g)' = FolderFp(g) /\ Script(g)' = Script(g)
  BY <1>1, SourcesStay
<1>7. SourceFolders \subseteq Folders
  BY DEF SourceFolders
<1>8. ClockOK' /\ ManifestOK'
  BY <1>3, <1>5, <1>6 DEF LInv, ClockOK, ManifestOK, FpsOK, InputsOK
<1>9. DiskSound'
  <2>1. ASSUME NEW g \in SourceFolders, LoadedManifest.fps[g] = FolderFp(g)
        PROVE  gen'[g] = gen[g]
    <3>1. CASE g = f
      <4>1. Still(f)
        BY <1>1, <1>4, <2>1, <3>1 DEF LInv, PlanOK, Planned, Still
      <4> QED BY <1>1, <1>3, <1>4, <2>1, <3>1, <4>1 DEF LInv, WriteOK, Written, DiskSound, Current
    <3>2. CASE g # f
      BY <1>3, <1>7, <3>2
    <3> QED BY <3>1, <3>2
  <2> QED BY <1>5, <1>6, <1>7, <2>1 DEF LInv, DiskSound, Current
<1>10. RunOK'
  BY <1>1, <1>2, <1>4, <1>5, <1>6 DEF LInv, RunOK, InputsOK, Written
<1>11. Calm' <=> Calm
  BY <1>1, <1>2, <1>5, <1>6 DEF Calm
<1>12. SrcsOK'
  BY <1>1, <1>2, <1>5, <1>6, <1>11 DEF LInv, SrcsOK
<1>13. PlanOK'
  <2>1. run.srcs \subseteq Folders
    BY <1>1 DEF LInv, RunOK
  <2> QED BY <1>1, <1>2, <1>6, <1>7, <1>11, <2>1 DEF LInv, PlanOK, FpsOK, Planned
<1>14. CompileOK'
  BY <1>1 DEF CompileOK
<1>15. WriteOK'
  <2>1. \A g \in Folders : Still(g)' <=> Still(g)
    BY <1>2, <1>6 DEF Still
  <2>2. \A g \in run.changed \ run'.todo : gen'[g] = run.tagged[g]
    BY <1>1, <1>2, <1>3, <1>4 DEF LInv, WriteOK, Written
  <2>3. \A g \in run.srcs \cup run.changed :
         run'.cached.outs[g] = IF g \in run.changed \ run'.todo THEN run.tagged[g] ELSE LoadedManifest.outs[g]
    BY <1>1, <1>2, <1>4 DEF LInv, WriteOK, Written, RunOK
  <2>4. run'.todo \subseteq run.changed
    BY <1>1, <1>2 DEF LInv, WriteOK, Written
  <2> QED BY <1>1, <1>2, <1>5, <1>6, <1>11, <2>1, <2>2, <2>3, <2>4 DEF LInv, WriteOK, Written
<1>16. RecordedOK'
  BY <1>1, <1>2, <1>3, <1>4 DEF LInv, RecordedOK, Written
<1>17. KeptOK'
  BY <1>1, <1>2, <1>3, <1>4, <1>6 DEF LInv, KeptOK, Clean, Written
<1>18. EndOK'
  <2>1. Calm /\ Clean => Clean'
    BY <1>1, <1>3, <1>4, <1>6 DEF LInv, Clean, WriteOK, Written
  <2>2. LoadedManifest.inputs = stamp => Calm
    BY DEF Calm
  <2>3. AllCurrent => AllCurrent'
    BY <1>5, <1>6, <1>7 DEF AllCurrent
  <2> QED BY <1>1, <1>5, <1>6, <2>1, <2>2, <2>3 DEF LInv, EndOK
<1> QED BY <1>8, <1>9, <1>10, <1>12, <1>13, <1>14, <1>15, <1>16, <1>17, <1>18 DEF LInv

\* Pruning removes the ledgers of folders that are gone, and of no others.
LEMMA PruneLInv ==
  ASSUME Gentle, LInv, PruneOutputs
  PROVE  LInv'
<1> DEFINE stale == {f \in Folders : run.cached.outs[f] # NoFile} \ Live
<1>1. /\ pc = "write" /\ pc' = "manifest" /\ UNCHANGED <<sources, manifest, crashes>> /\ run.todo = {}
      /\ gen' = [f \in Folders |-> IF f \in stale THEN NoFile ELSE gen[f]]
      /\ run' = [run EXCEPT !.cached.outs = [f \in Folders |-> IF f \in stale THEN NoFile ELSE @[f]]]
  BY DEF PruneOutputs
<1>2. \A f \in Folders : f \in stale <=> run.cached.outs[f] # NoFile /\ f \notin run.srcs \cup run.changed
  BY DEF Live
<1> HIDE DEF stale
<1>3. /\ DOMAIN run' = DOMAIN run
      /\ run'.kind = run.kind /\ run'.began = run.began /\ run'.srcs = run.srcs
      /\ run'.inputs = run.inputs /\ run'.fps = run.fps
      /\ run'.tagged = run.tagged /\ run'.changed = run.changed /\ run'.todo = run.todo
      /\ DOMAIN run'.cached = DOMAIN run.cached
      /\ run'.cached.fps = run.cached.fps /\ run'.cached.inputs = run.cached.inputs
      /\ run'.cached.outs = [f \in Folders |-> IF f \in stale THEN NoFile ELSE run.cached.outs[f]]
  BY <1>1 DEF LInv, RunOK, PlanOK, WriteOK, Planned, Written
<1>4. /\ \E S : gen' \in [Folders -> S]
      /\ \A g \in Folders : gen'[g] = IF g \in stale THEN NoFile ELSE gen[g]
  <2>1. PICK S : gen \in [Folders -> S]
    BY DEF LInv, ClockOK
  <2>2. gen' \in [Folders -> S \cup {NoFile}]
    BY <1>1, <2>1
  <2> QED BY <1>1, <2>2
<1>5. /\ run.cached.fps = LoadedManifest.fps /\ DOMAIN run.cached.outs = Folders
      /\ run.changed \subseteq Folders /\ run.srcs \subseteq Folders
  BY <1>1 DEF LInv, RunOK, WriteOK, Written
<1>6. LoadedManifest' = LoadedManifest
  BY <1>1 DEF LoadedManifest
<1>7. /\ UNCHANGED <<csv, manual, script, rules, ignored, prices, stamp, clock>>
      /\ SourceFolders' = SourceFolders /\ ColdLedger' = ColdLedger
      /\ Time' = Time /\ Stamps' = Stamps
      /\ \A g \in Folders : FolderFp(g)' = FolderFp(g) /\ Script(g)' = Script(g)
  BY <1>1, SourcesStay
<1>8. SourceFolders \subseteq Folders
  BY DEF SourceFolders
<1>9. ClockOK' /\ ManifestOK'
  BY <1>4, <1>6, <1>7 DEF LInv, ClockOK, ManifestOK, FpsOK, InputsOK
<1>10. DiskSound'
  <2>1. ASSUME NEW g \in SourceFolders, LoadedManifest.fps[g] = FolderFp(g)
        PROVE  gen'[g] = gen[g]
    <3>1. FolderFp(g) # NoFile
      BY <1>8, FpIsRecorded DEF LInv
    <3>2. run.fps[g] = FolderFp(g)
      BY <1>1, <1>5, <2>1 DEF LInv, PlanOK, Planned
    <3>3. g \in run.srcs
      BY <1>1, <1>8, <3>1, <3>2 DEF LInv, PlanOK, Planned
    <3> QED BY <1>2, <1>4, <1>8, <3>3
  <2> QED BY <1>6, <1>7, <1>8, <2>1 DEF LInv, DiskSound, Current
<1>11. RunOK'
  BY <1>1, <1>3, <1>5, <1>6, <1>7 DEF LInv, RunOK, InputsOK, Written
<1>12. Calm' <=> Calm
  BY <1>1, <1>3, <1>6, <1>7 DEF Calm
<1>13. SrcsOK'
  BY <1>1, <1>3, <1>6, <1>7, <1>12 DEF LInv, SrcsOK
<1>14. PlanOK'
  BY <1>1, <1>3, <1>5, <1>7, <1>8, <1>12 DEF LInv, PlanOK, FpsOK, Planned
<1>15. CompileOK'
  BY <1>1 DEF CompileOK
<1>16. WriteOK'
  <2>1. \A g \in Folders : Still(g)' <=> Still(g)
    BY <1>3, <1>7 DEF Still
  <2>2. \A g \in run.srcs \cup run.changed : run'.cached.outs[g] = run.cached.outs[g] /\ gen'[g] = gen[g]
    BY <1>2, <1>3, <1>4, <1>5
  <2>3. /\ \A g \in run.changed \ run'.todo : gen'[g] = run.tagged[g]
        /\ \A g \in run.srcs \cup run.changed :
             run'.cached.outs[g] = IF g \in run.changed \ run'.todo THEN run.tagged[g] ELSE LoadedManifest.outs[g]
    BY <1>1, <1>3, <2>2 DEF LInv, WriteOK, Written
  <2>4. \A g \in Folders : Still(g) =>
         /\ g \in run.changed => run.tagged[g] = ColdLedger[g] /\ (csv[g] # NoFile => Script(g) # NoFile)
         /\ g \notin run.changed => run.cached.fps[g] = run.fps[g]
    BY <1>1 DEF LInv, WriteOK, Written
  <2> QED BY <1>1, <1>3, <1>6, <1>7, <1>12, <2>1, <2>3, <2>4 DEF LInv, WriteOK, Written
<1>17. RecordedOK'
  BY <1>1, <1>2, <1>3, <1>4 DEF LInv, RecordedOK, Written
<1>18. Clean => Clean'
  BY <1>4, <1>7 DEF Clean
<1>19. KeptOK'
  BY <1>1, <1>3, <1>7, <1>18 DEF LInv, KeptOK, Written
<1>20. Calm /\ NoOrphans => Clean'
  <2> SUFFICES ASSUME Calm, NoOrphans, NEW g \in Folders \ SourceFolders PROVE gen'[g] = NoFile
    BY <1>7 DEF Clean
  <2>1. CASE MaxCrash = 0
    <3>1. g \notin run.srcs \cup run.changed
      BY <1>1 DEF LInv, SrcsOK, WriteOK, Written
    <3> QED BY <1>1, <1>2, <1>4, <2>1, <3>1 DEF LInv, RecordedOK, Written
  <2>2. CASE "dropcsv" \notin Env
    BY <1>7, <1>18, <2>2 DEF LInv, KeptOK, Clean
  <2> QED BY <2>1, <2>2 DEF NoOrphans
<1>21. EndOK'
  <2>1. AllCurrent => AllCurrent'
    BY <1>6, <1>7, <1>8 DEF AllCurrent
  <2> QED BY <1>1, <1>6, <1>7, <1>12, <1>18, <1>20, <2>1 DEF LInv, EndOK
<1> QED BY <1>9, <1>10, <1>11, <1>13, <1>14, <1>15, <1>16, <1>17, <1>19, <1>21 DEF LInv

\* The manifest records what was written, under the fingerprints taken before it was
\* compiled, and nothing is edited meanwhile in a folder for which these are current.
LEMMA SaveManifestLInv ==
  ASSUME Gentle, LInv, SaveManifest
  PROVE  LInv'
<1>1. /\ pc = "manifest" /\ pc' = "fcache" /\ UNCHANGED <<sources, gen, crashes>>
      /\ manifest' = [inputs |-> run.inputs, fps |-> SavedFps, outs |-> run.cached.outs]
      /\ run' = [run EXCEPT !.todo = {f \in run.changed : SavedFps[f] # NoFile}]
  BY DEF SaveManifest
<1>2. /\ DOMAIN run' = DOMAIN run
      /\ run'.kind = run.kind /\ run'.began = run.began /\ run'.srcs = run.srcs
      /\ run'.inputs = run.inputs /\ run'.cached = run.cached
  BY <1>1 DEF LInv, RunOK
<1>3. LoadedManifest' = manifest'
  BY <1>1 DEF LoadedManifest, Gentle, NoFileIsNothing
<1>4. /\ LoadedManifest'.inputs = run.inputs /\ LoadedManifest'.fps = SavedFps
      /\ LoadedManifest'.outs = run.cached.outs
      /\ DOMAIN LoadedManifest' = {"inputs", "fps", "outs"}
  BY <1>1, <1>3
<1>5. /\ UNCHANGED <<csv, manual, script, rules, ignored, prices, stamp, clock>>
      /\ SourceFolders' = SourceFolders /\ ColdLedger' = ColdLedger
      /\ Time' = Time /\ Stamps' = Stamps
      /\ \A g \in Folders : FolderFp(g)' = FolderFp(g) /\ Script(g)' = Script(g)
  BY <1>1, SourcesStay
<1>6. /\ run.cached.fps = LoadedManifest.fps /\ DOMAIN run.cached.outs = Folders
      /\ run.srcs \subseteq Folders /\ run.changed \subseteq Folders /\ run.todo = {}
      /\ SourceFolders \subseteq Folders
  BY <1>1 DEF LInv, RunOK, WriteOK, Written, SourceFolders
<1>7. \A f \in Folders : SavedFps[f] = IF run.fps[f] = NoFile THEN NoFile
                                       ELSE IF f \in run.changed THEN run.fps[f] ELSE run.cached.fps[f]
  BY DEF SavedFps
<1>8. ClockOK'
  BY <1>1, <1>5 DEF LInv, ClockOK
<1>9. ManifestOK'
  <2>1. DOMAIN SavedFps = Folders
    BY DEF SavedFps
  <2>2. FpsOK(SavedFps)
    BY <1>1, <1>6, <1>7, <2>1 DEF LInv, PlanOK, Planned, ManifestOK, FpsOK
  <2>3. InputsOK(run.inputs)
    BY <1>1 DEF LInv, RunOK
  <2> QED BY <1>4, <1>5, <1>6, <2>2, <2>3 DEF ManifestOK, FpsOK, InputsOK
<1>10. DiskSound'
  <2>1. ASSUME NEW f \in SourceFolders, SavedFps[f] = FolderFp(f)
        PROVE  gen[f] = run.cached.outs[f] /\ Current(f)
    <3>1. FolderFp(f) # NoFile
      BY <1>6, FpIsRecorded DEF LInv
    <3>2. run.fps[f] # NoFile /\ f \in run.srcs
      BY <1>1, <1>6, <1>7, <2>1, <3>1 DEF LInv, PlanOK, Planned
    <3>3. CASE f \in run.changed
      <4>1. Still(f)
        BY <1>6, <1>7, <2>1, <3>2, <3>3 DEF Still
      <4>2. gen[f] = run.tagged[f] /\ run.cached.outs[f] = run.tagged[f]
        BY <1>1, <1>6, <3>3 DEF LInv, WriteOK, Written
      <4>3. run.tagged[f] = ColdLedger[f] /\ (csv[f] # NoFile => Script(f) # NoFile)
        BY <1>1, <1>6, <3>3, <4>1 DEF LInv, WriteOK, Written
      <4> QED BY <4>2, <4>3 DEF Current
    <3>4. CASE f \notin run.changed
      <4>1. LoadedManifest.fps[f] = FolderFp(f)
        BY <1>6, <1>7, <2>1, <3>2, <3>4
      <4>2. run.cached.outs[f] = LoadedManifest.outs[f]
        BY <1>1, <3>2, <3>4 DEF LInv, WriteOK, Written
      <4> QED BY <4>1, <4>2 DEF LInv, DiskSound
    <3> QED BY <3>3, <3>4
  <2> QED BY <1>1, <1>4, <1>5, <1>6, <2>1 DEF DiskSound, Current
<1>11. Calm' => Calm
  BY <1>2, <1>4, <1>5 DEF Calm
<1>12. RunOK'
  BY <1>1, <1>2, <1>5 DEF LInv, RunOK, InputsOK, Written
<1>13. SrcsOK'
  BY <1>1, <1>2, <1>5, <1>11 DEF LInv, SrcsOK
<1>14. PlanOK' /\ CompileOK' /\ WriteOK'
  BY <1>1 DEF PlanOK, CompileOK, WriteOK, Planned, Written
<1>15. RecordedOK'
  BY <1>1, <1>4 DEF LInv, RecordedOK, Written
<1>16. KeptOK'
  BY <1>1, <1>2, <1>5 DEF LInv, KeptOK, Clean, Written
<1>17. EndOK'
  <2>1. ASSUME Calm, run.kind # "hint" PROVE AllCurrent'
    <3> SUFFICES ASSUME NEW f \in SourceFolders PROVE SavedFps[f] = FolderFp(f)
      BY <1>4, <1>5, <1>6 DEF AllCurrent
    <3>1. FolderFp(f) # NoFile
      BY <1>6, FpIsRecorded DEF LInv
    <3>2. run.fps[f] = FolderFp(f)
      BY <1>1, <2>1 DEF LInv, SrcsOK, PlanOK, Planned
    <3>3. f \in run.changed \/ run.cached.fps[f] = run.fps[f]
      BY <1>1, <1>6, <3>2 DEF LInv, WriteOK, Written, Still
    <3> QED BY <1>6, <1>7, <3>1, <3>2, <3>3
  <2>2. Calm /\ NoOrphans => Clean'
    BY <1>1, <1>5 DEF LInv, EndOK, Clean
  <2>3. run.inputs = stamp => Calm /\ run.kind # "hint"
    <3>1. stamp # NoFile
      BY DEF LInv, ClockOK, Time, Gentle, NoFileIsNothing
    <3> QED BY <1>1, <3>1 DEF LInv, RunOK, Calm
  <2>4. run.began = clock => Calm
    BY DEF Calm
  <2> QED BY <1>1, <1>2, <1>4, <1>5, <2>1, <2>2, <2>3, <2>4 DEF EndOK
<1> QED BY <1>8, <1>9, <1>10, <1>12, <1>13, <1>14, <1>15, <1>16, <1>17 DEF LInv

\* The files of the folder caches say nothing of the ledgers.
LEMMA CachesLInv ==
  ASSUME LInv, (\E f \in Folders : SaveFolderCache(f)) \/ PruneFolderCaches
  PROVE  LInv'
<1>1. /\ pc = "fcache" /\ pc' \in {"fcache", "meta"} /\ UNCHANGED <<sources, gen, manifest, crashes>>
      /\ run' = run \/ \E f : run' = [run EXCEPT !.todo = @ \ {f}]
  BY DEF SaveFolderCache, PruneFolderCaches
<1>2. /\ DOMAIN run' = DOMAIN run
      /\ run'.kind = run.kind /\ run'.began = run.began /\ run'.srcs = run.srcs
      /\ run'.inputs = run.inputs /\ run'.cached = run.cached
  BY <1>1 DEF LInv, RunOK
<1>3. RunOK'
  BY <1>1, <1>2, SourcesStay DEF LInv, RunOK, InputsOK, Written
<1>4. SrcsOK'
  <2>1. Calm' => Calm
    BY <1>1, <1>2, DiskStays, SourcesStay DEF Calm
  <2> QED BY <1>1, <1>2, <2>1, SourcesStay DEF LInv, SrcsOK
<1>5. PlanOK' /\ CompileOK' /\ WriteOK'
  BY <1>1 DEF PlanOK, CompileOK, WriteOK, Planned, Written
<1>6. RecordedOK'
  BY <1>1, DiskStays DEF LInv, RecordedOK, Written
<1>7. KeptOK'
  BY <1>1, <1>2, DiskStays, SourcesStay DEF LInv, KeptOK, Written
<1>8. EndOK'
  <2>1. run.began = clock => (run.kind # "hint" => AllCurrent) /\ (NoOrphans => Clean)
    BY <1>1 DEF LInv, EndOK
  <2> QED BY <1>1, <1>2, <2>1, DiskStays, SourcesStay DEF EndOK
<1> QED BY <1>3, <1>4, <1>5, <1>6, <1>7, <1>8, <1>1, DiskStays DEF LInv

\* A ledger that a crash tears was not recorded as current, and a torn manifest records
\* nothing.
LEMMA CrashLInv ==
  ASSUME Gentle, LInv, Crash
  PROVE  LInv'
<1>1. pc' = "idle" /\ UNCHANGED sources /\ crashes' = crashes + 1 /\ crashes < MaxCrash
  BY DEF Crash
<1>2. /\ UNCHANGED <<csv, manual, script, rules, ignored, prices, stamp, clock>>
      /\ SourceFolders' = SourceFolders /\ ColdLedger' = ColdLedger
      /\ Time' = Time /\ Stamps' = Stamps
      /\ \A g \in Folders : FolderFp(g)' = FolderFp(g) /\ Script(g)' = Script(g)
  BY <1>1, SourcesStay
<1>3. MaxCrash # 0 /\ (NoOrphans => "dropcsv" \notin Env)
  BY <1>1 DEF LInv, RecordedOK, NoOrphans
<1>4. RunOK' /\ SrcsOK' /\ PlanOK' /\ CompileOK' /\ WriteOK' /\ RecordedOK'
  BY <1>1, <1>3 DEF RunOK, SrcsOK, PlanOK, CompileOK, WriteOK, RecordedOK, Planned, Written
<1>5. "dropcsv" \notin Env => Clean
  BY DEF LInv, KeptOK
<1>6. ASSUME ClockOK', ManifestOK', DiskSound', "dropcsv" \notin Env => Clean',
             LoadedManifest'.inputs = stamp => AllCurrent'
      PROVE  LInv'
  <2>1. KeptOK' /\ EndOK'
    BY <1>1, <1>2, <1>3, <1>6 DEF KeptOK, EndOK, Written
  <2> QED BY <1>4, <1>6, <2>1 DEF LInv
<1>7. CASE UNCHANGED <<gen, manifest>>
  BY <1>1, <1>2, <1>5, <1>6, <1>7, DiskStays
<1>8. ASSUME pc = "write", manifest' = manifest,
             NEW f \in run.todo, MustWrite(f), gen' = [gen EXCEPT ![f] = Torn]
      PROVE  LInv'
  <2>1. LoadedManifest' = LoadedManifest
    BY <1>8 DEF LoadedManifest
  <2>2. /\ run.cached.fps = LoadedManifest.fps /\ f \in run.changed /\ f \in Folders
        /\ run.cached.outs[f] = LoadedManifest.outs[f]
    BY <1>8 DEF LInv, RunOK, WriteOK, Written
  <2>3. (\E S : gen' \in [Folders -> S]) /\ \A g \in Folders : g # f => gen'[g] = gen[g]
    <3>1. PICK S : gen \in [Folders -> S]
      BY DEF LInv, ClockOK
    <3>2. gen' \in [Folders -> S \cup {Torn}]
      BY <1>8, <3>1
    <3> QED BY <1>8, <3>1, <3>2
  <2>4. ASSUME f \in SourceFolders, LoadedManifest.fps[f] = FolderFp(f) PROVE FALSE
    <3>1. Still(f)
      BY <1>8, <2>2, <2>4 DEF LInv, PlanOK, Planned, Still
    <3>2. run.tagged[f] = ColdLedger[f]
      BY <1>8, <2>2, <3>1 DEF LInv, WriteOK, Written
    <3>3. gen[f] = LoadedManifest.outs[f] /\ gen[f] = ColdLedger[f]
      BY <2>4 DEF LInv, DiskSound, Current
    <3> QED BY <1>8, <2>2, <3>2, <3>3 DEF MustWrite
  <2>5. SourceFolders \subseteq Folders
    BY DEF SourceFolders
  <2>6. ClockOK' /\ ManifestOK'
    BY <1>2, <2>1, <2>3 DEF LInv, ClockOK, ManifestOK, FpsOK, InputsOK
  <2>7. DiskSound'
    BY <1>2, <2>1, <2>3, <2>4, <2>5 DEF LInv, DiskSound, Current
  <2>8. "dropcsv" \notin Env => Clean'
    BY <1>2, <1>5, <1>8, <2>2, <2>3 DEF LInv, KeptOK, Clean, Written
  <2>9. AllCurrent => AllCurrent'
    BY <1>2, <2>1, <2>5 DEF AllCurrent
  <2> QED BY <1>6, <2>1, <2>6, <2>7, <2>8, <2>9 DEF LInv, EndOK
<1>9. ASSUME manifest' = Torn, gen' = gen
      PROVE  LInv'
  <2>1. /\ LoadedManifest' = EmptyManifest
        /\ LoadedManifest'.inputs = NoFile /\ LoadedManifest'.fps = NoEntry /\ LoadedManifest'.outs = NoEntry
        /\ DOMAIN LoadedManifest' = {"inputs", "fps", "outs"}
    BY <1>9 DEF LoadedManifest, EmptyManifest
  <2>2. DOMAIN NoEntry = Folders /\ \A f \in Folders : NoEntry[f] = NoFile
    BY DEF NoEntry
  <2>3. stamp # NoFile
    BY DEF LInv, ClockOK, Time, Gentle, NoFileIsNothing
  <2>4. ClockOK' /\ ManifestOK'
    BY <1>2, <1>9, <2>1, <2>2 DEF LInv, ClockOK, ManifestOK, FpsOK, InputsOK
  <2>5. DiskSound'
    <3>1. \A f \in SourceFolders : f \in Folders /\ FolderFp(f) # NoFile
      BY FpIsRecorded DEF LInv, SourceFolders
    <3> QED BY <1>2, <2>1, <2>2, <3>1 DEF DiskSound
  <2>6. "dropcsv" \notin Env => Clean'
    BY <1>2, <1>5, <1>9 DEF Clean
  <2> QED BY <1>6, <2>1, <2>3, <2>4, <2>5, <2>6
<1> QED BY <1>7, <1>8, <1>9 DEF Crash, disk

\* When every fingerprint is current and nothing is left of other folders, generated/
\* is what a cold run writes.
LEMMA CurrentIsCold ==
  ASSUME LInv, AllCurrent, Clean
  PROVE  gen = ColdLedger
<1>1. PICK S : gen \in [Folders -> S]
  BY DEF LInv, ClockOK
<1>2. DOMAIN ColdLedger = Folders /\ ColdLedger = [f \in Folders |-> ColdLedger[f]]
  BY DEF ColdLedger
<1>3. \A f \in Folders \ SourceFolders : gen[f] = NoFile /\ ColdLedger[f] = NoFile
  BY DEF ColdLedger, Clean
<1>4. \A f \in SourceFolders : gen[f] = ColdLedger[f]
  BY DEF LInv, DiskSound, Current, AllCurrent
<1>5. \A f \in Folders : gen[f] = ColdLedger[f]
  BY <1>3, <1>4
<1>6. gen = [f \in Folders |-> gen[f]]
  BY <1>1
<1> QED BY <1>2, <1>5, <1>6

\* A new vault has no ledger and nothing recorded.
LEMMA InitLInv == Gentle /\ Init => LInv
<1> SUFFICES ASSUME Gentle, Init PROVE LInv
  OBVIOUS
<1>1. /\ clock = 0 /\ stamp = [x \in Files |-> 0] /\ ignored = {} /\ prices = 0
      /\ DOMAIN script = Places /\ DOMAIN rules = Places
      /\ gen = NoEntry /\ manifest = NoFile /\ pc = "idle" /\ crashes = 0
  BY DEF Init
<1>2. DOMAIN NoEntry = Folders /\ \A f \in Folders : NoEntry[f] = NoFile
  BY DEF NoEntry
<1>3. ClockOK
  <2>1. NoEntry \in [Folders -> {NoFile}]
    BY DEF NoEntry
  <2>2. Time = 0..0 /\ 0 \in 0..0
    BY <1>1 DEF Time
  <2>3. stamp \in [Files -> Time]
    BY <1>1, <2>2
  <2> QED BY <1>1, <2>1, <2>3 DEF ClockOK
<1>4. /\ LoadedManifest = EmptyManifest
      /\ LoadedManifest.inputs = NoFile /\ LoadedManifest.fps = NoEntry /\ LoadedManifest.outs = NoEntry
      /\ DOMAIN LoadedManifest = {"inputs", "fps", "outs"}
  BY <1>1 DEF LoadedManifest, EmptyManifest
<1>5. ManifestOK
  BY <1>2, <1>4 DEF ManifestOK, FpsOK, InputsOK
<1>6. DiskSound
  <2>1. \A f \in SourceFolders : f \in Folders /\ FolderFp(f) # NoFile
    BY <1>3, FpIsRecorded DEF SourceFolders
  <2> QED BY <1>2, <1>4, <2>1 DEF DiskSound
<1>7. RunOK /\ SrcsOK /\ PlanOK /\ CompileOK /\ WriteOK
  BY <1>1 DEF RunOK, SrcsOK, PlanOK, CompileOK, WriteOK, Planned, Written
<1>8. RecordedOK /\ KeptOK
  BY <1>1, <1>2 DEF RecordedOK, KeptOK, Clean, Written
<1>9. EndOK
  <2>1. stamp # NoFile
    BY <1>3 DEF ClockOK, Time, Gentle, NoFileIsNothing
  <2> QED BY <1>1, <1>4, <2>1 DEF EndOK
<1> QED BY <1>3, <1>5, <1>6, <1>7, <1>8, <1>9 DEF LInv

\* Every step keeps the invariant.
LEMMA NextLInv == Gentle /\ IInv /\ DInv /\ LInv /\ [Next]_vars => LInv'
<1> SUFFICES ASSUME Gentle, IInv, DInv, LInv, [Next]_vars PROVE LInv'
  OBVIOUS
<1>1. CASE Environment
  BY <1>1, EnvironmentLInv
<1>2. CASE RunStep
  <2>1. CASE EarlyExit \/ SaveMeta
    BY <2>1, EndLInv DEF EarlyExit, SaveMeta, disk, Written
  <2>2. CASE Fingerprint
    BY <2>2, FingerprintLInv
  <2>3. CASE Scan
    BY <2>3, ScanLInv
  <2>4. CASE Plan
    BY <2>4, PlanLInv
  <2>5. ASSUME NEW f \in Folders, Hash(f) PROVE LInv'
    BY <2>5, HashLInv
  <2>6. CASE Transform
    BY <2>6, TransformLInv
  <2>7. CASE Merge
    BY <2>7, MergeLInv
  <2>8. ASSUME NEW f \in Folders, WriteLedger(f) PROVE LInv'
    BY <2>8, WriteLInv
  <2>9. CASE PruneOutputs
    BY <2>9, PruneLInv
  <2>10. CASE SaveManifest
    BY <2>10, SaveManifestLInv
  <2>11. CASE (\E f \in Folders : SaveFolderCache(f)) \/ PruneFolderCaches
    BY <2>11, CachesLInv
  <2> QED BY <1>2, <2>1, <2>2, <2>3, <2>4, <2>5, <2>6, <2>7, <2>8, <2>9, <2>10, <2>11 DEF RunStep
<1>3. CASE Crash
  BY <1>3, CrashLInv
<1>4. CASE BeginFull \/ BeginForce \/ \E f \in SourceFolders : BeginHint(f)
  BY <1>4, BeginLInv DEF BeginFull, BeginForce, BeginHint
<1>5. CASE UNCHANGED vars
  <2>1. UNCHANGED <<sources, gen, manifest, pc, run, crashes>>
    BY <1>5 DEF vars, disk
  <2>2. /\ UNCHANGED <<csv, manual, script, rules, ignored, prices, stamp, clock>>
        /\ SourceFolders' = SourceFolders /\ ColdLedger' = ColdLedger
        /\ Time' = Time /\ Stamps' = Stamps
        /\ \A g \in Folders : /\ FolderFp(g)' = FolderFp(g) /\ Script(g)' = Script(g)
                              /\ CsvBag(g)' = CsvBag(g) /\ Chain(g)' = Chain(g)
    BY <2>1, SourcesStay
  <2>3. LoadedManifest' = LoadedManifest
    BY <2>1 DEF LoadedManifest
  <2>4. Calm' <=> Calm
    BY <2>1, <2>2, <2>3 DEF Calm
  <2>5. RunOK'
    BY <2>1, <2>2, <2>3 DEF LInv, RunOK, InputsOK
  <2>6. SrcsOK'
    BY <2>1, <2>2, <2>3, <2>4 DEF LInv, SrcsOK, SourceFolders
  <2>7. PlanOK'
    <3>1. SourceFolders \subseteq Folders /\ (pc \in Planned => run.srcs \subseteq Folders)
      BY DEF SourceFolders, LInv, RunOK, Planned
    <3> QED BY <2>1, <2>2, <2>4, <3>1 DEF LInv, PlanOK, FpsOK
  <2>8. \A f \in Folders : (Still(f)' <=> Still(f)) /\ (Reading(f)' <=> Reading(f))
    BY <2>1, <2>2 DEF Still, Reading
  <2>9. CompileOK'
    BY <2>1, <2>2, <2>4, <2>8 DEF LInv, CompileOK
  <2>10. WriteOK'
    BY <2>1, <2>2, <2>3, <2>4, <2>8 DEF LInv, WriteOK
  <2>11. RecordedOK'
    BY <2>1, <2>3 DEF LInv, RecordedOK
  <2>12. KeptOK'
    BY <2>1, <2>2 DEF LInv, KeptOK, Clean
  <2>13. EndOK'
    BY <2>1, <2>2, <2>3, <2>4, DiskStays DEF LInv, EndOK
  <2> QED BY <2>1, <2>5, <2>6, <2>7, <2>9, <2>10, <2>11, <2>12, <2>13, DiskStays DEF LInv
<1> QED BY <1>1, <1>2, <1>3, <1>4, <1>5 DEF Next

\* Crashes are counted.
CountOK == crashes \in Nat

\* One at a time.
LEMMA NextCountOK == CountOK /\ [Next]_vars => CountOK'
<1> SUFFICES ASSUME CountOK, [Next]_vars PROVE crashes' = crashes \/ crashes' = crashes + 1
  BY DEF CountOK
<1>1. CASE Environment
  BY <1>1 DEF Environment, EditCsv, DropCsv, EditManual, Clobber, EditRules, EditScript,
         DropScript, EditPrices, Ignore, Unignore, Edit
<1>2. CASE RunStep
  BY <1>2 DEF RunStep, Fingerprint, EarlyExit, Scan, Plan, Hash, Fail, WriteLedger, SaveFolderCache,
              Transform, Merge, PruneOutputs, SaveManifest, PruneFolderCaches, SaveMeta
<1>3. CASE Crash
  BY <1>3 DEF Crash
<1>4. CASE BeginFull \/ BeginForce \/ \E f \in SourceFolders : BeginHint(f)
  BY <1>4 DEF BeginFull, BeginForce, BeginHint, Begin
<1>5. CASE UNCHANGED vars
  BY <1>5 DEF vars
<1> QED BY <1>1, <1>2, <1>3, <1>4, <1>5 DEF Next

\* All of it together.
BuildInv == IInv /\ DInv /\ LInv /\ CountOK

\* They hold of every state a vault can be in.
LEMMA BuildInvariant ==
  ASSUME Gentle
  PROVE  Spec => []BuildInv
<1>1. StableReads /\ OwnIds
  BY DEF Gentle, PlainEdits, StableReads, Homes, OwnIds
<1>2. Init => BuildInv
  BY InitIInv, InitDistinct, InitLInv DEF BuildInv, Init, CountOK
<1>3. BuildInv /\ [Next]_vars => BuildInv'
  BY <1>1, NextIInv, NextDistinct, NextLInv, NextCountOK DEF BuildInv
<1> QED BY <1>2, <1>3, PTL DEF Spec

-----------------------------------------------------------------------------
(* What a full run may skip.                                               *)

\* A ledger on disk that is as recorded, under a fingerprint that is current, is
\* what a cold run writes for the folder, whatever was edited while the run that
\* recorded it was under way and wherever a run was cut short (run_pipeline,
\* 1731-1757 and 1854-1875).
THEOREM LayerTwoSafe ==
  ASSUME Gentle
  PROVE  Spec => []LayerTwoSound
<1>1. BuildInv => LayerTwoSound
  <2> SUFFICES ASSUME BuildInv, NEW f \in SourceFolders, LoadedManifest.fps[f] = FolderFp(f)
               PROVE  WithoutIgnored(gen[f], ignored) = ColdLedger[f]
    BY DEF LayerTwoSound
  <2>1. gen[f] = ColdLedger[f] /\ ignored = {}
    BY DEF BuildInv, LInv, DiskSound, Current, ClockOK
  <2>2. IsLedger(ColdLedger[f])
    BY <2>1, ColdIsLinked DEF BuildInv, DInv, Gentle
  <2> QED BY <2>1, <2>2, HideNothing
<1> QED BY <1>1, BuildInvariant, PTL

\* When nothing was edited since the recorded fingerprint, and every output is as it
\* was written, generated/ is what a cold run writes: an early exit leaves nothing
\* stale (run_pipeline, 1588-1635; README.md:42).
THEOREM EarlyExitSafe ==
  ASSUME Gentle, NoOrphans
  PROVE  Spec => []EarlyExitSound
<1>1. BuildInv => EarlyExitSound
  <2> SUFFICES ASSUME BuildInv, LoadedManifest.inputs = stamp PROVE gen = ColdLedger
    BY DEF EarlyExitSound, GlobalFp
  <2>1. AllCurrent /\ Clean
    BY DEF BuildInv, LInv, EndOK
  <2> QED BY <2>1, CurrentIsCold DEF BuildInv
<1> QED BY <1>1, BuildInvariant, PTL

-----------------------------------------------------------------------------
(* Where a run ends.                                                       *)

\* A run under which nothing was edited ends with everything up to date, unless it
\* meets a CSV without a transform; a hinted one at least leaves nothing behind.
LEMMA EndOfRun ==
  ASSUME Gentle, NoOrphans, BuildInv, [Next]_vars, RunEnds, run.began = clock
  PROVE  /\ gen' = gen
         /\ \/ Clean /\ (run.kind # "hint" => AllCurrent)
            \/ \E f \in Folders : csv[f] # NoFile /\ Script(f) = NoFile
<1>1. pc # "idle" /\ pc' = "idle" /\ crashes' = crashes /\ LInv /\ Calm
  BY DEF RunEnds, BuildInv, Calm
<1>2. \/ EarlyExit \/ SaveMeta \/ Transform
      \/ \E f \in Folders : Hash(f)
  <2>1. ~Environment
    BY <1>1 DEF Environment, EditCsv, DropCsv, EditManual, Clobber, EditRules, EditScript,
         DropScript, EditPrices, Ignore, Unignore, Edit
  <2>2. ~Crash
    BY <1>1 DEF Crash, BuildInv, CountOK
  <2>3. ~(BeginFull \/ BeginForce \/ \E f \in SourceFolders : BeginHint(f))
    BY <1>1 DEF BeginFull, BeginForce, BeginHint, Begin
  <2>4. ~UNCHANGED vars
    BY <1>1 DEF vars
  <2>5. ~(Fingerprint \/ Scan \/ Plan \/ Merge \/ PruneOutputs \/ SaveManifest \/ PruneFolderCaches)
    BY <1>1 DEF Fingerprint, Scan, Plan, Merge, PruneOutputs, SaveManifest, PruneFolderCaches
  <2>6. \A f \in Folders : ~WriteLedger(f) /\ ~SaveFolderCache(f)
    BY <1>1 DEF WriteLedger, SaveFolderCache
  <2> QED BY <2>1, <2>2, <2>3, <2>4, <2>5, <2>6 DEF Next, RunStep
<1>3. CASE EarlyExit
  <2>1. run.kind = "full" /\ pc = "check" /\ run.cached.inputs = run.inputs /\ gen' = gen
    BY <1>3 DEF EarlyExit, UpToDate, disk
  <2>2. LoadedManifest.inputs = stamp
    BY <1>1, <2>1 DEF LInv, RunOK, Written
  <2> QED BY <1>1, <2>1, <2>2 DEF LInv, EndOK
<1>4. CASE SaveMeta
  <2>1. pc = "meta" /\ gen' = gen
    BY <1>4 DEF SaveMeta
  <2> QED BY <1>1, <2>1 DEF LInv, EndOK
<1>5. CASE Transform
  <2>1. pc = "compile" /\ run.reading # NoFile /\ csv[run.reading.folder] = NoFile
    BY <1>1, <1>5 DEF Transform
  <2> QED BY <1>1, <2>1 DEF LInv, CompileOK
<1>6. ASSUME NEW f \in Folders, Hash(f)
      PROVE  gen' = gen /\ csv[f] # NoFile /\ Script(f) = NoFile
  <2>1. /\ pc = "compile" /\ f \in run.todo /\ (csv[f] = NoFile \/ Script(f) = NoFile)
        /\ gen' = gen
    BY <1>1, <1>6 DEF Hash, Fail, disk
  <2> QED BY <1>1, <2>1 DEF LInv, CompileOK
<1> QED BY <1>2, <1>3, <1>4, <1>5, <1>6

\* Whatever the cache and the ledgers were when it began, a full or forced run that
\* nothing was edited under leaves generated/ as a cold run would.
THEOREM WarmEqualsColdSafe ==
  ASSUME Gentle, NoOrphans
  PROVE  Spec => WarmEqualsCold
<1>1. BuildInv /\ [Next]_vars =>
        (RunEnds /\ run.kind # "hint" /\ run.began = clock /\ Compiles => gen' = ColdLedger)
  <2> SUFFICES ASSUME BuildInv, [Next]_vars, RunEnds, run.kind # "hint", run.began = clock, Compiles
               PROVE  gen' = ColdLedger
    OBVIOUS
  <2>1. gen' = gen /\ Clean /\ AllCurrent
    BY EndOfRun DEF Compiles
  <2> QED BY <2>1, CurrentIsCold DEF BuildInv
<1> QED BY <1>1, BuildInvariant, PTL DEF Spec, WarmEqualsCold

\* A hinted run after which every fingerprint is current, so that nothing was edited
\* that its hints did not name, leaves generated/ as a full run would.
THEOREM ScopedEqualsFullSafe ==
  ASSUME Gentle, NoOrphans
  PROVE  Spec => ScopedEqualsFull
<1>1. BuildInv /\ [Next]_vars =>
        (/\ RunEnds /\ run.kind = "hint" /\ run.began = clock
         /\ \A f \in SourceFolders : LoadedManifest.fps[f] = FolderFp(f)
         => gen' = ColdLedger)
  <2> SUFFICES ASSUME BuildInv, [Next]_vars, RunEnds, run.kind = "hint", run.began = clock, AllCurrent
               PROVE  gen' = ColdLedger
    BY DEF AllCurrent
  <2>1. ~\E f \in Folders : csv[f] # NoFile /\ Script(f) = NoFile
    BY DEF BuildInv, LInv, DiskSound, Current, AllCurrent, SourceFolders
  <2>2. gen' = gen /\ Clean
    BY <2>1, EndOfRun
  <2> QED BY <2>2, CurrentIsCold DEF BuildInv
<1> QED BY <1>1, BuildInvariant, PTL DEF Spec, ScopedEqualsFull

=============================================================================
