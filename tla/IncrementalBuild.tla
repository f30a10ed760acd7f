-------------------------- MODULE IncrementalBuild --------------------------
(***************************************************************************)
(* run_pipeline (processing_pipeline.rs) and the build cache it trusts     *)
(* (build_cache.rs): the incremental compilation of sources/ into the      *)
(* per-folder ledgers of generated/.                                       *)
(*                                                                         *)
(* A transaction is a record [id, cls, link].  cls is what the compiler    *)
(* made of it (the transform script, the rules of its folder chain, and    *)
(* whether it was recognised as a self-transfer); link is <<>> for a plain *)
(* transaction and <<p>> for a swap leg that auto_link tagged and priced   *)
(* from price table p (price table 0 has no quote, so <<0>> is unpriced).  *)
(* A ledger is a bag of transactions, because counting one twice is one of *)
(* the ways an incremental build goes wrong.  A hash is modelled by the    *)
(* content it is taken of, a fingerprint by the modification stamps of the *)
(* files it covers.                                                        *)
(***************************************************************************)
EXTENDS Naturals, FiniteSets, Bags, FiniteSetsExt

CONSTANTS
  Folders,     \* source folders that may hold data files
  Dirs,        \* institution directories above them, which hold shared files
  Above,       \* the directory above each folder
  SetOf,       \* the account set of each folder (extract_account_set)
  CsvRows,     \* the rows the CSV of a folder may contain
  ManualIds,   \* the entries the manual.transactions of a folder may contain
  SwapOf,      \* the ids with an equity:trading leg, each with its partner
  Mentions,    \* the folder accounts that the text of a CSV row mentions
  MaxVersion,  \* bound: versions of a script, a rules file, the price table
  Env,         \* the environment actions a run of the model allows
  MaxClock,    \* bound: edits of sources/ and generated/ by the environment
  MaxCrash,    \* bound: crashes of the process
  NoFile,      \* an absent file, an absent map entry, an absent value
  Torn         \* content that is not what the pipeline wrote

Ids == (UNION {CsvRows[f] : f \in Folders}) \cup (UNION {ManualIds[f] : f \in Folders})
Places == Folders \cup Dirs
Trades == DOMAIN SwapOf

ASSUME SourcesAssumption ==
  /\ Folders \cap Dirs = {}
  /\ Above \in [Folders -> Dirs]
  /\ Trades \subseteq Ids
  /\ \A t \in Trades : SwapOf[t] # t /\ SwapOf[SwapOf[t]] = t
  /\ \A id \in Ids : Mentions[id] \subseteq Folders
  /\ MaxClock \in Nat /\ MaxCrash \in Nat /\ MaxVersion \in Nat

VARIABLES
  csv, manual,        \* data files of each folder: a set of rows, or NoFile
  script, rules,      \* _transform.rhai and _rules.json of each folder and directory
  ignored, prices,    \* _ignored.txt and the price files
  stamp,              \* (mtime, size) of the files of a place, see Fingerprint
  gen,                \* generated/<folder>/ledger.transactions
  manifest, fcache,   \* .cache/manifest.json and the folder cache files
  meta,               \* whether the pipeline metadata can be read
  pc, run,            \* the run that holds PIPELINE_LOCK, and its memory
  clock, crashes

sources == <<csv, manual, script, rules, ignored, prices, stamp, clock>>
disk == <<gen, manifest, fcache, meta>>
vars == <<sources, disk, pc, run, crashes>>

-----------------------------------------------------------------------------
(* Bags of transactions.                                                   *)

OnlyWhere(B, P(_)) == [t \in {u \in DOMAIN B : P(u)} |-> B[t]]

ImageBag(B, F(_)) ==
  [t \in {F(u) : u \in DOMAIN B} |->
     MapThenSumSet(LAMBDA u : B[u], {u \in DOMAIN B : F(u) = t})]

-----------------------------------------------------------------------------
(* The compiler: what one folder compiles to, given what was read of it.   *)

Plain(id, c) == [id |-> id, cls |-> c, link |-> <<>>]

\* The rules that apply in a folder, closest first.
RulesChain(f) == <<rules[f], rules[Above[f]]>>

\* The nearest transform script, and the hash of the chain.
Script(f) == IF script[f] # NoFile THEN script[f] ELSE script[Above[f]]
Chain(f) == <<Script(f), RulesChain(f)>>

\* A CSV through its transform chain; a row no rule classified is a
\* self-transfer when it mentions a declared account.
Transformed(rows, chain, declared) ==
  SetToBag({Plain(r, <<chain, Mentions[r] \cap declared # {}>>) : r \in rows})

\* The manual.transactions of a folder with the rules of its chain applied.
ManualTxns(f) ==
  IF manual[f] = NoFile THEN EmptyBag
  ELSE SetToBag({Plain(m, <<RulesChain(f), FALSE>>) : m \in manual[f]})

\* Folders that hold a data file.
SourceFolders == {f \in Folders : csv[f] # NoFile \/ manual[f] # NoFile}

\* auto_link_equity_swaps over the transactions in hand, for legs that post to
\* plain equity:trading.
LinksHeld(tg, id) ==
  UNION {{t.link : t \in {u \in DOMAIN tg[f] : u.id = id}} : f \in Folders}

\* A plain leg is linked when its partner is in hand and plain too ...
TakesLink(tg, t) == t.link = <<>> /\ <<>> \in LinksHeld(tg, SwapOf[t.id])

\* ... and a linked leg without a price takes one when its partner is in hand.
TakesPrice(tg, t) == t.link = <<0>> /\ LinksHeld(tg, SwapOf[t.id]) # {}

LinkedTxn(tg, t, p) ==
  IF t.id \in Trades /\ (TakesLink(tg, t) \/ TakesPrice(tg, t))
  THEN [t EXCEPT !.link = <<p>>]
  ELSE t

AutoLinked(tg, p) == [f \in Folders |-> ImageBag(tg[f], LAMBDA t : LinkedTxn(tg, t, p))]

\* An ignored id is searched for in the text of the metadata, where a linked leg
\* also names its partner.
Named(t) == {t.id} \cup (IF t.link = <<>> THEN {} ELSE {SwapOf[t.id]})

WithoutIgnored(B, ids) == OnlyWhere(B, LAMBDA t : Named(t) \cap ids = {})

-----------------------------------------------------------------------------
(* The reference: what a cold, forced run compiles the sources to.         *)

Compiles == \A f \in Folders : csv[f] # NoFile => Script(f) # NoFile

ColdTagged ==
  [f \in Folders |->
     WithoutIgnored(
       (IF csv[f] = NoFile THEN EmptyBag
        ELSE Transformed(csv[f], Chain(f), SourceFolders)) (+) ManualTxns(f),
       ignored)]

ColdLedger ==
  [f \in Folders |-> IF f \in SourceFolders THEN AutoLinked(ColdTagged, prices)[f] ELSE NoFile]

-----------------------------------------------------------------------------
(* Fingerprints (dir_fingerprint and Layer 2 of run_pipeline).  stamp has  *)
(* one entry for the data files and script of a place, one for its rules,  *)
(* one for _ignored.txt and one for the price files.                       *)

Data(p) == <<"data", p>>
Rules(p) == <<"rules", p>>
Ignored == <<"ignored", NoFile>>
Prices == <<"prices", NoFile>>
Files == {Data(p) : p \in Places} \cup {Rules(p) : p \in Places} \cup {Ignored, Prices}

\* Mutant of FolderFp: the rules above a folder are left out of its fingerprint.
FolderFpOwnOnly(f) == <<stamp[Data(f)], stamp[Rules(f)]>>

\* A folder's own files, and the rules (not the scripts) of what is above it.
FolderFp(f) == <<stamp[Data(f)], stamp[Rules(f)], stamp[Rules(Above[f])]>>

GlobalFp == stamp

-----------------------------------------------------------------------------
(* The build cache on disk.                                                *)

NoEntry == [f \in Folders |-> NoFile]
EmptyManifest == [inputs |-> NoFile, fps |-> NoEntry, outs |-> NoEntry]

\* A missing or unreadable manifest loads as an empty cache.
LoadedManifest == IF manifest \in {NoFile, Torn} THEN EmptyManifest ELSE manifest

\* Folder cache files: all of them on a full load, those of the fingerprinted
\* folders of the affected sets on a filtered one; an unreadable file is empty.
LoadedEntries(hint) ==
  [f \in Folders |->
     IF \/ manifest = NoFile
        \/ fcache[f] = Torn
        \/ hint # {} /\ LoadedManifest.fps[f] = NoFile
        \/ hint # {} /\ (f \notin SourceFolders \/ ~\E h \in hint : SetOf[h] = SetOf[f])
     THEN NoFile ELSE fcache[f]]

OutputsIntact ==
  \A f \in Folders : LoadedManifest.outs[f] # NoFile => gen[f] = LoadedManifest.outs[f]

-----------------------------------------------------------------------------
NoRun == [kind |-> "none"]

Init ==
  /\ csv = [f \in Folders |-> IF CsvRows[f] = {} THEN NoFile ELSE CsvRows[f]]
  /\ manual = [f \in Folders |-> IF ManualIds[f] = {} THEN NoFile ELSE ManualIds[f]]
  /\ script = [p \in Places |-> IF p \in Dirs THEN 0 ELSE NoFile]
  /\ rules = [p \in Places |-> 0]
  /\ ignored = {} /\ prices = 0
  /\ stamp = [x \in Files |-> 0]
  /\ gen = NoEntry /\ manifest = NoFile /\ fcache = NoEntry /\ meta = FALSE
  /\ pc = "idle" /\ run = NoRun
  /\ clock = 0 /\ crashes = 0

-----------------------------------------------------------------------------
(* The environment: the user, plugins, git, another tool.  Every action is *)
(* one edit; Env says which kinds of edit a run of the model considers.    *)

Edit(kind) ==
  /\ kind \in Env
  /\ "concurrent" \in Env \/ pc = "idle"
  /\ clock < MaxClock /\ clock' = clock + 1
  /\ UNCHANGED <<gen, manifest, fcache, meta, pc, run, crashes>>

\* An edit changes the modification time of the file; with "racy" it may fall
\* in the second, and keep the size, of the edit before it.
Touch(x) ==
  \E s \in {clock + 1} \cup {t \in {stamp[x]} : "racy" \in Env} :
    stamp' = [stamp EXCEPT ![x] = s]

\* A run lists sources/ before it takes a fingerprint, see Begin, Fingerprint,
\* Scan and Plan: a file that appears or goes in between is in the fingerprint
\* and not in the list.
Listable == pc \in {"list", "scan"} => "listrace" \in Env

\* Between the two reads of a CSV by one run, see Hash and Transform.
MidTransform(f) == pc = "compile" /\ run.reading # NoFile /\ run.reading.folder = f

EditCsv(f) ==
  /\ Edit("csv")
  /\ MidTransform(f) => "midtransform" \in Env
  /\ csv[f] = NoFile => Listable
  /\ \E rows \in (SUBSET CsvRows[f]) \ {{}, csv[f]} : csv' = [csv EXCEPT ![f] = rows]
  /\ Touch(Data(f))
  /\ UNCHANGED <<manual, script, rules, ignored, prices>>

\* The CSV of a folder is deleted.
DropCsv(f) ==
  /\ Edit("dropcsv") /\ csv[f] # NoFile
  /\ Listable
  /\ csv' = [csv EXCEPT ![f] = NoFile]
  /\ Touch(Data(f))
  /\ UNCHANGED <<manual, script, rules, ignored, prices>>

EditManual(f) ==
  /\ Edit("manual")
  /\ manual[f] = NoFile => Listable
  /\ \E ids \in (SUBSET ManualIds[f]) \ {manual[f]} : manual' = [manual EXCEPT ![f] = ids]
  /\ Touch(Data(f))
  /\ UNCHANGED <<csv, script, rules, ignored, prices>>

EditRules(p) ==
  /\ Edit(IF p \in Dirs THEN "dirrules" ELSE "rules") /\ rules[p] < MaxVersion
  /\ rules' = [rules EXCEPT ![p] = @ + 1]
  /\ Touch(Rules(p))
  /\ UNCHANGED <<csv, manual, script, ignored, prices>>

EditScript(p) ==
  /\ Edit(IF p \in Dirs THEN "dirscript" ELSE "script")
  /\ script[p] # MaxVersion
  /\ script' = [script EXCEPT ![p] = IF @ = NoFile THEN 1 ELSE @ + 1]
  /\ Touch(Data(p))
  /\ UNCHANGED <<csv, manual, rules, ignored, prices>>

DropScript(p) ==
  /\ Edit(IF p \in Dirs THEN "dropdirscript" ELSE "dropscript") /\ script[p] # NoFile
  /\ script' = [script EXCEPT ![p] = NoFile]
  /\ Touch(Data(p))
  /\ UNCHANGED <<csv, manual, rules, ignored, prices>>

EditPrices ==
  /\ Edit("prices") /\ prices < MaxVersion
  /\ prices' = prices + 1
  /\ Touch(Prices)
  /\ UNCHANGED <<csv, manual, script, rules, ignored>>

Ignore(id) ==
  /\ Edit("ignore") /\ id \notin ignored
  /\ ignored' = ignored \cup {id}
  /\ Touch(Ignored)
  /\ UNCHANGED <<csv, manual, script, rules, prices>>

Unignore(id) ==
  /\ Edit("unignore") /\ id \in ignored
  /\ ignored' = ignored \ {id}
  /\ Touch(Ignored)
  /\ UNCHANGED <<csv, manual, script, rules, prices>>

\* A generated ledger is deleted or overwritten by something else.
Clobber(f) ==
  /\ "clobber" \in Env /\ pc = "idle" /\ clock < MaxClock /\ clock' = clock + 1
  /\ gen[f] # NoFile
  /\ \E junk \in {NoFile, Torn} : gen' = [gen EXCEPT ![f] = junk]
  /\ UNCHANGED <<csv, manual, script, rules, ignored, prices, stamp>>
  /\ UNCHANGED <<manifest, fcache, meta, pc, run, crashes>>

Environment ==
  \/ \E f \in Folders : EditCsv(f) \/ DropCsv(f) \/ EditManual(f) \/ Clobber(f)
  \/ \E p \in Places : EditRules(p) \/ EditScript(p) \/ DropScript(p)
  \/ EditPrices
  \/ \E id \in Ids : Ignore(id) \/ Unignore(id)

-----------------------------------------------------------------------------
(* One run of run_pipeline, between two file operations that another       *)
(* process can see or a crash can separate.  PIPELINE_LOCK keeps a second  *)
(* run out, so `run` is the memory of the only one.                        *)

\* List the source folders and load the cache.
Begin(kind, hint) ==
  /\ pc = "idle"
  /\ pc' = "list"
  /\ run' = [kind |-> kind, hint |-> hint, began |-> clock,
             srcs |-> SourceFolders, inputs |-> NoFile, csvs |-> {},
             cached |-> LoadedManifest, entries |-> LoadedEntries(hint)]
  /\ UNCHANGED <<sources, disk, crashes>>

\* Take the global fingerprint, unless a hint says what changed.
Fingerprint ==
  /\ pc = "list"
  /\ pc' = "check"
  /\ run' = [run EXCEPT !.inputs = IF run.kind = "hint" THEN NoFile ELSE GlobalFp]
  /\ UNCHANGED <<sources, disk, crashes>>

UpToDate ==
  /\ run.kind = "full"
  /\ run.cached.inputs = run.inputs
  /\ \A f \in Folders : run.cached.outs[f] # NoFile => gen[f] = run.cached.outs[f]
  /\ meta

\* Layer 1: nothing under sources/ changed and every output is as written.
EarlyExit ==
  /\ pc = "check" /\ UpToDate
  /\ pc' = "idle" /\ run' = NoRun
  /\ UNCHANGED <<sources, disk, crashes>>

\* Layer 2: the folders whose cached transactions can be used.
RunFps ==
  [f \in Folders |->
     IF f \notin run.srcs THEN NoFile
     ELSE IF run.kind = "hint" /\ f \notin run.hint THEN run.cached.fps[f]
     ELSE FolderFp(f)]

Unchanged(fps) ==
  {f \in run.srcs :
     \/ run.kind = "hint" /\ f \notin run.hint
     \/ run.kind = "full" /\ fps[f] = run.cached.fps[f] /\ gen[f] # NoFile}

\* With a hint, only the folders of the account sets it touches are loaded.
InScope(f) == run.kind = "hint" => \E h \in run.hint : SetOf[h] = SetOf[f]

Intact(f) == gen[f] # NoFile /\ gen[f] = run.cached.outs[f]

\* Unchanged folders come from their ledger on disk if it is what was last
\* written, otherwise from the cached entries, which hold no manual ones.
Loaded(f, unchanged) ==
  IF f \notin unchanged \/ ~InScope(f) THEN EmptyBag
  ELSE IF Intact(f) THEN gen[f]
  ELSE IF run.entries[f] # NoFile THEN run.entries[f].txns
  ELSE EmptyBag

\* Mutants of Rewrite: one of its two reasons is forgotten.
RewriteOnlyIgnored(f) == Intact(f) /\ \E t \in DOMAIN gen[f] : Named(t) \cap ignored # {}
RewriteOnlyRecovered(f) ==
  ~Intact(f) /\ run.entries[f] # NoFile /\ run.entries[f].txns # EmptyBag

\* Unchanged folders to write all the same: recovered, or now hiding a row.
Rewrite(f) ==
  IF Intact(f) THEN \E t \in DOMAIN gen[f] : Named(t) \cap ignored # {}
  ELSE run.entries[f] # NoFile /\ run.entries[f].txns # EmptyBag

\* Without the early exit: list the CSVs ...
Scan ==
  /\ pc = "check" /\ ~UpToDate
  /\ pc' = "scan"
  /\ run' = [run EXCEPT !.csvs = {f \in Folders : csv[f] # NoFile}]
  /\ UNCHANGED <<sources, disk, crashes>>

\* ... then take the folder fingerprints, and load what did not change.
Plan ==
  /\ pc = "scan"
  /\ pc' = "compile"
  /\ LET fps == RunFps
         unchanged == Unchanged(fps)
         loaded == {f \in unchanged : InScope(f)}
     IN run' = [kind |-> run.kind, began |-> run.began, srcs |-> run.srcs,
                inputs |-> run.inputs, cached |-> run.cached, entries |-> run.entries,
                fps |-> fps, unchanged |-> unchanged, csvs |-> run.csvs,
                ignored |-> ignored, declared |-> run.srcs,
                intact |-> {f \in loaded : Intact(f)},
                rewrite |-> {f \in loaded : Rewrite(f)},
                todo |-> run.csvs \ unchanged, reading |-> NoFile,
                tagged |-> [f \in Folders |-> Loaded(f, unchanged)]]
  /\ UNCHANGED <<sources, disk, crashes>>

\* An error return: what was written stays, nothing more is written.
Fail ==
  /\ pc' = "idle" /\ run' = NoRun
  /\ UNCHANGED <<sources, disk, crashes>>

\* Mutant of Hash: the lookup does not compare the transform hash.
HashIgnoresChain(f) ==
  /\ pc = "compile" /\ run.reading = NoFile /\ f \in run.todo
  /\ \/ (csv[f] = NoFile \/ Script(f) = NoFile) /\ Fail
     \/ /\ csv[f] # NoFile /\ Script(f) # NoFile
        /\ LET e == run.entries[f]
               hit == e # NoFile /\ e.rows = csv[f]
           IN run' = [run EXCEPT
                        !.todo = @ \ {f},
                        !.reading = IF hit THEN NoFile
                                    ELSE [folder |-> f, rows |-> csv[f], chain |-> Chain(f)],
                        !.tagged[f] = IF hit THEN e.txns ELSE @]
        /\ UNCHANGED <<sources, disk, crashes, pc>>

\* process_csv_files, first read: hash the file, resolve the chain, and use the
\* cached entry if it is of this file and this chain.
Hash(f) ==
  /\ pc = "compile" /\ run.reading = NoFile /\ f \in run.todo
  /\ \/ (csv[f] = NoFile \/ Script(f) = NoFile) /\ Fail
     \/ /\ csv[f] # NoFile /\ Script(f) # NoFile
        /\ LET e == run.entries[f]
               hit == e # NoFile /\ e.rows = csv[f] /\ e.chain = Chain(f)
           IN run' = [run EXCEPT
                        !.todo = @ \ {f},
                        !.reading = IF hit THEN NoFile
                                    ELSE [folder |-> f, rows |-> csv[f], chain |-> Chain(f)],
                        !.tagged[f] = IF hit THEN e.txns ELSE @]
        /\ UNCHANGED <<sources, disk, crashes, pc>>

\* Mutant of Transform: an entry that exists gets the new hashes only.
TransformKeepsEntry ==
  /\ pc = "compile" /\ run.reading # NoFile
  /\ LET f == run.reading.folder
         txns == Transformed(csv[f], run.reading.chain, run.declared)
         kept == IF run.entries[f] = NoFile THEN txns ELSE run.entries[f].txns
         entry == [rows |-> run.reading.rows, chain |-> run.reading.chain, txns |-> kept]
     IN \/ csv[f] = NoFile /\ Fail
        \/ /\ csv[f] # NoFile
           /\ run' = [run EXCEPT !.reading = NoFile, !.entries[f] = entry, !.tagged[f] = txns]
           /\ UNCHANGED <<sources, disk, crashes, pc>>

\* process_csv_files, second read: transform_csv_with_default opens the file
\* again, and the result is filed under the hash of the first read.
Transform ==
  /\ pc = "compile" /\ run.reading # NoFile
  /\ LET f == run.reading.folder
         txns == Transformed(csv[f], run.reading.chain, run.declared)
         entry == [rows |-> run.reading.rows, chain |-> run.reading.chain, txns |-> txns]
     IN \/ csv[f] = NoFile /\ Fail
        \/ /\ csv[f] # NoFile
           /\ run' = [run EXCEPT !.reading = NoFile, !.entries[f] = entry, !.tagged[f] = txns]
           /\ UNCHANGED <<sources, disk, crashes, pc>>

\* Mutant of Gathered: manual entries are added to ledgers that hold them.
GatheredTwice ==
  [f \in Folders |-> WithoutIgnored(run.tagged[f] (+) ManualTxns(f), run.ignored)]

\* Everything in hand: what was loaded or compiled, and the manual entries of
\* every folder whose ledger was not loaded with them inlined.
Gathered ==
  [f \in Folders |->
     WithoutIgnored(
       run.tagged[f] (+) (IF f \in run.intact THEN EmptyBag ELSE ManualTxns(f)),
       run.ignored)]

\* Mutant of TouchesTrading: the test for changed folders is inverted.
TouchesTradingUnchanged(tagged) ==
  \E f \in run.unchanged : \E t \in DOMAIN tagged[f] : t.id \in Trades

\* auto_link runs only when a changed folder holds a trading leg.
TouchesTrading(tagged) ==
  \E f \in Folders \ run.unchanged : \E t \in DOMAIN tagged[f] : t.id \in Trades

Merge ==
  /\ pc = "compile" /\ run.reading = NoFile /\ run.todo = {}
  /\ pc' = "write"
  /\ LET gathered == Gathered
         linked == IF TouchesTrading(gathered) THEN AutoLinked(gathered, prices) ELSE gathered
         changed == (run.srcs \ run.unchanged) \cup run.rewrite
                      \cup {f \in Folders : linked[f] # gathered[f]}
     IN run' = [kind |-> run.kind, began |-> run.began, srcs |-> run.srcs,
                inputs |-> run.inputs, cached |-> run.cached, fps |-> run.fps,
                entries |-> [f \in Folders |-> IF f \in run.csvs THEN run.entries[f] ELSE NoFile],
                tagged |-> linked, changed |-> changed, todo |-> changed]
  /\ UNCHANGED <<sources, disk, crashes>>

\* write_if_changed leaves a file alone only if the recorded hash and the file
\* itself are both what is to be written.
MustWrite(f) == run.cached.outs[f] # run.tagged[f] \/ gen[f] # run.tagged[f]

\* Mutant of WriteLedger: the manifest is saved after every ledger.
WriteLedgerSaving(f) ==
  /\ pc = "write" /\ f \in run.todo
  /\ gen' = [gen EXCEPT ![f] = IF MustWrite(f) THEN run.tagged[f] ELSE @]
  /\ run' = [run EXCEPT !.todo = @ \ {f}, !.cached.outs[f] = run.tagged[f]]
  /\ manifest' = [inputs |-> run.inputs, fps |-> run.fps, outs |-> run.cached.outs]
  /\ UNCHANGED <<sources, fcache, meta, pc, crashes>>

\* write_folder_ledger, through write_if_changed.
WriteLedger(f) ==
  /\ pc = "write" /\ f \in run.todo
  /\ gen' = [gen EXCEPT ![f] = IF MustWrite(f) THEN run.tagged[f] ELSE @]
  /\ run' = [run EXCEPT !.todo = @ \ {f}, !.cached.outs[f] = run.tagged[f]]
  /\ UNCHANGED <<sources, manifest, fcache, meta, pc, crashes>>

\* mark_live_outputs: the folders whose outputs are kept.
Live == run.srcs \cup run.changed

\* prune_stale_outputs: remove the recorded outputs that are no longer live.
PruneOutputs ==
  /\ pc = "write" /\ run.todo = {}
  /\ pc' = "manifest"
  /\ LET stale == {f \in Folders : run.cached.outs[f] # NoFile} \ Live
     IN /\ gen' = [f \in Folders |-> IF f \in stale THEN NoFile ELSE gen[f]]
        /\ run' = [run EXCEPT !.cached.outs =
                     [f \in Folders |-> IF f \in stale THEN NoFile ELSE @[f]]]
  /\ UNCHANGED <<sources, manifest, fcache, meta, crashes>>

\* Mutant of SavedFps: fingerprints are taken when they are saved.
SavedFpsLate ==
  [f \in Folders |->
     IF run.fps[f] = NoFile THEN NoFile
     ELSE IF f \in run.changed THEN FolderFp(f) ELSE run.cached.fps[f]]

\* Fingerprints of the folders written, without those of folders now gone.
SavedFps ==
  [f \in Folders |->
     IF run.fps[f] = NoFile THEN NoFile
     ELSE IF f \in run.changed THEN run.fps[f] ELSE run.cached.fps[f]]

\* Mutant of SaveManifest: the global fingerprint is taken when it is saved.
SaveManifestLate ==
  /\ pc = "manifest"
  /\ pc' = "fcache"
  /\ manifest' = [inputs |-> GlobalFp, fps |-> SavedFps, outs |-> run.cached.outs]
  /\ run' = [run EXCEPT !.todo = {f \in run.changed : SavedFps[f] # NoFile}]
  /\ UNCHANGED <<sources, gen, fcache, meta, crashes>>

\* save_cache, first the manifest ...
SaveManifest ==
  /\ pc = "manifest"
  /\ pc' = "fcache"
  /\ manifest' = [inputs |-> run.inputs, fps |-> SavedFps, outs |-> run.cached.outs]
  /\ run' = [run EXCEPT !.todo = {f \in run.changed : SavedFps[f] # NoFile}]
  /\ UNCHANGED <<sources, gen, fcache, meta, crashes>>

\* ... then the cache file of every folder written ...
SaveFolderCache(f) ==
  /\ pc = "fcache" /\ f \in run.todo
  /\ fcache' = [fcache EXCEPT ![f] = run.entries[f]]
  /\ run' = [run EXCEPT !.todo = @ \ {f}]
  /\ UNCHANGED <<sources, gen, manifest, meta, pc, crashes>>

\* ... and the removal of the files of folders that are gone.
PruneFolderCaches ==
  /\ pc = "fcache" /\ run.todo = {}
  /\ pc' = "meta"
  /\ fcache' = [f \in Folders |->
                  IF SavedFps[f] # NoFile \/ run.entries[f] # NoFile THEN fcache[f] ELSE NoFile]
  /\ UNCHANGED <<sources, gen, manifest, meta, run, crashes>>

\* PipelineMetadata::save, the last file of a run.
SaveMeta ==
  /\ pc = "meta"
  /\ pc' = "idle"
  /\ meta' = TRUE
  /\ run' = NoRun
  /\ UNCHANGED <<sources, gen, manifest, fcache, crashes>>

RunStep ==
  \/ Fingerprint \/ EarlyExit \/ Scan \/ Plan
  \/ \E f \in Folders : Hash(f) \/ WriteLedger(f) \/ SaveFolderCache(f)
  \/ Transform \/ Merge \/ PruneOutputs \/ SaveManifest \/ PruneFolderCaches \/ SaveMeta

\* The process dies; a file it was writing may be left truncated.
Crash ==
  /\ pc # "idle" /\ crashes < MaxCrash /\ crashes' = crashes + 1
  /\ pc' = "idle" /\ run' = NoRun
  /\ \/ UNCHANGED disk
     \/ /\ pc = "write"
        /\ \E f \in run.todo : MustWrite(f) /\ gen' = [gen EXCEPT ![f] = Torn]
        /\ UNCHANGED <<manifest, fcache, meta>>
     \/ pc = "manifest" /\ manifest' = Torn /\ UNCHANGED <<gen, fcache, meta>>
     \/ /\ pc = "fcache"
        /\ \E f \in run.todo : fcache' = [fcache EXCEPT ![f] = Torn]
        /\ UNCHANGED <<gen, manifest, meta>>
     \/ pc = "meta" /\ meta' = FALSE /\ UNCHANGED <<gen, manifest, fcache>>
  /\ UNCHANGED sources

BeginFull == Begin("full", {})
BeginForce == "force" \in Env /\ Begin("force", {})
BeginHint(f) == "hint" \in Env /\ Begin("hint", {f})

Next ==
  \/ Environment \/ RunStep \/ Crash
  \/ BeginFull \/ BeginForce
  \/ \E f \in SourceFolders : BeginHint(f)

Spec == Init /\ [][Next]_vars

\* The watcher and the user keep asking for rebuilds, and a run goes on.
FairSpec == Spec /\ WF_vars(RunStep) /\ WF_vars(BeginFull)

-----------------------------------------------------------------------------
Rows == SUBSET Ids

TypeOK ==
  /\ csv \in [Folders -> Rows \cup {NoFile}] /\ manual \in [Folders -> Rows \cup {NoFile}]
  /\ script \in [Places -> (0..MaxVersion) \cup {NoFile}] /\ rules \in [Places -> 0..MaxVersion]
  /\ ignored \subseteq Ids /\ prices \in 0..MaxVersion
  /\ stamp \in [Files -> 0..MaxClock] /\ clock \in 0..MaxClock /\ crashes \in 0..MaxCrash
  /\ \A f \in Folders :
       /\ gen[f] \notin {NoFile, Torn} => IsABag(gen[f])
       /\ fcache[f] \notin {NoFile, Torn} =>
            DOMAIN fcache[f] = {"rows", "chain", "txns"} /\ IsABag(fcache[f].txns)
  /\ manifest \notin {NoFile, Torn} => DOMAIN manifest = {"inputs", "fps", "outs"}
  /\ meta \in BOOLEAN
  /\ pc \in {"idle", "list", "check", "scan", "compile", "write", "manifest", "fcache", "meta"}
  /\ pc = "idle" <=> run = NoRun

\* Layer 1 may be trusted: whenever a full run would exit early, the ledgers
\* on disk are those a cold run would write, whatever was edited while the
\* run that wrote them was reading (run_pipeline, 1588-1635).  A build that
\* skips what did not change (README.md:42) skips nothing that did.
EarlyExitSound ==
  LoadedManifest.inputs = GlobalFp /\ OutputsIntact => gen = ColdLedger

\* Layer 2 may be trusted: whenever a full run would load a folder from its
\* ledger on disk, that ledger, less the rows ignored since, is what a cold run
\* would write for the folder (run_pipeline, 1731-1757 and 1854-1875).
LayerTwoSound ==
  \A f \in SourceFolders :
    LoadedManifest.fps[f] = FolderFp(f) /\ gen[f] # NoFile /\ gen[f] = LoadedManifest.outs[f]
      => WithoutIgnored(gen[f], ignored) = ColdLedger[f]

\* A cache entry holds what the file and the chain it is filed under compile
\* to, so that the lookup of a later run may use it (build_cache.rs, 365-378).
EntrySound ==
  \A f \in Folders :
    fcache[f] \notin {NoFile, Torn} =>
      fcache[f].txns = Transformed(fcache[f].rows, fcache[f].chain, SourceFolders)

\* Whatever else is stale, no transaction is counted twice: the manual entries
\* that a ledger already holds are not added to it again (1810-1817, 1954-1990).
NoRowTwice ==
  \A f \in Folders : gen[f] \notin {NoFile, Torn} => \A t \in DOMAIN gen[f] : gen[f][t] = 1

RunEnds == pc # "idle" /\ pc' = "idle" /\ crashes' = crashes

\* A full or forced run that nothing was edited under leaves generated/ as a
\* cold run would, whatever state of the cache and the ledgers it started from.
WarmEqualsCold ==
  [][ RunEnds /\ run.kind # "hint" /\ run.began = clock /\ Compiles => gen' = ColdLedger ]_vars

\* A hinted run leaves generated/ as a full run would, when its hint names all
\* that changed: afterwards every fingerprint is that of the folder.
ScopedEqualsFull ==
  [][ /\ RunEnds /\ run.kind = "hint" /\ run.began = clock
      /\ \A f \in SourceFolders : LoadedManifest.fps[f] = FolderFp(f)
      => gen' = ColdLedger ]_vars

\* Whatever else is stale, a full run hides every row listed in _ignored.txt,
\* also in folders it would not have compiled (1780-1785, 1861-1875).
IgnoredStayHidden ==
  [][ RunEnds /\ run.kind # "hint" /\ run.began = clock /\ Compiles =>
        \A f \in Folders : gen'[f] \notin {NoFile, Torn} =>
          \A t \in DOMAIN gen'[f] : t.id \notin ignored ]_vars

\* A folder without a transform does not keep the others from being compiled.
MissingTransformIsLocal ==
  [][ RunEnds /\ run.kind # "hint" /\ run.began = clock =>
        \A f \in SourceFolders : Script(f) # NoFile => gen'[f] = ColdLedger[f] ]_vars

\* Once the edits stop, the ledgers become those of the sources and stay so.
EventuallyFresh == <>[](gen = ColdLedger)

=============================================================================
