------------------------------ MODULE SourceTree ------------------------------
(***************************************************************************)
(* The commands that change the folders under sources/ and what is in      *)
(* them (processing_pipeline.rs): manual entries, imported files, renamed  *)
(* and deleted account folders.  Each is a series of file system calls; a  *)
(* crash or an error return may stop it after any of them.  The rebuild    *)
(* that follows reads the tree (IncrementalBuild).                         *)
(*                                                                         *)
(* A folder is the sequence of its path's names; <<>> is sources/ itself.  *)
(***************************************************************************)
EXTENDS Naturals, Sequences, FiniteSets, SequencesExt

CONSTANTS
  Paths,       \* the folders, parents included, of limited depth
  Temp,        \* the path of __rename_tmp_<pid>
  FileNames,   \* names of statement files
  Keys,        \* what delete_manual_transaction matches: time, payee, narration
  NoFile,      \* no manual.transactions in the folder
  MaxItems,    \* bound: entries and files brought in
  MaxSteps,    \* bound: commands
  MaxStops     \* bound: commands that end half-way

ASSUME SourceTreeAssumption ==
  /\ <<>> \in Paths /\ Paths \subseteq Seq(STRING)
  /\ \A p \in Paths : \A n \in 0 .. Len(p) : SubSeq(p, 1, n) \in Paths
  /\ Temp \in Seq(STRING) /\ Len(Temp) = 1 /\ Temp \notin Paths
  /\ NoFile \notin Seq([id : Nat, key : Keys])
  /\ MaxItems \in Nat /\ MaxSteps \in Nat /\ MaxStops \in Nat

VARIABLES
  dirs,        \* folders that exist
  manual,      \* [Dirs -> Seq of entries, or NoFile]
  docs,        \* statement files: [dir, place, name, id]
  task,        \* the command at work (the UI's queue runs one at a time)
  items, steps, stops,
  \* what the properties need to know of the past:
  dropped,     \* ids deleted or replaced on purpose, or in the lost part of a cut-short file
  hides        \* <<entry id, transaction id>> of the entries that were hidden

treeVars == <<dirs, manual, docs, task, items, steps, stops, dropped, hides>>

-----------------------------------------------------------------------------
Resting == [at |-> "rest"]
Parent(p) == SubSeq(p, 1, Len(p) - 1)
Under(p, q) == IsPrefix(q, p)
Ancestors(p) == {SubSeq(p, 1, n) : n \in 0 .. Len(p)}
Entries(p) == IF manual[p] = NoFile THEN <<>> ELSE manual[p]

\* What a path is after fs::rename of a directory.
Rebased(p, old, new) == IF Under(p, old) THEN new \o SubSeq(p, Len(old) + 1, Len(p)) ELSE p

\* Where files may be: in a folder, and in one that lies under the temporary name.
Dirs == Paths \cup {Rebased(p, old, Temp) : p, old \in Paths}

\* create_dir_all
WithParents(p) == dirs \cup Ancestors(p)

\* fs::rename of a directory.
MoveDir(ds, old, new) ==
  /\ dirs' = {Rebased(p, old, new) : p \in ds}
  /\ manual' = [p \in Dirs |->
       IF Under(p, new)
         THEN LET q == Rebased(p, new, old) IN IF q \in Dirs THEN manual[q] ELSE NoFile
       ELSE IF Under(p, old) THEN NoFile ELSE manual[p]]
  /\ docs' = {[d EXCEPT !.dir = Rebased(@, old, new)] : d \in docs}

\* Upwards from p while nothing is left in the folder.
cleanup_empty_ancestors(p, ds) ==
  LET chain == {q \in Ancestors(p) \ {<<>>} :
                  \A r \in Ancestors(p) : Len(r) >= Len(q) =>
                    /\ ~\E x \in ds \ Ancestors(p) : Under(x, r)
                    /\ manual[r] = NoFile /\ ~\E d \in docs : d.dir = r}
  IN ds \ chain

SourceTreeInit ==
  /\ dirs = {<<>>}
  /\ manual = [p \in Dirs |-> NoFile]
  /\ docs = {} /\ task = Resting
  /\ items = 0 /\ steps = 0 /\ stops = 0
  /\ dropped = {} /\ hides = {}

NewItem == items < MaxItems /\ items' = items + 1
NewCommand == task = Resting /\ steps < MaxSteps /\ steps' = steps + 1

-----------------------------------------------------------------------------
(* manual.transactions.                                                    *)

\* The id of an entry without a txn: tag (manual_txn_id_from_content): its file,
\* its place and what it says.
TxnId(p, i) == <<p, i, Entries(p)[i].key>>

\* A whole file is rewritten: truncated here, written by RewriteManual.
Rewrite(p, text) ==
  /\ manual' = [manual EXCEPT ![p] = <<>>]
  /\ task' = [at |-> "rewrite", dir |-> p, text |-> text]

\* append_manual_and_rebuild; append_text reads the file and writes all of it.
AppendManual(p, k) ==
  /\ NewCommand /\ NewItem
  /\ dirs' = WithParents(p)
  /\ Rewrite(p, Append(Entries(p), [id |-> items, key |-> k]))
  /\ UNCHANGED <<docs, stops, dropped, hides>>

\* Mutant of remove_manual_transaction: every entry that matches.
RemoveAll(s, k) == SelectSeq(s, LAMBDA e : e.key # k)

\* The first entry that matches; none is not an error.
remove_manual_transaction(s, k) ==
  LET hits == {i \in DOMAIN s : s[i].key = k} IN
  IF hits = {} THEN s ELSE RemoveAt(s, CHOOSE i \in hits : \A j \in hits : i <= j)

\* delete_manual_transaction_and_rebuild: the folder's file, or the root's when
\* the folder has none.
DeleteManual(p, k) ==
  LET q == IF manual[p] = NoFile THEN <<>> ELSE p IN
  /\ NewCommand /\ manual[q] # NoFile
  /\ Rewrite(q, remove_manual_transaction(Entries(q), k))
  /\ dropped' = LET hits == {i \in DOMAIN Entries(q) : Entries(q)[i].key = k} IN
       IF hits = {} THEN dropped
       ELSE dropped \cup {Entries(q)[CHOOSE i \in hits : \A j \in hits : i <= j].id}
  /\ UNCHANGED <<dirs, docs, items, stops, hides>>

RewriteManual ==
  /\ task.at = "rewrite"
  /\ manual' = [manual EXCEPT ![task.dir] = task.text]
  /\ task' = Resting
  /\ UNCHANGED <<dirs, docs, items, steps, stops, dropped, hides>>

\* hide_transaction by the id the ledger shows.
Hide(p, i) ==
  /\ NewCommand /\ i \in DOMAIN Entries(p)
  /\ hides' = hides \cup {<<Entries(p)[i].id, TxnId(p, i)>>}
  /\ UNCHANGED <<dirs, manual, docs, task, items, stops, dropped>>

-----------------------------------------------------------------------------
(* Statement files.                                                        *)

At(p, place, n) == {d \in docs : d.dir = p /\ d.place = place /\ d.name = n}

\* import_csv_to_sources: a file of the same name is replaced.
ImportCsv(p, n) ==
  /\ NewCommand /\ NewItem
  /\ dirs' = WithParents(p)
  /\ docs' = (docs \ At(p, "folder", n)) \cup {[dir |-> p, place |-> "folder", name |-> n, id |-> items]}
  /\ dropped' = dropped \cup {d.id : d \in At(p, "folder", n)}
  /\ UNCHANGED <<manual, task, stops, hides>>

\* The user, or a plugin, leaves a file in imports/.
DropFile(p, n) ==
  /\ NewItem /\ p \in dirs /\ At(p, "imports", n) = {}
  /\ docs' = docs \cup {[dir |-> p, place |-> "imports", name |-> n, id |-> items]}
  /\ UNCHANGED <<dirs, manual, task, steps, stops, dropped, hides>>

\* process_imports of a folder, process_all_imports of the folders at the top.
ProcessImports(p) ==
  /\ NewCommand /\ p \in dirs \ {<<>>}
  /\ task' = [at |-> "imports", dirs |-> {p}]
  /\ UNCHANGED <<dirs, manual, docs, items, stops, dropped, hides>>

ProcessAllImports ==
  /\ NewCommand
  /\ task' = [at |-> "imports", dirs |-> {p \in dirs : Len(p) = 1}]
  /\ UNCHANGED <<dirs, manual, docs, items, stops, dropped, hides>>

MoveImport ==
  /\ task.at = "imports"
  /\ \E d \in docs :
       /\ d.dir \in task.dirs /\ d.place = "imports"
       /\ docs' = (docs \ ({d} \cup At(d.dir, "folder", d.name))) \cup {[d EXCEPT !.place = "folder"]}
       /\ dropped' = dropped \cup {x.id : x \in At(d.dir, "folder", d.name)}
  /\ UNCHANGED <<dirs, manual, task, items, steps, stops, hides>>

EndImports ==
  /\ task.at = "imports"
  /\ ~\E d \in docs : d.dir \in task.dirs /\ d.place = "imports"
  /\ task' = Resting
  /\ UNCHANGED <<dirs, manual, docs, items, steps, stops, dropped, hides>>

-----------------------------------------------------------------------------
(* Account folders.                                                        *)

Fits(old, new) == \A p \in dirs : Under(p, old) => Rebased(p, old, new) \in Paths

Cleanup(ds, old) == dirs' = cleanup_empty_ancestors(Parent(old), ds)

\* rename_account_folder_and_rebuild, elsewhere: parents made, one rename.
RenameFolder(old, new) ==
  /\ NewCommand /\ old \in dirs \ {<<>>} /\ new \notin dirs /\ ~Under(new, old) /\ Fits(old, new)
  /\ MoveDir(dirs \cup Ancestors(Parent(new)), old, new)
  /\ task' = [at |-> "cleanup", dir |-> old]
  /\ UNCHANGED <<items, stops, dropped, hides>>

\* Into itself: through a temporary folder ...
RenameInto(old, new) ==
  /\ NewCommand /\ old \in dirs \ {<<>>} /\ new \notin dirs /\ Under(new, old) /\ Fits(old, new)
  /\ ~\E p \in dirs : Under(p, Temp)
  /\ MoveDir(dirs, old, Temp)
  /\ task' = [at |-> "parents", old |-> old, new |-> new]
  /\ UNCHANGED <<items, stops, dropped, hides>>

\* ... the parents of the new place ...
MakeParents ==
  /\ task.at = "parents"
  /\ dirs' = WithParents(Parent(task.new))
  /\ task' = [task EXCEPT !.at = "place"]
  /\ UNCHANGED <<manual, docs, items, steps, stops, dropped, hides>>

\* ... and there.
PlaceFolder ==
  /\ task.at = "place"
  /\ MoveDir(dirs, Temp, task.new)
  /\ task' = [at |-> "cleanup", dir |-> task.old]
  /\ UNCHANGED <<items, steps, stops, dropped, hides>>

CleanupAfter ==
  /\ task.at = "cleanup"
  /\ Cleanup(dirs, task.dir)
  /\ task' = Resting
  /\ UNCHANGED <<manual, docs, items, steps, stops, dropped, hides>>

\* delete_account_folder_and_rebuild
DeleteFolder(p) ==
  LET ids == {d.id : d \in {x \in docs : Under(x.dir, p)}}
             \cup UNION {{Entries(q)[i].id : i \in DOMAIN Entries(q)} : q \in {r \in Dirs : Under(r, p)}}
  IN
  /\ NewCommand /\ p \in dirs \ {<<>>}
  /\ dirs' = {q \in dirs : ~Under(q, p)}
  /\ docs' = {d \in docs : ~Under(d.dir, p)}
  /\ manual' = [q \in Dirs |-> IF Under(q, p) THEN NoFile ELSE manual[q]]
  /\ dropped' = dropped \cup ids
  /\ task' = [at |-> "cleanup", dir |-> p]
  /\ UNCHANGED <<items, stops, hides>>

\* A crash, or an error return, between two calls or in a write: of a manual file
\* the first entries have been written, or none, and the others are lost.
Stop ==
  /\ task # Resting /\ stops < MaxStops
  /\ stops' = stops + 1
  /\ task' = Resting
  /\ IF task.at = "rewrite"
     THEN \E n \in 0 .. Len(task.text) :
            /\ manual' = [manual EXCEPT ![task.dir] = SubSeq(task.text, 1, n)]
            /\ dropped' = dropped \cup {task.text[i].id : i \in n + 1 .. Len(task.text)}
     ELSE UNCHANGED <<manual, dropped>>
  /\ UNCHANGED <<dirs, docs, items, steps, hides>>

SourceTreeNext ==
  \/ \E p \in Paths, k \in Keys : AppendManual(p, k) \/ DeleteManual(p, k)
  \/ \E p \in Paths, n \in FileNames : ImportCsv(p, n) \/ DropFile(p, n)
  \/ \E p \in Paths : ProcessImports(p) \/ DeleteFolder(p) \/ \E i \in 1 .. MaxItems : Hide(p, i)
  \/ \E p, q \in Paths : RenameFolder(p, q) \/ RenameInto(p, q)
  \/ RewriteManual \/ ProcessAllImports \/ MoveImport \/ EndImports
  \/ MakeParents \/ PlaceFolder \/ CleanupAfter \/ Stop

SourceTreeSpec == SourceTreeInit /\ [][SourceTreeNext]_treeVars

-----------------------------------------------------------------------------
(* Properties.                                                             *)

Ids == 0 .. MaxItems - 1

\* The type invariant; nothing lies in a folder that does not exist.
SourceTreeTypeOK ==
  /\ dirs \subseteq Dirs /\ <<>> \in dirs
  /\ \A p \in dirs : Ancestors(p) \subseteq dirs
  /\ \A p \in Dirs : manual[p] # NoFile => p \in dirs
  /\ \A p \in Dirs : \A i \in DOMAIN Entries(p) : Entries(p)[i] \in [id : Ids, key : Keys]
  /\ docs \subseteq [dir : dirs, place : {"folder", "imports"}, name : FileNames, id : Ids]

Copies(id) ==
  Cardinality({d \in docs : d.id = id})
  + Cardinality({x \in Dirs \X (1 .. MaxItems) :
                   x[2] \in DOMAIN Entries(x[1]) /\ Entries(x[1])[x[2]].id = id})

\* Entries of the manual file that is being rewritten.
InRewrite == IF task.at = "rewrite" THEN {e.id : e \in ToSet(task.text)} ELSE {}

\* Every entry and every file that was brought in, and not deleted or replaced, is
\* in the tree, once: no rename, import or deletion of something else loses or
\* copies it, and one that stops half-way does not either.  Not claimed of the entries
\* of the one manual file that is rewritten: every append and every deletion of an entry
\* truncates the file (append_text, remove_manual_transaction), and a stop there loses
\* what was not written again.
NothingLost ==
  \A id \in (0 .. items - 1) \ (dropped \cup InRewrite) : Copies(id) = 1

\* "Uses the file path, index, and transaction content for stability"
\* (manual_txn_id_from_content): what was hidden is still the transaction its id
\* names after other entries of the file were deleted.
HiddenIdsAreStable ==
  task = Resting => \A h \in hides : \A p \in Dirs : \A i \in DOMAIN Entries(p) :
    Entries(p)[i].id = h[1] => TxnId(p, i) = h[2]
====
