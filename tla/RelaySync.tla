------------------------------ MODULE RelaySync ------------------------------
(***************************************************************************)
(* Devices that share metadata and files, through a relay or directly      *)
(* (src/src-tauri/src/automerge_store.rs, content_store.rs, sync.rs,       *)
(* relay_client.rs, relay/storage.rs, relay/handlers.rs).                  *)
(*                                                                         *)
(* The metadata is an Automerge document.  What matters of it here is how  *)
(* two of them merge: all operations of both are kept, and where both      *)
(* devices created the map that holds the entries, one of the two maps is  *)
(* seen and the other one is not.                                          *)
(***************************************************************************)
EXTENDS Naturals, FiniteSets, FiniteSetsExt

CONSTANTS
  None,
  Torn,        \* a file that is cut short or empty
  Devices,     \* numbers: actor ids, the greatest of which wins a conflict
  Links,       \* trade links
  Files,       \* contents of files, named by their hashes
  Modes,       \* how the devices began and how they meet: records as in Init
  MaxChanges,  \* bound: changes by users
  MaxFaults    \* bound: crashes of devices and of the relay, requests or answers lost

ASSUME RelaySyncAssumption ==
  /\ Devices \subseteq Nat \ {0} /\ IsFiniteSet(Devices)
  /\ IsFiniteSet(Links) /\ IsFiniteSet(Files) /\ Links \cap Files = {}
  /\ \A m \in Modes : m.shared \in BOOLEAN /\ m.direct \in BOOLEAN /\ (m.direct => m.shared)
  /\ {None, Torn} \cap {"whole", "half"} = {} /\ None # Torn /\ None \notin Nat
  /\ MaxChanges \in Nat /\ MaxFaults \in Nat

VARIABLES
  mode,        \* one of Modes
  mem,         \* [Devices -> document]: MetadataStore.doc, or None when it is not loaded
  disk,        \* [Devices -> document]: arimalo-metadata.automerge
  cas,         \* [Devices -> [Files -> None, "whole", "half" or Torn]]: the content
               \* store; "half" is a blob the device itself was writing as it died
  sync,        \* [Devices -> progress of sync_with_relay]
  relay,       \* the relay's document, None or Torn
  blobs,       \* [Files -> None, "whole" or Torn]: the relay's blobs
  changes, crashes, faults,
  \* what the properties need to know of the past:
  added,       \* links saved by some user (with an entry of its own, where devices
               \* meet directly) and deleted by none since
  removed,     \* links deleted and not saved again
  cut,         \* devices that lost entries of their own: they died with the relay's
               \* document or an unreadable one on disk, or were sent a document without
               \* their entries, made anew after the relay's file was lost
  round,       \* rounds since the last change: in each every device began and completed a sync
  done         \* devices that completed one in the current round

documents == <<mem, disk>>
remote == <<relay, blobs>>
bounds == <<changes, crashes, faults>>
past == <<added, removed, cut, round, done>>
vars == <<mode, documents, cas, sync, remote, bounds, past>>

-----------------------------------------------------------------------------
(* Documents.  maps: who created the maps of the document; puts and gone:  *)
(* entries written, and those of them deleted.                             *)

Keys == Links \cup Files
Fresh(m) == [maps |-> {m}, puts |-> {}, gone |-> {}]

\* Of maps created independently the one of the greatest actor is seen.
Seen(doc) == Max(doc.maps)
Entries(doc, k) == {p \in doc.puts \ doc.gone : p.map = Seen(doc) /\ p.key = k}

\* hydrate: the keys a reader finds.
Hydrate(doc) == {k \in Keys : Entries(doc, k) # {}}

\* reconcile: device d makes the keys of the document be K.
Put(doc, d, k) ==
  [map |-> Seen(doc), key |-> k, by |-> d,
   n |-> Cardinality({p \in doc.puts : p.map = Seen(doc) /\ p.key = k /\ p.by = d})]

Reconcile(doc, d, K) ==
  [doc EXCEPT !.puts = @ \cup {Put(doc, d, k) : k \in K \ Hydrate(doc)},
              !.gone = @ \cup UNION {Entries(doc, k) : k \in Hydrate(doc) \ K}]

Merge(a, b) ==
  [maps |-> a.maps \cup b.maps, puts |-> a.puts \cup b.puts, gone |-> a.gone \cup b.gone]

-----------------------------------------------------------------------------
Idle == [at |-> "idle"]

\* init_metadata: a new document with what is under sources/.  It enters the
\* manifest, not the content store.  Devices that share a copy are made of it.
BuildFromSources(d, files) ==
  Reconcile(Fresh(IF mode.shared THEN 0 ELSE d), d, files)

\* Rounds the properties count up to.
Enough == 3

Init ==
  /\ mode \in Modes
  /\ \E had \in [Devices -> SUBSET Files] :
       mem = [d \in Devices |-> BuildFromSources(d, had[d])]
  /\ disk = mem
  /\ cas = [d \in Devices |-> [f \in Files |-> None]]
  /\ sync = [d \in Devices |-> Idle]
  /\ relay = None
  /\ blobs = [f \in Files |-> None]
  /\ changes = 0 /\ crashes = 0 /\ faults = 0
  /\ added = {} /\ removed = {} /\ cut = {}
  /\ round = 0 /\ done = {}

\* The store's lock is free and the store is loaded.
Free(d) == sync[d] = Idle /\ mem[d] # None

\* d saves document doc.
Save(d, doc) ==
  /\ mem' = [mem EXCEPT ![d] = doc]
  /\ disk' = [disk EXCEPT ![d] = doc]

\* A user's change.  Syncs that have begun belong to no round.
Change ==
  /\ changes < MaxChanges /\ changes' = changes + 1
  /\ round' = 0 /\ done' = {}
  /\ sync' = [d \in Devices |-> IF sync[d] = Idle THEN Idle ELSE [sync[d] EXCEPT !.round = None]]
  /\ UNCHANGED <<mode, remote, crashes, faults, cut>>

\* save_trade_link.  A link the document holds gets no new entry: among devices that
\* meet directly a deletion made elsewhere removes it still (see added).
SaveTradeLink(d, l) ==
  /\ Free(d) /\ Change
  /\ Save(d, Reconcile(mem[d], d, Hydrate(mem[d]) \cup {l}))
  /\ added' = IF mode.direct /\ l \in Hydrate(mem[d]) THEN added ELSE added \cup {l}
  /\ removed' = removed \ {l}
  /\ UNCHANGED cas

\* delete_trade_link.
DeleteTradeLink(d, l) ==
  /\ Free(d) /\ Change
  /\ l \in Hydrate(mem[d])
  /\ Save(d, Reconcile(mem[d], d, Hydrate(mem[d]) \ {l}))
  /\ added' = added \ {l} /\ removed' = removed \cup {l}
  /\ UNCHANGED cas

\* ingest_sources_to_cas and register_file.
RegisterFile(d, f) ==
  /\ Free(d) /\ Change
  /\ f \notin Hydrate(mem[d])
  /\ Save(d, Reconcile(mem[d], d, Hydrate(mem[d]) \cup {f}))
  /\ cas' = [cas EXCEPT ![d][f] = IF @ = None THEN "whole" ELSE @]
  /\ UNCHANGED <<added, removed>>

-----------------------------------------------------------------------------
(* The relay: one thread, one request at a time.                           *)

\* merge_and_save_metadata: files that either side knew stay in the manifest.
\* Trade links are not looked after.  An empty file is an empty document here;
\* one that is cut short ends the request in an error (see Lose).
MergeAndSave(doc) ==
  relay' =
    IF relay \in {None, Torn} THEN doc
    ELSE LET merged == Merge(relay, doc)
             known == Files \cap (Hydrate(relay) \cup Hydrate(doc))
         IN Reconcile(merged, 0, Hydrate(merged) \cup known)

-----------------------------------------------------------------------------
(* sync_with_relay.                                                        *)

To(d, step) == sync' = [sync EXCEPT ![d].at = step]

SyncBegin(d) ==
  /\ Free(d)
  /\ disk' = [disk EXCEPT ![d] = mem[d]]
  /\ sync' = [sync EXCEPT ![d] = [at |-> "upload", snapshot |-> Hydrate(mem[d]), round |-> round]]
  /\ UNCHANGED <<mode, mem, cas, remote, bounds, past>>

Upload(d) ==
  /\ sync[d].at = "upload"
  /\ MergeAndSave(disk[d])
  /\ To(d, "download")
  /\ UNCHANGED <<mode, documents, cas, blobs, bounds, past>>

Download(d) ==
  /\ sync[d].at = "download" /\ relay # Torn
  /\ Save(d, relay)
  /\ To(d, "recover")
  /\ cut' = IF mem[d].puts \subseteq relay.puts THEN cut ELSE cut \cup {d}
  /\ UNCHANGED <<mode, cas, remote, bounds, added, removed, round, done>>

\* Mutant of DownloadTorn: the document in memory is dropped before the new one is read.
DownloadTornDropped(d) ==
  /\ sync[d].at = "download" /\ relay = Torn
  /\ disk' = [disk EXCEPT ![d] = Torn]
  /\ mem' = [mem EXCEPT ![d] = None]
  /\ sync' = [sync EXCEPT ![d] = Idle]
  /\ UNCHANGED <<mode, cas, remote, bounds, past>>

\* What is received goes over the device's file before it is read.  A document
\* that is cut short ends the sync with the old one in memory; an empty one loads,
\* and leaves the device with nothing it could show or change.
DownloadTorn(d) ==
  /\ sync[d].at = "download" /\ relay = Torn
  /\ disk' = [disk EXCEPT ![d] = Torn]
  /\ \/ UNCHANGED <<mem, cut>>
     \/ mem' = [mem EXCEPT ![d] = None] /\ cut' = cut \cup {d}
  /\ sync' = [sync EXCEPT ![d] = Idle]
  /\ UNCHANGED <<mode, cas, remote, bounds, added, removed, round, done>>

\* Mutant of Recover: only the files of the snapshot are looked after.
RecoverFiles(d) ==
  LET lost == (sync[d].snapshot \cap Files) \ Hydrate(mem[d]) IN
  /\ sync[d].at = "recover"
  /\ Save(d, Reconcile(mem[d], d, Hydrate(mem[d]) \cup lost))
  /\ To(d, IF lost = {} THEN "list" ELSE "reupload")
  /\ UNCHANGED <<mode, cas, remote, bounds, past>>

\* recover_from_snapshot: what the device had and the merged document has not.
Recover(d) ==
  LET lost == sync[d].snapshot \ Hydrate(mem[d]) IN
  /\ sync[d].at = "recover"
  /\ Save(d, Reconcile(mem[d], d, Hydrate(mem[d]) \cup lost))
  /\ To(d, IF lost = {} THEN "list" ELSE "reupload")
  /\ UNCHANGED <<mode, cas, remote, bounds, past>>

Reupload(d) ==
  /\ sync[d].at = "reupload"
  /\ MergeAndSave(disk[d])
  /\ To(d, "list")
  /\ UNCHANGED <<mode, documents, cas, blobs, bounds, past>>

\* Mutant of List: what is missing is told by the manifest, not by the store.
ListByManifest(d) ==
  LET there == {f \in Files : blobs[f] # None}
      here == {f \in Files : cas[d][f] # None} IN
  /\ sync[d].at = "list"
  /\ sync' = [sync EXCEPT ![d] =
       [at |-> "blobs", round |-> @.round, down |-> there \ Hydrate(mem[d]),
        up |-> (here \cap Hydrate(mem[d])) \ there]]
  /\ UNCHANGED <<mode, documents, cas, remote, bounds, past>>

\* list_remote_blobs, and what each side lacks.
List(d) ==
  LET there == {f \in Files : blobs[f] # None}
      here == {f \in Files : cas[d][f] # None} IN
  /\ sync[d].at = "list"
  /\ sync' = [sync EXCEPT ![d] =
       [at |-> "blobs", round |-> @.round, down |-> there \ here,
        up |-> (here \cap Hydrate(mem[d])) \ there]]
  /\ UNCHANGED <<mode, documents, cas, remote, bounds, past>>

\* Mutant of DownloadBlob: what is received is stored under the hash asked for.
DownloadBlobAsAsked(d, f) ==
  /\ sync[d].at = "blobs" /\ f \in sync[d].down
  /\ cas' = [cas EXCEPT ![d][f] = blobs[f]]
  /\ sync' = [sync EXCEPT ![d].down = @ \ {f}]
  /\ UNCHANGED <<mode, documents, remote, bounds, past>>

\* download_blob and store: the store names a blob by the hash of what was
\* received, so one that was cut short does not become f.
DownloadBlob(d, f) ==
  /\ sync[d].at = "blobs" /\ f \in sync[d].down
  /\ cas' = [cas EXCEPT ![d][f] = IF blobs[f] = "whole" THEN "whole" ELSE @]
  /\ sync' = [sync EXCEPT ![d].down = @ \ {f}]
  /\ UNCHANGED <<mode, documents, remote, bounds, past>>

\* upload_blob and store_blob, which keeps what it has.
UploadBlob(d, f) ==
  /\ sync[d].at = "blobs" /\ sync[d].down = {} /\ f \in sync[d].up
  /\ blobs' = [blobs EXCEPT ![f] = IF @ # None THEN @ ELSE IF cas[d][f] = "whole" THEN "whole" ELSE Torn]
  /\ sync' = [sync EXCEPT ![d].up = @ \ {f}]
  /\ UNCHANGED <<mode, documents, cas, relay, bounds, past>>

SyncEnd(d) ==
  /\ sync[d].at = "blobs" /\ sync[d].down = {} /\ sync[d].up = {}
  /\ disk' = [disk EXCEPT ![d] = mem[d]]
  /\ IF sync[d].round # round THEN UNCHANGED <<round, done>>
     ELSE IF done \cup {d} = Devices THEN round' = Min({round + 1, Enough}) /\ done' = {}
     ELSE UNCHANGED round /\ done' = done \cup {d}
  /\ sync' = [sync EXCEPT ![d] = Idle]
  /\ UNCHANGED <<mode, mem, cas, remote, bounds, added, removed, cut>>

\* A request or its answer is lost, or the relay answers with an error: the
\* rest of the sync does not take place.  Of a request that is cut on its way the
\* relay keeps what it got: any part of a blob, and of a first document nothing.
Lose(d) ==
  /\ sync[d].at \in {"upload", "download", "reupload", "list", "blobs"}
  /\ \/ relay = Torn /\ sync[d].at \in {"upload", "reupload"} /\ UNCHANGED <<remote, faults>>
     \/ /\ crashes + faults < MaxFaults /\ faults' = faults + 1
        /\ \/ UNCHANGED remote
           \/ sync[d].at \in {"upload", "reupload"} /\ MergeAndSave(disk[d]) /\ UNCHANGED blobs
           \/ /\ sync[d].at \in {"upload", "reupload"} /\ relay = None
              /\ relay' = Torn /\ UNCHANGED blobs
           \/ /\ sync[d].at = "blobs" /\ sync[d].down = {} /\ UNCHANGED relay
              /\ \E f \in sync[d].up : blobs[f] = None /\ blobs' = [blobs EXCEPT ![f] = Torn]
  /\ sync' = [sync EXCEPT ![d] = Idle]
  /\ UNCHANGED <<mode, documents, cas, changes, crashes, past>>

-----------------------------------------------------------------------------
(* full_sync: with the metadata file and the content store of device e.    *)

FullSync(d, e) ==
  LET merged == Merge(mem[d], disk[e])
      missing == {f \in Files \cap Hydrate(merged) : cas[d][f] = None} IN
  /\ mode.direct /\ d # e /\ Free(d) /\ disk[e] # Torn
  /\ \A f \in missing : cas[e][f] # None
  /\ Save(d, merged)
  /\ cas' = [cas EXCEPT ![d] = [f \in Files |->
       IF f \in missing /\ cas[e][f] = "whole" THEN "whole" ELSE @[f]]]
  /\ UNCHANGED <<mode, sync, remote, bounds, past>>

\* A missing blob ends the transfer: the merge stays in memory and is not saved.
FullSyncFails(d, e) ==
  LET merged == Merge(mem[d], disk[e]) IN
  /\ mode.direct /\ d # e /\ Free(d) /\ disk[e] # Torn
  /\ \E f \in Files \cap Hydrate(merged) : cas[d][f] = None /\ cas[e][f] = None
  /\ mem' = [mem EXCEPT ![d] = merged]
  /\ UNCHANGED <<mode, disk, cas, sync, remote, bounds, past>>

-----------------------------------------------------------------------------
(* Crashes.                                                                *)

Dies == crashes + faults < MaxFaults /\ crashes' = crashes + 1

\* MetadataStore::new: a file that cannot be read leaves the device without.
Load(doc) == IF doc = Torn THEN None ELSE doc

\* Device d dies, perhaps while it writes its document or a blob it received, and
\* is started again.  The document it wrote may be a user's change, just made.
CrashDevice(d) ==
  /\ Dies /\ mem[d] # None
  /\ disk' \in {disk, [disk EXCEPT ![d] = Torn]}
  /\ \/ UNCHANGED cas
     \/ /\ sync[d].at = "blobs" /\ disk' = disk
        /\ \E f \in sync[d].down : blobs[f] = "whole" /\ cas' = [cas EXCEPT ![d][f] = "half"]
  /\ disk' # disk => sync[d].at # "list"
  /\ mem' = [mem EXCEPT ![d] = Load(disk'[d])]
  /\ sync' = [sync EXCEPT ![d] = Idle]
  /\ cut' = IF sync[d].at = "recover" \/ disk'[d] = Torn THEN cut \cup {d} ELSE cut
  /\ UNCHANGED <<mode, remote, changes, faults, added, removed, round, done>>

\* The relay dies while it writes the document or a blob that d sends.
CrashRelay(d) ==
  /\ Dies
  /\ \/ sync[d].at \in {"upload", "reupload"} /\ relay' = Torn /\ UNCHANGED blobs
     \/ /\ sync[d].at = "blobs" /\ sync[d].down = {} /\ UNCHANGED relay
        /\ \E f \in sync[d].up : blobs[f] = None /\ blobs' = [blobs EXCEPT ![f] = Torn]
  /\ sync' = [sync EXCEPT ![d] = Idle]
  /\ UNCHANGED <<mode, documents, cas, changes, faults, past>>

-----------------------------------------------------------------------------
SyncStep(d) ==
  \/ SyncBegin(d) \/ Upload(d) \/ Download(d) \/ DownloadTorn(d) \/ Recover(d) \/ Reupload(d) \/ List(d)
  \/ \E f \in Files : DownloadBlob(d, f) \/ UploadBlob(d, f)
  \/ SyncEnd(d)

UserStep(d) ==
  \/ \E l \in Links : SaveTradeLink(d, l) \/ DeleteTradeLink(d, l)
  \/ \E f \in Files : RegisterFile(d, f)
  \/ \E e \in Devices : FullSync(d, e) \/ FullSyncFails(d, e)

Fault(d) == Lose(d) \/ CrashDevice(d) \/ CrashRelay(d)

Next == \E d \in Devices : UserStep(d) \/ SyncStep(d) \/ Fault(d)

Spec == Init /\ [][Next]_vars

-----------------------------------------------------------------------------
(* Properties.                                                             *)

Docs == [maps : SUBSET (Devices \cup {0}),
         puts : SUBSET [map : Devices \cup {0}, key : Keys, by : Devices \cup {0}, n : Nat],
         gone : SUBSET [map : Devices \cup {0}, key : Keys, by : Devices \cup {0}, n : Nat]]
IsDoc(doc) == doc \in Docs /\ doc.maps # {} /\ doc.gone \subseteq doc.puts

\* What stands for a missing or an unreadable file is no document.
ASSUME DocsAssumption == None \notin Docs /\ Torn \notin Docs

SyncStates ==
  {Idle}
    \cup [at : {"upload", "download", "recover", "reupload", "list"},
          snapshot : SUBSET Keys, round : 0 .. Enough \cup {None}]
    \cup [at : {"blobs"}, down : SUBSET Files, up : SUBSET Files, round : 0 .. Enough \cup {None}]

\* The type invariant: every deletion is of an entry the document has, whichever
\* way documents were merged.
TypeOK ==
  /\ mode \in Modes
  /\ mem \in [Devices -> Docs \cup {None}] /\ \A d \in Devices : mem[d] = None \/ IsDoc(mem[d])
  /\ disk \in [Devices -> Docs \cup {Torn}] /\ \A d \in Devices : disk[d] = Torn \/ IsDoc(disk[d])
  /\ relay \in {None, Torn} \/ IsDoc(relay)
  /\ sync \in [Devices -> SyncStates]
  /\ cas \in [Devices -> [Files -> {None, "whole", "half", Torn}]]
  /\ blobs \in [Files -> {None, "whole", Torn}]
  /\ added \subseteq Links /\ removed \subseteq Links
  /\ cut \subseteq Devices /\ done \subseteq Devices /\ round \in 0 .. Enough

\* A trade link that was saved and not deleted is on some device, or on the
\* relay, where a reader finds it or the device that saved it will restore it.
LinksSurvive ==
  cut = {} => \A l \in added :
    \E d \in Devices :
      \/ mem[d] # None /\ l \in Hydrate(mem[d])
      \/ sync[d].at = "recover" /\ l \in sync[d].snapshot

\* A blob a device was sent and has under a hash is the content of that hash,
\* although a transfer may be cut short, the relay checks nothing, and another device
\* may send half a blob.  Only a blob it was writing itself as it died is not whole.
BlobsAreWhole == \A d \in Devices, f \in Files : cas[d][f] # Torn

\* Once every device has completed a sync three times in turn since the last change,
\* without crashes, all of them and the relay show the same entries, and each has
\* every file the relay has whole and no file the relay has not.
Settled == round = Enough
Converged ==
  Settled /\ crashes = 0 =>
    \A d \in Devices :
      /\ Hydrate(mem[d]) = Hydrate(relay)
      /\ \A f \in Files : blobs[f] # Torn => cas[d][f] = blobs[f]

\* The claim of README.md:192, "the next sync performs a full reconciliation": once
\* everybody has synced three times, a file that one device has, every device has.
EveryFileArrives ==
  Settled /\ crashes = 0 =>
    \A d, e \in Devices, f \in Files : cas[d][f] = "whole" => cas[e][f] = "whole"

\* The claim of README.md:192, "all offline changes from every device are merged
\* automatically": once everybody has synced three times, a link that was deleted and
\* not saved again is gone.
DeletionsMerge ==
  Settled /\ crashes = 0 =>
    \A l \in removed, d \in Devices : l \notin Hydrate(mem[d])
====
