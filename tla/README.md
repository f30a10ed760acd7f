# Arimalo in TLA+

Arimalo is a desktop application (Rust with Tauri, TypeScript user interface)
for plain-text double-entry ledgers. A user keeps bank exports, rules, transform
scripts and hand-written entries under `sources/`; a pipeline compiles them into
one ledger per folder under `generated/`; the user interface queries those
ledgers and sends every change back through `sources/`; devices share metadata
and files through a relay.

This directory is the verification project of that program. Section 1 is the
inventory of the system, section 2 how the modules are organised and what is
left to do, sections 3 to 12 say for each module how it corresponds to the code
and what its properties mean, section 13 lists the runs with their bounds,
section 14 where program and documentation diverge, section 15 what is proved,
section 16 what is not modelled.

    tlc -workers 2 -config BuildEdits.cfg MCIncrementalBuild
    tlapm IncrementalBuildProofs.tla     # one of the eight modules of section 15

`PROJECT.json` maps every definition to the lines it stands for, and lists the
hazards of the code (what is hard to test in it) with the properties that cover
each.

## 1. The system

Paths are under `src/src-tauri/src/` for Rust and `src/src/` for TypeScript.

| Component | Source | State it keeps | Operations | Correct when | Module |
|---|---|---|---|---|---|
| Pipeline | `processing_pipeline.rs` | `generated/`, metadata, `PIPELINE_LOCK` | `run_pipeline` full, forced or with a hint of changed folders | an incremental run writes what a cold run would; no row lost, doubled or shown when hidden | IncrementalBuild |
| Commands on `sources/` | `processing_pipeline.rs`, `main.rs` | folders, `manual.transactions`, statement files | append, hide, delete, import, rename, delete a folder | what was brought in is there, once, also when a command stops half-way | SourceTree |
| Build cache | `build_cache.rs` | `.cache/manifest.json` and one file per folder | `load_cache`, filtered load, `save_cache`, `dir_fingerprint` | what a run trusts was true of the sources when it was recorded, also after a crash | IncrementalBuild |
| Transform chain | `csv_transform.rs` | none (scripts on disk) | `resolve_transform`, `map_to_transaction`, `apply_labels_and_rules` | the hash covers what the result depends on; legs balance | IncrementalBuild, LedgerView |
| Swap linking | `processing_pipeline.rs` | links in ledgers | `auto_link_equity_swaps` | two different commodities are linked, both legs at one value, once | SwapPairs |
| Link repair | `trade_link_repair.rs` | `_rules.json` | plan, repair | a linked trade is categorised | RuleFiles |
| Rules engine | `rules.rs`, `bin/arimalo_classify.rs`, `bin/arimalo_migrate_rules.rs` | `_rules.json`, `_labels.json` | match; save, update, delete, hide, import, migrate | the most specific rule wins; no command loses another's rule | RuleFiles |
| Dedupe | `dedupe/`, `bin/arimalo_dedupe.rs` | files in `sources/` | plan, apply | every record stays in one file | Dedupe |
| Ledger parser | `ledger_parser.rs` | none | parse, prices | a ledger survives its text; the nearest earlier price is used | LedgerText, Prices |
| Generated store | `generated_store.rs` | none | merge ledgers, append, scoped query | files do not leak into each other; totals do not depend on what is shown | LedgerText, LedgerView |
| Query engine | `query.rs` | none | search, filter, page | Show Ignored shows what is hidden, nothing else | LedgerView, SearchWindow |
| Prices | `processing_pipeline.rs`, `plugins/stock-prices/` | `_prices/<commodity>.txt` | set, import, refresh | no change loses a price it was not asked to replace | Prices, PriceTable |
| Reports | `reports.rs`, `report_*.rs` | report files | gains, income, holdings, performance, harvest | reports agree with each other | Reports |
| Desktop shell | `main.rs` | `LedgerCache`, suppression flags, report generation | commands, watcher, report threads | an edit is followed by a rebuild that saw it; caches and reports are those of the last build | Rebuild |
| Plugins | `plugins.rs` | files in `sources/` | run a script | their files are seen by a rebuild | Rebuild, Prices |
| Local store | `automerge_store.rs`, `content_store.rs` | CRDT document, blobs by hash | save, merge, recover, put, get | merging loses nothing | RelaySync |
| Sync, relay | `sync.rs`, `relay_client.rs`, `relay/` | the relay's document and blobs | sync, full sync, merge | devices agree; blobs are whole | RelaySync |
| Pairing | `relay/pairing.rs` | codes in memory, with expiry | initiate, join | a code is used once | Pairing |
| Mutation queue | `mutation-queue.ts` | queue, `running`, `pendingMutations` | `enqueue`, `drain` | one mutation in flight, click order, every click is answered | MutationQueue |
| Transaction table | `main.ts`, `apply-pipeline.ts`, `optimistic.ts` | loaded rows, window, optimistic edits | search, scroll, add, hide, refresh | the table settles on the current query | SearchWindow |
| OFX parser, issues, suggestions, web server, rendering, startup | `ofx_parser.rs`, `issues.rs`, `transform_suggest.rs`, `web/`, `render.ts`, `startup.ts`, ... | none of their own | | | - |

How they interact. A click enters the mutation queue and becomes one command
of the shell. The command edits `sources/` and calls `run_pipeline` under
`PIPELINE_LOCK`, often with a hint of the folders it changed. The file watcher
sees edits that no command made and calls `run_pipeline` without a hint. A run
reads `sources/` file by file with no lock on them, so editors, plugins and git
interleave with it; it writes the ledgers, then the manifest, then the folder
caches, then the metadata, each with a plain write. The next run trusts
those files. The shell caches parsed ledgers, starts report threads after a
rebuild, and the user interface replaces its list with whatever a query
answers. Trade links live in the CRDT document and, as rules, in `_rules.json`;
the relay sees the document only.

## 2. Organisation

Where components share state in the code they share it in the model; where one
only needs what another promises, the promise is taken over and the other module
named:

- `Rebuild` takes one run of the pipeline as "reads each account set at some
  moment and leaves that version", which is what `IncrementalBuild` checks
  (`WarmEqualsCold`, `ScopedEqualsFull`).
- `SearchWindow` takes a rebuild as a change of the rows; `LedgerView` takes the
  ledgers as up to date.
- `IncrementalBuild` takes the partner of a swap leg as given; `SwapPairs` says
  which it is.
- `Prices` implements `PriceTable`, an abstract table of prices.

Five components of the vault (`Pairing`, `RuleFiles`, `SourceTree`,
`SearchWindow`, `Dedupe`) and five that compute (`LedgerText`, `LedgerView`,
`Prices`, `SwapPairs`, `Reports`) share no variable. `MCVaultCommands` and
`MCLedgerData` are their sums: the initial states choose which component runs
(`part`), the others rest, so the state space is the sum of theirs, not the
product, and one run checks five small instances. Each of these modules also
has a specification of its own.

Modules that hold theorems, and those they use, contain no recursive operator.
Where the code sorts or filters, `RuleFiles`, `SearchWindow`, `Dedupe` and `Prices` take
`Ordering`, which gives an element its place by how many come before it; `Reports` and
`LedgerView` take `Sums`, which adds up over a finite set or over places of a sequence.
`LedgerText` reads a text with a function from how many lines were read to what was read
(`After`).

To do, in this order:

1. `BuildProtocol`: an abstract specification of what the build promises, and
   `IncrementalBuild` checked to implement it.
2. Proofs about the queries of `LedgerView` and `SwapPairs`, restated over indices.
3. The root folder as a variable of `Rebuild`, the owner and account maps.

## 3. MutationQueue

`mutation-queue.ts` holds an array, a flag `running` and a counter. The model
has the same, the calls in flight (`inflight`, which could hold two: only the
flag keeps it from that) and three histories: the order of the clicks, the order
in which they settled, and which of them failed. The JavaScript runtime runs one
callback to its end, so one action is one turn of the event loop: `Enqueue` is a
click up to its first `await`, including the drain it starts when none is
running; `Resolve` and `Reject` are the answer to the mutation in flight with
the `finally` block and the next turn of the loop.

| Property | Says |
|---|---|
| `SingleFlight` | one mutation is in flight at a time, and none waits while the queue is free |
| `PendingCounts` | `pendingMutations` is the number waiting or running, also after errors |
| `ClickOrder` | they start and settle in the order of the clicks |
| `EveryClickSettles` | every click is answered, once |

Fairness: a mutation that was started is answered (`WF` on the answer), which is
what `await` on a Tauri command gives; nothing is assumed of the user.

## 4. IncrementalBuild

### Data

A transaction is `[id, cls, link]`. `cls` is what the compiler made of it: the
version of the script, those of the rules above the folder and whether it was
recognised as a self-transfer. `link` is empty or holds the price table the swap
was priced from. A ledger is a bag, because counting a row twice is one of the
ways this can go wrong. A hash is the content it is taken of (no collisions), a
fingerprint the modification stamps of the files it covers (every edit moves the
stamp; see `racy` in section 14).

Abstractions, and why they keep the properties:

- `_rules.json` and `_labels.json` are read and fingerprinted together and are
  one version, `rules`.
- OFX files go through `process_ofx_files`, which has the shape of
  `process_csv_files`; only the CSV is modelled. A folder has at most one.
- The text of a ledger is its bag: parsing what was printed is taken to give it
  back. `summary.json` is written and pruned with its ledger and is not apart.
- The partner of a swap leg is a constant relation, `SwapOf`. Which pairs are
  found is the subject of `SwapPairs`; when they are is the question here. Only
  legs on plain `equity:trading` are modelled.
- Price table 0 has no quote, so legs linked under it are priced later
  (`TakesPrice`).
- Of the metadata only whether it can be read is kept; layer 1 tests no more.
- The monolithic cache of older versions is not modelled.
- Folders are leaves below one level of directories, with scripts and rules at
  both levels.

### Actions

| Action | Code |
|---|---|
| `Begin` | take the lock, list the source folders, load the cache (all, or the sets of the hint) |
| `Fingerprint` | the global fingerprint, unless hinted |
| `EarlyExit` | layer 1: fingerprint, outputs and metadata as recorded |
| `Scan` | list the CSVs |
| `Plan` | layer 2: folder fingerprints, unchanged folders, what is loaded from ledgers and what is recovered from cached entries |
| `Hash` | first read of a CSV: hash, chain, lookup of the entry; error when the folder has no transform |
| `Transform` | second read of the CSV; the result is filed under the hash of the first |
| `Merge` | manual entries, ignored rows, `auto_link` when a changed folder trades, the folders to write |
| `WriteLedger`, `PruneOutputs` | `write_if_changed` per folder, removal of recorded outputs that are gone |
| `SaveManifest`, `SaveFolderCache`, `PruneFolderCaches`, `SaveMeta` | the files of `save_cache`, then the metadata |
| `Crash` | the process dies; the file being written may be left truncated |
| `Edit...`, `Drop...`, `Ignore`, `Unignore`, `Clobber` | everybody else |

The steps are cut where another process can act or a crash can fall between two
file operations. `PIPELINE_LOCK` keeps a second run out, so `run` is the memory
of the only one. An error return ends a run with what it wrote so far (`Fail`).
`Plan` reads fingerprints, the ignore list and the ledgers in one step, because
nothing it reads was listed or hashed before by the same step; pruning removes
its files in one step. `Env` says which edits a run of the model allows,
`concurrent` among them: edits while a run is under way.

The reference is `ColdLedger`: what a forced run with no cache would write for
the sources as they are, defined from the sources alone.

| Property | Says |
|---|---|
| `EarlyExitSound` | whenever layer 1 would exit, the ledgers are those of a cold run |
| `LayerTwoSound` | whenever layer 2 would load a folder from its ledger, the ledger less the rows ignored since is that of a cold run |
| `EntrySound` | a cached entry holds what its file and chain compile to |
| `NoRowTwice` | no ledger counts a row twice, whatever else is stale |
| `IgnoredStayHidden` | after a run no ledger shows a row that is ignored |
| `WarmEqualsCold` | a full or forced run under which nothing was edited leaves what a cold run would, from any reachable cache |
| `ScopedEqualsFull` | a hinted run that brought every fingerprint up to date leaves what a full run would |
| `EventuallyFresh` | when the edits stop, the ledgers become those of the sources and stay so |

Fairness (`FairSpec`, run `build_crash`): weak fairness of `RunStep`, a started
run goes on, and of `BeginFull`, rebuilds keep being asked for. The second is
what startup, the watcher and the commands do together; that the watcher alone
never drops an edit is not claimed (`Rebuild` refutes it). Nothing is assumed
of edits or crashes; both are bounded.

## 5. Rebuild

Who calls `run_pipeline` and what hangs on it: commands, watcher, ledger cache,
report threads (`main.rs`). One account set stands for its folders and ledgers;
versions are numbers. Every command of the shell that rebuilds is a record of
six facts read off its handler: whether it holds a `SuppressGuard`, whether it
stamps `LastCommandRebuild`, whether it writes sources, whether it makes a run and
a scoped one, and what it does to the ledger cache. They have the handlers'
names; `set_price` and a daily plugin batch with nothing due hold a guard and
make no run.

| Action | Code |
|---|---|
| `Edit` | the user changes a source, or a command does that leaves the rebuild to the watcher |
| `Invoke`, `WriteSources`, `BeginCommand`, `FinishCommand`, `FailCommand`, `ReturnEarly`, `Respond` | a handler, cut where it waits for `PIPELINE_LOCK` or another thread can see what it did; `ReturnEarly` is the response of one that makes no run, or an error before the run |
| `Deliver`, `Skip`, `Wake` | events reach the watcher's channel; it drops or takes them |
| `BeginWatcher`, `FinishWatcher`, `Publish`, `FailWatcher` | its rebuild, the drain of its own events, the cache, the reports |
| `ReadLedgers`, `WriteReports` | a report thread |
| `Load`, `Expire` | a cache miss, the 800 ms after a mark |

A run leaves, for each set of its scope, any version between the one it began
with and the one at its end: it reads the files somewhere in between. A full run
that meets the fingerprint of the last full one exits early. The clock is
abstracted to `Expire`; the watcher's half second is no step, since all it does
is collect events.

| Property | Says |
|---|---|
| `CalmEditsAreBuilt` | an edit made while no command and no rebuild was at work is built once everything rests, unless a command that made no run or a failing run came between |
| `CacheIsCurrent` | a cached ledger is the one on disk, unless a run got in between another's end and its filling of the cache, or the command leaves the cache alone (`raced`) |
| `ReportsAreCurrent` | at rest the reports are those of the ledgers, unless two report threads overlapped (`crowded`) |
| `LastReportsAnnounced` | the user interface is told of the last rebuild's reports, although threads end in any order |
| `EveryEditIsBuilt` | violated, see section 14 |

`disturbed`, `raced` and `crowded` are the exclusions: each names the
interleaving in which the code does lose something, listed in section 14, so the
properties say that there is no other. A set is `disturbed` from an edit made
while a command or a rebuild was at work, or from a failing run or a command
without a run that finds it unbuilt, until a run builds it.

`EventuallyQuiet` (no command waits for ever, and no event keeps the watcher
rebuilding its own changes) holds with one account set (126,000 states) and with
two (1.1 million); it is in no run because of the time it takes. Fairness: weak
for `Expire`, for the watcher, each command and the report threads, which the
operating system runs; strong for `BeginWatcher` and `BeginCommand`, because the lock may be taken by another again
and again while they wait, and is passed on in the end.

## 6. RelaySync

Metadata documents, content stores, the relay. The document is an Automerge
document: what matters is that a merge keeps all operations of both sides, a
deletion removes the entries it has seen, and of two maps created independently
under one key one is seen, that of the greater actor. A document is therefore
`[maps, puts, gone]`; `Hydrate` is what a reader finds, `Reconcile` what a save
writes. Files are named by their hashes; a blob is whole, cut short, or (`half`)
what a device that died while it was writing left behind.

`SyncBegin`, `Upload`, `Download`, `Recover`, `Reupload`, `List`, `DownloadBlob`,
`UploadBlob`, `SyncEnd` are the requests of `sync_with_relay` in their order.
`DownloadTorn` is the download of a document that is cut short or empty: it goes over
the device's file before it is read. `Lose` is a lost request or answer, or a request cut
on its way, of which the relay keeps what it got, with no look at the length: any part of
a blob, or an empty first document. `CrashDevice` and `CrashRelay` are a death between
or during writes. `FullSync` merges with another device's files directly.
`Modes` says whether the devices start from copies of one document or from
documents of their own, and whether they meet directly; in the instance they do so
only with copies (for the reason see section 14).

| Property | Says |
|---|---|
| `LinksSurvive` | a saved trade link that nobody deleted since (`added`) is found on some device, or on its way back from a snapshot; not claimed of a device that lost entries of its own (`cut`): it died with the relay's document, or one that cannot be read, on disk and its entries in memory, or was sent a document without them |
| `BlobsAreWhole` | what a device received under a hash has that content, although neither side of a transfer checks and the relay may hold half a blob |
| `Converged` | when every device has completed three syncs in turn since the last change, without a crash, all of them and the relay show the same entries, and each has every file the relay has whole and no file the relay has not |
| `EveryFileArrives` | false, see section 14 |

Three rounds and not two: what a device recovers from its snapshot in the second
round reaches the first device in the third.

## 7. Pairing

Codes of the relay, with the dialog of the user interface. `Initiate`, `Join`,
`Refuse`, `cleanup_expired` are the store's operations; each answer may be lost,
codes may collide (a live one is replaced), time passes in ticks, the relay
restarts and forgets. `JoinedOnce`: a group lets in one device. Proved for all
constants, section 15.

## 8. RuleFiles

The commands and tools that edit `_rules.json`. Each loads a file, edits its
copy, and saves: truncation and write are steps, since another command loads in
between. Moving a rule is two such edits. A rule keeps what the order of rules
and their effect on the two legs of one swap depend on: what it matches on, which
leg, what it does.

`save_rule`, `AddIfNew` (hide, classify), `update_rule`, `delete_rule`,
`save_trade_link`, `remove_trade_link_rules`, `repair_links`, `import_rules_csv`,
`migrate_rules` are the edits, `saved` what a save makes of them (no-ops dropped,
sorted by specificity), `find_match_prioritized` the matching. Patterns are
not interpreted: the rows are such that every rule of the row matches.

| Property | Says |
|---|---|
| `RulesSurvive` | a rule saved and not deleted is in its folder, unless commands met there or one died there (`crowded`) |
| `HiddenStaysHidden` | no general or classified rule, nor one of an ancestor folder, brings a hidden transaction back |
| `LinkWins` | linking two legs the ledgers tell apart categorises both, whatever rules there were |

## 9. SourceTree

Folders, manual entries and statement files, and the commands on them as series
of file system calls: `MoveDir` is one `rename`, `RenameInto`, `MakeParents`,
`PlaceFolder` the detour through `__rename_tmp_<pid>` when a folder moves into
itself, `CleanupAfter` the removal of parents left empty, `MoveImport` one file of
`process_imports`. `AppendManual` and `DeleteManual` read the whole manual file and
truncate it, `RewriteManual` is the write of all of it (`append_text` does not append). `Stop` ends a command between two of them. `Dirs` are
the folders of the vault and what they are called while one above them has the
temporary name.

`NothingLost`: what was brought in and not deleted or replaced is in the tree,
once, wherever a command stops. Not claimed of the manual file an append or a deletion
was rewriting: of its entries, old ones too, a crash leaves some first ones or none.

## 10. SearchWindow and Dedupe

`SearchWindow` is the transaction table: `ChangeSearch` and `Scroll` send
queries, `Read` is the backend's answer, `Apply` what the window does with it, in
any order. `addManualTransaction` and `hide` show their change at once; `Commit`,
`Fail`, `Refresh` are their command (one at a time, `MutationQueue`);
`WatcherRebuild` and `onPipelineEvent` the rest of the world.

`SettledTableIsCurrent`: with nothing under way the table is the newest rows of
the current search, as far as it was scrolled. It leaves out histories in which
queries overlapped or a later page was fetched again since the window was reset
(`muddled`); the code guards against neither.

`Dedupe` is the tool that keeps records several exports share in one of them:
`Scan`, a `Plan` per folder, per file an `archive_file` or a strip, which truncates it
(`BeginStrip`) and writes what is left (`EndStrip`), and a stop or an edit of a file at
any moment. `RecordsSurvive`: wherever it stops no record has left the sources, and at
its end each is in one file of its folder. Not claimed of the one file a strip was
rewriting, whose other rows a crash may lose (`cutShort`), nor when a file changed
during the run (`meddled`).

## 11. LedgerText, LedgerView, Prices

`LedgerText` reads ledgers line by line as `parse_transactions` does and joins
files as `append_file_to_text` does; a line is its kind and what is missing of
it. `MergedIsTheFiles`: reading the files as one text gives the transactions,
accounts and diagnostics of the files one by one. `AppendAddsOne`: a transaction
added to a file is read as written, and its other transactions and accounts as before.
Two places look for headers, the parser and what puts blank lines in order, and differ
on a date alone, or with something else than a space behind it (kind `dated`): a file
with such a line right below a posting (`Splits`) is left out, section 14. Likewise an indented
directive (`note`) is a posting for the latter only, which does no harm. What is read is left in the
order of the files: the sort by date that `load_active_ledger` ends with is not modelled,
nor are the balances, which are sums over what is read.

`LedgerView` follows a row to the answer of a query: `map_to_transaction`,
`apply_labels_and_rules` and `ParsedFee` make the transaction, `parse_search` and
`matches_search` select, `scoped_query` loads the folders under an account.
Names are values and prefixes are given as sets (`Below`, `Containing`). What a rule
takes off the wallet goes to `IgnoreAccounts`, which the code names; what a query leaves
out has a leg in `HiddenAccounts`, which the user configures. In the instance one
account is both, one each only one of them.

| Property | Says |
|---|---|
| `LegsBalance` | a row whose own legs balance, or that has none, makes a transaction that balances but for a fee in another commodity, whatever labels, rules, hiding and self-transfers do to it |
| `IgnoringKeepsTotals` | while all that is hidden was routed to ignore accounts, the totals of an account do not depend on Show Ignored |
| `ShowIgnoredReveals` | with Show Ignored on, a search whose only account is the one its folders are loaded for finds what it would find had nothing been hidden; so does one without an account, in the whole ledger |
| `ToggleKeepsTotals` | the first without its condition: false, see section 14 |
| `RelaxedStaysInAccount` | with Show Ignored on, any search lists only what it would list had nothing been hidden: false, see section 14 |

`Prices` is the files of prices, written by commands and a plugin as read, then
write, and the conversion that reads them. `PriceTable` is what they promise: a
table changed one commodity at a time, in which a change keeps what it was not
asked to replace: a merge has for each moment what it was given or else what was
there, and a plugin, which keeps one price a day, takes that day's amount from what it
fetched or else from what was there. `ImplementsPriceTable` is the refinement
(`Table == INSTANCE PriceTable WITH ...`): the table holds for each moment the last
price its file has for it (`Held`); a write maps to `Make`, a read to a
stutter, a command to `Ask`; when two writers overlap on a file the abstract
table promises nothing more (`Clash`), which is the lost update of section 14.
A stable sort is `SortedByText`, and of prices of one time `lookup` takes the last in
that order.

## 12. SwapPairs and Reports

`SwapPairs` is `auto_link_equity_swaps` on a sequence of legs: `PlainLinked`
(pairs by rank within time, account and narration), `AggregatePriced` (legs a
rule routed, summed by commodity and id, paired by rank), `Stamped`,
`LatePriced`. Sorting is by id and then by a hash, so a new leg may be placed
anywhere among those of its id (`AddLeg`).

| Property | Says |
|---|---|
| `LegsAgreeOnValue` | a swap of two commodities books the same value on both sides, also when legs of one id are added up |
| `LinkingSettles` | linking again changes nothing |
| `SwapsAreOfTwoCommodities` | violated, see section 14 |

`Reports` makes transactions one by one and keeps what the walks of `reports.rs`
have so far: the lots of the capital gains and of the holdings walk, events,
income, the snapshot a performance window opens with. A report is a function of
that. Amounts are whole numbers, a month is a tick. `CountedAssumption`: coins are
acquired, and paid for, in accounts that are in scope and on the allowlist; others
hold what is on its way (`Transfer` uses any). Without it
`CostCountsHeldUnits` and `ReturnIsGrowth` are false: what was bought where it does
not count and is transferred in is held without a lot.

What a unit of a leg is worth (`Each`) is what its annotation says, else what its
counterparty does, else the price of the day. For a purchase the counterparty is the money of
another account, in one transaction or in the sibling of an `equity:trading` pair; for a
swap in one transaction it is the other leg's annotation (a sale takes a cost only,
`SwapInOne`) or its price; for a swap in two it is whatever the sibling that is found
says (`Told`). How `find_equity_swap_sibling` ranks several fills of one moment is not
computed: any value may come of it, none included. An annotation is a value in base
currency (`Stated`).

| Property | Says |
|---|---|
| `CostCountsHeldUnits` | a holding's lots are as many as its units, also after short sales and transfers through accounts that do not count |
| `ReturnIsGrowth` | `total_return` is what the portfolio of the balances report grew by, less what was put in, plus what the transactions of the window fail to add up to (`mispriced`) |
| `PartsAddUp` | attribution by coin and changes by month add up to the totals |
| `HarvestIsWhatItSaves` | the estimated saving of a harvest is the difference of two tax computations |

`mispriced` adds up, for each transaction, what is given and earned less what is got and paid,
as the walks value it (`Gap`). It is nothing for a purchase valued at what is paid, for
income valued alike on both sides, and for gifts without an annotation; it is something
for a trade at another price than its annotation says, a trade within one account, a leg
valued by another fill, and a swap of two coins whose prices differ. The property says that nothing else comes between
the two reports: lots, windows, snapshots and events neither lose value nor count it twice.

## 13. Runs

| Run | Instance | Distinct states | Asks |
|---|---|---|---|
| `mutation_queue` | 4 clicks | 1,201 | one in flight, click order, every click answered |
| `build_edits` | two folders in two account sets, a swap in one of them; rows, files, scripts and rules at both levels change during runs; hinted runs; 3 edits | 1,386,578 | layers 1 and 2, cached entries, partial saves |
| `build_clobber` | manual entries, ledgers clobbered, rows ignored, prices; 3 edits | 61,800 | recovery from cached entries |
| `build_hidden` | a swap across folders, ignore and unignore, clobbered ledgers, hinted runs; 3 edits | 371,672 | nothing twice, hidden rows stay hidden |
| `build_crash` | concurrent edits of rows and rules; 2 edits, 2 crashes | 189,929 | every prefix of a run's writes; progress |
| `rebuild` | 2 account sets, 2 commands at a time of all handlers that differ, 2 moves, 1 failing run | 638,030 | watcher, cache, report threads |
| `relay_sync` | 2 devices, 1 link, 1 file, 2 changes, 1 fault | 3,570,601 | links, blobs, convergence |
| `vault_commands` | `Pairing` 3 devices, 2 groups, 2 codes; `RuleFiles` 2 folders, 2 writers, 3 commands, 1 crash; `SourceTree` 5 folders, 3 items, 4 commands, 1 stop; `SearchWindow` 4 rows, pages of one, 3 queries, 2 changes; `Dedupe` 4 files in 2 folders | 858,901 | sections 7 to 10 |
| `ledger_data` | `LedgerText` 2 files, 3 lines; `LedgerView` 2 folders, 2 rows, 1 rule; `Prices` 2 commodities, 2 days, 3 writers, 2 changes; `SwapPairs` 4 legs; `Reports` 2 coins, 2 months, 3 transactions | 210,715 | sections 11 and 12 |
| `set_price`, `lost_edit`, `swap_commodities` | as above | | violations, section 14 |

Why these bounds. *Build*: a layer fails for one folder or for another, so two
folders show one that changes and one that does not, a swap across folders and
two account sets. Three edits are one before a run, one during and one after, or
a change, its undoing and a third; two crashes let the recovery crash. Versions
stop at 1: what matters is same or different. The edits are split over
configurations because their product, not any of them, is out of reach.
*Rebuild*: two moves are an edit and a command, or two commands, in any order and
overlap, and a report thread of each. *RelaySync*: two devices are all a group ever has;
two changes are one on each, or a link saved and deleted; a fault is enough to tear
or lose the relay's document and send it to a device. With two faults, one of which may end
that device, `LinksSurvive` holds too of `Modes <- OnlyApart` and one change (1,895,033
states), in no run because of the time it takes. A third of anything is out of reach. *RuleFiles*: three commands are a rule, a hide and a link, or two
that overlap and one that finds what they left. *SourceTree*: four commands and
three items let a rename stop half-way and be followed by two more.
*SearchWindow*: with pages of one row, three queries are two pages and a refresh.
*LedgerText*: three typed lines open a transaction or an account in one file and
leave it open towards the next. *SwapPairs*: four legs are two aggregated pairs
or one of three against one. *Reports*: two months after the opening of the window, a
buy, a sale and a transfer; one coin is traded and moves in price, the other is got for it;
money, annotations and prices say 1 or 3 of a unit, so that each may differ from each
other; trades are of two units and all else of one, so that lots are consumed in part.

`Sets` and `Handlers`: two commands with the same record behave alike, so the
instance takes one of each. Symmetry is over command invocations (`Clients`) in
`rebuild` and over `Writers` in `vault_commands`, which nothing orders; neither
run has a liveness property. Deadlock is not checked where the system may rest:
a session ends (`mutation_queue`, `rebuild`, `vault_commands`, `ledger_data`,
`set_price`), or all moves the bounds allow were made (`relay_sync`,
`swap_commodities`). In the build runs a full run can begin from every idle
state, so there it is checked.

Defined and in no run: the type invariants of the modules other than
`MutationQueue`; `EventuallyQuiet` (time); `UsedWhenAnswered` (a part of the
proof); `MissingTransformIsLocal`, `UnlinkedLeavesNoRules`, `HiddenIdsAreStable`,
`RowShownOnce`, `DeletionsMerge`, `EveryFileArrives`, `ToggleKeepsTotals`,
`RelaxedStaysInAccount`, which are false and documented below.

## 14. Where program and documentation diverge

Three are violation runs with a finding in `PROJECT.json` that quotes the
sentence:

| Run | What happens |
|---|---|
| `lost_edit` | an edit during the watcher's own run, after it read the file, is never built: the watcher drains its event with those of the run's writes (README: "recompiles automatically whenever a file changes") |
| `set_price` | a price set for a day is written before one that a plugin wrote for the start of that day, and the later line is used |
| `swap_commodities` | plain legs of a group are paired by rank, also when the two of a pair are of one commodity |

The others are known from runs of the same modules with other constants, or from
reading; none is claimed by a passing run.

**IncrementalBuild.** On `MCIncrementalBuild`, `MaxClock` 1 unless stated, the
rest as in `BuildClobber.cfg`, all against `WarmEqualsCold` unless stated:

| Constants | What happens |
|---|---|
| `CsvA`, `NoManual`, `NoSwaps`, `Env = {"dirscript"}` | a `_transform.rhai` above a folder is in no fingerprint; editing it recompiles nothing (`regenerate.feature:29`) |
| `Csv2`, `WithinCsv`, `Env = {"ignore"}` | a linked leg's metadata names its partner: ignoring one leg of a swap removes both |
| `Csv1`, `Env = {"dropcsv", "csv", "concurrent", "listrace"}`, `MaxClock` 2 | a folder that goes or appears between the listing of `sources/` and the fingerprint is in the second only, and layer 1 trusts it (`EarlyExitSound`); with `ManualA` also `LayerTwoSound` |
| `Csv1`, `Env = {"dropdirscript", "script"}`, `MaxClock` 3 | one folder without a transform fails the whole build (`MissingTransformIsLocal`, `README.md:39`) |
| `TwoSets`, `Csv2`, `ManualBB`, `TwoSwaps`, `Env = {"csv", "hint"}` | a hinted run that links two manual legs of another account set rewrites that ledger without its CSV rows (`ScopedEqualsFull`) |
| `Csv2`, `WithinCsv`, `Env = {"clobber"}` | a clobbered ledger is recovered from entries saved before `auto_link`, which is then skipped |
| `Csv2`, `Across`, `Env = {"csv", "rules"}` | a recompiled leg finds its partner linked already, no candidate, and stays plain |
| `Csv2`, `WithinCsv`, `Env = {"prices"}` | prices are in no folder, so `auto_link` is skipped when they change |
| `CsvA`, `ManualB`, `Env = {"clobber"}` | a clobbered ledger with manual entries only is never restored |
| `Env = {"ignore", "unignore"}`, `MaxClock` 2 | a row taken off the ignore list stays hidden |
| `Csv1`, `MentionsB`, `Env = {"dropcsv", "csv"}` | rows elsewhere that mention the account of a folder that came or went keep their class |
| `Csv2`, `Env = {"csv", "concurrent", "midtransform"}`, `MaxClock` 3 | a CSV changes between the two reads and back; its hash serves the wrong rows |
| `Csv2`, `Env = {"csv", "racy"}` | an edit in the same second and of the same size is not seen |
| `Env = {"clobber"}`, `MaxCrash` 1 | a crash between manifest and folder cache, then a clobbered ledger: nothing to recover it from (`regenerate.feature:35`); with `"csv"` and `MaxClock` 2 also `LayerTwoSound` |
| `Csv1`, `Env = {"dropcsv", "force"}`, `MaxCrash` 1 | a ledger written before a crash is unknown to the pruning and outlives its folder |
| `BuildHidden.cfg`, `Env = {"ignore", "dropcsv"}`, `MaxCrash` 1, `MaxClock` 2 | such a ledger shows what is ignored since (`IgnoredStayHidden`) |
| `CsvA`, `ManualB`, `NoSwaps`, `Env = {"ignore", "unignore", "force"}`, `MaxCrash` 1, `MaxClock` 3 | a forced run is cut short after it wrote a row taken off the list, and the row is listed again: a ledger of manual entries has no entries to be written from, and the row stays shown (`IgnoredStayHidden`) |
| `BuildHidden.cfg`, `Env = {"csv", "ignore", "racy"}` | an id listed within the second of the last stamp of `_ignored.txt` is not seen (`IgnoredStayHidden`) |
| `Csv1`, `Env = {"clobber", "dropcsv"}`, `MaxClock` 3 | a ledger put where a folder lost its CSVs is not removed |

Hinted runs do not restore clobbered ledgers of other account sets. Legs of two
folders are paired when they post to one asset account: `folder_to_account_name`
drops the owner, so `richard/bitcoin` and `amelie/bitcoin` share one.

**Rebuild.** An edit is built by nobody when the watcher takes its event while a command
that makes no run holds a guard: a daily plugin batch with nothing due (`main.rs:3368-3394`),
`set_price` (`main.rs:1761-1770`), or a command that returns an error before its run
(`EveryEditIsBuilt` on `LostEdit.cfg` with `Handlers <- GuardsOnly`). An edit made within 800 ms of a command's mark, or while a command
is at work that does not see it, is built by nobody either (`disturbed`). Rule
and hide commands leave the ledger cache alone, and the watcher
may fill it with what it built before them (`raced`). Report threads of two
rebuilds write the same files without order (`crowded`).

**RelaySync.** Deletions come back: the device that has not seen one restores the
link from its snapshot (`DeletionsMerge`, `README.md:192`). Rules, transaction
references and accounts are recovered by neither side. A client that dies between
writing the downloaded document and saving what it recovered loses its entries. So does
one that downloads a document the relay tore: it overwrites the local file before it is
read, and the entries are gone with the process (a document that is empty and not cut short
even loads). When the relay's file is lost, the first post makes a new document of one
device, which the next download puts in place of the other's (`cut`).
`full_sync` with independent documents hides the local manifest. A cut-short document
at the relay makes every later post fail; a torn blob is never replaced: one
whose request was cut on its way is stored under the full hash (`storage.rs:162-170`), the
relay lists it, so nobody sends it again, and what another device downloads of it is stored
under another hash (`EveryFileArrives`, `README.md:192`; `RelaySync.cfg`, `Links = {}`,
`Modes <- OnlyApart`, one change). A device that dies while storing a blob keeps a truncated file under the full hash and
uploads it (`content_store.rs:33-47`). A link saved where it is there already
gets no new entry (`automerge_store.rs:305-324`); among devices that meet directly
nothing is recovered from a snapshot, so a deletion made elsewhere at the time
removes it after all: `added` leaves such a save out.

**Pairing.** A lost answer to a join uses up the code; Cancel leaves it valid.

**RuleFiles.** Hiding does nothing when a rule with the same shared id exists. A
rule moved to a folder that already holds its id leaves the source and is then
refused. A torn file, or one being written, loads as empty and the next save
wipes it. `repair_links` asks only whether one of the two rules is there. A link
saved under one folder and deleted under another leaves its rules
(`UnlinkedLeavesNoRules`, `trade_rules.feature:35`).

**SourceTree.** Imports of one name overwrite. Deleting a manual entry rewrites
the file without its comments, and falls back to the root's file. A crash while a
manual file is rewritten, and an append rewrites it as a deletion does, loses entries
made long before. A crash during a rename leaves
`__rename_tmp_<pid>`. An append whose rebuild fails stays, and the retry doubles it. The id
of a manual entry contains its place: deleting an earlier one changes it, and
what was hidden by it is shown (`HiddenIdsAreStable`,
`processing_pipeline.rs:3880`).

**SearchWindow.** After an add, or a rebuild the watcher made, the window is
fetched where it stands and the page appended again (`RowShownOnce`,
`main.ts:1419-1477`, `6315-6336` against `apply-pipeline.ts:56-59`). Answers of
overlapping queries are applied as they arrive.

**Dedupe.** A strip writes the file over itself: a crash there cuts or empties the file
that keeps other records, and no copy of these is made. Rows are stripped by places that
are stale if the file changed;
stripping moves the row indices `csv_txn_id` is made of; records with one FITID
and different content count as one.

**LedgerText, LedgerView.** A header that does not parse leaves the transaction
above it open. A date alone on a line right below a posting is no header for the parser, but
the next append puts a blank line above it: the postings below it, which were the
transaction's, are in none (`Splits`). The parser takes only a leg under `expenses:fees` for the fee, the
compiler writes `income:trading:fees`. A fee in another commodity leaves the legs
unbalanced. An account term followed by `OR` loads no folder. `is:swap` groups
only what was loaded. On `LedgerData.cfg`: a row whose rule routes to a configured hidden
account other than `ignore` keeps its leg on the wallet (`csv_transform.rs:496`), so the
wallet's total depends on Show Ignored (`ToggleKeepsTotals`; "totals are unaffected by the
toggle", `generated_store.rs:597-598`). With Show Ignored all account terms of a search are
dropped (`query.rs:556`), also a second or negated one and in the whole ledger: hidden rows
of other accounts are listed (`RelaxedStaysInAccount`; "folder scoping already constrains
it to the viewed account", `query.rs:862-864`).

**Prices.** Lines that are no prices are lost by a rewrite; a plugin keeps one
price a day, in its own currency; of two writers that overlap one is lost;
conversion tries the nearest earlier price only.

**SwapPairs.** With several opposite commodities the partner is that of the last
pair and the price that of the first. For plain legs the first pass prices a coin
by its stablecoin, the routed pass the other way. Two stablecoins are priced from
each other by the late pass, which a comment denies.

**Reports.** A transfer out of the scope leaves its lots in
(`CostCountsHeldUnits` is restricted to coins that are not short outside). A swap
in one transaction counts the difference of its legs twice, or not at all within one account; a
trade within one account counts at the price of the day. An annotation goes before what
was paid: a unit bought `@ 3` for 2 counts as bought for 3. What is sold and not
held has no cost. Fees are not in `total_return`. A holding without a price is
valued otherwise than `holdings_as_of` says (1940 ff. and 2194-2201).

## 15. What is proved

All for every value of the constants, under the named assumptions of the modules.
`UiProofs` is about the mutation queue and the table, `RelayProofs` about sync and
pairing, `SourcesProofs` about source folders, dedupe and ledger files; `OrderingProofs` has
the lemmas on lines and filtered sequences, and the induction principles, that these and
`LedgerDataProofs`, about reports, prices and transactions, share.

**`UiProofs`**: `TypeCorrect`, `SingleFlightSafe`,
`PendingCountsSafe`, `ClickOrderSafe`. The inductive invariant adds to the
properties what relates them: the running mutation is counted, the settled ones
are a prefix of the started ones, and those a prefix of the clicked ones.

**`IncrementalBuildProofs!EntriesSound`**: `Spec => []EntrySound` for any
folders, rows, edits, clobbering and crashes, under two assumptions: no CSV
changes between its two reads (`StableReads`, `"midtransform" \notin Env`;
without it the claim is false, see section 14) and no row mentions a declared
account (`NoMention`; without it an entry depends on folders its hash does not
cover). `EntrySound` speaks of the disk only and is not inductive. `IInv` adds
where the entries come from and where they go:

- `CsvOK`: a CSV holds rows of its folder;
- `CacheFaithful`: every cache file holds what its rows and its chain compile to
  for *some* set of declared accounts;
- `RunFaithful`: so does every entry in the memory of a run, loaded or new;
- `ReadStable`: between the two reads of a CSV it is what was hashed.

The existential is there so that the induction does not need `NoMention`, which
enters only at the end (`DeclaredIrrelevant`). One lemma per phase of a run shows
that its steps preserve `IInv`; `NextIInv` combines them.

**`IncrementalBuildProofs!NoRowTwiceSafe`**: `Spec => []NoRowTwice`, for any edits,
runs and crashes, assuming only that the CSV of a folder and its manual file do not
share an id (`OwnIds`; ids contain file and place). `DInv` says the same of every
bag on the way to the disk: what was parsed and recovered (`RunDistinct`,
`InHandDistinct`), what was linked or is to be written (`LedgersDistinct`), and what
the disk and the caches hold (`DiskDistinct`). The step that could break it is
`auto_link`, which maps a bag through a function: it keeps ids, hence is one to one
(`LinkedBag`).

**`IncrementalBuildProofs!IgnoredStayHiddenSafe`**: `Spec => IgnoredStayHidden`, a full or
forced run under which nothing was edited ends with every listed row hidden. Of the
edits only those within one second are excluded and no run is cut short
(`Steady`; both are needed, section 14); clobbered ledgers, hinted runs, dropped folders
and shared scripts are all allowed, though they make the other layers wrong. Besides
`OwnIds` it takes `Sentinels`: no absent value is a fingerprint or a manifest. `HInv`
says that

- every recorded fingerprint is older than the run (`TimesOK`), so a run under
  which nothing was edited saw all (`SeesAll`);
- a ledger that can be read is the one last recorded (`RecordsOK`), so pruning,
  which goes by the records, misses no folder that is gone;
- what such a run leaves in place hides what it should (`PlanHides`), what it
  writes too (`WriteHides`), and linking changes no id (`LinkingKeepsIds`);
- a manifest that would let the next run exit at once was saved over such ledgers
  (`SavedHides`).

**`IncrementalBuildProofs`**, second part: what each layer of an incremental run may trust.

| Theorem | Assumes |
|---|---|
| `LayerTwoSafe`: an output the manifest calls current is what a cold run would write | `Gentle` |
| `EarlyExitSafe`: a manifest whose inputs match lets a run stop with nothing stale | `Gentle`, `NoOrphans` |
| `WarmEqualsColdSafe`: a full or forced run under which nothing was edited, and that found a transform for every CSV, leaves `generated/` as a cold run | `Gentle`, `NoOrphans` |
| `ScopedEqualsFullSafe`: so does a hinted run, when its hints named everything edited | `Gentle`, `NoOrphans` |

`Gentle` is `PlainEdits` (CSVs, scripts in a folder, rules and manual files come,
change and go at any moment, also during a run, and runs of every kind are started; but
no prices, ignore list, clobbered ledgers, scripts above a folder, nor edits
within one second, between listing and fingerprint, or between the two reads of a
CSV), `Homes` (an id has one folder, a swap has its legs in one folder, not both
in the manual file), `NoMention`, and `NoFileIsNothing`, which says of the values
that stand for "absent" that they are no data. `NoOrphans`: crashes or dropped
CSVs, not both. The edits and the kinds of vault left out are those with which section 14
has a history that makes one of the four claims false; that an id has one folder is how
the code makes ids, of file and place. Where a run checks one of the four with an edit
that is left out here (clobbered ledgers, ignored rows), the claim holds for the vaults
of that run only.

The argument: all four claims are about a ledger whose fingerprint is *current*,
and an edit gives its file a stamp that no fingerprint, cache or run has recorded
(`ClockOK`, `EditsFresh`). It cannot make a current ledger wrong, only make it no longer
current. `LInv` puts that condition before everything a run holds: the manifest
and the disk (`ManifestOK`, `DiskSound`), the fingerprints taken (`SrcsOK`), the
plan and what it skips (`PlanOK`), entries compiled so far (`CompileOK`), what is
to be written and recorded (`WriteOK`, `RecordedOK`), what pruning must spare
(`KeptOK`), the end of the run (`EndOK`). One lemma per action of a run, one
for all edits, one for the crash; `BuildInvariant` puts them together with `IInv` and
`DInv`. Linking enters by `LinkingIsLocal`: with swaps at home in a folder, what
`auto_link` does to one ledger depends on that ledger only, so a run that has
only some of them in hand writes the same.

**`RebuildProofs`**: `TypeCorrect`, `CalmEditsSafe`, `CacheSafe`, `ReportsSafe`,
`AnnouncedSafe`, for any account sets, commands, and number of moves and failing
runs, from the assumptions of `Rebuild` only. The properties speak of moments of rest;
`IInv` says of every moment who has yet to put it right: the command, run or
watcher that will build an unbuilt edit (`EditsOK`), whoever is about to fill or clear the
cache (`CacheOK`, `FillersOK`), the thread that will write the reports
(`ReportsOK`) and the one that will announce them (`AnnouncedOK`). Below these lies
what `PIPELINE_LOCK` gives: `out <= run.began <= src` for each set, and
`inputs_hash` never ahead of `generated/` (`RunOK`), without which an early exit
would lose an edit.

**`RelayProofs`**: `TypeCorrect`, `LinksSafe` (`LinksSurvive`), `BlobsSafe`
(`BlobsAreWhole`) and `ConvergedSafe`, for any devices, links, files, changes and faults. For the links
`IInv` follows entries: those of a device that lost none are in its memory if anywhere,
numbered without gaps (`OwnOK`), so an entry it writes is new to every document and in
nobody's `gone`; `MapsOK` says whose map is seen, `SyncOK` where in a sync the relay's
document may be on disk without the device's own entries, `ApartOK` that disk and
memory agree otherwise.

And `ConvergedSafe`: `Spec => []Converged`, with lost requests and answers, direct
transfers and syncs that overlap a change. `CInv` says of histories without a crash:

- `WholeOK`: no document is cut short or deletes a file, and only blobs cut on their way are torn (`Cut`);
- `DeviceOK`: what each step of a sync has taken to the relay; `CountedOK`: what a
  sync that will count for the round has brought to the device so far;
- round 1, `FirstOK`: the relay has the map, the deletions and the files of each
  device that is done, and of all of them ever after (`FramesOK`);
- round 2, `SecondOK`: who is done has all of these and nothing left to recover
  (`Level`), and the relay has its entries. Nobody writes an entry any more;
- round 3, `ThirdOK`: who is done has the entries of the relay, so all show the same.

`AloneKeepsRounds` covers every step of a sync that only adds to one device and the
relay, `ChangeKeeps` the steps that begin the count anew, `SyncEndKeeps` the end of a
sync. The proof needs the third round: what a device recovers of its own in the
second reaches the others only then. A sync begun before a change carries `None` as
its round, hence the assumption that `None` is no number.

**`UiProofs!SettledTableIsCurrentSafe`**: `TableSpec =>
[]SettledTableIsCurrent`, for any rows, searches, page size and number of queries,
changes and rebuilds. The property speaks of rest only, and only of histories
without overlap. `TInv` adds what is true on the way there:

- `QueryOK`: without overlap one query is under way, of the page the window came to;
- `LoadedOK`: unless a refresh is still `Owed` (by an event, or by a command that is
  done) what is loaded are the first rows up to the page asked for, and an answer
  that was read but not applied is that page. A change of the disk always leaves a
  refresh owed, which is why an older answer may be applied meanwhile;
- `PendingOK`: what is shown ahead of the backend belongs to a command still to be done.

Below these are lemmas on sequences: rows in order of rank (`NewestFirst`) hold each
row once, and the first rows with the next page appended are the first rows of one page
more.

**`SourcesProofs`**: `SourceTreeTypeCorrect`, and `NothingLostSafe`:
`SourceTreeSpec => []NothingLost`, for any folders, files, entries and number of
commands and stops. Of the folders `SourceTreeAssumption` says that parents are
among them and none is called as the temporary one. `NothingLost` counts files and
entries; `OnceOK` says the same without numbers (what was not dropped is a file or an
entry, and no two places hold it), with the entries of a file that is being
rewritten, by an append or a deletion, taken from the text to be written (`Kept`). `TypesOK` keeps the tree a
tree, `TaskOK` says that what a command begun moves next has room: the target
does not exist and everything under the temporary name fits below it. All three
renames of directories are one lemma, `MoveKeeps`: moving one folder to where nothing
is maps places one to one. It rests on an algebra of paths (`Under`, `Rebased`: what was
moved there and back is where it was).

**`RuleFilesProofs`**: `RuleFilesTyped`, `RulesAreKept` (`RulesSurvive`), `HiddenIsKept`
(`HiddenStaysHidden`) and `LinksWin` (`LinkWins`), for any folders with any chains of
ancestors, any writers, commands and crashes. `RuleInv` follows a rule from the file
through the copies that are made of it:

- `Alone`: a folder nobody met in or died in belongs to one command at most, whose copy
  is what its edit makes of the file (`Edited`);
- `OwedOK`: a rule that is owed is in the file, or in that copy unless the command drops
  it on purpose (`Drops`), or on its way to the folder it is moved to;
- `CopiesOK`: the copy of a hide begins with the hide rule, that of a link with the two
  rules of the link;
- `HiddenOK`: while a transaction is hidden, so does the file of the leaf, and there is
  no rule for a single leg in the chain.

`EditedKeeps` is what each of the ten edits leaves of a file, `SavedRules` that a save
drops no rule that does something and keeps what leads in its class, `Decides` that the
rule that leads its file and its class decides the row, whatever the ancestors hold.

**`SourcesProofs!RecordsKept`**: `DedupeSpec => []RecordsSurvive`, for any exports in any
disjoint groups, with any rows and stated spans. `WinnerHasIt`: `Beats` is a strict
total order, so a record's winner is a file that has it. `WhatIsLeft`: the plan leaves a
file the records it is the winner of and no others, and archives it only if there are
none. `RunOK` says of a run where its plan has come to (`Progress`): groups done are as
the plan leaves them, but for the files left of the last one, with the file being
rewritten as it will be (`Intended`). `KeysAreKept` follows at any point: the winner of a
record has it before and after. A stop while a file is written cuts it in two
(`CutInTwo`); what is in the lost part is all that may be missing.

**`SourcesProofs`**, ledger files: `TextTyped`, `MergedIsTheFilesSafe` and
`AppendAddsOneSafe`, for any number of files and any lines in them. `TextAssumption`
says that a line is complete or not and that "nothing is being read" is neither a
transaction nor a declaration. Both properties are about the parser and hold of any
files, so the type invariant is all the specification adds; the argument is
an induction over lines (`LineByLine`), for which `ReadMore` says that reading one line
more is one step more:

- `Follows`: two states of the parser have the same thing open, and one has
  read what the other has and something before it. `Shifted` says the same of line
  numbers and diagnostics. Every line keeps both (`ReadFollows`), so
  after lines that leave nothing open others are read as by themselves (`ReadBehind`);
- `LoadMore`: with the blank line `append_file_to_text` ends a file with nothing is open,
  so the next file is read by itself, and its range, which begins after all
  others (`IsBehind`), finds its diagnostics and no others;
- `SpacedReads`, `TrimmedReads`: a blank line above a header changes nothing,
  because a header closes what is open itself, and the blank lines at the end
  only close it. That a line that looks like a header is one, or is not right below a
  posting, is the premise (`SplitsMore` keeps it line by line). So a text in order is read as before, and a block after a blank line
  by itself (`BlockReads`).

**`LedgerDataProofs`**, reports: `ReportsTypesCorrect`, `CostCountsHeldUnitsSafe`,
`ReturnIsGrowthSafe`, `PartsAddUpSafe` and `HarvestIsWhatItSavesSafe`, for any coins,
accounts, prices, quantities, rate of discount and number of months and transactions,
from the two assumptions of `Reports`. The properties compare what two
walks over one ledger arrive at; `IInv` says how the walks go together at every
transaction:

- `LotsOK`: the walks of gains and of holdings hold the same lots, for each coin
  at least as many units as there are in all accounts, and exactly as many unless more
  was sold than held (`oversold`); dropping the oldest surplus lots leaves what is held;
- `DatesOK`: no lot or event is of a later month, and none was sold before it was bought;
- `BookOK`: with no short sale, and nothing on its way when the window opened, what was
  gained and earned is what the lots at cost and the cash grew by, less what was put in,
  plus `mispriced`. It holds whatever a leg is said to be worth, so annotations,
  counterparties and siblings need no case of their own; all that is asked of `Each` is that it is a
  natural number (`EachIsNat`). No price of the day occurs in it, so a month that only
  moves prices keeps it; `ReturnIsGrowth` follows by adding the value not yet realised;
- `WindowOK`: the changes of past months add up to the change of the value not realised,
  with what had been gained before the window on lots sold in those months added back.

All trades are one lemma, `BookStep`, transfers and the end of a month one each. Below
lie sums over finite sets, whose laws are proved by the smallest
counterexample (`SmallestSubset`), and `Fifo`: what `consume_fifo` takes and what it
leaves are together what was there, in units and at cost. Sums over lots are
sums over their indices for that reason. `SetOff` is the arithmetic of a harvest:
losses go against short gains first, so the saving splits in the same way, for every
discount.

**`LedgerDataProofs`**, prices: `PricesTyped`, and `PricesRefine`:
`PricesSpec => ImplementsPriceTable`, for any commodities, days, amounts, files to
import and to begin with, any writers and number of changes. `PriceAssumption` says that
days and amounts are positive numbers, files sequences of prices and comments, and
commands no plugins; `TableAssumption` that what stands for "no price" and "no request"
is neither. The refinement needs an invariant, `PricesInv`: without an overlap at most
one writer has read a file, and what it read is what the file still holds, so the row
it merges with is the current one. Under it each step maps to one of the table:

- `BeginStep`: `Ask`; `ReadStep`: a stutter, or the first `Clash`; after an overlap every
  step is a `Clash`;
- `WriteStep`: `Make`, by `WriteMakes`, which is about the row a rewritten file stands
  for. `RewrittenRow`: new prices followed by the kept ones, sorted, hold for each moment
  the price of the merge, since the sort is stable (`SortedByTextHolds`) and no kept
  price is of a moment that has a new one (`KeptHolds`). `RestatedRow` says of a plugin's
  rewrite that a day's price is the last of what was read and fetched for that day.

**`LedgerDataProofs`**, transactions: `ViewTyped`, and `LegsBalanceSafe`:
`ViewSpec => []LegsBalance`, for any folders, rows, payees, rules, labels and hidden
accounts. `ViewAssumption` gives the folders as finitely many, amounts and fees as whole
numbers and legs of a row as any sequence of them; that own legs balance is a premise of
the property, for one row at a time. What is proved is that each step of
`apply_labels_and_rules` keeps the sum of every commodity:

- `RowBalances`: net and gross amount and the fee leave a fee in another commodity only;
- `RenamedBalances`: a label moves all legs of the first leg's commodity to `Canonical`,
  so the two sums are added, and nothing owed stays nothing;
- `Rerouted`, `RoutedBalances`: accounts do not enter a sum, and dropping the second leg
  of three or more when it is of nothing leaves it as it was.

Sums over places of a sequence are compared place by place (`SumOfSame`), which is why
`SumOf` adds up with `AddUp` and not with a fold over the sequence.

**`RelayProofs!JoinedOnceSafe`**: `PairingSpec => []JoinedOnce` for any
devices, codes and lifetime. `JoinedOnce` counts answers and says nothing of the
codes, so `JoinInv` adds `EntriesOK` (an entry is of a group already made),
`AnsweredOK` (groups not made let nobody in) and `UsedWhenAnswered`: a group has
one entry, and once it let a device in that entry is used. Restart, expiry and
collision only remove entries, one lemma (`RemovalJoinInv`) for all three.

Only model-checked, and why:

- liveness (`EveryClickSettles`, `EventuallyFresh`): fairness is out of the prover's reach;
- what is computed by a fold over a ledger, or through `SelectSeq` and `FlattenSeq` of
  the libraries: the queries of `LedgerView` (`IgnoringKeepsTotals`,
  `ShowIgnoredReveals`), `SwapPairs`. `IgnoringKeepsTotals` also needs of
  the names of accounts, and of the legs rows come with, what holds in the instance and
  no code enforces; `ShowIgnoredReveals` is about the kinds of searches of the instance. Facts about these for all
  inputs need an induction principle over data; over finite sets the smallest
  counterexample does instead (`SmallestSubset`), what a fold does with a sequence or a
  bag would have to be restated over indices as in `Reports`, `Prices`, `LedgerText` and
  `Ordering`;
- the properties of the violation runs, which the code violates (section 14).

## 16. Not modelled

- `ofx_parser.rs`, `issues.rs`, `transform_suggest.rs`: functions on text
  without state of their own; the shape of OFX processing is that of CSVs.
- `web/`: the commands of the shell over HTTP. `render.ts`,
  `virtual-scroll.ts`: strings and DOM. `startup.ts`, `root_config.rs`: a
  sequence of loads; the root folder does not change in the models.
- What a Rhai script computes is the user's.
- Of the table: a query that fails (the `catch` of `runSearchFilter`).
- Of the pipeline: `accounts.transactions`, the owner and account maps of the
  metadata, the cache format of older versions, reports of a changed prefix.
- Of the rules engine: globs and amount expressions, the commands on
  `_labels.json`, which have the shape of those on `_rules.json`.
- Of the relay: groups of more than two devices cannot come about, since a code
  is used once; recovery of rules, references and accounts does not take place.
