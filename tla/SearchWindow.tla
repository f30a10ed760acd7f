----------------------------- MODULE SearchWindow -----------------------------
(***************************************************************************)
(* The transaction table of the window: pages fetched from the backend as  *)
(* the user scrolls, queries whose answers come back in any order, changes *)
(* shown before the backend has made them, and refreshes after a command   *)
(* or a rebuild the watcher started (main.ts, apply-pipeline.ts,           *)
(* optimistic.ts).  Rows are numbers, the newest is the highest.           *)
(***************************************************************************)
EXTENDS Naturals, Sequences, SequencesExt, FiniteSets, FiniteSetsExt, Ordering

CONSTANTS
  TableRows,    \* rows there may be
  RowsAtStart,
  EditedRows,   \* bound: rows an edit of a source adds or removes
  Searches,     \* [name -> rows the search matches]
  Page,         \* TX_WINDOW
  NotLoaded,    \* searchFilteredTransactions = undefined
  Unread,       \* a query the backend has not answered
  MaxQueries, MaxChanges, MaxRebuilds \* bounds

ASSUME TableAssumption ==
  /\ TableRows \subseteq Nat /\ IsFiniteSet(RowsAtStart) /\ RowsAtStart \cup EditedRows \subseteq TableRows
  /\ \A s \in DOMAIN Searches : Searches[s] \subseteq TableRows
  /\ NotLoaded \notin Seq(TableRows)
  /\ Page \in Nat \ {0} /\ MaxQueries \in Nat /\ MaxChanges \in Nat /\ MaxRebuilds \in Nat

VARIABLES
  onDisk,       \* rows in the generated ledger
  search, txWindowStart,
  loaded,       \* searchFilteredTransactions
  count,        \* searchFilteredCount
  listening,    \* the scroll listener of the last render would fetch a page
  queries,      \* calls of query_search not yet applied: [n, from, search, rows, count]
  asked,        \* calls so far
  todo,         \* the mutation queue: [kind, row, committed, the query it awaits]
  pendingAdds, pendingDeletes,
  changes, rebuilds, \* commands given, rebuilds by the watcher
  event,        \* pipeline-rebuilt was emitted and not handled
  muddled       \* answers may have been mixed since the window was last reset

tableVars == <<onDisk, search, txWindowStart, loaded, count, listening, queries, asked,
               todo, pendingAdds, pendingDeletes, changes, rebuilds, event, muddled>>

-----------------------------------------------------------------------------
NewestFirst(rows) == Sorted(rows, LAMBDA r, x : r > x)
Matching(s) == NewestFirst(onDisk \cap Searches[s])

\* The backend's page: offset, then limit.
PageOf(seq, from) == SubSeq(seq, from + 1, Min({Len(seq), from + Page}))

Query(from, s) == [n |-> asked + 1, from |-> from, search |-> s, rows |-> Unread, count |-> 0]

\* Two calls are under way, or a page that is not the first is fetched again.
Mixes(again) == queries # {} \/ (again /\ txWindowStart > 0)

\* Mutant of Refetch: the reset is forgotten.
RefetchAsItStands(s) ==
  /\ asked < MaxQueries /\ asked' = asked + 1
  /\ queries' = queries \cup {Query(txWindowStart, s)}
  /\ muddled' = (queries # {})
  /\ UNCHANGED <<txWindowStart, loaded, count>>

\* runSearchFilter, after the caller has set the window back to its start.
Refetch(s) ==
  /\ asked < MaxQueries /\ asked' = asked + 1
  /\ txWindowStart' = 0 /\ loaded' = NotLoaded /\ count' = 0
  /\ queries' = queries \cup {Query(0, s)}
  /\ muddled' = (queries # {})

\* runSearchFilter as it stands.
FetchAgain ==
  /\ asked < MaxQueries /\ asked' = asked + 1
  /\ queries' = queries \cup {Query(txWindowStart, search)}
  /\ muddled' = (muddled \/ Mixes(TRUE))
  /\ UNCHANGED <<txWindowStart, loaded, count>>

HasMore(rows, n) == rows # NotLoaded /\ rows # <<>> /\ Len(rows) < n

TableInit ==
  /\ onDisk = RowsAtStart
  /\ search \in DOMAIN Searches /\ txWindowStart = 0
  /\ loaded = PageOf(Matching(search), 0) /\ count = Len(Matching(search))
  /\ listening = HasMore(loaded, count)
  /\ queries = {} /\ asked = 0 /\ todo = <<>>
  /\ pendingAdds = {} /\ pendingDeletes = {}
  /\ changes = 0 /\ rebuilds = 0 /\ event = FALSE /\ muddled = FALSE

-----------------------------------------------------------------------------
\* resetSearchPaging: another search, account, date or sort.
ChangeSearch(s) ==
  /\ s # search /\ search' = s
  /\ Refetch(s) /\ listening' = FALSE
  /\ UNCHANGED <<onDisk, todo, pendingAdds, pendingDeletes, changes, rebuilds, event>>

\* onScroll; the listener waits for its answer unless a render puts up a new one.
Scroll ==
  /\ listening /\ asked < MaxQueries
  /\ listening' = FALSE
  /\ txWindowStart' = txWindowStart + Page
  /\ asked' = asked + 1 /\ queries' = queries \cup {Query(txWindowStart + Page, search)}
  /\ muddled' = (muddled \/ Mixes(FALSE))
  /\ UNCHANGED <<onDisk, search, loaded, count, todo, pendingAdds, pendingDeletes, changes, rebuilds, event>>

\* query_search reads what is on disk.
Read ==
  \E q \in queries :
    /\ q.rows = Unread
    /\ queries' = (queries \ {q}) \cup
                    {[q EXCEPT !.rows = PageOf(Matching(q.search), q.from), !.count = Len(Matching(q.search))]}
    /\ UNCHANGED <<onDisk, search, txWindowStart, loaded, count, listening, asked, todo, pendingAdds,
                   pendingDeletes, changes, rebuilds, event, muddled>>

\* A page that is not the first is appended, whatever has happened since it was asked for.
Extended(q) == IF q.from > 0 /\ loaded # NotLoaded THEN loaded \o q.rows ELSE q.rows

\* The answer arrives and the caller renders; a command is done when its refresh is.
Apply ==
  \E q \in queries :
    /\ q.rows # Unread /\ queries' = queries \ {q}
    /\ loaded' = Extended(q) /\ count' = q.count
    /\ listening' = HasMore(loaded', count')
    /\ IF todo # <<>> /\ Head(todo).awaits = q.n
         THEN todo' = Tail(todo) /\ pendingDeletes' = pendingDeletes \ {Head(todo).row}
         ELSE UNCHANGED <<todo, pendingDeletes>>
    /\ UNCHANGED <<onDisk, search, txWindowStart, asked, pendingAdds, changes, rebuilds, event, muddled>>

-----------------------------------------------------------------------------
(* Commands, one at a time (MutationQueue).                                *)
Change(kind, r) == [kind |-> kind, row |-> r, committed |-> FALSE, awaits |-> 0]

\* The modal closes and the row is there at once.
addManualTransaction(r) ==
  /\ changes < MaxChanges /\ changes' = changes + 1
  /\ r \notin onDisk \cup pendingAdds
  /\ pendingAdds' = pendingAdds \cup {r}
  /\ todo' = Append(todo, Change("add", r))
  /\ listening' = HasMore(loaded, count)
  /\ UNCHANGED <<onDisk, search, txWindowStart, loaded, count, queries, asked, pendingDeletes, rebuilds, event, muddled>>

\* The row is removed from the table at once.
hide(r) ==
  /\ changes < MaxChanges /\ changes' = changes + 1
  /\ loaded # NotLoaded /\ r \in ToSet(loaded) \ pendingDeletes
  /\ pendingDeletes' = pendingDeletes \cup {r}
  /\ todo' = Append(todo, Change("hide", r))
  /\ UNCHANGED <<onDisk, search, txWindowStart, loaded, count, listening, queries, asked, pendingAdds,
                 rebuilds, event, muddled>>

\* The command returns, having rebuilt; or it fails, the change is taken back.
Commit ==
  /\ todo # <<>> /\ ~Head(todo).committed
  /\ onDisk' = IF Head(todo).kind = "add" THEN onDisk \cup {Head(todo).row} ELSE onDisk \ {Head(todo).row}
  /\ todo' = [todo EXCEPT ![1].committed = TRUE]
  /\ UNCHANGED <<search, txWindowStart, loaded, count, listening, queries, asked, pendingAdds, pendingDeletes,
                 changes, rebuilds, event, muddled>>

Fail ==
  /\ todo # <<>> /\ ~Head(todo).committed
  /\ todo' = Tail(todo)
  /\ pendingAdds' = pendingAdds \ {Head(todo).row}
  /\ pendingDeletes' = pendingDeletes \ {Head(todo).row}
  /\ listening' = HasMore(loaded, count)
  /\ UNCHANGED <<onDisk, search, txWindowStart, loaded, count, queries, asked, changes, rebuilds, event, muddled>>

\* applyMutationResponse; stale pages are dropped.
AfterHide == Refetch(search)

\* The real row is on disk: the one shown in its place goes, then the window is
\* fetched as it stands (loadGeneratedLedger).
AfterAdd == FetchAgain

Refresh ==
  /\ todo # <<>> /\ Head(todo).committed /\ Head(todo).awaits = 0
  /\ IF Head(todo).kind = "hide" THEN AfterHide ELSE AfterAdd
  /\ todo' = [todo EXCEPT ![1].awaits = asked + 1]
  /\ pendingAdds' = pendingAdds \ {Head(todo).row}
  /\ UNCHANGED <<onDisk, search, listening, pendingDeletes, changes, rebuilds, event>>

\* The watcher rebuilds after an edit of a source and tells the window.
WatcherRebuild ==
  /\ rebuilds < MaxRebuilds /\ rebuilds' = rebuilds + 1
  /\ \E r \in EditedRows : onDisk' = SymDiff(onDisk, {r})
  /\ onDisk' \cap pendingAdds = onDisk \cap pendingAdds
  /\ event' = TRUE
  /\ UNCHANGED <<search, txWindowStart, loaded, count, listening, queries, asked, todo, pendingAdds,
                 pendingDeletes, changes, muddled>>

\* onPipelineEvent, loadGeneratedLedger.
onPipelineEvent ==
  /\ event /\ event' = FALSE
  /\ FetchAgain /\ listening' = HasMore(loaded, count)
  /\ UNCHANGED <<onDisk, search, todo, pendingAdds, pendingDeletes, changes, rebuilds>>

TableNext ==
  \/ \E s \in DOMAIN Searches : ChangeSearch(s)
  \/ Scroll \/ Read \/ Apply
  \/ \E r \in TableRows : addManualTransaction(r) \/ hide(r)
  \/ Commit \/ Fail \/ Refresh
  \/ WatcherRebuild \/ onPipelineEvent

TableSpec == TableInit /\ [][TableNext]_tableVars

-----------------------------------------------------------------------------
(* Properties.                                                             *)

filterPendingDeletes(rows) == Only(rows, {i \in DOMAIN rows : rows[i] \notin pendingDeletes})

\* What the table shows: rows being added that are not loaded, then the loaded ones
\* that are not being deleted.
Shown ==
  LET rows == IF loaded = NotLoaded THEN <<>> ELSE loaded
  IN NewestFirst(pendingAdds \ ToSet(rows)) \o filterPendingDeletes(rows)

TableTypeOK ==
  /\ onDisk \subseteq TableRows /\ search \in DOMAIN Searches /\ txWindowStart \in Nat
  /\ loaded = NotLoaded \/ ToSet(loaded) \subseteq TableRows
  /\ \A q \in queries : q.n \in 1 .. asked /\ q.from % Page = 0
  /\ \A i \in DOMAIN todo : todo[i].row \in TableRows /\ (i > 1 => ~todo[i].committed) /\ todo[i].awaits \in 0 .. asked
  /\ pendingAdds \cup pendingDeletes \subseteq TableRows

\* The table is what the ledger holds, from the newest row on, whenever nothing is
\* under way; also after rows were added, hidden, changed behind its back and
\* scrolled to.  This needs that answers did not overlap and that no later page was
\* fetched twice: the code does not see to either.
SettledTableIsCurrent ==
  queries = {} /\ todo = <<>> /\ ~event /\ ~muddled =>
    Shown = SubSeq(Matching(search), 1, Min({Cardinality(onDisk \cap Searches[search]), txWindowStart + Page}))

\* "Callers MUST use this ... so refreshView re-fetches from offset 0 and replaces the
\* list rather than appending to stale pages" (apply-pipeline.ts): once all is done, no
\* row is left in the table twice.
RowShownOnce == queries = {} /\ todo = <<>> /\ ~event => IsInjective(Shown)
====
