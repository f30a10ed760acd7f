------------------------------- MODULE Rebuild -------------------------------
(***************************************************************************)
(* Who calls run_pipeline, and when: the commands of the desktop shell,    *)
(* the file watcher, and what hangs on a finished run: the ledger cache    *)
(* and the report threads (src/src-tauri/src/main.rs).                     *)
(*                                                                         *)
(* What one run does to the files is IncrementalBuild's subject; here a    *)
(* run reads, for each account set, a version of its sources between the   *)
(* moment it starts and the moment it ends, and leaves that version in     *)
(* generated/.  One account set stands for its folders and its ledgers.    *)
(***************************************************************************)
EXTENDS Naturals, FiniteSets

CONSTANTS
  None,        \* no one, nothing
  Watcher,     \* the watcher thread, as a holder of the lock
  Sets,        \* account sets
  Clients,     \* concurrent invocations of commands
  Handlers,    \* the commands this instance calls, a set of the records below
  MaxMoves,    \* bound: edits by the user and commands invoked
  MaxFails     \* bound: runs that fail, e.g. at a transform

ASSUME RebuildAssumption ==
  /\ MaxMoves \in Nat /\ MaxFails \in Nat
  /\ IsFiniteSet(Clients)
  /\ None \notin Clients \cup {Watcher} /\ Watcher \notin Clients
  /\ None \notin [Sets -> Nat]

VARIABLES
  src,         \* [Sets -> Nat]: version of the files under sources/
  out,         \* [Sets -> Nat]: the version generated/ was compiled from
  inputs,      \* the manifest's inputs_hash: the src it stands for, or None
  lock,        \* who is inside run_pipeline (PIPELINE_LOCK), or None
  run,         \* the run of the lock holder
  cmd,         \* [Clients -> command in flight, or Idle]
  guards,      \* WatcherSuppressFlag
  recent,      \* LastCommandRebuild.within(800ms)
  watcher,     \* the watcher thread
  os, rx,      \* change events: on their way, in the channel
  cache,       \* LedgerCache: [Sets -> version or None]
  generation,  \* ReportGeneration
  threads,     \* report threads
  reports,     \* [Sets -> Nat]: what the report files were generated from
  notified,    \* the generation of the last reports-rebuilt event
  moves, fails,
  \* what the properties need to know of the past:
  disturbed,   \* sets edited, and not yet built, while something else went on
               \* or when a command ended that built nothing
  raced,       \* sets whose cache entry another run may have overtaken
  crowded      \* a report thread was started beside another

shell == <<cmd, guards, recent>>
watch == <<watcher, os, rx>>
reporting == <<generation, threads, reports, notified>>
vars == <<src, out, inputs, lock, run, shell, watch, cache, reporting, moves, fails,
          disturbed, raced, crowded>>

-----------------------------------------------------------------------------
(* The commands.  guard: the watcher is suppressed while the command runs; *)
(* mark: the command stamps LastCommandRebuild first; writes: it changes   *)
(* files of one set; runs: it calls run_pipeline itself; hint: its run is  *)
(* scoped to that set; cache: what it does to the ledger cache once its    *)
(* run is done.                                                            *)

Handler(g, m, w, h, c) ==
  [guard |-> g, mark |-> m, writes |-> w, runs |-> TRUE, hint |-> h, cache |-> c]

\* It suppresses the watcher and leaves the rebuild to no one.
GuardOnly(w) == [Handler(TRUE, FALSE, w, FALSE, "keep") EXCEPT !.runs = FALSE]

rebuild_pipeline           == Handler(TRUE, FALSE, FALSE, FALSE, "clear")
add_manual_transaction     == Handler(FALSE, TRUE, TRUE, TRUE, "clear")
delete_manual_transaction  == Handler(FALSE, TRUE, TRUE, TRUE, "clear")
import_csv_to_account      == Handler(FALSE, TRUE, TRUE, TRUE, "clear")
import_csv_files_to_account == Handler(FALSE, TRUE, TRUE, TRUE, "clear")
save_transform_and_rebuild == Handler(FALSE, TRUE, TRUE, TRUE, "clear")
add_account_declaration    == Handler(FALSE, FALSE, TRUE, FALSE, "clear")
rename_account_folder      == Handler(FALSE, FALSE, TRUE, FALSE, "clear")
delete_account_folder      == Handler(FALSE, FALSE, TRUE, FALSE, "clear")
process_imports            == Handler(FALSE, FALSE, TRUE, FALSE, "clear")
import_rules_csv           == Handler(TRUE, FALSE, TRUE, FALSE, "clear")
save_trade_link            == Handler(TRUE, FALSE, TRUE, TRUE, "clear")
save_trade_links_bulk      == Handler(TRUE, FALSE, TRUE, TRUE, "clear")
delete_trade_link          == Handler(TRUE, FALSE, TRUE, TRUE, "clear")
hide_transaction           == Handler(TRUE, FALSE, TRUE, FALSE, "keep")
save_rule                  == Handler(TRUE, FALSE, TRUE, FALSE, "keep")
save_label                 == Handler(TRUE, FALSE, TRUE, FALSE, "keep")
update_rule                == Handler(TRUE, FALSE, TRUE, FALSE, "keep")
delete_rule                == Handler(TRUE, FALSE, TRUE, FALSE, "keep")
run_plugin                 == Handler(TRUE, FALSE, TRUE, FALSE, "fill")
run_daily_plugins          == Handler(TRUE, FALSE, TRUE, FALSE, "fill")
run_daily_plugins_none_due == GuardOnly(FALSE)
set_price                  == GuardOnly(TRUE)

AllHandlers ==
  {rebuild_pipeline, add_manual_transaction, delete_manual_transaction,
   import_csv_to_account, import_csv_files_to_account, save_transform_and_rebuild,
   add_account_declaration, rename_account_folder, delete_account_folder,
   process_imports, import_rules_csv, save_trade_link, save_trade_links_bulk,
   delete_trade_link, hide_transaction, save_rule, save_label, update_rule,
   delete_rule, run_plugin, run_daily_plugins, run_daily_plugins_none_due, set_price}

ASSUME HandlersAssumption == Handlers \subseteq AllHandlers

-----------------------------------------------------------------------------
Idle == [at |-> "idle"]
NoRun == [of |-> None]
Asleep == [at |-> "wait"]
Unbuilt == {s \in Sets : src[s] # out[s]}

Init ==
  /\ src = [s \in Sets |-> 0] /\ out = src /\ inputs = src
  /\ lock = None /\ run = NoRun
  /\ cmd = [p \in Clients |-> Idle] /\ guards = 0 /\ recent = FALSE
  /\ watcher = Asleep /\ os = FALSE /\ rx = FALSE
  /\ cache = [s \in Sets |-> None]
  /\ generation = 0 /\ threads = {} /\ reports = src /\ notified = 0
  /\ moves = 0 /\ fails = 0 /\ disturbed = {} /\ raced = {} /\ crowded = FALSE

\* Files of set s change, and the operating system will report it.
Change(s) ==
  /\ src' = [src EXCEPT ![s] = @ + 1]
  /\ os' = TRUE

Move == moves < MaxMoves /\ moves' = moves + 1

Busy(p) == recent \/ \E q \in Clients \ {p} : cmd[q] # Idle

\* The user, or a command that leaves the rebuild to the watcher (import_prices,
\* save_transform).
Edit(s) ==
  /\ Move /\ Change(s)
  /\ disturbed' = IF Busy(None) \/ watcher.at \in {"running", "drain"}
                  THEN disturbed \cup {s} ELSE disturbed
  /\ UNCHANGED <<out, inputs, lock, run, shell, watcher, rx, cache, reporting, fails, raced, crowded>>

-----------------------------------------------------------------------------
(* run_pipeline, by a command or by the watcher.                           *)

Begin(a, scope) ==
  /\ lock = None
  /\ lock' = a
  /\ run' = [of |-> a, scope |-> scope, began |-> src]

\* Layer 1: a full run whose fingerprint is the one of the last full run.
UpToDate == run.scope = Sets /\ inputs = run.began

\* What the run found in each set of its scope; out of scope nothing is written.
Compiled ==
  {got \in [Sets -> UNION {run.began[s] .. src[s] : s \in Sets} \cup UNION {{out[s]} : s \in Sets}] :
     \A s \in Sets : IF s \in run.scope THEN got[s] \in run.began[s] .. src[s] ELSE got[s] = out[s]}

NextOut == IF UpToDate THEN {out} ELSE Compiled

\* Which other actors hold a result they have yet to put into the cache.
Filling(a) ==
  \/ a # Watcher /\ watcher.at = "drain" /\ ~watcher.result.early
  \/ \E q \in Clients \ {a} : cmd[q].at = "respond" /\ cmd[q].handler.cache = "fill"

\* The lock holder a finishes with got in generated/.  keeps: it will not touch
\* the cache.
Finish(a, got, keeps) ==
  LET changed == {s \in Sets : got[s] # out[s]} IN
  /\ lock = a
  /\ out' = got
  /\ inputs' = IF UpToDate THEN inputs ELSE IF run.scope = Sets THEN run.began ELSE None
  /\ lock' = None /\ run' = NoRun
  /\ disturbed' = disturbed \ {s \in Sets : src[s] = got[s]}
  /\ raced' = IF keeps \/ Filling(a) THEN raced \cup changed ELSE raced

Result(got) == [early |-> UpToDate, got |-> got, wrote |-> got # out]

\* An error return: nothing is written.
Fail(a) ==
  /\ lock = a /\ fails < MaxFails
  /\ lock' = None /\ run' = NoRun
  /\ fails' = fails + 1
  /\ disturbed' = disturbed \cup Unbuilt

-----------------------------------------------------------------------------
(* Report threads (spawn_report_generation).                               *)

\* Mutant of Spawn: fetch_add returns the number before, and nobody adds one.
SpawnOldNumber(result) ==
  IF result.wrote
  THEN /\ generation' = generation + 1
       /\ threads' = threads \cup {[gen |-> generation, read |-> None]}
       /\ crowded' = (crowded \/ threads # {})
  ELSE UNCHANGED <<generation, threads, crowded>>

\* Mutant of Spawn: not while the thread of an earlier rebuild is at work.
SpawnIfNone(result) ==
  IF result.wrote /\ threads = {}
  THEN /\ generation' = generation + 1
       /\ threads' = {[gen |-> generation + 1, read |-> None]}
       /\ UNCHANGED crowded
  ELSE UNCHANGED <<generation, threads, crowded>>

\* A run that wrote nothing leaves the reports alone.
Spawn(result) ==
  IF result.wrote
  THEN /\ generation' = generation + 1
       /\ threads' = threads \cup {[gen |-> generation + 1, read |-> None]}
       /\ crowded' = (crowded \/ threads # {})
  ELSE UNCHANGED <<generation, threads, crowded>>

\* A thread reads the ledgers of generated/ ...
ReadLedgers(t) ==
  /\ t.read = None
  /\ threads' = (threads \ {t}) \cup {[t EXCEPT !.read = out]}
  /\ UNCHANGED <<src, out, inputs, lock, run, shell, watch, cache, generation, reports, notified,
                 moves, fails, disturbed, raced, crowded>>

\* ... and writes the reports; it tells the UI when no younger one was started.
WriteReports(t) ==
  /\ t.read # None
  /\ reports' = t.read
  /\ threads' = threads \ {t}
  /\ notified' = IF t.gen = generation THEN t.gen ELSE notified
  /\ UNCHANGED <<src, out, inputs, lock, run, shell, watch, cache, generation,
                 moves, fails, disturbed, raced, crowded>>

-----------------------------------------------------------------------------
(* The ledger cache.                                                       *)

\* Mutant of Clear: nothing is invalidated.
ClearNothing == UNCHANGED cache

Clear == cache' = [s \in Sets |-> None]
Fill(result) == cache' = IF result.early THEN [s \in Sets |-> None] ELSE result.got

\* get_or_load on a miss.  A hit changes nothing.
Load(s) ==
  /\ cache[s] = None
  /\ cache' = [cache EXCEPT ![s] = out[s]]
  /\ UNCHANGED <<src, out, inputs, lock, run, shell, watch, reporting, moves, fails, disturbed, raced, crowded>>

-----------------------------------------------------------------------------
(* A command, from the invocation to the response.                         *)

Suppress(h) == guards' = IF h.guard THEN guards + 1 ELSE guards

\* SuppressGuard is dropped on every way out of the handler.
Resume(h) == guards' = IF h.guard THEN guards - 1 ELSE guards

\* Mutant of Scope: every command names the folder it changed.
ScopeOwn(c) == {c.set}

Scope(c) == IF c.handler.hint THEN {c.set} ELSE Sets

Invoke(p, h, s) ==
  /\ Move /\ cmd[p] = Idle
  /\ cmd' = [cmd EXCEPT ![p] = [at |-> IF h.writes THEN "write" ELSE "run", handler |-> h, set |-> s]]
  /\ Suppress(h)
  /\ recent' = (recent \/ h.mark)
  /\ disturbed' = IF h.hint THEN disturbed \cup Unbuilt ELSE disturbed
  /\ UNCHANGED <<src, out, inputs, lock, run, watch, cache, reporting, fails, raced, crowded>>

WriteSources(p) ==
  /\ cmd[p].at = "write"
  /\ Change(cmd[p].set)
  /\ cmd' = [cmd EXCEPT ![p].at = "run"]
  /\ UNCHANGED <<out, inputs, lock, run, guards, recent, watcher, rx, cache, reporting, moves, fails,
                 disturbed, raced, crowded>>

BeginCommand(p) ==
  /\ cmd[p].at = "run" /\ cmd[p].handler.runs
  /\ Begin(p, Scope(cmd[p]))
  /\ cmd' = [cmd EXCEPT ![p].at = "running"]
  /\ UNCHANGED <<src, out, inputs, guards, recent, watch, cache, reporting, moves, fails, disturbed, raced, crowded>>

\* The response of a command that makes no run, or the error of one before its
\* run.  What the watcher let pass meanwhile stays unbuilt.
ReturnEarly(p) ==
  /\ \/ cmd[p].at = "run" /\ ~cmd[p].handler.runs /\ UNCHANGED fails
     \/ cmd[p].at \in {"write", "run"} /\ fails < MaxFails /\ fails' = fails + 1
  /\ cmd' = [cmd EXCEPT ![p] = Idle]
  /\ Resume(cmd[p].handler)
  /\ disturbed' = disturbed \cup Unbuilt
  /\ UNCHANGED <<src, out, inputs, lock, run, recent, watch, cache, reporting, moves, raced, crowded>>

FinishCommand(p) ==
  /\ cmd[p].at = "running"
  /\ \E got \in NextOut :
    /\ Finish(p, got, cmd[p].handler.cache = "keep")
    /\ cmd' = [cmd EXCEPT ![p] = [at |-> "respond", handler |-> cmd[p].handler, set |-> cmd[p].set,
                                  result |-> Result(got)]]
    /\ UNCHANGED <<src, guards, recent, watch, cache, reporting, moves, fails, crowded>>

FailCommand(p) ==
  /\ cmd[p].at = "running"
  /\ Fail(p)
  /\ cmd' = [cmd EXCEPT ![p] = Idle]
  /\ Resume(cmd[p].handler)
  /\ UNCHANGED <<src, out, inputs, recent, watch, cache, reporting, moves, raced, crowded>>

Respond(p) ==
  /\ cmd[p].at = "respond"
  /\ Spawn(cmd[p].result)
  /\ CASE cmd[p].handler.cache = "clear" -> Clear /\ raced' = IF Filling(p) THEN raced ELSE {}
       [] cmd[p].handler.cache = "fill" -> Fill(cmd[p].result) /\ UNCHANGED raced
       [] OTHER -> UNCHANGED <<cache, raced>>
  /\ Resume(cmd[p].handler)
  /\ cmd' = [cmd EXCEPT ![p] = Idle]
  /\ UNCHANGED <<src, out, inputs, lock, run, recent, watch, reports, notified, moves, fails, disturbed>>

\* 800 ms have passed since the last mark.
Expire ==
  /\ recent
  /\ recent' = FALSE
  /\ UNCHANGED <<src, out, inputs, lock, run, cmd, guards, watch, cache, reporting, moves, fails,
                 disturbed, raced, crowded>>

-----------------------------------------------------------------------------
(* The watcher thread.                                                     *)

Deliver ==
  /\ os
  /\ os' = FALSE /\ rx' = TRUE
  /\ UNCHANGED <<src, out, inputs, lock, run, shell, watcher, cache, reporting, moves, fails, disturbed, raced, crowded>>

Suppressed == guards > 0 \/ recent

\* recv_timeout returned an event, the thread slept 500 ms and drained the
\* channel: it lets the change pass when a command is at work or just was ...
Skip ==
  /\ watcher.at = "wait" /\ rx /\ Suppressed
  /\ rx' = FALSE
  /\ UNCHANGED <<src, out, inputs, lock, run, shell, watcher, os, cache, reporting, moves, fails,
                 disturbed, raced, crowded>>

\* ... and else decides to rebuild.
Wake ==
  /\ watcher.at = "wait" /\ rx /\ ~Suppressed
  /\ rx' = FALSE
  /\ watcher' = [at |-> "run"]
  /\ UNCHANGED <<src, out, inputs, lock, run, shell, os, cache, reporting, moves, fails, disturbed, raced, crowded>>

BeginWatcher ==
  /\ watcher.at = "run"
  /\ Begin(Watcher, Sets)
  /\ watcher' = [at |-> "running"]
  /\ UNCHANGED <<src, out, inputs, shell, os, rx, cache, reporting, moves, fails, disturbed, raced, crowded>>

FinishWatcher ==
  /\ watcher.at = "running"
  /\ \E got \in NextOut :
    /\ Finish(Watcher, got, FALSE)
    /\ watcher' = [at |-> "drain", result |-> Result(got)]
    /\ UNCHANGED <<src, shell, os, rx, cache, reporting, moves, fails, crowded>>

\* The events of the run's own writes are drained, with any others there are;
\* then the cache is filled unless the run exited early.
Publish ==
  /\ watcher.at = "drain"
  /\ rx' = FALSE
  /\ watcher' = Asleep
  /\ IF watcher.result.early
     THEN UNCHANGED <<cache, generation, threads, crowded>>
     ELSE Fill(watcher.result) /\ Spawn(watcher.result)
  /\ UNCHANGED <<src, out, inputs, lock, run, shell, os, reports, notified, moves, fails, disturbed, raced>>

FailWatcher ==
  /\ watcher.at = "running"
  /\ Fail(Watcher)
  /\ rx' = FALSE /\ watcher' = Asleep
  /\ UNCHANGED <<src, out, inputs, shell, os, cache, reporting, moves, raced, crowded>>

-----------------------------------------------------------------------------
WatcherStep ==
  Deliver \/ Skip \/ Wake \/ BeginWatcher \/ FinishWatcher \/ Publish \/ FailWatcher

CommandStep(p) ==
  WriteSources(p) \/ ReturnEarly(p) \/ BeginCommand(p) \/ FinishCommand(p) \/ FailCommand(p) \/ Respond(p)

ReportStep == \E t \in threads : ReadLedgers(t) \/ WriteReports(t)

Next ==
  \/ \E s \in Sets : Edit(s) \/ Load(s)
  \/ \E p \in Clients :
       CommandStep(p) \/ \E h \in Handlers, s \in Sets : Invoke(p, h, s)
  \/ Expire
  \/ WatcherStep
  \/ ReportStep

\* The operating system runs every thread, and the lock reaches whoever waits.
Fairness ==
  /\ WF_vars(Expire)
  /\ WF_vars(WatcherStep) /\ SF_vars(BeginWatcher)
  /\ WF_vars(ReportStep)
  /\ \A p \in Clients : WF_vars(CommandStep(p)) /\ SF_vars(BeginCommand(p))

Spec == Init /\ [][Next]_vars /\ Fairness

-----------------------------------------------------------------------------
(* Properties.                                                             *)

Versions == 0 .. MaxMoves
Results == [early : BOOLEAN, got : [Sets -> Versions], wrote : BOOLEAN]

\* The type invariant.  Every guard taken by a command in flight is counted,
\* and only those: an early return cannot leave the watcher suppressed.
TypeOK ==
  /\ src \in [Sets -> Versions] /\ out \in [Sets -> Versions]
  /\ inputs \in [Sets -> Versions] \cup {None}
  /\ lock \in Clients \cup {Watcher, None}
  /\ \A p \in Clients :
       \/ cmd[p] = Idle
       \/ cmd[p] \in [at : {"write", "run", "running"}, handler : Handlers, set : Sets]
       \/ cmd[p] \in [at : {"respond"}, handler : Handlers, set : Sets, result : Results]
  /\ guards = Cardinality({p \in Clients : cmd[p] # Idle /\ cmd[p].handler.guard})
  /\ watcher \in [at : {"wait", "run", "running"}] \cup [at : {"drain"}, result : Results]
  /\ cache \in [Sets -> Versions \cup {None}] /\ reports \in [Sets -> Versions]
  /\ notified \in 0 .. generation

InFlight == {p \in Clients : cmd[p] # Idle}
Quiet == InFlight = {} /\ watcher = Asleep /\ ~os /\ ~rx

\* A change under sources/ during which no command and no rebuild was at work
\* is in generated/ once everything is at rest, when no command that ended
\* without a run of its own came between: the runs of the commands make up for
\* the events they suppress (start_file_watcher), and no run loses the change by
\* being scoped or exiting early.
CalmEditsAreBuilt == Quiet => Unbuilt \subseteq disturbed

\* The claim of README.md:42, "a file watcher on sources/ recompiles
\* automatically whenever a file changes": every change that no failing run
\* concerned is in generated/ once everything is at rest.
EveryEditIsBuilt == Quiet /\ fails = 0 => Unbuilt = {}

\* With no answer under way, a cached ledger is the one on disk, except where a
\* command that leaves the cache alone, or a run that ended while another held
\* a result to fill it with, got in between (LedgerCache).
CacheIsCurrent ==
  (\A p \in InFlight : cmd[p].at # "respond") /\ watcher.at # "drain"
    => \A s \in Sets \ raced : cache[s] \in {None, out[s]}

\* At rest the reports are those of the ledgers on disk, unless two report
\* threads were at work at once (spawn_report_generation).
ReportsAreCurrent == Quiet /\ threads = {} /\ ~crowded => reports = out

\* The UI is told of the reports of the last rebuild that wrote something, even
\* when an older thread ends after the younger one.
LastReportsAnnounced == threads = {} => notified = generation

\* Once the edits stop everything comes to rest: no command waits for the lock
\* for ever, and no event keeps the watcher rebuilding its own changes.
EventuallyQuiet == <>[]Quiet
====
