---------------------------- MODULE RebuildProofs ----------------------------
(***************************************************************************)
(* What the shell promises around run_pipeline, for any account sets, any  *)
(* number of commands in flight, of edits and of failing runs.             *)
(*                                                                         *)
(* The four properties speak of moments of rest, so each one needs what    *)
(* holds between them: who has yet to build an unbuilt set (EditsOK), who  *)
(* has yet to put a stale cache right (CacheOK, FillersOK), which thread   *)
(* has yet to write stale reports (ReportsOK) and which one has yet to     *)
(* announce them (AnnouncedOK).  They rest on two facts of the lock: what  *)
(* a run compiles lies between generated/ and sources/, and inputs_hash is *)
(* never ahead of generated/, so that an early exit loses nothing (RunOK). *)
(***************************************************************************)
EXTENDS Rebuild, FiniteSetTheorems, TLAPS

Numbers == [Sets -> Nat]
AnyResults == [early : BOOLEAN, got : Numbers, wrote : BOOLEAN]
Commands ==
  {Idle} \cup [at : {"write", "run", "running"}, handler : Handlers, set : Sets]
         \cup [at : {"respond"}, handler : Handlers, set : Sets, result : AnyResults]
WatcherStates ==
  [at : {"wait", "run", "running"}] \cup [at : {"drain"}, result : AnyResults]

TypeInv ==
  /\ src \in Numbers /\ out \in Numbers /\ reports \in Numbers
  /\ inputs \in Numbers \cup {None}
  /\ cmd \in [Clients -> Commands]
  /\ watcher \in WatcherStates
  /\ cache \in [Sets -> Nat \cup {None}]
  /\ generation \in Nat
  /\ threads \subseteq [gen : Nat, read : Numbers \cup {None}]

\* The guards taken are those of the commands in flight.
Guarding == {p \in Clients : cmd[p] # Idle /\ cmd[p].handler.guard}
GuardsOK == guards = Cardinality(Guarding)

\* The lock is held by whoever is running.
LockOK ==
  /\ lock \in Clients \cup {Watcher, None}
  /\ \A p \in Clients : cmd[p].at = "running" <=> lock = p
  /\ watcher.at = "running" <=> lock = Watcher

\* generated/ is not ahead of the run under way, nor that of sources/, nor the
\* fingerprint of the last full run of generated/.
RunOK ==
  /\ \A s \in Sets : out[s] <= src[s]
  /\ inputs # None => \A s \in Sets : inputs[s] <= out[s]
  /\ lock # None =>
       /\ run \in [of : {lock}, scope : {Sets} \cup {{s} : s \in Sets}, began : Numbers]
       /\ \A s \in Sets : out[s] <= run.began[s] /\ run.began[s] <= src[s]

\* Someone will compile what is in s now: a command before its run, the run
\* under way, or the watcher that has decided to.
WillBuild(s) ==
  \/ \E p \in Clients : cmd[p].at \in {"write", "run"} /\ s \in Scope(cmd[p])
  \/ lock # None /\ s \in run.scope /\ run.began[s] = src[s]
  \/ watcher.at = "run"

\* An event is pending that nothing lets pass.
Calm == ~recent /\ InFlight = {} /\ watcher.at = "wait" /\ (os \/ rx)

EditsOK == \A s \in Unbuilt \ disturbed : WillBuild(s) \/ Calm

\* Whoever has a result to put into the cache has the one in generated/.
Filler(p) == cmd[p].at = "respond" /\ cmd[p].handler.cache = "fill"
Publishing == watcher.at = "drain" /\ ~watcher.result.early

FillersOK ==
  /\ Publishing => \A s \in Sets \ raced : watcher.result.got[s] = out[s]
  /\ \A p \in Clients : Filler(p) /\ ~cmd[p].result.early =>
        \A s \in Sets \ raced : cmd[p].result.got[s] = out[s]

\* An answer that clears or fills the cache is under way.
Owed ==
  \/ Publishing
  \/ \E p \in Clients : cmd[p].at = "respond" /\ cmd[p].handler.cache # "keep"

CacheOK == ~Owed => \A s \in Sets \ raced : cache[s] \in {None, out[s]}

\* A run that exited early wrote nothing, so the watcher may skip its reports.
ResultsOK ==
  /\ \A p \in Clients : cmd[p].at = "respond" /\ cmd[p].result.early => ~cmd[p].result.wrote
  /\ watcher.at = "drain" /\ watcher.result.early => ~watcher.result.wrote

\* An answer that will start a report thread is under way.
Wrote ==
  \/ \E p \in Clients : cmd[p].at = "respond" /\ cmd[p].result.wrote
  \/ watcher.at = "drain" /\ watcher.result.wrote

ReportsOK ==
  ~crowded /\ ~Wrote =>
    \/ threads = {} /\ reports = out
    \/ \E t \in threads : threads = {t} /\ t.read \in {None, out}

AloneOK == ~crowded => \A t, u \in threads : t = u

\* The youngest thread is at work, or it has announced its reports.
AnnouncedOK == notified = generation \/ \E t \in threads : t.gen = generation

\* Nothing holds a version that sources/ never had.
Old(f) == \A s \in Sets : f[s] <= src[s]

ResultsOld ==
  /\ \A p \in Clients : cmd[p].at = "respond" => Old(cmd[p].result.got)
  /\ watcher.at = "drain" => Old(watcher.result.got)
CacheOld == \A s \in Sets : cache[s] = None \/ cache[s] <= src[s]
ReportsOld ==
  /\ Old(reports)
  /\ \A t \in threads : t.read = None \/ Old(t.read)
GenerationsOK ==
  /\ notified \in Nat /\ notified <= generation
  /\ \A t \in threads : t.gen <= generation

\* Every version is a move, of the user or of a command that has yet to write.
Writers(s) == {p \in Clients : cmd[p].at = "write" /\ cmd[p].set = s}
CountOK ==
  /\ moves \in Nat /\ moves <= MaxMoves
  /\ \A s \in Sets : src[s] + Cardinality(Writers(s)) <= moves

IInv ==
  /\ TypeInv /\ GuardsOK /\ LockOK /\ RunOK
  /\ EditsOK
  /\ FillersOK /\ CacheOK
  /\ ResultsOK /\ ReportsOK /\ AloneOK /\ AnnouncedOK
  /\ ResultsOld /\ CacheOld /\ ReportsOld /\ GenerationsOK /\ CountOK

-----------------------------------------------------------------------------
(* The values the variables take.                                          *)
USE DEF AnyResults

Records == [guard : BOOLEAN, mark : BOOLEAN, writes : BOOLEAN, runs : BOOLEAN, hint : BOOLEAN,
            cache : {"clear", "keep", "fill"}]

\* Every command is one of the records Handler makes.
LEMMA HandlerRecords == \A h \in Handlers : h \in Records
<1>1. \A g, m, w, h \in BOOLEAN, c \in {"clear", "keep", "fill"} : Handler(g, m, w, h, c) \in Records
  BY DEF Handler, Records
<1>2. \A w \in BOOLEAN : GuardOnly(w) \in Records
  BY DEF GuardOnly, Handler, Records
<1>3. \A h \in AllHandlers :
         \/ \E g, m, w, i \in BOOLEAN, c \in {"clear", "keep", "fill"} : h = Handler(g, m, w, i, c)
         \/ \E w \in BOOLEAN : h = GuardOnly(w)
  BY DEF AllHandlers, rebuild_pipeline, add_manual_transaction,
    delete_manual_transaction, import_csv_to_account, import_csv_files_to_account,
    save_transform_and_rebuild, add_account_declaration, rename_account_folder,
    delete_account_folder, process_imports, import_rules_csv, save_trade_link,
    save_trade_links_bulk, delete_trade_link, hide_transaction, save_rule, save_label,
    update_rule, delete_rule, run_plugin, run_daily_plugins, run_daily_plugins_none_due, set_price
<1> QED
  BY <1>1, <1>2, <1>3, HandlersAssumption

\* The fields of a result (PipelineOutput).
LEMMA ResultShape ==
  ASSUME NEW got \in Numbers
  PROVE  /\ Result(got) \in AnyResults
         /\ Result(got).got = got
         /\ Result(got).wrote <=> got # out
         /\ Result(got).early <=> UpToDate
<1>1. /\ UpToDate \in BOOLEAN
      /\ (got # out) \in BOOLEAN
  BY DEF UpToDate
<1>2. \A e, w \in BOOLEAN : LET r == [early |-> e, got |-> got, wrote |-> w]
        IN r \in AnyResults /\ r.got = got /\ r.wrote = w /\ r.early = e
  OBVIOUS
<1> QED
  BY <1>1, <1>2, Zenon DEF Result

\* A command in flight is what its stage says.
LEMMA CommandShapes ==
  ASSUME TypeInv, NEW p \in Clients
  PROVE  /\ cmd[p] = Idle <=> cmd[p].at = "idle"
         /\ cmd[p].at \in {"idle", "write", "run", "running", "respond"}
         /\ cmd[p].at \in {"write", "run", "running"} =>
              /\ cmd[p] = [at |-> cmd[p].at, handler |-> cmd[p].handler, set |-> cmd[p].set]
         /\ cmd[p].at # "idle" => cmd[p].handler \in Handlers /\ cmd[p].set \in Sets
         /\ cmd[p].at = "respond" =>
               cmd[p].result \in AnyResults
BY DEF TypeInv, Commands, Idle

\* So is the watcher.
LEMMA WatcherShapes ==
  ASSUME TypeInv
  PROVE  /\ watcher.at \in {"wait", "run", "running", "drain"}
         /\ watcher = Asleep <=> watcher.at = "wait"
         /\ watcher.at = "drain" =>
               watcher.result \in AnyResults
BY DEF TypeInv, WatcherStates, Asleep

\* What a run leaves in generated/: no set goes back, the sets of its scope are at
\* least what they were when the run began, and a run that exits early leaves
\* everything as it was.
LEMMA GotShape ==
  ASSUME TypeInv, RunOK, lock # None, NEW got \in NextOut
  PROVE  /\ got \in Numbers
         /\ \A s \in Sets : out[s] <= got[s] /\ got[s] <= src[s]
         /\ \A s \in run.scope : run.began[s] <= got[s]
         /\ Result(got) \in AnyResults
         /\ Result(got).got = got
         /\ Result(got).wrote <=> got # out
         /\ Result(got).early <=> UpToDate
         /\ Result(got).early => got = out
<1>1. /\ src \in Numbers /\ out \in Numbers /\ inputs \in Numbers \cup {None}
      /\ run.began \in Numbers /\ run.scope \subseteq Sets
      /\ \A s \in Sets : out[s] <= run.began[s] /\ run.began[s] <= src[s]
  BY DEF TypeInv, RunOK
<1>2. CASE UpToDate
  <2>1. got = out
    BY <1>2 DEF NextOut
  <2>2. inputs = run.began /\ inputs # None
    BY <1>1, <1>2, RebuildAssumption DEF UpToDate, Numbers
  <2>3. \A s \in Sets : run.began[s] <= got[s]
    BY <2>1, <2>2 DEF RunOK
  <2> QED
    <3>1. got \in Numbers /\ \A s \in Sets : out[s] <= got[s] /\ got[s] <= src[s]
      BY <1>1, <2>1 DEF Numbers, RunOK
    <3> QED
      BY <1>1, <1>2, <2>1, <2>3, <3>1, ResultShape
<1>3. CASE ~UpToDate
  <2>1. got \in Compiled
    BY <1>3 DEF NextOut
  <2>2. \A s \in Sets : IF s \in run.scope THEN got[s] \in run.began[s] .. src[s] ELSE got[s] = out[s]
    BY <2>1 DEF Compiled
  <2>3. \A s \in Sets : got[s] \in Nat /\ out[s] <= got[s] /\ got[s] <= src[s]
    BY <1>1, <2>2 DEF Numbers
  <2>4. \A s \in run.scope : run.began[s] <= got[s]
    BY <1>1, <2>2 DEF Numbers
  <2>5. got \in Numbers
    BY <2>1, <2>3 DEF Compiled, Numbers
  <2> QED
    BY <1>3, <2>3, <2>4, <2>5, ResultShape
<1> QED
  BY <1>2, <1>3

\* What each step of a client does to the commands in flight.  A command is
\* invoked by an idle client ...
LEMMA InvokeEffects ==
  ASSUME TypeInv, NEW p \in Clients, NEW h \in Handlers, NEW s \in Sets, Invoke(p, h, s)
  PROVE  /\ cmd[p] = Idle /\ cmd[p].at = "idle"
         /\ cmd'[p].at \in {"write", "run"} /\ cmd'[p] # Idle
         /\ cmd'[p].handler = h /\ cmd'[p].set = s
         /\ \A q \in Clients \ {p} : cmd'[q] = cmd[q]
<1>1. /\ cmd[p] = Idle
      /\ cmd' = [cmd EXCEPT ![p] = [at |-> IF h.writes THEN "write" ELSE "run", handler |-> h, set |-> s]]
  BY DEF Invoke
<1> QED
  BY <1>1 DEF TypeInv, Idle

\* ... it writes its files ...
LEMMA WriteEffects ==
  ASSUME TypeInv, NEW p \in Clients, WriteSources(p)
  PROVE  /\ cmd[p].at = "write" /\ cmd'[p].at = "run" /\ cmd[p] # Idle /\ cmd'[p] # Idle
         /\ cmd[p].set \in Sets
         /\ cmd'[p].handler = cmd[p].handler /\ cmd'[p].set = cmd[p].set
         /\ \A q \in Clients \ {p} : cmd'[q] = cmd[q]
<1>1. cmd[p].at = "write" /\ cmd' = [cmd EXCEPT ![p].at = "run"]
  BY DEF WriteSources
<1>2. cmd[p] = [at |-> "write", handler |-> cmd[p].handler, set |-> cmd[p].set] /\ cmd[p].set \in Sets
  BY <1>1, CommandShapes
<1> QED
  BY <1>1, <1>2 DEF TypeInv, Idle

\* ... it takes the lock ...
LEMMA BeginEffects ==
  ASSUME TypeInv, NEW p \in Clients, BeginCommand(p)
  PROVE  /\ cmd[p].at = "run" /\ cmd'[p].at = "running" /\ cmd[p] # Idle /\ cmd'[p] # Idle
         /\ cmd'[p].handler = cmd[p].handler /\ cmd'[p].set = cmd[p].set
         /\ \A q \in Clients \ {p} : cmd'[q] = cmd[q]
<1>1. cmd[p].at = "run" /\ cmd' = [cmd EXCEPT ![p].at = "running"]
  BY DEF BeginCommand
<1>2. cmd[p] = [at |-> "run", handler |-> cmd[p].handler, set |-> cmd[p].set]
  BY <1>1, CommandShapes
<1> QED
  BY <1>1, <1>2 DEF TypeInv, Idle

\* ... and the client is idle after the error or the response.
LEMMA EndEffects ==
  ASSUME TypeInv, NEW p \in Clients, FailCommand(p) \/ Respond(p)
  PROVE  /\ cmd[p].at \in {"running", "respond"} /\ cmd[p] # Idle
         /\ cmd'[p] = Idle /\ cmd'[p].at = "idle"
         /\ \A q \in Clients \ {p} : cmd'[q] = cmd[q]
<1>1. cmd[p].at \in {"running", "respond"} /\ cmd' = [cmd EXCEPT ![p] = Idle]
  BY DEF FailCommand, Respond
<1> QED
  BY <1>1 DEF TypeInv, Idle

\* So it is when the command returns without a run.
LEMMA ReturnEffects ==
  ASSUME TypeInv, NEW p \in Clients, ReturnEarly(p)
  PROVE  /\ cmd[p].at \in {"write", "run"} /\ cmd[p] # Idle
         /\ cmd'[p] = Idle /\ cmd'[p].at = "idle"
         /\ \A q \in Clients \ {p} : cmd'[q] = cmd[q]
<1>1. cmd[p].at \in {"write", "run"} /\ cmd' = [cmd EXCEPT ![p] = Idle]
  BY DEF ReturnEarly
<1> QED
  BY <1>1 DEF TypeInv, Idle

\* Every step keeps the types.
LEMMA TypeStep == ASSUME TypeInv, LockOK, RunOK, Next PROVE TypeInv'
<1> USE DEF Numbers
<1>1. ASSUME NEW s \in Sets, Edit(s) PROVE TypeInv'
  BY <1>1 DEF Edit, Change, TypeInv, shell, reporting
<1>2. ASSUME NEW s \in Sets, Load(s) PROVE TypeInv'
  BY <1>2 DEF Load, TypeInv, shell, watch, reporting
<1>3. ASSUME NEW p \in Clients, NEW h \in Handlers, NEW s \in Sets, Invoke(p, h, s) PROVE TypeInv'
  BY <1>3, InvokeEffects DEF Invoke, TypeInv, watch, reporting, Commands
<1>4. ASSUME NEW p \in Clients, CommandStep(p) PROVE TypeInv'
  <2>1. DOMAIN cmd' = Clients
    BY <1>4 DEF TypeInv, CommandStep, WriteSources, ReturnEarly, BeginCommand, FinishCommand,
       FailCommand, Respond
  <2>2. CASE WriteSources(p)
    <3>1. cmd' \in [Clients -> Commands]
      BY <2>1, <2>2, CommandShapes DEF WriteSources, TypeInv, Commands
    <3>2. src' \in Numbers
      BY <2>2, CommandShapes DEF WriteSources, Change, TypeInv
    <3> QED
      BY <2>2, <3>1, <3>2 DEF WriteSources, TypeInv, reporting
  <2>3. CASE BeginCommand(p)
    <3>1. cmd' \in [Clients -> Commands]
      BY <2>1, <2>3, CommandShapes DEF BeginCommand, TypeInv, Commands
    <3> QED
      BY <2>3, <3>1 DEF BeginCommand, TypeInv, reporting, watch
  <2>4. CASE FinishCommand(p)
    <3>1. PICK got \in NextOut :
            /\ Finish(p, got, cmd[p].handler.cache = "keep")
            /\ cmd' = [cmd EXCEPT ![p] = [at |-> "respond", handler |-> cmd[p].handler,
                                          set |-> cmd[p].set, result |-> Result(got)]]
            /\ UNCHANGED <<src, guards, recent, watch, cache, reporting, moves, fails, crowded>>
      BY <2>4 DEF FinishCommand
    <3>2. lock # None /\ lock = p
      BY <3>1, RebuildAssumption DEF Finish
    <3>3. got \in Numbers /\ Result(got) \in AnyResults
      BY <3>2, GotShape
    <3>4. cmd' \in [Clients -> Commands]
      BY <2>1, <2>4, <3>1, <3>3, CommandShapes DEF FinishCommand, TypeInv, Commands
    <3>5. out' = got /\ inputs' \in Numbers \cup {None}
      BY <3>1, <3>2 DEF Finish, RunOK, TypeInv
    <3> QED
      BY <3>1, <3>3, <3>4, <3>5 DEF TypeInv, reporting, watch
  <2>5. CASE FailCommand(p)
    <3>1. cmd' \in [Clients -> Commands]
      BY <2>1, <2>5 DEF FailCommand, TypeInv, Commands
    <3> QED
      BY <2>5, <3>1 DEF FailCommand, Fail, TypeInv, reporting, watch
  <2>6. CASE Respond(p)
    <3>1. cmd' \in [Clients -> Commands]
      BY <2>1, <2>6 DEF Respond, TypeInv, Commands
    <3>2. generation' \in Nat /\ threads' \subseteq [gen : Nat, read : Numbers \cup {None}]
      BY <2>6 DEF Respond, Spawn, TypeInv
    <3>3. cache' \in [Sets -> Nat \cup {None}]
      BY <2>6, CommandShapes DEF Respond, Clear, Fill, TypeInv
    <3> QED
      BY <2>6, <3>1, <3>2, <3>3 DEF Respond, TypeInv, watch
  <2>7. CASE ReturnEarly(p)
    <3>1. cmd' \in [Clients -> Commands]
      BY <2>1, <2>7 DEF ReturnEarly, TypeInv, Commands
    <3> QED
      BY <2>7, <3>1 DEF ReturnEarly, TypeInv, reporting, watch
  <2> QED
    BY <1>4, <2>2, <2>3, <2>4, <2>5, <2>6, <2>7 DEF CommandStep
<1>5. CASE Expire
  BY <1>5 DEF Expire, TypeInv, watch, reporting
<1>6. CASE Deliver \/ Skip
  BY <1>6 DEF Deliver, Skip, TypeInv, shell, reporting
<1>7. CASE Wake \/ BeginWatcher
  BY <1>7 DEF Wake, BeginWatcher, TypeInv, shell, reporting, WatcherStates
<1>8. CASE FinishWatcher
  <2>1. PICK got \in NextOut :
          /\ Finish(Watcher, got, FALSE)
          /\ watcher' = [at |-> "drain", result |-> Result(got)]
          /\ UNCHANGED <<src, shell, os, rx, cache, reporting, moves, fails, crowded>>
    BY <1>8 DEF FinishWatcher
  <2>2. lock # None /\ lock = Watcher
    BY <2>1, RebuildAssumption DEF Finish
  <2>3. got \in Numbers /\ Result(got) \in AnyResults
    BY <2>2, GotShape
  <2>4. out' = got /\ inputs' \in Numbers \cup {None}
    BY <2>1, <2>2 DEF Finish, RunOK, TypeInv
  <2> QED
    BY <2>1, <2>3, <2>4 DEF TypeInv, reporting, shell, WatcherStates
<1>9. CASE Publish
  <2>1. generation' \in Nat /\ threads' \subseteq [gen : Nat, read : Numbers \cup {None}]
    BY <1>9 DEF Publish, Spawn, TypeInv
  <2>2. cache' \in [Sets -> Nat \cup {None}]
    BY <1>9, WatcherShapes DEF Publish, Fill, TypeInv
  <2> QED
    BY <1>9, <2>1, <2>2 DEF Publish, TypeInv, shell, WatcherStates, Asleep
<1>10. CASE FailWatcher
  BY <1>10 DEF FailWatcher, Fail, TypeInv, shell, reporting, WatcherStates, Asleep
<1>11. CASE ReportStep
  BY <1>11 DEF ReportStep, ReadLedgers, WriteReports, TypeInv, shell, watch
<1> QED
  BY <1>1, <1>2, <1>3, <1>4, <1>5, <1>6, <1>7, <1>8, <1>9, <1>10, <1>11 DEF Next, WatcherStep

\* A run of a command ends well, with got in generated/ ...
LEMMA FinishCommandEffects ==
  ASSUME TypeInv, LockOK, RunOK, NEW p \in Clients, FinishCommand(p)
  PROVE  /\ lock = p /\ cmd[p].at = "running" /\ cmd'[p].at = "respond"
         /\ cmd'[p].handler = cmd[p].handler /\ cmd'[p].set = cmd[p].set
         /\ \E got \in Numbers :
              /\ Finish(p, got, cmd[p].handler.cache = "keep")
              /\ cmd'[p].result = Result(got)
              /\ \A s \in Sets : out[s] <= got[s] /\ got[s] <= src[s]
              /\ \A s \in run.scope : run.began[s] <= got[s]
              /\ Result(got) \in AnyResults
              /\ Result(got).got = got
              /\ Result(got).wrote <=> got # out
              /\ Result(got).early => got = out
         /\ cmd[p] # Idle /\ cmd'[p] # Idle
         /\ \A q \in Clients \ {p} : cmd'[q] = cmd[q]
         /\ UNCHANGED <<src, guards, recent, watch, cache, reporting, moves, fails, crowded>>
<1>1. PICK got \in NextOut :
        /\ Finish(p, got, cmd[p].handler.cache = "keep")
        /\ cmd' = [cmd EXCEPT ![p] = [at |-> "respond", handler |-> cmd[p].handler,
                                      set |-> cmd[p].set, result |-> Result(got)]]
        /\ UNCHANGED <<src, guards, recent, watch, cache, reporting, moves, fails, crowded>>
  BY DEF FinishCommand
<1>2. lock = p /\ lock # None
  BY <1>1, RebuildAssumption DEF Finish
<1>3. cmd[p].at = "running"
  BY DEF FinishCommand
<1>4. cmd'[p] = [at |-> "respond", handler |-> cmd[p].handler, set |-> cmd[p].set,
                result |-> Result(got)]
  BY <1>1 DEF TypeInv
<1>5. /\ cmd[p] # Idle /\ cmd'[p] # Idle /\ \A q \in Clients \ {p} : cmd'[q] = cmd[q]
      /\ cmd'[p].at = "respond" /\ cmd'[p].handler = cmd[p].handler /\ cmd'[p].set = cmd[p].set
      /\ cmd'[p].result = Result(got)
  BY <1>1, <1>3, <1>4 DEF TypeInv, Idle
<1> QED
  BY <1>1, <1>2, <1>3, <1>5, GotShape

\* ... or one of the watcher.
LEMMA FinishWatcherEffects ==
  ASSUME TypeInv, LockOK, RunOK, FinishWatcher
  PROVE  /\ lock = Watcher /\ watcher.at = "running"
         /\ \E got \in Numbers :
              /\ Finish(Watcher, got, FALSE)
              /\ watcher' = [at |-> "drain", result |-> Result(got)]
              /\ \A s \in Sets : out[s] <= got[s] /\ got[s] <= src[s]
              /\ \A s \in run.scope : run.began[s] <= got[s]
              /\ Result(got) \in AnyResults
              /\ Result(got).got = got
              /\ Result(got).wrote <=> got # out
              /\ Result(got).early => got = out
         /\ UNCHANGED <<src, shell, os, rx, cache, reporting, moves, fails, crowded>>
<1>1. PICK got \in NextOut :
        /\ Finish(Watcher, got, FALSE)
        /\ watcher' = [at |-> "drain", result |-> Result(got)]
        /\ UNCHANGED <<src, shell, os, rx, cache, reporting, moves, fails, crowded>>
  BY DEF FinishWatcher
<1>2. lock = Watcher /\ lock # None
  BY <1>1, RebuildAssumption DEF Finish
<1>3. watcher.at = "running"
  BY DEF FinishWatcher
<1> QED
  BY <1>1, <1>2, <1>3, GotShape

-----------------------------------------------------------------------------
\* A guard is taken when a guarded command is invoked, and dropped on each of its
\* two ways out (SuppressGuard).
LEMMA GuardsStep == ASSUME TypeInv, LockOK, RunOK, GuardsOK, Next PROVE GuardsOK'
<1>1. IsFiniteSet(Guarding) /\ guards = Cardinality(Guarding) /\ guards \in Nat
  <2>1. Guarding \in SUBSET Clients /\ IsFiniteSet(Clients)
    BY RebuildAssumption DEF Guarding
  <2> QED
    BY <2>1, FS_Subset, FS_CardinalityType DEF GuardsOK
<1>2. ASSUME NEW p \in Clients, NEW h \in Handlers, NEW s \in Sets, Invoke(p, h, s) PROVE GuardsOK'
  <2>1. Guarding' = IF h.guard THEN Guarding \cup {p} ELSE Guarding
    <3>1. cmd'[p] # Idle /\ cmd'[p].handler = h /\ cmd[p] = Idle
      BY <1>2, InvokeEffects
    <3>2. \A q \in Clients \ {p} : cmd'[q] = cmd[q]
      BY <1>2, InvokeEffects
    <3> QED
      BY <3>1, <3>2 DEF Guarding
  <2>2. p \notin Guarding
    BY <1>2, InvokeEffects DEF Guarding
  <2>3. guards' = IF h.guard THEN guards + 1 ELSE guards
    BY <1>2 DEF Invoke, Suppress
  <2> QED
    BY <1>1, <2>1, <2>2, <2>3, FS_AddElement DEF GuardsOK
<1>3. ASSUME NEW p \in Clients, WriteSources(p) \/ BeginCommand(p) \/ FinishCommand(p) PROVE GuardsOK'
  <2>1. Guarding' = Guarding
    <3>1. cmd[p] # Idle /\ cmd'[p] # Idle /\ cmd'[p].handler = cmd[p].handler
      BY <1>3, WriteEffects, BeginEffects, FinishCommandEffects
    <3>2. \A q \in Clients \ {p} : cmd'[q] = cmd[q]
      BY <1>3, WriteEffects, BeginEffects, FinishCommandEffects
    <3> QED
      BY <3>1, <3>2 DEF Guarding
  <2>2. guards' = guards
    BY <1>3, FinishCommandEffects DEF WriteSources, BeginCommand
  <2> QED
    BY <1>1, <2>1, <2>2 DEF GuardsOK
<1>4. ASSUME NEW p \in Clients, FailCommand(p) \/ Respond(p) \/ ReturnEarly(p) PROVE GuardsOK'
  <2>1. Guarding' = Guarding \ {p}
    BY <1>4, EndEffects, ReturnEffects DEF Guarding
  <2>2. p \in Guarding <=> cmd[p].handler.guard
    BY <1>4, EndEffects, ReturnEffects DEF Guarding
  <2>3. guards' = IF cmd[p].handler.guard THEN guards - 1 ELSE guards
    BY <1>4 DEF FailCommand, Respond, ReturnEarly, Resume
  <2> QED
    BY <1>1, <2>1, <2>2, <2>3, FS_RemoveElement DEF GuardsOK
<1>5. ASSUME UNCHANGED <<cmd, guards>> PROVE GuardsOK'
  BY <1>5 DEF GuardsOK, Guarding
<1>6. ASSUME NEW s \in Sets, Edit(s) \/ Load(s) PROVE UNCHANGED <<cmd, guards>>
  BY <1>6 DEF Edit, Load, shell
<1>7. CASE Expire
  BY <1>5, <1>7 DEF Expire
<1>8. CASE WatcherStep
  BY <1>5, <1>8 DEF WatcherStep, Deliver, Skip, Wake, BeginWatcher, FinishWatcher, Publish, FailWatcher, shell
<1>9. CASE ReportStep
  BY <1>5, <1>9 DEF ReportStep, ReadLedgers, WriteReports, shell
<1> QED
  BY <1>2, <1>3, <1>4, <1>5, <1>6, <1>7, <1>8, <1>9 DEF Next, CommandStep

\* The lock is taken by Begin and dropped by Finish and Fail (PIPELINE_LOCK).
LEMMA LockStep == ASSUME TypeInv, LockOK, RunOK, Next PROVE LockOK'
<1>1. ASSUME UNCHANGED <<lock, watcher>>, NEW p \in Clients,
             \A q \in Clients \ {p} : cmd'[q] = cmd[q],
             cmd[p].at # "running", cmd'[p].at # "running"
      PROVE  LockOK'
  BY <1>1 DEF LockOK
<1>2. ASSUME NEW p \in Clients, NEW h \in Handlers, NEW s \in Sets, Invoke(p, h, s) PROVE LockOK'
  <2>1. UNCHANGED <<lock, watcher>>
    BY <1>2 DEF Invoke, watch
  <2> QED
    BY <1>1, <1>2, <2>1, InvokeEffects
<1>3. ASSUME NEW p \in Clients, WriteSources(p) PROVE LockOK'
  <2>1. UNCHANGED <<lock, watcher>>
    BY <1>3 DEF WriteSources
  <2> QED
    BY <1>1, <1>3, <2>1, WriteEffects
<1>15. ASSUME NEW p \in Clients, ReturnEarly(p) PROVE LockOK'
  <2>1. UNCHANGED <<lock, watcher>>
    BY <1>15 DEF ReturnEarly, watch
  <2> QED
    BY <1>1, <1>15, <2>1, ReturnEffects
<1>4. ASSUME NEW p \in Clients, BeginCommand(p) PROVE LockOK'
  <2>1. lock = None /\ lock' = p /\ watcher' = watcher
    BY <1>4 DEF BeginCommand, Begin, watch
  <2> QED
    BY <1>4, <2>1, BeginEffects, RebuildAssumption DEF LockOK
<1>5. ASSUME NEW p \in Clients, FinishCommand(p) PROVE LockOK'
  <2>1. lock = p /\ lock' = None /\ watcher' = watcher
    BY <1>5, FinishCommandEffects DEF Finish, watch
  <2> QED
    BY <1>5, <2>1, FinishCommandEffects, RebuildAssumption DEF LockOK
<1>6. ASSUME NEW p \in Clients, FailCommand(p) PROVE LockOK'
  <2>1. lock = p /\ lock' = None /\ watcher' = watcher
    BY <1>6 DEF FailCommand, Fail, watch
  <2> QED
    BY <1>6, <2>1, EndEffects, RebuildAssumption DEF LockOK
<1>7. ASSUME NEW p \in Clients, Respond(p) PROVE LockOK'
  <2>1. UNCHANGED <<lock, watcher>> /\ cmd[p].at = "respond"
    BY <1>7 DEF Respond, watch
  <2> QED
    BY <1>1, <1>7, <2>1, EndEffects
<1>8. ASSUME UNCHANGED <<lock, cmd>>, watcher.at # "running", watcher'.at # "running"
      PROVE  LockOK'
  BY <1>8 DEF LockOK
<1>9. CASE Wake \/ Publish
  BY <1>8, <1>9 DEF Wake, Publish, shell, Asleep
<1>10. CASE BeginWatcher
  <2>1. lock = None /\ lock' = Watcher /\ cmd' = cmd /\ watcher'.at = "running"
    BY <1>10 DEF BeginWatcher, Begin, shell
  <2> QED
    BY <2>1, RebuildAssumption DEF LockOK
<1>11. CASE FinishWatcher \/ FailWatcher
  <2>1. lock = Watcher /\ lock' = None /\ cmd' = cmd /\ watcher'.at # "running"
    BY <1>11, FinishWatcherEffects DEF Finish, FailWatcher, Fail, shell, Asleep
  <2> QED
    BY <2>1, RebuildAssumption DEF LockOK
<1>12. ASSUME UNCHANGED <<lock, cmd, watcher>> PROVE LockOK'
  BY <1>12 DEF LockOK
<1>13. ASSUME NEW s \in Sets, Edit(s) \/ Load(s) PROVE LockOK'
  BY <1>12, <1>13 DEF Edit, Load, shell, watch
<1>14. CASE Expire \/ Deliver \/ Skip \/ ReportStep
  BY <1>12, <1>14 DEF Expire, Deliver, Skip, ReportStep, ReadLedgers, WriteReports, shell, watch
<1> QED
  BY <1>2, <1>3, <1>4, <1>5, <1>6, <1>7, <1>9, <1>10, <1>11, <1>13, <1>14, <1>15
  DEF Next, CommandStep, WatcherStep

\* Versions only grow, and the fingerprint is stored after the files it stands for.
LEMMA RunStep == ASSUME TypeInv, LockOK, RunOK, Next PROVE RunOK'
<1> USE DEF Numbers
<1>1. ASSUME UNCHANGED <<src, out, inputs, lock, run>> PROVE RunOK'
  BY <1>1 DEF RunOK
<1>2. ASSUME NEW s \in Sets, Change(s), UNCHANGED <<out, inputs, lock, run>> PROVE RunOK'
  <2>1. src' = [src EXCEPT ![s] = @ + 1] /\ src \in [Sets -> Nat] /\ out \in [Sets -> Nat]
    BY <1>2 DEF Change, TypeInv
  <2>2. \A t \in Sets : src'[t] \in Nat /\ src[t] \in Nat /\ src[t] <= src'[t]
    BY <2>1
  <2>3. \A t \in Sets : out[t] <= src'[t]
    BY <2>1, <2>2 DEF RunOK
  <2>4. ASSUME lock # None PROVE \A t \in Sets : run.began[t] <= src'[t]
    <3>1. run.began \in [Sets -> Nat] /\ \A t \in Sets : run.began[t] <= src[t]
      BY <2>4 DEF RunOK
    <3> QED
      BY <2>2, <3>1
  <2> QED
    BY <1>2, <2>3, <2>4 DEF RunOK
<1>3. ASSUME lock = None, lock' # None, UNCHANGED <<src, out, inputs>>,
             \E scope \in {Sets} \cup {{s} : s \in Sets} :
                run' = [of |-> lock', scope |-> scope, began |-> src]
      PROVE  RunOK'
  BY <1>3 DEF RunOK, TypeInv
<1>4. ASSUME NEW a, lock # None, NEW got \in Numbers, NEW keeps,
             Finish(a, got, keeps), UNCHANGED src,
             \A s \in Sets : out[s] <= got[s] /\ got[s] <= src[s],
             \A s \in run.scope : run.began[s] <= got[s]
      PROVE  RunOK'
  <2>1. out' = got /\ lock' = None
        /\ inputs' = IF UpToDate THEN inputs ELSE IF run.scope = Sets THEN run.began ELSE None
    BY <1>4 DEF Finish
  <2>2. inputs' # None => \A s \in Sets : inputs'[s] <= got[s]
    <3>1. CASE UpToDate
      BY <1>4, <2>1, <3>1 DEF RunOK, TypeInv
    <3>2. CASE ~UpToDate
      BY <1>4, <2>1, <3>2
    <3> QED
      BY <3>1, <3>2
  <2> QED
    BY <1>4, <2>1, <2>2 DEF RunOK
<1>5. ASSUME NEW s \in Sets, Edit(s) PROVE RunOK'
  BY <1>2, <1>5 DEF Edit
<1>6. ASSUME NEW p \in Clients, NEW h \in Handlers, NEW s \in Sets, Invoke(p, h, s) PROVE RunOK'
  BY <1>1, <1>6 DEF Invoke
<1>7. ASSUME NEW p \in Clients, WriteSources(p) PROVE RunOK'
  <2>1. cmd[p].set \in Sets
    BY <1>7, WriteEffects
  <2> QED
    BY <1>2, <1>7, <2>1 DEF WriteSources
<1>8. ASSUME NEW p \in Clients, BeginCommand(p) PROVE RunOK'
  <2>1. cmd[p].set \in Sets
    BY <1>8, BeginEffects, CommandShapes
  <2>2. /\ lock = None /\ lock' = p /\ lock' # None /\ UNCHANGED <<src, out, inputs>>
        /\ run' = [of |-> lock', scope |-> Scope(cmd[p]), began |-> src]
    BY <1>8, RebuildAssumption DEF BeginCommand, Begin
  <2>3. Scope(cmd[p]) \in {Sets} \cup {{s} : s \in Sets}
    BY <2>1 DEF Scope
  <2> QED
    BY <1>3, <2>2, <2>3
<1>9. CASE BeginWatcher
  BY <1>3, <1>9, RebuildAssumption DEF BeginWatcher, Begin
<1>10. ASSUME NEW p \in Clients, FinishCommand(p) PROVE RunOK'
  <2>1. lock # None /\ src' = src
    BY <1>10, FinishCommandEffects, RebuildAssumption
  <2> QED
    BY <1>4, <1>10, <2>1, FinishCommandEffects
<1>11. CASE FinishWatcher
  <2>1. lock # None /\ src' = src
    BY <1>11, FinishWatcherEffects, RebuildAssumption
  <2> QED
    BY <1>4, <1>11, <2>1, FinishWatcherEffects
<1>12. ASSUME NEW p \in Clients, FailCommand(p) PROVE RunOK'
  BY <1>12 DEF FailCommand, Fail, RunOK
<1>13. CASE FailWatcher
  BY <1>13 DEF FailWatcher, Fail, RunOK
<1>14. ASSUME NEW p \in Clients, Respond(p) \/ ReturnEarly(p) PROVE RunOK'
  BY <1>1, <1>14 DEF Respond, ReturnEarly
<1>15. ASSUME NEW s \in Sets, Load(s) PROVE RunOK'
  BY <1>1, <1>15 DEF Load
<1>16. CASE Expire \/ Deliver \/ Skip \/ Wake \/ Publish \/ ReportStep
  BY <1>1, <1>16 DEF Expire, Deliver, Skip, Wake, Publish, ReportStep, ReadLedgers, WriteReports
<1> QED
  BY <1>5, <1>6, <1>7, <1>8, <1>9, <1>10, <1>11, <1>12, <1>13, <1>14, <1>15, <1>16
  DEF Next, CommandStep, WatcherStep

-----------------------------------------------------------------------------
\* No step forgets an unbuilt set: the watcher lets an event pass only when a
\* command is at work that compiles the set, or marked it as disturbed.
LEMMA EditsStep ==
  ASSUME TypeInv, LockOK, RunOK, GuardsOK, EditsOK, Next
  PROVE  EditsOK'
<1> SUFFICES ASSUME NEW s \in Sets, src'[s] # out'[s], s \notin disturbed'
             PROVE  WillBuild(s)' \/ Calm'
  BY DEF EditsOK, Unbuilt
<1>1. ASSUME src[s] # out[s], s \notin disturbed PROVE WillBuild(s) \/ Calm
  BY <1>1 DEF EditsOK, Unbuilt
\* Steps that change neither the files nor who is to build them.
<1>2. ASSUME UNCHANGED <<src, out, disturbed, cmd, lock, run>>,
             watcher.at = "run" => watcher'.at = "run",
             Calm => Calm' \/ watcher'.at = "run"
      PROVE  WillBuild(s)' \/ Calm'
  BY <1>1, <1>2 DEF WillBuild
<1>3. ASSUME NEW t \in Sets, Edit(t) PROVE WillBuild(s)' \/ Calm'
  <2>1. /\ src' = [src EXCEPT ![t] = @ + 1] /\ os' = TRUE
        /\ disturbed' = IF Busy(None) \/ watcher.at \in {"running", "drain"}
                        THEN disturbed \cup {t} ELSE disturbed
        /\ UNCHANGED <<out, lock, run, cmd, recent, watcher, rx>>
    BY <1>3 DEF Edit, Change, shell
  <2>2. Calm => Calm'
    BY <2>1 DEF Calm, InFlight
  <2>3. CASE s = t
    <3>1. ~Busy(None) /\ watcher.at \in {"wait", "run"}
      BY <2>1, <2>3, WatcherShapes
    <3>2. ~recent /\ InFlight = {}
      BY <3>1, RebuildAssumption DEF Busy, InFlight
    <3> QED
      BY <2>1, <3>1, <3>2 DEF WillBuild, Calm, InFlight
  <2>4. CASE s # t
    <3>1. src'[s] = src[s]
      BY <2>1, <2>4 DEF TypeInv, Numbers
    <3>2. WillBuild(s) \/ Calm
      BY <1>1, <2>1, <2>4, <3>1
    <3> QED
      BY <2>1, <2>2, <3>1, <3>2 DEF WillBuild
  <2> QED
    BY <2>3, <2>4
<1>4. ASSUME NEW p \in Clients, NEW h \in Handlers, NEW t \in Sets, Invoke(p, h, t)
      PROVE  WillBuild(s)' \/ Calm'
  <2>1. /\ UNCHANGED <<src, out, lock, run, watcher>>
        /\ disturbed' = IF h.hint THEN disturbed \cup Unbuilt ELSE disturbed
    BY <1>4 DEF Invoke, watch
  <2>2. ~h.hint
    BY <2>1 DEF Unbuilt
  <2>3. cmd'[p].at \in {"write", "run"} /\ cmd'[p].handler = h
    BY <1>4, InvokeEffects
  <2>4. s \in Scope(cmd'[p])
    BY <2>2, <2>3 DEF Scope
  <2> QED
    BY <2>3, <2>4 DEF WillBuild
<1>5. ASSUME NEW p \in Clients, WriteSources(p) PROVE WillBuild(s)' \/ Calm'
  <2> DEFINE t == cmd[p].set
  <2>1. /\ t \in Sets /\ src' = [src EXCEPT ![t] = @ + 1]
        /\ UNCHANGED <<out, lock, run, watcher, disturbed>>
    BY <1>5, WriteEffects DEF WriteSources, Change
  <2>2. /\ cmd'[p].at = "run" /\ cmd[p] # Idle
        /\ cmd'[p].handler = cmd[p].handler /\ cmd'[p].set = t
        /\ \A q \in Clients \ {p} : cmd'[q] = cmd[q]
    BY <1>5, WriteEffects
  <2>3. Scope(cmd'[p]) = Scope(cmd[p])
    BY <2>2 DEF Scope
  <2>4. CASE s = t
    <3>1. s \in Scope(cmd'[p])
      BY <2>2, <2>4 DEF Scope
    <3> QED
      BY <2>2, <3>1 DEF WillBuild
  <2>5. CASE s # t
    <3>1. src'[s] = src[s]
      BY <2>1, <2>5 DEF TypeInv, Numbers
    <3>2. ~Calm
      BY <2>2 DEF Calm, InFlight
    <3>3. WillBuild(s)
      BY <1>1, <2>1, <3>1, <3>2
    <3> QED
      BY <2>1, <2>2, <2>3, <3>1, <3>3 DEF WillBuild
  <2> QED
    BY <2>4, <2>5
<1>6. ASSUME NEW p \in Clients, BeginCommand(p) PROVE WillBuild(s)' \/ Calm'
  <2>1. /\ lock = None /\ lock' = p /\ lock' # None
        /\ run'.scope = Scope(cmd[p]) /\ run'.began = src
        /\ UNCHANGED <<src, out, watcher, disturbed>>
    BY <1>6, RebuildAssumption DEF BeginCommand, Begin, watch
  <2>2. cmd[p] # Idle /\ cmd[p].at = "run" /\ \A q \in Clients \ {p} : cmd'[q] = cmd[q]
    BY <1>6, BeginEffects
  <2>3. WillBuild(s)
    BY <1>1, <2>1, <2>2 DEF Calm, InFlight
  <2> QED
    BY <2>1, <2>2, <2>3 DEF WillBuild
<1>7. CASE BeginWatcher
  BY <1>7, RebuildAssumption DEF BeginWatcher, Begin, WillBuild
\* A run that ends leaves nothing of its scope behind that was there when it began.
<1>8. ASSUME NEW a, lock = a, lock # None, NEW got \in Numbers, NEW keeps,
             Finish(a, got, keeps), UNCHANGED src,
             \A t \in Sets : out[t] <= got[t] /\ got[t] <= src[t],
             \A t \in run.scope : run.began[t] <= got[t]
      PROVE  /\ src[s] # out[s] /\ s \notin disturbed
             /\ ~(s \in run.scope /\ run.began[s] = src[s])
  <2>1. out' = got /\ disturbed' = disturbed \ {t \in Sets : src[t] = got[t]}
    BY <1>8 DEF Finish
  <2>2. /\ src[s] \in Nat /\ out[s] \in Nat /\ got[s] \in Nat
        /\ out[s] <= got[s] /\ got[s] <= src[s] /\ got[s] # src[s]
    BY <1>8, <2>1 DEF TypeInv, Numbers
  <2> QED
    BY <1>8, <2>1, <2>2
<1>9. ASSUME NEW p \in Clients, FinishCommand(p) PROVE WillBuild(s)' \/ Calm'
  <2>1. /\ lock = p /\ lock # None /\ src' = src /\ watcher' = watcher
        /\ cmd[p] # Idle /\ cmd[p].at = "running" /\ \A q \in Clients \ {p} : cmd'[q] = cmd[q]
    BY <1>9, FinishCommandEffects, RebuildAssumption DEF watch
  <2>2. src[s] # out[s] /\ s \notin disturbed /\ ~(s \in run.scope /\ run.began[s] = src[s])
    BY <1>8, <1>9, <2>1, FinishCommandEffects
  <2>3. WillBuild(s)
    BY <1>1, <2>1, <2>2 DEF Calm, InFlight
  <2> QED
    BY <2>1, <2>2, <2>3 DEF WillBuild
<1>10. CASE FinishWatcher
  <2>1. lock = Watcher /\ lock # None /\ src' = src /\ cmd' = cmd /\ watcher.at = "running"
    BY <1>10, FinishWatcherEffects, RebuildAssumption DEF shell
  <2>2. src[s] # out[s] /\ s \notin disturbed /\ ~(s \in run.scope /\ run.began[s] = src[s])
    BY <1>8, <1>10, <2>1, FinishWatcherEffects
  <2>3. WillBuild(s)
    BY <1>1, <2>1, <2>2 DEF Calm
  <2> QED
    BY <2>1, <2>2, <2>3 DEF WillBuild
\* A run that fails disturbs whatever is not built.
<1>11. ASSUME NEW a, Fail(a), UNCHANGED <<src, out>> PROVE FALSE
  BY <1>11 DEF Fail, Unbuilt
<1>12. ASSUME NEW p \in Clients, FailCommand(p) PROVE FALSE
  BY <1>11, <1>12 DEF FailCommand
<1>13. CASE FailWatcher
  BY <1>11, <1>13 DEF FailWatcher
\* So does a command that ends without a run.
<1>22. ASSUME NEW p \in Clients, ReturnEarly(p) PROVE FALSE
  BY <1>22 DEF ReturnEarly, Unbuilt
<1>14. ASSUME NEW p \in Clients, Respond(p) PROVE WillBuild(s)' \/ Calm'
  <2>1. UNCHANGED <<src, out, lock, run, watcher, disturbed>> /\ cmd[p].at = "respond"
    BY <1>14 DEF Respond, watch
  <2>2. cmd[p] # Idle /\ \A q \in Clients \ {p} : cmd'[q] = cmd[q]
    BY <1>14, EndEffects
  <2>3. WillBuild(s)
    BY <1>1, <2>1, <2>2 DEF Calm, InFlight
  <2> QED
    BY <2>1, <2>2, <2>3 DEF WillBuild
<1>15. CASE Expire
  BY <1>2, <1>15 DEF Expire, Calm, watch
<1>16. CASE Deliver
  BY <1>2, <1>16 DEF Deliver, Calm, InFlight, shell
<1>17. CASE Skip
  <2>1. IsFiniteSet(Guarding)
    BY RebuildAssumption, FS_Subset DEF Guarding
  <2>2. guards > 0 => Guarding # {}
    BY <2>1, FS_EmptySet DEF GuardsOK
  <2>3. ~Calm
    BY <1>17, <2>2 DEF Skip, Suppressed, Calm, InFlight, Guarding
  <2> QED
    BY <1>2, <1>17, <2>3 DEF Skip, shell
<1>18. CASE Wake
  BY <1>18 DEF Wake, WillBuild
<1>19. CASE Publish
  BY <1>2, <1>19 DEF Publish, Calm, shell
<1>20. ASSUME NEW t \in Sets, Load(t) PROVE WillBuild(s)' \/ Calm'
  BY <1>2, <1>20 DEF Load, Calm, InFlight, shell, watch
<1>21. CASE ReportStep
  BY <1>2, <1>21 DEF ReportStep, ReadLedgers, WriteReports, Calm, InFlight, shell, watch
<1> QED
  BY <1>3, <1>4, <1>5, <1>6, <1>7, <1>9, <1>10, <1>12, <1>13, <1>14, <1>15, <1>16, <1>17,
     <1>18, <1>19, <1>20, <1>21, <1>22
  DEF Next, CommandStep, WatcherStep

-----------------------------------------------------------------------------
\* A run that exited early wrote nothing.
LEMMA ResultsStep == ASSUME TypeInv, LockOK, RunOK, ResultsOK, Next PROVE ResultsOK'
<1>1. ASSUME NEW p \in Clients, \A q \in Clients \ {p} : cmd'[q] = cmd[q], UNCHANGED watcher,
             cmd'[p].at = "respond" /\ cmd'[p].result.early => ~cmd'[p].result.wrote
      PROVE  ResultsOK'
  BY <1>1 DEF ResultsOK
<1>2. ASSUME NEW p \in Clients, NEW h \in Handlers, NEW s \in Sets, Invoke(p, h, s) PROVE ResultsOK'
  <2>1. cmd'[p].at # "respond" /\ \A q \in Clients \ {p} : cmd'[q] = cmd[q]
    BY <1>2, InvokeEffects
  <2> QED
    BY <1>1, <1>2, <2>1 DEF Invoke, watch
<1>3. ASSUME NEW p \in Clients, CommandStep(p) PROVE ResultsOK'
  <2>1. UNCHANGED watcher
    BY <1>3, FinishCommandEffects
    DEF CommandStep, WriteSources, ReturnEarly, BeginCommand, FailCommand, Respond, watch
  <2>2. \A q \in Clients \ {p} : cmd'[q] = cmd[q]
    BY <1>3, WriteEffects, ReturnEffects, BeginEffects, FinishCommandEffects, EndEffects DEF CommandStep
  <2>3. CASE FinishCommand(p)
    BY <1>1, <2>1, <2>2, <2>3, FinishCommandEffects
  <2>4. CASE ~FinishCommand(p)
    <3>1. cmd'[p].at # "respond"
      BY <1>3, <2>4, WriteEffects, ReturnEffects, BeginEffects, EndEffects DEF CommandStep
    <3> QED
      BY <1>1, <2>1, <2>2, <3>1
  <2> QED
    BY <2>3, <2>4
<1>4. CASE FinishWatcher
  <2>1. PICK got \in Numbers :
          /\ watcher' = [at |-> "drain", result |-> Result(got)]
          /\ Result(got).wrote <=> got # out
          /\ Result(got).early => got = out
    BY <1>4, FinishWatcherEffects
  <2>2. watcher'.result.early => ~watcher'.result.wrote
    BY <2>1
  <2>3. cmd' = cmd
    BY <1>4, FinishWatcherEffects DEF shell
  <2> QED
    BY <2>2, <2>3 DEF ResultsOK
<1>5. CASE Wake \/ BeginWatcher \/ Publish \/ FailWatcher
  BY <1>5 DEF Wake, BeginWatcher, Publish, FailWatcher, ResultsOK, shell, Asleep
<1>6. CASE Deliver \/ Skip \/ Expire \/ ReportStep
  BY <1>6 DEF Deliver, Skip, Expire, ReportStep, ReadLedgers, WriteReports, ResultsOK, shell, watch
<1>7. ASSUME NEW s \in Sets, Edit(s) \/ Load(s) PROVE ResultsOK'
  BY <1>7 DEF Edit, Load, ResultsOK, shell, watch
<1> QED
  BY <1>2, <1>3, <1>4, <1>5, <1>6, <1>7 DEF Next, WatcherStep

\* A result that will fill the cache is what lies in generated/, but for the sets
\* another run wrote since.
LEMMA FillersStep == ASSUME TypeInv, LockOK, RunOK, FillersOK, Next PROVE FillersOK'
<1>1. ASSUME NEW p \in Clients, \A q \in Clients \ {p} : cmd'[q] = cmd[q], ~Filler(p)',
             UNCHANGED <<watcher, out, raced>>
      PROVE  FillersOK'
  BY <1>1 DEF FillersOK, Filler, Publishing
<1>2. ASSUME UNCHANGED <<cmd, out, raced>>, ~Publishing'
      PROVE  FillersOK'
  BY <1>2 DEF FillersOK, Filler
<1>3. ASSUME UNCHANGED <<cmd, out, raced, watcher>>
      PROVE  FillersOK'
  BY <1>3 DEF FillersOK, Filler, Publishing
<1>4. ASSUME NEW p \in Clients, NEW h \in Handlers, NEW s \in Sets, Invoke(p, h, s) PROVE FillersOK'
  BY <1>1, <1>4, InvokeEffects DEF Invoke, watch, Filler
<1>5. ASSUME NEW p \in Clients, WriteSources(p) PROVE FillersOK'
  BY <1>1, <1>5, WriteEffects DEF WriteSources, Filler
<1>6. ASSUME NEW p \in Clients, BeginCommand(p) PROVE FillersOK'
  BY <1>1, <1>6, BeginEffects DEF BeginCommand, watch, Filler
<1>7. ASSUME NEW p \in Clients, FailCommand(p) \/ ReturnEarly(p) PROVE FillersOK'
  BY <1>1, <1>7, EndEffects, ReturnEffects DEF FailCommand, ReturnEarly, watch, Filler
<1>8. ASSUME NEW p \in Clients, Respond(p) PROVE FillersOK'
  <2>1. ~Filler(p)' /\ \A q \in Clients \ {p} : cmd'[q] = cmd[q]
    BY <1>8, EndEffects DEF Filler
  <2>2. UNCHANGED <<watcher, out>> /\ raced' \in {raced, {}} /\ (raced' # raced => ~Filling(p))
    BY <1>8 DEF Respond, watch
  <2>3. CASE raced' = raced
    BY <1>1, <2>1, <2>2, <2>3
  <2>4. CASE raced' # raced
    <3>1. ~Publishing' /\ \A q \in Clients : ~Filler(q)'
      BY <2>1, <2>2, <2>4, RebuildAssumption DEF Filling, Filler, Publishing
    <3> QED
      BY <3>1 DEF FillersOK
  <2> QED
    BY <2>3, <2>4
<1>9. ASSUME NEW p \in Clients, FinishCommand(p) PROVE FillersOK'
  <2>1. PICK got \in Numbers :
          /\ Finish(p, got, cmd[p].handler.cache = "keep")
          /\ cmd'[p].result = Result(got)
          /\ Result(got).got = got
    BY <1>9, FinishCommandEffects
  <2>2. out' = got
    BY <2>1 DEF Finish
  <2>3. watcher' = watcher /\ \A q \in Clients \ {p} : cmd'[q] = cmd[q]
    BY <1>9, FinishCommandEffects DEF watch
  <2>4. CASE Filling(p)
    <3>1. raced' = raced \cup {s \in Sets : got[s] # out[s]}
      BY <2>1, <2>4 DEF Finish
    <3>2. Publishing' => \A s \in Sets \ raced' : watcher'.result.got[s] = out'[s]
      BY <2>2, <2>3, <3>1 DEF FillersOK, Publishing
    <3>3. ASSUME NEW q \in Clients, Filler(q)', ~cmd'[q].result.early
          PROVE  \A s \in Sets \ raced' : cmd'[q].result.got[s] = out'[s]
      <4>1. CASE q = p
        BY <2>1, <2>2, <4>1
      <4>2. CASE q # p
        BY <2>2, <2>3, <3>1, <3>3, <4>2 DEF FillersOK, Filler
      <4> QED
        BY <4>1, <4>2
    <3> QED
      BY <3>2, <3>3 DEF FillersOK
  <2>5. CASE ~Filling(p)
    <3>1. ~Publishing' /\ \A q \in Clients \ {p} : ~Filler(q)'
      BY <2>3, <2>5, RebuildAssumption DEF Filling, Filler, Publishing
    <3> QED
      BY <2>1, <2>2, <3>1 DEF FillersOK
  <2> QED
    BY <2>4, <2>5
<1>10. CASE FinishWatcher
  <2>1. PICK got \in Numbers :
          /\ Finish(Watcher, got, FALSE)
          /\ watcher' = [at |-> "drain", result |-> Result(got)]
          /\ Result(got).got = got
    BY <1>10, FinishWatcherEffects
  <2>2. out' = got
    BY <2>1 DEF Finish
  <2>3. cmd' = cmd
    BY <1>10, FinishWatcherEffects DEF shell
  <2>4. Publishing' => \A s \in Sets \ raced' : watcher'.result.got[s] = out'[s]
    BY <2>1, <2>2
  <2>5. ASSUME NEW q \in Clients, Filler(q)', ~cmd'[q].result.early
        PROVE  \A s \in Sets \ raced' : cmd'[q].result.got[s] = out'[s]
    <3>1. Filling(Watcher)
      BY <2>3, <2>5, RebuildAssumption DEF Filling, Filler
    <3>2. raced' = raced \cup {s \in Sets : got[s] # out[s]}
      BY <2>1, <3>1 DEF Finish
    <3> QED
      BY <2>2, <2>3, <2>5, <3>2 DEF FillersOK, Filler
  <2> QED
    BY <2>4, <2>5 DEF FillersOK
<1>11. CASE Wake \/ BeginWatcher \/ Publish \/ FailWatcher
  BY <1>2, <1>11 DEF Wake, BeginWatcher, Publish, FailWatcher, Publishing, shell, Asleep
<1>12. CASE Deliver \/ Skip \/ Expire \/ ReportStep
  BY <1>3, <1>12 DEF Deliver, Skip, Expire, ReportStep, ReadLedgers, WriteReports, shell, watch
<1>13. ASSUME NEW s \in Sets, Edit(s) \/ Load(s) PROVE FillersOK'
  BY <1>3, <1>13 DEF Edit, Load, shell, watch
<1> QED
  BY <1>4, <1>5, <1>6, <1>7, <1>8, <1>9, <1>10, <1>11, <1>12, <1>13 DEF Next, CommandStep, WatcherStep

\* The cache holds what lies in generated/, or an answer that will put it right is
\* under way, but for the raced sets.
LEMMA CacheStep ==
  ASSUME TypeInv, LockOK, RunOK, FillersOK, CacheOK, Next
  PROVE  CacheOK'
<1>1. ASSUME NEW p \in Clients, \A q \in Clients \ {p} : cmd'[q] = cmd[q], cmd[p].at # "respond",
             UNCHANGED <<watcher, out, raced, cache>>
      PROVE  CacheOK'
  <2>1. Owed => Owed'
    BY <1>1 DEF Owed, Publishing
  <2> QED
    BY <1>1, <2>1 DEF CacheOK
<1>2. ASSUME UNCHANGED <<cmd, watcher, out, raced>>,
             \A s \in Sets : cache'[s] \in {cache[s], out[s]}
      PROVE  CacheOK'
  <2>1. Owed => Owed'
    BY <1>2 DEF Owed, Publishing
  <2> QED
    BY <1>2, <2>1 DEF CacheOK
<1>3. ASSUME NEW p \in Clients, NEW h \in Handlers, NEW s \in Sets, Invoke(p, h, s) PROVE CacheOK'
  BY <1>1, <1>3, InvokeEffects DEF Invoke, watch
<1>4. ASSUME NEW p \in Clients, WriteSources(p) PROVE CacheOK'
  BY <1>1, <1>4, WriteEffects DEF WriteSources
<1>5. ASSUME NEW p \in Clients, BeginCommand(p) PROVE CacheOK'
  BY <1>1, <1>5, BeginEffects DEF BeginCommand, watch
<1>6. ASSUME NEW p \in Clients, FailCommand(p) \/ ReturnEarly(p) PROVE CacheOK'
  <2>1. cmd[p].at # "respond"
    BY <1>6 DEF FailCommand, ReturnEarly
  <2> QED
    BY <1>1, <1>6, <2>1, EndEffects, ReturnEffects DEF FailCommand, ReturnEarly, watch
<1>7. ASSUME NEW p \in Clients, FinishCommand(p) PROVE CacheOK'
  <2>1. PICK got \in Numbers :
          /\ Finish(p, got, cmd[p].handler.cache = "keep")
          /\ Result(got).early => got = out
    BY <1>7, FinishCommandEffects
  <2>2. /\ out' = got
        /\ raced' = IF cmd[p].handler.cache = "keep" \/ Filling(p)
                    THEN raced \cup {s \in Sets : got[s] # out[s]} ELSE raced
    BY <2>1 DEF Finish
  <2>3. /\ UNCHANGED <<watcher, cache>> /\ \A q \in Clients \ {p} : cmd'[q] = cmd[q]
        /\ cmd[p].at = "running" /\ cmd'[p].at = "respond" /\ cmd'[p].handler = cmd[p].handler
    BY <1>7, FinishCommandEffects DEF watch
  <2>4. CASE cmd[p].handler.cache # "keep"
    BY <2>3, <2>4 DEF CacheOK, Owed
  <2>5. CASE cmd[p].handler.cache = "keep"
    <3>1. Owed => Owed'
      BY <2>3 DEF Owed, Publishing
    <3> QED
      BY <2>2, <2>3, <2>5, <3>1 DEF CacheOK
  <2> QED
    BY <2>4, <2>5
<1>8. ASSUME NEW p \in Clients, Respond(p) PROVE CacheOK'
  <2>1. /\ cmd[p].at = "respond" /\ UNCHANGED <<out, watcher>>
        /\ \A q \in Clients \ {p} : cmd'[q] = cmd[q]
    BY <1>8, EndEffects DEF Respond, watch
  <2>2. CASE cmd[p].handler.cache = "clear"
    BY <1>8, <2>2 DEF Respond, Clear, CacheOK
  <2>3. CASE cmd[p].handler.cache = "fill"
    <3>1. /\ cache' = IF cmd[p].result.early THEN [s \in Sets |-> None] ELSE cmd[p].result.got
          /\ raced' = raced
      BY <1>8, <2>3 DEF Respond, Fill
    <3>2. ~cmd[p].result.early => \A s \in Sets \ raced : cmd[p].result.got[s] = out[s]
      BY <2>1, <2>3 DEF FillersOK, Filler
    <3> QED
      BY <2>1, <3>1, <3>2 DEF CacheOK
  <2>4. CASE cmd[p].handler.cache \notin {"clear", "fill"}
    <3>1. cmd[p].handler.cache = "keep"
      BY <2>1, <2>4, CommandShapes, HandlerRecords DEF Records
    <3>2. UNCHANGED <<cache, raced>>
      BY <1>8, <2>4 DEF Respond
    <3>3. Owed => Owed'
      BY <2>1, <3>1 DEF Owed, Publishing
    <3> QED
      BY <2>1, <3>2, <3>3 DEF CacheOK
  <2> QED
    BY <2>2, <2>3, <2>4
<1>9. CASE FinishWatcher
  <2>1. PICK got \in Numbers :
          /\ Finish(Watcher, got, FALSE)
          /\ watcher' = [at |-> "drain", result |-> Result(got)]
          /\ Result(got).early => got = out
    BY <1>9, FinishWatcherEffects
  <2>2. UNCHANGED <<cmd, cache>> /\ watcher.at = "running" /\ out' = got
    BY <1>9, <2>1, FinishWatcherEffects DEF shell, Finish
  <2>3. CASE ~Result(got).early
    BY <2>1, <2>3 DEF CacheOK, Owed, Publishing
  <2>4. CASE Result(got).early
    <3>1. out' = out /\ (Owed => Owed')
      BY <2>1, <2>2, <2>4 DEF Owed, Publishing
    <3>2. raced \subseteq raced'
      BY <2>1 DEF Finish
    <3> QED
      BY <2>2, <3>1, <3>2 DEF CacheOK
  <2> QED
    BY <2>3, <2>4
<1>10. CASE Publish
  <2>1. UNCHANGED <<cmd, out, raced>> /\ watcher.at = "drain"
    BY <1>10 DEF Publish, shell
  <2>2. CASE watcher.result.early
    <3>1. cache' = cache /\ (Owed => Owed')
      BY <1>10, <2>1, <2>2 DEF Publish, Owed, Publishing
    <3> QED
      BY <2>1, <3>1 DEF CacheOK
  <2>3. CASE ~watcher.result.early
    <3>1. cache' = watcher.result.got
      BY <1>10, <2>3 DEF Publish, Fill
    <3> QED
      BY <2>1, <2>3, <3>1 DEF CacheOK, FillersOK, Publishing
  <2> QED
    BY <2>2, <2>3
<1>11. CASE Wake \/ BeginWatcher \/ FailWatcher
  <2>1. UNCHANGED <<cmd, out, raced, cache>> /\ ~Publishing
    BY <1>11 DEF Wake, BeginWatcher, FailWatcher, shell, Publishing
  <2>2. Owed => Owed'
    BY <2>1 DEF Owed
  <2> QED
    BY <2>1, <2>2 DEF CacheOK
<1>12. CASE Deliver \/ Skip \/ Expire \/ ReportStep
  BY <1>2, <1>12 DEF Deliver, Skip, Expire, ReportStep, ReadLedgers, WriteReports, shell, watch
<1>13. ASSUME NEW s \in Sets, Edit(s) PROVE CacheOK'
  BY <1>2, <1>13 DEF Edit, shell
<1>14. ASSUME NEW s \in Sets, Load(s) PROVE CacheOK'
  <2>1. \A t \in Sets : cache'[t] \in {cache[t], out[t]}
    BY <1>14 DEF Load, TypeInv
  <2> QED
    BY <1>2, <1>14, <2>1 DEF Load, shell, watch
<1> QED
  BY <1>3, <1>4, <1>5, <1>6, <1>7, <1>8, <1>9, <1>10, <1>11, <1>12, <1>13, <1>14
  DEF Next, CommandStep, WatcherStep

-----------------------------------------------------------------------------
\* A lone report thread has read generated/ as it is, and the youngest thread is
\* at work or announced.
LEMMA ThreadSteps ==
  ASSUME TypeInv, LockOK, RunOK, ResultsOK, ReportsOK, AloneOK, AnnouncedOK, Next
  PROVE  ReportsOK' /\ AloneOK' /\ AnnouncedOK'
\* Steps that leave the threads alone, and at most add a result to be answered.
<1>1. ASSUME UNCHANGED <<crowded, reporting>>, Wrote => Wrote', out' = out \/ Wrote'
      PROVE  ReportsOK' /\ AloneOK' /\ AnnouncedOK'
  BY <1>1 DEF ReportsOK, AloneOK, AnnouncedOK, reporting
<1>2. ASSUME NEW p \in Clients, \A q \in Clients \ {p} : cmd'[q] = cmd[q], cmd[p].at # "respond",
             UNCHANGED <<watcher, out, crowded, reporting>>
      PROVE  ReportsOK' /\ AloneOK' /\ AnnouncedOK'
  <2>1. Wrote => Wrote'
    BY <1>2 DEF Wrote
  <2> QED
    BY <1>1, <1>2, <2>1
\* A response or publication of a result r.
<1>3. ASSUME NEW r, Spawn(r), Wrote => r.wrote \/ Wrote', UNCHANGED <<out, reports, notified>>
      PROVE  ReportsOK' /\ AloneOK' /\ AnnouncedOK'
  <2>1. CASE r.wrote
    <3>1. /\ generation' = generation + 1
          /\ threads' = threads \cup {[gen |-> generation + 1, read |-> None]}
          /\ crowded' = (crowded \/ threads # {})
      BY <1>3, <2>1 DEF Spawn
    <3> DEFINE new == [gen |-> generation + 1, read |-> None]
    <3>2. /\ new \in threads' /\ new.gen = generation' /\ new.read = None
          /\ ~crowded' => threads' = {new}
      BY <3>1
    <3> HIDE DEF new
    <3>3. AloneOK' /\ AnnouncedOK'
      BY <3>2 DEF AloneOK, AnnouncedOK
    <3>4. ReportsOK'
      BY <3>2 DEF ReportsOK
    <3> QED
      BY <3>3, <3>4
  <2>2. CASE ~r.wrote
    <3>1. UNCHANGED <<generation, threads, crowded>>
      BY <1>3, <2>2 DEF Spawn
    <3>2. UNCHANGED <<crowded, reporting>>
      BY <1>3, <3>1 DEF reporting
    <3>3. (Wrote => Wrote') /\ out' = out
      BY <1>3, <2>2
    <3> QED
      BY <1>1, <3>2, <3>3
  <2> QED
    BY <2>1, <2>2
<1>4. ASSUME NEW p \in Clients, NEW h \in Handlers, NEW s \in Sets, Invoke(p, h, s)
      PROVE  ReportsOK' /\ AloneOK' /\ AnnouncedOK'
  BY <1>2, <1>4, InvokeEffects DEF Invoke, watch
<1>5. ASSUME NEW p \in Clients, WriteSources(p) PROVE ReportsOK' /\ AloneOK' /\ AnnouncedOK'
  BY <1>2, <1>5, WriteEffects DEF WriteSources
<1>6. ASSUME NEW p \in Clients, BeginCommand(p) PROVE ReportsOK' /\ AloneOK' /\ AnnouncedOK'
  BY <1>2, <1>6, BeginEffects DEF BeginCommand, watch
<1>7. ASSUME NEW p \in Clients, FailCommand(p) \/ ReturnEarly(p)
      PROVE  ReportsOK' /\ AloneOK' /\ AnnouncedOK'
  <2>1. cmd[p].at # "respond"
    BY <1>7 DEF FailCommand, ReturnEarly
  <2> QED
    BY <1>2, <1>7, <2>1, EndEffects, ReturnEffects DEF FailCommand, ReturnEarly, watch
<1>8. ASSUME NEW p \in Clients, FinishCommand(p) PROVE ReportsOK' /\ AloneOK' /\ AnnouncedOK'
  <2>1. PICK got \in Numbers :
          /\ Finish(p, got, cmd[p].handler.cache = "keep")
          /\ cmd'[p].result = Result(got)
          /\ Result(got).wrote <=> got # out
    BY <1>8, FinishCommandEffects
  <2>2. /\ UNCHANGED <<watcher, crowded, reporting>> /\ \A q \in Clients \ {p} : cmd'[q] = cmd[q]
        /\ cmd[p].at = "running" /\ cmd'[p].at = "respond"
    BY <1>8, FinishCommandEffects DEF watch
  <2>3. Wrote => Wrote'
    BY <2>2 DEF Wrote
  <2>4. out' = out \/ Wrote'
    BY <2>1, <2>2 DEF Finish, Wrote
  <2> QED
    BY <1>1, <2>2, <2>3, <2>4
<1>9. ASSUME NEW p \in Clients, Respond(p) PROVE ReportsOK' /\ AloneOK' /\ AnnouncedOK'
  <2>1. /\ Spawn(cmd[p].result) /\ UNCHANGED <<watcher, out, reports, notified>>
        /\ \A q \in Clients \ {p} : cmd'[q] = cmd[q]
    BY <1>9, EndEffects DEF Respond, watch
  <2>2. Wrote => cmd[p].result.wrote \/ Wrote'
    BY <2>1 DEF Wrote
  <2> QED
    BY <1>3, <2>1, <2>2
<1>10. CASE FinishWatcher
  <2>1. PICK got \in Numbers :
          /\ Finish(Watcher, got, FALSE)
          /\ watcher' = [at |-> "drain", result |-> Result(got)]
          /\ Result(got).wrote <=> got # out
    BY <1>10, FinishWatcherEffects
  <2>2. UNCHANGED <<cmd, crowded, reporting>> /\ watcher.at = "running"
    BY <1>10, FinishWatcherEffects DEF shell
  <2>3. Wrote => Wrote'
    BY <2>2 DEF Wrote
  <2>4. out' = out \/ Wrote'
    BY <2>1 DEF Finish, Wrote
  <2> QED
    BY <1>1, <2>2, <2>3, <2>4
<1>11. CASE Publish
  <2>1. UNCHANGED <<cmd, out, reports, notified>> /\ watcher.at = "drain"
    BY <1>11 DEF Publish, shell
  <2>2. Wrote => watcher.result.wrote \/ Wrote'
    BY <2>1 DEF Wrote
  <2>3. CASE watcher.result.early
    <3>1. ~watcher.result.wrote /\ UNCHANGED <<crowded, reporting>>
      BY <1>11, <2>1, <2>3 DEF Publish, ResultsOK, reporting
    <3> QED
      BY <1>1, <2>1, <2>2, <3>1
  <2>4. CASE ~watcher.result.early
    <3>1. Spawn(watcher.result)
      BY <1>11, <2>4 DEF Publish
    <3> QED
      BY <1>3, <2>1, <2>2, <3>1
  <2> QED
    BY <2>3, <2>4
<1>12. CASE Wake \/ BeginWatcher \/ FailWatcher
  <2>1. UNCHANGED <<cmd, out, crowded, reporting>> /\ watcher.at # "drain"
    BY <1>12 DEF Wake, BeginWatcher, FailWatcher, shell
  <2>2. Wrote => Wrote'
    BY <2>1 DEF Wrote
  <2> QED
    BY <1>1, <2>1, <2>2
<1>13. CASE Deliver \/ Skip \/ Expire
  BY <1>1, <1>13 DEF Deliver, Skip, Expire, shell, watch, Wrote
<1>14. ASSUME NEW s \in Sets, Edit(s) \/ Load(s) PROVE ReportsOK' /\ AloneOK' /\ AnnouncedOK'
  BY <1>1, <1>14 DEF Edit, Load, shell, watch, Wrote
<1>15. ASSUME NEW t \in threads, ReadLedgers(t) PROVE ReportsOK' /\ AloneOK' /\ AnnouncedOK'
  <2> DEFINE u == [t EXCEPT !.read = out]
  <2>1. threads' = (threads \ {t}) \cup {u} /\ u.gen = t.gen /\ u.read = out
    BY <1>15 DEF ReadLedgers, TypeInv
  <2>2. UNCHANGED <<cmd, watcher, out, crowded, reports, generation, notified>>
    BY <1>15 DEF ReadLedgers, shell, watch
  <2>3. Wrote' <=> Wrote
    BY <2>2 DEF Wrote
  <2>4. ~crowded => threads = {t} /\ threads' = {u}
    BY <2>1 DEF AloneOK
  <2> HIDE DEF u
  <2> QED
    BY <2>1, <2>2, <2>3, <2>4 DEF ReportsOK, AloneOK, AnnouncedOK
<1>16. ASSUME NEW t \in threads, WriteReports(t) PROVE ReportsOK' /\ AloneOK' /\ AnnouncedOK'
  <2>1. /\ t.read # None /\ reports' = t.read /\ threads' = threads \ {t}
        /\ notified' = IF t.gen = generation THEN t.gen ELSE notified
        /\ UNCHANGED <<cmd, watcher, out, crowded, generation>>
    BY <1>16 DEF WriteReports, shell, watch
  <2>2. Wrote' <=> Wrote
    BY <2>1 DEF Wrote
  <2>3. ~crowded => threads = {t} /\ threads' = {}
    BY <2>1 DEF AloneOK
  <2> QED
    BY <2>1, <2>2, <2>3 DEF ReportsOK, AloneOK, AnnouncedOK
<1> QED
  BY <1>4, <1>5, <1>6, <1>7, <1>8, <1>9, <1>10, <1>11, <1>12, <1>13, <1>14, <1>15, <1>16
  DEF Next, CommandStep, WatcherStep, ReportStep

-----------------------------------------------------------------------------
\* Files are only ever changed to a new version.
LEMMA SrcGrows ==
  ASSUME TypeInv, Next
  PROVE  \A s \in Sets : src[s] \in Nat /\ src'[s] \in Nat /\ src[s] <= src'[s]
<1> USE DEF Numbers
<1>1. ASSUME NEW t \in Sets, Change(t)
      PROVE  \A s \in Sets : src[s] \in Nat /\ src'[s] \in Nat /\ src[s] <= src'[s]
  BY <1>1 DEF Change, TypeInv
<1>2. ASSUME UNCHANGED src
      PROVE  \A s \in Sets : src[s] \in Nat /\ src'[s] \in Nat /\ src[s] <= src'[s]
  BY <1>2 DEF TypeInv
<1>3. ASSUME NEW p \in Clients, WriteSources(p)
      PROVE  \A s \in Sets : src[s] \in Nat /\ src'[s] \in Nat /\ src[s] <= src'[s]
  BY <1>1, <1>3, WriteEffects DEF WriteSources
<1>4. ASSUME NEW p \in Clients, CommandStep(p), ~WriteSources(p) PROVE UNCHANGED src
  BY <1>4 DEF CommandStep, ReturnEarly, BeginCommand, FinishCommand, FailCommand, Respond
<1>5. ASSUME NEW p \in Clients, NEW h \in Handlers, NEW s \in Sets, Invoke(p, h, s) PROVE UNCHANGED src
  BY <1>5 DEF Invoke
<1>6. WatcherStep \/ Expire \/ ReportStep => UNCHANGED src
  BY DEF WatcherStep, Deliver, Skip, Wake, BeginWatcher, FinishWatcher, Publish, FailWatcher, Expire,
     ReportStep, ReadLedgers, WriteReports
<1>7. \A s \in Sets : Load(s) => UNCHANGED src
  BY DEF Load
<1>8. \A s \in Sets : Edit(s) => Change(s)
  BY DEF Edit
<1> QED
  BY <1>1, <1>2, <1>3, <1>4, <1>5, <1>6, <1>7, <1>8 DEF Next

\* A version that sources/ had, it had.
LEMMA OldStaysOld ==
  ASSUME TypeInv, Next, NEW f \in Numbers, Old(f)
  PROVE  \A s \in Sets : f[s] <= src'[s]
BY SrcGrows DEF Old, Numbers

\* Results hold versions that sources/ had ...
LEMMA ResultsOldStep == ASSUME TypeInv, LockOK, RunOK, ResultsOld, Next PROVE ResultsOld'
<1>1. ASSUME NEW q \in Clients, cmd'[q] = cmd[q], cmd[q].at = "respond"
      PROVE  \A s \in Sets : cmd'[q].result.got[s] <= src'[s]
  BY <1>1, CommandShapes, OldStaysOld DEF ResultsOld
<1>2. ASSUME watcher' = watcher, watcher.at = "drain"
      PROVE  \A s \in Sets : watcher'.result.got[s] <= src'[s]
  BY <1>2, WatcherShapes, OldStaysOld DEF ResultsOld
<1>3. ASSUME NEW p \in Clients, \A q \in Clients \ {p} : cmd'[q] = cmd[q], UNCHANGED watcher,
             cmd'[p].at = "respond" => \A s \in Sets : cmd'[p].result.got[s] <= src'[s]
      PROVE  ResultsOld'
  BY <1>1, <1>2, <1>3 DEF ResultsOld, Old
<1>4. ASSUME UNCHANGED cmd, watcher'.at = "drain" => \A s \in Sets : watcher'.result.got[s] <= src'[s]
      PROVE  ResultsOld'
  BY <1>1, <1>4 DEF ResultsOld, Old
<1>5. ASSUME NEW p \in Clients, NEW h \in Handlers, NEW s \in Sets, Invoke(p, h, s) PROVE ResultsOld'
  <2>1. cmd'[p].at # "respond" /\ \A q \in Clients \ {p} : cmd'[q] = cmd[q]
    BY <1>5, InvokeEffects
  <2> QED
    BY <1>3, <1>5, <2>1 DEF Invoke, watch
<1>6. ASSUME NEW p \in Clients, CommandStep(p) PROVE ResultsOld'
  <2>1. UNCHANGED watcher
    BY <1>6, FinishCommandEffects
    DEF CommandStep, WriteSources, ReturnEarly, BeginCommand, FailCommand, Respond, watch
  <2>2. \A q \in Clients \ {p} : cmd'[q] = cmd[q]
    BY <1>6, WriteEffects, ReturnEffects, BeginEffects, FinishCommandEffects, EndEffects DEF CommandStep
  <2>3. CASE FinishCommand(p)
    <3>1. PICK got \in Numbers : /\ cmd'[p].result = Result(got) /\ Result(got).got = got
                                 /\ \A s \in Sets : got[s] <= src[s]
      BY <2>3, FinishCommandEffects
    <3>2. \A s \in Sets : got[s] <= src'[s]
      BY <3>1, OldStaysOld DEF Old
    <3> QED
      BY <1>3, <2>1, <2>2, <3>1, <3>2
  <2>4. CASE ~FinishCommand(p)
    <3>1. cmd'[p].at # "respond"
      BY <1>6, <2>4, WriteEffects, ReturnEffects, BeginEffects, EndEffects DEF CommandStep
    <3> QED
      BY <1>3, <2>1, <2>2, <3>1
  <2> QED
    BY <2>3, <2>4
<1>7. CASE FinishWatcher
  <2>1. PICK got \in Numbers : /\ watcher' = [at |-> "drain", result |-> Result(got)]
                               /\ Result(got).got = got
                               /\ \A s \in Sets : got[s] <= src[s]
    BY <1>7, FinishWatcherEffects
  <2>2. \A s \in Sets : got[s] <= src'[s]
    BY <2>1, OldStaysOld DEF Old
  <2>3. watcher'.result.got = got /\ cmd' = cmd
    BY <1>7, <2>1, FinishWatcherEffects DEF shell
  <2> QED
    BY <1>4, <2>2, <2>3
<1>8. CASE Wake \/ BeginWatcher \/ Publish \/ FailWatcher
  BY <1>4, <1>8 DEF Wake, BeginWatcher, Publish, FailWatcher, shell, Asleep
<1>9. CASE Deliver \/ Skip \/ Expire \/ ReportStep
  <2>1. UNCHANGED <<cmd, watcher>>
    BY <1>9 DEF Deliver, Skip, Expire, ReportStep, ReadLedgers, WriteReports, shell, watch
  <2> QED
    BY <1>2, <1>4, <2>1
<1>10. ASSUME NEW s \in Sets, Edit(s) \/ Load(s) PROVE ResultsOld'
  <2>1. UNCHANGED <<cmd, watcher>>
    BY <1>10 DEF Edit, Load, shell, watch
  <2> QED
    BY <1>2, <1>4, <2>1
<1> QED
  BY <1>5, <1>6, <1>7, <1>8, <1>9, <1>10 DEF Next, WatcherStep

\* ... so does the cache ...
LEMMA CacheOldStep == ASSUME TypeInv, LockOK, RunOK, ResultsOld, CacheOld, Next PROVE CacheOld'
<1>1. ASSUME NEW s \in Sets,
             \/ cache'[s] \in {cache[s], out[s], None}
             \/ \E f \in Numbers : Old(f) /\ cache'[s] = f[s]
      PROVE  cache'[s] = None \/ cache'[s] <= src'[s]
  <2>1. src[s] \in Nat /\ src'[s] \in Nat /\ src[s] <= src'[s]
    BY SrcGrows
  <2>2. out[s] \in Nat /\ out[s] <= src[s]
    BY DEF RunOK, TypeInv, Numbers
  <2>3. cache[s] = None \/ (cache[s] \in Nat /\ cache[s] <= src[s])
    BY DEF CacheOld, TypeInv
  <2>4. \A f \in Numbers : Old(f) => f[s] \in Nat /\ f[s] <= src[s]
    BY DEF Old, Numbers
  <2> QED
    BY <1>1, <2>1, <2>2, <2>3, <2>4
<1>2. ASSUME UNCHANGED cache PROVE CacheOld'
  BY <1>1, <1>2 DEF CacheOld
<1>3. ASSUME NEW r, r.got \in Numbers, Old(r.got), Fill(r) PROVE CacheOld'
  <2>1. \A s \in Sets : cache'[s] = None \/ cache'[s] = r.got[s]
    BY <1>3 DEF Fill
  <2> QED
    BY <1>1, <1>3, <2>1 DEF CacheOld
<1>4. ASSUME NEW p \in Clients, Respond(p) PROVE CacheOld'
  <2>1. cmd[p].at = "respond"
    BY <1>4 DEF Respond
  <2>2. cmd[p].result.got \in Numbers /\ Old(cmd[p].result.got)
    BY <2>1, CommandShapes DEF ResultsOld
  <2>3. Clear \/ Fill(cmd[p].result) \/ UNCHANGED cache
    BY <1>4 DEF Respond
  <2>4. Clear => CacheOld'
    BY <1>1 DEF Clear, CacheOld
  <2> QED
    BY <1>2, <1>3, <2>2, <2>3, <2>4
<1>5. CASE Publish
  <2>1. watcher.result.got \in Numbers /\ Old(watcher.result.got)
    BY <1>5, WatcherShapes DEF Publish, ResultsOld
  <2>2. Fill(watcher.result) \/ UNCHANGED cache
    BY <1>5 DEF Publish
  <2> QED
    BY <1>2, <1>3, <2>1, <2>2
<1>6. ASSUME NEW s \in Sets, Load(s) PROVE CacheOld'
  <2>1. \A t \in Sets : cache'[t] \in {cache[t], out[t]}
    BY <1>6 DEF Load, TypeInv
  <2> QED
    BY <1>1, <2>1 DEF CacheOld
<1>7. ASSUME NEW p \in Clients, CommandStep(p), ~Respond(p) PROVE UNCHANGED cache
  BY <1>7 DEF CommandStep, WriteSources, ReturnEarly, BeginCommand, FinishCommand, FailCommand
<1>8. ASSUME NEW p \in Clients, NEW h \in Handlers, NEW s \in Sets, Invoke(p, h, s) PROVE UNCHANGED cache
  BY <1>8 DEF Invoke
<1>9. Deliver \/ Skip \/ Wake \/ BeginWatcher \/ FinishWatcher \/ FailWatcher \/ Expire \/ ReportStep
        => UNCHANGED cache
  BY DEF Deliver, Skip, Wake, BeginWatcher, FinishWatcher, FailWatcher, Expire,
     ReportStep, ReadLedgers, WriteReports
<1>10. \A s \in Sets : Edit(s) => UNCHANGED cache
  BY DEF Edit
<1> QED
  BY <1>2, <1>4, <1>5, <1>6, <1>7, <1>8, <1>9, <1>10 DEF Next, WatcherStep

\* ... and the reports, whose threads are numbered up to the generation.
LEMMA ReportsOldStep ==
  ASSUME TypeInv, LockOK, RunOK, ReportsOld, GenerationsOK, Next
  PROVE  ReportsOld' /\ GenerationsOK'
<1>1. ASSUME NEW t \in threads, t.read # None PROVE \A s \in Sets : t.read[s] <= src'[s]
  BY <1>1, OldStaysOld DEF ReportsOld, TypeInv
<1>2. \A s \in Sets : reports[s] <= src'[s]
  BY OldStaysOld DEF ReportsOld, TypeInv, Old
<1>3. ASSUME UNCHANGED reporting PROVE ReportsOld' /\ GenerationsOK'
  BY <1>1, <1>2, <1>3 DEF ReportsOld, Old, GenerationsOK, reporting
<1>4. ASSUME NEW r, Spawn(r), UNCHANGED <<reports, notified>> PROVE ReportsOld' /\ GenerationsOK'
  <2>1. generation \in Nat /\ generation' \in {generation, generation + 1}
    BY <1>4 DEF Spawn, TypeInv
  <2>2. \A t \in threads' : t \in threads \/ (t.gen = generation' /\ t.read = None)
    BY <1>4 DEF Spawn
  <2>3. \A t \in threads : t.gen \in Nat
    BY DEF TypeInv
  <2>4. ReportsOld'
    BY <1>1, <1>2, <1>4, <2>2 DEF ReportsOld, Old
  <2>5. GenerationsOK'
    BY <1>4, <2>1, <2>2, <2>3 DEF GenerationsOK
  <2> QED
    BY <2>4, <2>5
<1>5. ASSUME NEW p \in Clients, Respond(p) PROVE ReportsOld' /\ GenerationsOK'
  BY <1>4, <1>5 DEF Respond
<1>6. CASE Publish
  <2>1. Spawn(watcher.result) \/ UNCHANGED reporting
    BY <1>6 DEF Publish, reporting
  <2> QED
    BY <1>3, <1>4, <1>6, <2>1 DEF Publish
<1>7. ASSUME NEW t \in threads, ReadLedgers(t) PROVE ReportsOld' /\ GenerationsOK'
  <2> DEFINE u == [t EXCEPT !.read = out]
  <2>1. threads' = (threads \ {t}) \cup {u} /\ u.gen = t.gen /\ u.read = out
    BY <1>7 DEF ReadLedgers, TypeInv
  <2>2. UNCHANGED <<reports, generation, notified>>
    BY <1>7 DEF ReadLedgers
  <2>3. \A s \in Sets : out[s] <= src'[s]
    BY OldStaysOld DEF TypeInv, RunOK, Old
  <2> HIDE DEF u
  <2>4. ReportsOld'
    BY <1>1, <1>2, <2>1, <2>2, <2>3 DEF ReportsOld, Old
  <2>5. GenerationsOK'
    BY <2>1, <2>2 DEF GenerationsOK
  <2> QED
    BY <2>4, <2>5
<1>8. ASSUME NEW t \in threads, WriteReports(t) PROVE ReportsOld' /\ GenerationsOK'
  <2>1. /\ t.read # None /\ reports' = t.read /\ threads' = threads \ {t}
        /\ notified' = IF t.gen = generation THEN t.gen ELSE notified
        /\ generation' = generation
    BY <1>8 DEF WriteReports
  <2>2. ReportsOld'
    BY <1>1, <2>1 DEF ReportsOld, Old
  <2>3. GenerationsOK'
    BY <2>1 DEF GenerationsOK, TypeInv
  <2> QED
    BY <2>2, <2>3
<1>9. ASSUME NEW p \in Clients, CommandStep(p), ~Respond(p) PROVE UNCHANGED reporting
  BY <1>9 DEF CommandStep, WriteSources, ReturnEarly, BeginCommand, FinishCommand, FailCommand
<1>10. ASSUME NEW p \in Clients, NEW h \in Handlers, NEW s \in Sets, Invoke(p, h, s) PROVE UNCHANGED reporting
  BY <1>10 DEF Invoke
<1>11. Deliver \/ Skip \/ Wake \/ BeginWatcher \/ FinishWatcher \/ FailWatcher \/ Expire
        => UNCHANGED reporting
  BY DEF Deliver, Skip, Wake, BeginWatcher, FinishWatcher, FailWatcher, Expire
<1>12. \A s \in Sets : Edit(s) \/ Load(s) => UNCHANGED reporting
  BY DEF Edit, Load
<1> QED
  BY <1>3, <1>5, <1>6, <1>7, <1>8, <1>9, <1>10, <1>11, <1>12 DEF Next, WatcherStep, ReportStep

\* A version is a move spent, and a command that has yet to write has spent one.
LEMMA CountStep == ASSUME TypeInv, LockOK, RunOK, CountOK, Next PROVE CountOK'
<1>1. \A s \in Sets : /\ IsFiniteSet(Writers(s)) /\ Cardinality(Writers(s)) \in Nat
                      /\ src[s] \in Nat
  <2>1. \A s \in Sets : Writers(s) \in SUBSET Clients
    BY DEF Writers
  <2> QED
    BY <2>1, RebuildAssumption, FS_Subset, FS_CardinalityType DEF TypeInv, Numbers
<1>2. ASSUME UNCHANGED <<moves, src>>, \A s \in Sets : Writers(s)' = Writers(s) PROVE CountOK'
  BY <1>2 DEF CountOK
<1>3. ASSUME UNCHANGED cmd PROVE \A s \in Sets : Writers(s)' = Writers(s)
  BY <1>3 DEF Writers
<1>4. ASSUME NEW s \in Sets, Edit(s) PROVE CountOK'
  <2>1. /\ moves < MaxMoves /\ moves' = moves + 1 /\ cmd' = cmd
        /\ src' = [src EXCEPT ![s] = @ + 1]
    BY <1>4 DEF Edit, Move, Change, shell
  <2>2. \A t \in Sets : src'[t] \in Nat /\ src'[t] <= src[t] + 1
    BY <1>1, <2>1 DEF TypeInv, Numbers
  <2>3. \A t \in Sets : Cardinality(Writers(t))' = Cardinality(Writers(t))
    BY <1>3, <2>1
  <2> QED
    BY <1>1, <2>1, <2>2, <2>3, RebuildAssumption DEF CountOK
<1>5. ASSUME NEW p \in Clients, NEW h \in Handlers, NEW s \in Sets, Invoke(p, h, s) PROVE CountOK'
  <2>1. moves < MaxMoves /\ moves' = moves + 1 /\ src' = src
    BY <1>5 DEF Invoke, Move
  <2>2. \A t \in Sets : Writers(t)' \in {Writers(t), Writers(t) \cup {p}}
    BY <1>5, InvokeEffects DEF Writers
  <2>3. \A t \in Sets : /\ Cardinality(Writers(t) \cup {p}) <= Cardinality(Writers(t)) + 1
                        /\ Cardinality(Writers(t) \cup {p}) \in Nat
    <3> TAKE t \in Sets
    <3>1. IsFiniteSet(Writers(t)) /\ Cardinality(Writers(t)) \in Nat
      BY <1>1
    <3>2. Cardinality(Writers(t) \cup {p}) =
            IF p \in Writers(t) THEN Cardinality(Writers(t)) ELSE Cardinality(Writers(t)) + 1
      BY <3>1, FS_AddElement
    <3> QED
      BY <3>1, <3>2
  <2>4. \A t \in Sets : /\ Cardinality(Writers(t))' <= Cardinality(Writers(t)) + 1
                        /\ Cardinality(Writers(t))' \in Nat
    BY <1>1, <2>2, <2>3
  <2> QED
    BY <1>1, <2>1, <2>4, RebuildAssumption DEF CountOK
<1>6. ASSUME NEW p \in Clients, WriteSources(p) PROVE CountOK'
  <2>1. PICK s \in Sets : s = cmd[p].set
    BY <1>6, WriteEffects
  <2>2. /\ cmd[p].at = "write" /\ cmd'[p].at = "run" /\ \A q \in Clients \ {p} : cmd'[q] = cmd[q]
    BY <1>6, WriteEffects
  <2>3. moves' = moves /\ src' = [src EXCEPT ![s] = @ + 1]
    BY <1>6, <2>1 DEF WriteSources, Change
  <2>4. \A t \in Sets \ {s} : src'[t] = src[t] /\ Writers(t)' = Writers(t)
    <3> TAKE t \in Sets \ {s}
    <3>1. src'[t] = src[t]
      BY <2>3 DEF TypeInv, Numbers
    <3>2. \A q \in Clients : q \in Writers(t)' <=> q \in Writers(t)
      BY <2>1, <2>2 DEF Writers
    <3>3. Writers(t)' \subseteq Clients /\ Writers(t) \subseteq Clients
      BY DEF Writers
    <3> QED
      BY <3>1, <3>2, <3>3
  <2>5. src'[s] = src[s] + 1
    BY <2>3 DEF TypeInv, Numbers
  <2>6. p \in Writers(s) /\ Writers(s)' = Writers(s) \ {p}
    BY <2>1, <2>2 DEF Writers
  <2>7. Cardinality(Writers(s))' = Cardinality(Writers(s)) - 1
    BY <1>1, <2>6, FS_RemoveElement
  <2> QED
    BY <1>1, <2>3, <2>4, <2>5, <2>7 DEF CountOK
<1>10. ASSUME NEW p \in Clients, ReturnEarly(p) PROVE CountOK'
  <2>1. UNCHANGED <<moves, src>>
    BY <1>10 DEF ReturnEarly
  <2>2. \A t \in Sets : Writers(t)' = Writers(t) \ {p}
    BY <1>10, ReturnEffects DEF Writers
  <2>3. \A t \in Sets : /\ Cardinality(Writers(t) \ {p}) \in Nat
                        /\ Cardinality(Writers(t) \ {p}) <= Cardinality(Writers(t))
    <3> TAKE t \in Sets
    <3>1. Cardinality(Writers(t) \ {p}) =
            IF p \in Writers(t) THEN Cardinality(Writers(t)) - 1 ELSE Cardinality(Writers(t))
      BY <1>1, FS_RemoveElement
    <3>2. Cardinality(Writers(t) \ {p}) \in Nat
      BY <1>1, FS_RemoveElement, FS_CardinalityType
    <3> QED
      BY <1>1, <3>1, <3>2
  <2>4. \A t \in Sets : Cardinality(Writers(t))' <= Cardinality(Writers(t)) /\ Cardinality(Writers(t))' \in Nat
    BY <2>2, <2>3
  <2> QED
    BY <1>1, <2>1, <2>4 DEF CountOK, TypeInv
<1>7. ASSUME NEW p \in Clients, CommandStep(p), ~WriteSources(p), ~ReturnEarly(p) PROVE CountOK'
  <2>1. UNCHANGED <<moves, src>>
    BY <1>7 DEF CommandStep, BeginCommand, FinishCommand, FailCommand, Respond
  <2>2. /\ cmd[p].at # "write" /\ cmd'[p].at # "write"
        /\ \A q \in Clients \ {p} : cmd'[q] = cmd[q]
    BY <1>7, BeginEffects, FinishCommandEffects, EndEffects DEF CommandStep
  <2>3. \A s \in Sets : Writers(s)' = Writers(s)
    BY <2>2 DEF Writers
  <2> QED
    BY <1>2, <2>1, <2>3
<1>8. WatcherStep \/ Expire \/ ReportStep => UNCHANGED <<moves, src, cmd>>
  BY DEF WatcherStep, Deliver, Skip, Wake, BeginWatcher, FinishWatcher, Publish, FailWatcher, Expire,
     ReportStep, ReadLedgers, WriteReports, shell
<1>9. \A s \in Sets : Load(s) => UNCHANGED <<moves, src, cmd>>
  BY DEF Load, shell
<1> QED
  BY <1>2, <1>3, <1>4, <1>5, <1>6, <1>7, <1>8, <1>9, <1>10 DEF Next, CommandStep

\* The invariant gives the bounds of TypeOK.
LEMMA BoundsHold ==
  ASSUME TypeInv, LockOK, RunOK, GuardsOK, ResultsOld, CacheOld, ReportsOld, GenerationsOK, CountOK
  PROVE  TypeOK
<1>1. \A s \in Sets : src[s] \in Nat /\ src[s] <= MaxMoves
  <2> TAKE s \in Sets
  <2>1. Writers(s) \in SUBSET Clients
    BY DEF Writers
  <2>2. Cardinality(Writers(s)) \in Nat
    BY <2>1, RebuildAssumption, FS_Subset, FS_CardinalityType
  <2> QED
    BY <2>2, RebuildAssumption DEF CountOK, TypeInv, Numbers
<1>2. ASSUME NEW f \in Numbers, Old(f) PROVE f \in [Sets -> Versions]
  BY <1>1, <1>2, RebuildAssumption DEF Numbers, Old, Versions
<1>3. src \in [Sets -> Versions] /\ out \in [Sets -> Versions]
  BY <1>2 DEF TypeInv, RunOK, Old, Numbers
<1>4. inputs \in [Sets -> Versions] \cup {None}
  <2> SUFFICES ASSUME inputs # None PROVE inputs \in [Sets -> Versions]
    OBVIOUS
  <2>1. inputs \in Numbers /\ \A s \in Sets : inputs[s] <= out[s] /\ out[s] <= src[s] /\ out[s] \in Nat
    BY DEF TypeInv, RunOK, Numbers
  <2>2. Old(inputs)
    BY <1>1, <2>1 DEF Old, Numbers
  <2> QED
    BY <1>2, <2>1, <2>2
<1>5. ASSUME NEW p \in Clients
      PROVE  \/ cmd[p] = Idle
             \/ cmd[p] \in [at : {"write", "run", "running"}, handler : Handlers, set : Sets]
             \/ cmd[p] \in [at : {"respond"}, handler : Handlers, set : Sets, result : Results]
  <2>1. CASE cmd[p].at = "respond"
    <3>1. cmd[p] \in [at : {"respond"}, handler : Handlers, set : Sets,
                      result : AnyResults]
      BY <2>1 DEF TypeInv, Commands, Idle
    <3>2. cmd[p].result.got \in [Sets -> Versions]
      BY <1>2, <2>1, <3>1 DEF ResultsOld
    <3>3. cmd[p].result \in Results
      BY <3>1, <3>2 DEF Results
    <3> QED
      BY <3>1, <3>3
  <2>2. CASE cmd[p].at # "respond"
    BY <2>2 DEF TypeInv, Commands
  <2> QED
    BY <2>1, <2>2
<1>6. watcher \in [at : {"wait", "run", "running"}] \cup [at : {"drain"}, result : Results]
  <2>1. CASE watcher.at = "drain"
    <3>1. watcher \in [at : {"drain"}, result : AnyResults]
      BY <2>1 DEF TypeInv, WatcherStates
    <3>2. watcher.result.got \in [Sets -> Versions]
      BY <1>2, <2>1, <3>1 DEF ResultsOld
    <3>3. watcher.result \in Results
      BY <3>1, <3>2 DEF Results
    <3> QED
      BY <3>1, <3>3
  <2>2. CASE watcher.at # "drain"
    BY <2>2 DEF TypeInv, WatcherStates
  <2> QED
    BY <2>1, <2>2
<1>7. cache \in [Sets -> Versions \cup {None}] /\ reports \in [Sets -> Versions]
  <2>1. \A s \in Sets : cache[s] \in Versions \cup {None}
    BY <1>1, RebuildAssumption DEF CacheOld, TypeInv, Versions
  <2> QED
    BY <1>2, <2>1 DEF TypeInv, ReportsOld
<1>8. notified \in 0 .. generation
  BY DEF GenerationsOK, TypeInv
<1> QED
  BY <1>3, <1>4, <1>5, <1>6, <1>7, <1>8 DEF TypeOK, LockOK, GuardsOK, Guarding

-----------------------------------------------------------------------------
\* A folder whose generated/ is current satisfies the invariant.
LEMMA InitIInv == Init => IInv
<1> SUFFICES ASSUME Init PROVE IInv
  OBVIOUS
<1>1. TypeInv
  BY DEF Init, TypeInv, Numbers, Commands, WatcherStates, Asleep
<1>2. \A p \in Clients : cmd[p] = Idle /\ cmd[p].at = "idle"
  BY DEF Init, Idle
<1>3. watcher.at = "wait" /\ lock = None /\ src = out /\ inputs = out /\ reports = out
  BY DEF Init, Asleep
<1>4. GuardsOK
  BY <1>2, FS_EmptySet DEF Init, GuardsOK, Guarding
<1>5. LockOK /\ RunOK /\ EditsOK /\ ResultsOK
  BY <1>1, <1>2, <1>3, RebuildAssumption DEF TypeInv, Numbers, LockOK, RunOK, EditsOK, Unbuilt, ResultsOK
<1>6. FillersOK /\ CacheOK
  BY <1>2, <1>3 DEF Init, FillersOK, CacheOK, Filler, Publishing, Owed
<1>7. ReportsOK /\ AloneOK /\ AnnouncedOK
  BY <1>3 DEF Init, ReportsOK, AloneOK, AnnouncedOK
<1>8. ResultsOld /\ CacheOld /\ ReportsOld /\ GenerationsOK
  BY <1>1, <1>2, <1>3 DEF Init, ResultsOld, CacheOld, ReportsOld, GenerationsOK, Old, TypeInv, Numbers
<1>9. CountOK
  <2>1. \A s \in Sets : Writers(s) = {}
    BY <1>2 DEF Writers
  <2> QED
    BY <2>1, FS_EmptySet, RebuildAssumption DEF Init, CountOK
<1> QED
  BY <1>1, <1>4, <1>5, <1>6, <1>7, <1>8, <1>9 DEF IInv

\* Every step of the user, the commands, the watcher and the threads keeps it.
LEMMA NextIInv == IInv /\ [Next]_vars => IInv'
<1>1. IInv /\ Next => IInv'
  BY TypeStep, GuardsStep, LockStep, RunStep, EditsStep, ResultsStep, FillersStep, CacheStep, ThreadSteps,
     ResultsOldStep, CacheOldStep, ReportsOldStep, CountStep
  DEF IInv
<1>2. ASSUME IInv, UNCHANGED vars PROVE IInv'
  <2>1. /\ UNCHANGED <<src, out, inputs, lock, run, cmd, guards, recent, watcher, os, rx, cache>>
        /\ UNCHANGED <<generation, threads, reports, notified, moves, disturbed, raced, crowded>>
    BY <1>2 DEF vars, shell, watch, reporting
  <2>2. TypeInv' /\ GuardsOK' /\ LockOK' /\ RunOK' /\ CountOK'
    BY <1>2, <2>1 DEF IInv, TypeInv, GuardsOK, Guarding, LockOK, RunOK, CountOK, Writers
  <2>3. EditsOK' /\ FillersOK' /\ CacheOK'
    BY <1>2, <2>1 DEF IInv, EditsOK, Unbuilt, WillBuild, Calm, InFlight, FillersOK, Filler, Publishing,
      CacheOK, Owed
  <2>4. ResultsOK' /\ ReportsOK' /\ AloneOK' /\ AnnouncedOK'
    BY <1>2, <2>1 DEF IInv, ResultsOK, ReportsOK, Wrote, AloneOK, AnnouncedOK
  <2>5. ResultsOld' /\ CacheOld' /\ ReportsOld' /\ GenerationsOK'
    BY <1>2, <2>1 DEF IInv, ResultsOld, CacheOld, ReportsOld, Old, GenerationsOK
  <2> QED
    BY <2>2, <2>3, <2>4, <2>5 DEF IInv
<1> QED
  BY <1>1, <1>2

\* So it always holds.
LEMMA AlwaysIInv == Spec => []IInv
BY InitIInv, NextIInv, PTL DEF Spec

\* The type invariant: every version in the cache, in a result or in the reports is
\* one that sources/ had, and the watcher is suppressed exactly while guarded
\* commands are in flight, whatever way they end (WatcherSuppressFlag).
THEOREM TypeCorrect == Spec => []TypeOK
<1>1. IInv => TypeOK
  BY BoundsHold DEF IInv
<1> QED
  BY <1>1, AlwaysIInv, PTL

\* An edit made while nothing else was at work is in generated/ once everything is
\* at rest: the suppression of the watcher, the scope of a command's run and the
\* early exit on inputs_hash lose none (start_file_watcher, run_pipeline), unless a
\* command without a run or a failing run came between.
THEOREM CalmEditsSafe == Spec => []CalmEditsAreBuilt
<1>1. IInv => CalmEditsAreBuilt
  <2> SUFFICES ASSUME IInv, Quiet, NEW s \in Unbuilt \ disturbed PROVE FALSE
    BY DEF CalmEditsAreBuilt
  <2>1. \A p \in Clients : cmd[p].at = "idle"
    BY CommandShapes DEF Quiet, InFlight, IInv
  <2>2. watcher.at = "wait" /\ lock = None
    BY <2>1, WatcherShapes DEF Quiet, IInv, LockOK
  <2> QED
    BY <2>1, <2>2 DEF Quiet, IInv, EditsOK, WillBuild, Calm
<1> QED
  BY <1>1, AlwaysIInv, PTL

\* With no answer under way the cached ledger of a set that no run raced for is the
\* one on disk (LedgerCache).
THEOREM CacheSafe == Spec => []CacheIsCurrent
<1>1. IInv => CacheIsCurrent
  <2> SUFFICES ASSUME IInv, \A p \in InFlight : cmd[p].at # "respond", watcher.at # "drain"
               PROVE  \A s \in Sets \ raced : cache[s] \in {None, out[s]}
    BY DEF CacheIsCurrent
  <2>1. ~Owed
    BY DEF Owed, Publishing, InFlight, Idle
  <2> QED
    BY <2>1 DEF IInv, CacheOK
<1> QED
  BY <1>1, AlwaysIInv, PTL

\* At rest the reports are those of the ledgers on disk, unless two report threads
\* were at work at once (spawn_report_generation).
THEOREM ReportsSafe == Spec => []ReportsAreCurrent
<1>1. IInv => ReportsAreCurrent
  <2> SUFFICES ASSUME IInv, Quiet, threads = {}, ~crowded PROVE reports = out
    BY DEF ReportsAreCurrent
  <2>1. ~Wrote
    BY DEF Quiet, InFlight, Idle, Asleep, Wrote
  <2> QED
    BY <2>1 DEF IInv, ReportsOK
<1> QED
  BY <1>1, AlwaysIInv, PTL

\* The UI is told of the youngest reports, in whatever order the threads end
\* (ReportGeneration).
THEOREM AnnouncedSafe == Spec => []LastReportsAnnounced
<1>1. IInv => LastReportsAnnounced
  BY DEF IInv, AnnouncedOK, LastReportsAnnounced
<1> QED
  BY <1>1, AlwaysIInv, PTL
=============================================================================
