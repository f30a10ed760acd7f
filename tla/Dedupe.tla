-------------------------------- MODULE Dedupe --------------------------------
(***************************************************************************)
(* arimalo_dedupe: records that several exports of one account have in     *)
(* common are kept in one of the files (dedupe/*.rs).  The files are read  *)
(* at the start, planned for folder by folder, and changed one by one;     *)
(* the run may be stopped at any step and files may change meanwhile.      *)
(***************************************************************************)
EXTENDS Integers, Sequences, FiniteSets, FiniteSetsExt, Ordering

CONSTANTS
  Exports,      \* file names, in their order: numbers
  FileGroups,   \* sequence of sets of exports: those of one folder and kind
  StatedSpan,   \* [export -> days from DTSTART to DTEND, or NoSpan]
  RecordKeys,   \* what a row or FITID is compared by
  BlankRow, NoSpan, Gone, NoRun, \* sentinels
  ExportContents, Replacements, \* bounds: what the files hold, and are changed to
  MaxExportEdits

ASSUME DedupeAssumption ==
  /\ Exports \subseteq Nat /\ IsFiniteSet(Exports)
  /\ FileGroups \in Seq(SUBSET Exports)
  /\ \A m, n \in DOMAIN FileGroups : m # n => FileGroups[m] \cap FileGroups[n] = {}
  /\ StatedSpan \in [Exports -> Int \cup {NoSpan}]
  /\ MaxExportEdits \in Nat

VARIABLES
  content,   \* [export -> Seq([key, day]), or Gone]
  archived,  \* [export -> what was moved out of the sources, or Gone]
  run,       \* NoRun, or [scanned, next group, plan, strips left]
  writing,   \* the file being rewritten, if any: [export -> its new rows]
  cutShort,  \* keys in the lost part of a file in whose rewrite the run was stopped
  had,       \* keys in the sources when the run began
  meddled,   \* a file changed since
  completed, \* the run came to its end
  exportEdits

dedupeVars == <<content, archived, run, writing, cutShort, had, meddled, completed, exportEdits>>

-----------------------------------------------------------------------------
(* The plan of a folder.                                                   *)
Rows == [key : RecordKeys \cup {BlankRow}, day : Nat]

ASSUME RowsAssumption ==
  /\ ExportContents \subseteq Seq(Rows) /\ Replacements \subseteq Seq(Rows)
  /\ BlankRow \notin RecordKeys /\ Gone \notin Seq(Rows)

Days(rows) == {rows[i].day : i \in DOMAIN rows}

\* span_days_from_dt, span_days_from_rows.
Span(f, rows) ==
  IF StatedSpan[f] # NoSpan THEN StatedSpan[f]
  ELSE IF rows = <<>> THEN 0 ELSE Max(Days(rows)) - Min(Days(rows))

\* cmp_winner: the wider span, the larger file, the earlier name.
Beats(c, f, g) ==
  \/ Span(f, c[f]) > Span(g, c[g])
  \/ Span(f, c[f]) = Span(g, c[g]) /\ Len(c[f]) > Len(c[g])
  \/ Span(f, c[f]) = Span(g, c[g]) /\ Len(c[f]) = Len(c[g]) /\ f < g

With(c, group, k) == {f \in group : c[f] # Gone /\ \E i \in DOMAIN c[f] : c[f][i].key = k}

Winner(c, group, k) ==
  CHOOSE g \in With(c, group, k) : \A h \in With(c, group, k) \ {g} : Beats(c, g, h)

Filled(rows) == {i \in DOMAIN rows : rows[i].key # BlankRow}
Strip(c, group, f) == {i \in Filled(c[f]) : Winner(c, group, c[f][i].key) # f}
HasStrips(c, group) == {f \in group : c[f] # Gone /\ Strip(c, group, f) # {}}

\* Nothing is left of it: it goes to the archive.
Archives(c, group) ==
  {f \in HasStrips(c, group) : Cardinality(Strip(c, group, f)) = Cardinality(Filled(c[f]))}

plan_folder(c, group) ==
  [strips |-> [f \in HasStrips(c, group) |-> Strip(c, group, f)], archives |-> Archives(c, group)]

-----------------------------------------------------------------------------
(* The run.                                                                *)
KeysOf(rows) == {rows[i].key : i \in DOMAIN rows} \ {BlankRow}
KeysIn(c) == UNION {KeysOf(c[f]) : f \in {g \in Exports : c[g] # Gone}}

DedupeInit ==
  /\ content \in [Exports -> ExportContents]
  /\ archived = [f \in Exports |-> Gone]
  /\ run = NoRun /\ writing = << >> /\ cutShort = {} /\ had = {} /\ meddled = FALSE /\ completed = FALSE /\ exportEdits = 0

Scan ==
  /\ run = NoRun /\ writing = << >> /\ ~completed
  /\ run' = [scanned |-> content, next |-> 1,
             plan |-> [strips |-> << >>, archives |-> {}], left |-> {}]
  /\ had' = KeysIn(content) /\ cutShort' = {} /\ meddled' = FALSE
  /\ UNCHANGED <<content, archived, writing, completed, exportEdits>>

\* A folder with one file of a kind is passed over: its plan would be empty.
Plan ==
  /\ run # NoRun /\ writing = << >> /\ run.left = {} /\ run.next <= Len(FileGroups)
  /\ LET plan == plan_folder(run.scanned, FileGroups[run.next]) IN
       run' = [scanned |-> run.scanned, next |-> run.next + 1, plan |-> plan, left |-> DOMAIN plan.strips]
  /\ UNCHANGED <<content, archived, writing, cutShort, had, meddled, completed, exportEdits>>

WithoutRows(rows, at) == Only(rows, DOMAIN rows \ at)

\* Mutant of Stripped: the header is counted as a row.
StrippedFromHeader(rows, at) == WithoutRows(rows, {i - 1 : i \in at})

\* What is stripped are the places planned, of the file as it is by now.
Stripped(rows, at) == WithoutRows(rows, at)

\* The next file of the plan; it must be there.
Turn(f) ==
  /\ run # NoRun /\ writing = << >>
  /\ f \in run.left /\ \A g \in run.left : f <= g
  /\ content[f] # Gone
  /\ run' = [run EXCEPT !.left = @ \ {f}]
  /\ UNCHANGED <<cutShort, had, meddled, completed, exportEdits>>

archive_file(f) ==
  /\ Turn(f) /\ f \in run.plan.archives
  /\ content' = [content EXCEPT ![f] = Gone]
  /\ archived' = [archived EXCEPT ![f] = content[f]]
  /\ UNCHANGED writing

\* The file is read, and truncated by the write of what is left of it ...
BeginStrip(f) ==
  /\ Turn(f) /\ f \notin run.plan.archives
  /\ content' = [content EXCEPT ![f] = << >>]
  /\ writing' = [g \in {f} |-> Stripped(content[f], run.plan.strips[f])]
  /\ UNCHANGED archived

\* What the sources hold, with the file being rewritten as it will be.
Intended == [f \in Exports |-> IF f \in DOMAIN writing THEN writing[f] ELSE content[f]]

\* ... which then is all there.
EndStrip ==
  /\ run # NoRun /\ writing # << >>
  /\ content' = Intended
  /\ writing' = << >>
  /\ UNCHANGED <<archived, run, cutShort, had, meddled, completed, exportEdits>>

Report ==
  /\ run # NoRun /\ writing = << >> /\ run.left = {} /\ run.next > Len(FileGroups)
  /\ run' = NoRun /\ completed' = TRUE
  /\ UNCHANGED <<content, archived, writing, cutShort, had, meddled, exportEdits>>

\* An error, of an OFX file that does not parse or a file that is gone, or a crash.
\* Of a file that was being written the first rows are there, or none.
StopRun ==
  /\ run # NoRun
  /\ run' = NoRun /\ writing' = << >>
  /\ \/ writing = << >> /\ UNCHANGED <<content, cutShort>>
     \/ \E f \in DOMAIN writing : \E n \in 0 .. Len(writing[f]) :
          /\ content' = [content EXCEPT ![f] = SubSeq(writing[f], 1, n)]
          /\ cutShort' = KeysOf(SubSeq(writing[f], n + 1, Len(writing[f])))
  /\ UNCHANGED <<archived, had, meddled, completed, exportEdits>>

\* A new export takes the place of an old one, or a plugin writes its file again.
EditExport(f, rows) ==
  /\ exportEdits < MaxExportEdits /\ exportEdits' = exportEdits + 1
  /\ content' = [content EXCEPT ![f] = rows]
  /\ meddled' = TRUE /\ completed' = FALSE
  /\ UNCHANGED <<archived, run, writing, cutShort, had>>

DedupeNext ==
  \/ Scan \/ Plan \/ EndStrip \/ Report \/ StopRun
  \/ \E f \in Exports : archive_file(f) \/ BeginStrip(f)
  \/ \E f \in Exports, rows \in Replacements : EditExport(f, rows)

DedupeSpec == DedupeInit /\ [][DedupeNext]_dedupeVars

-----------------------------------------------------------------------------
(* Properties.                                                             *)
DedupeTypeOK ==
  /\ \A f \in Exports : content[f] = Gone \/ KeysOf(content[f]) \subseteq RecordKeys
  /\ run # NoRun => DOMAIN run.plan.strips \subseteq Exports /\ run.left \subseteq DOMAIN run.plan.strips
  /\ had \subseteq RecordKeys

\* No record leaves the sources, between whichever steps the run is stopped, and at its
\* end each is in one file of its folder.  Not claimed of the rows of the one file that
\* is rewritten: a strip truncates it first, and what was not written again when the run
\* was stopped is lost.  Nor of files that change while it runs: their rows are
\* stripped by place.
RecordsSurvive ==
  ~meddled =>
    /\ run # NoRun \/ had # {} => KeysIn(Intended) \cup cutShort = had
    /\ completed => \A n \in DOMAIN FileGroups, k \in RecordKeys :
                      Cardinality(With(content, FileGroups[n], k)) <= 1
====
