------------------------------ MODULE LedgerText ------------------------------
(***************************************************************************)
(* Ledger files as text: how their lines are read (ledger_parser.rs), how  *)
(* the files of a set are read as one text, and how a transaction is added *)
(* to a text or left out of it (generated_store.rs).  A line is its kind   *)
(* and what of it matters; files are edited by hand a line at a time.      *)
(***************************************************************************)
EXTENDS Integers, Sequences, FiniteSets, Functions, Sums

CONSTANTS
  LedgerFileCount, \* files of a set
  TextLines,     \* lines a user may type
  Added,         \* the id of a transaction the program adds
  Nothing,       \* no transaction or account is being read
  MaxTextLines   \* bound

VARIABLE text    \* [file -> Seq(line)]

\* In the order they are read.
LedgerFiles == 1 .. LedgerFileCount

\* Kinds: blank, directive, note (an indented directive), account, header, dated (a date
\* alone, or one something else follows than a space), indented, other.  An indented line
\* has a word ("opening", "name" or an account) and may lack its amount or commodity.
Line(kind, word) == [kind |-> kind, word |-> word, complete |-> TRUE, qty |-> 1]
BlankLine == Line("blank", "")

\* manual_input_to_text.
NewBlock == <<Line("header", Added), Line("indented", "assets:cash"), Line("indented", "expenses:food")>>

AllLines == TextLines \cup {BlankLine} \cup Range(NewBlock)
Words == {l.word : l \in AllLines}
Postings == [account : Words, qty : {l.qty : l \in AllLines}]
OpenTransactions == [id : Words, line : Nat, postings : Seq(Postings)]
Declarations == [account : Words, opening : {Nothing} \cup [qty : {l.qty : l \in AllLines}], named : BOOLEAN]

ASSUME TextAssumption ==
  /\ LedgerFileCount \in Nat /\ MaxTextLines \in Nat
  /\ \A l \in TextLines : l.complete \in BOOLEAN
  /\ Nothing \notin OpenTransactions \cup Declarations

\* What n steps make of a beginning.
After(n, beginning, Step(_, _)) ==
  LET upto[i \in 0 .. n] == IF i = 0 THEN beginning ELSE Step(upto[i - 1], i)
  IN upto[n]

-----------------------------------------------------------------------------
(* parse_transactions, a line at a time.                                   *)
Clean == [txn |-> Nothing, decl |-> Nothing, transactions |-> <<>>, accounts |-> <<>>, diagnostics |-> {}]

Diagnosed(p, n) == [p EXCEPT !.diagnostics = @ \cup {n}]

\* Mutant of flush_transaction: what is flushed stays open.
FlushedOpen(p) ==
  IF p.txn = Nothing THEN p
  ELSE [p EXCEPT !.transactions = Append(@, [id |-> p.txn.id, postings |-> p.txn.postings]),
                 !.diagnostics = IF p.txn.postings = <<>> THEN @ \cup {p.txn.line} ELSE @]

flush_transaction(p) ==
  IF p.txn = Nothing THEN p
  ELSE [p EXCEPT !.txn = Nothing,
                 !.transactions = Append(@, [id |-> p.txn.id, postings |-> p.txn.postings]),
                 !.diagnostics = IF p.txn.postings = <<>> THEN @ \cup {p.txn.line} ELSE @]

Flush(p) ==
  LET q == flush_transaction(p) IN
  IF q.decl = Nothing THEN q ELSE [q EXCEPT !.decl = Nothing, !.accounts = Append(@, q.decl)]

OpenTransaction(p, l, n) == [p EXCEPT !.txn = [id |-> l.word, line |-> n, postings |-> <<>>]]
OpenDeclaration(p, l) == [p EXCEPT !.decl = [account |-> l.word, opening |-> Nothing, named |-> FALSE]]

\* In a transaction: account, amount and commodity; without one of them nothing is added.
WithPosting(txn, l) == [txn EXCEPT !.postings = Append(@, [account |-> l.word, qty |-> l.qty])]
ReadPosting(p, l, n) == IF l.complete THEN [p EXCEPT !.txn = WithPosting(@, l)] ELSE Diagnosed(p, n)

\* In a declaration: one opening and one name.
WithEntry(decl, l) == IF l.word = "name" THEN [decl EXCEPT !.named = TRUE] ELSE [decl EXCEPT !.opening = [qty |-> l.qty]]
IsFirst(decl, l) == \/ l.word = "opening" /\ decl.opening = Nothing
                    \/ l.word = "name" /\ ~decl.named
ReadEntry(p, l, n) ==
  IF l.complete /\ IsFirst(p.decl, l) THEN [p EXCEPT !.decl = WithEntry(@, l)] ELSE Diagnosed(p, n)

ReadIndented(p, l, n) ==
  IF p.txn # Nothing THEN ReadPosting(p, l, n)
  ELSE IF p.decl # Nothing THEN ReadEntry(p, l, n) ELSE Diagnosed(p, n)

ReadHeader(p, l, n) ==
  IF l.complete THEN OpenTransaction(Flush(p), l, n) ELSE Diagnosed(OpenTransaction(Flush(p), l, n), n)

ReadAccount(p, l, n) ==
  IF l.complete THEN OpenDeclaration(Flush(p), l) ELSE Diagnosed(Flush(p), n)

ReadLine(p, l, n) ==
  CASE l.kind = "blank" -> Flush(p)
    [] l.kind \in {"directive", "note"} -> p
    [] l.kind = "account" -> ReadAccount(p, l, n)
    [] l.kind = "indented" -> ReadIndented(p, l, n)
    [] l.kind = "header" -> ReadHeader(p, l, n)
    [] OTHER -> Diagnosed(p, n)

Read(lines) == After(Len(lines), Clean, LAMBDA p, n : ReadLine(p, lines[n], n))

parse_transactions(lines) ==
  LET p == Flush(Read(lines))
  IN [transactions |-> p.transactions, accounts |-> p.accounts, diagnostics |-> p.diagnostics]

-----------------------------------------------------------------------------
(* The files of a set as one text, a blank line after each.                *)
IsBlank(lines) == \A i \in DOMAIN lines : lines[i].kind = "blank"

\* Mutant of append_file_to_text: nothing is put between the files.
AppendClosely(ledger, f) ==
  IF IsBlank(text[f]) THEN ledger
  ELSE [lines |-> ledger.lines \o text[f],
        ranges |-> Append(ledger.ranges, [file |-> f, start |-> Len(ledger.lines) + 1,
                                          end |-> Len(ledger.lines) + Len(text[f])])]

append_file_to_text(ledger, f) ==
  IF IsBlank(text[f]) THEN ledger
  ELSE [lines |-> ledger.lines \o text[f] \o <<BlankLine>>,
        ranges |-> Append(ledger.ranges, [file |-> f, start |-> Len(ledger.lines) + 1,
                                          end |-> Len(ledger.lines) + Len(text[f])])]

load_ledger_text == After(LedgerFileCount, [lines |-> <<>>, ranges |-> <<>>], append_file_to_text)

\* The file of a line, and the line's number there; the program only says the former.
resolve_file_for_line(ranges, n) ==
  {<<ranges[i].file, n - ranges[i].start + 1>> : i \in {k \in DOMAIN ranges : ranges[k].start <= n /\ n <= ranges[k].end}}
Located(diagnostics, ranges) == UNION {resolve_file_for_line(ranges, n) : n \in diagnostics}

\* Sorted by date afterwards, which is left out: no line has one.
load_active_ledger == parse_transactions(load_ledger_text.lines)

-----------------------------------------------------------------------------
(* Blocks of lines between blank ones.                                     *)

\* By its first ten characters: the parser also wants a space after them.
looks_like_header(l) == l.kind \in {"header", "dated"}

\* By its first four: the parser sees first whether it is a directive.
is_posting(l) == l.kind \in {"indented", "note"}

\* A header right below a posting gets a blank line above it; those at the end go.
WithLine(lines, l) ==
  IF looks_like_header(l) /\ lines # <<>> /\ is_posting(lines[Len(lines)]) THEN lines \o <<BlankLine, l>>
  ELSE Append(lines, l)
Spaced(lines) == After(Len(lines), <<>>, LAMBDA out, n : WithLine(out, lines[n]))

\* Up to the last line that is not blank.
Trimmed(lines) ==
  IF IsBlank(lines) THEN <<>>
  ELSE SubSeq(lines, 1, CHOOSE i \in DOMAIN lines : /\ lines[i].kind # "blank"
                                                     /\ \A j \in DOMAIN lines : lines[j].kind # "blank" => j <= i)
normalize_blank_lines(lines) == Trimmed(Spaced(lines))

Separated(lines) == IF lines = <<>> THEN lines ELSE Append(lines, BlankLine)

append_text(lines, block) == Separated(normalize_blank_lines(lines)) \o block

-----------------------------------------------------------------------------
TextInit == text = [f \in LedgerFiles |-> <<>>]

TypedLines == SumOver(LedgerFiles, [f \in LedgerFiles |-> Len(text[f])])

TypeLine(f, l) ==
  /\ TypedLines < MaxTextLines
  /\ text' = [text EXCEPT ![f] = Append(@, l)]

AppendTransaction(f) ==
  /\ \A i \in DOMAIN text[f] : text[f][i].word # Added
  /\ text' = [text EXCEPT ![f] = append_text(@, NewBlock)]

TextNext == \E f \in LedgerFiles : AppendTransaction(f) \/ \E l \in TextLines : TypeLine(f, l)

TextSpec == TextInit /\ [][TextNext]_text

-----------------------------------------------------------------------------
(* Properties.                                                             *)

TextTypeOK == text \in [LedgerFiles -> Seq(AllLines)]

\* Reading the files as one text gives what reading each of them gives: no line of one
\* is taken into a transaction or account of another, and each diagnostic is that of
\* a line of the file it is ascribed to.
Joined(parts) == After(LedgerFileCount, <<>>, LAMBDA out, f : out \o parts[f])
MergedIsTheFiles ==
  LET Of(f) == parse_transactions(text[f])
      merged == load_active_ledger
  IN /\ merged.transactions = Joined([f \in LedgerFiles |-> Of(f).transactions])
     /\ merged.accounts = Joined([f \in LedgerFiles |-> Of(f).accounts])
     /\ Located(merged.diagnostics, load_ledger_text.ranges)
          = UNION {{<<f, n>> : n \in Of(f).diagnostics} : f \in LedgerFiles}

\* A line that is no header for the parser, and ends no transaction, but gets a blank line
\* above it, which does: the postings below it are lost to the transaction.
Splits(lines) == \E i \in 2 .. Len(lines) : lines[i].kind = "dated" /\ is_posting(lines[i - 1])

\* A transaction added to a file is read as it was written, and what else the file holds
\* is read as before: the last transaction of the file takes none of its lines, and what
\* is put between the lines of the file changes none of its transactions (append_text,
\* generated_store.rs 84-136).  Not claimed of a file with a bare date right below a
\* posting, which the two places that look for headers take differently.
AppendAddsOne ==
  \A f \in LedgerFiles :
    LET new == [id |-> Added, postings |-> <<[account |-> "assets:cash", qty |-> 1], [account |-> "expenses:food", qty |-> 1]>>]
        before == parse_transactions(text[f])
        after == parse_transactions(append_text(text[f], NewBlock))
    IN ~Splits(text[f]) => after.transactions = Append(before.transactions, new) /\ after.accounts = before.accounts
====
