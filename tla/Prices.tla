-------------------------------- MODULE Prices --------------------------------
(***************************************************************************)
(* The price files, one per commodity: set_price and import_prices rewrite *)
(* them (processing_pipeline.rs), so does a price plugin, and values are   *)
(* converted with what they hold (ledger_parser.rs).                       *)
(***************************************************************************)
EXTENDS Naturals, Sequences, SequencesExt, FiniteSets, Ordering

CONSTANTS
  PriceSymbols, BaseCurrency, PluginCurrency,
  PriceDays, PriceAmounts,
  Comment,              \* a line parse_prices does not read as a price
  Commands, PricePlugins,
  PriceImports,         \* files to import: sequences of lines
  FilesAtStart,         \* [symbol -> lines]
  Done, NotRead,        \* sentinels
  NoPrice, MaxPriceChanges

VARIABLES
  files,      \* [symbol -> lines of _prices/<symbol>.txt]
  job,        \* [writer -> [kind, new, left: symbols to do] or Done]
  reading,    \* [writer -> [symbol, lines: what it read] or NotRead]
  overlapped, \* two writers have worked on one file at the same time
  priceChanges

priceVars == <<files, job, reading, overlapped, priceChanges>>

PriceWriters == Commands \cup PricePlugins
PriceCurrencies == PriceSymbols \cup {BaseCurrency, PluginCurrency}

-----------------------------------------------------------------------------
(* Lines.  A moment is written as a date, as the start of that day         *)
(* (T00:00:00Z) or as a later time of it: forms 0, 1 and 2, in the order   *)
(* of the text.                                                            *)
Forms == 0 .. 2
PriceMoments == PriceDays \X Forms

Price(s, d, form, a, q) == [symbol |-> s, day |-> d, form |-> form, amount |-> a, quote |-> q]
When(p) == <<p.day, p.form>>

PriceSet == [symbol : PriceSymbols, day : PriceDays, form : Forms, amount : PriceAmounts, quote : PriceCurrencies]
PriceLines == PriceSet \cup {Comment}

\* What a writer has to do, and what it has read.
PriceJobs == [kind : {"set", "merge", "replace", "plugin"}, new : Seq(PriceSet), left : SUBSET PriceSymbols]
PriceFiles == [symbol : PriceSymbols, lines : Seq(PriceLines)]

ASSUME PriceAssumption ==
  /\ Commands \intersect PricePlugins = {} /\ MaxPriceChanges \in Nat
  /\ PriceDays \cup PriceAmounts \subseteq Nat \ {0}
  /\ PriceImports \subseteq Seq(PriceLines) /\ FilesAtStart \in [PriceSymbols -> Seq(PriceLines)]
  /\ Comment \notin PriceSet /\ Done \notin PriceJobs /\ NotRead \notin PriceFiles

parse_prices(lines) == Only(lines, {i \in DOMAIN lines : lines[i] # Comment})

PricesOf(ps, s) == Only(ps, {i \in DOMAIN ps : ps[i].symbol = s})

EarlierText(p, q) == p.day < q.day \/ (p.day = q.day /\ p.form < q.form)

\* normalize_datetime_for_compare: a date is the start of its day.
Midday(form) == IF form = 2 THEN 1 ELSE 0
EarlierTime(p, q) == p.day < q.day \/ (p.day = q.day /\ Midday(p.form) < Midday(q.form))

\* A stable sort.
SortedByText(ps) ==
  Taken(ps, Sorted(DOMAIN ps, LAMBDA i, j : EarlierText(ps[i], ps[j]) \/ (~EarlierText(ps[j], ps[i]) /\ i < j)))

\* Mutant of Kept: what is there stays.
KeptAll(new, old) == parse_prices(old)
Kept(new, old) ==
  LET ps == parse_prices(old)
  IN Only(ps, {i \in DOMAIN ps : \A j \in DOMAIN new : When(new[j]) # When(ps[i])})

\* set_price_directive and import_prices_file: lines that are no prices are lost.
Rewritten(kind, new, old) ==
  SortedByText(IF kind = "replace" THEN new ELSE new \o Kept(new, old))

\* The plugin keeps one price of each day, the last, and writes all of them anew.
DaysOf(ps) == {ps[i].day : i \in DOMAIN ps}
LastOf(ps, d) == CHOOSE i \in DOMAIN ps : ps[i].day = d /\ \A j \in DOMAIN ps : ps[j].day = d => j <= i
Restated(s, new, old) ==
  LET all == parse_prices(old) \o new
      days == InOrder(DaysOf(all))
  IN [n \in DOMAIN days |-> Price(s, days[n], 1, all[LastOf(all, days[n])].amount, PluginCurrency)]

-----------------------------------------------------------------------------
(* Conversion.                                                             *)

\* PriceGraph::load and build: the prices of a commodity, as the file they are in, by
\* its number in the directory, and their place in it.
Directory == SetToSeq(PriceSymbols)
At(x) == files[Directory[x[1]]][x[2]]
Graph(s) ==
  UNION {{x \in {n} \X DOMAIN files[Directory[n]] : At(x) # Comment /\ At(x).symbol = s} : n \in DOMAIN Directory}

\* PriceGraph::lookup: the nearest price at or before the time asked for; of prices of
\* one time the last, as the sort is stable.
lookup(s, at) ==
  LET found == {x \in Graph(s) : ~EarlierTime(at, At(x))}
      Before(x, y) == x[1] < y[1] \/ (x[1] = y[1] /\ x[2] < y[2])
      Nearer(x, y) == EarlierTime(At(y), At(x)) \/ (~EarlierTime(At(x), At(y)) /\ Before(y, x))
  IN IF found = {} THEN NoPrice ELSE At(CHOOSE x \in found : \A y \in found \ {x} : Nearer(x, y))

\* In base currency, in one step or two.
convert_to_base(s, at) ==
  LET p == lookup(s, at)
      p2 == lookup(p.quote, at)
  IN IF s = BaseCurrency THEN 1
     ELSE IF p = NoPrice THEN NoPrice
     ELSE IF p.quote = BaseCurrency THEN p.amount
     ELSE IF p2 # NoPrice /\ p2.quote = BaseCurrency THEN p.amount * p2.amount ELSE NoPrice

-----------------------------------------------------------------------------
PricesInit ==
  /\ files = FilesAtStart
  /\ job = [w \in PriceWriters |-> Done]
  /\ reading = [w \in PriceWriters |-> NotRead]
  /\ overlapped = FALSE /\ priceChanges = 0

Begin(w, kind, new) ==
  /\ job[w] = Done /\ priceChanges < MaxPriceChanges /\ new # <<>>
  /\ priceChanges' = priceChanges + 1
  /\ job' = [job EXCEPT ![w] = [kind |-> kind, new |-> new, left |-> {new[i].symbol : i \in DOMAIN new}]]
  /\ UNCHANGED <<files, reading, overlapped>>

\* Whatever time the value is of, the price is written for the day.
set_price(w, s, d, a) == Begin(w, "set", <<Price(s, d, 0, a, BaseCurrency)>>)

\* Without a single price in it the file is refused.
import_prices(w, lines, merge) == Begin(w, IF merge THEN "merge" ELSE "replace", parse_prices(lines))

run_price_plugin(w, s, d, a) == Begin(w, "plugin", <<Price(s, d, 1, a, PluginCurrency)>>)

ReadPrices(w) ==
  /\ job[w] # Done /\ reading[w] = NotRead
  /\ \E s \in job[w].left :
       /\ reading' = [reading EXCEPT ![w] = [symbol |-> s, lines |-> files[s]]]
       /\ overlapped' = (overlapped \/ \E v \in PriceWriters : reading[v] # NotRead /\ reading[v].symbol = s)
  /\ UNCHANGED <<files, job, priceChanges>>

Written(w) ==
  LET s == reading[w].symbol
      new == PricesOf(job[w].new, s)
  IN IF job[w].kind = "plugin" THEN Restated(s, new, reading[w].lines)
     ELSE Rewritten(job[w].kind, new, reading[w].lines)

LeftAfter(j, s) == IF j.left = {s} THEN Done ELSE [j EXCEPT !.left = @ \ {s}]

WritePrices(w) ==
  /\ reading[w] # NotRead
  /\ LET s == reading[w].symbol IN
       /\ files' = [files EXCEPT ![s] = Written(w)]
       /\ job' = [job EXCEPT ![w] = LeftAfter(job[w], s)]
  /\ reading' = [reading EXCEPT ![w] = NotRead]
  /\ UNCHANGED <<overlapped, priceChanges>>

PricesNext ==
  \/ \E w \in Commands :
       \/ \E s \in PriceSymbols, d \in PriceDays, a \in PriceAmounts : set_price(w, s, d, a)
       \/ \E lines \in PriceImports, merge \in BOOLEAN : import_prices(w, lines, merge)
  \/ \E w \in PricePlugins, s \in PriceSymbols, d \in PriceDays, a \in PriceAmounts : run_price_plugin(w, s, d, a)
  \/ \E w \in PriceWriters : ReadPrices(w) \/ WritePrices(w)

PricesSpec == PricesInit /\ [][PricesNext]_priceVars

-----------------------------------------------------------------------------
(* Properties.                                                             *)

PricesTypeOK ==
  /\ files \in [PriceSymbols -> Seq(PriceLines)]
  /\ job \in [PriceWriters -> PriceJobs \cup {Done}]
  /\ reading \in [PriceWriters -> PriceFiles \cup {NotRead}]
  /\ \A w \in PriceWriters : reading[w] # NotRead => job[w] # Done /\ reading[w].symbol \in job[w].left
  /\ overlapped \in BOOLEAN /\ priceChanges \in 0 .. MaxPriceChanges

\* The last price a file has for a moment.
PlacesOf(lines, m) == {i \in DOMAIN lines : lines[i] # Comment /\ When(lines[i]) = m}
Held(lines, m) ==
  LET at == PlacesOf(lines, m) IN
  IF at = {} THEN NoPrice
  ELSE LET p == lines[CHOOSE i \in at : \A j \in at : j <= i] IN <<p.amount, p.quote>>

TableRow(lines) == [m \in PriceMoments |-> Held(lines, m)]

QuotedPrices == PriceAmounts \X PriceCurrencies
PriceRequests == [kind : {"set", "merge", "replace", "plugin"}, new : [PriceMoments -> QuotedPrices \cup {NoPrice}]]

ASSUME TableAssumption == NoPrice \notin QuotedPrices /\ Done \notin PriceRequests

Request(j, s) ==
  IF j = Done THEN Done
  ELSE IF s \notin j.left THEN Done ELSE [kind |-> j.kind, new |-> TableRow(PricesOf(j.new, s))]

Table == INSTANCE PriceTable WITH
  Clients <- PriceWriters, Symbols <- PriceSymbols, Moments <- PriceMoments, Quoted <- QuotedPrices,
  NoRequest <- Done, DayOf <- [m \in PriceMoments |-> m[1]],
  table <- [s \in PriceSymbols |-> TableRow(files[s])],
  requested <- [w \in PriceWriters |-> [s \in PriceSymbols |-> Request(job[w], s)]],
  clashed <- overlapped

\* The files implement the table: no change loses a price it was not asked to replace
\* ("merging with existing entries", "they merge new dates into the existing files").
ImplementsPriceTable == Table!Spec

\* "Set (or replace) a single price directive for a commodity at a given datetime"
\* (set_price_directive): once a price is set for a day, that day is valued with it.
SetPriceIsUsed ==
  [][\A w \in Commands, s \in PriceSymbols, d \in PriceDays, a \in PriceAmounts :
       (/\ job[w] # Done /\ job'[w] = Done /\ ~overlapped
        /\ job[w].kind = "set" /\ job[w].new = <<Price(s, d, 0, a, BaseCurrency)>>)
         => convert_to_base(s, [day |-> d, form |-> 0])' = a]_priceVars
====
