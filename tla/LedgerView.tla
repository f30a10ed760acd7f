------------------------------ MODULE LedgerView ------------------------------
(***************************************************************************)
(* From a row of a source to what a query shows: the legs a row is turned  *)
(* into, what labels and rules make of them (csv_transform.rs), which      *)
(* folders a query loads (generated_store.rs), and how it matches, hides   *)
(* and adds up transactions (query.rs).  The user adds rows, rules and     *)
(* labels; queries are asked with and without Show Ignored.  The pipeline  *)
(* in between is that of IncrementalBuild, here its output is always up to date.  *)
(***************************************************************************)
EXTENDS Integers, Sequences, SequencesExt, FiniteSets, Functions, Sums

CONSTANTS
  Own,         \* [folder -> account its name derives to]
  Below,       \* [account -> accounts at or under it]
  Containing,  \* [account -> accounts whose name contains its name]
  RowKinds,    \* rows a transform may return, see map_to_transaction
  Contras,     \* accounts a rule may route to
  IgnoreAccounts, \* "ignore" and accounts under it
  HiddenAccounts, \* those at hidden_accounts of config.json, which may be others
  Unknown, TransferAccount, FeeAccount, \* accounts the code names
  FeesParsed,  \* accounts under expenses:fees
  Canonical,   \* what a label renames a commodity to
  Aliases,     \* commodities that may be renamed
  SearchTokens,\* searches: sequences of terms, "AND" and "OR"
  NoRule, NoSearch, MaxRows, MaxRules \* bounds

ViewFolders == DOMAIN Own

\* Rows: a payee, a day, an amount and a fee in their commodities, and the legs the
\* transform gave, if it did.
Payees == {k.payee : k \in RowKinds}
Commodities == {Canonical} \cup UNION {{k.commodity, k.feeIn} \cup {k.legs[i].commodity : i \in DOMAIN k.legs} : k \in RowKinds}
RowAccounts == UNION {{k.legs[i].account : i \in DOMAIN k.legs} : k \in RowKinds}
RowLegs == [account : RowAccounts, qty : Int, commodity : Commodities]

ASSUME ViewAssumption ==
  /\ IsFiniteSet(ViewFolders) /\ MaxRows \in Nat /\ MaxRules \in Nat
  /\ (IgnoreAccounts \cup HiddenAccounts) \intersect Range(Own) = {}
  /\ \A k \in RowKinds : k.amount \in Int /\ k.fee \in Int /\ k.legs \in Seq(RowLegs)

RuleTargets == Contras \cup IgnoreAccounts \cup HiddenAccounts

VARIABLES
  rows,        \* [folder -> Seq(row)]
  rules,       \* [folder -> [payee -> the account its rule routes to]]
  labels       \* [folder -> commodities a label renames]

viewVars == <<rows, rules, labels>>

-----------------------------------------------------------------------------
(* Legs: sequences of [account, qty, commodity].                            *)

Leg(a, q, c) == [account |-> a, qty |-> q, commodity |-> c]

\* Mutant of AssetAmount: the fee is not taken from the asset.
AssetAmountGross(row) == row.amount

\* A fee in the same commodity is taken from the asset, which is net then.
AssetAmount(row) == IF row.feeIn = row.commodity THEN row.amount - row.fee ELSE row.amount

\* A row with legs of its own, or one amount and perhaps a fee.
map_to_transaction(f, row) ==
  IF row.legs # <<>> THEN row.legs
  ELSE <<Leg(Own[f], AssetAmount(row), row.commodity), Leg(Unknown, -row.amount, row.commodity)>>
       \o (IF row.fee # 0 THEN <<Leg(FeeAccount, row.fee, row.feeIn)>> ELSE <<>>)

Renames(f, c) == c \in labels[f]

\* A label looks at the commodity of the amount, and renames all legs in it.
Renamed(legs, f) ==
  LET c == legs[1].commodity IN
  [i \in DOMAIN legs |-> IF Renames(f, c) /\ legs[i].commodity = c THEN [legs[i] EXCEPT !.commodity = Canonical]
                                                                  ELSE legs[i]]

\* Mutant of Routed: what is hidden stays on the wallet.
RoutedContraOnly(legs, to) == [legs EXCEPT ![2].account = to]

\* The contra leg goes where the rule says; the wallet's too if that is to be ignored,
\* which the code names, and not if it is only configured to be hidden.
Routed(legs, to) ==
  LET contra == [legs EXCEPT ![2].account = to] IN
  IF to \in IgnoreAccounts THEN [contra EXCEPT ![1].account = to] ELSE contra

\* A contra of nothing is dropped from three legs.
apply_rule_accounts(legs, to) ==
  IF Len(legs) >= 3 /\ legs[2].qty = 0 THEN RemoveAt(Routed(legs, to), 2) ELSE Routed(legs, to)

\* The rule, else the self-transfer of a row that names a declared account.
apply_labels_and_rules(f, row, rule) ==
  LET legs == Renamed(map_to_transaction(f, row), f) IN
  IF rule # NoRule THEN apply_rule_accounts(legs, rule)
  ELSE IF row.names THEN [legs EXCEPT ![2].account = TransferAccount] ELSE legs

\* What the parser takes for a fee when the generated ledger is read again.
ParsedFee(legs) == IF Len(legs) >= 3 /\ Last(legs).account \in FeesParsed THEN Last(legs).qty ELSE 0

\* As flush_transaction has it: the amount is that of the first leg, the commodity
\* the one of the source, which a label leaves in the meta comment.
Transaction(f, i, rule) ==
  LET row == rows[f][i]
      legs == apply_labels_and_rules(f, row, rule)
  IN [folder |-> f, i |-> i, payee |-> row.payee, day |-> row.day, hash |-> row.hash, legs |-> legs,
      amount |-> legs[1].qty, commodity |-> map_to_transaction(f, row)[1].commodity, fee |-> ParsedFee(legs)]

Ledger == UNION {{Transaction(f, i, rules[f][rows[f][i].payee]) : i \in DOMAIN rows[f]} : f \in ViewFolders}

-----------------------------------------------------------------------------
(* Searches.  A term is [field, of, name, negated]; of is the set of values *)
(* it matches.                                                              *)

IsTerm(token) == token \notin {[op |-> "AND"], [op |-> "OR"]}

\* Terms with one operator between each two; parse_search refuses all else.
parse_search(tokens) ==
  IF \A i \in DOMAIN tokens : IsTerm(tokens[i]) <=> (i % 2 = 1)
  THEN IF Len(tokens) % 2 = 1 \/ tokens = <<>> THEN tokens ELSE NoSearch
  ELSE NoSearch

\* AND binds tighter: an OR of the terms between two ORs (build_expr).
Between(tokens, t) == {u \in 1 .. Len(tokens) : \A k \in 1 .. Len(tokens) :
                         (t < k /\ k < u) \/ (u < k /\ k < t) => tokens[k] # [op |-> "OR"]}
Groups(tokens) == {{u \in Between(tokens, t) : IsTerm(tokens[u])} : t \in {k \in DOMAIN tokens : IsTerm(tokens[k])}}

\* is:swap: two or three legs of one hash, each in a commodity of its own.
IsSwap(loaded, x) ==
  LET legs == {y \in loaded : y.hash = x.hash /\ y.amount # 0} IN
  /\ x.amount # 0 /\ Cardinality(legs) \in {2, 3}
  /\ Cardinality({y.commodity : y \in legs}) = Cardinality(legs)

Accounts(x) == {x.legs[i].account : i \in DOMAIN x.legs}

\* Conditions on what is not text; without a fee no condition on the fee holds.
Meets(term, x) ==
  \/ term.field = "date" /\ x.day \in term.of
  \/ term.field = "amount" /\ x.amount \in term.of
  \/ term.field = "fee" /\ x.fee # 0 /\ x.fee \in term.of

match_term(term, x, loaded) ==
  \/ term.field = "account" /\ Accounts(x) \cap term.of # {}
  \/ term.field = "commodity" /\ \E i \in DOMAIN x.legs : x.legs[i].commodity \in term.of
  \/ term.field = "payee" /\ x.payee \in term.of
  \/ Meets(term, x)
  \/ term.field = "is" /\ IsSwap(loaded, x)

Holds(term, x, loaded) == match_term(term, x, loaded) # term.negated
matches_search(tokens, x, loaded) ==
  tokens = <<>> \/ \E g \in Groups(tokens) : \A t \in g : Holds(tokens[t], x, loaded)

\* Mutant of Relaxed: Show Ignored asks for the account too.
RelaxedNot(term) == FALSE

\* Show Ignored: a hidden transaction has no leg on the account any more.
Relaxed(term) == term.field = "account"

matches_search_relaxing_account(tokens, x, loaded) ==
  tokens = <<>> \/ \E g \in Groups(tokens) : \A t \in g : Relaxed(tokens[t]) \/ Holds(tokens[t], x, loaded)

has_hidden_posting(x) == Accounts(x) \cap HiddenAccounts # {}

-----------------------------------------------------------------------------
(* Queries.                                                                *)

SumOf(legs, c) == AddUp(legs, DOMAIN legs, LAMBDA l : IF l.commodity = c THEN l.qty ELSE 0)
On(x, accounts) == SelectSeq(x.legs, LAMBDA l : l.account \in accounts)
TotalOf(xs, accounts) ==
  [c \in Commodities |-> SumOver(xs, [x \in xs |-> SumOf(On(x, accounts), c)])]

\* The account a query is scoped to: a term at the start, or after an AND.  It runs
\* up to the next AND, so one with an OR behind it names no folder.
AccountStarts(tokens) ==
  {t \in DOMAIN tokens : IsTerm(tokens[t]) /\ tokens[t].field = "account" /\ ~tokens[t].negated
                         /\ (t = 1 \/ tokens[t - 1] = [op |-> "AND"])}
account_prefix_from_search(tokens) ==
  IF AccountStarts(tokens) = {} THEN [scope |-> ViewFolders]
  ELSE LET t == CHOOSE u \in AccountStarts(tokens) : \A k \in AccountStarts(tokens) : u <= k IN
       IF t < Len(tokens) /\ tokens[t + 1] = [op |-> "OR"] THEN [scope |-> {}]
       ELSE [scope |-> {f \in ViewFolders : Own[f] \in Below[tokens[t].name]}]

load_scoped_transactions(xs, tokens) == {x \in xs : x.folder \in account_prefix_from_search(tokens).scope}

\* The accounts of all terms that are not negated; without one, those of the result (of
\* its page, when a page is asked for; here the whole result is).
extract_account_filters(tokens) ==
  {t \in DOMAIN tokens : IsTerm(tokens[t]) /\ tokens[t].field = "account" /\ ~tokens[t].negated}
FilteredAccounts(tokens, result) ==
  IF extract_account_filters(tokens) # {} THEN UNION {tokens[t].of : t \in extract_account_filters(tokens)}
  ELSE UNION {Accounts(x) : x \in result}

query(loaded, tokens, hidden) ==
  LET result == {x \in loaded : \/ matches_search(tokens, x, loaded)
                                \/ hidden /\ has_hidden_posting(x) /\ matches_search_relaxing_account(tokens, x, loaded)}
  IN [transactions |-> result, aggregated |-> TotalOf(loaded, FilteredAccounts(tokens, result))]

NotHidden(xs, hidden) == IF hidden THEN xs ELSE {x \in xs : ~has_hidden_posting(x)}

scoped_query(tokens, hidden) == query(NotHidden(load_scoped_transactions(Ledger, tokens), hidden), tokens, hidden)
global_query(tokens, hidden) == query(NotHidden(Ledger, hidden), tokens, hidden)

-----------------------------------------------------------------------------
NumberOf(f) == Len(rows[f])
AllRows == SumOver(ViewFolders, [f \in ViewFolders |-> NumberOf(f)])
Ruled == {x \in ViewFolders \X Payees : rules[x[1]][x[2]] # NoRule}

ViewInit ==
  /\ rows = [f \in ViewFolders |-> <<>>]
  /\ rules = [f \in ViewFolders |-> [p \in Payees |-> NoRule]]
  /\ labels = [f \in ViewFolders |-> {}]

AddRow(f, row) ==
  /\ AllRows < MaxRows
  /\ row.legs # <<>> => row.legs[1].account = Own[f]
  /\ rows' = [rows EXCEPT ![f] = Append(@, row)]
  /\ UNCHANGED <<rules, labels>>

SetRule(f, p, to) ==
  /\ Cardinality(Ruled) < MaxRules
  /\ rules' = [rules EXCEPT ![f][p] = to]
  /\ UNCHANGED <<rows, labels>>

AddLabel(f, c) ==
  /\ labels' = [labels EXCEPT ![f] = @ \cup {c}]
  /\ UNCHANGED <<rows, rules>>

ViewNext ==
  \/ \E f \in ViewFolders, k \in RowKinds : AddRow(f, k)
  \/ \E f \in ViewFolders, p \in Payees, a \in RuleTargets : SetRule(f, p, a)
  \/ \E f \in ViewFolders, c \in Aliases : AddLabel(f, c)

ViewSpec == ViewInit /\ [][ViewNext]_viewVars

-----------------------------------------------------------------------------
(* Properties.                                                             *)

ViewTypeOK ==
  /\ rows \in [ViewFolders -> Seq(RowKinds)] /\ AllRows <= MaxRows
  /\ rules \in [ViewFolders -> [Payees -> RuleTargets \cup {NoRule}]]
  /\ labels \in [ViewFolders -> SUBSET Aliases]

\* Labels, rules, hiding and self-transfers leave what a transaction's legs add up to
\* as it was: nothing, but for a fee in another commodity, which no leg pays.  Legs of
\* its own a row may have that do not balance.
LegsBalance ==
  \A x \in Ledger :
    LET row == rows[x.folder][x.i]
        owed(c) == IF row.legs = <<>> /\ row.feeIn # row.commodity /\ c = row.feeIn THEN row.fee ELSE 0
    IN (\A c \in Commodities : SumOf(row.legs, c) = 0) => \A c \in Commodities : SumOf(x.legs, c) = owed(c)

AccountSearch(a) == <<[field |-> "account", of |-> Containing[a], name |-> a, negated |-> FALSE]>>

TogglesTotals(f) ==
  scoped_query(AccountSearch(Own[f]), TRUE).aggregated # scoped_query(AccountSearch(Own[f]), FALSE).aggregated

\* Show Ignored leaves the totals of the accounts of the sidebar as they are, if what is
\* hidden was routed to ignore accounts (apply_rule_accounts) and rows that a transform
\* gave legs have none of a folder's account after the first two.
IgnoringKeepsTotals ==
  LET Hidden == {x \in Ledger : has_hidden_posting(x)}
      Moved(x) == /\ rules[x.folder][x.payee] \in IgnoreAccounts
                  /\ \A i \in DOMAIN rows[x.folder][x.i].legs : i > 2 => rows[x.folder][x.i].legs[i].account \notin Range(Own)
  IN (\A x \in Hidden : Moved(x)) => \A f \in ViewFolders : ~TogglesTotals(f)

\* "Balance aggregation always uses the original search terms, so totals are
\* unaffected by the toggle" (scoped_query, generated_store.rs 597-598).
ToggleKeepsTotals == \A f \in ViewFolders : ~TogglesTotals(f)

\* What the ledgers are without the rules that hide.
Unhidden ==
  {Transaction(x.folder, x.i, LET r == rules[x.folder][x.payee] IN IF r \in HiddenAccounts THEN NoRule ELSE r) : x \in Ledger}

\* Transactions found, but for those that lose a leg of their own with the contra.
Found(xs) ==
  {<<x.folder, x.i>> : x \in {y \in xs : LET own == rows[y.folder][y.i].legs IN Len(own) < 3 \/ own[2].qty # 0}}

Searches == {tokens \in SearchTokens : parse_search(tokens) # NoSearch}
AccountTerms(tokens) == {t \in DOMAIN tokens : IsTerm(tokens[t]) /\ tokens[t].field = "account"}

OneAccount ==
  {tokens \in Searches : Cardinality(AccountTerms(tokens)) <= 1 /\ AccountTerms(tokens) \subseteq AccountStarts(tokens)}
NoAccount == {tokens \in Searches : AccountTerms(tokens) = {}}

\* With Show Ignored on, a search that names no account but the one its folders are
\* loaded for finds what it would find had nothing been hidden: the relaxed term
\* lets in the rows of these folders, and all else is asked of them as before.
ShowIgnoredReveals ==
  /\ \A tokens \in OneAccount :
       Found(scoped_query(tokens, TRUE).transactions)
         = Found(query(load_scoped_transactions(Unhidden, tokens), tokens, TRUE).transactions)
  /\ \A tokens \in NoAccount :
       Found(global_query(tokens, TRUE).transactions) = Found(query(Unhidden, tokens, TRUE).transactions)

\* "Folder scoping already constrains it to the viewed account, so only the account
\* predicate is relaxed" (QueryOptions, query.rs 862-864): no search lists a hidden
\* transaction that it would not list if it were not hidden.
RelaxedStaysInAccount ==
  \A tokens \in Searches :
    /\ Found(scoped_query(tokens, TRUE).transactions)
         \subseteq Found(query(load_scoped_transactions(Unhidden, tokens), tokens, TRUE).transactions)
    /\ Found(global_query(tokens, TRUE).transactions) \subseteq Found(query(Unhidden, tokens, TRUE).transactions)
====
