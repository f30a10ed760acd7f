----------------------------- MODULE MCLedgerData -----------------------------
(***************************************************************************)
(* Five components that share no state, each on a small instance of its    *)
(* own: which one runs is chosen at the start, the others rest.            *)
(***************************************************************************)
EXTENDS LedgerText, LedgerView, MCPrices, MCSwapPairs, Reports

VARIABLE part

\* Text: every kind of line, and those that lack something.
Incomplete(l) == [l EXCEPT !.complete = FALSE]
Typed ==
  {BlankLine, Line("directive", ""), Line("note", ""), Line("other", ""), Line("dated", ""),
   Line("account", "assets:cash"), Incomplete(Line("account", "")),
   Line("header", "t1"), Incomplete(Line("header", "t2")),
   Line("indented", "opening"), Line("indented", "name"), Incomplete(Line("indented", "assets:cash"))}

\* Views: an account below another, one that is not the user's, one that is hidden.
OwnAccounts == [bank |-> "assets:bank", savings |-> "assets:bank:savings"]
AccountNames == {"assets:bank", "assets:bank:savings", "expenses:food"}
BelowOf == [a \in AccountNames |-> IF a = "assets:bank" THEN {a, "assets:bank:savings"} ELSE {a}]
Row(p, d, q, c, fee, feeIn, h) ==
  [payee |-> p, day |-> d, amount |-> q, commodity |-> c, fee |-> fee, feeIn |-> feeIn,
   legs |-> <<>>, hash |-> h, names |-> FALSE]
ViewRows ==
  {Row("shop", 1, 3, "aud", 1, "aud", 1), Row("spam", 2, 0, "old", 1, "old", 2), Row("spam", 2, 2, "old", 1, "aud", 2),
   [Row("me", 1, 2, "aud", 0, "aud", 3) EXCEPT !.names = TRUE],
   [Row("broker", 2, 0, "aud", 0, "aud", 1) EXCEPT
      !.legs = <<Leg("assets:bank", 2, "old"), Leg("assets:bank:savings", -3, "old"), Leg("expenses:fees", 1, "old")>>]}
Term(field, of, negated) == [field |-> field, of |-> of, name |-> "none", negated |-> negated]
Account(a, of) == [field |-> "account", of |-> of, name |-> a, negated |-> FALSE]
Op(op) == [op |-> op]
ViewSearches ==
  LET bank == Account("assets:bank", BelowOf["assets:bank"])
      savings == Account("assets:bank:savings", BelowOf["assets:bank:savings"])
      swap == Term("is", {}, FALSE)
  IN {<<>>, <<bank>>, <<bank, bank>>, <<savings>>, <<bank, Op("AND"), savings>>,
      <<bank, Op("AND"), [savings EXCEPT !.negated = TRUE]>>, <<bank, Op("AND"), Term("payee", {"spam"}, FALSE)>>,
      <<bank, Op("AND"), Term("date", {2}, TRUE)>>, <<bank, Op("AND"), swap, Op("OR"), Term("amount", {3}, FALSE)>>,
      <<bank, Op("AND"), Term("fee", {1}, FALSE)>>, <<Term("amount", {2}, FALSE), Op("AND"), bank>>,
      <<Term("commodity", {"aud"}, TRUE)>>}

\* Reports: a wallet, an exchange and an account in transit; one coin is traded and
\* its price moves, a second is only swapped for.
TwoPrices == [x |-> {1, 3}, y |-> {1}]
FirstPrice == [x |-> 1, y |-> 1]

-----------------------------------------------------------------------------
Init ==
  /\ part \in {"text", "view", "prices", "swaps", "reports"}
  /\ TextInit /\ ViewInit /\ PricesInit /\ LegsInit /\ ReportsInit
  /\ price = FirstPrice

TextStep == part = "text" /\ TextNext /\ UNCHANGED <<part, viewVars, priceVars, legs, reportVars>>
ViewStep == part = "view" /\ ViewNext /\ UNCHANGED <<part, text, priceVars, legs, reportVars>>
PricesStep == part = "prices" /\ PricesNext /\ UNCHANGED <<part, text, viewVars, legs, reportVars>>
SwapsStep == part = "swaps" /\ LegsNext /\ UNCHANGED <<part, text, viewVars, priceVars, reportVars>>
ReportsStep == part = "reports" /\ ReportsNext /\ UNCHANGED <<part, text, viewVars, priceVars, legs>>

Next == TextStep \/ ViewStep \/ PricesStep \/ SwapsStep \/ ReportsStep

Spec == Init /\ [][Next]_<<part, text, viewVars, priceVars, legs, reportVars>>

=============================================================================
