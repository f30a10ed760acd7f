------------------------------- MODULE Reports -------------------------------
(***************************************************************************)
(* The reports of reports.rs: FIFO lots and capital gains, income,         *)
(* holdings, balances, performance over a window, losses to harvest.  All  *)
(* walk the transactions in order of time, so the model makes them one by  *)
(* one and keeps what the walks have so far; a report as of today is a     *)
(* function of that.                                                       *)
(*                                                                         *)
(* Amounts are whole and in base currency unless a coin is named; a month  *)
(* is one tick.  The window opens at the end of month OpenMonth.           *)
(***************************************************************************)
EXTENDS Integers, Sequences, FiniteSets, Functions, Sums

CONSTANTS
  Coins,         \* commodities other than the base currency
  Places,        \* accounts under assets: that hold coins
  Bank,          \* the account under assets: that holds base currency
  Scope,         \* accounts under base_account_scope
  Allowed,       \* AccountAllowlist: accounts with a source folder
  Traders,       \* bound: the accounts coins are bought and sold in
  Partners,      \* bound: further accounts of swaps
  Traded,        \* bound: the coins bought, sold and given for others
  MarketPrices,        \* bound: [Coins -> set of prices]
  Payments,      \* bound: what is paid for a unit
  Annotated,     \* bound: what annotations say of a unit
  Quantities,    \* bound: of what is bought and sold; else one unit
  NoSnapshot,
  OpenMonth, MaxMonth, MaxTxns, \* bounds
  DiscountPercent, DiscountMonths \* TaxConfig

ASSUME ReportsAssumption ==
  /\ Bank \notin Places /\ Scope \cup Allowed \subseteq Places \cup {Bank}
  /\ Traders \cup Partners \subseteq Places /\ Traded \subseteq Coins
  /\ IsFiniteSet(Coins) /\ IsFiniteSet(Places)
  /\ MarketPrices \in [Coins -> SUBSET (Nat \ {0})] /\ Quantities \subseteq Nat \ {0}
  /\ Payments \subseteq Nat /\ Annotated \subseteq Nat
  /\ OpenMonth \in Nat /\ MaxMonth \in Nat /\ MaxTxns \in Nat
  /\ DiscountPercent \in 0 .. 100 /\ DiscountMonths \in Nat

\* Coins are acquired, and paid for, in accounts that count; others hold what is on its way.
ASSUME CountedAssumption == Traders \cup Partners \cup {Bank} \subseteq Scope \cap Allowed

VARIABLES
  month, txns,
  price,         \* PriceGraph: what a coin is worth this month
  gainLots,      \* inventories of the capital gains walk: [Coins -> Seq(lot)]
  heldLots,      \* inventories of the holdings walk
  amounts,       \* what the postings to each account add up to
  cgtEvents,     \* capital gains events in the window
  earned,        \* income in the window
  opening,       \* holdings_as_of the day before the window
  lastUnrealised, monthly, \* performance points: the latest, and changes summed
  \* what the properties need to know of the past:
  putIn,         \* value that came from outside in the window, less what left
  mispriced,     \* by how much transactions did not add up, as the walks value them
  oversold       \* more was disposed of than held

reportVars == <<month, txns, price, gainLots, heldLots, amounts, cgtEvents, earned,
                opening, lastUnrealised, monthly, putIn, mispriced, oversold>>

-----------------------------------------------------------------------------
(* FIFO inventories.                                                       *)

Least(a, b) == IF a < b THEN a ELSE b
Most(a, b) == IF a > b THEN a ELSE b

UnitsAt(lots, I) == AddUp(lots, I, LAMBDA l : l.qty)
Quantity(lots) == UnitsAt(lots, DOMAIN lots)
Cost(lots) == AddUp(lots, DOMAIN lots, LAMBDA l : l.qty * l.cost)

\* What a disposal of q takes of each lot, oldest first.
consumed(lots, q) ==
  [i \in DOMAIN lots |-> [lots[i] EXCEPT !.qty = Most(0, Least(@, q - UnitsAt(lots, 1 .. i - 1)))]]

\* The lots it empties are the oldest ones, and go.
consume_fifo(lots, q) ==
  LET took == consumed(lots, q)
      left == [i \in DOMAIN lots |-> [lots[i] EXCEPT !.qty = @ - took[i].qty]]
      emptied == Cardinality({i \in DOMAIN lots : left[i].qty = 0})
      touched == Cardinality({i \in DOMAIN lots : took[i].qty > 0})
  IN [lots |-> SubSeq(left, emptied + 1, Len(lots)), taken |-> SubSeq(took, 1, touched)]

-----------------------------------------------------------------------------
(* Holdings, as of now.                                                    *)

Relevant(a) == a \in Scope /\ a \in Allowed
netQty(c) == SumOver({a \in Places : Relevant(a)}, [a \in Places |-> amounts[a][c]])
cash == IF Relevant(Bank) THEN amounts[Bank] ELSE 0

\* Mutant of HoldingLots: surplus lots stay.
AllLots(c) == heldLots[c]

\* Surplus lots, the oldest, are dropped when the position is long.
HoldingLots(c) ==
  LET net == netQty(c)
      surplus == Quantity(heldLots[c]) - net
  IN IF net > 0 /\ surplus > 0 THEN consume_fifo(heldLots[c], surplus).lots ELSE heldLots[c]

\* A short position is carried at what it is worth.
Holding(c) ==
  LET net == netQty(c)
      value == net * price[c]
      cost == IF net > 0 THEN Cost(HoldingLots(c)) ELSE value
  IN [value |-> value, cost |-> cost, unrealised |-> value - cost]

Unrealised == SumOver(Coins, [c \in Coins |-> Holding(c).unrealised])

\* Something is on its way through an account that is not counted.
InTransit == \E c \in Coins, a \in Places : ~Relevant(a) /\ amounts[a][c] # 0

holdings_as_of ==
  [value |-> SumOver(Coins, [c \in Coins |-> Holding(c).value]) + cash,
   unrealised |-> Unrealised,
   of |-> [c \in Coins |-> Holding(c).unrealised],
   price |-> price,
   held |-> {c \in Coins : netQty(c) # 0},
   transit |-> InTransit]

\* Every posting in scope and allowed, priced at the end of the day.
generate_balances_report_range ==
  SumOver(Coins, [c \in Coins |-> netQty(c) * price[c]]) + cash

-----------------------------------------------------------------------------
(* Capital gains, income, performance, harvest.                            *)

Gain(e) == e.qty * (e.proceeds - e.cost)
Eligible(e) == Gain(e) > 0 /\ e.sold - e.bought >= DiscountMonths
ShortGains(s) == AddUp(s, {i \in DOMAIN s : Gain(s[i]) > 0 /\ ~Eligible(s[i])}, Gain)
LongGains(s) == AddUp(s, {i \in DOMAIN s : Eligible(s[i])}, Gain)
Losses(s) == -AddUp(s, {i \in DOMAIN s : Gain(s[i]) < 0}, Gain)
NetGain(s) == ShortGains(s) + LongGains(s) - Losses(s)

\* Losses go against short gains first; hundredths.
Discounted(short, long, losses) ==
  100 * Most(short - losses, 0)
  + (100 - DiscountPercent) * Most(long - Most(losses - short, 0), 0)

\* Mutant of OffsetShort: losses the year already has are not counted.
OffsetShortGross(short, long, losses, loss) == Least(loss, short)

OffsetShort(short, long, losses, loss) == Least(loss, Most(short - losses, 0))

OffsetLong(short, long, losses, loss) ==
  Least(loss - OffsetShort(short, long, losses, loss), Most(long - Most(losses - short, 0), 0))

taxable_reduction(short, long, losses, loss) ==
  100 * OffsetShort(short, long, losses, loss)
  + (100 - DiscountPercent) * OffsetLong(short, long, losses, loss)

\* assemble_loss_harvest: what selling the positions below their cost would lose.
total_realisable_loss ==
  SumOver({c \in Coins : netQty(c) > 0 /\ Holding(c).unrealised < 0},
          [c \in Coins |-> -Holding(c).unrealised])

\* A lot from before the window counts from what it was worth as it opened.
OpenGainSold(e) ==
  IF e.bought <= OpenMonth /\ e.coin \in opening.held THEN e.qty * (opening.price[e.coin] - e.cost) ELSE 0

EventsOf(c) == {i \in DOMAIN cgtEvents : cgtEvents[i].coin = c}
InWindowGain(e) == Gain(e) - OpenGainSold(e)

total_return == NetGain(cgtEvents) + earned + Unrealised - opening.unrealised
total_realised_gain == AddUp(cgtEvents, DOMAIN cgtEvents, InWindowGain)
unrealised_change == total_return - earned - total_realised_gain

attribution(c) ==
  AddUp(cgtEvents, EventsOf(c), InWindowGain)
  + Holding(c).unrealised - opening.of[c] + AddUp(cgtEvents, EventsOf(c), OpenGainSold)

-----------------------------------------------------------------------------
(* Transactions.                                                           *)

Quoted == {p \in [Coins -> UNION {MarketPrices[c] : c \in Coins}] : \A c \in Coins : p[c] \in MarketPrices[c]}

ReportsInit ==
  /\ month = 0 /\ txns = 0
  /\ price \in Quoted
  /\ gainLots = [c \in Coins |-> <<>>] /\ heldLots = gainLots
  /\ amounts = [a \in Places \cup {Bank} |-> IF a = Bank THEN 0 ELSE [c \in Coins |-> 0]]
  /\ cgtEvents = <<>> /\ earned = 0
  /\ opening = NoSnapshot /\ lastUnrealised = 0 /\ monthly = 0
  /\ putIn = 0 /\ mispriced = 0 /\ oversold = FALSE

Txn == txns < MaxTxns /\ txns' = txns + 1
InWindow == month > OpenMonth
IfInWindow(n) == IF InWindow THEN n ELSE 0

\* One transaction: a disposal, then an acquisition (a set of at most one leg each),
\* and what it does to the bank.  A transaction without an account in scope is not in
\* the capital gains walk; a leg that is not relevant not in the holdings.
TheLeg(legs) == CHOOSE l \in legs : TRUE
Concerns(legs, c) == \E l \in legs : l.coin = c
RelevantLegs(legs) == {l \in legs : Relevant(l.at)}
Walked(legs) == \E l \in legs : l.at \in Scope

Consume(lots, legs) ==
  [c \in Coins |-> IF Concerns(legs, c) THEN consume_fifo(lots[c], TheLeg(legs).qty).lots ELSE lots[c]]
Acquire(lots, legs) ==
  [c \in Coins |-> IF Concerns(legs, c)
                   THEN Append(lots[c], [qty |-> TheLeg(legs).qty, cost |-> TheLeg(legs).each, got |-> month])
                   ELSE lots[c]]
Posted(am, legs, sign) ==
  IF legs = {} THEN am ELSE [am EXCEPT ![TheLeg(legs).at][TheLeg(legs).coin] = @ + sign * TheLeg(legs).qty]

\* What is sold beyond the lots cost nothing.
SoldLots(lots, l) ==
  LET took == consume_fifo(lots[l.coin], l.qty).taken
      unmatched == l.qty - Quantity(took)
  IN (IF unmatched > 0 THEN <<[qty |-> unmatched, cost |-> 0, got |-> month]>> ELSE <<>>) \o took
\* Mutant of SaleEvents: proceeds at the price of the day, whatever was paid.
SaleEventsByPrice(lots, l) ==
  [i \in DOMAIN SoldLots(lots, l) |->
     LET lot == SoldLots(lots, l)[i] IN
     [coin |-> l.coin, qty |-> lot.qty, cost |-> lot.cost, proceeds |-> price[l.coin], bought |-> lot.got, sold |-> month]]

SaleEvents(lots, l) ==
  [i \in DOMAIN SoldLots(lots, l) |->
     LET lot == SoldLots(lots, l)[i] IN
     [coin |-> l.coin, qty |-> lot.qty, cost |-> lot.cost, proceeds |-> l.each, bought |-> lot.got, sold |-> month]]

\* What the legs of a transaction are worth, with the bank, the income and what is from
\* outside, adds up to nothing, unless the walks value a leg otherwise than it was paid.
Worth(legs) == IF legs = {} THEN 0 ELSE TheLeg(legs).qty * TheLeg(legs).each
Gap(out, in, paid, income, outside) == Worth(out) + income + outside - (Worth(in) + paid)

Book(out, in, paid, income, outside) ==
  LET counted == Walked(out \cup in) \/ (paid # 0 /\ Bank \in Scope)
      Short(lots, l) == Quantity(lots[l.coin]) < l.qty
  IN
  /\ Txn
  /\ amounts' = [Posted(Posted(amounts, out, -1), in, 1) EXCEPT ![Bank] = @ + paid]
  /\ gainLots' = IF counted THEN Acquire(Consume(gainLots, out), in) ELSE gainLots
  /\ heldLots' = Acquire(Consume(heldLots, RelevantLegs(out)), RelevantLegs(in))
  /\ cgtEvents' = IF counted /\ InWindow /\ out # {} THEN cgtEvents \o SaleEvents(gainLots, TheLeg(out)) ELSE cgtEvents
  /\ earned' = earned + IF counted THEN IfInWindow(income) ELSE 0
  /\ putIn' = putIn + IfInWindow(outside)
  /\ mispriced' = mispriced + IfInWindow(Gap(out, in, paid, income, outside))
  /\ oversold' = (oversold \/ \E l \in out : Short(gainLots, l) \/ Short(heldLots, l))
  /\ UNCHANGED <<month, price, opening, lastUnrealised, monthly>>

OneLeg(a, c, q, each) == {[at |-> a, coin |-> c, qty |-> q, each |-> each]}

\* What a unit of a leg is worth (resolve_acquisition_cost, resolve_sale_proceeds): what
\* its annotation says, else its counterparty, else the price of the day.  The first
\* two are sets of at most one amount.
Each(c, own, other) == IF own \cup other = {} THEN price[c] ELSE CHOOSE n \in IF own # {} THEN own ELSE other : TRUE

\* For base currency: the counterparty is the bank in another account, or in the sibling of
\* the same moment that is found for a leg of equity:trading; of the same account
\* it says nothing.
Buy(a, c, q, paid, own, other) == Book({}, OneLeg(a, c, q, Each(c, own, other)), -q * paid, 0, 0)
Sell(a, c, q, paid, own, other) == Book(OneLeg(a, c, q, Each(c, own, other)), {}, q * paid, 0, 0)

\* One coin for another.
Swap(a, b, c, d, q, out, toOut, in, toIn) ==
  Book(OneLeg(a, c, q, Each(c, out, toOut)), OneLeg(b, d, q, Each(d, in, toIn)), 0, 0, 0)

\* In one transaction a leg is worth what the other is annotated with, a sale what the
\* coins got cost only, or what the other is worth today if it is in another account.
Counterpart(note, c, apart) == IF note = {} /\ apart THEN {price[c]} ELSE note
SwapInOne(a, b, c, d, q, out, in, isCost) ==
  Swap(a, b, c, d, q, out, Counterpart(IF isCost THEN in ELSE {}, d, a # b),
                      in, Counterpart(out, c, a # b))

\* Income is worth what its own posting is annotated with, else the price of the day.
PostingValue(c, said) == Each(c, said, {})

\* Staking rewards; interest; a gift or a deposit; a fee paid in coins.
EarnCoins(a, c, q, own, said) == Book({}, OneLeg(a, c, q, Each(c, own, {})), 0, q * PostingValue(c, said), 0)
EarnCash(n) == Book({}, {}, n, n, 0)
Receive(a, c, q, own) == Book({}, OneLeg(a, c, q, Each(c, own, {})), 0, 0, q * price[c])
Deposit(n) == Book({}, {}, n, 0, n)
PayFee(a, c, q, own) == Book(OneLeg(a, c, q, Each(c, own, {})), {}, 0, 0, -q * price[c])

\* Both legs are assets and add up to nothing: no lot moves (is_transfer_for_commodity).
Transfer(a, b, c, q) ==
  /\ Txn /\ a # b
  /\ amounts' = [amounts EXCEPT ![a][c] = @ - q, ![b][c] = @ + q]
  /\ UNCHANGED <<month, price, gainLots, heldLots, cgtEvents, earned, opening, lastUnrealised,
                 monthly, putIn, mispriced, oversold>>

\* Mutant of MonthlyChange: what the lots sold had gained before stays in.
MonthlyRaw == Unrealised - lastUnrealised

\* The month ends: its point in the performance report, and, as the window opens,
\* the snapshot the report starts from.  Then prices move.
MonthlyChange ==
  Unrealised - lastUnrealised + AddUp(cgtEvents, {i \in DOMAIN cgtEvents : cgtEvents[i].sold = month}, OpenGainSold)

NextMonth ==
  /\ month < MaxMonth /\ month' = month + 1
  /\ opening' = IF month = OpenMonth THEN holdings_as_of ELSE opening
  /\ lastUnrealised' = Unrealised
  /\ monthly' = IF InWindow THEN monthly + MonthlyChange ELSE 0
  /\ price' \in Quoted
  /\ UNCHANGED <<txns, gainLots, heldLots, amounts, cgtEvents, earned, putIn, mispriced, oversold>>

\* An annotation, or none.  What the counterparty says, or the sibling: which one
\* find_equity_swap_sibling takes among several fills of a moment is left open.
Stated == {{}} \cup {{n} : n \in Annotated}
Told == {{}} \cup {{n} : n \in Payments}

ReportsNext ==
  \/ \E a \in Traders, c \in Traded, q \in Quantities, own \in Stated :
       \E paid \in Payments, other \in Told : Buy(a, c, q, paid, own, other) \/ Sell(a, c, q, paid, own, other)
  \/ \E a \in Traders, c \in Traded, own \in Stated :
       \/ \E said \in Stated : EarnCoins(a, c, 1, own, said)
       \/ Receive(a, c, 1, own) \/ PayFee(a, c, 1, own)
  \/ \E a \in Traders, b \in Traders \cup Partners, c \in Traded : \E d \in Coins \ {c} :
       \/ \E out, in \in Stated, isCost \in BOOLEAN : SwapInOne(a, b, c, d, 1, out, in, isCost)
       \/ \E toOut, toIn \in Told : Swap(a, b, c, d, 1, {}, toOut, {}, toIn)
  \/ \E a, b \in Places \ Partners, c \in Traded : Transfer(a, b, c, 1)
  \/ EarnCash(1) \/ Deposit(1)
  \/ NextMonth

ReportsSpec == ReportsInit /\ [][ReportsNext]_reportVars

-----------------------------------------------------------------------------
(* Properties.                                                             *)

Reported == InWindow
Outside(c) == SumOver({a \in Places : ~Relevant(a)}, [a \in Places |-> amounts[a][c]])

ReportsTypeOK ==
  /\ month \in 0 .. MaxMonth /\ txns \in 0 .. MaxTxns /\ price \in Quoted
  /\ \A c \in Coins : \A l \in Range(gainLots[c]) \cup Range(heldLots[c]) :
       l.qty > 0 /\ l.cost \in Nat /\ l.got \in 0 .. month
  /\ \A e \in Range(cgtEvents) : e.qty > 0 /\ e.bought <= e.sold /\ e.sold > OpenMonth
  /\ earned \in Nat

\* "Drop the oldest surplus lots so cost basis and value count the same units"
\* (holdings_as_of): whatever was sold short, or is on its way through an account
\* that is not counted, the lots of a holding are as many as the units it is
\* valued at.
CostCountsHeldUnits ==
  \A c \in Coins : netQty(c) > 0 /\ Outside(c) >= 0 => Quantity(HoldingLots(c)) = netQty(c)

\* The performance report's total_return is by how much the portfolio of the balances
\* report grew of itself.
\* It differs by what the transactions of the window do not add up to as the walks value
\* them: a swap of two coins whose prices differ, a trade at another price than its
\* annotation says or within one account, a leg valued by another fill's sibling.
ReturnIsGrowth ==
  Reported /\ ~oversold /\ ~opening.transit /\ ~InTransit =>
    total_return = generate_balances_report_range - opening.value - putIn + mispriced

\* "Sum of total + total_income reconciles to total_return", by coin, and
\* "monthly changes telescope to the window's total unrealised_change".
PartsAddUp ==
  Reported =>
    /\ SumOver(Coins, [c \in Coins |-> attribution(c)]) + earned = total_return
    /\ monthly + MonthlyChange = unrealised_change

\* The estimate of tax saved is the difference between the taxable gains of the year
\* and those with the losses realised: assemble_loss_harvest "mirrors"
\* generate_cgt_report.
HarvestIsWhatItSaves ==
  LET S == ShortGains(cgtEvents)
      L == LongGains(cgtEvents)
      T == Losses(cgtEvents)
      loss == total_realisable_loss
  IN taxable_reduction(S, L, T, loss) = Discounted(S, L, T) - Discounted(S, L, T + loss)
====
