------------------------------ MODULE SwapPairs ------------------------------
(***************************************************************************)
(* auto_link_equity_swaps (processing_pipeline.rs): which legs of a swap   *)
(* are taken to belong together, and what their prices become.  A leg is a *)
(* transaction with one posting of an asset and one of equity:trading,     *)
(* plain or already routed to :sell or :buy by a rule.  The pipeline links *)
(* the legs in the order it has sorted them into; reports, and later runs  *)
(* that load the ledgers, link them again.  Commodities, ids, accounts and *)
(* narrations stand for strings and are compared as numbers.  Every leg    *)
(* has a txn: id, and the legs of one id are told apart by their leg: tag, *)
(* so the order is by these and linking does not change it.                *)
(***************************************************************************)
EXTENDS Integers, Sequences, SequencesExt, FiniteSets, FiniteSetsExt, Functions

CONSTANTS
  RawLegs,    \* legs as the transforms make them
  Quote,      \* [commodity -> value of one in the base currency, or NoQuote]
  BaseLike,   \* the base currency and the stablecoins (is_base_like)
  NoQuote,
  MaxLegs,    \* bound
  Scale       \* a multiple of the sums of units, for values to divide

ASSUME LegsAssumption ==
  /\ \A l \in RawLegs : /\ l.amount \in Int /\ l.commodity \in DOMAIN Quote /\ l.id \in Nat
                        /\ l.way \in {"plain", "sell", "buy"}
  /\ BaseLike \subseteq DOMAIN Quote /\ MaxLegs \in Nat /\ Scale \in Nat

VARIABLE legs   \* the legs at one time, as sorted

Abs(n) == IF n < 0 THEN -n ELSE n

\* A leg adds its tags and its price: a total in the base currency for so many units.
SwapLeg(at, narration, way, amount, commodity, id) ==
  [at |-> at, narration |-> narration, way |-> way, amount |-> amount, commodity |-> commodity,
   id |-> id, tags |-> <<>>, price |-> <<>>]
SwapTag(id) == <<1, id>>
PartnerTag(c) == <<2, c>>

Priced(l, total, units) == IF l.price = <<>> THEN [l EXCEPT !.price = <<total, units>>] ELSE l

\* PriceGraph::convert_to_base: the value, or nothing.
Value(c, units) == IF Quote[c] = NoQuote THEN {} ELSE {Quote[c] * units}

\* append_unique_meta_tag.
WithTag(l, tag) == IF tag \in Range(l.tags) THEN l ELSE [l EXCEPT !.tags = Append(@, tag)]

-----------------------------------------------------------------------------
(* Plain legs: paired by amount within a time, account and narration.      *)
Sold(l) == l.amount < 0
Bought(l) == l.amount > 0

\* Sides sorted by amount, the earlier first.
ByAmount(ls, side) ==
  SetToSortSeq(side, LAMBDA i, j : Abs(ls[i].amount) < Abs(ls[j].amount)
                                     \/ (Abs(ls[i].amount) = Abs(ls[j].amount) /\ i < j))

\* Pairs of indices, each with the commodities of the earliest legs of the sides.
PlainPairs(ls) ==
  LET plain == {i \in DOMAIN ls : ls[i].way = "plain"}
      Group(i) == {j \in plain : ls[j].at = ls[i].at /\ ls[j].narration = ls[i].narration}
      PairsOf(group) ==
        LET sells == {i \in group : Sold(ls[i])}
            buys == {i \in group : Bought(ls[i])}
            s == ByAmount(ls, sells)
            b == ByAmount(ls, buys)
        IN IF sells = {} \/ buys = {} THEN {}
           ELSE IF ls[Min(sells)].commodity = ls[Min(buys)].commodity THEN {}
           ELSE {[sell |-> s[n], buy |-> b[n],
                  sold |-> ls[Min(sells)].commodity, bought |-> ls[Min(buys)].commodity]
                   : n \in DOMAIN s \cap DOMAIN b}
  IN UNION {PairsOf(Group(i)) : i \in plain}

\* What either leg is worth by the other: a base-like leg values its partner, the one
\* received first; of two other legs the only one with a quote does.
PlainValues(s, b) ==
  LET Worth(l) == Value(l.commodity, Abs(l.amount))
      none == [sell |-> {}, buy |-> {}]
  IN CASE b.commodity \in BaseLike /\ s.price = <<>> -> [none EXCEPT !.sell = Worth(b)]
       [] ~(b.commodity \in BaseLike /\ s.price = <<>>) /\ s.commodity \in BaseLike /\ b.price = <<>> ->
            [none EXCEPT !.buy = Worth(s)]
       [] OTHER -> IF s.price # <<>> \/ b.price # <<>> THEN none
                   ELSE [sell |-> IF Worth(s) = {} THEN Worth(b) ELSE {},
                         buy |-> IF Worth(b) = {} THEN Worth(s) ELSE {}]

\* The legs of a pair are routed, tagged with the partner and, if that values them, priced.
PlainLinked(ls) ==
  LET pairs == PlainPairs(ls)
      Linked(l, way, partner, commodity, value) ==
        LET linked == [l EXCEPT !.way = way, !.tags = @ \o <<SwapTag(partner.id), PartnerTag(commodity)>>]
        IN IF value = {} THEN linked ELSE Priced(linked, Min(value), Abs(l.amount))
      LinkedBy(i, p) ==
        LET values == PlainValues(ls[p.sell], ls[p.buy])
        IN IF i = p.sell THEN Linked(ls[i], "sell", ls[p.buy], p.bought, values.sell)
           ELSE Linked(ls[i], "buy", ls[p.sell], p.sold, values.buy)
  IN [i \in DOMAIN ls |->
        LET mine == {p \in pairs : i \in {p.sell, p.buy}}
        IN IF mine = {} THEN ls[i] ELSE LinkedBy(i, CHOOSE p \in mine : TRUE)]

-----------------------------------------------------------------------------
(* Routed legs: those of one commodity and id are taken together, and the  *)
(* sums paired by amount for every two commodities of a time and account.  *)
Opposite(way) == IF way = "sell" THEN "buy" ELSE "sell"

Total(ls, members) == MapThenSumSet(LAMBDA i : Abs(ls[i].amount), members)

Aggregates(ls, at, way, c) ==
  LET these == {i \in DOMAIN ls : ls[i].at = at /\ ls[i].way = way /\ ls[i].commodity = c /\ ls[i].amount # 0}
  IN {{j \in these : ls[j].id = ls[i].id} : i \in these}

Ranked(ls, aggregates) ==
  SetToSortSeq(aggregates, LAMBDA a, b : Total(ls, a) < Total(ls, b)
                                           \/ (Total(ls, a) = Total(ls, b) /\ Min(a) < Min(b)))

\* The pairs [own, other] that leg i is in, one for each opposite commodity, in the
\* order of these: the loop over the other side meets them in that order.
PairsOf(ls, i) ==
  LET l == ls[i]
      own == Ranked(ls, Aggregates(ls, l.at, l.way, l.commodity))
      With(c) == LET other == Ranked(ls, Aggregates(ls, l.at, Opposite(l.way), c))
                 IN {[own |-> own[n], other |-> other[n], commodity |-> c]
                       : n \in {k \in DOMAIN own \cap DOMAIN other : i \in own[k]}}
  IN SetToSortSeq(UNION {With(c) : c \in DOMAIN Quote \ {l.commodity}},
                  LAMBDA p, q : p.commodity < q.commodity)

\* What both sides of a pair are worth: by the side received if one is base-like, by
\* the mean of both if none is, not at all if both are.  Twice the value, for the mean.
Anchor(sold, soldUnits, bought, boughtUnits) ==
  LET s == Value(sold, soldUnits)
      b == Value(bought, boughtUnits)
      Twice(v) == {2 * n : n \in v}
  IN CASE sold \in BaseLike /\ bought \in BaseLike -> {}
       [] (sold \in BaseLike) # (bought \in BaseLike) -> IF b # {} THEN Twice(b) ELSE Twice(s)
       [] sold \notin BaseLike /\ bought \notin BaseLike ->
            IF s # {} /\ b # {} THEN {Min(s) + Min(b)} ELSE Twice(s \cup b)

AnchorOf(ls, l, p) ==
  IF l.way = "sell" THEN Anchor(l.commodity, Total(ls, p.own), p.commodity, Total(ls, p.other))
  ELSE Anchor(p.commodity, Total(ls, p.other), l.commodity, Total(ls, p.own))

\* Mutant of Units: a leg is priced by its own amount.
UnitsOfLeg(ls, i, p) == Abs(ls[i].amount)
\* The units the value of a pair is spread over.
Units(ls, i, p) == Total(ls, p.own)

\* The first pair with a value sets the price; the partner is that of the last pair.
PartnerOf(ls, i) ==
  LET pairs == PairsOf(ls, i)
  IN IF ls[i].way = "plain" \/ ls[i].amount = 0 \/ pairs = <<>> THEN 0 ELSE Min(Last(pairs).other)

AggregatePriced(ls) ==
  [i \in DOMAIN ls |->
     LET valued == SelectSeq(PairsOf(ls, i), LAMBDA p : AnchorOf(ls, ls[i], p) # {})
     IN IF ls[i].way = "plain" \/ ls[i].amount = 0 \/ valued = <<>> THEN ls[i]
        ELSE Priced(ls[i], Min(AnchorOf(ls, ls[i], valued[1])), 2 * Units(ls, i, valued[1]))]

\* Mutant of Stamped: tags are added again.
StampedAgain(ls, partners) ==
  [i \in DOMAIN ls |->
     IF partners[i] = 0 THEN ls[i]
     ELSE [ls[i] EXCEPT !.tags = @ \o <<SwapTag(ls[partners[i]].id), PartnerTag(ls[partners[i]].commodity)>>]]

Stamped(ls, partners) ==
  [i \in DOMAIN ls |->
     IF partners[i] = 0 THEN ls[i]
     ELSE LET partner == ls[partners[i]]
          IN WithTag(WithTag(ls[i], SwapTag(partner.id)), PartnerTag(partner.commodity))]

-----------------------------------------------------------------------------
(* Late prices: by the partner the first swap tag names, which is the last *)
(* leg with that id, or by the one it was paired with.                     *)
LatePartner(ls, partners, i) ==
  LET refs == {n \in DOMAIN ls[i].tags : ls[i].tags[n][1] = 1}
      named == IF refs = {} THEN {} ELSE {j \in DOMAIN ls : ls[j].id = ls[i].tags[Min(refs)][2]}
  IN IF named # {} THEN Max(named) ELSE partners[i]

LatePriced(ls, partners) ==
  [i \in DOMAIN ls |->
     LET l == ls[i]
         j == LatePartner(ls, partners, i)
         value == IF ls[j].commodity \in BaseLike \/ l.commodity \notin BaseLike
                  THEN Value(ls[j].commodity, Abs(ls[j].amount)) ELSE {}
     IN IF j = 0 \/ l.price # <<>> \/ l.amount = 0 THEN l
        ELSE IF ls[j].commodity = l.commodity \/ value = {} THEN l
        ELSE Priced(l, Min(value), Abs(l.amount))]

auto_link_equity_swaps(ls) ==
  LET routed == PlainLinked(ls)
      partners == [i \in DOMAIN ls |-> PartnerOf(routed, i)]
  IN LatePriced(Stamped(AggregatePriced(routed), partners), partners)

-----------------------------------------------------------------------------
LegsInit == legs = <<>>

\* Where a leg may come: by the id, and then by a hash.
Placed(l, n) ==
  /\ n > 1 => legs[n - 1].id <= l.id
  /\ n <= Len(legs) => l.id <= legs[n].id

\* A row more in the exports of the account, which are compiled again; its leg: tag,
\* a hash, puts it anywhere among the legs of its id.
AddLeg(l, n) ==
  /\ Len(legs) < MaxLegs /\ Placed(l, n)
  /\ legs' = InsertAt(legs, n, l)

LegsNext == \E l \in RawLegs, n \in 1..(Len(legs) + 1) : AddLeg(l, n)

LegsSpec == LegsInit /\ [][LegsNext]_legs

-----------------------------------------------------------------------------
(* Properties.                                                             *)
SwapsOfTwo ==
  LET Side(way) == {legs[i].commodity : i \in {k \in DOMAIN legs : legs[k].way = way}}
  IN /\ \A i \in DOMAIN legs : legs[i].way # "plain" /\ legs[i].price = <<>>
     /\ Cardinality(Side("sell")) <= 1 /\ Cardinality(Side("buy")) <= 1
     /\ ~(Side("sell") \cup Side("buy") \subseteq BaseLike)

\* Swaps of two commodities, each of any number of routed legs: what is booked for the
\* legs disposed of is what is booked for those received (processing_pipeline.rs,
\* 820-834).  Values are scaled so that they divide.
LegsAgreeOnValue == SwapsOfTwo => \A linked \in {auto_link_equity_swaps(legs)} :
  LET ValueOf(l) == IF l.price = <<>> THEN 0 ELSE (Scale * Abs(l.amount) * l.price[1]) \div l.price[2]
      Booked(l) ==
        MapThenSumSet(LAMBDA j : ValueOf(linked[j]),
                      {j \in DOMAIN linked : \A x \in {"at", "way", "id"} : linked[j][x] = l[x]})
      Paired(k, l) == k.at = l.at /\ k.way # l.way /\ SwapTag(k.id) \in Range(l.tags) /\ SwapTag(l.id) \in Range(k.tags)
  IN \A k, l \in Range(linked) : Paired(k, l) => Booked(k) = Booked(l)

\* Linking what was linked, as reports and later runs do, changes nothing: neither a
\* tag nor a price (processing_pipeline.rs, 1006-1007).
LinkingSettles ==
  \A linked \in {auto_link_equity_swaps(legs)} : auto_link_equity_swaps(linked) = linked

\* "One side disposes a commodity and the other receives a different commodity"
\* (processing_pipeline.rs, 453-454): no leg has a partner of its own commodity.
SwapsAreOfTwoCommodities ==
  \A linked \in {auto_link_equity_swaps(legs)} :
     \A i \in DOMAIN linked : PartnerTag(linked[i].commodity) \notin Range(linked[i].tags)
=============================================================================
