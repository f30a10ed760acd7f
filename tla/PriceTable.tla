------------------------------ MODULE PriceTable ------------------------------
(***************************************************************************)
(* What the price files promise: a table of prices, changed one commodity  *)
(* at a time.  A change keeps what it does not mention unless it was asked *)
(* to replace the commodity; a plugin may restate a day's prices as one.   *)
(* Prices implements this as long as no two changes of a file overlap.     *)
(***************************************************************************)
CONSTANTS Clients, Symbols, Moments, NoPrice, NoRequest,
  Quoted,     \* prices: pairs of an amount and what it is quoted in
  DayOf       \* [moment -> its day]

VARIABLES
  table,      \* [symbol -> [moment -> price]]
  requested,  \* [client -> [symbol -> what it asked for and has not got]]
  clashed     \* two changes of one file have overlapped

tableVars == <<table, requested, clashed>>

Merged(old, new) == [m \in Moments |-> IF new[m] = NoPrice THEN old[m] ELSE new[m]]

OnDay(prices, d) == {m \in Moments : DayOf[m] = d /\ prices[m] # NoPrice}

\* A day that had a price, or is given one, has one; its amounts are among those the
\* day is given or, if it is given none, among those it had.
Restates(old, new, after) ==
  /\ \A m \in Moments : Merged(old, new)[m] # NoPrice => OnDay(after, DayOf[m]) # {}
  /\ \A m \in Moments : after[m] # NoPrice =>
       LET from == IF OnDay(new, DayOf[m]) = {} THEN old ELSE new
       IN \E k \in OnDay(from, DayOf[m]) : after[m][1] = from[k][1]

Makes(request, old, after) ==
  \/ request.kind \in {"set", "merge"} /\ after = Merged(old, request.new)
  \/ request.kind = "replace" /\ after = request.new
  \/ request.kind = "plugin" /\ Restates(old, request.new, after)

TableOf == [Symbols -> [Moments -> Quoted \cup {NoPrice}]]

Init ==
  /\ table \in TableOf
  /\ requested = [c \in Clients |-> [s \in Symbols |-> NoRequest]]
  /\ clashed = FALSE

Ask(c) ==
  /\ \A s \in Symbols : requested[c][s] = NoRequest
  /\ \A d \in Clients \ {c} : requested'[d] = requested[d]
  /\ UNCHANGED <<table, clashed>>

Make(c, s) ==
  /\ requested[c][s] # NoRequest
  /\ requested' = [requested EXCEPT ![c][s] = NoRequest]
  /\ \A r \in Symbols \ {s} : table'[r] = table[r]
  /\ Makes(requested[c][s], table[s], table'[s])
  /\ UNCHANGED clashed

Clash == clashed'

Next == Clash \/ \E c \in Clients : Ask(c) \/ \E s \in Symbols : Make(c, s)

Spec == Init /\ [][Next]_tableVars
====
