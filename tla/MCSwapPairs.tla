----------------------------- MODULE MCSwapPairs -----------------------------
(***************************************************************************)
(* Legs for SwapPairs: a stablecoin (1), another (2), a coin (3) and one   *)
(* nobody quotes (4), routed by rules or plain, under two ids, and one in  *)
(* another account.                                                        *)
(***************************************************************************)
EXTENDS SwapPairs

FourQuotes == <<1, 3, 5, 0>>
Sells == {<<1, -1>>, <<1, -2>>, <<3, -1>>}
Buys == {<<3, 1>>, <<3, 2>>, <<1, 1>>}
SomeLegs ==
  {SwapLeg(1, 1, "sell", s[2], s[1], id) : s \in Sells, id \in {1, 2}}
    \cup {SwapLeg(1, 1, "buy", b[2], b[1], id) : b \in Buys, id \in {1, 2}}
    \cup {SwapLeg(1, 1, "buy", 1, 2, 2), SwapLeg(1, 1, "sell", -1, 4, 1), SwapLeg(1, 1, "buy", 0, 4, 1),
          SwapLeg(2, 1, "buy", 1, 3, 2)}
    \cup {SwapLeg(1, 1, "plain", -2, 1, 1), SwapLeg(1, 1, "plain", -1, 3, 1), SwapLeg(1, 1, "plain", 1, 3, 2)}
=============================================================================
