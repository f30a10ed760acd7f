------------------------------- MODULE MCPrices -------------------------------
(***************************************************************************)
(* Two commodities for Prices, one of which is quoted in the other, and    *)
(* files to import: with a line that is no price, with two prices of one   *)
(* day, and with no price at all.                                          *)
(***************************************************************************)
EXTENDS Prices

PricesAtStart == [BTC |-> <<Comment, Price("BTC", 1, 1, 1, "USD")>>, USD |-> <<Price("USD", 1, 0, 2, "AUD")>>]
ImportFiles ==
  {<<Price("BTC", 2, 2, 2, "USD"), Comment, Price("USD", 2, 0, 1, "AUD")>>,
   <<Price("BTC", 1, 0, 1, "AUD"), Price("BTC", 1, 1, 2, "AUD")>>,
   <<Comment>>}
=============================================================================
