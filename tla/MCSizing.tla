------------------------------- MODULE MCSizing -------------------------------
(***************************************************************************)
(* Values of Sizing's constants.  A dollar is a hundred; USDC is a hair    *)
(* under it and has ninety raw units, so that amounts and values round     *)
(* apart.  A hundred and twenty raw units of the stock are 720 dollars, of *)
(* which a basis point is more than the conversions round away; three are  *)
(* 12.90 dollars at the lowest price.                                      *)
(***************************************************************************)
EXTENDS Sizing

NearlyADollar == [unit |-> 90, price |-> 99]
YieldToken == [unit |-> 90, price |-> 112]

\* A price, a percent less, and one so far below that what is opened at the one
\* is protected at the other, and grown the other way round.
Prices == {6000, 5940, 4300}
==============================================================================
