------------------------------ MODULE BackOffice ------------------------------
(***************************************************************************)
(* Prices and stock: what managers keep with the same API, over one        *)
(* database.  The two share no table, only the callers.                    *)
(***************************************************************************)
EXTENDS Pricing, Stock

vars == <<prices, stocks, call>>

TypeOK ==
  /\ PricesTypeOK
  /\ StocksTypeOK
  /\ call \in [Callers -> {Idle} \cup TillCalls \cup StockCalls]

Init == PricesInit /\ StocksInit /\ HandlersInit

Next ==
  \/ (Mixed \/ NothingStored) /\ PricesNext /\ UNCHANGED stocks
  \/ (Mixed \/ NothingPriced) /\ StocksNext /\ UNCHANGED prices

Spec == Init /\ [][Next]_vars
=============================================================================
