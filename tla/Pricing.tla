-------------------------------- MODULE Pricing --------------------------------
(***************************************************************************)
(* Discounts and taxes over one database, while time passes; what holds of *)
(* prices.                                                                 *)
(***************************************************************************)
EXTENDS Discounts, Taxes

Tick ==
  /\ now < MaxClock
  /\ now' = now + 1
  /\ UNCHANGED <<disc, tax, call>>

PricesInit ==
  /\ disc = [d \in DiscIds |-> NoRow]
  /\ tax = [t \in TaxIds |-> NoRow]
  /\ now = 0

PricesNext ==
  \/ DiscountRequest
  \/ TaxRequest
  \/ \E c \in Callers : DiscountUse(c)
  \/ Tick

-----------------------------------------------------------------------------
(***************************************************************************)
(* The limit is read by one request and the use counted by another, and    *)
(* nothing ties them.  Still a metered discount is never used more often   *)
(* than its limit and one time more per other till at work; a till alone   *)
(* never exceeds it (calculateDiscount, 237-240; incrementUsage, 267-272). *)
(***************************************************************************)
FewOverLimit == \A d \in LiveDiscs \cap Metered :
  disc[d].limit # Null => disc[d].count <= disc[d].limit - 1 + Cardinality(Callers)

(***************************************************************************)
(* The checks of an update see the request and never the row, so a type    *)
(* sent without its value, or one date without the other, is not checked   *)
(* against what is stored.  When clients send them together, no row ever   *)
(* has a percentage above 100, a fixed amount of nothing or dates the      *)
(* wrong way round (create, 33-57; update, 151-177).                       *)
(***************************************************************************)
TermsHold == \A d \in LiveDiscs \cap Paired :
  /\ FitsType(disc[d].type, disc[d].value)
  /\ InOrder(disc[d].from, disc[d].until)

(***************************************************************************)
(* The discounts on offer are those that a till is not refused for being   *)
(* switched off, early or late: the database decides the one list and the  *)
(* service the other, each with its own treatment of missing dates         *)
(* (findActive, 79-102; calculateDiscount, 217-228).                       *)
(***************************************************************************)
ListedAreInForce == ListedDiscounts = {d \in LiveDiscs : InForce(disc[d])}

(***************************************************************************)
(* Whatever has become of its columns, a discount never takes more than    *)
(* the subtotal; of two baskets that reach the minimum, the bigger one     *)
(* gets no less off and is left no less to pay (calculateDiscount,         *)
(* 230-264).                                                               *)
(***************************************************************************)
BiggerBasketPaysNoLess == \A d \in LiveDiscs : \A less, more \in Subtotals :
  LET row == disc[d] IN
  less <= more /\ Reaches(row, less) =>
    /\ Reaches(row, more)
    /\ Amount(row, less) \in 0..(100 * less)
    /\ Amount(row, less) <= Amount(row, more)
    /\ 100 * less - Amount(row, less) <= 100 * more - Amount(row, more)

(***************************************************************************)
(* Asked for several taxes at once or for each alone, the service charges  *)
(* the same, although it passes over a tax that is off in the one case and *)
(* answers 0 for it in the other (calculateTax, 82-90;                     *)
(* calculateMultipleTaxes, 92-114).                                        *)
(***************************************************************************)
TaxesAddUp == \A ids \in SUBSET TaxIds, subtotal \in Subtotals :
  LET Alone(t) == CalculateTax(t, subtotal) IN
  Total(ids, subtotal) = MapThenSumSet(Alone, ids \cap LiveTaxes)
=============================================================================
