------------------------------ MODULE PricingStore ------------------------------
(***************************************************************************)
(* The tables of prices - discounts and taxes - the clock, and the tills   *)
(* that use a discount.                                                    *)
(*                                                                         *)
(* Names, categories and organisations are left out, no check reads them.  *)
(* Amounts are whole numbers of the smallest unit of money, percentages    *)
(* whole numbers; the clock counts the instants that dates can name.       *)
(***************************************************************************)
EXTENDS Integers, Rows, Handlers

CONSTANTS
  DiscIds, TaxIds,   \* ids the two tables may ever hand out
  Codes,        \* codes of discounts
  Offers,       \* discounts that clients create
  DiscPatches,  \* changes of a discount that clients send
  Rates,        \* rates of taxes that clients send
  Subtotals,    \* subtotals that prices are asked for
  Metered,      \* discounts whose clients leave the count alone and only raise the limit
  Paired,       \* discounts whose clients send type and value together, and both dates
  MaxClock,     \* bound on the clock
  MaxCount,     \* bound on the uses of a discount
  MaxDiscounts, \* bound on the discounts ever created
  Mixed         \* bound: whether different components hold rows together

Types == {"PERCENTAGE", "FIXED_AMOUNT", "BUY_X_GET_Y"}
Discs ==
  [code: Codes, type: Types, value: Nat, max: OrNull(Nat), min: OrNull(Nat),
   from: OrNull(Nat), until: OrNull(Nat),
   limit: OrNull(Nat \ {0}), count: Nat, active: BOOLEAN]
Taxes == [rate: 0..100, active: BOOLEAN]

Patches ==
  [code: Optional(Codes), type: Optional(Types), value: Optional(Nat),
   max: Optional(OrNull(Nat)), min: Optional(OrNull(Nat)),
   from: Optional(OrNull(Nat)), until: Optional(OrNull(Nat)),
   limit: Optional(OrNull(Nat \ {0})), count: Optional(Nat), active: Optional(BOOLEAN)]

ASSUME PricingAssumption ==
  /\ Offers \subseteq Discs /\ DiscPatches \subseteq Patches
  /\ Rates \subseteq 0..100 /\ Subtotals \subseteq Nat
  /\ Metered \subseteq DiscIds /\ Paired \subseteq DiscIds
  /\ MaxClock \in Nat /\ MaxCount \in Nat /\ MaxDiscounts \in Nat /\ Mixed \in BOOLEAN
  /\ Null \notin Nat /\ Absent \notin Int \cup BOOLEAN \cup Codes \cup Types \cup {Null}

VARIABLES
  disc,    \* the Discount table
  tax,     \* the Tax table
  now      \* the time

prices == <<disc, tax, now>>

TillCalls == [step: {"use"}, id: DiscIds]

PricesTypeOK ==
  /\ disc \in [DiscIds -> Discs \cup Vacant]
  /\ tax \in [TaxIds -> Taxes \cup Vacant]
  /\ now \in 0..MaxClock

LiveDiscs == {d \in DiscIds : disc[d] \notin Vacant}
LiveTaxes == {t \in TaxIds : tax[t] \notin Vacant}

\* Bounds.
EverDiscs == {d \in DiscIds : disc[d] # NoRow}
EverTaxes == {t \in TaxIds : tax[t] # NoRow}
RoomForDiscount == Cardinality(EverDiscs) < MaxDiscounts /\ (Mixed \/ EverTaxes = {})
RoomForTax == Mixed \/ EverDiscs = {}
NothingPriced == EverDiscs \cup EverTaxes = {}
=============================================================================
