--------------------------------- MODULE Taxes ---------------------------------
(***************************************************************************)
(* TaxesService: create, update and remove, and its two calculations.      *)
(* Each write is one action with the look-up before it.                    *)
(*                                                                         *)
(* The taxes asked for are a set.  A request may name one twice: several   *)
(* taxes then charge it once, and one by one it would be charged twice.    *)
(***************************************************************************)
EXTENDS PricingStore, FiniteSetsExt

TaxCreate(rate, active) ==
  /\ RoomForTax
  /\ \E t \in TaxIds :
       tax[t] = NoRow /\ tax' = [tax EXCEPT ![t] = [rate |-> rate, active |-> active]]
  /\ UNCHANGED <<disc, now, call>>

TaxUpdate(t, rate, active) ==
  /\ t \in LiveTaxes
  /\ tax' = [tax EXCEPT ![t] =
       [rate |-> Given(@.rate, rate), active |-> Given(@.active, active)]]
  /\ UNCHANGED <<disc, now, call>>

TaxRemove(t) ==
  /\ t \in LiveTaxes
  /\ tax' = [tax EXCEPT ![t] = GoneRow]
  /\ UNCHANGED <<disc, now, call>>

\* calculateTax, in hundredths; it throws when there is no such tax.
CalculateTax(t, subtotal) == IF tax[t].active THEN subtotal * tax[t].rate ELSE 0

\* Mutant: taxes that are switched off are charged too.
ChargedOrOff(ids) == ids \cap LiveTaxes

\* calculateMultipleTaxes: ids it does not know, or that are off, are passed over.
Charged(ids) == {t \in ids \cap LiveTaxes : tax[t].active}
Breakdown(ids, subtotal) == [t \in Charged(ids) |-> subtotal * tax[t].rate]
Total(ids, subtotal) ==
  LET parts == Breakdown(ids, subtotal)
      Part(t) == parts[t]
  IN MapThenSumSet(Part, DOMAIN parts)

TaxRequest ==
  \/ \E rate \in Rates, active \in BOOLEAN : TaxCreate(rate, active)
  \/ \E t \in TaxIds :
       \/ \E rate \in Optional(Rates), active \in Optional(BOOLEAN) : TaxUpdate(t, rate, active)
       \/ TaxRemove(t)
=============================================================================
