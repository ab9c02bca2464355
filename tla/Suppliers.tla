------------------------------- MODULE Suppliers -------------------------------
(***************************************************************************)
(* SuppliersService: create, update and remove.  The look-ups of create    *)
(* and update refuse nothing that their write does not refuse too, so each *)
(* is one action; remove decides in one statement and acts in another.     *)
(***************************************************************************)
EXTENDS StockStore

SupplierCreate ==
  /\ Room
  /\ \E s \in SupIds : sup[s] = NoRow /\ sup' = [sup EXCEPT ![s] = [active |-> TRUE]]
  /\ UNCHANGED <<item, move, rec, call>>

SupplierUpdate(s, active) ==
  /\ s \in LiveSups
  /\ sup' = [sup EXCEPT ![s].active = Given(@, active)]
  /\ UNCHANGED <<item, move, rec, call>>

\* Mutant: any supplier is deleted.
SupplierRemoveReadUncounted(c, s) ==
  /\ s \in LiveSups
  /\ Start(c, [step |-> "sup.delete", id |-> s])
  /\ UNCHANGED stocks

\* A supplier of some item is hidden, any other is deleted.
SupplierRemoveRead(c, s) ==
  /\ s \in LiveSups
  /\ Start(c, [step |-> IF ItemsOf(s) # {} THEN "sup.hide" ELSE "sup.delete", id |-> s])
  /\ UNCHANGED stocks

SupplierHide(c) ==
  LET s == call[c].id IN
  /\ call[c].step = "sup.hide"
  /\ sup' = IF s \in LiveSups THEN [sup EXCEPT ![s].active = FALSE] ELSE sup
  /\ End(c)
  /\ UNCHANGED <<item, move, rec>>

\* The relation is optional: an item that names the supplier by now loses it.
SupplierDelete(c) ==
  LET s == call[c].id IN
  /\ call[c].step = "sup.delete"
  /\ IF s \in LiveSups
       THEN /\ sup' = [sup EXCEPT ![s] = GoneRow]
            /\ item' = [i \in ItemIds |->
                 IF i \in ItemsOf(s) THEN [item[i] EXCEPT !.sup = Null] ELSE item[i]]
       ELSE UNCHANGED <<sup, item>>
  /\ End(c)
  /\ UNCHANGED <<move, rec>>

SupplierRequest ==
  \/ SupplierCreate
  \/ \E s \in SupIds, active \in Optional(Flags) : SupplierUpdate(s, active)

SupplierStep(c) ==
  \/ \E s \in SupIds : SupplierRemoveRead(c, s)
  \/ SupplierHide(c)
  \/ SupplierDelete(c)
=============================================================================
