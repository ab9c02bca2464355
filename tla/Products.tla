------------------------------- MODULE Products -------------------------------
(***************************************************************************)
(* ProductsService: create, update and remove.                             *)
(***************************************************************************)
EXTENDS MenuStore

\* The index that keeps stock keeping units unique.
Taken(sku) == {p \in LiveProds : prod[p].sku = sku}

ProductRead(c, category, sku, active) ==
  /\ RoomOnShelf
  /\ Taken(sku) = {}
  /\ category \in LiveCats
  /\ Start(c, [step |-> "prod.insert",
               row |-> [cat |-> category, sku |-> sku, active |-> active, sold |-> FALSE]])
  /\ UNCHANGED tables

\* The insert throws when the unit has been taken or the category has gone since.
ProductInsert(c) ==
  LET row == call[c].row IN
  /\ call[c].step = "prod.insert"
  /\ IF Taken(row.sku) = {} /\ row.cat \in LiveCats
       THEN \E p \in ProdIds : prod[p] = NoRow /\ prod' = [prod EXCEPT ![p] = row]
       ELSE prod' = prod
  /\ End(c)
  /\ UNCHANGED <<cat, mod>>

\* What an update of product p may set, by the checks before it and the constraints on it.
Accepts(p, patch) ==
  /\ p \in LiveProds
  /\ patch.sku # Absent => Taken(patch.sku) \subseteq {p}
  /\ patch.cat # Absent => patch.cat \in LiveCats

ProductPatchRead(c, p, patch) ==
  /\ Accepts(p, patch)
  /\ Start(c, [step |-> "prod.patch", id |-> p, patch |-> patch])
  /\ UNCHANGED tables

PatchedProduct(row, patch) ==
  [cat |-> Given(row.cat, patch.cat), sku |-> Given(row.sku, patch.sku),
   active |-> Given(row.active, patch.active), sold |-> row.sold]

ProductPatch(c) ==
  LET k == call[c] IN
  /\ k.step = "prod.patch"
  /\ prod' = IF Accepts(k.id, k.patch)
               THEN [prod EXCEPT ![k.id] = PatchedProduct(@, k.patch)]
               ELSE prod
  /\ End(c)
  /\ UNCHANGED <<cat, mod>>

\* A product on a ticket is hidden, any other is deleted.
ProductRemoveRead(c, p) ==
  /\ p \in LiveProds
  /\ Start(c, [step |-> IF prod[p].sold THEN "prod.hide" ELSE "prod.delete", id |-> p])
  /\ UNCHANGED tables

ProductHide(c) ==
  LET k == call[c] IN
  /\ k.step = "prod.hide"
  /\ prod' = IF k.id \in LiveProds THEN [prod EXCEPT ![k.id].active = FALSE] ELSE prod
  /\ End(c)
  /\ UNCHANGED <<cat, mod>>

ProductDelete(c) ==
  LET k == call[c] IN
  /\ k.step = "prod.delete"
  /\ prod' = IF k.id \in LiveProds /\ ~prod[k.id].sold
               THEN [prod EXCEPT ![k.id] = GoneRow]
               ELSE prod
  /\ End(c)
  /\ UNCHANGED <<cat, mod>>

\* Tickets are written outside the API.
SellProduct(p) ==
  /\ p \in LiveProds
  /\ prod' = [prod EXCEPT ![p].sold = TRUE]
  /\ UNCHANGED <<cat, mod, call>>

ProductBegin(c) ==
  \/ \E category \in CatIds, sku \in Skus, active \in Flags \cup {TRUE} :
       ProductRead(c, category, sku, active)
  \/ \E p \in ProdIds :
       \/ \E patch \in ProdPatches : ProductPatchRead(c, p, patch)
       \/ ProductRemoveRead(c, p)

ProductStep(c) ==
  \/ ProductInsert(c)
  \/ ProductPatch(c)
  \/ ProductHide(c)
  \/ ProductDelete(c)
=============================================================================
