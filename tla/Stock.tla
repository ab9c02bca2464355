--------------------------------- MODULE Stock ---------------------------------
(***************************************************************************)
(* The four services of the stock room over one database; what holds of    *)
(* stock.                                                                  *)
(***************************************************************************)
EXTENDS Suppliers, InventoryItems, InventoryMovements, Recipes

StocksInit ==
  /\ sup = [s \in SupIds |-> NoRow]
  /\ item = [i \in ItemIds |-> NoRow]
  /\ move = [m \in MoveIds |-> NoRow]
  /\ rec = [r \in RecIds |-> NoRow]

StockAbort(c) == call[c] \in StockCalls /\ Fail(c) /\ UNCHANGED stocks

StocksNext ==
  \/ SupplierRequest \/ ItemRequest \/ MovementRequest \/ RecipeRequest
  \/ \E c \in Callers :
       SupplierStep(c) \/ ItemStep(c) \/ MovementStep(c) \/ RecipeStep(c) \/ StockAbort(c)

-----------------------------------------------------------------------------
\* Lists a recipe may be made of: one, or as many as requests about it can overlap.
Overlap(r) == IF r \in Guarded THEN 1 ELSE Cardinality(Callers)

(***************************************************************************)
(* Updates of one recipe that overtake each other each delete the          *)
(* ingredients and then add their own, so that lists nobody asked for come *)
(* about.  But a recipe is never a mixture of more lists than requests can *)
(* overlap; with one request at a time it is exactly one of them, or empty *)
(* after an update that failed half-way (update, 236-264).                 *)
(***************************************************************************)
FewListsMix == \A r \in LiveRecs : \E few \in SUBSET Lists :
  Cardinality(few) <= Overlap(r) /\ rec[r].items = UNION few

(***************************************************************************)
(* The items of a supplier are counted in one statement and the supplier   *)
(* is deleted in another.  An item created for it in between would lose    *)
(* its supplier without a word; if clients leave the items of a supplier   *)
(* alone while they remove it, none does (remove, 180-207).                *)
(***************************************************************************)
TakesNothing == \A s \in Kept :
  s \in LiveSups /\ sup'[s] = GoneRow => \A i \in ItemIds : item'[i] = item[i]
SupplierTakesNothing == [][TakesNothing]_<<stocks, call>>

(***************************************************************************)
(* An outgoing movement that is not changed afterwards is never more than  *)
(* the stock of its item, although the stock was read a statement before   *)
(* the insert and the item may be moved, hidden or gone by then (create,   *)
(* 47-71).  Several together may well be more: nothing lowers the stock.   *)
(***************************************************************************)
OutsFitStock == \A m \in LiveMoves \cap Settled :
  move[m].type = "OUT" /\ move[m].item \in Filling
    => move[m].quantity <= item[move[m].item].stock
=============================================================================
