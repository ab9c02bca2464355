-------------------------------- MODULE Recipes --------------------------------
(***************************************************************************)
(* RecipesService: create, update and remove.  A request without           *)
(* ingredients, or with an empty list of them, changes columns only that   *)
(* nothing reads, and is left out.  The product a request names may or may *)
(* not exist: when it does not, the request is refused.                    *)
(***************************************************************************)
EXTENDS StockStore

\* At most one request about a guarded recipe is in flight.
About(c) == IF call[c].step \in {"rec.clear", "rec.store", "rec.delete"}
              THEN {call[c].id} \cap Guarded
              ELSE {}
Admitted(r) == \A c \in Callers : r \notin About(c)

RecipeCreate(items) ==
  /\ Room
  /\ items \subseteq LiveItems
  /\ \E r \in RecIds : rec[r] = NoRow /\ rec' = [rec EXCEPT ![r] = [items |-> items]]
  /\ UNCHANGED <<sup, item, move, call>>

\* update with ingredients, up to its first write.
RecipeRead(c, r, items) ==
  /\ r \in LiveRecs
  /\ Admitted(r)
  /\ items # {} /\ items \subseteq LiveItems
  /\ Start(c, [step |-> "rec.clear", id |-> r, items |-> items])
  /\ UNCHANGED stocks

Emptied(r) == IF r \in LiveRecs THEN [rec EXCEPT ![r].items = {}] ELSE rec

\* Mutant: the old ingredients are left in place.
RecipeClearNothing(c) ==
  /\ call[c].step = "rec.clear"
  /\ Goto(c, "rec.store")
  /\ UNCHANGED stocks

RecipeClear(c) ==
  /\ call[c].step = "rec.clear"
  /\ rec' = Emptied(call[c].id)
  /\ Goto(c, "rec.store")
  /\ UNCHANGED <<sup, item, move>>

\* The new ingredients join what is there, all or none: the statement throws when the
\* recipe or an item is gone, or when the recipe has one of the items again by now.
RecipeStore(c) ==
  LET r == call[c].id
      items == call[c].items
  IN
  /\ call[c].step = "rec.store"
  /\ rec' = IF r \in LiveRecs /\ items \subseteq LiveItems /\ items \cap rec[r].items = {}
              THEN [rec EXCEPT ![r].items = @ \cup items]
              ELSE rec
  /\ End(c)
  /\ UNCHANGED <<sup, item, move>>

\* The statement throws as well when the product it moves the recipe to is gone.
RecipeRefused(c) ==
  /\ call[c].step = "rec.store"
  /\ End(c)
  /\ UNCHANGED stocks

\* remove: the ingredients, then the row.
RecipeRemoveRead(c, r) ==
  /\ r \in LiveRecs
  /\ Admitted(r)
  /\ rec' = Emptied(r)
  /\ Start(c, [step |-> "rec.delete", id |-> r])
  /\ UNCHANGED <<sup, item, move>>

\* Ingredients stored since go with the row.
RecipeDelete(c) ==
  LET r == call[c].id IN
  /\ call[c].step = "rec.delete"
  /\ rec' = IF r \in LiveRecs THEN [rec EXCEPT ![r] = GoneRow] ELSE rec
  /\ End(c)
  /\ UNCHANGED <<sup, item, move>>

\* A recipe goes with its product.
ProductDropped(r) ==
  /\ r \in LiveRecs
  /\ rec' = [rec EXCEPT ![r] = GoneRow]
  /\ UNCHANGED <<sup, item, move, call>>

RecipeRequest ==
  \/ \E items \in Lists : RecipeCreate(items)
  \/ \E r \in RecIds : ProductDropped(r)

RecipeStep(c) ==
  \/ \E r \in RecIds :
       \/ \E items \in Lists : RecipeRead(c, r, items)
       \/ RecipeRemoveRead(c, r)
  \/ RecipeClear(c)
  \/ RecipeStore(c)
  \/ RecipeRefused(c)
  \/ RecipeDelete(c)
=============================================================================
