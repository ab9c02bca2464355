------------------------------- MODULE MenuStore -------------------------------
(***************************************************************************)
(* The tables of the menu - categories, products, modifiers - and the      *)
(* handlers of CategoriesService, ProductsService and ModifiersService in  *)
(* flight over them.                                                       *)
(*                                                                         *)
(* A word is a name up to case: the look-ups ignore case.  Descriptions,   *)
(* prices and colours are left out, no check reads them.  Links between    *)
(* products and modifiers are left out, nothing in the API writes one.     *)
(***************************************************************************)
EXTENDS Integers, Handlers

CONSTANTS
  CatIds, ProdIds, ModIds,   \* ids the three tables may ever hand out
  Words,        \* names of categories and of modifiers
  Types,        \* types of modifiers
  Skus,         \* stock keeping units of products
  Places,       \* values of sortOrder that clients send
  Flags,        \* values of active that clients send
  Placed,       \* categories whose place clients set by hand
  Guarded,      \* modifiers with at most one request in flight
  MaxRows,      \* bound on the rows ever created
  Mixed,        \* bound: whether modifiers and rows of the other tables are created together
  Absent        \* an optional field left out of a request

ASSUME MenuAssumption ==
  /\ IsFiniteSet(CatIds) /\ IsFiniteSet(ModIds)
  /\ Places \subseteq Int /\ Flags \subseteq BOOLEAN
  /\ Placed \subseteq CatIds /\ Guarded \subseteq ModIds
  /\ MaxRows \in Nat /\ Mixed \in BOOLEAN
  /\ Absent \notin Int \cup BOOLEAN \cup Words \cup Types \cup Skus \cup CatIds

VARIABLES
  cat,    \* the Category table
  prod,   \* the Product table
  mod     \* the Modifier table

tables == <<cat, prod, mod>>
vars == <<tables, call>>

NoRow == [status |-> "NONE"]
GoneRow == [status |-> "GONE"]
Vacant == {NoRow, GoneRow}

Cats == [name: Words, place: Int, active: BOOLEAN]
Prods == [cat: CatIds, sku: Skus, active: BOOLEAN,
          sold: BOOLEAN]    \* a ticket line refers to the product
Mods == [name: Words, type: Types, active: BOOLEAN,
         sold: BOOLEAN]     \* a ticket line has the modifier

Optional(S) == S \cup {Absent}
CatPatches == [name: Optional(Words), place: Optional(Places), active: Optional(Flags)]
ProdPatches == [cat: Optional(CatIds), sku: Optional(Skus), active: Optional(Flags)]
ModPatches == [name: Optional(Words), type: Optional(Types), active: Optional(Flags)]

\* A column whose value the request leaves out stays as it is, or takes its default.
Given(old, new) == IF new = Absent THEN old ELSE new

CatCalls ==
  [step: {"cat.order"}, name: Words, active: BOOLEAN]
  \cup [step: {"cat.insert"}, row: Cats, ids: {CatIds, Placed}]
  \cup [step: {"cat.patch"}, id: CatIds, patch: CatPatches]
  \cup [step: {"cat.hide", "cat.delete"}, id: CatIds]
ProdCalls ==
  [step: {"prod.insert"}, row: Prods]
  \cup [step: {"prod.patch"}, id: ProdIds, patch: ProdPatches]
  \cup [step: {"prod.hide", "prod.delete"}, id: ProdIds]
ModCalls ==
  [step: {"mod.insert"}, row: Mods]
  \cup [step: {"mod.check"}, id: ModIds, patch: ModPatches, name: Words, type: Types]
  \cup [step: {"mod.patch"}, id: ModIds, patch: ModPatches]
  \cup [step: {"mod.hide", "mod.delete"}, id: ModIds]

TypeOK ==
  /\ cat \in [CatIds -> Cats \cup Vacant]
  /\ prod \in [ProdIds -> Prods \cup Vacant]
  /\ mod \in [ModIds -> Mods \cup Vacant]
  /\ call \in [Callers -> {Idle} \cup CatCalls \cup ProdCalls \cup ModCalls]

LiveCats == {i \in CatIds : cat[i] \notin Vacant}
LiveProds == {i \in ProdIds : prod[i] \notin Vacant}
LiveMods == {i \in ModIds : mod[i] \notin Vacant}

\* Bounds.  Each counts the rows ever created and those about to be.
Asked(steps) == {c \in Callers : call[c].step \in steps}
ShelfRows ==
  Cardinality({i \in CatIds : cat[i] # NoRow}) + Cardinality({p \in ProdIds : prod[p] # NoRow})
    + Cardinality(Asked({"cat.order", "cat.insert", "prod.insert"}))
ModRows == Cardinality({i \in ModIds : mod[i] # NoRow}) + Cardinality(Asked({"mod.insert"}))
RoomOnShelf == ShelfRows + ModRows < MaxRows /\ (Mixed \/ ModRows = 0)
RoomForModifier == ShelfRows + ModRows < MaxRows /\ (Mixed \/ ShelfRows = 0)
=============================================================================
