------------------------------ MODULE MenuProofs ------------------------------
(***************************************************************************)
(* Theorems about Menu, for any number of rows, words, types, places and   *)
(* requests in flight.                                                     *)
(***************************************************************************)
EXTENDS Menu, FiniteSetTheorems, TLAPS

LEMMA VacantRows ==
  /\ NoRow \notin Cats \cup Prods \cup Mods
  /\ GoneRow \notin Cats \cup Prods \cup Mods
  /\ NoRow # GoneRow
<1>1. DOMAIN NoRow = {"status"} /\ DOMAIN GoneRow = {"status"}
  BY DEF NoRow, GoneRow
<1>2. \A row \in Cats : "name" \in DOMAIN row
  BY DEF Cats
<1>3. \A row \in Prods : "sku" \in DOMAIN row
  BY DEF Prods
<1>4. \A row \in Mods : "name" \in DOMAIN row
  BY DEF Mods
<1>5. NoRow # GoneRow
  BY DEF NoRow, GoneRow
<1> QED BY <1>1, <1>2, <1>3, <1>4, <1>5

\* A live row has its columns.
LEMMA LiveRows ==
  ASSUME TypeOK
  PROVE  /\ \A i \in LiveCats : i \in CatIds /\ cat[i] \in Cats
         /\ \A p \in LiveProds : p \in ProdIds /\ prod[p] \in Prods
         /\ \A m \in LiveMods : m \in ModIds /\ mod[m] \in Mods
BY DEF TypeOK, LiveCats, LiveProds, LiveMods

\* A column that is left out keeps its value, one that is sent has its type.
LEMMA GivenType ==
  /\ \A old \in Words, new \in Optional(Words) : Given(old, new) \in Words
  /\ \A old \in Int, new \in Optional(Places) : Given(old, new) \in Int
  /\ \A old \in BOOLEAN, new \in Optional(Flags) : Given(old, new) \in BOOLEAN
  /\ \A old \in CatIds, new \in Optional(CatIds) : Given(old, new) \in CatIds
  /\ \A old \in Skus, new \in Optional(Skus) : Given(old, new) \in Skus
  /\ \A old \in Types, new \in Optional(Types) : Given(old, new) \in Types
BY MenuAssumption DEF MenuAssumption, Given, Optional

LEMMA PatchedTypes ==
  /\ \A row \in Cats, patch \in CatPatches : PatchedCategory(row, patch) \in Cats
  /\ \A row \in Prods, patch \in ProdPatches : PatchedProduct(row, patch) \in Prods
  /\ \A row \in Mods, patch \in ModPatches : PatchedModifier(row, patch) \in Mods
<1>1. ASSUME NEW row \in Cats, NEW patch \in CatPatches
      PROVE  PatchedCategory(row, patch) \in Cats
  BY GivenType DEF PatchedCategory, Cats, CatPatches
<1>2. ASSUME NEW row \in Prods, NEW patch \in ProdPatches
      PROVE  PatchedProduct(row, patch) \in Prods
  BY GivenType DEF PatchedProduct, Prods, ProdPatches
<1>3. ASSUME NEW row \in Mods, NEW patch \in ModPatches
      PROVE  PatchedModifier(row, patch) \in Mods
  BY GivenType DEF PatchedModifier, Mods, ModPatches
<1> QED BY <1>1, <1>2, <1>3

\* The place put at the end is a number.
LEMMA NextPlaceType == TypeOK => NextPlaces \subseteq Int
BY LiveRows DEF NextPlaces, Cats

-----------------------------------------------------------------------------
(***************************************************************************)
(* Type correctness: a row of the menu is vacant or has its columns, and a *)
(* handler in flight carries the locals of its statement.                  *)
(***************************************************************************)
MenuCalls == {Idle} \cup CatCalls \cup ProdCalls \cup ModCalls
CatTable == [CatIds -> Cats \cup Vacant]
ProdTable == [ProdIds -> Prods \cup Vacant]
ModTable == [ModIds -> Mods \cup Vacant]

LEMMA Tables ==
  TypeOK <=> cat \in CatTable /\ prod \in ProdTable /\ mod \in ModTable
             /\ call \in [Callers -> MenuCalls]
BY DEF TypeOK, CatTable, ProdTable, ModTable, MenuCalls

\* A request that begins carries what its first statement needs.
LEMMA BegunType ==
  ASSUME TypeOK, NEW c \in Callers, NEW k \in MenuCalls, Start(c, k), UNCHANGED tables
  PROVE  TypeOK'
BY DEF TypeOK, MenuCalls, Start, tables

\* A request that ends leaves rows behind.
LEMMA EndedType ==
  ASSUME TypeOK, NEW c \in Callers, End(c),
         cat' \in CatTable, prod' \in ProdTable, mod' \in ModTable
  PROVE  TypeOK'
BY DEF TypeOK, MenuCalls, CatTable, ProdTable, ModTable, End

LEMMA CategoryType ==
  ASSUME TypeOK, NEW c \in Callers, CategoryBegin(c) \/ CategoryStep(c)
  PROVE  TypeOK'
<1>0. call[c] \in MenuCalls /\ cat \in CatTable /\ prod \in ProdTable /\ mod \in ModTable
  BY Tables
<1>1. ASSUME NEW word \in Words, NEW place \in Optional(Places), NEW active \in Flags \cup {TRUE},
             CategoryRead(c, word, place, active)
      PROVE  TypeOK'
  <2>1. active \in BOOLEAN
    BY MenuAssumption DEF MenuAssumption
  <2>2. CASE place = Absent
    <3>1. [step |-> "cat.order", name |-> word, active |-> active] \in MenuCalls
      BY <2>1 DEF MenuCalls, CatCalls
    <3> QED BY <1>1, <2>2, <3>1, BegunType DEF CategoryRead
  <2>3. CASE place # Absent
    <3>1. NewCategory(word, place, active) \in Cats
      BY <2>1, <2>3, MenuAssumption DEF MenuAssumption, Optional, NewCategory, Cats
    <3>2. InsertPlaced(NewCategory(word, place, active)) \in MenuCalls
      BY <3>1 DEF InsertPlaced, MenuCalls, CatCalls
    <3> QED BY <1>1, <2>3, <3>2, BegunType DEF CategoryRead
  <2> QED BY <2>2, <2>3
<1>2. ASSUME NEW i \in CatIds, NEW patch \in CatPatches, CategoryPatchRead(c, i, patch)
      PROVE  TypeOK'
  <2>1. [step |-> "cat.patch", id |-> i, patch |-> patch] \in MenuCalls
    BY DEF MenuCalls, CatCalls
  <2> QED BY <1>2, <2>1, BegunType DEF CategoryPatchRead
<1>3. ASSUME NEW i \in CatIds, NEW place \in Places, CategoryReorderRead(c, i, place)
      PROVE  TypeOK'
  <2>1. [step |-> "cat.patch", id |-> i,
         patch |-> [name |-> Absent, place |-> place, active |-> Absent]] \in MenuCalls
    <3>1. [name |-> Absent, place |-> place, active |-> Absent] \in CatPatches
      BY DEF CatPatches, Optional
    <3> QED BY <3>1 DEF MenuCalls, CatCalls
  <2> QED BY <1>3, <2>1, BegunType DEF CategoryReorderRead
<1>4. ASSUME NEW i \in CatIds, CategoryRemoveRead(c, i) PROVE TypeOK'
  <2>1. \A s \in {"cat.hide", "cat.delete"} : [step |-> s, id |-> i] \in MenuCalls
    BY DEF MenuCalls, CatCalls
  <2> QED BY <1>4, <2>1, BegunType DEF CategoryRemoveRead
<1>5. ASSUME CategoryOrder(c) PROVE TypeOK'
  <2>1. call[c].name \in Words /\ call[c].active \in BOOLEAN
    BY <1>0, <1>5 DEF CategoryOrder, MenuCalls, CatCalls, ProdCalls, ModCalls, Idle
  <2>2. \A place \in NextPlaces : Insert(NewCategory(call[c].name, place, call[c].active)) \in MenuCalls
    BY <2>1, NextPlaceType DEF Insert, NewCategory, MenuCalls, CatCalls, Cats
  <2>3. call' \in [Callers -> MenuCalls] /\ UNCHANGED tables
    BY <1>5, <2>2, Tables DEF CategoryOrder
  <2> QED BY <1>0, <2>3 DEF TypeOK, tables, CatTable, ProdTable, ModTable, MenuCalls
<1>6. ASSUME CategoryInsert(c) PROVE TypeOK'
  <2>1. call[c].row \in Cats /\ call[c].ids \subseteq CatIds
    BY <1>0, <1>6, MenuAssumption
       DEF MenuAssumption, CategoryInsert, MenuCalls, CatCalls, ProdCalls, ModCalls, Idle
  <2>2. cat' \in CatTable
    BY <1>0, <1>6, <2>1 DEF CategoryInsert, CatTable
  <2> QED BY <1>0, <1>6, <2>2, EndedType DEF CategoryInsert
<1>7. ASSUME CategoryPatch(c) PROVE TypeOK'
  <2>1. call[c].id \in CatIds /\ call[c].patch \in CatPatches
    BY <1>0, <1>7 DEF CategoryPatch, MenuCalls, CatCalls, ProdCalls, ModCalls, Idle
  <2>2. cat' \in CatTable
    BY <1>0, <1>7, <2>1, LiveRows, PatchedTypes DEF CategoryPatch, CatTable
  <2> QED BY <1>0, <1>7, <2>2, EndedType DEF CategoryPatch
<1>8. ASSUME CategoryHide(c) PROVE TypeOK'
  <2>1. \A i \in LiveCats : [cat[i] EXCEPT !.active = FALSE] \in Cats
    BY LiveRows DEF Cats
  <2>2. cat' \in CatTable
    BY <1>0, <1>8, <2>1, LiveRows DEF CategoryHide, CatTable
  <2> QED BY <1>0, <1>8, <2>2, EndedType DEF CategoryHide
<1>9. ASSUME CategoryDelete(c) PROVE TypeOK'
  <2>1. cat' \in CatTable
    BY <1>0, <1>9 DEF CategoryDelete, CatTable, Vacant
  <2> QED BY <1>0, <1>9, <2>1, EndedType DEF CategoryDelete
<1> QED BY <1>1, <1>2, <1>3, <1>4, <1>5, <1>6, <1>7, <1>8, <1>9 DEF CategoryBegin, CategoryStep

LEMMA ProductType ==
  ASSUME TypeOK, NEW c \in Callers, ProductBegin(c) \/ ProductStep(c)
  PROVE  TypeOK'
<1>0. call[c] \in MenuCalls /\ cat \in CatTable /\ prod \in ProdTable /\ mod \in ModTable
  BY Tables
<1>1. ASSUME NEW category \in CatIds, NEW sku \in Skus, NEW active \in Flags \cup {TRUE},
             ProductRead(c, category, sku, active)
      PROVE  TypeOK'
  <2>1. [cat |-> category, sku |-> sku, active |-> active, sold |-> FALSE] \in Prods
    BY MenuAssumption DEF MenuAssumption, Prods
  <2>2. \A row \in Prods : [step |-> "prod.insert", row |-> row] \in MenuCalls
    BY DEF MenuCalls, ProdCalls
  <2> QED BY <1>1, <2>1, <2>2, BegunType DEF ProductRead
<1>2. ASSUME NEW p \in ProdIds, NEW patch \in ProdPatches, ProductPatchRead(c, p, patch)
      PROVE  TypeOK'
  <2>1. [step |-> "prod.patch", id |-> p, patch |-> patch] \in MenuCalls
    BY DEF MenuCalls, ProdCalls
  <2> QED BY <1>2, <2>1, BegunType DEF ProductPatchRead
<1>3. ASSUME NEW p \in ProdIds, ProductRemoveRead(c, p) PROVE TypeOK'
  <2>1. \A s \in {"prod.hide", "prod.delete"} : [step |-> s, id |-> p] \in MenuCalls
    BY DEF MenuCalls, ProdCalls
  <2> QED BY <1>3, <2>1, BegunType DEF ProductRemoveRead
<1>4. ASSUME ProductInsert(c) PROVE TypeOK'
  <2>1. call[c].row \in Prods
    BY <1>0, <1>4 DEF ProductInsert, MenuCalls, CatCalls, ProdCalls, ModCalls, Idle
  <2>2. prod' \in ProdTable
    BY <1>0, <1>4, <2>1 DEF ProductInsert, ProdTable
  <2> QED BY <1>0, <1>4, <2>2, EndedType DEF ProductInsert
<1>5. ASSUME ProductPatch(c) PROVE TypeOK'
  <2>1. call[c].patch \in ProdPatches
    BY <1>0, <1>5 DEF ProductPatch, MenuCalls, CatCalls, ProdCalls, ModCalls, Idle
  <2>2. Accepts(call[c].id, call[c].patch) => call[c].id \in LiveProds
    BY DEF Accepts
  <2>3. prod' \in ProdTable
    BY <1>0, <1>5, <2>1, <2>2, LiveRows, PatchedTypes DEF ProductPatch, ProdTable
  <2> QED BY <1>0, <1>5, <2>3, EndedType DEF ProductPatch
<1>6. ASSUME ProductHide(c) PROVE TypeOK'
  <2>1. \A p \in LiveProds : [prod[p] EXCEPT !.active = FALSE] \in Prods
    BY LiveRows DEF Prods
  <2>2. prod' \in ProdTable
    BY <1>0, <1>6, <2>1, LiveRows DEF ProductHide, ProdTable
  <2> QED BY <1>0, <1>6, <2>2, EndedType DEF ProductHide
<1>7. ASSUME ProductDelete(c) PROVE TypeOK'
  <2>1. prod' \in ProdTable
    BY <1>0, <1>7 DEF ProductDelete, ProdTable, Vacant
  <2> QED BY <1>0, <1>7, <2>1, EndedType DEF ProductDelete
<1> QED BY <1>1, <1>2, <1>3, <1>4, <1>5, <1>6, <1>7 DEF ProductBegin, ProductStep

LEMMA ModifierType ==
  ASSUME TypeOK, NEW c \in Callers, ModifierBegin(c) \/ ModifierStep(c)
  PROVE  TypeOK'
<1>0. call[c] \in MenuCalls /\ cat \in CatTable /\ prod \in ProdTable /\ mod \in ModTable
  BY Tables
<1>1. ASSUME NEW word \in Words, NEW type \in Types, NEW active \in Flags \cup {TRUE},
             ModifierRead(c, word, type, active)
      PROVE  TypeOK'
  <2>1. [name |-> word, type |-> type, active |-> active, sold |-> FALSE] \in Mods
    BY MenuAssumption DEF MenuAssumption, Mods
  <2>2. \A row \in Mods : [step |-> "mod.insert", row |-> row] \in MenuCalls
    BY DEF MenuCalls, ModCalls
  <2> QED BY <1>1, <2>1, <2>2, BegunType DEF ModifierRead
<1>2. ASSUME NEW i \in ModIds, NEW patch \in ModPatches, ModifierPatchRead(c, i, patch)
      PROVE  TypeOK'
  <2>1. [step |-> "mod.patch", id |-> i, patch |-> patch] \in MenuCalls
    BY DEF MenuCalls, ModCalls
  <2>2. Given(mod[i].name, patch.name) \in Words /\ Given(mod[i].type, patch.type) \in Types
    BY <1>2, LiveRows, GivenType DEF ModifierPatchRead, Mods, ModPatches
  <2>3. [step |-> "mod.check", id |-> i, patch |-> patch,
         name |-> Given(mod[i].name, patch.name),
         type |-> Given(mod[i].type, patch.type)] \in MenuCalls
    BY <2>2 DEF MenuCalls, ModCalls
  <2> QED BY <1>2, <2>1, <2>3, BegunType DEF ModifierPatchRead
<1>3. ASSUME NEW i \in ModIds, ModifierRemoveRead(c, i) PROVE TypeOK'
  <2>1. \A s \in {"mod.hide", "mod.delete"} : [step |-> s, id |-> i] \in MenuCalls
    BY DEF MenuCalls, ModCalls
  <2> QED BY <1>3, <2>1, BegunType DEF ModifierRemoveRead
<1>4. ASSUME ModifierInsert(c) PROVE TypeOK'
  <2>1. call[c].row \in Mods
    BY <1>0, <1>4 DEF ModifierInsert, MenuCalls, CatCalls, ProdCalls, ModCalls, Idle
  <2>2. mod' \in ModTable
    BY <1>0, <1>4, <2>1 DEF ModifierInsert, ModTable
  <2> QED BY <1>0, <1>4, <2>2, EndedType DEF ModifierInsert
<1>5. ASSUME ModifierCheck(c) PROVE TypeOK'
  <2>1. call[c].id \in ModIds /\ call[c].patch \in ModPatches
    BY <1>0, <1>5 DEF ModifierCheck, MenuCalls, CatCalls, ProdCalls, ModCalls, Idle
  <2>2. [step |-> "mod.patch", id |-> call[c].id, patch |-> call[c].patch] \in MenuCalls
    BY <2>1 DEF MenuCalls, ModCalls
  <2>3. call' \in [Callers -> MenuCalls] /\ UNCHANGED tables
    BY <1>5, <2>2, Tables DEF ModifierCheck, MenuCalls
  <2> QED BY <1>0, <2>3 DEF TypeOK, tables, CatTable, ProdTable, ModTable, MenuCalls
<1>6. ASSUME ModifierPatch(c) PROVE TypeOK'
  <2>1. call[c].id \in ModIds /\ call[c].patch \in ModPatches
    BY <1>0, <1>6 DEF ModifierPatch, MenuCalls, CatCalls, ProdCalls, ModCalls, Idle
  <2>2. mod' \in ModTable
    BY <1>0, <1>6, <2>1, LiveRows, PatchedTypes DEF ModifierPatch, ModTable
  <2> QED BY <1>0, <1>6, <2>2, EndedType DEF ModifierPatch
<1>7. ASSUME ModifierHide(c) PROVE TypeOK'
  <2>1. \A i \in LiveMods : [mod[i] EXCEPT !.active = FALSE] \in Mods
    BY LiveRows DEF Mods
  <2>2. mod' \in ModTable
    BY <1>0, <1>7, <2>1, LiveRows DEF ModifierHide, ModTable
  <2> QED BY <1>0, <1>7, <2>2, EndedType DEF ModifierHide
<1>8. ASSUME ModifierDelete(c) PROVE TypeOK'
  <2>1. mod' \in ModTable
    BY <1>0, <1>8 DEF ModifierDelete, ModTable, Vacant
  <2> QED BY <1>0, <1>8, <2>1, EndedType DEF ModifierDelete
<1> QED BY <1>1, <1>2, <1>3, <1>4, <1>5, <1>6, <1>7, <1>8 DEF ModifierBegin, ModifierStep

LEMMA SaleType ==
  ASSUME TypeOK, (\E p \in ProdIds : SellProduct(p)) \/ (\E i \in ModIds : SellModifier(i))
  PROVE  TypeOK'
<1>0. call \in [Callers -> MenuCalls] /\ cat \in CatTable /\ prod \in ProdTable /\ mod \in ModTable
  BY Tables
<1>1. ASSUME NEW p \in ProdIds, SellProduct(p) PROVE prod' \in ProdTable
  <2>1. [prod[p] EXCEPT !.sold = TRUE] \in Prods
    BY <1>1, LiveRows DEF SellProduct, Prods
  <2> QED BY <1>0, <1>1, <2>1 DEF SellProduct, ProdTable
<1>2. ASSUME NEW i \in ModIds, SellModifier(i) PROVE mod' \in ModTable
  <2>1. [mod[i] EXCEPT !.sold = TRUE] \in Mods
    BY <1>2, LiveRows DEF SellModifier, Mods
  <2> QED BY <1>0, <1>2, <2>1 DEF SellModifier, ModTable
<1>3. prod' \in ProdTable /\ mod' \in ModTable /\ cat' = cat /\ call' = call
  BY <1>0, <1>1, <1>2 DEF SellProduct, SellModifier
<1> QED BY <1>0, <1>3 DEF TypeOK, CatTable, ProdTable, ModTable, MenuCalls

LEMMA TypePreserved == TypeOK /\ [Next]_vars => TypeOK'
<1> SUFFICES ASSUME TypeOK, Next PROVE TypeOK'
  BY DEF vars, tables, TypeOK
<1>1. ASSUME NEW c \in Callers, Abort(c) PROVE TypeOK'
  BY <1>1, Tables, EndedType DEF Abort, Fail, tables
<1> QED BY <1>1, CategoryType, ProductType, ModifierType, SaleType DEF Next, BeginCall, Step

LEMMA TypeInit == Init => TypeOK
BY DEF Init, HandlersInit, TypeOK, Vacant

(***************************************************************************)
(* In every environment the tables of the menu and the handlers in flight  *)
(* have their types (CategoriesService, ProductsService, ModifiersService).*)
(***************************************************************************)
THEOREM TypeCorrect == Spec => []TypeOK
<1> QED BY TypeInit, TypePreserved, PTL DEF Spec

-----------------------------------------------------------------------------
(***************************************************************************)
(* Counting.  X are the rows that share a value or are about to, B the     *)
(* requests about to add one.  Together they are never more than callers.  *)
(***************************************************************************)
Few(X, B) == /\ IsFiniteSet(X)
             /\ Cardinality(X) + Cardinality(B) <= Cardinality(Callers)

LEMMA FiniteRequests ==
  ASSUME NEW B, B \subseteq Callers
  PROVE  /\ IsFiniteSet(B) /\ Cardinality(B) \in Nat
         /\ Cardinality(Callers) \in Nat /\ Cardinality(B) <= Cardinality(Callers)
BY FS_Subset, FS_CardinalityType, HandlersAssumption DEF HandlersAssumption

\* Rows that are each held by a request of A are no more than A.
LEMMA Held ==
  ASSUME NEW X, NEW A, IsFiniteSet(A), NEW f, \A x \in X : \E c \in A : f[c] = x
  PROVE  IsFiniteSet(X) /\ Cardinality(X) <= Cardinality(A)
<1> DEFINE holder == [x \in X |-> CHOOSE c \in A : f[c] = x]
<1>1. holder \in [X -> A] /\ \A x \in X : f[holder[x]] = x
  OBVIOUS
<1> HIDE DEF holder
<1>2. holder \in Injection(X, A)
  BY <1>1 DEF Injection, IsInjective
<1> QED BY <1>2, FS_Injection

\* Once every row that shares the value is held by a request, the requests bound it all.
LEMMA OnlyRequests ==
  ASSUME NEW X, NEW A, A \subseteq Callers, NEW B, B \subseteq Callers, A \cap B = {},
         NEW f, \A x \in X : \E c \in A : f[c] = x
  PROVE  Few(X, B)
<1>1. IsFiniteSet(X) /\ Cardinality(X) <= Cardinality(A) /\ Cardinality(X) \in Nat
  BY Held, FiniteRequests, FS_CardinalityType
<1>2. Cardinality(A \cup B) = Cardinality(A) + Cardinality(B)
  <2>1. Cardinality(A \cup B) = Cardinality(A) + Cardinality(B) - Cardinality(A \cap B)
    BY FS_Union, FiniteRequests
  <2> QED BY <2>1, FS_EmptySet, FiniteRequests
<1>3. Cardinality(A \cup B) <= Cardinality(Callers)
  BY FiniteRequests
<1>4. Cardinality(A) \in Nat /\ Cardinality(B) \in Nat /\ Cardinality(Callers) \in Nat
  BY FiniteRequests
<1> QED BY <1>1, <1>2, <1>3, <1>4 DEF Few

LEMMA NoRows ==
  ASSUME NEW B, B \subseteq Callers
  PROVE  Few({}, B)
BY FS_EmptySet, FiniteRequests DEF Few

LEMMA Fewer ==
  ASSUME NEW X, NEW B, B \subseteq Callers, Few(X, B), NEW Y, Y \subseteq X, NEW C, C \subseteq B
  PROVE  Few(Y, C)
<1>1. /\ IsFiniteSet(Y) /\ Cardinality(Y) <= Cardinality(X)
      /\ Cardinality(Y) \in Nat /\ Cardinality(X) \in Nat
  BY FS_Subset, FS_CardinalityType DEF Few
<1>2. /\ Cardinality(C) <= Cardinality(B) /\ Cardinality(C) \in Nat /\ Cardinality(B) \in Nat
      /\ Cardinality(Callers) \in Nat
  BY FiniteRequests, FS_Subset
<1> QED BY <1>1, <1>2 DEF Few

\* A request that adds its row stops being about to.
LEMMA Settles ==
  ASSUME NEW X, NEW B, B \subseteq Callers, Few(X, B), NEW i, NEW c, c \in B,
         NEW Y, Y \subseteq X \cup {i}, NEW C, C \subseteq B \ {c}
  PROVE  Few(Y, C)
<1>1. /\ IsFiniteSet(X \cup {i}) /\ Cardinality(X \cup {i}) <= Cardinality(X) + 1
      /\ Cardinality(X) \in Nat
  <2>1. IsFiniteSet(X) /\ Cardinality(X) \in Nat
    BY FS_CardinalityType DEF Few
  <2>2. IsFiniteSet(X \cup {i})
    BY <2>1, FS_AddElement
  <2>3. Cardinality(X \cup {i}) = IF i \in X THEN Cardinality(X) ELSE Cardinality(X) + 1
    BY <2>1, FS_AddElement
  <2> QED BY <2>1, <2>2, <2>3
<1>2. Cardinality(B \ {c}) = Cardinality(B) - 1
  BY FiniteRequests, FS_RemoveElement
<1>3. /\ Cardinality(B) \in Nat /\ Cardinality(B \ {c}) \in Nat /\ Cardinality(Callers) \in Nat
      /\ Cardinality(X \cup {i}) \in Nat
  BY <1>1, FiniteRequests, FS_CardinalityType
<1>4. Few(X \cup {i}, B \ {c})
  BY <1>1, <1>2, <1>3 DEF Few
<1> QED BY <1>4, Fewer

-----------------------------------------------------------------------------
(* Names of categories *)

\* Updates about to give a category the name, the categories they are about, and
\* creates about to store it.
Renaming(word) == {c \in Callers : call[c].step = "cat.patch" /\ call[c].patch.name = word}
Renamed(word) == {i \in CatIds : \E c \in Renaming(word) : call[c].id = i}
Naming(word) == {c \in Callers :
  \/ call[c].step = "cat.order" /\ call[c].name = word
  \/ call[c].step = "cat.insert" /\ call[c].row.name = word}

FewNames == \A word \in Words : Few(Named(word) \cup Renamed(word), Naming(word))

\* No bearer of a name is added that was not about to be.
LEMMA NameKept ==
  ASSUME FewNames, NEW word \in Words,
         Named(word)' \subseteq Named(word) \cup Renamed(word),
         Renamed(word)' \subseteq Named(word) \cup Renamed(word),
         Naming(word)' \subseteq Naming(word)
  PROVE  Few(Named(word)' \cup Renamed(word)', Naming(word)')
<1>1. Few(Named(word) \cup Renamed(word), Naming(word)) /\ Naming(word) \subseteq Callers
  BY DEF FewNames, Naming
<1> DEFINE X == Named(word) \cup Renamed(word)
           Y == Named(word)' \cup Renamed(word)'
<1>2. Few(X, Naming(word)) /\ Y \subseteq X
  BY <1>1
<1> HIDE DEF X, Y
<1>3. Few(Y, Naming(word)')
  BY <1>1, <1>2, Fewer
<1> QED BY <1>3 DEF Y

\* One bearer is added by the create that was about to.
LEMMA NameSettles ==
  ASSUME FewNames, NEW word \in Words, NEW i, NEW c \in Naming(word),
         Named(word)' \subseteq Named(word) \cup {i},
         Renamed(word)' \subseteq Renamed(word),
         Naming(word)' \subseteq Naming(word) \ {c}
  PROVE  Few(Named(word)' \cup Renamed(word)', Naming(word)')
<1>1. Few(Named(word) \cup Renamed(word), Naming(word)) /\ Naming(word) \subseteq Callers
  BY DEF FewNames, Naming
<1> DEFINE X == Named(word) \cup Renamed(word)
           Y == Named(word)' \cup Renamed(word)'
<1>2. Few(X, Naming(word)) /\ Y \subseteq X \cup {i}
  BY <1>1
<1> HIDE DEF X, Y
<1>3. Few(Y, Naming(word)')
  <2> DEFINE B == Naming(word)
             C == Naming(word)'
  <2>1. B \subseteq Callers /\ Few(X, B) /\ c \in B /\ Y \subseteq X \cup {i} /\ C \subseteq B \ {c}
    BY <1>1, <1>2
  <2> HIDE DEF B, C
  <2>2. Few(Y, C)
    BY <2>1, Settles
  <2> QED BY <2>2 DEF C
<1> QED BY <1>3 DEF Y

\* A step that gives a category no name but one an update was about to give it.
LEMMA NamesKept ==
  ASSUME FewNames, TypeOK, NEW c \in Callers, NEW k,
         call' = [call EXCEPT ![c] = k], k.step \notin {"cat.patch", "cat.order", "cat.insert"},
         \A word \in Words : Named(word)' \subseteq Named(word) \cup Renamed(word)
  PROVE  FewNames'
<1> SUFFICES ASSUME NEW word \in Words
             PROVE  Few(Named(word)' \cup Renamed(word)', Naming(word)')
  BY DEF FewNames
<1>1. \A d \in Callers : d # c => call'[d] = call[d]
  BY DEF TypeOK
<1>2. call'[c] = k
  BY DEF TypeOK
<1>3. Renamed(word)' \subseteq Renamed(word) /\ Naming(word)' \subseteq Naming(word)
  BY <1>1, <1>2 DEF Renamed, Renaming, Naming
<1> QED BY <1>3, NameKept

\* A name every bearer of which is about to get it again is held by requests alone.
LEMMA NamesHeld ==
  ASSUME NEW word, NEW N, N \subseteq Renamed(word)'
  PROVE  Few(N \cup Renamed(word)', Naming(word)')
<1> DEFINE f == [c \in Callers |-> call'[c].id]
<1>1. Renaming(word)' \subseteq Callers /\ Naming(word)' \subseteq Callers
      /\ Renaming(word)' \cap Naming(word)' = {}
  BY DEF Renaming, Naming
<1>2. \A i \in N \cup Renamed(word)' : \E c \in Renaming(word)' : f[c] = i
  BY <1>1 DEF Renamed
<1> HIDE DEF f
<1>3. Renaming(word)' \subseteq Callers
  BY <1>1
<1> DEFINE A == Renaming(word)'
           B == Naming(word)'
           X == N \cup Renamed(word)'
<1> HIDE DEF A, B, X
<1>4. A \subseteq Callers /\ B \subseteq Callers /\ A \cap B = {} /\ \A i \in X : \E c \in A : f[c] = i
  BY <1>1, <1>2 DEF A, B, X
<1>5. Few(X, B)
  BY <1>4, OnlyRequests
<1> QED BY <1>5 DEF B, X

LEMMA NamesOfCategories ==
  ASSUME FewNames, TypeOK, NEW c \in Callers, CategoryBegin(c) \/ CategoryStep(c)
  PROVE  FewNames'
<1>0. call \in [Callers -> MenuCalls] /\ cat \in CatTable
  BY Tables
<1>1. ASSUME NEW word \in Words, NEW place \in Optional(Places), NEW active \in Flags \cup {TRUE},
             CategoryRead(c, word, place, active), NEW w \in Words
      PROVE  Few(Named(w)' \cup Renamed(w)', Naming(w)')
  <2> DEFINE k == IF place = Absent
                    THEN [step |-> "cat.order", name |-> word, active |-> active]
                    ELSE InsertPlaced(NewCategory(word, place, active))
  <2>0. /\ call' = [call EXCEPT ![c] = k]
        /\ \/ k.step = "cat.order" /\ k.name = word
           \/ k.step = "cat.insert" /\ k.row.name = word
    BY <1>1 DEF CategoryRead, Start, InsertPlaced, NewCategory
  <2> HIDE DEF k
  <2>1. Named(w)' = Named(w) /\ Renamed(w)' \subseteq Renamed(w)
    BY <1>0, <1>1, <2>0 DEF CategoryRead, tables, Named, LiveCats, Renamed, Renaming
  <2>2. CASE w = word
    <3>1. Named(w)' \subseteq Renamed(w)'
      BY <1>1, <2>1, <2>2 DEF CategoryRead
    <3> QED BY <3>1, NamesHeld
  <2>3. CASE w # word
    <3>1. Naming(w)' \subseteq Naming(w)
      BY <1>0, <2>0, <2>3 DEF Naming
    <3> QED BY <2>1, <3>1, NameKept
  <2> QED BY <2>2, <2>3
<1>2. ASSUME NEW i \in CatIds, NEW patch, NEW w \in Words,
             Start(c, [step |-> "cat.patch", id |-> i, patch |-> patch]), UNCHANGED tables,
             patch.name = w => i \in Named(w) \/ Named(w) \subseteq {i}
      PROVE  Few(Named(w)' \cup Renamed(w)', Naming(w)')
  <2>1. /\ Named(w)' = Named(w)
        /\ Renamed(w)' \subseteq Renamed(w) \cup (IF patch.name = w THEN {i} ELSE {})
        /\ Naming(w)' \subseteq Naming(w)
    BY <1>0, <1>2 DEF Start, tables, Named, LiveCats, Renamed, Renaming, Naming
  <2>2. CASE patch.name = w /\ Named(w) \subseteq {i}
    <3>1. i \in Renamed(w)'
      BY <1>0, <1>2, <2>2 DEF Start, Renamed, Renaming
    <3> QED BY <2>1, <2>2, <3>1, NamesHeld
  <2>3. CASE patch.name # w \/ i \in Named(w)
    BY <2>1, <2>3, NameKept
  <2> QED BY <1>2, <2>2, <2>3
<1>3. ASSUME NEW i \in CatIds, NEW patch \in CatPatches, CategoryPatchRead(c, i, patch), NEW w \in Words
      PROVE  Few(Named(w)' \cup Renamed(w)', Naming(w)')
  <2>1. patch.name = w => i \in Named(w) \/ Named(w) \subseteq {i}
    BY <1>3, MenuAssumption DEF MenuAssumption, CategoryPatchRead, Named
  <2> QED BY <1>2, <1>3, <2>1 DEF CategoryPatchRead
<1>4. ASSUME NEW i \in CatIds, NEW place \in Places, CategoryReorderRead(c, i, place), NEW w \in Words
      PROVE  Few(Named(w)' \cup Renamed(w)', Naming(w)')
  <2>1. w # Absent
    BY MenuAssumption DEF MenuAssumption
  <2> QED BY <1>2, <1>4, <2>1 DEF CategoryReorderRead
<1>5. ASSUME NEW i \in CatIds, CategoryRemoveRead(c, i) PROVE FewNames'
  <2>1. \A w : Named(w)' = Named(w)
    BY <1>5 DEF CategoryRemoveRead, tables, Named, LiveCats
  <2> DEFINE k == [step |-> IF Products(i) = {} THEN "cat.delete" ELSE "cat.hide", id |-> i]
  <2>2. call' = [call EXCEPT ![c] = k] /\ k.step \notin {"cat.patch", "cat.order", "cat.insert"}
    BY <1>5 DEF CategoryRemoveRead, Start
  <2> HIDE DEF k
  <2> QED BY <2>1, <2>2, NamesKept
<1>6. ASSUME CategoryOrder(c), NEW w \in Words
      PROVE  Few(Named(w)' \cup Renamed(w)', Naming(w)')
  <2>1. Named(w)' = Named(w)
    BY <1>6 DEF CategoryOrder, tables, Named, LiveCats
  <2>2. Renamed(w)' \subseteq Renamed(w) /\ Naming(w)' \subseteq Naming(w)
    BY <1>0, <1>6 DEF CategoryOrder, Insert, NewCategory, Renamed, Renaming, Naming
  <2> QED BY <2>1, <2>2, NameKept
<1>7. ASSUME CategoryInsert(c), NEW w \in Words
      PROVE  Few(Named(w)' \cup Renamed(w)', Naming(w)')
  <2> PICK i \in CatIds : cat' = [cat EXCEPT ![i] = call[c].row]
    <3>1. call[c].ids \subseteq CatIds
      BY <1>0, <1>7, MenuAssumption
         DEF MenuAssumption, CategoryInsert, MenuCalls, CatCalls, ProdCalls, ModCalls, Idle
    <3> QED BY <1>7, <3>1 DEF CategoryInsert
  <2>1. Renamed(w)' \subseteq Renamed(w) /\ Naming(w)' \subseteq Naming(w) \ {c}
    BY <1>0, <1>7 DEF CategoryInsert, End, Idle, Renamed, Renaming, Naming
  <2>2. CASE call[c].row.name = w
    <3>1. c \in Naming(w)
      BY <1>7, <2>2 DEF CategoryInsert, Naming
    <3>2. Named(w)' \subseteq Named(w) \cup {i}
      BY <1>0 DEF CatTable, Named, LiveCats
    <3> QED BY <2>1, <3>1, <3>2, NameSettles
  <2>3. CASE call[c].row.name # w
    <3>1. Named(w)' \subseteq Named(w)
      BY <1>0, <2>3 DEF CatTable, Named, LiveCats
    <3> QED BY <2>1, <3>1, NameKept
  <2> QED BY <2>2, <2>3
<1>8. ASSUME CategoryPatch(c) PROVE FewNames'
  <2>0. call[c].id \in CatIds /\ call[c].patch \in CatPatches
    BY <1>0, <1>8 DEF CategoryPatch, MenuCalls, CatCalls, ProdCalls, ModCalls, Idle
  <2>1. ASSUME NEW w \in Words PROVE Named(w)' \subseteq Named(w) \cup Renamed(w)
    <3>1. CASE call[c].id \in LiveCats
      <4>1. cat' = [cat EXCEPT ![call[c].id] = PatchedCategory(cat[call[c].id], call[c].patch)]
        BY <1>8, <3>1 DEF CategoryPatch
      <4>2. PatchedCategory(cat[call[c].id], call[c].patch).name
              = IF call[c].patch.name = Absent THEN cat[call[c].id].name ELSE call[c].patch.name
        BY DEF PatchedCategory, Given
      <4>3. call[c].patch.name = w => call[c].id \in Renamed(w)
        BY <1>8, <2>0 DEF CategoryPatch, Renamed, Renaming
      <4> QED BY <1>0, <2>0, <3>1, <4>1, <4>2, <4>3 DEF CatTable, Named, LiveCats
    <3>2. CASE call[c].id \notin LiveCats
      BY <1>8, <3>2 DEF CategoryPatch, Named, LiveCats
    <3> QED BY <3>1, <3>2
  <2> QED BY <1>8, <2>1, NamesKept DEF CategoryPatch, End, Idle
<1>9. ASSUME CategoryHide(c) \/ CategoryDelete(c) PROVE FewNames'
  <2>1. ASSUME NEW w \in Words PROVE Named(w)' \subseteq Named(w)
    <3>1. CASE CategoryHide(c)
      <4>1. \A i \in LiveCats : [cat[i] EXCEPT !.active = FALSE].name = cat[i].name
        BY LiveRows DEF Cats
      <4> QED BY <1>0, <3>1, <4>1 DEF CategoryHide, CatTable, Named, LiveCats
    <3>2. CASE CategoryDelete(c)
      BY <1>0, <3>2 DEF CategoryDelete, CatTable, Named, LiveCats, Vacant
    <3> QED BY <1>9, <3>1, <3>2
  <2> QED BY <1>9, <2>1, NamesKept DEF CategoryHide, CategoryDelete, End, Idle
<1> QED BY <1>1, <1>3, <1>4, <1>5, <1>6, <1>7, <1>8, <1>9
        DEF CategoryBegin, CategoryStep, FewNames

\* Products and modifiers leave categories alone, and so does a failure.
LEMMA Elsewhere ==
  ASSUME TypeOK, NEW c \in Callers,
         ProductBegin(c) \/ ProductStep(c) \/ ModifierBegin(c) \/ ModifierStep(c) \/ Abort(c)
  PROVE  /\ cat' = cat
         /\ call' = [call EXCEPT ![c] = call'[c]]
         /\ call'[c].step \notin {"cat.order", "cat.insert", "cat.patch", "cat.hide", "cat.delete"}
<1>0. call \in [Callers -> MenuCalls]
  BY Tables
<1>1. ASSUME NEW k, Start(c, k), UNCHANGED tables,
             k.step \notin {"cat.order", "cat.insert", "cat.patch", "cat.hide", "cat.delete"}
      PROVE  /\ cat' = cat /\ call' = [call EXCEPT ![c] = call'[c]]
             /\ call'[c].step \notin {"cat.order", "cat.insert", "cat.patch", "cat.hide", "cat.delete"}
  BY <1>0, <1>1 DEF Start, tables
<1>2. CASE ProductBegin(c)
  BY <1>1, <1>2 DEF ProductBegin, ProductRead, ProductPatchRead, ProductRemoveRead
<1>3. ASSUME NEW i \in ModIds, NEW patch \in ModPatches, ModifierPatchRead(c, i, patch)
      PROVE  /\ cat' = cat /\ call' = [call EXCEPT ![c] = call'[c]]
             /\ call'[c].step \notin {"cat.order", "cat.insert", "cat.patch", "cat.hide", "cat.delete"}
  BY <1>1, <1>3 DEF ModifierPatchRead
<1>4. CASE ModifierBegin(c)
  BY <1>1, <1>3, <1>4 DEF ModifierBegin, ModifierRead, ModifierRemoveRead
<1>5. CASE ModifierCheck(c)
  BY <1>0, <1>5 DEF ModifierCheck, tables, Idle
<1>6. CASE End(c) /\ cat' = cat
  BY <1>0, <1>6 DEF End, Idle
<1>7. CASE ProductStep(c) \/ ModifierStep(c) \/ Abort(c)
  BY <1>5, <1>6, <1>7 DEF ProductStep, ProductInsert, ProductPatch, ProductHide, ProductDelete,
     ModifierStep, ModifierInsert, ModifierPatch, ModifierHide, ModifierDelete, Abort, Fail, tables
<1> QED BY <1>2, <1>4, <1>7

LEMMA NamesPreserved == FewNames /\ TypeOK /\ [Next]_vars => FewNames'
<1> SUFFICES ASSUME FewNames, TypeOK, [Next]_vars PROVE FewNames'
  OBVIOUS
<1>1. ASSUME UNCHANGED <<cat, call>> PROVE FewNames'
  BY <1>1 DEF FewNames, Named, LiveCats, Renamed, Renaming, Naming
<1>2. ASSUME NEW c \in Callers,
             ProductBegin(c) \/ ProductStep(c) \/ ModifierBegin(c) \/ ModifierStep(c) \/ Abort(c)
      PROVE  FewNames'
  <2>1. \A w : Named(w)' = Named(w)
    BY <1>2, Elsewhere DEF Named, LiveCats
  <2> DEFINE k == call'[c]
  <2>2. call' = [call EXCEPT ![c] = k] /\ k.step \notin {"cat.patch", "cat.order", "cat.insert"}
    BY <1>2, Elsewhere
  <2> HIDE DEF k
  <2> QED BY <2>1, <2>2, NamesKept
<1> QED BY <1>1, <1>2, NamesOfCategories
        DEF Next, BeginCall, Step, SellProduct, SellModifier, vars, tables

LEMMA NoneYet ==
  ASSUME Init
  PROVE  /\ LiveCats = {} /\ LiveProds = {} /\ LiveMods = {}
         /\ \A c \in Callers : call[c].step = "idle"
BY DEF Init, HandlersInit, Idle, LiveCats, LiveProds, LiveMods, Vacant

LEMMA NamesInit == Init => FewNames
<1> SUFFICES ASSUME Init, NEW w \in Words PROVE Few(Named(w) \cup Renamed(w), Naming(w))
  BY DEF FewNames
<1>1. Named(w) \cup Renamed(w) = {} /\ Naming(w) \subseteq Callers
  BY NoneYet DEF Named, Renamed, Renaming, Naming
<1> QED BY <1>1, NoRows

LEMMA NamesBounded == FewNames => FewShareAName
<1> SUFFICES ASSUME FewNames, NEW w \in Words PROVE Cardinality(Named(w)) <= Cardinality(Callers)
  BY DEF FewShareAName
<1> DEFINE X == Named(w) \cup Renamed(w)
           N == Named(w)
<1>1. Few(X, Naming(w)) /\ Naming(w) \subseteq Callers /\ N \subseteq X
  BY DEF FewNames, Naming
<1> HIDE DEF X, N
<1>2. Few(N, {})
  BY <1>1, Fewer
<1>3. Cardinality(N) \in Nat /\ Cardinality({}) = 0
  BY <1>2, FS_CardinalityType, FS_EmptySet DEF Few
<1> QED BY <1>2, <1>3 DEF Few, N

(***************************************************************************)
(* Whatever requests overtake each other, a name is shared by no more      *)
(* categories than requests can be in flight (CategoriesService create,    *)
(* 17-30; update, 161-189).  The categories a name is on, those an update  *)
(* is about to put it on and the creates about to store it are, together,  *)
(* never more: a request joins them only when the name is on no other.     *)
(***************************************************************************)
THEOREM FewCategoriesShareAName == Spec => []FewShareAName
<1>1. Init => FewNames /\ TypeOK
  BY NamesInit, TypeInit
<1>2. FewNames /\ TypeOK /\ [Next]_vars => (FewNames /\ TypeOK)'
  BY NamesPreserved, TypePreserved
<1> QED BY <1>1, <1>2, NamesBounded, PTL DEF Spec

-----------------------------------------------------------------------------
(* Places of categories *)

\* Creates about to put a category at the end, there.
Placing(place) == {c \in Callers :
  call[c].step = "cat.insert" /\ call[c].ids # Placed /\ call[c].row.place = place}

FewPlaces == \A place \in Int : Few(PutAt(place), Placing(place))

\* Only a category that clients place by hand is about to be moved.
MovesAreByHand == \A c \in Callers :
  call[c].step = "cat.patch" /\ call[c].patch.place # Absent => call[c].id \in Placed

LEMMA PlaceKept ==
  ASSUME FewPlaces, NEW place \in Int,
         PutAt(place)' \subseteq PutAt(place), Placing(place)' \subseteq Placing(place)
  PROVE  Few(PutAt(place)', Placing(place)')
<1>1. Few(PutAt(place), Placing(place)) /\ Placing(place) \subseteq Callers
  BY DEF FewPlaces, Placing
<1> QED BY <1>1, Fewer

LEMMA MovesPreserved == MovesAreByHand /\ TypeOK /\ [Next]_vars => MovesAreByHand'
<1> SUFFICES ASSUME MovesAreByHand, TypeOK, [Next]_vars PROVE MovesAreByHand'
  OBVIOUS
<1>0. call \in [Callers -> MenuCalls]
  BY Tables
<1>1. ASSUME NEW c \in Callers, \A d \in Callers : d # c => call'[d] = call[d],
             call'[c].step = "cat.patch" /\ call'[c].patch.place # Absent => call'[c].id \in Placed
      PROVE  MovesAreByHand'
  BY <1>1 DEF MovesAreByHand
<1>2. ASSUME NEW c \in Callers, CategoryBegin(c) \/ CategoryStep(c) PROVE MovesAreByHand'
  <2>1. \A d \in Callers : d # c => call'[d] = call[d]
    BY <1>0, <1>2 DEF CategoryBegin, CategoryRead, CategoryPatchRead, CategoryReorderRead,
       CategoryRemoveRead, Start, CategoryStep, CategoryOrder, CategoryInsert, CategoryPatch,
       CategoryHide, CategoryDelete, End
  <2>2. ASSUME NEW i \in CatIds, NEW patch \in CatPatches, CategoryPatchRead(c, i, patch)
        PROVE  call'[c].step = "cat.patch" /\ call'[c].patch.place # Absent => call'[c].id \in Placed
    BY <1>0, <2>2 DEF CategoryPatchRead, Start
  <2>3. ASSUME NEW i \in CatIds, NEW place \in Places, CategoryReorderRead(c, i, place)
        PROVE  call'[c].step = "cat.patch" /\ call'[c].patch.place # Absent => call'[c].id \in Placed
    BY <1>0, <2>3 DEF CategoryReorderRead, Start
  <2>4. ASSUME NEW i \in CatIds, CategoryRemoveRead(c, i) PROVE call'[c].step # "cat.patch"
    BY <1>0, <2>4 DEF CategoryRemoveRead, Start
  <2>5. ASSUME NEW word, NEW place, NEW active, CategoryRead(c, word, place, active)
        PROVE  call'[c].step # "cat.patch"
    <3>1. call'[c] \in {[step |-> "cat.order", name |-> word, active |-> active],
                        InsertPlaced(NewCategory(word, place, active))}
      BY <1>0, <2>5 DEF CategoryRead, Start
    <3> QED BY <3>1 DEF InsertPlaced
  <2>6. CASE End(c)
    BY <1>0, <1>1, <2>1, <2>6 DEF End, Idle
  <2>7. CASE CategoryOrder(c)
    <3>1. \A row : Insert(row).step = "cat.insert"
      BY DEF Insert
    <3>2. call'[c].step # "cat.patch"
      BY <1>0, <2>7, <3>1 DEF CategoryOrder
    <3> QED BY <1>1, <2>1, <3>2
  <2>8. CASE CategoryStep(c)
    BY <1>1, <2>1, <2>6, <2>7, <2>8 DEF CategoryStep, CategoryInsert, CategoryPatch,
       CategoryHide, CategoryDelete
  <2> QED BY <1>1, <1>2, <2>1, <2>2, <2>3, <2>4, <2>5, <2>8 DEF CategoryBegin
<1>3. ASSUME NEW c \in Callers,
             ProductBegin(c) \/ ProductStep(c) \/ ModifierBegin(c) \/ ModifierStep(c) \/ Abort(c)
      PROVE  MovesAreByHand'
  <2>1. call' = [call EXCEPT ![c] = call'[c]] /\ call'[c].step # "cat.patch"
    BY <1>3, Elsewhere
  <2>2. \A d \in Callers : d # c => call'[d] = call[d]
    BY <1>0, <2>1
  <2> QED BY <1>1, <2>1, <2>2
<1> QED BY <1>2, <1>3 DEF Next, BeginCall, Step, SellProduct, SellModifier, vars, tables, MovesAreByHand

LEMMA PlacesPreserved ==
  FewPlaces /\ MovesAreByHand /\ TypeOK /\ TypeOK' /\ [Next]_vars => FewPlaces'
<1> SUFFICES ASSUME FewPlaces, MovesAreByHand, TypeOK, TypeOK', [Next]_vars, NEW place \in Int
             PROVE  Few(PutAt(place)', Placing(place)')
  BY DEF FewPlaces
<1>0. call \in [Callers -> MenuCalls] /\ cat \in CatTable
  BY Tables
<1>1. ASSUME UNCHANGED <<cat, call>> PROVE Few(PutAt(place)', Placing(place)')
  BY <1>1, PlaceKept DEF PutAt, LiveCats, Placing
<1>2. ASSUME NEW c \in Callers, \A d \in Callers : d # c => call'[d] = call[d],
             call'[c].step # "cat.insert" \/ call'[c].ids = Placed
      PROVE  Placing(place)' \subseteq Placing(place) \ {c}
  BY <1>2 DEF Placing
<1>3. ASSUME NEW c \in Callers,
             ProductBegin(c) \/ ProductStep(c) \/ ModifierBegin(c) \/ ModifierStep(c) \/ Abort(c)
      PROVE  Few(PutAt(place)', Placing(place)')
  <2>1. cat' = cat /\ call' = [call EXCEPT ![c] = call'[c]] /\ call'[c].step # "cat.insert"
    BY <1>3, Elsewhere
  <2>2. \A d \in Callers : d # c => call'[d] = call[d]
    BY <1>0, <2>1
  <2>3. PutAt(place)' = PutAt(place)
    BY <2>1 DEF PutAt, LiveCats
  <2> QED BY <1>2, <2>1, <2>2, <2>3, PlaceKept
<1>4. ASSUME NEW c \in Callers, CategoryBegin(c) PROVE Few(PutAt(place)', Placing(place)')
  <2>1. /\ cat' = cat
        /\ \A d \in Callers : d # c => call'[d] = call[d]
    BY <1>0, <1>4 DEF CategoryBegin, CategoryRead, CategoryPatchRead, CategoryReorderRead,
       CategoryRemoveRead, Start, tables
  <2>2. call'[c].step # "cat.insert" \/ call'[c].ids = Placed
    <3>1. ASSUME NEW word, NEW at, NEW active, CategoryRead(c, word, at, active)
          PROVE  call'[c].step # "cat.insert" \/ call'[c].ids = Placed
      <4>1. call'[c] \in {[step |-> "cat.order", name |-> word, active |-> active],
                          InsertPlaced(NewCategory(word, at, active))}
        BY <1>0, <3>1 DEF CategoryRead, Start
      <4> QED BY <4>1 DEF InsertPlaced
    <3>2. ASSUME NEW i \in CatIds, NEW patch, CategoryPatchRead(c, i, patch)
          PROVE  call'[c].step # "cat.insert"
      BY <1>0, <3>2 DEF CategoryPatchRead, Start
    <3>3. ASSUME NEW i \in CatIds, NEW at, CategoryReorderRead(c, i, at)
          PROVE  call'[c].step # "cat.insert"
      BY <1>0, <3>3 DEF CategoryReorderRead, Start
    <3>4. ASSUME NEW i \in CatIds, CategoryRemoveRead(c, i) PROVE call'[c].step # "cat.insert"
      BY <1>0, <3>4 DEF CategoryRemoveRead, Start
    <3> QED BY <1>4, <3>1, <3>2, <3>3, <3>4 DEF CategoryBegin
  <2>3. PutAt(place)' = PutAt(place)
    BY <2>1 DEF PutAt, LiveCats
  <2> QED BY <1>2, <2>1, <2>2, <2>3, PlaceKept
<1>5. ASSUME NEW c \in Callers, CategoryOrder(c) PROVE Few(PutAt(place)', Placing(place)')
  <2> PICK end \in NextPlaces :
        call' = [call EXCEPT ![c] = Insert(NewCategory(call[c].name, end, call[c].active))]
    BY <1>5 DEF CategoryOrder
  <2>1. PutAt(place)' = PutAt(place)
    BY <1>5 DEF CategoryOrder, tables, PutAt, LiveCats
  <2>2. CASE end = place
    <3>1. PutAt(place) = {}
      <4>1. \A i \in LiveCats : cat[i].place \in Int /\ cat[i].place < end
        BY LiveRows DEF NextPlaces, Cats
      <4> QED BY <2>2, <4>1 DEF PutAt
    <3>2. Placing(place)' \subseteq Callers
      BY DEF Placing
    <3> QED BY <2>1, <3>1, <3>2, NoRows
  <2>3. CASE end # place
    <3>1. Placing(place)' \subseteq Placing(place)
      BY <1>0, <2>3 DEF Insert, NewCategory, Placing
    <3> QED BY <2>1, <3>1, PlaceKept
  <2> QED BY <2>2, <2>3
<1>6. ASSUME NEW c \in Callers, CategoryInsert(c) PROVE Few(PutAt(place)', Placing(place)')
  <2>0. call[c].ids \in {CatIds, Placed} /\ call[c].row \in Cats
    BY <1>0, <1>6 DEF CategoryInsert, MenuCalls, CatCalls, ProdCalls, ModCalls, Idle
  <2> PICK i \in call[c].ids : cat' = [cat EXCEPT ![i] = call[c].row]
    BY <1>6 DEF CategoryInsert
  <2>1. Placing(place)' \subseteq Placing(place) \ {c}
    BY <1>0, <1>2, <1>6 DEF CategoryInsert, End, Idle
  <2>2. PutAt(place)' \subseteq PutAt(place) \cup {i}
    BY <1>0 DEF CatTable, PutAt, LiveCats
  <2>3. CASE c \in Placing(place)
    <3> DEFINE B == Placing(place)
               C == Placing(place)'
               Y == PutAt(place)'
    <3>1. /\ Few(PutAt(place), B) /\ B \subseteq Callers /\ c \in B /\ C \subseteq B \ {c}
          /\ Y \subseteq PutAt(place) \cup {i}
      BY <2>1, <2>2, <2>3 DEF FewPlaces, Placing
    <3> HIDE DEF B, C, Y
    <3>2. Few(Y, C)
      BY <3>1, Settles
    <3> QED BY <3>2 DEF C, Y
  <2>4. CASE c \notin Placing(place)
    <3>1. i \in Placed \/ call[c].row.place # place
      BY <1>6, <2>4 DEF CategoryInsert, Placing
    <3>2. PutAt(place)' \subseteq PutAt(place)
      BY <1>0, <3>1 DEF CatTable, PutAt, LiveCats
    <3> QED BY <2>1, <3>2, PlaceKept
  <2> QED BY <2>3, <2>4
<1>7. ASSUME NEW c \in Callers, CategoryPatch(c) \/ CategoryHide(c) \/ CategoryDelete(c)
      PROVE  Few(PutAt(place)', Placing(place)')
  <2>1. Placing(place)' \subseteq Placing(place)
    BY <1>0, <1>2, <1>7 DEF CategoryPatch, CategoryHide, CategoryDelete, End, Idle
  <2>2. CASE CategoryPatch(c)
    <3>1. call[c].id \in CatIds /\ (call[c].patch.place = Absent \/ call[c].id \in Placed)
      BY <1>0, <2>2 DEF CategoryPatch, MovesAreByHand, MenuCalls, CatCalls, ProdCalls, ModCalls, Idle
    <3>2. call[c].patch.place = Absent =>
            PatchedCategory(cat[call[c].id], call[c].patch).place = cat[call[c].id].place
      BY DEF PatchedCategory, Given
    <3>3. PutAt(place)' \subseteq PutAt(place)
      BY <1>0, <2>2, <3>1, <3>2 DEF CategoryPatch, CatTable, PutAt, LiveCats
    <3> QED BY <2>1, <3>3, PlaceKept
  <2>3. CASE CategoryHide(c)
    <3>1. \A i \in LiveCats : [cat[i] EXCEPT !.active = FALSE].place = cat[i].place
      BY LiveRows DEF Cats
    <3>2. PutAt(place)' \subseteq PutAt(place)
      BY <1>0, <2>3, <3>1 DEF CategoryHide, CatTable, PutAt, LiveCats
    <3> QED BY <2>1, <3>2, PlaceKept
  <2>4. CASE CategoryDelete(c)
    <3>1. PutAt(place)' \subseteq PutAt(place)
      BY <1>0, <2>4 DEF CategoryDelete, CatTable, PutAt, LiveCats, Vacant
    <3> QED BY <2>1, <3>1, PlaceKept
  <2> QED BY <1>7, <2>2, <2>3, <2>4
<1> QED BY <1>1, <1>3, <1>4, <1>5, <1>6, <1>7
        DEF Next, BeginCall, Step, CategoryStep, SellProduct, SellModifier, vars, tables

LEMMA PlacesInit == Init => FewPlaces /\ MovesAreByHand
<1> SUFFICES ASSUME Init, NEW place \in Int PROVE Few(PutAt(place), Placing(place)) /\ MovesAreByHand
  BY DEF FewPlaces
<1>1. PutAt(place) = {} /\ Placing(place) \subseteq Callers /\ MovesAreByHand
  BY NoneYet DEF PutAt, Placing, MovesAreByHand
<1> QED BY <1>1, NoRows

LEMMA PlacesBounded == FewPlaces /\ TypeOK => FewShareAPlace
<1> SUFFICES ASSUME FewPlaces, TypeOK, NEW i \in LiveCats
             PROVE  Cardinality(PutAt(cat[i].place)) <= Cardinality(Callers)
  BY DEF FewShareAPlace
<1> DEFINE at == cat[i].place
<1>1. at \in Int
  BY LiveRows DEF Cats
<1> HIDE DEF at
<1>2. Few(PutAt(at), Placing(at)) /\ Placing(at) \subseteq Callers
  BY <1>1 DEF FewPlaces, Placing
<1>3. Few(PutAt(at), {})
  BY <1>2, Fewer
<1>4. Cardinality(PutAt(at)) \in Nat /\ Cardinality({}) = 0
  BY <1>3, FS_CardinalityType, FS_EmptySet DEF Few
<1> QED BY <1>3, <1>4 DEF Few, at

(***************************************************************************)
(* Of the categories no client places by hand, a place holds no more than  *)
(* requests can be in flight, wherever clients put the others and whatever *)
(* is deleted (CategoriesService create, 33-50): a create chooses a place  *)
(* only when every category comes before it.                               *)
(***************************************************************************)
THEOREM FewCategoriesShareAPlace == Spec => []FewShareAPlace
<1>1. Init => FewPlaces /\ MovesAreByHand /\ TypeOK
  BY PlacesInit, TypeInit
<1>2. FewPlaces /\ MovesAreByHand /\ TypeOK /\ [Next]_vars
        => (FewPlaces /\ MovesAreByHand /\ TypeOK)'
  BY PlacesPreserved, MovesPreserved, TypePreserved
<1> QED BY <1>1, <1>2, PlacesBounded, PTL DEF Spec

-----------------------------------------------------------------------------
(* Names and types of modifiers *)

Alone == \A c, d \in Callers : About(c) \cap About(d) # {} => c = d
Known == \A c \in Callers : \A i \in About(c) : mod[i] # NoRow

\* Name and type that an update leaves modifier i with.
NameAfter(i, patch) == Given(mod[i].name, patch.name)
TypeAfter(i, patch) == Given(mod[i].type, patch.type)

\* The pair an update is about to look up is still the one it leads to.
Fresh == \A c \in Callers : call[c].step = "mod.check" /\ call[c].id \in Guarded \cap LiveMods =>
  /\ call[c].name = NameAfter(call[c].id, call[c].patch)
  /\ call[c].type = TypeAfter(call[c].id, call[c].patch)

\* What a step of request c may do to modifiers and to the requests about them.
Gentle(c) ==
  /\ call' = [call EXCEPT ![c] = call'[c]]
  /\ About(c)' \subseteq About(c)
     \/ \E i \in LiveMods : Admitted(i) /\ About(c)' \subseteq {i}
  /\ \A i \in ModIds : (mod[i] # NoRow => mod'[i] # NoRow) /\ (mod[i] = GoneRow => mod'[i] = GoneRow)
  /\ \A i \in Guarded \cap LiveMods : i \notin About(c) => mod'[i] = mod[i]

LEMMA GentleUnchanged ==
  ASSUME TypeOK, NEW c \in Callers, UNCHANGED mod, call' = [call EXCEPT ![c] = call'[c]],
         \/ About(c)' \subseteq About(c)
         \/ \E i \in LiveMods : Admitted(i) /\ About(c)' \subseteq {i}
  PROVE  Gentle(c)
BY DEF Gentle, TypeOK

LEMMA GentleSteps ==
  ASSUME TypeOK, NEW c \in Callers, BeginCall(c) \/ Step(c) \/ Abort(c)
  PROVE  Gentle(c)
<1>0. call \in [Callers -> MenuCalls] /\ mod \in ModTable
  BY Tables
<1>1. ASSUME NEW k, call' = [call EXCEPT ![c] = k], mod' = mod,
             k.step \notin {"mod.check", "mod.patch", "mod.hide", "mod.delete"}
      PROVE  Gentle(c)
  <2>1. call'[c] = k
    BY <1>0, <1>1
  <2>2. About(c)' = {}
    BY <1>1, <2>1 DEF About
  <2> QED BY <1>1, <2>1, <2>2, GentleUnchanged
<1>2. ASSUME NEW k, call' = [call EXCEPT ![c] = k], mod' = mod, NEW i \in LiveMods, Admitted(i), k.id = i
      PROVE  Gentle(c)
  <2>1. call'[c] = k
    BY <1>0, <1>2
  <2>2. About(c)' \subseteq {i}
    BY <1>2, <2>1 DEF About
  <2> QED BY <1>2, <2>1, <2>2, GentleUnchanged
<1>3. ASSUME End(c), mod' \in ModTable, NEW i \in ModIds, NEW row, mod' = [mod EXCEPT ![i] = row],
             mod[i] # NoRow => row # NoRow, mod[i] = GoneRow => row = GoneRow,
             i \in Guarded \cap LiveMods => i \in About(c)
      PROVE  Gentle(c)
  <2>1. About(c)' = {} /\ call' = [call EXCEPT ![c] = call'[c]]
    BY <1>0, <1>3 DEF End, Idle, About
  <2> QED BY <1>0, <1>3, <2>1 DEF Gentle, ModTable, LiveMods
<1>4. CASE End(c) /\ mod' = mod
  BY <1>1, <1>4 DEF End, Idle
<1>5. CASE CategoryBegin(c)
  <2>1. ASSUME NEW word, NEW place, NEW active, CategoryRead(c, word, place, active) PROVE Gentle(c)
    <3> DEFINE k == IF place = Absent
                      THEN [step |-> "cat.order", name |-> word, active |-> active]
                      ELSE InsertPlaced(NewCategory(word, place, active))
    <3>1. /\ call' = [call EXCEPT ![c] = k] /\ mod' = mod
          /\ k.step \in {"cat.order", "cat.insert"}
      BY <2>1 DEF CategoryRead, Start, tables, InsertPlaced
    <3> HIDE DEF k
    <3> QED BY <1>1, <3>1
  <2>2. ASSUME NEW i, CategoryRemoveRead(c, i) PROVE Gentle(c)
    <3> DEFINE k == [step |-> IF Products(i) = {} THEN "cat.delete" ELSE "cat.hide", id |-> i]
    <3>1. call' = [call EXCEPT ![c] = k] /\ mod' = mod /\ k.step \in {"cat.delete", "cat.hide"}
      BY <2>2 DEF CategoryRemoveRead, Start, tables
    <3> HIDE DEF k
    <3> QED BY <1>1, <3>1
  <2>3. ASSUME NEW i, NEW patch, CategoryPatchRead(c, i, patch) PROVE Gentle(c)
    BY <1>1, <2>3 DEF CategoryPatchRead, Start, tables
  <2>4. ASSUME NEW i, NEW place, CategoryReorderRead(c, i, place) PROVE Gentle(c)
    BY <1>1, <2>4 DEF CategoryReorderRead, Start, tables
  <2> QED BY <1>5, <2>1, <2>2, <2>3, <2>4 DEF CategoryBegin
<1>6. CASE CategoryOrder(c)
  BY <1>1, <1>6 DEF CategoryOrder, Insert, tables
<1>7. CASE ProductBegin(c)
  <2>1. ASSUME NEW p, ProductRemoveRead(c, p) PROVE Gentle(c)
    <3> DEFINE k == [step |-> IF prod[p].sold THEN "prod.hide" ELSE "prod.delete", id |-> p]
    <3>1. call' = [call EXCEPT ![c] = k] /\ mod' = mod /\ k.step \in {"prod.hide", "prod.delete"}
      BY <2>1 DEF ProductRemoveRead, Start, tables
    <3> HIDE DEF k
    <3> QED BY <1>1, <3>1
  <2>2. ASSUME NEW category, NEW sku, NEW active, ProductRead(c, category, sku, active) PROVE Gentle(c)
    BY <1>1, <2>2 DEF ProductRead, Start, tables
  <2>3. ASSUME NEW p, NEW patch, ProductPatchRead(c, p, patch) PROVE Gentle(c)
    BY <1>1, <2>3 DEF ProductPatchRead, Start, tables
  <2> QED BY <1>7, <2>1, <2>2, <2>3 DEF ProductBegin
<1>8. CASE ModifierBegin(c)
  <2>1. ASSUME NEW word, NEW type, NEW active, ModifierRead(c, word, type, active) PROVE Gentle(c)
    BY <1>1, <2>1 DEF ModifierRead, Start, tables
  <2>2. ASSUME NEW i \in ModIds, NEW patch, ModifierPatchRead(c, i, patch) PROVE Gentle(c)
    <3> PICK checks \in Checks(mod[i], patch) :
          Start(c, IF checks
                     THEN [step |-> "mod.check", id |-> i, patch |-> patch,
                           name |-> Given(mod[i].name, patch.name),
                           type |-> Given(mod[i].type, patch.type)]
                     ELSE [step |-> "mod.patch", id |-> i, patch |-> patch])
      BY <2>2 DEF ModifierPatchRead
    <3> DEFINE k == IF checks
                      THEN [step |-> "mod.check", id |-> i, patch |-> patch,
                            name |-> Given(mod[i].name, patch.name),
                            type |-> Given(mod[i].type, patch.type)]
                      ELSE [step |-> "mod.patch", id |-> i, patch |-> patch]
    <3>1. /\ call' = [call EXCEPT ![c] = k] /\ mod' = mod /\ k.id = i
          /\ i \in LiveMods /\ Admitted(i)
      BY <2>2 DEF ModifierPatchRead, Start, tables
    <3> HIDE DEF k
    <3> QED BY <1>2, <3>1
  <2>3. ASSUME NEW i \in ModIds, ModifierRemoveRead(c, i) PROVE Gentle(c)
    <3> DEFINE k == [step |-> IF mod[i].sold THEN "mod.hide" ELSE "mod.delete", id |-> i]
    <3>1. /\ call' = [call EXCEPT ![c] = k] /\ mod' = mod /\ k.id = i
          /\ i \in LiveMods /\ Admitted(i)
      BY <2>3 DEF ModifierRemoveRead, Start, tables
    <3> HIDE DEF k
    <3> QED BY <1>2, <3>1
  <2> QED BY <1>8, <2>1, <2>2, <2>3 DEF ModifierBegin
<1>9. CASE ModifierCheck(c)
  <2>1. call' = [call EXCEPT ![c] = call'[c]] /\ mod' = mod
    BY <1>0, <1>9 DEF ModifierCheck, tables
  <2>2. call'[c] \in {[step |-> "mod.patch", id |-> call[c].id, patch |-> call[c].patch], Idle}
    BY <1>0, <1>9 DEF ModifierCheck
  <2>3. About(c)' \subseteq About(c)
    BY <1>9, <2>2 DEF ModifierCheck, About, Idle
  <2> QED BY <2>1, <2>3, GentleUnchanged
<1>10. CASE ModifierInsert(c)
  <2> PICK i \in ModIds : mod[i] = NoRow /\ mod' = [mod EXCEPT ![i] = call[c].row]
    BY <1>10 DEF ModifierInsert
  <2>1. i \notin LiveMods /\ mod[i] # GoneRow /\ mod' \in ModTable
    BY <1>10, ModifierType, Tables, VacantRows DEF ModifierStep, LiveMods, Vacant, TypeOK, ModTable
  <2> QED BY <1>3, <1>10, <2>1 DEF ModifierInsert
<1>11. ASSUME NEW row, End(c), call[c].id \in LiveMods, mod' = [mod EXCEPT ![call[c].id] = row], row # NoRow,
              mod' \in ModTable, call[c].step \in {"mod.patch", "mod.hide", "mod.delete"}
       PROVE  Gentle(c)
  <2>1. call[c].id \in ModIds /\ mod[call[c].id] # GoneRow
    BY <1>11 DEF LiveMods, Vacant
  <2>2. call[c].id \in Guarded => call[c].id \in About(c)
    BY <1>11 DEF About
  <2> QED BY <1>3, <1>11, <2>1, <2>2
<1>12. CASE ModifierPatch(c) \/ ModifierHide(c) \/ ModifierDelete(c)
  <2>1. mod' \in ModTable /\ End(c)
    BY <1>12, ModifierType DEF ModifierStep, TypeOK, ModTable,
       ModifierPatch, ModifierHide, ModifierDelete
  <2>2. CASE call[c].id \in LiveMods
    <3>2. CASE ModifierPatch(c)
      <4>1. call[c].patch \in ModPatches
        BY <1>0, <3>2 DEF ModifierPatch, MenuCalls, CatCalls, ProdCalls, ModCalls, Idle
      <4>2. PatchedModifier(mod[call[c].id], call[c].patch) # NoRow
        BY <2>2, <4>1, LiveRows, PatchedTypes, VacantRows
      <4> QED BY <1>11, <2>1, <2>2, <3>2, <4>2 DEF ModifierPatch
    <3>3. CASE ModifierHide(c)
      <4>1. [mod[call[c].id] EXCEPT !.active = FALSE] # NoRow
        <5>1. [mod[call[c].id] EXCEPT !.active = FALSE] \in Mods
          BY <2>2, LiveRows DEF Mods
        <5> QED BY <5>1, VacantRows
      <4> QED BY <1>11, <2>1, <2>2, <3>3, <4>1 DEF ModifierHide
    <3>4. CASE ModifierDelete(c)
      BY <1>4, <1>11, <2>1, <2>2, <3>4, VacantRows DEF ModifierDelete
    <3> QED BY <1>12, <3>2, <3>3, <3>4
  <2>3. CASE call[c].id \notin LiveMods
    BY <1>4, <1>12, <2>1, <2>3 DEF ModifierPatch, ModifierHide, ModifierDelete
  <2> QED BY <2>2, <2>3
<1> QED BY <1>4, <1>5, <1>6, <1>7, <1>8, <1>9, <1>10, <1>12
        DEF BeginCall, Step, Abort, Fail, tables, CategoryStep, CategoryInsert, CategoryPatch,
            CategoryHide, CategoryDelete, ProductStep, ProductInsert, ProductPatch, ProductHide,
            ProductDelete, ModifierStep

LEMMA PickedMoves ==
  ASSUME TypeOK, NEW c \in Callers, NEW i \in ModIds, NEW patch \in ModPatches,
         ModifierPatchRead(c, i, patch)
  PROVE  /\ call'[c].id = i /\ call'[c].patch = patch /\ i \in LiveMods /\ mod' = mod
         /\ \/ /\ call'[c].step = "mod.check"
               /\ call'[c].name = NameAfter(i, patch) /\ call'[c].type = TypeAfter(i, patch)
            \/ /\ call'[c].step = "mod.patch"
               /\ NameAfter(i, patch) = mod[i].name /\ TypeAfter(i, patch) = mod[i].type
<1>0. call \in [Callers -> MenuCalls]
  BY Tables
<1> PICK checks \in Checks(mod[i], patch) :
      Start(c, IF checks
                 THEN [step |-> "mod.check", id |-> i, patch |-> patch,
                       name |-> Given(mod[i].name, patch.name),
                       type |-> Given(mod[i].type, patch.type)]
                 ELSE [step |-> "mod.patch", id |-> i, patch |-> patch])
  BY DEF ModifierPatchRead
<1>1. i \in LiveMods /\ mod' = mod
  BY DEF ModifierPatchRead, tables
<1>2. CASE checks
  <2>1. call'[c] = [step |-> "mod.check", id |-> i, patch |-> patch,
                    name |-> NameAfter(i, patch), type |-> TypeAfter(i, patch)]
    BY <1>0, <1>2 DEF Start, NameAfter, TypeAfter
  <2> QED BY <1>1, <2>1
<1>3. CASE ~checks
  <2>1. call'[c] = [step |-> "mod.patch", id |-> i, patch |-> patch]
    BY <1>0, <1>3 DEF Start
  <2>2. \/ patch.name = Absent /\ patch.type = Absent
        \/ patch.name = mod[i].name /\ patch.type = mod[i].type
    BY <1>3 DEF Checks
  <2>3. NameAfter(i, patch) = mod[i].name /\ TypeAfter(i, patch) = mod[i].type
    BY <2>2 DEF NameAfter, TypeAfter, Given
  <2> QED BY <1>1, <2>1, <2>3
<1> QED BY <1>2, <1>3

\* At most one request is about a guarded modifier, and its row stays as that one saw it.
GuardedInv == Alone /\ Known /\ Fresh

LEMMA AboutRows ==
  ASSUME TypeOK, NEW c \in Callers
  PROVE  About(c) \subseteq Guarded /\ About(c) \subseteq ModIds
BY MenuAssumption DEF MenuAssumption, About

LEMMA FreshStep ==
  ASSUME GuardedInv, TypeOK, NEW c \in Callers, BeginCall(c) \/ Step(c) \/ Abort(c)
  PROVE  call'[c].step = "mod.check" /\ call'[c].id \in Guarded \cap LiveMods' =>
           /\ call'[c].name = NameAfter(call'[c].id, call'[c].patch)
           /\ call'[c].type = TypeAfter(call'[c].id, call'[c].patch)
           /\ mod' = mod
<1> SUFFICES ASSUME call'[c].step = "mod.check"
             PROVE  /\ call'[c].name = NameAfter(call'[c].id, call'[c].patch)
                    /\ call'[c].type = TypeAfter(call'[c].id, call'[c].patch)
                    /\ mod' = mod
  OBVIOUS
<1>0. call \in [Callers -> MenuCalls]
  BY Tables
<1>1. ASSUME NEW i \in ModIds, NEW patch \in ModPatches, ModifierPatchRead(c, i, patch)
      PROVE  /\ call'[c].name = NameAfter(call'[c].id, call'[c].patch)
             /\ call'[c].type = TypeAfter(call'[c].id, call'[c].patch)
             /\ mod' = mod
  BY <1>1, PickedMoves
<1>3. ~End(c)
  BY <1>0 DEF End, Idle
<1>4. ~CategoryOrder(c) /\ ~ModifierCheck(c)
  <2>1. CASE CategoryOrder(c)
    BY <1>0, <2>1 DEF CategoryOrder, Insert
  <2>2. CASE ModifierCheck(c)
    <3>1. call'[c] \in {[step |-> "mod.patch", id |-> call[c].id, patch |-> call[c].patch], Idle}
      BY <1>0, <2>2 DEF ModifierCheck
    <3> QED BY <3>1 DEF Idle
  <2> QED BY <2>1, <2>2
<1>5. ~CategoryBegin(c)
  <2>1. ASSUME NEW word, NEW place, NEW active, CategoryRead(c, word, place, active) PROVE FALSE
    <3>1. call'[c] \in {[step |-> "cat.order", name |-> word, active |-> active],
                        InsertPlaced(NewCategory(word, place, active))}
      BY <1>0, <2>1 DEF CategoryRead, Start
    <3> QED BY <3>1 DEF InsertPlaced
  <2>2. ASSUME NEW i, CategoryRemoveRead(c, i) PROVE FALSE
    BY <1>0, <2>2 DEF CategoryRemoveRead, Start
  <2>3. ASSUME NEW i, NEW patch, CategoryPatchRead(c, i, patch) PROVE FALSE
    BY <1>0, <2>3 DEF CategoryPatchRead, Start
  <2>4. ASSUME NEW i, NEW place, CategoryReorderRead(c, i, place) PROVE FALSE
    BY <1>0, <2>4 DEF CategoryReorderRead, Start
  <2> QED BY <2>1, <2>2, <2>3, <2>4 DEF CategoryBegin
<1>6. ~ProductBegin(c)
  <2>1. ASSUME NEW p, ProductRemoveRead(c, p) PROVE FALSE
    BY <1>0, <2>1 DEF ProductRemoveRead, Start
  <2>2. ASSUME NEW category, NEW sku, NEW active, ProductRead(c, category, sku, active) PROVE FALSE
    BY <1>0, <2>2 DEF ProductRead, Start
  <2>3. ASSUME NEW p, NEW patch, ProductPatchRead(c, p, patch) PROVE FALSE
    BY <1>0, <2>3 DEF ProductPatchRead, Start
  <2> QED BY <2>1, <2>2, <2>3 DEF ProductBegin
<1>7. ASSUME NEW i, ModifierRemoveRead(c, i) PROVE FALSE
  BY <1>0, <1>7 DEF ModifierRemoveRead, Start
<1>8. ASSUME NEW word, NEW type, NEW active, ModifierRead(c, word, type, active) PROVE FALSE
  BY <1>0, <1>8 DEF ModifierRead, Start
<1> QED BY <1>1, <1>3, <1>4, <1>5, <1>6, <1>7, <1>8
        DEF BeginCall, Step, Abort, Fail, CategoryStep, CategoryInsert, CategoryPatch, CategoryHide,
            CategoryDelete, ProductStep, ProductInsert, ProductPatch, ProductHide, ProductDelete,
            ModifierBegin, ModifierStep, ModifierInsert, ModifierPatch, ModifierHide, ModifierDelete

LEMMA GuardedPreserved == GuardedInv /\ TypeOK /\ [Next]_vars => GuardedInv'
<1> SUFFICES ASSUME GuardedInv, TypeOK, [Next]_vars PROVE GuardedInv'
  OBVIOUS
<1>0. call \in [Callers -> MenuCalls] /\ mod \in ModTable
  BY Tables
<1>1. ASSUME UNCHANGED <<mod, call>> PROVE GuardedInv'
  BY <1>1 DEF GuardedInv, Alone, Known, Fresh, About, LiveMods, NameAfter, TypeAfter
<1>2. ASSUME NEW i \in ModIds, SellModifier(i) PROVE GuardedInv'
  <2>1. mod[i] \in Mods /\ mod' = [mod EXCEPT ![i].sold = TRUE] /\ UNCHANGED call
    BY <1>2, LiveRows DEF SellModifier
  <2>2. mod'[i] \in Mods /\ mod'[i].name = mod[i].name /\ mod'[i].type = mod[i].type
    BY <1>0, <2>1 DEF Mods, ModTable
  <2>3. \A j \in ModIds : j # i => mod'[j] = mod[j]
    BY <1>0, <2>1 DEF ModTable
  <2>4. mod[i] \notin Vacant /\ mod'[i] \notin Vacant
    BY <2>1, <2>2, VacantRows DEF Vacant
  <2>5. Alone' /\ \A c : About(c)' = About(c)
    BY <2>1 DEF GuardedInv, Alone, About
  <2>6. Known'
    BY <2>3, <2>4, <2>5, AboutRows DEF GuardedInv, Known, Vacant
  <2>7. Fresh'
    <3> SUFFICES ASSUME NEW d \in Callers, call[d].step = "mod.check",
                        call[d].id \in Guarded, call[d].id \in LiveMods'
                 PROVE  /\ call[d].name = Given(mod'[call[d].id].name, call[d].patch.name)
                        /\ call[d].type = Given(mod'[call[d].id].type, call[d].patch.type)
      BY <2>1 DEF Fresh, NameAfter, TypeAfter
    <3>1. call[d].id \in LiveMods
      BY <2>3, <2>4 DEF LiveMods
    <3>2. call[d].id \in ModIds
      BY <3>1 DEF LiveMods
    <3> QED BY <2>1, <2>2, <2>3, <3>1, <3>2 DEF GuardedInv, Fresh, NameAfter, TypeAfter
  <2> QED BY <2>5, <2>6, <2>7 DEF GuardedInv
<1>3. ASSUME NEW c \in Callers, BeginCall(c) \/ Step(c) \/ Abort(c) PROVE GuardedInv'
  <2>1. Gentle(c)
    BY <1>3, GentleSteps
  <2>2. \A d \in Callers : d # c => call'[d] = call[d] /\ About(d)' = About(d)
    BY <1>0, <2>1 DEF Gentle, About
  <2>3. \A d \in Callers : d # c => About(d) \cap About(c)' = {}
    <3>1. CASE About(c)' \subseteq About(c)
      BY <3>1 DEF GuardedInv, Alone
    <3>2. ASSUME NEW i \in LiveMods, Admitted(i), About(c)' \subseteq {i}
          PROVE  \A d \in Callers : d # c => About(d) \cap About(c)' = {}
      BY <3>2 DEF Admitted
    <3> QED BY <2>1, <3>1, <3>2 DEF Gentle
  <2>4. Alone'
    BY <2>2, <2>3 DEF GuardedInv, Alone
  <2>5. Known'
    <3>1. \A i \in About(c)' : i \in ModIds /\ mod[i] # NoRow
      <4>1. \A i \in About(c) : i \in ModIds /\ mod[i] # NoRow
        BY AboutRows DEF GuardedInv, Known
      <4>2. \A i \in LiveMods : i \in ModIds /\ mod[i] # NoRow
        BY DEF LiveMods, Vacant
      <4> QED BY <2>1, <4>1, <4>2 DEF Gentle
    <3>2. \A d \in Callers : d # c => \A i \in About(d)' : i \in ModIds /\ mod[i] # NoRow
      BY <2>2, AboutRows DEF GuardedInv, Known
    <3>3. \A d \in Callers : \A i \in About(d)' : i \in ModIds /\ mod[i] # NoRow
      BY <3>1, <3>2
    <3> QED BY <2>1, <3>3 DEF Gentle, Known
  <2>6. Fresh'
    <3> SUFFICES ASSUME NEW d \in Callers, call'[d].step = "mod.check",
                        call'[d].id \in Guarded, call'[d].id \in LiveMods'
                 PROVE  /\ call'[d].name = Given(mod'[call'[d].id].name, call'[d].patch.name)
                        /\ call'[d].type = Given(mod'[call'[d].id].type, call'[d].patch.type)
      BY DEF Fresh, NameAfter, TypeAfter
    <3>1. CASE d = c
      BY <1>3, <3>1, FreshStep DEF NameAfter, TypeAfter
    <3>2. CASE d # c
      <4> DEFINE i == call[d].id
      <4>1. call'[d] = call[d] /\ i \in About(d) /\ i \in ModIds /\ i \in Guarded
        BY <2>2, <3>2, AboutRows DEF About
      <4>2. i \notin About(c) /\ mod[i] # NoRow
        BY <3>2, <4>1 DEF GuardedInv, Alone, Known
      <4>3. i \in LiveMods
        BY <2>1, <4>1, <4>2 DEF Gentle, LiveMods, Vacant
      <4>4. mod'[i] = mod[i]
        BY <2>1, <4>1, <4>2, <4>3 DEF Gentle
      <4> QED BY <4>1, <4>3, <4>4 DEF GuardedInv, Fresh, NameAfter, TypeAfter
    <3> QED BY <3>1, <3>2
  <2> QED BY <2>4, <2>5, <2>6 DEF GuardedInv
<1> QED BY <1>1, <1>2, <1>3 DEF Next, SellProduct, vars, tables

LEMMA GuardedInit == Init => GuardedInv
BY NoneYet DEF GuardedInv, Alone, Known, Fresh, About

\* Guarded modifiers that bear the pair, updates about to give it to one, the modifiers
\* those are about, and creates about to store it.
Owned(word, type) == Called(word, type) \cap Guarded
Pairing(word, type) == {c \in Callers :
  /\ call[c].step = "mod.patch" /\ call[c].id \in Guarded \cap LiveMods
  /\ NameAfter(call[c].id, call[c].patch) = word
  /\ TypeAfter(call[c].id, call[c].patch) = type}
Paired(word, type) == {i \in Guarded : \E c \in Pairing(word, type) : call[c].id = i}
Adding(word, type) == {c \in Callers :
  call[c].step = "mod.insert" /\ call[c].row.name = word /\ call[c].row.type = type}

FewPairs == \A word \in Words, type \in Types :
  Few(Owned(word, type) \cup Paired(word, type), Adding(word, type))

LEMMA PairKept ==
  ASSUME FewPairs, NEW word \in Words, NEW type \in Types,
         Owned(word, type)' \subseteq Owned(word, type) \cup Paired(word, type),
         Paired(word, type)' \subseteq Owned(word, type) \cup Paired(word, type),
         Adding(word, type)' \subseteq Adding(word, type)
  PROVE  Few(Owned(word, type)' \cup Paired(word, type)', Adding(word, type)')
<1> DEFINE X == Owned(word, type) \cup Paired(word, type)
           Y == Owned(word, type)' \cup Paired(word, type)'
           B == Adding(word, type)
           C == Adding(word, type)'
<1>1. Few(X, B)
  BY DEF FewPairs
<1>2. B \subseteq Callers /\ Y \subseteq X /\ C \subseteq B
  BY DEF Adding
<1> HIDE DEF X, Y, B, C
<1>3. Few(Y, C)
  BY <1>1, <1>2, Fewer
<1> QED BY <1>3 DEF Y, C

LEMMA PairSettles ==
  ASSUME FewPairs, NEW word \in Words, NEW type \in Types, NEW i, NEW c \in Adding(word, type),
         Owned(word, type)' \subseteq Owned(word, type) \cup {i},
         Paired(word, type)' \subseteq Paired(word, type),
         Adding(word, type)' \subseteq Adding(word, type) \ {c}
  PROVE  Few(Owned(word, type)' \cup Paired(word, type)', Adding(word, type)')
<1> DEFINE X == Owned(word, type) \cup Paired(word, type)
           Y == Owned(word, type)' \cup Paired(word, type)'
           B == Adding(word, type)
           C == Adding(word, type)'
           Z == X \cup {i}
           D == B \ {c}
<1>1. Few(X, B)
  BY DEF FewPairs
<1>2. B \subseteq Callers /\ D \subseteq Callers
  BY DEF Adding
<1>3. Y \subseteq Z /\ C \subseteq D
  OBVIOUS
<1>4. c \in B
  OBVIOUS
<1> HIDE DEF X, Y, B, C
<1>5. Few(Z, D)
  BY <1>1, <1>2, <1>4, Settles
<1> HIDE DEF Z, D
<1>6. Few(Y, C)
  BY <1>2, <1>3, <1>5, Fewer
<1> QED BY <1>6 DEF Y, C

LEMMA PairHeld ==
  ASSUME NEW word, NEW type, Owned(word, type)' \subseteq Paired(word, type)'
  PROVE  Few(Owned(word, type)' \cup Paired(word, type)', Adding(word, type)')
<1> DEFINE f == [c \in Callers |-> call'[c].id]
           A == Pairing(word, type)'
           B == Adding(word, type)'
           X == Owned(word, type)' \cup Paired(word, type)'
<1>1. A \subseteq Callers /\ B \subseteq Callers /\ A \cap B = {}
  BY DEF Pairing, Adding
<1>2. \A i \in X : \E c \in A : f[c] = i
  BY <1>1 DEF Paired
<1> HIDE DEF f, A, B, X
<1>3. Few(X, B)
  BY <1>1, <1>2, OnlyRequests
<1> QED BY <1>3 DEF X, B

\* An update in flight about a guarded modifier is still about to give it the same pair.
LEMMA OthersPair ==
  ASSUME GuardedInv, TypeOK, NEW c \in Callers, BeginCall(c) \/ Step(c) \/ Abort(c),
         NEW word, NEW type, NEW d \in Callers, d # c, d \in Pairing(word, type)'
  PROVE  d \in Pairing(word, type) /\ call'[d].id = call[d].id
<1>0. call \in [Callers -> MenuCalls] /\ Gentle(c)
  BY Tables, GentleSteps
<1> DEFINE i == call[d].id
<1>1. call'[d] = call[d]
  BY <1>0 DEF Gentle
<1>2. /\ call[d].step = "mod.patch" /\ i \in Guarded /\ i \in LiveMods'
      /\ Given(mod'[i].name, call[d].patch.name) = word
      /\ Given(mod'[i].type, call[d].patch.type) = type
  BY <1>1 DEF Pairing, NameAfter, TypeAfter
<1>3. i \in About(d) /\ i \in ModIds
  BY <1>2 DEF About, LiveMods
<1>4. i \notin About(c) /\ mod[i] # NoRow
  BY <1>3 DEF GuardedInv, Alone, Known
<1>5. i \in LiveMods
  BY <1>0, <1>2, <1>3, <1>4 DEF Gentle, LiveMods, Vacant
<1>6. mod'[i] = mod[i]
  BY <1>0, <1>2, <1>4, <1>5 DEF Gentle
<1> QED BY <1>1, <1>2, <1>5, <1>6 DEF Pairing, NameAfter, TypeAfter

\* A step that leaves its request with neither an update nor a create to do.
LEMMA PairsAfter ==
  ASSUME FewPairs, GuardedInv, TypeOK, NEW c \in Callers, BeginCall(c) \/ Step(c) \/ Abort(c),
         NEW word \in Words, NEW type \in Types,
         c \in Pairing(word, type)' => call'[c].id \in Owned(word, type),
         c \notin Adding(word, type)',
         Owned(word, type)' \subseteq Owned(word, type) \cup Paired(word, type)
  PROVE  Few(Owned(word, type)' \cup Paired(word, type)', Adding(word, type)')
<1>1. Paired(word, type)' \subseteq Owned(word, type) \cup Paired(word, type)
  <2> SUFFICES ASSUME NEW i \in Guarded, NEW d \in Pairing(word, type)', call'[d].id = i
               PROVE  i \in Owned(word, type) \cup Paired(word, type)
    BY DEF Paired
  <2>1. d \in Callers
    BY DEF Pairing
  <2>2. CASE d # c
    BY <2>1, <2>2, OthersPair DEF Paired
  <2> QED BY <2>2
<1>2. Adding(word, type)' \subseteq Adding(word, type)
  <2>1. \A d \in Callers : d # c => call'[d] = call[d]
    BY GentleSteps, Tables DEF Gentle
  <2> QED BY <2>1 DEF Adding
<1> QED BY <1>1, <1>2, PairKept

LEMMA PairSteps ==
  ASSUME TypeOK, NEW c \in Callers, BeginCall(c) \/ Step(c) \/ Abort(c)
  PROVE  \/ mod' = mod /\ call'[c].step \notin {"mod.patch", "mod.insert"}
         \/ \E w \in Words, t \in Types, active \in Flags \cup {TRUE} : ModifierRead(c, w, t, active)
         \/ \E i \in ModIds, patch \in ModPatches : ModifierPatchRead(c, i, patch)
         \/ ModifierCheck(c) /\ Called(call[c].name, call[c].type) \subseteq {call[c].id}
         \/ ModifierInsert(c)
         \/ ModifierPatch(c) \/ ModifierHide(c) \/ ModifierDelete(c)
<1>0. call \in [Callers -> MenuCalls]
  BY Tables
<1> DEFINE Quiet == mod' = mod /\ call'[c].step \notin {"mod.patch", "mod.insert"}
<1>1. ASSUME End(c), mod' = mod PROVE Quiet
  BY <1>0, <1>1 DEF End, Idle
<1>2. ASSUME CategoryBegin(c) PROVE Quiet
  <2>1. ASSUME NEW word, NEW place, NEW active, CategoryRead(c, word, place, active) PROVE Quiet
    <3>1. call'[c] \in {[step |-> "cat.order", name |-> word, active |-> active],
                        InsertPlaced(NewCategory(word, place, active))} /\ mod' = mod
      BY <1>0, <2>1 DEF CategoryRead, Start, tables
    <3> QED BY <3>1 DEF InsertPlaced
  <2>2. ASSUME NEW i, CategoryRemoveRead(c, i) PROVE Quiet
    BY <1>0, <2>2 DEF CategoryRemoveRead, Start, tables
  <2>3. ASSUME NEW i, NEW patch, CategoryPatchRead(c, i, patch) PROVE Quiet
    BY <1>0, <2>3 DEF CategoryPatchRead, Start, tables
  <2>4. ASSUME NEW i, NEW place, CategoryReorderRead(c, i, place) PROVE Quiet
    BY <1>0, <2>4 DEF CategoryReorderRead, Start, tables
  <2> QED BY <1>2, <2>1, <2>2, <2>3, <2>4 DEF CategoryBegin
<1>3. ASSUME CategoryOrder(c) PROVE Quiet
  BY <1>0, <1>3 DEF CategoryOrder, Insert, tables
<1>4. ASSUME ProductBegin(c) PROVE Quiet
  <2>1. ASSUME NEW p, ProductRemoveRead(c, p) PROVE Quiet
    BY <1>0, <2>1 DEF ProductRemoveRead, Start, tables
  <2>2. ASSUME NEW category, NEW sku, NEW active, ProductRead(c, category, sku, active) PROVE Quiet
    BY <1>0, <2>2 DEF ProductRead, Start, tables
  <2>3. ASSUME NEW p, NEW patch, ProductPatchRead(c, p, patch) PROVE Quiet
    BY <1>0, <2>3 DEF ProductPatchRead, Start, tables
  <2> QED BY <1>4, <2>1, <2>2, <2>3 DEF ProductBegin
<1>5. ASSUME NEW i, ModifierRemoveRead(c, i) PROVE Quiet
  BY <1>0, <1>5 DEF ModifierRemoveRead, Start, tables
<1>6. ASSUME ModifierCheck(c), ~(Called(call[c].name, call[c].type) \subseteq {call[c].id}) PROVE Quiet
  BY <1>0, <1>6 DEF ModifierCheck, Idle, tables
<1> HIDE DEF Quiet
<1>7. ASSUME CategoryStep(c) \/ ProductStep(c) \/ Abort(c) PROVE Quiet
  BY <1>1, <1>3, <1>7 DEF CategoryStep, CategoryInsert, CategoryPatch, CategoryHide, CategoryDelete,
     ProductStep, ProductInsert, ProductPatch, ProductHide, ProductDelete, Abort, Fail, tables
<1>8. CASE ModifierBegin(c)
  BY <1>5, <1>8 DEF ModifierBegin, Quiet
<1>9. CASE ModifierStep(c)
  BY <1>6, <1>9 DEF ModifierStep, Quiet
<1> QED BY <1>2, <1>4, <1>7, <1>8, <1>9 DEF BeginCall, Step, Quiet

LEMMA PairsPreserved == FewPairs /\ GuardedInv /\ TypeOK /\ [Next]_vars => FewPairs'
<1> SUFFICES ASSUME FewPairs, GuardedInv, TypeOK, [Next]_vars, NEW word \in Words, NEW type \in Types
             PROVE  Few(Owned(word, type)' \cup Paired(word, type)', Adding(word, type)')
  BY DEF FewPairs
<1>0. call \in [Callers -> MenuCalls] /\ mod \in ModTable
  BY Tables
<1>1. ASSUME UNCHANGED <<mod, call>>
      PROVE  Few(Owned(word, type)' \cup Paired(word, type)', Adding(word, type)')
  BY <1>1, PairKept
     DEF Owned, Called, LiveMods, Paired, Pairing, NameAfter, TypeAfter, Adding
<1>2. ASSUME NEW i \in ModIds, SellModifier(i)
      PROVE  Few(Owned(word, type)' \cup Paired(word, type)', Adding(word, type)')
  <2>1. mod[i] \in Mods /\ mod' = [mod EXCEPT ![i].sold = TRUE] /\ UNCHANGED call /\ i \in LiveMods
    BY <1>2, LiveRows DEF SellModifier
  <2>2. mod'[i].name = mod[i].name /\ mod'[i].type = mod[i].type
    BY <1>0, <2>1 DEF Mods, ModTable
  <2>3. \A j \in ModIds : j # i => mod'[j] = mod[j]
    BY <1>0, <2>1 DEF ModTable
  <2>4. \A j \in LiveMods' :
          j \in LiveMods /\ mod'[j].name = mod[j].name /\ mod'[j].type = mod[j].type
    BY <2>1, <2>2, <2>3 DEF LiveMods
  <2>5. /\ Owned(word, type)' \subseteq Owned(word, type)
        /\ Pairing(word, type)' \subseteq Pairing(word, type)
        /\ Adding(word, type)' \subseteq Adding(word, type)
    BY <2>1, <2>4 DEF Owned, Called, Pairing, NameAfter, TypeAfter, Adding
  <2>6. Paired(word, type)' \subseteq Paired(word, type)
    BY <2>1, <2>5 DEF Paired
  <2> QED BY <2>5, <2>6, PairKept
<1>3. ASSUME NEW c \in Callers, BeginCall(c) \/ Step(c) \/ Abort(c)
      PROVE  Few(Owned(word, type)' \cup Paired(word, type)', Adding(word, type)')
  <2>0. \A d \in Callers : d # c => call'[d] = call[d]
    BY <1>0, <1>3, GentleSteps DEF Gentle
  <2>1. ASSUME mod' = mod, call'[c].step \notin {"mod.patch", "mod.insert"}
        PROVE  Few(Owned(word, type)' \cup Paired(word, type)', Adding(word, type)')
    <3>1. /\ Owned(word, type)' = Owned(word, type)
          /\ c \notin Pairing(word, type)' /\ c \notin Adding(word, type)'
      BY <2>1 DEF Owned, Called, LiveMods, Pairing, Adding
    <3> QED BY <1>3, <3>1, PairsAfter
  <2>2. ASSUME NEW w \in Words, NEW t \in Types, NEW active, ModifierRead(c, w, t, active)
        PROVE  Few(Owned(word, type)' \cup Paired(word, type)', Adding(word, type)')
    <3>1. /\ Owned(word, type)' = Owned(word, type) /\ call'[c].step = "mod.insert"
          /\ call'[c].row.name = w /\ call'[c].row.type = t
      BY <1>0, <2>2 DEF ModifierRead, tables, Start, Owned, Called, LiveMods
    <3>2. CASE w = word /\ t = type
      <4>1. Owned(word, type)' = {}
        BY <2>2, <3>1, <3>2 DEF ModifierRead, Owned
      <4> QED BY <4>1, PairHeld
    <3>3. CASE w # word \/ t # type
      <4>1. c \notin Pairing(word, type)' /\ c \notin Adding(word, type)'
        BY <3>1, <3>3 DEF Pairing, Adding
      <4> QED BY <1>3, <3>1, <4>1, PairsAfter
    <3> QED BY <3>2, <3>3
  <2>3. ASSUME NEW i \in ModIds, NEW patch \in ModPatches, ModifierPatchRead(c, i, patch)
        PROVE  Few(Owned(word, type)' \cup Paired(word, type)', Adding(word, type)')
    <3>1. Owned(word, type)' = Owned(word, type) /\ c \notin Adding(word, type)'
      BY <2>3, PickedMoves DEF Owned, Called, LiveMods, Adding
    <3>2. c \in Pairing(word, type)' => call'[c].id \in Owned(word, type)
      <4> SUFFICES ASSUME c \in Pairing(word, type)' PROVE i \in Owned(word, type)
        BY <2>3, PickedMoves
      <4>1. /\ call'[c].step = "mod.patch" /\ i \in Guarded
            /\ Given(mod[i].name, patch.name) = word /\ Given(mod[i].type, patch.type) = type
        BY <2>3, PickedMoves DEF Pairing, NameAfter, TypeAfter
      <4> QED BY <2>3, <4>1, PickedMoves DEF NameAfter, TypeAfter, Owned, Called
    <3> QED BY <1>3, <3>1, <3>2, PairsAfter
  <2>4. ASSUME ModifierCheck(c), Called(call[c].name, call[c].type) \subseteq {call[c].id}
        PROVE  Few(Owned(word, type)' \cup Paired(word, type)', Adding(word, type)')
    <3>1. /\ call'[c] = [step |-> "mod.patch", id |-> call[c].id, patch |-> call[c].patch]
          /\ mod' = mod /\ call[c].step = "mod.check"
      BY <1>0, <2>4 DEF ModifierCheck, tables
    <3>2. Owned(word, type)' = Owned(word, type) /\ c \notin Adding(word, type)'
      BY <3>1 DEF Owned, Called, LiveMods, Adding
    <3>3. CASE c \notin Pairing(word, type)'
      BY <1>3, <3>2, <3>3, PairsAfter
    <3>4. CASE c \in Pairing(word, type)'
      <4>1. /\ call[c].id \in Guarded \cap LiveMods
            /\ NameAfter(call[c].id, call[c].patch) = word
            /\ TypeAfter(call[c].id, call[c].patch) = type
        BY <3>1, <3>4 DEF Pairing, NameAfter, TypeAfter, LiveMods
      <4>2. call[c].name = word /\ call[c].type = type
        BY <3>1, <4>1 DEF GuardedInv, Fresh
      <4>3. Owned(word, type) \subseteq {call[c].id}
        BY <2>4, <4>2 DEF Owned
      <4>4. call[c].id \in Paired(word, type)'
        BY <3>1, <3>4, <4>1 DEF Paired
      <4> QED BY <3>2, <4>3, <4>4, PairHeld
    <3> QED BY <3>3, <3>4
  <2>5. ASSUME ModifierInsert(c)
        PROVE  Few(Owned(word, type)' \cup Paired(word, type)', Adding(word, type)')
    <3> PICK i \in ModIds : mod[i] = NoRow /\ mod' = [mod EXCEPT ![i] = call[c].row]
      BY <2>5 DEF ModifierInsert
    <3>1. c \notin Pairing(word, type)' /\ c \notin Adding(word, type)'
      BY <1>0, <2>5 DEF ModifierInsert, End, Idle, Pairing, Adding
    <3>2. CASE c \in Adding(word, type)
      <4>1. Owned(word, type)' \subseteq Owned(word, type) \cup {i}
        BY <1>0 DEF Owned, Called, LiveMods, ModTable
      <4>2. Paired(word, type)' \subseteq Paired(word, type)
        <5> SUFFICES ASSUME NEW j \in Guarded, NEW d \in Pairing(word, type)', call'[d].id = j
                     PROVE  j \in Paired(word, type)
          BY DEF Paired
        <5>1. d \in Callers /\ d # c
          BY <3>1 DEF Pairing
        <5> QED BY <1>3, <5>1, OthersPair DEF Paired
      <4>3. Adding(word, type)' \subseteq Adding(word, type) \ {c}
        BY <2>0, <3>1 DEF Adding
      <4> QED BY <3>2, <4>1, <4>2, <4>3, PairSettles
    <3>3. CASE c \notin Adding(word, type)
      <4>1. call[c].row.name # word \/ call[c].row.type # type
        BY <2>5, <3>3 DEF ModifierInsert, Adding
      <4>2. Owned(word, type)' \subseteq Owned(word, type)
        BY <1>0, <4>1 DEF Owned, Called, LiveMods, ModTable
      <4> QED BY <1>3, <3>1, <4>2, PairsAfter
    <3> QED BY <3>2, <3>3
  <2>6. ASSUME ModifierPatch(c) \/ ModifierHide(c) \/ ModifierDelete(c)
        PROVE  Few(Owned(word, type)' \cup Paired(word, type)', Adding(word, type)')
    <3>1. c \notin Pairing(word, type)' /\ c \notin Adding(word, type)'
      BY <1>0, <2>6 DEF ModifierPatch, ModifierHide, ModifierDelete, End, Idle, Pairing, Adding
    <3>2. Owned(word, type)' \subseteq Owned(word, type) \cup Paired(word, type)
      <4>1. CASE ModifierPatch(c)
        <5> DEFINE i == call[c].id
        <5>1. PatchedModifier(mod[i], call[c].patch).name = NameAfter(i, call[c].patch)
              /\ PatchedModifier(mod[i], call[c].patch).type = TypeAfter(i, call[c].patch)
          BY DEF PatchedModifier, NameAfter, TypeAfter
        <5>2. \A j \in LiveMods' : j \in LiveMods /\ (j # i => mod'[j] = mod[j])
          BY <1>0, <4>1 DEF ModifierPatch, LiveMods, ModTable
        <5>3. ASSUME i \in Owned(word, type)', i \in LiveMods PROVE i \in Paired(word, type)
          <6>1. mod'[i] = PatchedModifier(mod[i], call[c].patch)
            BY <1>0, <4>1, <5>3 DEF ModifierPatch, LiveMods, ModTable
          <6>2. mod'[i].name = word /\ mod'[i].type = type /\ i \in Guarded
            BY <5>3 DEF Owned, Called
          <6>3. c \in Pairing(word, type)
            BY <4>1, <5>1, <5>3, <6>1, <6>2 DEF ModifierPatch, Pairing
          <6> QED BY <6>2, <6>3 DEF Paired
        <5>4. \A j \in Owned(word, type)' : j # i => j \in Owned(word, type)
          BY <5>2 DEF Owned, Called
        <5>5. \A j \in Owned(word, type)' : j \in LiveMods
          BY <5>2 DEF Owned, Called
        <5> QED BY <5>3, <5>4, <5>5
      <4>2. CASE ModifierHide(c)
        <5>1. \A j \in LiveMods : [mod[j] EXCEPT !.active = FALSE].name = mod[j].name
                               /\ [mod[j] EXCEPT !.active = FALSE].type = mod[j].type
          BY LiveRows DEF Mods
        <5> QED BY <1>0, <4>2, <5>1 DEF ModifierHide, Owned, Called, LiveMods, ModTable
      <4>3. CASE ModifierDelete(c)
        BY <1>0, <4>3 DEF ModifierDelete, Owned, Called, LiveMods, ModTable, Vacant
      <4> QED BY <2>6, <4>1, <4>2, <4>3
    <3> QED BY <1>3, <3>1, <3>2, PairsAfter
  <2> QED BY <1>3, <2>1, <2>2, <2>3, <2>4, <2>5, <2>6, PairSteps
<1> QED BY <1>1, <1>2, <1>3 DEF Next, SellProduct, vars, tables

LEMMA PairsInit == Init => FewPairs
<1> SUFFICES ASSUME Init, NEW word \in Words, NEW type \in Types
             PROVE  Few(Owned(word, type) \cup Paired(word, type), Adding(word, type))
  BY DEF FewPairs
<1>1. Owned(word, type) \cup Paired(word, type) = {} /\ Adding(word, type) \subseteq Callers
  BY NoneYet DEF Owned, Called, Paired, Pairing, Adding
<1> QED BY <1>1, NoRows

LEMMA PairsBounded == FewPairs => FewShareAPair
<1> SUFFICES ASSUME FewPairs, NEW word \in Words, NEW type \in Types
             PROVE  Cardinality(Owned(word, type)) <= Cardinality(Callers)
  BY DEF FewShareAPair, Owned
<1> DEFINE X == Owned(word, type) \cup Paired(word, type)
           N == Owned(word, type)
<1>1. Few(X, Adding(word, type))
  BY DEF FewPairs
<1>2. Adding(word, type) \subseteq Callers /\ N \subseteq X
  BY DEF Adding
<1> HIDE DEF X, N
<1>3. Few(N, {})
  BY <1>1, <1>2, Fewer
<1>4. Cardinality(N) \in Nat /\ Cardinality({}) = 0
  BY <1>3, FS_CardinalityType, FS_EmptySet DEF Few
<1> QED BY <1>3, <1>4 DEF Few, N

(***************************************************************************)
(* With one request in flight about each guarded modifier, and whatever    *)
(* happens to the others, a name and type is shared by no more guarded     *)
(* modifiers than requests can be in flight (ModifiersService create,      *)
(* 15-43; update, 176-221).                                                *)
(***************************************************************************)
THEOREM FewModifiersShareAPair == Spec => []FewShareAPair
<1>1. Init => FewPairs /\ GuardedInv /\ TypeOK
  BY PairsInit, GuardedInit, TypeInit
<1>2. FewPairs /\ GuardedInv /\ TypeOK /\ [Next]_vars => (FewPairs /\ GuardedInv /\ TypeOK)'
  BY PairsPreserved, GuardedPreserved, TypePreserved
<1> QED BY <1>1, <1>2, PairsBounded, PTL DEF Spec
=============================================================================
