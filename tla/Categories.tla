------------------------------ MODULE Categories ------------------------------
(***************************************************************************)
(* CategoriesService: create, update, updateSortOrder and remove.          *)
(***************************************************************************)
EXTENDS MenuStore

Named(word) == {i \in LiveCats : cat[i].name = word}

-----------------------------------------------------------------------------
(* create *)

NewCategory(word, place, active) == [name |-> word, place |-> place, active |-> active]

\* A request with a place is for a category of Placed.
Insert(row) == [step |-> "cat.insert", row |-> row, ids |-> CatIds]
InsertPlaced(row) == [step |-> "cat.insert", row |-> row, ids |-> Placed]

\* Mutant: the name is not looked up.
CategoryReadUnchecked(c, word, place, active) ==
  /\ RoomOnShelf
  /\ Start(c, IF place = Absent
                THEN [step |-> "cat.order", name |-> word, active |-> active]
                ELSE InsertPlaced(NewCategory(word, place, active)))
  /\ UNCHANGED tables

\* The look-up of the name.  The place found next is used only if the request has none.
CategoryRead(c, word, place, active) ==
  /\ RoomOnShelf
  /\ Named(word) = {}
  /\ Start(c, IF place = Absent
                THEN [step |-> "cat.order", name |-> word, active |-> active]
                ELSE InsertPlaced(NewCategory(word, place, active)))
  /\ UNCHANGED tables

\* Mutant: the highest place is taken again.
TakenPlaces ==
  IF LiveCats = {} THEN {1}
  ELSE {cat[i].place : i \in {j \in LiveCats : \A n \in LiveCats : cat[n].place <= cat[j].place}}

\* One more than the highest place there is, counting from 0.
NextPlaces ==
  IF LiveCats = {} THEN {1}
  ELSE {cat[i].place + 1 : i \in {j \in LiveCats : \A n \in LiveCats : cat[n].place <= cat[j].place}}

CategoryOrder(c) ==
  LET k == call[c] IN
  /\ k.step = "cat.order"
  /\ \E place \in NextPlaces :
       call' = [call EXCEPT ![c] = Insert(NewCategory(k.name, place, k.active))]
  /\ UNCHANGED tables

CategoryInsert(c) ==
  LET k == call[c] IN
  /\ k.step = "cat.insert"
  /\ \E i \in k.ids : cat[i] = NoRow /\ cat' = [cat EXCEPT ![i] = k.row]
  /\ End(c)
  /\ UNCHANGED <<prod, mod>>

-----------------------------------------------------------------------------
(* update and updateSortOrder *)

\* A new name is looked up among the other categories.  It is not when it equals the
\* name on record to the letter; in other letters it is the same word.
CategoryPatchRead(c, i, patch) ==
  /\ i \in LiveCats
  /\ patch.place # Absent => i \in Placed
  /\ patch.name \in {Absent, cat[i].name} \/ Named(patch.name) \subseteq {i}
  /\ Start(c, [step |-> "cat.patch", id |-> i, patch |-> patch])
  /\ UNCHANGED tables

\* Mutant: the place is written even when the request has none.
PatchedCategoryPlace(row, patch) ==
  [name |-> Given(row.name, patch.name),
   place |-> patch.place,
   active |-> Given(row.active, patch.active)]

PatchedCategory(row, patch) ==
  [name |-> Given(row.name, patch.name),
   place |-> Given(row.place, patch.place),
   active |-> Given(row.active, patch.active)]

\* Sending a category to a place is an update of nothing else.
CategoryReorderRead(c, i, place) ==
  /\ i \in LiveCats \cap Placed
  /\ Start(c, [step |-> "cat.patch", id |-> i,
               patch |-> [name |-> Absent, place |-> place, active |-> Absent]])
  /\ UNCHANGED tables

CategoryPatch(c) ==
  LET k == call[c] IN
  /\ k.step = "cat.patch"
  /\ cat' = IF k.id \in LiveCats THEN [cat EXCEPT ![k.id] = PatchedCategory(@, k.patch)] ELSE cat
  /\ End(c)
  /\ UNCHANGED <<prod, mod>>

-----------------------------------------------------------------------------
(* remove *)

Products(i) == {p \in LiveProds : prod[p].cat = i}

\* A category with products is hidden, one without is deleted.
CategoryRemoveRead(c, i) ==
  /\ i \in LiveCats
  /\ Start(c, [step |-> IF Products(i) = {} THEN "cat.delete" ELSE "cat.hide", id |-> i])
  /\ UNCHANGED tables

CategoryHide(c) ==
  LET k == call[c] IN
  /\ k.step = "cat.hide"
  /\ cat' = IF k.id \in LiveCats THEN [cat EXCEPT ![k.id].active = FALSE] ELSE cat
  /\ End(c)
  /\ UNCHANGED <<prod, mod>>

\* A product that arrived meanwhile refers to the row: the delete throws.
CategoryDelete(c) ==
  LET k == call[c] IN
  /\ k.step = "cat.delete"
  /\ cat' = IF k.id \in LiveCats /\ Products(k.id) = {}
              THEN [cat EXCEPT ![k.id] = GoneRow]
              ELSE cat
  /\ End(c)
  /\ UNCHANGED <<prod, mod>>

CategoryBegin(c) ==
  \/ \E word \in Words, place \in Optional(Places), active \in Flags \cup {TRUE} :
       CategoryRead(c, word, place, active)
  \/ \E i \in CatIds :
       \/ \E patch \in CatPatches : CategoryPatchRead(c, i, patch)
       \/ \E place \in Places : CategoryReorderRead(c, i, place)
       \/ CategoryRemoveRead(c, i)

CategoryStep(c) ==
  \/ CategoryOrder(c)
  \/ CategoryInsert(c)
  \/ CategoryPatch(c)
  \/ CategoryHide(c)
  \/ CategoryDelete(c)
=============================================================================
