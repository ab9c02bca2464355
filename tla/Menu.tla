--------------------------------- MODULE Menu ---------------------------------
(***************************************************************************)
(* The three services of the menu over one database.                       *)
(***************************************************************************)
EXTENDS Categories, Products, Modifiers

Abort(c) == Fail(c) /\ UNCHANGED tables

BeginCall(c) == CategoryBegin(c) \/ ProductBegin(c) \/ ModifierBegin(c)
Step(c) == CategoryStep(c) \/ ProductStep(c) \/ ModifierStep(c)

Init ==
  /\ cat = [i \in CatIds |-> NoRow]
  /\ prod = [i \in ProdIds |-> NoRow]
  /\ mod = [i \in ModIds |-> NoRow]
  /\ HandlersInit

Next ==
  \/ \E c \in Callers : BeginCall(c) \/ Step(c) \/ Abort(c)
  \/ \E p \in ProdIds : SellProduct(p)
  \/ \E i \in ModIds : SellModifier(i)

Spec == Init /\ [][Next]_vars

-----------------------------------------------------------------------------
(***************************************************************************)
(* The look-up of a name and the write that takes it are two statements,   *)
(* and no index keeps names unique.  Whatever requests overtake each       *)
(* other, a name is never shared by more categories than requests can be   *)
(* in flight; with one at a time names are unique (create, 17-30; update,  *)
(* 161-177).                                                               *)
(***************************************************************************)
FewShareAName == \A word \in Words : Cardinality(Named(word)) <= Cardinality(Callers)

PutAt(place) == {i \in LiveCats \ Placed : cat[i].place = place}

(***************************************************************************)
(* Categories that no client places by hand are put at the end.  No more   *)
(* of them than requests can be in flight ever share a place, although the *)
(* others are moved about and deletions lower the end (create, 33-50).     *)
(***************************************************************************)
FewShareAPlace == \A i \in LiveCats : Cardinality(PutAt(cat[i].place)) <= Cardinality(Callers)

(***************************************************************************)
(* A name and type is never shared by more guarded modifiers than requests *)
(* can be in flight, whatever clients do to the others.  Two requests      *)
(* about one modifier, one changing its name and one its type, would each  *)
(* pass a check of a pair that it never comes to have (update, 187-220).   *)
(***************************************************************************)
FewShareAPair == \A word \in Words, type \in Types :
  Cardinality(Called(word, type) \cap Guarded) <= Cardinality(Callers)
=============================================================================
