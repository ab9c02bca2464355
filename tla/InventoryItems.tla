----------------------------- MODULE InventoryItems -----------------------------
(***************************************************************************)
(* InventoryItemsService: create, update and remove.  The look-ups of      *)
(* create and update refuse nothing that their write does not refuse too,  *)
(* so each is one action; remove decides in one statement and acts in      *)
(* another.                                                                *)
(***************************************************************************)
EXTENDS StockStore

\* The items of a supplier that is kept are left alone while it is being removed.
Open(s) == s \in Kept => \A c \in Callers :
  ~(call[c].step \in {"sup.hide", "sup.delete"} /\ call[c].id = s)

\* What the foreign key to the supplier admits.
Supplies(s) == s \in OrNull(LiveSups) /\ Open(s)

ItemCreate(s) ==
  /\ Room
  /\ Supplies(s)
  /\ \E i \in ItemIds :
       /\ item[i] = NoRow
       /\ item' = [item EXCEPT ![i] = [sup |-> s, stock |-> 0, active |-> TRUE]]
  /\ UNCHANGED <<sup, move, rec, call>>

PatchedItem(row, s, active) ==
  [sup |-> Given(row.sup, s), stock |-> row.stock, active |-> Given(row.active, active)]

ItemUpdate(i, s, active) ==
  /\ i \in LiveItems
  /\ s # Absent => Supplies(s)
  /\ item' = [item EXCEPT ![i] = PatchedItem(@, s, active)]
  /\ UNCHANGED <<sup, move, rec, call>>

\* An item of a recipe or a movement is hidden, any other is deleted.
ItemRemoveRead(c, i) ==
  /\ i \in LiveItems
  /\ Start(c, [step |-> IF UsesOf(i) # {} THEN "item.hide" ELSE "item.delete", id |-> i])
  /\ UNCHANGED stocks

ItemHide(c) ==
  LET i == call[c].id IN
  /\ call[c].step = "item.hide"
  /\ item' = IF i \in LiveItems THEN [item EXCEPT ![i].active = FALSE] ELSE item
  /\ End(c)
  /\ UNCHANGED <<sup, move, rec>>

\* What refers to the item by now makes the delete throw.
ItemDelete(c) ==
  LET i == call[c].id IN
  /\ call[c].step = "item.delete"
  /\ item' = IF i \in LiveItems /\ UsesOf(i) = {} THEN [item EXCEPT ![i] = GoneRow] ELSE item
  /\ End(c)
  /\ UNCHANGED <<sup, move, rec>>

\* Nothing in the API writes the stock of an item.
SetStock(i, stock) ==
  /\ i \in LiveItems
  /\ i \in Filling => stock >= item[i].stock
  /\ item' = [item EXCEPT ![i].stock = stock]
  /\ UNCHANGED <<sup, move, rec, call>>

ItemRequest ==
  \/ \E s \in OrNull(SupIds) : ItemCreate(s)
  \/ \E i \in ItemIds :
       \/ \E s \in Optional(OrNull(SupIds)), active \in Optional(Flags) :
            ItemUpdate(i, s, active)
       \/ \E stock \in 0..MaxStock : SetStock(i, stock)

ItemStep(c) ==
  \/ \E i \in ItemIds : ItemRemoveRead(c, i)
  \/ ItemHide(c)
  \/ ItemDelete(c)
=============================================================================
