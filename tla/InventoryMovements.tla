--------------------------- MODULE InventoryMovements ---------------------------
(***************************************************************************)
(* InventoryMovementsService: create, update and remove.  Only an outgoing *)
(* movement is checked against the stock, in a statement before its        *)
(* insert; every other write is one action with its look-up.               *)
(***************************************************************************)
EXTENDS StockStore

\* A row for a movement, when the foreign key to the item admits one.
Recorded(row) ==
  IF row.item \in LiveItems
    THEN {[move EXCEPT ![m] = row] : m \in {m \in MoveIds : move[m] = NoRow}}
    ELSE {}

MovementCreate(row) ==
  /\ Room
  /\ row.type # "OUT"
  /\ move' \in Recorded(row)
  /\ UNCHANGED <<sup, item, rec, call>>

\* Mutant: the stock is not looked at.
MovementReadUnchecked(c, row) ==
  /\ Room
  /\ row.type = "OUT"
  /\ row.item \in LiveItems
  /\ Start(c, [step |-> "move.insert", row |-> row])
  /\ UNCHANGED stocks

MovementRead(c, row) ==
  /\ Room
  /\ row.type = "OUT"
  /\ row.item \in LiveItems
  /\ item[row.item].stock >= row.quantity
  /\ Start(c, [step |-> "move.insert", row |-> row])
  /\ UNCHANGED stocks

\* Throws when the item is gone.
MovementInsert(c) ==
  LET row == call[c].row IN
  /\ call[c].step = "move.insert"
  /\ IF row.item \in LiveItems THEN move' \in Recorded(row) ELSE move' = move
  /\ End(c)
  /\ UNCHANGED <<sup, item, rec>>

PatchedMovement(row, patch) ==
  [item |-> Given(row.item, patch.item), type |-> Given(row.type, patch.type),
   quantity |-> Given(row.quantity, patch.quantity)]

\* An update looks at no stock, whatever it makes of the movement.
MovementUpdate(m, patch) ==
  /\ m \in LiveMoves \ Settled
  /\ patch.item \in Optional(LiveItems)
  /\ move' = [move EXCEPT ![m] = PatchedMovement(@, patch)]
  /\ UNCHANGED <<sup, item, rec, call>>

MovementRemove(m) ==
  /\ m \in LiveMoves
  /\ move' = [move EXCEPT ![m] = GoneRow]
  /\ UNCHANGED <<sup, item, rec, call>>

NewMoves == [item: ItemIds, type: MoveTypes, quantity: Quantities]

MovementRequest ==
  \/ \E row \in NewMoves : MovementCreate(row)
  \/ \E m \in MoveIds :
       \/ \E patch \in MovePatches : MovementUpdate(m, patch)
       \/ MovementRemove(m)

MovementStep(c) ==
  \/ \E row \in NewMoves : MovementRead(c, row)
  \/ MovementInsert(c)
=============================================================================
