------------------------------ MODULE StockStore ------------------------------
(***************************************************************************)
(* The tables of the stock room - suppliers, items, movements, recipes     *)
(* with their ingredients - and the handlers in flight over them.          *)
(*                                                                         *)
(* Codes of suppliers and items are left out: an index keeps them unique,  *)
(* and a request that names one taken is refused and changes nothing.  So  *)
(* are names, costs and units, and the quantity of an ingredient: no check *)
(* reads them.  The stock of an item is the currentStock that the movements *)
(* service reads; the model InventoryItem of schema.prisma lacks it.       *)
(***************************************************************************)
EXTENDS Integers, Rows, Handlers

CONSTANTS
  SupIds, ItemIds, MoveIds, RecIds,   \* ids the four tables may ever hand out
  Lists,        \* ingredients that clients send, as sets of items
  Quantities,   \* quantities of movements
  MoveTypes,    \* types of movements that clients send
  Flags,        \* values of active that clients send
  Kept,         \* suppliers whose items are left alone while a removal is in flight
  Settled,      \* movements that clients never change
  Filling,      \* items whose stock is only raised outside the API
  Guarded,      \* recipes with at most one request in flight
  MaxStock,     \* bound on the stock of an item
  MaxRows       \* bound on the rows ever created

MovementType == {"IN", "OUT", "ADJUSTMENT", "TRANSFER"}

ASSUME StockAssumption ==
  /\ IsFiniteSet(SupIds) /\ IsFiniteSet(ItemIds) /\ IsFiniteSet(MoveIds) /\ IsFiniteSet(RecIds)
  /\ Lists \subseteq SUBSET ItemIds /\ Quantities \subseteq Nat \ {0}
  /\ MoveTypes \subseteq MovementType /\ Flags \subseteq BOOLEAN
  /\ Kept \subseteq SupIds /\ Settled \subseteq MoveIds /\ Guarded \subseteq RecIds
  /\ Filling \subseteq ItemIds
  /\ MaxStock \in Nat /\ MaxRows \in Nat
  /\ Null \notin SupIds
  /\ Absent \notin Nat \cup SupIds \cup {Null} \cup ItemIds \cup MovementType \cup BOOLEAN

VARIABLES
  sup,    \* the Supplier table
  item,   \* the InventoryItem table
  move,   \* the InventoryMovement table
  rec     \* the Recipe table, each row with the items of its ingredients

stocks == <<sup, item, move, rec>>

Sups == [active: BOOLEAN]
Items == [sup: OrNull(SupIds), stock: Nat, active: BOOLEAN]
Moves == [item: ItemIds, type: MovementType, quantity: Nat]
Recs == [items: SUBSET ItemIds]

MovePatches ==
  [item: Optional(ItemIds), type: Optional(MoveTypes), quantity: Optional(Quantities)]

StockCalls ==
  [step: {"sup.hide", "sup.delete"}, id: SupIds]
  \cup [step: {"item.hide", "item.delete"}, id: ItemIds]
  \cup [step: {"move.insert"}, row: Moves]
  \cup [step: {"rec.clear", "rec.store"}, id: RecIds, items: Lists]
  \cup [step: {"rec.delete"}, id: RecIds]

StocksTypeOK ==
  /\ sup \in [SupIds -> Sups \cup Vacant]
  /\ item \in [ItemIds -> Items \cup Vacant]
  /\ move \in [MoveIds -> Moves \cup Vacant]
  /\ rec \in [RecIds -> Recs \cup Vacant]

LiveSups == {s \in SupIds : sup[s] \notin Vacant}
LiveItems == {i \in ItemIds : item[i] \notin Vacant}
LiveMoves == {m \in MoveIds : move[m] \notin Vacant}
LiveRecs == {r \in RecIds : rec[r] \notin Vacant}

\* What refers to a row.
ItemsOf(s) == {i \in LiveItems : item[i].sup = s}
UsesOf(i) == {m \in LiveMoves : move[m].item = i} \cup {r \in LiveRecs : i \in rec[r].items}

\* Bounds.  All rows ever created, and those about to be.
EverRows ==
  Cardinality({s \in SupIds : sup[s] # NoRow}) + Cardinality({i \in ItemIds : item[i] # NoRow})
    + Cardinality({m \in MoveIds : move[m] # NoRow}) + Cardinality({r \in RecIds : rec[r] # NoRow})
Room ==
  EverRows + Cardinality({c \in Callers : call[c].step = "move.insert"}) < MaxRows
NothingStored == EverRows = 0
=============================================================================
